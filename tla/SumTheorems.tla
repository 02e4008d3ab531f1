---------------------------- MODULE SumTheorems ----------------------------
(***************************************************************************)
(* Sums over finite sets, as Functions defines them (SumFunctionOnSet), and *)
(* the induction they need.  The library states induction for a predicate   *)
(* P(_); here it is about membership in a set, which the provers can use.   *)
(***************************************************************************)
EXTENDS Functions, FiniteSetTheorems, TLAPS

-----------------------------------------------------------------------------
(* Induction over the subsets of a finite set: a set B that holds T when it *)
(* holds every proper subset of T holds them all.                           *)
LEMMA SubsetInduction ==
  ASSUME NEW S, IsFiniteSet(S), NEW B,
         \A T \in SUBSET S : (\A U \in SUBSET T : U # T => U \in B) => T \in B
  PROVE  SUBSET S \subseteq B
<1> DEFINE Bad == {T \in SUBSET S : T \notin B}
<1>1. IsWellFoundedOn(StrictSubsetOrdering(S), SUBSET S)
  BY FS_StrictSubsetOrderingWellFounded, FS_FiniteSubsetsOfFinite
<1>2. SUFFICES ASSUME Bad # {} PROVE FALSE
  OBVIOUS
<1>3. PICK T \in Bad : \A U \in Bad : <<U, T>> \notin StrictSubsetOrdering(S)
  <2>1. Bad \subseteq SUBSET S
    OBVIOUS
  <2> HIDE DEF Bad
  <2> QED
    BY <1>1, <1>2, <2>1, WFMin
<1>4. \A U \in SUBSET T : U # T => U \in B
  <2> SUFFICES ASSUME NEW U \in SUBSET T, U # T, U \notin B PROVE FALSE
    OBVIOUS
  <2>1. U \in Bad /\ T \in SUBSET S /\ U \in SUBSET S
    OBVIOUS
  <2>2. <<U, T>> \in StrictSubsetOrdering(S)
    BY <2>1 DEF StrictSubsetOrdering
  <2> QED
    BY <1>3, <2>1, <2>2
<1> QED
  BY <1>4

(* The same, an element at a time. *)
LEMMA ElementInduction ==
  ASSUME NEW S, IsFiniteSet(S), NEW B, {} \in B,
         \A T \in SUBSET S : \A x \in S \ T : T \in B => T \cup {x} \in B
  PROVE  S \in B
<1>1. ASSUME NEW T \in SUBSET S, \A U \in SUBSET T : U # T => U \in B
      PROVE  T \in B
  <2>1. CASE T = {}
    BY <2>1
  <2>2. ASSUME NEW x \in T PROVE T \in B
    <3>1. T \ {x} \in B /\ x \in S \ (T \ {x}) /\ T \ {x} \in SUBSET S
      BY <1>1
    <3>2. (T \ {x}) \cup {x} = T
      OBVIOUS
    <3>3. (T \ {x}) \cup {x} \in B
      BY <3>1
    <3> QED
      BY <3>2, <3>3
  <2> QED
    BY <2>1, <2>2
<1>2. SUBSET S \subseteq B
  BY <1>1, SubsetInduction
<1> QED
  BY <1>2

-----------------------------------------------------------------------------
(* The recursion behind SumFunctionOnSet.                                   *)

Pick(s) == CHOOSE x \in s : TRUE

(* g holds the sums of f over the subsets of T. *)
Sums(g, f, T) ==
  \A s \in SUBSET T :
    g[s] = IF s = {} THEN 0 ELSE f[Pick(s)] + g[s \ {Pick(s)}]

LEMMA SumsAgree ==
  ASSUME NEW T, IsFiniteSet(T), NEW f, NEW e, \A x \in T : f[x] = e[x],
         NEW g, NEW h, Sums(g, f, T), Sums(h, e, T)
  PROVE  g[T] = h[T]
<1> DEFINE B == {s \in SUBSET T : g[s] = h[s]}
<1>1. ASSUME NEW s \in SUBSET T, \A r \in SUBSET s : r # s => r \in B
      PROVE  s \in B
  <2>1. CASE s = {}
    BY <2>1 DEF Sums
  <2>2. CASE s # {}
    <3>1. Pick(s) \in s
      BY <2>2 DEF Pick
    <3>2. g[s \ {Pick(s)}] = h[s \ {Pick(s)}]
      BY <1>1, <3>1
    <3>3. f[Pick(s)] = e[Pick(s)]
      BY <3>1
    <3>4. g[s] = f[Pick(s)] + g[s \ {Pick(s)}]
      BY <2>2 DEF Sums
    <3>5. h[s] = e[Pick(s)] + h[s \ {Pick(s)}]
      BY <2>2 DEF Sums
    <3> QED
      BY <3>2, <3>3, <3>4, <3>5
  <2> QED
    BY <2>1, <2>2
<1>2. SUBSET T \subseteq B
  <2> HIDE DEF B
  <2> QED
    BY <1>1, SubsetInduction
<1> QED
  BY <1>2

LEMMA SumsOfSubset ==
  ASSUME NEW T, NEW U \in SUBSET T, NEW f, NEW g, Sums(g, f, T)
  PROVE  Sums(g, f, U)
BY DEF Sums

LEMMA SumsExist ==
  ASSUME NEW T, IsFiniteSet(T), NEW f
  PROVE  \E g : Sums(g, f, T)
<1> DEFINE B == {U \in SUBSET T : \E g : Sums(g, f, U)}
           G(s) == CHOOSE g : Sums(g, f, s)
<1>1. ASSUME NEW U \in SUBSET T, \A s \in SUBSET U : s # U => s \in B
      PROVE  U \in B
  <2> DEFINE h == [s \in SUBSET U |->
                     IF s = {} THEN 0
                     ELSE f[Pick(s)] + G(s \ {Pick(s)})[s \ {Pick(s)}]]
  <2>1. \A s \in SUBSET U : s # U => Sums(G(s), f, s)
    BY <1>1
  <2>2. ASSUME NEW s \in SUBSET U, s # U PROVE h[s] = G(s)[s]
    <3>1. Sums(G(s), f, s)
      BY <2>1, <2>2
    <3> HIDE DEF G
    <3>2. CASE s = {}
      BY <3>1, <3>2 DEF Sums
    <3>3. CASE s # {}
      <4> DEFINE r == s \ {Pick(s)}
      <4>1. Pick(s) \in s
        BY <3>3 DEF Pick
      <4>2. r \in SUBSET U /\ r # U /\ r \in SUBSET s /\ IsFiniteSet(r)
        BY <4>1, FS_Subset
      <4>3. Sums(G(r), f, r) /\ Sums(G(s), f, r)
        BY <2>1, <3>1, <4>2, SumsOfSubset
      <4>4. G(s)[r] = G(r)[r]
        BY <4>2, <4>3, SumsAgree
      <4>5. G(s)[s] = f[Pick(s)] + G(s)[r]
        BY <3>1, <3>3 DEF Sums
      <4> QED
        BY <3>3, <4>4, <4>5
    <3> QED
      BY <3>2, <3>3
  <2>3. Sums(h, f, U)
    <3> SUFFICES ASSUME NEW s \in SUBSET U
                 PROVE  h[s] = IF s = {} THEN 0 ELSE f[Pick(s)] + h[s \ {Pick(s)}]
      BY DEF Sums
    <3>1. CASE s = {}
      BY <3>1
    <3>2. CASE s # {}
      <4>1. Pick(s) \in s
        BY <3>2 DEF Pick
      <4>2. s \ {Pick(s)} \in SUBSET U /\ s \ {Pick(s)} # U
        BY <4>1
      <4>3. h[s \ {Pick(s)}] = G(s \ {Pick(s)})[s \ {Pick(s)}]
        BY <2>2, <4>2
      <4>4. h[s] = f[Pick(s)] + G(s \ {Pick(s)})[s \ {Pick(s)}]
        BY <3>2
      <4> HIDE DEF h
      <4> QED
        BY <3>2, <4>3, <4>4
    <3> QED
      BY <3>1, <3>2
  <2> HIDE DEF h
  <2> QED
    BY <2>3
<1>2. SUBSET T \subseteq B
  <2> HIDE DEF B
  <2> QED
    BY <1>1, SubsetInduction
<1> QED
  BY <1>2

LEMMA SumOnSetIsSum ==
  ASSUME NEW T, IsFiniteSet(T), NEW f
  PROVE  \E g : Sums(g, f, T) /\ SumFunctionOnSet(f, T) = g[T]
<1> DEFINE Eq(g) == g = [s \in SUBSET T |->
                  IF s = {} THEN 0
                  ELSE f[CHOOSE x \in s : TRUE] + g[s \ {CHOOSE x \in s : TRUE}]]
           iter == CHOOSE g : Eq(g)
<1>1. SumFunctionOnSet(f, T) = iter[T]
  BY DEF SumFunctionOnSet, FoldFunctionOnSet, MapThenFoldSet
<1>2. \E g : Eq(g)
  <2>1. PICK g : Sums(g, f, T)
    BY SumsExist
  <2> DEFINE h == [s \in SUBSET T |-> g[s]]
  <2>2. \A s \in SUBSET T :
          h[s] = IF s = {} THEN 0 ELSE f[Pick(s)] + h[s \ {Pick(s)}]
    BY <2>1 DEF Sums
  <2>3. Eq(h)
    BY <2>2 DEF Pick
  <2> QED
    BY <2>3
<1>3. Eq(iter)
  BY <1>2
<1>4. Sums(iter, f, T)
  <2> HIDE DEF iter
  <2> QED
    BY <1>3 DEF Sums, Pick
<1> QED
  BY <1>1, <1>4

-----------------------------------------------------------------------------
(* Sums.                                                                    *)

(* The sum over no elements is 0. *)
THEOREM SumOfNone == ASSUME NEW f PROVE SumFunctionOnSet(f, {}) = 0
<1>1. PICK g : Sums(g, f, {}) /\ SumFunctionOnSet(f, {}) = g[{}]
  BY SumOnSetIsSum, FS_EmptySet
<1> QED
  BY <1>1 DEF Sums

LEMMA SumPicksOne ==
  ASSUME NEW S, IsFiniteSet(S), S # {}, NEW f
  PROVE  /\ Pick(S) \in S
         /\ SumFunctionOnSet(f, S) = f[Pick(S)] + SumFunctionOnSet(f, S \ {Pick(S)})
<1> DEFINE R == S \ {Pick(S)}
<1>1. Pick(S) \in S
  BY DEF Pick
<1>2. IsFiniteSet(R) /\ R \in SUBSET S
  BY FS_Subset
<1>3. PICK g : Sums(g, f, S) /\ SumFunctionOnSet(f, S) = g[S]
  BY SumOnSetIsSum
<1>4. PICK h : Sums(h, f, R) /\ SumFunctionOnSet(f, R) = h[R]
  BY <1>2, SumOnSetIsSum
<1>5. g[R] = h[R]
  <2>1. Sums(g, f, R)
    BY <1>2, <1>3, SumsOfSubset
  <2> HIDE DEF R
  <2> QED
    BY <1>2, <1>4, <2>1, SumsAgree
<1>6. g[S] = f[Pick(S)] + g[R]
  BY <1>3 DEF Sums
<1> QED
  BY <1>1, <1>3, <1>4, <1>5, <1>6

(* Only the values over the set count. *)
THEOREM SumOfEqual ==
  ASSUME NEW S, IsFiniteSet(S), NEW f, NEW e, \A x \in S : f[x] = e[x]
  PROVE  SumFunctionOnSet(f, S) = SumFunctionOnSet(e, S)
<1>1. PICK g : Sums(g, f, S) /\ SumFunctionOnSet(f, S) = g[S]
  BY SumOnSetIsSum
<1>2. PICK h : Sums(h, e, S) /\ SumFunctionOnSet(e, S) = h[S]
  BY SumOnSetIsSum
<1> QED
  BY <1>1, <1>2, SumsAgree

(* A sum of numbers of a set that is closed under addition is one of them.  *)
LEMMA SumIsIn ==
  ASSUME NEW Typ, 0 \in Typ, \A m, n \in Typ : m + n \in Typ,
         NEW S, IsFiniteSet(S), NEW f, \A x \in S : f[x] \in Typ
  PROVE  SumFunctionOnSet(f, S) \in Typ
<1> DEFINE B == {T \in SUBSET S : SumFunctionOnSet(f, T) \in Typ}
<1>1. ASSUME NEW T \in SUBSET S, \A U \in SUBSET T : U # T => U \in B
      PROVE  T \in B
  <2>1. CASE T = {}
    BY <2>1, SumOfNone
  <2>2. CASE T # {}
    <3>1. IsFiniteSet(T)
      BY FS_Subset
    <3>2. /\ Pick(T) \in T
          /\ SumFunctionOnSet(f, T) = f[Pick(T)] + SumFunctionOnSet(f, T \ {Pick(T)})
      BY <2>2, <3>1, SumPicksOne
    <3>3. T \ {Pick(T)} \in B
      BY <1>1, <3>2
    <3> QED
      BY <3>2, <3>3
  <2> QED
    BY <2>1, <2>2
<1>2. SUBSET S \subseteq B
  <2> HIDE DEF B
  <2> QED
    BY <1>1, SubsetInduction
<1> QED
  BY <1>2

(* A sum of naturals is a natural. *)
THEOREM SumIsNat ==
  ASSUME NEW S, IsFiniteSet(S), NEW f, \A x \in S : f[x] \in Nat
  PROVE  SumFunctionOnSet(f, S) \in Nat
<1>1. 0 \in Nat /\ \A m, n \in Nat : m + n \in Nat
  OBVIOUS
<1> QED
  BY <1>1, SumIsIn

(* A sum of integers is an integer. *)
THEOREM SumIsInt ==
  ASSUME NEW S, IsFiniteSet(S), NEW f, \A x \in S : f[x] \in Int
  PROVE  SumFunctionOnSet(f, S) \in Int
<1>1. 0 \in Int /\ \A m, n \in Int : m + n \in Int
  OBVIOUS
<1> QED
  BY <1>1, SumIsIn

(* Any element may be taken first. *)
THEOREM SumTakesAny ==
  ASSUME NEW S, IsFiniteSet(S), NEW f, \A x \in S : f[x] \in Int, NEW x \in S
  PROVE  SumFunctionOnSet(f, S) = f[x] + SumFunctionOnSet(f, S \ {x})
<1> DEFINE Sum(T) == SumFunctionOnSet(f, T)
           B == {T \in SUBSET S : \A y \in T : Sum(T) = f[y] + Sum(T \ {y})}
<1>1. ASSUME NEW T \in SUBSET S, \A U \in SUBSET T : U # T => U \in B
      PROVE  T \in B
  <2> SUFFICES ASSUME NEW y \in T PROVE Sum(T) = f[y] + Sum(T \ {y})
    OBVIOUS
  <2> DEFINE p == Pick(T)
  <2>1. IsFiniteSet(T) /\ T # {}
    BY FS_Subset
  <2>2. p \in T /\ Sum(T) = f[p] + Sum(T \ {p})
    BY <2>1, SumPicksOne
  <2> HIDE DEF p
  <2>3. CASE y = p
    BY <2>2, <2>3
  <2>4. CASE y # p
    <3>1. T \ {p} \in B /\ T \ {y} \in B
      BY <1>1, <2>2
    <3>2. Sum(T \ {p}) = f[y] + Sum((T \ {p}) \ {y})
      BY <2>4, <3>1
    <3>3. Sum(T \ {y}) = f[p] + Sum((T \ {y}) \ {p})
      BY <2>2, <2>4, <3>1
    <3>4. (T \ {p}) \ {y} = (T \ {y}) \ {p}
      OBVIOUS
    <3>5. f[p] \in Int /\ f[y] \in Int
      BY <2>2
    <3>6. Sum((T \ {y}) \ {p}) \in Int
      <4>1. (T \ {y}) \ {p} \in SUBSET S
        OBVIOUS
      <4>2. IsFiniteSet((T \ {y}) \ {p}) /\ \A z \in (T \ {y}) \ {p} : f[z] \in Int
        BY <4>1, FS_Subset
      <4> QED
        BY <4>2, SumIsInt
    <3>7. Sum((T \ {p}) \ {y}) = Sum((T \ {y}) \ {p})
      BY <3>4
    <3> HIDE DEF Sum, B
    <3> QED
      BY <2>2, <3>2, <3>3, <3>5, <3>6, <3>7
  <2> QED
    BY <2>3, <2>4
<1>2. SUBSET S \subseteq B
  <2> HIDE DEF B
  <2> QED
    BY <1>1, SubsetInduction
<1> QED
  BY <1>2

(* An element more. *)
LEMMA SumAddsOne ==
  ASSUME NEW S, IsFiniteSet(S), NEW f, NEW x, x \notin S,
         \A y \in S \cup {x} : f[y] \in Int
  PROVE  SumFunctionOnSet(f, S \cup {x}) = f[x] + SumFunctionOnSet(f, S)
<1>1. IsFiniteSet(S \cup {x})
  BY FS_AddElement
<1>2. (S \cup {x}) \ {x} = S
  OBVIOUS
<1>3. SumFunctionOnSet(f, S \cup {x}) = f[x] + SumFunctionOnSet(f, (S \cup {x}) \ {x})
  BY <1>1, SumTakesAny
<1> QED
  BY <1>2, <1>3

(* Two sets that share nothing. *)
THEOREM SumOfUnion ==
  ASSUME NEW S, NEW T, IsFiniteSet(S), IsFiniteSet(T), S \cap T = {},
         NEW f, \A x \in S \cup T : f[x] \in Int
  PROVE  SumFunctionOnSet(f, S \cup T) = SumFunctionOnSet(f, S) + SumFunctionOnSet(f, T)
<1> DEFINE Sum(U) == SumFunctionOnSet(f, U)
           B == {U \in SUBSET T : Sum(S \cup U) = Sum(S) + Sum(U)}
<1>0. Sum(S) \in Int
  BY SumIsInt
<1>1. {} \in B
  <2>1. S \cup {} = S /\ Sum({}) = 0
    BY SumOfNone
  <2> QED
    BY <1>0, <2>1
<1>2. ASSUME NEW U \in SUBSET T, NEW x \in T \ U, U \in B
      PROVE  U \cup {x} \in B
  <2>1. IsFiniteSet(U) /\ IsFiniteSet(S \cup U)
    BY FS_Subset, FS_Union
  <2>2. Sum(U) \in Int /\ f[x] \in Int
    BY <2>1, SumIsInt
  <2>3. x \notin U /\ Sum(U \cup {x}) = f[x] + Sum(U)
    BY <2>1, SumAddsOne
  <2>4. x \notin S \cup U /\ \A y \in (S \cup U) \cup {x} : f[y] \in Int
    OBVIOUS
  <2>5. Sum((S \cup U) \cup {x}) = f[x] + Sum(S \cup U)
    BY <2>1, <2>4, SumAddsOne
  <2>6. S \cup (U \cup {x}) = (S \cup U) \cup {x}
    OBVIOUS
  <2>7. Sum(S \cup U) = Sum(S) + Sum(U)
    BY <1>2
  <2>8. Sum(S \cup (U \cup {x})) = Sum(S) + Sum(U \cup {x})
    <3>1. Sum(S \cup (U \cup {x})) = Sum((S \cup U) \cup {x})
      BY <2>6
    <3> HIDE DEF Sum, B
    <3> QED
      BY <1>0, <2>2, <2>3, <2>5, <2>7, <3>1
  <2> QED
    BY <1>2, <2>8
<1>3. T \in B
  <2> HIDE DEF B
  <2> QED
    BY <1>1, <1>2, ElementInduction
<1> QED
  BY <1>3

(* A larger set has no smaller sum. *)
THEOREM SumOfSubset ==
  ASSUME NEW T, IsFiniteSet(T), NEW S \in SUBSET T, NEW f, \A x \in T : f[x] \in Nat
  PROVE  SumFunctionOnSet(f, S) <= SumFunctionOnSet(f, T)
<1>1. IsFiniteSet(S) /\ IsFiniteSet(T \ S)
  BY FS_Subset
<1>2. SumFunctionOnSet(f, S) \in Nat /\ SumFunctionOnSet(f, T \ S) \in Nat
  BY <1>1, SumIsNat
<1>3. S \cup (T \ S) = T /\ S \cap (T \ S) = {}
  OBVIOUS
<1>4. SumFunctionOnSet(f, S \cup (T \ S)) = SumFunctionOnSet(f, S) + SumFunctionOnSet(f, T \ S)
  BY <1>1, <1>3, SumOfUnion
<1>5. SumFunctionOnSet(f, T) = SumFunctionOnSet(f, S) + SumFunctionOnSet(f, T \ S)
  BY <1>3, <1>4, Zenon
<1> QED
  BY <1>2, <1>5

(* The sum of two functions. *)
THEOREM SumOfSums ==
  ASSUME NEW S, IsFiniteSet(S), NEW f, NEW g, NEW h,
         \A x \in S : f[x] \in Int /\ g[x] \in Int /\ h[x] = f[x] + g[x]
  PROVE  SumFunctionOnSet(h, S) = SumFunctionOnSet(f, S) + SumFunctionOnSet(g, S)
<1> DEFINE B == {T \in SUBSET S :
      SumFunctionOnSet(h, T) = SumFunctionOnSet(f, T) + SumFunctionOnSet(g, T)}
<1>1. {} \in B
  BY SumOfNone
<1>2. ASSUME NEW T \in SUBSET S, NEW x \in S \ T, T \in B
      PROVE  T \cup {x} \in B
  <2>1. IsFiniteSet(T) /\ x \notin T
    BY FS_Subset
  <2>2. \A y \in T \cup {x} : f[y] \in Int /\ g[y] \in Int /\ h[y] \in Int
    OBVIOUS
  <2>3. SumFunctionOnSet(f, T) \in Int /\ SumFunctionOnSet(g, T) \in Int
    BY <2>1, <2>2, SumIsInt
  <2>4. /\ SumFunctionOnSet(f, T \cup {x}) = f[x] + SumFunctionOnSet(f, T)
        /\ SumFunctionOnSet(g, T \cup {x}) = g[x] + SumFunctionOnSet(g, T)
        /\ SumFunctionOnSet(h, T \cup {x}) = h[x] + SumFunctionOnSet(h, T)
    BY <2>1, <2>2, SumAddsOne
  <2>5. SumFunctionOnSet(h, T) = SumFunctionOnSet(f, T) + SumFunctionOnSet(g, T)
    BY <1>2
  <2>6. f[x] \in Int /\ g[x] \in Int /\ h[x] = f[x] + g[x]
    OBVIOUS
  <2> QED
    BY <1>2, <2>3, <2>4, <2>5, <2>6
<1>3. S \in B
  <2> HIDE DEF B
  <2> QED
    BY <1>1, <1>2, ElementInduction
<1> QED
  BY <1>3

(* Sets of a family that share nothing with each other. *)
THEOREM SumOfFamily ==
  ASSUME NEW I, IsFiniteSet(I), NEW F, \A i \in I : IsFiniteSet(F[i]),
         \A i, j \in I : i # j => F[i] \cap F[j] = {},
         NEW f, \A i \in I : \A x \in F[i] : f[x] \in Int,
         NEW s, \A i \in I : s[i] = SumFunctionOnSet(f, F[i])
  PROVE  SumFunctionOnSet(f, UNION {F[i] : i \in I}) = SumFunctionOnSet(s, I)
<1> DEFINE All(J) == UNION {F[i] : i \in J}
           B == {J \in SUBSET I : /\ IsFiniteSet(All(J))
                                  /\ SumFunctionOnSet(f, All(J)) = SumFunctionOnSet(s, J)}
<1>1. {} \in B
  <2>1. All({}) = {}
    OBVIOUS
  <2> QED
    BY <2>1, SumOfNone, FS_EmptySet
<1>2. ASSUME NEW J \in SUBSET I, NEW i \in I \ J, J \in B
      PROVE  J \cup {i} \in B
  <2>1. All(J \cup {i}) = All(J) \cup F[i] /\ All(J) \cap F[i] = {}
    OBVIOUS
  <2>2. IsFiniteSet(All(J)) /\ IsFiniteSet(F[i]) /\ IsFiniteSet(J) /\ i \notin J
    BY <1>2, FS_Subset
  <2>3. \A x \in All(J) \cup F[i] : f[x] \in Int
    OBVIOUS
  <2>4. IsFiniteSet(All(J) \cup F[i])
    BY <2>2, FS_Union
  <2>5. SumFunctionOnSet(f, All(J) \cup F[i])
          = SumFunctionOnSet(f, All(J)) + SumFunctionOnSet(f, F[i])
    <3> HIDE DEF All
    <3> QED
      BY <2>1, <2>2, <2>3, SumOfUnion
  <2>6. \A j \in J \cup {i} : s[j] \in Int
    BY SumIsInt
  <2>7. SumFunctionOnSet(s, J \cup {i}) = s[i] + SumFunctionOnSet(s, J)
    BY <2>2, <2>6, SumAddsOne
  <2>8. SumFunctionOnSet(s, J) \in Int
    BY <2>2, <2>6, SumIsInt
  <2>9. SumFunctionOnSet(f, All(J)) = SumFunctionOnSet(s, J) /\ s[i] = SumFunctionOnSet(f, F[i])
    BY <1>2
  <2>10. SumFunctionOnSet(f, All(J \cup {i})) = SumFunctionOnSet(s, J \cup {i})
    <3>1. SumFunctionOnSet(f, All(J \cup {i})) = SumFunctionOnSet(f, All(J) \cup F[i])
      BY <2>1
    <3>2. s[i] \in Int
      BY <2>6
    <3> HIDE DEF All, B
    <3> QED
      BY <2>5, <2>7, <2>8, <2>9, <3>1, <3>2
  <2>11. IsFiniteSet(All(J \cup {i}))
    BY <2>1, <2>4
  <2> HIDE DEF All
  <2> QED
    BY <1>2, <2>10, <2>11
<1>3. I \in B
  <2> HIDE DEF B
  <2> QED
    BY <1>1, <1>2, ElementInduction
<1> QED
  BY <1>3
=============================================================================
