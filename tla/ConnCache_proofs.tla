-------------------------- MODULE ConnCache_proofs --------------------------
(***************************************************************************)
(* A closed connection stays in the cache only where the stream client it   *)
(* was given to closed it, callers lose theirs to failed health checks and  *)
(* to stream clients only, and what is abandoned is bounded: for any number *)
(* of callers and of failures.                                              *)
(***************************************************************************)
EXTENDS ConnCache, TLAPS, FiniteSetTheorems

(* What each removal is charged with. *)
LEMMA Charges ==
  /\ others \in Nat
  /\ \A r \in Nat : r * others \in Nat /\ (r + 1) * others = r * others + others
<1>1. Cardinality(Callers) \in Nat /\ Cardinality(Callers) # 0
  BY ConstantsAssumption, FS_CardinalityType, FS_EmptySet
<1>2. others \in Nat
  BY <1>1 DEF others
<1>3. ASSUME NEW r \in Nat
      PROVE  r * others \in Nat /\ (r + 1) * others = r * others + others
  BY <1>2, SMT
<1> QED
  BY <1>2, <1>3

LEMMA MissedIsFinite ==
  /\ IsFiniteSet(Missed) /\ Cardinality(Missed) \in Nat
  /\ Cardinality(Missed) <= Cardinality(Callers)
<1>1. Missed \subseteq Callers
  BY DEF Missed
<1> QED
  BY <1>1, ConstantsAssumption, FS_Subset, FS_CardinalityType

LEMMA AbandonedIsFinite ==
  ASSUME TypeOK
  PROVE  /\ IsFiniteSet(Abandoned) /\ Cardinality(Abandoned) \in Nat
<1>1. Abandoned \subseteq open
  BY DEF Abandoned
<1> QED
  BY <1>1, FS_Subset, FS_CardinalityType DEF TypeOK

(* A caller that moves changes the set of those still to dial by itself. *)
LEMMA MissedGrows ==
  ASSUME TypeOK, NEW c \in Callers, pc[c] = "idle", pc' = [pc EXCEPT ![c] = "missed"]
  PROVE  Cardinality(Missed') = Cardinality(Missed) + 1
<1>1. Missed' = Missed \cup {c} /\ c \notin Missed
  BY DEF Missed, TypeOK
<1> QED
  BY <1>1, MissedIsFinite, FS_AddElement

LEMMA MissedShrinks ==
  ASSUME TypeOK, NEW c \in Callers, pc[c] = "missed",
         NEW p \in {"idle", "using"}, pc' = [pc EXCEPT ![c] = p]
  PROVE  /\ Cardinality(Missed') = Cardinality(Missed) - 1
         /\ Cardinality(Missed') <= others
<1>1. Missed' = Missed \ {c} /\ c \in Missed
  BY DEF Missed, TypeOK
<1>2. Cardinality(Missed') = Cardinality(Missed) - 1
  BY <1>1, MissedIsFinite, FS_RemoveElement
<1> QED
  BY <1>2, MissedIsFinite, ConstantsAssumption, FS_CardinalityType DEF others

LEMMA MissedStays ==
  ASSUME TypeOK, NEW c \in Callers, pc[c] # "missed",
         NEW p \in {"idle", "using"}, pc' = [pc EXCEPT ![c] = p]
  PROVE  Missed' = Missed
BY DEF Missed, TypeOK

-----------------------------------------------------------------------------
(* The invariant.                                                           *)

LEMMA InitInv == Init => Inv
<1> SUFFICES ASSUME Init PROVE Inv
  OBVIOUS
<1>1. TypeOK
  BY FS_EmptySet, ConstantsAssumption DEF Init, TypeOK, None
<1>2. NumbersAreNew /\ ClosedByItsUser
  BY DEF Init, NumbersAreNew, ClosedByItsUser, None
<1>3. LeaksAccounted
  <2>1. Cardinality(Abandoned) = 0
    BY FS_EmptySet DEF Init, Abandoned
  <2> QED
    BY <2>1, Charges DEF Init, LeaksAccounted, others
<1> QED
  BY <1>1, <1>2, <1>3 DEF Inv

LEMMA TypeStep == TypeOK /\ [Next]_vars => TypeOK'
<1> SUFFICES ASSUME TypeOK, [Next]_vars PROVE TypeOK'
  OBVIOUS
<1> USE DEF TypeOK, None, Conn
<1>1. ASSUME NEW c \in Callers, Hit(c) PROVE TypeOK'
  BY <1>1 DEF Hit
<1>2. ASSUME NEW c \in Callers, Miss(c) PROVE TypeOK'
  BY <1>2 DEF Miss
<1>3. ASSUME NEW c \in Callers, Remove(c) PROVE TypeOK'
  <2>1. IsFiniteSet(open')
    BY <1>3, FS_Subset DEF Remove
  <2> QED
    BY <1>3, <2>1, ConstantsAssumption DEF Remove
<1>4. ASSUME NEW c \in Callers, DialStores(c) PROVE TypeOK'
  <2>1. IsFiniteSet(open')
    BY <1>4, FS_AddElement DEF DialStores
  <2> QED
    BY <1>4, <2>1 DEF DialStores
<1>5. ASSUME NEW c \in Callers, DialFails(c) PROVE TypeOK'
  BY <1>5 DEF DialFails
<1>6. ASSUME NEW c \in Callers, DialUnready(c) PROVE TypeOK'
  <2>1. IsFiniteSet(open')
    BY <1>6, FS_AddElement DEF DialUnready
  <2> QED
    BY <1>6, <2>1, ConstantsAssumption DEF DialUnready
<1>7. ASSUME NEW c \in Callers, Finish(c) PROVE TypeOK'
  BY <1>7 DEF Finish
<1>8. ASSUME NEW c \in Callers, closeProxyClient(c) PROVE TypeOK'
  <2>1. IsFiniteSet(open')
    BY <1>8, FS_Subset DEF closeProxyClient
  <2> QED
    BY <1>8, <2>1 DEF closeProxyClient
<1>9. CASE ProxyStops
  BY <1>9, ConstantsAssumption DEF ProxyStops
<1>10. CASE ProxyServes
  BY <1>10 DEF ProxyServes
<1>11. CASE UNCHANGED vars
  BY <1>11 DEF vars
<1> QED
  BY <1>1, <1>2, <1>3, <1>4, <1>5, <1>6, <1>7, <1>8, <1>9, <1>10, <1>11
  DEF Next, checkRemove, getConn

LEMMA ConnsStep == Inv /\ [Next]_vars => NumbersAreNew' /\ ClosedByItsUser'
<1> SUFFICES ASSUME Inv, [Next]_vars PROVE NumbersAreNew' /\ ClosedByItsUser'
  OBVIOUS
<1> USE DEF Inv, TypeOK, NumbersAreNew, ClosedByItsUser, None, Conn
<1>1. ASSUME NEW c \in Callers, checkRemove(c) PROVE NumbersAreNew' /\ ClosedByItsUser'
  BY <1>1 DEF checkRemove, Hit, Miss, Remove
<1>2. ASSUME NEW c \in Callers, DialStores(c) PROVE NumbersAreNew' /\ ClosedByItsUser'
  BY <1>2 DEF DialStores
<1>3. ASSUME NEW c \in Callers, DialFails(c) PROVE NumbersAreNew' /\ ClosedByItsUser'
  BY <1>3 DEF DialFails
<1>4. ASSUME NEW c \in Callers, DialUnready(c) PROVE NumbersAreNew' /\ ClosedByItsUser'
  BY <1>4 DEF DialUnready
<1>5. ASSUME NEW c \in Callers, Finish(c) PROVE NumbersAreNew' /\ ClosedByItsUser'
  BY <1>5 DEF Finish
<1>6. ASSUME NEW c \in Callers, closeProxyClient(c) PROVE NumbersAreNew' /\ ClosedByItsUser'
  BY <1>6 DEF closeProxyClient
<1>7. CASE ProxyStops \/ ProxyServes \/ UNCHANGED vars
  BY <1>7 DEF ProxyStops, ProxyServes, vars
<1> QED
  BY <1>1, <1>2, <1>3, <1>4, <1>5, <1>6, <1>7 DEF Next, getConn

(* What each step does to the two sides of the account. *)
LEMMA AccountStep == Inv /\ [Next]_vars => LeaksAccounted'
<1> SUFFICES ASSUME Inv, [Next]_vars PROVE LeaksAccounted'
  OBVIOUS
<1> DEFINE lost == Cardinality(Abandoned)
           missed == Cardinality(Missed)
<1>0. /\ TypeOK /\ TypeOK'
      /\ lost \in Nat /\ lost' \in Nat /\ missed \in Nat /\ missed' \in Nat
      /\ others \in Nat /\ missed <= others + 1 /\ missed' <= others + 1
  <2>1. TypeOK /\ TypeOK'
    BY TypeStep DEF Inv
  <2>2. lost \in Nat /\ missed \in Nat /\ missed <= others + 1
    BY <2>1, AbandonedIsFinite, MissedIsFinite, Charges, ConstantsAssumption,
       FS_CardinalityType DEF others
  <2>3. lost' \in Nat /\ missed' \in Nat /\ missed' <= others + 1
    <3>1. IsFiniteSet(Abandoned') /\ lost' \in Nat
      <4>1. Abandoned' \subseteq open' /\ IsFiniteSet(open')
        BY <2>1 DEF Abandoned, TypeOK
      <4> QED
        BY <4>1, FS_Subset, FS_CardinalityType
    <3>2. Missed' \subseteq Callers
      BY DEF Missed
    <3>3. missed' \in Nat /\ missed' <= Cardinality(Callers)
      BY <3>2, ConstantsAssumption, FS_Subset, FS_CardinalityType
    <3> QED
      BY <3>1, <3>3, ConstantsAssumption, FS_CardinalityType DEF others
  <2> QED
    BY <2>1, <2>2, <2>3, Charges
<1>1. /\ removals \in Nat /\ unready \in Nat
      /\ removals * others \in Nat
      /\ (removals + 1) * others = removals * others + others
      /\ cached = None => lost <= removals * others + unready
      /\ cached # None => lost + missed <= removals * others + others + unready
  <2>1. removals \in Nat /\ unready \in Nat
    BY ConstantsAssumption DEF Inv, TypeOK
  <2>2. removals * others \in Nat /\ (removals + 1) * others = removals * others + others
    BY <2>1, Charges
  <2>3. /\ cached = None => lost <= removals * others + unready
        /\ cached # None => lost + missed <= (removals + 1) * others + unready
    BY DEF Inv, LeaksAccounted
  <2> QED
    BY <2>1, <2>2, <2>3
<1>2. SUFFICES
        /\ cached' = None => lost' <= removals' * others + unready'
        /\ cached' # None => lost' + missed' <= (removals' + 1) * others + unready'
  BY DEF LeaksAccounted
<1> HIDE DEF lost, missed
<1>3. ASSUME NEW c \in Callers, Hit(c) \/ Finish(c)
      PROVE  cached' = cached /\ removals' = removals /\ unready' = unready
             /\ lost' = lost /\ missed' = missed
  <2>1. Missed' = Missed
    BY <1>0, <1>3, MissedStays DEF Hit, Finish
  <2> QED
    BY <1>3, <2>1 DEF Hit, Finish, Abandoned, lost, missed
<1>4. ASSUME NEW c \in Callers, Miss(c)
      PROVE  cached' = None /\ cached = None /\ removals' = removals
             /\ unready' = unready /\ lost' = lost
  BY <1>4 DEF Miss, Abandoned, lost
<1>5. ASSUME NEW c \in Callers, Remove(c)
      PROVE  cached' = None /\ cached # None /\ removals' = removals + 1
             /\ unready' = unready /\ lost' = lost
  <2>1. Abandoned' = Abandoned
    BY <1>5 DEF Remove, Abandoned, Inv, TypeOK, Conn, None
  <2> QED
    BY <1>5, <2>1 DEF Remove, lost
<1>6. ASSUME NEW c \in Callers, DialStores(c)
      PROVE  /\ cached' # None /\ removals' = removals /\ unready' = unready
             /\ missed' = missed - 1 /\ missed' <= others
             /\ cached = None => lost' = lost
             /\ cached # None => lost' <= lost + 1
  <2>1. missed' = missed - 1 /\ missed' <= others
    BY <1>0, <1>6, MissedShrinks DEF DialStores, missed
  <2>2. /\ made' = made + 1 /\ made' \notin open
        /\ open' = open \cup {made'} /\ cached' = made'
        /\ cached' # None
    BY <1>6 DEF DialStores, Inv, TypeOK, NumbersAreNew, None
  <2>3. CASE cached = None
    <3>1. Abandoned' = Abandoned
      BY <2>2, <2>3 DEF Abandoned, Inv, TypeOK, Conn, None
    <3> QED
      BY <1>6, <2>1, <2>2, <2>3, <3>1 DEF DialStores, lost
  <2>4. CASE cached # None
    <3>1. Abandoned' \subseteq Abandoned \cup {cached} /\ cached \notin Abandoned
      BY <2>2 DEF Abandoned
    <3>2. /\ IsFiniteSet(Abandoned \cup {cached})
          /\ Cardinality(Abandoned \cup {cached}) = lost + 1
      BY <1>0, <3>1, AbandonedIsFinite, FS_AddElement DEF lost
    <3>3. lost' <= lost + 1
      BY <3>1, <3>2, FS_Subset DEF lost
    <3> QED
      BY <1>6, <2>1, <2>2, <2>4, <3>3 DEF DialStores
  <2> QED
    BY <2>3, <2>4
<1>7. ASSUME NEW c \in Callers, DialFails(c)
      PROVE  cached' = cached /\ removals' = removals /\ unready' = unready
             /\ lost' = lost /\ missed' = missed - 1
  <2>1. missed' = missed - 1
    BY <1>0, <1>7, MissedShrinks DEF DialFails, missed
  <2> QED
    BY <1>7, <2>1 DEF DialFails, Abandoned, lost
<1>8. ASSUME NEW c \in Callers, DialUnready(c)
      PROVE  cached' = cached /\ removals' = removals /\ unready' = unready + 1
             /\ lost' = lost + 1 /\ missed' = missed - 1
  <2>1. missed' = missed - 1
    BY <1>0, <1>8, MissedShrinks DEF DialUnready, missed
  <2>2. Abandoned' = Abandoned \cup {made'} /\ made' \notin Abandoned
    BY <1>8 DEF DialUnready, Abandoned, Inv, TypeOK, NumbersAreNew
  <2>3. lost' = lost + 1
    BY <1>0, <2>2, AbandonedIsFinite, FS_AddElement DEF lost
  <2> QED
    BY <1>8, <2>1, <2>3 DEF DialUnready
<1>9. ASSUME ProxyStops \/ ProxyServes \/ UNCHANGED vars
      PROVE  cached' = cached /\ removals' = removals /\ unready' = unready
             /\ lost' = lost /\ missed' = missed
  BY <1>9 DEF ProxyStops, ProxyServes, vars, Abandoned, Missed, lost, missed
<1>10. ASSUME NEW c \in Callers, closeProxyClient(c)
      PROVE  cached' = cached /\ removals' = removals /\ unready' = unready
             /\ lost' <= lost /\ missed' = missed
  <2>1. Missed' = Missed
    BY <1>0, <1>10, MissedStays DEF closeProxyClient
  <2>2. Abandoned' \subseteq Abandoned
    BY <1>10 DEF closeProxyClient, Abandoned
  <2>3. lost' <= lost
    BY <1>0, <2>2, AbandonedIsFinite, FS_Subset DEF lost
  <2> QED
    BY <1>10, <2>1, <2>3 DEF closeProxyClient, missed
<1>11. CASE removals' = removals
  BY <1>0, <1>1, <1>3, <1>4, <1>5, <1>6, <1>7, <1>8, <1>9, <1>10, <1>11
  DEF Next, checkRemove, getConn
<1>12. CASE removals' # removals
  <2>1. PICK c \in Callers : Remove(c)
    BY <1>3, <1>4, <1>6, <1>7, <1>8, <1>9, <1>10, <1>12 DEF Next, checkRemove, getConn
  <2> QED
    BY <1>0, <1>1, <1>5, <2>1
<1> QED
  BY <1>11, <1>12

(* Inv is an invariant of the cache. *)
THEOREM Invariance == Spec => []Inv
<1>1. Inv /\ [Next]_vars => Inv'
  BY TypeStep, ConnsStep, AccountStep DEF Inv
<1> QED
  BY InitInv, <1>1, PTL DEF Spec

(* A closed connection that is still in the map was closed by the stream    *)
(* client it was given to (task.go:88-92): a failed health check takes out  *)
(* what it closes (client.go:65-70), and a dial stores what is open.        *)
THEOREM ClosedInMap == Spec => []ClosedByItsUser
<1>1. Inv => ClosedByItsUser
  BY DEF Inv
<1> QED
  BY Invariance, <1>1, PTL

(* At most one connection per other caller is abandoned for each time the   *)
(* cache was emptied, and one for each dial that ended not ready            *)
(* (client.go:25-34, 49-54).                                                *)
THEOREM BoundedLeaks == Spec => []LeaksBounded
<1>1. ASSUME Inv PROVE LeaksBounded
  <2>1. /\ removals \in Nat /\ unready \in Nat /\ others \in Nat
        /\ removals * others \in Nat
        /\ (removals + 1) * others = removals * others + others
    BY <1>1, Charges, ConstantsAssumption DEF Inv, TypeOK
  <2>2. Cardinality(Abandoned) \in Nat /\ Cardinality(Missed) \in Nat
    BY <1>1, AbandonedIsFinite, MissedIsFinite DEF Inv
  <2> QED
    BY <1>1, <2>1, <2>2 DEF Inv, LeaksAccounted, LeaksBounded
<1> QED
  BY Invariance, <1>1, PTL

(* A caller loses its connection to another caller's failed health check,   *)
(* while it is cached (client.go:65-72), or to a stream client that was     *)
(* given the same one (task.go:88-92).                                      *)
THEOREM OthersClose == Spec => LostToCheckOrStream
<1> DEFINE Checked(c) == \E d \in Callers \ {c} : pc[d] = "idle" /\ pc'[d] = "missed" /\ holds[c] = cached
           ByStream(c) == \E s \in Streams : holds[s] = holds[c] /\ holds'[s] = None
<1>1. ASSUME Inv, [Next]_vars, NEW c \in Callers, holds[c] \in open, holds[c] \notin open'
      PROVE  Checked(c) \/ ByStream(c)
  <2>1. PICK d \in Callers : Remove(d) \/ closeProxyClient(d)
    BY <1>1 DEF Next, checkRemove, getConn, Hit, Miss, DialStores, DialFails,
       DialUnready, Finish, ProxyStops, ProxyServes, vars
  <2>2. CASE Remove(d)
    <3>1. holds[c] = cached /\ pc[d] = "idle" /\ pc'[d] = "missed"
      BY <1>1, <2>2 DEF Remove, Inv, TypeOK
    <3>2. d # c
      BY <1>1, <2>2, <3>1 DEF Remove, Inv, NumbersAreNew
    <3> QED
      BY <3>1, <3>2
  <2>3. CASE closeProxyClient(d)
    <3>1. d \in Streams /\ holds[d] = holds[c] /\ holds'[d] = None
      BY <1>1, <2>3 DEF closeProxyClient, Inv, TypeOK
    <3> QED
      BY <3>1
  <2> QED
    BY <2>1, <2>2, <2>3
<1>2. Inv /\ [Next]_vars =>
        [\A c \in Callers : holds[c] \in open /\ holds[c] \notin open' =>
           \/ \E d \in Callers \ {c} : pc[d] = "idle" /\ pc'[d] = "missed" /\ holds[c] = cached
           \/ \E s \in Streams : holds[s] = holds[c] /\ holds'[s] = None]_vars
  BY <1>1
<1> QED
  BY Invariance, <1>2, PTL DEF Spec, LostToCheckOrStream

=============================================================================
