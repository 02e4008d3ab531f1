-------------------------- MODULE NodeChoice_proofs --------------------------
(***************************************************************************)
(* WithClient tries each node once, local ones first, closes what it opens, *)
(* returns what it was answered, and is a NodeCall: for any configured      *)
(* nodes and any errors.                                                    *)
(***************************************************************************)
EXTENDS NodeChoice, TLAPS, FiniteSetTheorems

-----------------------------------------------------------------------------
(* Lists of distinct addresses.                                             *)

LEMMA TakeLast ==
  ASSUME NEW S, NEW s \in Seq(S), s # <<>>, IsInjective(s)
  PROVE  /\ Front(s) \in Seq(S)
         /\ Len(Front(s)) = Len(s) - 1
         /\ IsInjective(Front(s))
         /\ Range(Front(s)) = Range(s) \ {Last(s)}
         /\ Last(s) \in Range(s)
         /\ Last(s) \in S
<1>1. /\ Len(s) \in Nat \ {0}
      /\ DOMAIN s = 1 .. Len(s)
  OBVIOUS
<1>2. /\ Front(s) = [k \in 1 .. Len(s) - 1 |-> s[k]]
      /\ Front(s) \in Seq(S)
      /\ Len(Front(s)) = Len(s) - 1
  BY <1>1 DEF Front
<1>3. Last(s) \in Range(s) /\ Last(s) \in S
  BY <1>1 DEF Last, Range
<1>4. IsInjective(Front(s))
  BY <1>1, <1>2 DEF IsInjective
<1>5. Range(Front(s)) = Range(s) \ {Last(s)}
  BY <1>1, <1>2 DEF IsInjective, Range, Last
<1> QED
  BY <1>2, <1>3, <1>4, <1>5

LEMMA Listed ==
  ASSUME NEW S, IsFiniteSet(S), NEW s \in SetToSeqs(S)
  PROVE  /\ s \in Seq(S) /\ Len(s) = Cardinality(S)
         /\ IsInjective(s) /\ Range(s) = S
<1>1. Cardinality(S) \in Nat
  BY FS_CardinalityType
<1>2. /\ s \in [1 .. Cardinality(S) -> S]
      /\ IsInjective(s)
  BY DEF SetToSeqs, IsInjective
<1>3. s \in Seq(S) /\ Len(s) = Cardinality(S)
  BY <1>1, <1>2
<1>4. Range(s) = S
  <2>1. /\ IsFiniteSet(1 .. Cardinality(S))
        /\ Cardinality(1 .. Cardinality(S)) = Cardinality(S)
    BY <1>1, FS_Interval
  <2>2. s \in Injection(1 .. Cardinality(S), S)
    BY <1>2 DEF Injection, IsInjective
  <2>3. s \in Surjection(1 .. Cardinality(S), S)
    BY <2>1, <2>2, FS_Injection
  <2> QED
    BY <2>3, <1>2 DEF Surjection, Range
<1> QED
  BY <1>2, <1>3, <1>4

-----------------------------------------------------------------------------
(* The invariant.                                                           *)

(* An address is taken off the rest of its list. *)
LEMMA PeekTakes ==
  ASSUME TypeOK, ListsAreTheRest, pc = "loop", NEW a, Peek(a)
  PROVE  /\ a \in Address /\ a \notin TriedNodes
         /\ localAddrs' \in Seq(localSet) /\ publicAddrs' \in Seq(publicSet)
         /\ len' = len
         /\ Len(localAddrs') + Len(publicAddrs') + 1 + i = len
         /\ IsInjective(localAddrs') /\ IsInjective(publicAddrs')
         /\ Range(localAddrs') = localSet \ (TriedNodes \cup {a})
         /\ Range(publicAddrs') = publicSet \ (TriedNodes \cup {a})
         /\ a \in publicSet => localSet \subseteq TriedNodes
<1> USE DEF Address
<1>1. /\ localAddrs \in Seq(localSet) /\ publicAddrs \in Seq(publicSet)
      /\ localSet \cap publicSet = {}
  BY ConstantsAssumption DEF TypeOK
<1>2. /\ IsInjective(localAddrs) /\ IsInjective(publicAddrs)
      /\ Range(localAddrs) = localSet \ TriedNodes
      /\ Range(publicAddrs) = publicSet \ TriedNodes
      /\ Len(localAddrs) + Len(publicAddrs) + i = len
      /\ i \in Nat /\ len \in Nat
  BY DEF ListsAreTheRest, Running, Seen, InUse, TypeOK, MinOf
<1>3. CASE /\ localAddrs # <<>>
           /\ a = Last(localAddrs) /\ localAddrs' = Front(localAddrs)
           /\ UNCHANGED <<publicAddrs, len>>
  <2>1. /\ localAddrs' \in Seq(localSet)
        /\ Len(localAddrs') = Len(localAddrs) - 1
        /\ IsInjective(localAddrs')
        /\ Range(localAddrs') = Range(localAddrs) \ {a}
        /\ a \in Range(localAddrs) /\ a \in localSet
    BY <1>1, <1>2, <1>3, TakeLast
  <2>2. Len(localAddrs) \in Nat /\ Len(publicAddrs) \in Nat
    BY <1>1
  <2> QED
    BY <1>1, <1>2, <1>3, <2>1, <2>2
<1>4. CASE /\ localAddrs = <<>> /\ publicAddrs # <<>>
           /\ a = Last(publicAddrs) /\ publicAddrs' = Front(publicAddrs)
           /\ UNCHANGED <<localAddrs, len>>
  <2>1. /\ publicAddrs' \in Seq(publicSet)
        /\ Len(publicAddrs') = Len(publicAddrs) - 1
        /\ IsInjective(publicAddrs')
        /\ Range(publicAddrs') = Range(publicAddrs) \ {a}
        /\ a \in Range(publicAddrs) /\ a \in publicSet
    BY <1>1, <1>2, <1>4, TakeLast
  <2>2. Len(localAddrs) \in Nat /\ Len(publicAddrs) \in Nat
    BY <1>1
  <2>3. localSet \subseteq TriedNodes
    BY <1>2, <1>4 DEF Range
  <2> QED
    BY <1>1, <1>2, <1>4, <2>1, <2>2, <2>3
<1> QED
  BY <1>3, <1>4 DEF Peek

(* What the history says after one more attempt. *)
LEMMA OneMoreTried ==
  ASSUME TypeOK, NEW a \in Address, NEW e \in Outcome, Tried(a, e),
         UNCHANGED <<localSet, publicSet>>
  PROVE  /\ tried' \in Seq([node : Address, got : Outcome])
         /\ Len(tried') = Len(tried) + 1 /\ Len(tried) \in Nat
         /\ DOMAIN tried' = 1 .. Len(tried) + 1 /\ DOMAIN tried = 1 .. Len(tried)
         /\ \A k \in DOMAIN tried : tried'[k] = tried[k]
         /\ tried'[Len(tried) + 1] = [node |-> a, got |-> e]
         /\ Last(tried') = [node |-> a, got |-> e]
         /\ TriedNodes' = TriedNodes \cup {a}
<1>1. tried \in Seq([node : Address, got : Outcome]) /\ [node |-> a, got |-> e] \in [node : Address, got : Outcome]
  BY DEF TypeOK
<1>2. /\ tried' \in Seq([node : Address, got : Outcome])
      /\ Len(tried') = Len(tried) + 1 /\ Len(tried) \in Nat
      /\ DOMAIN tried' = 1 .. Len(tried) + 1 /\ DOMAIN tried = 1 .. Len(tried)
      /\ \A k \in DOMAIN tried : tried'[k] = tried[k]
      /\ tried'[Len(tried) + 1] = [node |-> a, got |-> e]
  BY <1>1 DEF Tried
<1>3. Last(tried') = [node |-> a, got |-> e]
  BY <1>2 DEF Last
<1>4. TriedNodes' = TriedNodes \cup {a}
  BY <1>2 DEF TriedNodes
<1> QED
  BY <1>2, <1>3, <1>4

(* With an address that was not tried before, and a public one only after   *)
(* the local ones.                                                          *)
LEMMA HistoryGrows ==
  ASSUME TypeOK, LocalFirst,
         \A j, k \in DOMAIN tried : tried[j].node = tried[k].node => j = k,
         NEW a \in Address, NEW e \in Outcome, Tried(a, e),
         UNCHANGED <<localSet, publicSet>>,
         a \notin TriedNodes,
         a \in publicSet => localSet \subseteq TriedNodes
  PROVE  /\ \A k \in DOMAIN tried' : tried'[k].node \in publicSet =>
              localSet \subseteq {tried'[j].node : j \in 1 .. k - 1}
         /\ \A j, k \in DOMAIN tried' : tried'[j].node = tried'[k].node => j = k
<1>1. /\ Len(tried) \in Nat
      /\ DOMAIN tried' = 1 .. Len(tried) + 1 /\ DOMAIN tried = 1 .. Len(tried)
      /\ \A k \in DOMAIN tried : tried'[k] = tried[k]
      /\ tried'[Len(tried) + 1] = [node |-> a, got |-> e]
  BY OneMoreTried
<1>2. ASSUME NEW k \in DOMAIN tried', tried'[k].node \in publicSet
      PROVE  localSet \subseteq {tried'[j].node : j \in 1 .. k - 1}
  <2>1. CASE k \in DOMAIN tried
    <3>1. localSet \subseteq {tried[j].node : j \in 1 .. k - 1}
      BY <1>1, <1>2, <2>1 DEF LocalFirst
    <3>2. \A j \in 1 .. k - 1 : tried'[j] = tried[j]
      BY <1>1, <2>1
    <3> QED
      BY <3>1, <3>2
  <2>2. CASE k = Len(tried) + 1
    <3>1. localSet \subseteq TriedNodes
      BY <1>1, <1>2, <2>2
    <3>2. TriedNodes = {tried'[j].node : j \in 1 .. k - 1}
      BY <1>1, <2>2 DEF TriedNodes
    <3> QED
      BY <3>1, <3>2
  <2> QED
    BY <1>1, <2>1, <2>2
<1>3. ASSUME NEW j \in DOMAIN tried', NEW k \in DOMAIN tried', tried'[j].node = tried'[k].node
      PROVE  j = k
  <2>1. \A m \in DOMAIN tried : tried[m].node # a
    BY DEF TriedNodes
  <2> QED
    BY <1>1, <1>3, <2>1
<1> QED
  BY <1>2, <1>3

LEMMA Bounds ==
  ASSUME TypeOK
  PROVE  /\ MaxRetries(chain) \in Nat /\ MaxRetries(chain) \in 1 .. 20
         /\ MinOf(MaxRetries(chain), len) \in Nat
         /\ len > 0 => MinOf(MaxRetries(chain), len) > 0
         /\ MinOf(MaxRetries(chain), len) <= len
BY DEF TypeOK, MaxRetries, MinOf

(* Which attempts were answers, after one more. *)
LEMMA OneMoreAnswer ==
  ASSUME TypeOK, NEW a \in Address, NEW e \in Outcome, Tried(a, e),
         UNCHANGED <<localSet, publicSet>>
  PROVE  /\ \A k \in Answers : k \in DOMAIN tried /\ tried'[k] = tried[k] /\ k <= Len(tried)
         /\ e \in GetNodeError => Answers' = Answers
         /\ e \notin GetNodeError => Answers' = Answers \cup {Len(tried) + 1}
<1>1. /\ Len(tried) \in Nat
      /\ DOMAIN tried' = 1 .. Len(tried) + 1 /\ DOMAIN tried = 1 .. Len(tried)
      /\ \A k \in DOMAIN tried : tried'[k] = tried[k]
      /\ tried'[Len(tried) + 1] = [node |-> a, got |-> e]
  BY OneMoreTried
<1>2. Answers' = {k \in DOMAIN tried' : tried'[k].got \notin GetNodeError}
  BY DEF Answers
<1>3. \A k \in DOMAIN tried' : k \in DOMAIN tried \/ k = Len(tried) + 1
  BY <1>1
<1>4. \A k \in DOMAIN tried : k \in Answers' <=> k \in Answers
  BY <1>1, <1>2 DEF Answers
<1>5. Len(tried) + 1 \in Answers' <=> e \notin GetNodeError
  BY <1>1, <1>2
<1>6. Len(tried) + 1 \notin Answers /\ Answers \subseteq DOMAIN tried
      /\ Answers' \subseteq DOMAIN tried'
  BY <1>1, <1>2 DEF Answers
<1>7. \A k \in Answers : k \in DOMAIN tried /\ tried'[k] = tried[k] /\ k <= Len(tried)
  BY <1>1, <1>6
<1>8. \A k : k \in Answers' <=> k \in Answers \/ (k = Len(tried) + 1 /\ e \notin GetNodeError)
  <2> SUFFICES ASSUME NEW k
               PROVE  k \in Answers' <=> k \in Answers \/ (k = Len(tried) + 1 /\ e \notin GetNodeError)
    OBVIOUS
  <2>1. CASE k \in DOMAIN tried
    BY <1>1, <1>4, <2>1
  <2>2. CASE k = Len(tried) + 1
    BY <1>5, <1>6, <2>2
  <2>3. CASE k \notin DOMAIN tried'
    BY <1>1, <1>6, <2>3
  <2> QED
    BY <1>3, <2>1, <2>2, <2>3
<1>9. e \in GetNodeError => Answers' = Answers
  BY <1>8
<1>10. e \notin GetNodeError => Answers' = Answers \cup {Len(tried) + 1}
  BY <1>8
<1> QED
  BY <1>7, <1>9, <1>10

(* A node that cannot be used. *)
LEMMA SkipStep ==
  ASSUME Inv, Looping, NEW a, Peek(a), NEW e \in GetNodeError, Skip(e), Tried(a, e),
         UNCHANGED open
  PROVE  Inv'
<1> USE DEF Inv
<1>1. pc = "loop" /\ pc' = "loop" /\ i' = i + 1 /\ err' = e /\ apiErr' = apiErr
      /\ UNCHANGED <<config, client, result>>
  BY DEF Looping, Skip
<1>2. /\ a \in Address /\ a \notin TriedNodes
      /\ localAddrs' \in Seq(localSet) /\ publicAddrs' \in Seq(publicSet)
      /\ len' = len
      /\ Len(localAddrs') + Len(publicAddrs') + 1 + i = len
      /\ IsInjective(localAddrs') /\ IsInjective(publicAddrs')
      /\ Range(localAddrs') = localSet \ (TriedNodes \cup {a})
      /\ Range(publicAddrs') = publicSet \ (TriedNodes \cup {a})
      /\ a \in publicSet => localSet \subseteq TriedNodes
  BY <1>1, PeekTakes
<1>3. e \in Outcome
  BY DEF Outcome
<1>4. /\ tried' \in Seq([node : Address, got : Outcome])
      /\ Len(tried') = Len(tried) + 1 /\ Len(tried) \in Nat
      /\ Last(tried') = [node |-> a, got |-> e]
      /\ TriedNodes' = TriedNodes \cup {a}
      /\ \A k \in DOMAIN tried : tried'[k] = tried[k]
  BY <1>1, <1>2, <1>3, OneMoreTried DEF config
<1>5. /\ i \in Nat /\ len \in Nat /\ i + 1 <= MinOf(MaxRetries(chain), len)
      /\ len = Cardinality(Address) /\ len > 0 /\ Len(tried) = i
  BY <1>1, Bounds DEF TypeOK, Looping, ListsAreTheRest, Running
<1>6. TypeOK'
  <2>1. i' \in 0 .. MinOf(MaxRetries(chain'), len')
    BY <1>1, <1>2, <1>5, Bounds DEF config
  <2>2. Address' = Address
    BY <1>1 DEF Address, config
  <2> QED
    BY <1>1, <1>2, <1>4, <2>1, <2>2 DEF TypeOK, config
<1>7. OneInUse'
  BY <1>1 DEF OneInUse, ClientsClosed, config
<1>8. ListsAreTheRest'
  <2>1. Address' = Address /\ InUse' = {} /\ Seen' = TriedNodes \cup {a}
    BY <1>1, <1>4 DEF Address, InUse, Seen, config
  <2> QED
    BY <1>1, <1>2, <1>4, <1>5, <2>1 DEF ListsAreTheRest, config
<1>9. ErrorsAreRemembered'
  <2>1. Answers' = Answers /\ \A k \in Answers : tried'[k] = tried[k]
    BY <1>1, <1>2, <1>3, OneMoreAnswer DEF config
  <2>2. e # "nil"
    BY DEF GetNodeError
  <2> QED
    BY <1>1, <1>4, <2>1, <2>2 DEF ErrorsAreRemembered
<1>10. /\ \A k \in DOMAIN tried' : tried'[k].node \in publicSet =>
            localSet \subseteq {tried'[j].node : j \in 1 .. k - 1}
       /\ \A j, k \in DOMAIN tried' : tried'[j].node = tried'[k].node => j = k
  BY <1>1, <1>2, <1>3, HistoryGrows DEF config, NoneTwice
<1>11. LocalFirst'
  <2>1. client' = NoClient
    BY <1>1 DEF OneInUse
  <2> QED
    BY <1>1, <1>10, <2>1 DEF LocalFirst, config
<1>12. NoneTwice'
  <2>1. Address' = Address /\ chain' = chain
    BY <1>1 DEF Address, config
  <2>2. ~Looping' => i' >= MinOf(MaxRetries(chain), len)
    BY <1>1, <1>2, <1>5, <2>1, Bounds DEF Looping
  <2> QED
    BY <1>1, <1>2, <1>4, <1>5, <1>10, <2>1, <2>2, Bounds DEF NoneTwice
<1>13. AnswerWins'
  BY <1>1 DEF AnswerWins
<1> QED
  BY <1>6, <1>7, <1>8, <1>9, <1>11, <1>12, <1>13

(* A node that can. *)
LEMMA GetNodeStep ==
  ASSUME Inv, NEW a, GetNode(a)
  PROVE  Inv'
<1> USE DEF Inv
<1>1. /\ pc = "loop" /\ pc' = "call" /\ err' = "nil"
      /\ UNCHANGED <<config, i, apiErr, result, tried>>
      /\ i < MinOf(MaxRetries(chain), len)
  BY DEF Looping, GetNode
<1>2. /\ a \in Address /\ a \notin TriedNodes
      /\ localAddrs' \in Seq(localSet) /\ publicAddrs' \in Seq(publicSet)
      /\ len' = len
      /\ Len(localAddrs') + Len(publicAddrs') + 1 + i = len
      /\ IsInjective(localAddrs') /\ IsInjective(publicAddrs')
      /\ Range(localAddrs') = localSet \ (TriedNodes \cup {a})
      /\ Range(publicAddrs') = publicSet \ (TriedNodes \cup {a})
      /\ a \in publicSet => localSet \subseteq TriedNodes
  BY <1>1, PeekTakes DEF GetNode
<1>3. PICK v \in View : client' = [node |-> a, view |-> v]
  BY DEF GetNode
<1>4. client' # NoClient /\ client'.node = a /\ client' \in [node : Address, view : View]
  BY <1>2, <1>3 DEF NoClient
<1>5. open' \subseteq {a}
  BY <1>1 DEF GetNode, OneInUse, ClientsClosed
<1>6. Address' = Address /\ TriedNodes' = TriedNodes
  BY <1>1 DEF Address, TriedNodes, config
<1>7. TypeOK'
  BY <1>1, <1>2, <1>4, <1>5, <1>6 DEF TypeOK, config
<1>8. OneInUse'
  BY <1>1, <1>2, <1>4, <1>5 DEF OneInUse, ClientsClosed, config
<1>9. ListsAreTheRest'
  <2>1. InUse' = {a} /\ Seen' = TriedNodes \cup {a}
    BY <1>1, <1>4, <1>6 DEF InUse, Seen
  <2>2. /\ len = Cardinality(Address) /\ len > 0 /\ Len(tried) = i
        /\ Len(localAddrs') + Len(publicAddrs') + 1 + i = len
    BY <1>1, <1>2 DEF ListsAreTheRest, Running
  <2> QED
    BY <1>1, <1>2, <1>6, <2>1, <2>2 DEF ListsAreTheRest, config
<1>10. ErrorsAreRemembered'
  BY <1>1 DEF ErrorsAreRemembered, Answers
<1>11. LocalFirst'
  BY <1>1, <1>2, <1>4, <1>6 DEF LocalFirst, config
<1>12. NoneTwice'
  BY <1>1 DEF NoneTwice
<1>13. AnswerWins'
  BY <1>1 DEF AnswerWins
<1> QED
  BY <1>7, <1>8, <1>9, <1>10, <1>11, <1>12, <1>13

(* The handler's function has run. *)
LEMMA CallStep ==
  ASSUME Inv, Call
  PROVE  Inv'
<1> USE DEF Inv
<1>1. /\ pc = "call" /\ client # NoClient /\ err = "nil" /\ client' = NoClient
      /\ open' = {}
      /\ UNCHANGED <<config, manager, err>>
      /\ i < MinOf(MaxRetries(chain), len)
  BY DEF Call, OneInUse, ClientsClosed
<1>2. PICK r \in HandlerReturns(chain) :
        /\ apiErr' = r.err
        /\ Tried(client.node, r.err)
        /\ IF r.retry
             THEN pc' = "loop" /\ i' = i + 1 /\ UNCHANGED result
             ELSE pc' = "done" /\ result' = FinalError(chain, r.err) /\ UNCHANGED i
  BY DEF Call
<1> DEFINE a == client.node
           e == r.err
<1>3. /\ e \in AnswerError \cup {"nil"} /\ r.retry \in BOOLEAN
      /\ e \in Outcome /\ e \notin GetNodeError
      /\ chain = "fil" /\ ~r.retry => e = "nil"
  BY ErrorsDiffer DEF HandlerReturns, Outcome, GetNodeError
<1>4. a \in Address /\ a \notin TriedNodes
  BY <1>1 DEF TypeOK, ListsAreTheRest, Running, InUse
<1>5. /\ tried' \in Seq([node : Address, got : Outcome])
      /\ Len(tried') = Len(tried) + 1 /\ Len(tried) \in Nat
      /\ DOMAIN tried' = 1 .. Len(tried) + 1
      /\ tried'[Len(tried) + 1] = [node |-> a, got |-> e]
      /\ Last(tried') = [node |-> a, got |-> e]
      /\ TriedNodes' = TriedNodes \cup {a}
  BY <1>1, <1>2, <1>3, <1>4, OneMoreTried DEF config
<1>6. /\ Answers' = Answers \cup {Len(tried) + 1}
      /\ \A k \in Answers : k <= Len(tried) /\ k \in Nat
  BY <1>1, <1>2, <1>3, <1>4, <1>5, OneMoreAnswer, OneMoreTried DEF config
<1>7. /\ i \in Nat /\ len \in Nat
      /\ len = Cardinality(Address) /\ len > 0 /\ Len(tried) = i
      /\ Len(localAddrs) + Len(publicAddrs) + 1 + i = len
  BY <1>1 DEF TypeOK, ListsAreTheRest, Running
<1>8. Address' = Address /\ chain' = chain /\ len' = len
  BY <1>1 DEF Address, config, manager
<1>9. result' \in Outcome \cup {"none", "no_endpoints"}
  BY <1>1, <1>2, <1>3 DEF FinalError, Outcome, TypeOK
<1>10. TypeOK'
  <2>1. i' \in 0 .. MinOf(MaxRetries(chain'), len')
    BY <1>1, <1>2, <1>7, <1>8, Bounds
  <2> QED
    BY <1>1, <1>2, <1>3, <1>5, <1>8, <1>9, <2>1 DEF TypeOK, config, manager
<1>11. OneInUse'
  BY <1>1, <1>2 DEF OneInUse, ClientsClosed
<1>12. ListsAreTheRest'
  <2>1. pc' # "start"
    BY <1>2
  <2>2. ASSUME pc' = "loop"
        PROVE  /\ InUse' = {} /\ Seen' = Seen /\ i' = i + 1
    BY <1>1, <1>2, <1>5, <2>2 DEF InUse, Seen
  <2>3. ~(pc' = "call")
    BY <1>2
  <2> QED
    BY <1>1, <1>5, <1>7, <1>8, <2>1, <2>2, <2>3 DEF ListsAreTheRest, Running, config, manager
<1>13. ErrorsAreRemembered'
  <2>1. ASSUME NEW k \in Answers', \A j \in Answers' : j <= k
        PROVE  tried'[k].got = apiErr'
    BY <1>2, <1>5, <1>6, <2>1
  <2>2. Last(tried').got = apiErr' /\ err' = "nil"
    BY <1>1, <1>2, <1>5
  <2>3. pc' # "done" => result' = "none"
    BY <1>1, <1>2 DEF ErrorsAreRemembered
  <2>4. apiErr' # "nil" => Answers' # {}
    BY <1>6
  <2> QED
    BY <2>1, <2>2, <2>3, <2>4 DEF ErrorsAreRemembered
<1>14. /\ \A k \in DOMAIN tried' : tried'[k].node \in publicSet =>
            localSet \subseteq {tried'[j].node : j \in 1 .. k - 1}
       /\ \A j, k \in DOMAIN tried' : tried'[j].node = tried'[k].node => j = k
  BY <1>1, <1>2, <1>3, <1>4, HistoryGrows DEF config, NoneTwice, LocalFirst
<1>15. LocalFirst'
  BY <1>1, <1>14 DEF LocalFirst, config
<1>16. NoneTwice'
  <2>1. pc' = "loop" /\ ~Looping' => i + 1 >= MinOf(MaxRetries(chain), len)
    BY <1>2, <1>7, <1>8, Bounds DEF Looping
  <2> QED
    BY <1>1, <1>5, <1>7, <1>8, <1>14, <2>1, Bounds DEF NoneTwice
<1>17. AnswerWins'
  <2>1. ASSUME pc' = "done"
        PROVE  result' = e
    BY <1>1, <1>2, <1>3, <2>1 DEF FinalError
  <2>2. ASSUME NEW k \in Answers', \A j \in Answers' : j <= k
        PROVE  tried'[k].got = e
    BY <1>5, <1>6, <2>2
  <2>3. Len(tried) + 1 \in Answers' /\ tried'[Len(tried) + 1].got = e
    BY <1>5, <1>6
  <2> QED
    BY <2>1, <2>2, <2>3 DEF AnswerWins
<1> QED
  BY <1>10, <1>11, <1>12, <1>13, <1>15, <1>16, <1>17

(* All nodes were tried. *)
LEMMA LoopEndsStep ==
  ASSUME Inv, LoopEnds
  PROVE  Inv'
<1> USE DEF Inv
<1>1. /\ pc = "loop" /\ ~Looping /\ pc' = "done"
      /\ result' = (IF apiErr # "nil" THEN apiErr ELSE err)
      /\ UNCHANGED <<config, manager, i, client, open, err, apiErr, tried>>
  BY DEF LoopEnds
<1>2. /\ Len(tried) = i /\ len > 0
      /\ i \in Nat /\ i >= MinOf(MaxRetries(chain), len)
  BY <1>1, Bounds DEF TypeOK, ListsAreTheRest, Running, Looping
<1>3. tried # <<>> /\ Len(tried) \in DOMAIN tried /\ Last(tried) = tried[Len(tried)]
  BY <1>2, Bounds DEF TypeOK, Last
<1>4. Address' = Address /\ Answers' = Answers
  BY <1>1 DEF Address, Answers, config
<1>5. TypeOK'
  BY <1>1, <1>4 DEF TypeOK, Outcome, config, manager
<1>6. OneInUse' /\ ListsAreTheRest' /\ NoneTwice'
  BY <1>1 DEF OneInUse, ClientsClosed, ListsAreTheRest, Running, NoneTwice
<1>7. ErrorsAreRemembered'
  BY <1>1, <1>4 DEF ErrorsAreRemembered
<1>8. LocalFirst'
  BY <1>1 DEF LocalFirst, TriedNodes, config
<1>9. AnswerWins'
  <2>1. ASSUME NEW k \in Answers, \A j \in Answers : j <= k, tried[k].got # "nil"
        PROVE  result' = tried[k].got
    BY <1>1, <2>1 DEF ErrorsAreRemembered
  <2>2. ASSUME result' = "nil"
        PROVE  Len(tried) \in Answers /\ tried[Len(tried)].got = "nil"
    <3>1. apiErr = "nil" /\ err = "nil"
      BY <1>1, <2>2
    <3>2. Last(tried).got = "nil"
      BY <1>1, <1>3, <3>1 DEF ErrorsAreRemembered
    <3> QED
      BY <1>3, <3>2 DEF Answers, GetNodeError
  <2> QED
    BY <1>1, <1>4, <2>1, <2>2 DEF AnswerWins
<1> QED
  BY <1>5, <1>6, <1>7, <1>8, <1>9

(* The configured nodes are listed. *)
LEMMA NewManagerStep ==
  ASSUME Inv, NewManager
  PROVE  Inv'
<1> USE DEF Inv
<1>1. /\ pc = "start" /\ i = 0 /\ tried = <<>> /\ client = NoClient /\ open = {}
      /\ UNCHANGED <<config, i, client, open, err, apiErr, tried>>
      /\ Address' = Address /\ Answers' = Answers /\ TriedNodes = {} /\ TriedNodes' = {}
  BY DEF NewManager, ListsAreTheRest, OneInUse, ClientsClosed, Address, Answers, config,
         TriedNodes
<1>2. apiErr = "nil"
  BY <1>1 DEF ErrorsAreRemembered, Answers
<1>3. IsFiniteSet(localSet) /\ IsFiniteSet(publicSet) /\ localSet \cap publicSet = {}
  BY ConstantsAssumption, FS_Subset DEF TypeOK
<1>4. LocalFirst' /\ ErrorsAreRemembered'
  <2>1. DOMAIN tried' = {} /\ Answers' = {}
    BY <1>1 DEF Answers
  <2>2. pc' # "done" => result' = "none"
    BY <1>1 DEF NewManager, ErrorsAreRemembered
  <2>3. LocalFirst'
    BY <1>1, <2>1 DEF LocalFirst
  <2> QED
    BY <1>1, <1>2, <2>1, <2>2, <2>3 DEF ErrorsAreRemembered
<1>5. CASE localSet = {} /\ publicSet = {}
  <2>1. pc' = "done" /\ result' = "no_endpoints" /\ UNCHANGED manager
    BY <1>5 DEF NewManager
  <2>2. TypeOK'
    BY <1>1, <2>1 DEF TypeOK, config, manager
  <2>3. OneInUse' /\ ListsAreTheRest' /\ NoneTwice'
    BY <1>1, <2>1 DEF OneInUse, ClientsClosed, ListsAreTheRest, Running, NoneTwice
  <2>4. AnswerWins'
    BY <1>1, <2>1 DEF AnswerWins, Answers
  <2> QED
    BY <1>4, <2>2, <2>3, <2>4
<1>6. CASE ~(localSet = {} /\ publicSet = {})
  <2>1. /\ localAddrs' \in SetToSeqs(localSet)
        /\ publicAddrs' \in SetToSeqs(publicSet)
        /\ len' = Cardinality(localSet) + Cardinality(publicSet)
        /\ pc' = "loop" /\ result' = result
    BY <1>6 DEF NewManager
  <2>2. /\ localAddrs' \in Seq(localSet) /\ Len(localAddrs') = Cardinality(localSet)
        /\ IsInjective(localAddrs') /\ Range(localAddrs') = localSet
    BY <1>3, <2>1, Listed
  <2>3. /\ publicAddrs' \in Seq(publicSet) /\ Len(publicAddrs') = Cardinality(publicSet)
        /\ IsInjective(publicAddrs') /\ Range(publicAddrs') = publicSet
    BY <1>3, <2>1, Listed
  <2>4. /\ Cardinality(localSet) \in Nat /\ Cardinality(publicSet) \in Nat
        /\ len' = Cardinality(Address) /\ len' \in Nat /\ len' > 0
    <3>1. /\ Cardinality(localSet) \in Nat /\ Cardinality(publicSet) \in Nat
          /\ localSet # {} => Cardinality(localSet) # 0
          /\ publicSet # {} => Cardinality(publicSet) # 0
      BY <1>3, FS_CardinalityType, FS_EmptySet
    <3>2. Cardinality(Address) = Cardinality(localSet) + Cardinality(publicSet)
      <4>1. Cardinality(localSet \cap publicSet) = 0
        BY <1>3, FS_EmptySet
      <4>2. Cardinality(Address) = Cardinality(localSet) + Cardinality(publicSet)
                                     - Cardinality(localSet \cap publicSet)
        BY <1>3, FS_Union DEF Address
      <4> QED
        BY <3>1, <4>1, <4>2
    <3> QED
      BY <1>6, <2>1, <3>1, <3>2
  <2>5. InUse' = {} /\ Seen' = {}
    BY <1>1, <2>1 DEF InUse, Seen
  <2>6. TypeOK'
    BY <1>1, <2>1, <2>2, <2>3, <2>4 DEF TypeOK, config, MinOf, MaxRetries
  <2>7. OneInUse'
    BY <1>1, <2>1 DEF OneInUse, ClientsClosed
  <2>8. ListsAreTheRest'
    BY <1>1, <2>1, <2>2, <2>3, <2>4, <2>5 DEF ListsAreTheRest, config
  <2>9. NoneTwice'
    <3>1. Looping'
      BY <1>1, <2>1, <2>4 DEF Looping, MinOf, MaxRetries
    <3> QED
      BY <1>1, <3>1 DEF NoneTwice
  <2>10. AnswerWins'
    BY <2>1 DEF AnswerWins
  <2> QED
    BY <1>4, <2>6, <2>7, <2>8, <2>9, <2>10
<1> QED
  BY <1>5, <1>6

LEMMA InitInv == Init => Inv
<1> SUFFICES ASSUME Init PROVE Inv
  OBVIOUS
<1>1. DOMAIN tried = {} /\ Answers = {} /\ ~Running
  BY DEF Init, Answers, Running
<1>2. TypeOK
  BY <1>1 DEF Init, TypeOK, MinOf, MaxRetries
<1>3. OneInUse /\ ListsAreTheRest /\ ErrorsAreRemembered
  BY <1>1 DEF Init, OneInUse, ClientsClosed, ListsAreTheRest, ErrorsAreRemembered
<1>4. LocalFirst /\ NoneTwice /\ AnswerWins
  BY <1>1 DEF Init, LocalFirst, NoneTwice, AnswerWins
<1> QED
  BY <1>2, <1>3, <1>4 DEF Inv

LEMMA NextInv ==
  ASSUME Inv, [Next]_vars
  PROVE  Inv'
<1>1. CASE NewManager
  BY <1>1, NewManagerStep
<1>2. ASSUME NEW a \in localSet \cup publicSet, OpenFails(a) \/ CheckFails(a)
      PROVE  Inv'
  <2>1. PICK e \in GetNodeError : Skip(e) /\ Tried(a, e)
    BY <1>2 DEF OpenFails, CheckFails, OpenErrors, CheckErrors, GetNodeError
  <2>2. Looping /\ Peek(a) /\ UNCHANGED open
    BY <1>2 DEF OpenFails, CheckFails
  <2> QED
    BY <2>1, <2>2, SkipStep
<1>3. ASSUME NEW a \in localSet \cup publicSet, GetNode(a)
      PROVE  Inv'
  BY <1>3, GetNodeStep
<1>4. CASE Call
  BY <1>4, CallStep
<1>5. CASE LoopEnds
  BY <1>5, LoopEndsStep
<1>6. CASE UNCHANGED vars
  BY <1>6 DEF vars, config, manager, Inv, TypeOK, OneInUse, ClientsClosed, ListsAreTheRest,
    ErrorsAreRemembered, LocalFirst, NoneTwice, AnswerWins, Address, TriedNodes, Answers,
    Running, InUse, Seen, Looping
<1> QED
  BY <1>1, <1>2, <1>3, <1>4, <1>5, <1>6 DEF Next

(* The invariant holds in every reachable state. *)
THEOREM Invariance == Spec => []Inv
<1>1. Init => Inv
  BY InitInv
<1>2. Inv /\ [Next]_vars => Inv'
  BY NextInv
<1> QED
  BY <1>1, <1>2, PTL DEF Spec

(* Every variable keeps its type; in particular the loop counter never      *)
(* passes the number of nodes WithClient is allowed.                        *)
THEOREM TypeCorrect == Spec => []TypeOK
<1>1. Inv => TypeOK
  BY DEF Inv
<1> QED
  BY <1>1, Invariance, PTL

(* Local nodes come first, whatever the lists, the shuffles and the         *)
(* failures.                                                                *)
THEOREM LocalNodesFirst == Spec => []LocalFirst
<1>1. Inv => LocalFirst
  BY DEF Inv
<1> QED
  BY <1>1, Invariance, PTL

(* Each node is tried at most once, and all of them, or MaxRetries, before  *)
(* a call gives up.                                                         *)
THEOREM EachNodeOnce == Spec => []NoneTwice
<1>1. Inv => NoneTwice
  BY DEF Inv
<1> QED
  BY <1>1, Invariance, PTL

(* The loop never asks an empty Manager. *)
THEOREM NeverRunsDry == Spec => []NeverExhausted
<1>1. Inv => NeverExhausted
  <2> SUFFICES ASSUME Inv, Looping, Exhausted PROVE FALSE
    BY DEF NeverExhausted
  <2>1. TypeOK /\ Len(localAddrs) + Len(publicAddrs) + i = len
    BY DEF Inv, Looping, ListsAreTheRest, Running
  <2>2. i = len
    BY <2>1 DEF Exhausted, TypeOK
  <2> QED
    BY <2>1, <2>2, Bounds DEF Looping, TypeOK
<1> QED
  BY <1>1, Invariance, PTL

(* Every connection that is opened is closed again. *)
THEOREM NothingStaysOpen == Spec => []ClientsClosed
<1>1. Inv => ClientsClosed
  BY DEF Inv, OneInUse
<1> QED
  BY <1>1, Invariance, PTL

(* An answer is never lost over a node that could not be asked. *)
THEOREM AnswersAreReturned == Spec => []AnswerWins
<1>1. Inv => AnswerWins
  BY DEF Inv
<1> QED
  BY <1>1, Invariance, PTL

-----------------------------------------------------------------------------
(* WithClient implements NodeCall.                                          *)

LEMMA InitRefines == Init => AbstractCall!Init
<1> SUFFICES ASSUME Init PROVE AbstractCall!Init
  OBVIOUS
<1>1. IsFiniteSet(localSet) /\ IsFiniteSet(publicSet)
  BY ConstantsAssumption, FS_Subset DEF Init
<1>2. Cardinality(localSet) \in Nat /\ Cardinality(publicSet) \in Nat
  BY <1>1, FS_CardinalityType
<1>3. left \in 0 .. 20
  <2>1. MaxRetries(chain) \in {3, 20}
    BY DEF MaxRetries
  <2>2. left = MinOf(MaxRetries(chain), Cardinality(localSet) + Cardinality(publicSet))
    BY DEF Init, left
  <2> QED
    BY <1>2, <2>1, <2>2 DEF MinOf
<1>4. best = "nil"
  BY DEF Init, best
<1> QED
  BY <1>3, <1>4 DEF Init, AbstractCall!Init

LEMMA StepRefines ==
  ASSUME Inv, [Next]_vars
  PROVE  [AbstractCall!Next]_AbstractCall!vars
<1> USE DEF Inv
<1>1. CASE NewManager
  <2>1. /\ pc = "start" /\ result = "none" /\ i = 0 /\ tried = <<>> /\ apiErr = "nil"
        /\ UNCHANGED <<chain, localSet, publicSet, i, apiErr, tried>>
    BY <1>1 DEF NewManager, ListsAreTheRest, ErrorsAreRemembered, Answers, config
  <2>2. best = "nil" /\ best' = "nil"
    BY <2>1 DEF best
  <2>3. CASE localSet = {} /\ publicSet = {}
    <3>1. pc' = "done" /\ result' = "no_endpoints"
      BY <1>1, <2>3 DEF NewManager
    <3>2. left = 0 /\ left' = 0
      BY <2>1, <2>3, <3>1, FS_EmptySet DEF left, MinOf, MaxRetries
    <3>3. AbstractCall!NoEndpoints
      BY <2>1, <2>2, <3>1, <3>2 DEF AbstractCall!NoEndpoints
    <3> QED
      BY <3>3 DEF AbstractCall!Next
  <2>4. CASE ~(localSet = {} /\ publicSet = {})
    <3>1. /\ pc' = "loop" /\ result' = result
          /\ len' = Cardinality(localSet) + Cardinality(publicSet)
      BY <1>1, <2>4 DEF NewManager
    <3>2. /\ Cardinality(localSet) \in Nat /\ Cardinality(publicSet) \in Nat
      BY ConstantsAssumption, FS_Subset, FS_CardinalityType DEF TypeOK
    <3>3. left' = left
      BY <2>1, <3>1, <3>2 DEF left, MinOf, MaxRetries
    <3> QED
      BY <2>2, <3>1, <3>3 DEF AbstractCall!vars
  <2> QED
    BY <2>3, <2>4
<1>2. ASSUME NEW a \in localSet \cup publicSet, OpenFails(a) \/ CheckFails(a)
      PROVE  AbstractCall!Next
  <2>1. PICK e \in GetNodeError : Skip(e) /\ Tried(a, e)
    BY <1>2 DEF OpenFails, CheckFails, OpenErrors, CheckErrors, GetNodeError
  <2>2. Looping /\ Peek(a)
    BY <1>2 DEF OpenFails, CheckFails
  <2>3. /\ pc = "loop" /\ pc' = "loop" /\ i' = i + 1 /\ apiErr' = apiErr
        /\ result = "none" /\ result' = result
        /\ UNCHANGED <<chain, localSet, publicSet>> /\ len' = len
        /\ i < MinOf(MaxRetries(chain), len)
    BY <2>1, <2>2, PeekTakes DEF Looping, Skip, config, ErrorsAreRemembered
  <2>4. left \in Nat /\ left > 0 /\ left' = left - 1
    BY <2>3, Bounds DEF left, TypeOK
  <2>5. e \in Outcome /\ a \in Address /\ e # "nil" /\ e \notin AnswerError
    BY ErrorsDiffer DEF Outcome, Address, GetNodeError
  <2>6. Last(tried') = [node |-> a, got |-> e] /\ Len(tried') = Len(tried) + 1
        /\ Len(tried) \in Nat /\ tried' \in Seq([node : Address, got : Outcome])
    BY <2>1, <2>3, <2>5, OneMoreTried
  <2>7. tried' # <<>>
    BY <2>6
  <2>8. best \in AnswerError <=> apiErr # "nil"
    <3>1. apiErr # "nil" => best \in AnswerError
      BY DEF best, TypeOK
    <3>2. apiErr = "nil" => best \in GetNodeError \cup {"nil"}
      BY <2>3 DEF best, TypeOK, ErrorsAreRemembered
    <3> QED
      BY <3>1, <3>2, ErrorsDiffer
  <2>9. best' = IF best \in AnswerError THEN best ELSE e
    BY <2>3, <2>6, <2>7, <2>8 DEF best
  <2>10. AbstractCall!NotAsked
    BY <2>3, <2>4, <2>9 DEF AbstractCall!NotAsked
  <2> QED
    BY <2>10 DEF AbstractCall!Next
<1>3. ASSUME NEW a \in localSet \cup publicSet, GetNode(a)
      PROVE  UNCHANGED AbstractCall!vars
  <2>1. /\ pc = "loop" /\ pc' = "call" /\ UNCHANGED <<chain, i, apiErr, result, tried>>
        /\ len' = len
    BY <1>3, PeekTakes DEF GetNode, Looping, config
  <2> QED
    BY <2>1 DEF AbstractCall!vars, left, best
<1>4. CASE Call
  <2>1. /\ pc = "call" /\ result = "none" /\ err = "nil"
        /\ UNCHANGED <<chain, localSet, publicSet, len>>
        /\ i < MinOf(MaxRetries(chain), len)
        /\ client.node \in Address
    BY <1>4 DEF Call, OneInUse, ErrorsAreRemembered, config, manager, TypeOK
  <2>2. PICK r \in HandlerReturns(chain) :
          /\ apiErr' = r.err
          /\ Tried(client.node, r.err)
          /\ IF r.retry
               THEN pc' = "loop" /\ i' = i + 1 /\ UNCHANGED result
               ELSE pc' = "done" /\ result' = FinalError(chain, r.err) /\ UNCHANGED i
    BY <1>4 DEF Call
  <2>3. /\ r.err \in AnswerError \cup {"nil"} /\ r.retry \in BOOLEAN
        /\ r.err \in Outcome
        /\ chain = "fil" /\ ~r.retry => r.err = "nil"
    BY DEF HandlerReturns, Outcome
  <2>4. Last(tried') = [node |-> client.node, got |-> r.err]
        /\ Len(tried') = Len(tried) + 1 /\ Len(tried) \in Nat
        /\ tried' \in Seq([node : Address, got : Outcome])
    BY <2>1, <2>2, <2>3, OneMoreTried
  <2>5. best' = r.err
    BY <2>2, <2>4 DEF best
  <2>6. left \in Nat /\ left > 0
    BY <2>1, Bounds DEF left, TypeOK
  <2>7. CASE r.retry
    <3>1. left' = left - 1
      BY <2>1, <2>2, <2>7, Bounds DEF left, TypeOK
    <3>2. AbstractCall!Asked
      BY <2>1, <2>2, <2>3, <2>5, <2>6, <2>7, <3>1 DEF AbstractCall!Asked, AbstractCall!Answer
    <3> QED
      BY <3>2 DEF AbstractCall!Next
  <2>8. CASE ~r.retry
    <3>1. left' = 0 /\ result' = r.err
      BY <2>1, <2>2, <2>3, <2>8 DEF left, FinalError
    <3>2. AbstractCall!Satisfied
      BY <2>1, <2>3, <2>5, <2>6, <3>1 DEF AbstractCall!Satisfied, AbstractCall!Answer
    <3> QED
      BY <3>2 DEF AbstractCall!Next
  <2> QED
    BY <2>3, <2>7, <2>8
<1>5. CASE LoopEnds
  <2>1. /\ pc = "loop" /\ pc' = "done" /\ result = "none" /\ ~Looping
        /\ result' = (IF apiErr # "nil" THEN apiErr ELSE err)
        /\ UNCHANGED <<chain, apiErr, err, tried, i, len>>
    BY <1>5 DEF LoopEnds, ErrorsAreRemembered, config, manager
  <2>2. /\ Len(tried) = i /\ len > 0 /\ i = MinOf(MaxRetries(chain), len)
    BY <2>1, Bounds DEF ListsAreTheRest, Running, Looping, TypeOK
  <2>3. tried # <<>>
    BY <2>2, Bounds DEF TypeOK
  <2>4. left = 0 /\ left' = 0
    BY <2>1, <2>2, Bounds DEF left
  <2>5. best' = best /\ result' = best
    BY <2>1, <2>3 DEF best, ErrorsAreRemembered
  <2>6. AbstractCall!GiveUp
    BY <2>1, <2>4, <2>5 DEF AbstractCall!GiveUp
  <2> QED
    BY <2>6 DEF AbstractCall!Next
<1>6. CASE UNCHANGED vars
  BY <1>6 DEF vars, config, manager, AbstractCall!vars, left, best
<1> QED
  BY <1>1, <1>2, <1>3, <1>4, <1>5, <1>6 DEF Next

(* Whatever chain, nodes and failures: WithClient is a NodeCall, so that    *)
(* its callers need to know no more than that.                              *)
THEOREM Implements == Spec => NodeCallSpec
<1>1. Init => AbstractCall!Init
  BY InitRefines
<1>2. Inv /\ [Next]_vars => [AbstractCall!Next]_AbstractCall!vars
  BY StepRefines
<1> QED
  BY <1>1, <1>2, Invariance, PTL DEF Spec, NodeCallSpec, AbstractCall!Spec

=============================================================================
