----------------------------- MODULE Utxo_proofs -----------------------------
(***************************************************************************)
(* Inv is an invariant of Utxo for any payments and outputs, any node and   *)
(* any order of blocks and reorganisations that are less deep than the      *)
(* confirmations the plugin waits for.                                      *)
(***************************************************************************)
EXTENDS Utxo, SumTheorems

LEMMA Numbers ==
  /\ Deep \in Nat /\ MinConfirms \in Nat /\ MaxReorg \in Nat /\ MaxLag \in Nat
  /\ MaxReorg < MinConfirms /\ Deep >= MinConfirms /\ Deep > MaxReorg
  /\ Tx \cap Coins = {} /\ MaxReorgs \in Nat
BY ConstantsAssumption, ConfirmedIsFinal DEF Deep

-----------------------------------------------------------------------------
(* Sums of outputs.                                                         *)

(* The values that Sum adds up. *)
worth == [o \in Output |-> Value(o)]

LEMMA OutputsFinite ==
  /\ IsFiniteSet(Output) /\ IsFiniteSet(Tx) /\ IsFiniteSet(Coins)
  /\ \A S \in SUBSET Output : IsFiniteSet(S)
BY ConstantsAssumption, FS_Union, FS_Subset DEF Output

LEMMA WorthType ==
  ASSUME change \in [Tx -> Nat]
  PROVE  /\ worth \in [Output -> Nat]
         /\ \A t \in Tx : worth[t] = change[t] /\ Target(t) \in Nat
BY ConstantsAssumption DEF worth, Value, Output, Target

(* A sum moves only with the values of its outputs. *)
LEMMA SumMoves ==
  ASSUME NEW S \in SUBSET Output, \A o \in S : Value(o)' = Value(o)
  PROVE  SumFunctionOnSet(worth', S) = SumFunctionOnSet(worth, S)
<1>1. \A o \in S : worth'[o] = worth[o]
  BY DEF worth
<1> QED
  BY <1>1, OutputsFinite, SumOfEqual

(* Payloads that stay balance as they did. *)
LEMMA BalancedStays ==
  ASSUME Balanced, UNCHANGED payload,
         \A t \in Tx : state'[t] \notin {"Wait", "Fail"} => state[t] \notin {"Wait", "Fail"}
  PROVE  Balanced'
<1>1. worth' = worth
  BY DEF payload, worth, Value
<1>2. ASSUME NEW t \in Tx PROVE Sum(ins[t])' = Sum(ins[t]) /\ Target(t)' = Target(t)
  BY <1>1 DEF payload, Sum, worth, Target
<1> QED
  BY <1>2 DEF Balanced, payload

(* A new payload balances, and spends nothing that it gives back.           *)
LEMMA BalancedPrepared ==
  ASSUME Inv, NEW t \in Tx, state[t] = "Wait",
         NEW S \in SUBSET Output, \A o \in S : Depth(o) > MaxReorg,
         Sum(S) >= Target(t), Prepared(t, S),
         state' = [state EXCEPT ![t] = "Sign"]
  PROVE  Balanced'
<1> DEFINE Total(U) == SumFunctionOnSet(worth, U)
<1>1. /\ change \in [Tx -> Nat] /\ ins \in [Tx -> SUBSET Output] /\ state \in [Tx -> States]
      /\ ins' = [ins EXCEPT ![t] = S] /\ state' = [state EXCEPT ![t] = "Sign"]
      /\ change' = [change EXCEPT ![t] = Total(S) - Target(t)]
  BY DEF Inv, Balanced, TypeOK, Prepared, GivesBack, Sum, worth
<1>2. Total(S) \in Nat /\ Total(S) >= Target(t)
  BY <1>1, WorthType, OutputsFinite, SumIsNat DEF Sum, worth
<1>3. change' \in [Tx -> Nat]
  BY <1>1, <1>2, WorthType
<1>4. \A u \in Tx : t \notin ins'[u]
  <2>1. ~(depth[t] > MaxReorg)
    <3>1. ~Mined(t)
      BY DEF Inv, ChainIsSound, Mined
    <3>2. depth[t] \in 0 .. Deep
      BY DEF Inv, TypeOK
    <3> QED
      BY <3>1, <3>2, Numbers DEF Mined
  <2>2. t \notin Coins
    BY ConstantsAssumption
  <2> QED
    BY <1>1, <2>1, <2>2 DEF Inv, InputsStay, Depth
<1>5. ASSUME NEW u \in Tx
      PROVE  Sum(ins[u])' = Total(ins'[u])
  <2>1. ins'[u] \in SUBSET Output
    BY <1>1
  <2>2. \A o \in ins'[u] : Value(o)' = Value(o)
    BY <1>1, <1>4, <2>1 DEF Value, Output
  <2> QED
    BY <2>1, <2>2, SumMoves DEF Sum, worth
<1>6. ASSUME NEW u \in Tx, state'[u] \notin {"Wait", "Fail"}
      PROVE  Total(ins'[u]) = Target(u) + change'[u]
  <2>1. CASE u = t
    BY <1>1, <1>2, <2>1, WorthType
  <2>2. CASE u # t
    BY <1>1, <1>6, <2>2 DEF Inv, Balanced, Sum, worth
  <2> QED
    BY <2>1, <2>2
<1> QED
  BY <1>3, <1>5, <1>6 DEF Balanced, Target

-----------------------------------------------------------------------------
LEMMA InitInv == Init => Inv
<1> SUFFICES ASSUME Init PROVE Inv
  OBVIOUS
<1>1. TypeOK
  BY Numbers DEF Init, TypeOK, States, Output
<1>2. DoneIsFinal /\ InputsStay /\ ChainIsSound /\ Unprepared /\ Balanced
  BY DEF Init, DoneIsFinal, InputsStay, ChainIsSound, Unprepared, Balanced, Mined
<1> QED BY <1>1, <1>2 DEF Inv

(* Whatever a node has seen MinConfirms times lies below every block that   *)
(* may be undone, however far behind the node is.                           *)
LEMMA SeenIsFinal ==
  ASSUME TypeOK, NEW n \in Nodes, NEW d \in Int, d - n >= MinConfirms
  PROVE  d > MaxReorg
<1>1. n \in Int /\ n >= 0
  BY Numbers DEF Nodes, TypeOK
<1> QED BY <1>1, Numbers

(* What a node offers, outputs of the account that stay; a node still       *)
(* fetching blocks offers nothing else.                                     *)
LEMMA MatureStays ==
  ASSUME TypeOK, NEW n \in Nodes, NEW o \in Mature(n)
  PROVE  o \in Output /\ Depth(o) > MaxReorg
<1>1. o \in Output /\ Depth(o) - n >= MinConfirms
  BY DEF Mature
<1>2. Depth(o) \in Int
  BY <1>1, Numbers DEF Depth, Output, TypeOK
<1> QED BY <1>1, <1>2, SeenIsFinal

LEMMA OfferedStays ==
  ASSUME TypeOK, NEW offered \in Offers \cup FetchingOffers, NEW o \in offered
  PROVE  o \in Output /\ Depth(o) > MaxReorg
<1>1. CASE offered \in Offers
  <2>1. PICK n \in Nodes : o \in Mature(n)
    BY <1>1 DEF Offers, ListUnspent
  <2> QED BY <2>1, MatureStays
<1>2. CASE offered \in FetchingOffers
  <2>1. o \in Mature(undone + MaxLag)
    BY <1>2 DEF FetchingOffers
  <2>2. undone + MaxLag \in Nodes
    BY Numbers DEF Nodes, TypeOK
  <2> QED BY <2>1, <2>2, MatureStays
<1> QED BY <1>1, <1>2

LEMMA PreparesInv ==
  ASSUME Inv, NEW t \in Tx, Prepares(t) PROVE Inv'
<1> USE DEF Inv
<1>1. /\ state[t] = "Wait" /\ UNCHANGED <<sent, depth, undone, reorgs>>
      /\ state' = [state EXCEPT ![t] = "Sign"]
  BY DEF Prepares, blocks
<1>2. PICK offered \in Offers \cup FetchingOffers :
        \E S \in SUBSET offered : Sum(S) >= Target(t) /\ Prepared(t, S)
  BY DEF Prepares, Takes
<1>3. PICK S \in SUBSET offered : Sum(S) >= Target(t) /\ Prepared(t, S)
  BY <1>2
<1>4. S \in SUBSET Output /\ \A o \in S : Depth(o) > MaxReorg
  BY OfferedStays
<1>5. ins' = [ins EXCEPT ![t] = S]
  BY <1>3 DEF Prepared
<1>6. TypeOK'
  BY <1>1, <1>4, <1>5 DEF TypeOK, States
<1>7. DoneIsFinal' /\ Unprepared'
  BY <1>1, <1>5 DEF TypeOK, DoneIsFinal, Unprepared
<1>8. InputsStay'
  BY <1>1, <1>4, <1>5 DEF TypeOK, InputsStay, Depth
<1>9. t \notin sent
  BY <1>1 DEF ChainIsSound
<1>10. ChainIsSound'
  BY <1>1, <1>5, <1>9 DEF TypeOK, ChainIsSound, Mined, Conflict
<1>11. Balanced'
  BY <1>1, <1>3, <1>4, BalancedPrepared
<1> QED BY <1>6, <1>7, <1>8, <1>10, <1>11

LEMMA RefusesInv ==
  ASSUME Inv, NEW t \in Tx, Refuses(t) PROVE Inv'
<1> USE DEF Inv
<1>1. /\ state[t] = "Wait" /\ UNCHANGED <<ins, change, sent, depth, undone, reorgs>>
      /\ state' = [state EXCEPT ![t] = "Fail"]
  BY DEF Refuses, payload, blocks
<1>2. TypeOK'
  BY <1>1 DEF TypeOK, States
<1>3. DoneIsFinal' /\ Unprepared' /\ InputsStay'
  BY <1>1 DEF TypeOK, DoneIsFinal, Unprepared, InputsStay, Depth
<1>4. ChainIsSound'
  BY <1>1 DEF TypeOK, ChainIsSound, Mined, Conflict
<1>5. Balanced'
  BY <1>1, BalancedStays DEF TypeOK, payload
<1> QED BY <1>2, <1>3, <1>4, <1>5

(* A step of a worker or the signer that leaves payloads and chain alone.   *)
LEMMA AdvanceInv ==
  ASSUME Inv, NEW t \in Tx, state[t] \notin {"Wait", "Fail"}, NEW next \in {"Broadcast", "Sync", "Done"},
         state' = [state EXCEPT ![t] = next],
         UNCHANGED <<payload, depth, blocks>>,
         sent' = sent \/ sent' = sent \cup {t},
         next = "Done" => depth[t] > MaxReorg
  PROVE  Inv'
<1> USE DEF Inv
<1>1. UNCHANGED <<ins, depth, undone, reorgs>>
  BY DEF payload, blocks
<1>2. TypeOK'
  BY <1>1 DEF TypeOK, States
<1>3. DoneIsFinal' /\ Unprepared' /\ InputsStay'
  BY <1>1 DEF TypeOK, DoneIsFinal, Unprepared, InputsStay, Depth
<1>4. ChainIsSound'
  BY <1>1 DEF TypeOK, ChainIsSound, Mined, Conflict
<1>5. Balanced'
  BY BalancedStays DEF TypeOK
<1> QED BY <1>2, <1>3, <1>4, <1>5

LEMMA SignTxInv == ASSUME Inv, NEW t \in Tx, SignTx(t) PROVE Inv'
BY AdvanceInv DEF SignTx

LEMMA BroadcastInv ==
  ASSUME Inv, NEW t \in Tx, Broadcast(t) \/ BroadcastUnheard(t) PROVE Inv'
<1>1. CASE Broadcast(t)
  BY <1>1, AdvanceInv DEF Broadcast
<1>2. CASE BroadcastUnheard(t)
  <2>1. state' = [state EXCEPT ![t] = "Broadcast"]
    BY <1>2 DEF BroadcastUnheard, Inv, TypeOK
  <2> QED BY <1>2, <2>1, AdvanceInv DEF BroadcastUnheard
<1> QED BY <1>1, <1>2

LEMMA SyncTxInv == ASSUME Inv, NEW t \in Tx, SyncTx(t) PROVE Inv'
<1>1. depth[t] > MaxReorg
  <2>1. PICK n \in Nodes : depth[t] - n >= MinConfirms
    BY DEF SyncTx, Confirmed
  <2>2. TypeOK /\ depth[t] \in Int
    BY DEF Inv, TypeOK
  <2> QED BY <2>1, <2>2, SeenIsFinal
<1> QED BY <1>1, AdvanceInv DEF SyncTx

-----------------------------------------------------------------------------
(* The chain.                                                               *)
LEMMA BlockInv == ASSUME Inv, NEW T \in SUBSET Tx, Block(T) PROVE Inv'
<1> USE DEF Inv
<1>1. UNCHANGED <<state, ins, sent, reorgs>>
  BY DEF Block, payload
<1>2. undone \in 0 .. MaxReorg /\ undone' \in 0 .. MaxReorg /\ undone' <= undone
  BY Numbers DEF Block, TypeOK
<1>3. \A t \in Tx : depth'[t] = IF t \in T THEN undone' + 1 ELSE Deeper(depth[t])
  BY DEF Block
<1>4. ASSUME NEW d \in 0 .. Deep
      PROVE Deeper(d) \in 0 .. Deep /\ Deeper(d) >= d /\ (d = 0 => Deeper(d) = 0)
  BY Numbers DEF Deeper
<1>5. \A t \in T : ~Mined(t) /\ depth[t] = 0 /\ t \in sent
  <2> SUFFICES ASSUME NEW t \in T
               PROVE ~Mined(t) /\ depth[t] = 0 /\ t \in sent
    OBVIOUS
  <2>1. t \in Unconfirmed
    BY DEF Block, Fits
  <2>2. depth[t] \in 0 .. Deep
    BY DEF TypeOK
  <2> QED BY <2>1, <2>2, Numbers DEF Unconfirmed, Mined
<1>6. \A t \in Tx : depth[t] \in 0 .. Deep /\ depth'[t] \in 0 .. Deep /\ depth'[t] >= depth[t]
  <2> SUFFICES ASSUME NEW t \in Tx
               PROVE depth[t] \in 0 .. Deep /\ depth'[t] \in 0 .. Deep /\ depth'[t] >= depth[t]
    OBVIOUS
  <2>1. depth[t] \in 0 .. Deep
    BY DEF TypeOK
  <2>2. undone' + 1 \in 0 .. Deep
    <3>1. \A n \in 0 .. MaxReorg : n + 1 \in 0 .. Deep
      BY Numbers
    <3> QED BY <1>2, <3>1
  <2> QED BY <1>3, <1>4, <1>5, <2>1, <2>2, Numbers
<1>7. TypeOK'
  <2>1. depth' \in [Tx -> 0 .. Deep]
    BY <1>6 DEF Block
  <2> QED BY <1>1, <1>2, <2>1 DEF TypeOK
<1>8. DoneIsFinal'
  BY <1>1, <1>6, Numbers DEF DoneIsFinal
<1>9. InputsStay'
  <2> SUFFICES ASSUME NEW t \in Tx, NEW o \in ins[t] PROVE (Depth(o) > MaxReorg)'
    BY <1>1 DEF InputsStay
  <2>1. o \in Output /\ Depth(o) > MaxReorg
    BY DEF InputsStay, TypeOK
  <2> QED BY <2>1, <1>6, Numbers DEF Depth, Output
<1>10. ChainIsSound'
  <2>1. ASSUME NEW t \in Tx, Mined(t)'
        PROVE t \in T \/ Mined(t)
    <3>1. CASE t \in T
      BY <3>1
    <3>2. CASE t \notin T
      BY <1>3, <1>4, <1>6, <2>1, <3>2, Numbers DEF Mined
    <3> QED BY <3>1, <3>2
  <2>2. \A t \in Tx : Mined(t)' => depth'[t] > undone' /\ t \in sent'
    <3> SUFFICES ASSUME NEW t \in Tx, Mined(t)'
                 PROVE depth'[t] > undone' /\ t \in sent'
      OBVIOUS
    <3>1. CASE t \in T
      BY <1>1, <1>2, <1>3, <1>5, <3>1
    <3>2. CASE t \notin T
      <4>1. Mined(t) /\ depth[t] > undone /\ t \in sent
        BY <2>1, <3>2 DEF ChainIsSound
      <4>2. depth'[t] >= depth[t]
        BY <1>6
      <4> QED BY <1>1, <1>2, <1>6, <4>1, <4>2, Numbers
    <3> QED BY <3>1, <3>2
  <2>3. \A t, u \in Tx : Mined(t)' /\ Mined(u)' => ~Conflict(t, u)
    <3> SUFFICES ASSUME NEW t \in Tx, NEW u \in Tx, Mined(t)', Mined(u)'
                 PROVE ~Conflict(t, u)
      OBVIOUS
    <3>1. (t \in T \/ Mined(t)) /\ (u \in T \/ Mined(u))
      BY <2>1
    <3>2. CASE t \in T /\ u \in T
      BY <3>2 DEF Block
    <3>3. CASE t \in T /\ Mined(u)
      BY <3>3 DEF Block, Fits
    <3>4. CASE Mined(t) /\ u \in T
      <4>1. ~Conflict(u, t)
        BY <3>4 DEF Block, Fits
      <4> QED BY <4>1 DEF Conflict
    <3>5. CASE Mined(t) /\ Mined(u)
      BY <3>5 DEF ChainIsSound
    <3> QED BY <3>1, <3>2, <3>3, <3>4, <3>5
  <2> QED BY <1>1, <2>2, <2>3 DEF ChainIsSound, Conflict
<1>11. Unprepared'
  BY <1>1 DEF Unprepared
<1>12. Balanced'
  BY BalancedStays DEF Block
<1> QED BY <1>7, <1>8, <1>9, <1>10, <1>11, <1>12

(* Blocks are undone no deeper than MaxReorg, where nothing lies that        *)
(* payments in Done or payloads rely on.                                    *)
LEMMA ReorgInv == ASSUME Inv, Reorg PROVE Inv'
<1> USE DEF Inv
<1>1. UNCHANGED <<state, ins, sent>>
  BY DEF Reorg, payload
<1>2. undone \in 0 .. MaxReorg /\ undone' \in 0 .. MaxReorg /\ reorgs' \in 0 .. MaxReorgs
  BY Numbers DEF Reorg, TypeOK
<1>3. \A t \in Tx : depth[t] \in 0 .. Deep
  BY DEF TypeOK
<1>4. \A t \in Tx : depth'[t] = IF depth[t] <= undone' THEN 0 ELSE depth[t]
  BY DEF Reorg
<1>5. \A t \in Tx : depth[t] > MaxReorg => depth'[t] > MaxReorg
  BY <1>2, <1>3, <1>4, Numbers
<1>6. TypeOK'
  <2>1. depth' \in [Tx -> 0 .. Deep]
    BY <1>3, Numbers DEF Reorg
  <2> QED BY <1>1, <1>2, <2>1 DEF TypeOK
<1>7. DoneIsFinal'
  BY <1>1, <1>5 DEF DoneIsFinal
<1>8. InputsStay'
  BY <1>1, <1>5, Numbers DEF InputsStay, TypeOK, Depth, Output
<1>9. ChainIsSound'
  <2>1. \A t \in Tx : Mined(t)' => Mined(t) /\ depth'[t] > undone'
    BY <1>2, <1>3, <1>4, Numbers DEF Mined
  <2> QED BY <1>1, <2>1 DEF ChainIsSound, Conflict
<1>10. Unprepared'
  BY <1>1 DEF Unprepared
<1>11. Balanced'
  BY BalancedStays DEF Reorg
<1> QED BY <1>6, <1>7, <1>8, <1>9, <1>10, <1>11

-----------------------------------------------------------------------------
LEMMA StutterInv == ASSUME Inv, UNCHANGED vars PROVE Inv'
<1>1. UNCHANGED <<state, ins, sent, depth, undone, reorgs>>
  BY DEF vars, payload, blocks
<1>2. Balanced'
  BY <1>1, BalancedStays DEF Inv, vars
<1> QED BY <1>1, <1>2 DEF Inv, TypeOK, DoneIsFinal, InputsStay, ChainIsSound, Unprepared,
                    Depth, Mined, Conflict

LEMMA NextInv == ASSUME Inv, [Next]_vars PROVE Inv'
<1>1. ASSUME NEW t \in Tx,
             PreSign(t) \/ SignTx(t) \/ SyncTx(t) \/ Broadcast(t) \/ BroadcastUnheard(t)
      PROVE Inv'
  BY <1>1, PreparesInv, RefusesInv, SignTxInv, BroadcastInv, SyncTxInv DEF PreSign
<1>2. ASSUME NEW T \in SUBSET Tx, Block(T) PROVE Inv'
  BY <1>2, BlockInv
<1>3. CASE Reorg
  BY <1>3, ReorgInv
<1>4. CASE UNCHANGED vars
  BY <1>4, StutterInv
<1> QED BY <1>1, <1>2, <1>3, <1>4 DEF Next

(* Inv, the inductive invariant.                                            *)
THEOREM Invariance == Spec => []Inv
<1>1. Init => Inv
  BY InitInv
<1>2. Inv /\ [Next]_vars => Inv'
  BY NextInv
<1> QED BY <1>1, <1>2, PTL DEF Spec

(* A payment in Done (syncTx, plugin.go:311) is never undone.               *)
THEOREM DoneStays == Spec => []DoneIsFinal
<1>1. Inv => DoneIsFinal
  BY DEF Inv
<1> QED BY <1>1, Invariance, PTL

(* What a payload spends (preSign, plugin.go:159) never vanishes.           *)
THEOREM PayloadsStand == Spec => []InputsStay
<1>1. Inv => InputsStay
  BY DEF Inv
<1> QED BY <1>1, Invariance, PTL

-----------------------------------------------------------------------------
(* What the account owns.                                                   *)

(* Coins and the change of the payments in the chain are what is unspent    *)
(* and what those payments spend; the latter overlap nowhere, and each is   *)
(* an amount, the gas and the change.                                       *)
LEMMA InvConserves == Inv => Conserved
<1> SUFFICES ASSUME Inv PROVE Conserved
  OBVIOUS
<1> DEFINE M == {t \in Tx : Mined(t)}
           Spent == UNION {ins[t] : t \in M}
           Total(S) == SumFunctionOnSet(worth, S)
           payment == [t \in Tx |-> Target(t)]
           inputs == [t \in Tx |-> Total(ins[t])]
<1>1. /\ change \in [Tx -> Nat] /\ ins \in [Tx -> SUBSET Output]
      /\ M \subseteq Tx /\ M \subseteq Output /\ Coins \subseteq Output
      /\ M \cap Coins = {}
  BY ConstantsAssumption DEF Inv, TypeOK, Balanced, Output
<1>2. /\ IsFiniteSet(M) /\ IsFiniteSet(Coins) /\ IsFiniteSet(Unspent) /\ IsFiniteSet(Spent)
      /\ \A t \in M : IsFiniteSet(ins[t])
  <2>1. M \in SUBSET Output /\ Unspent \in SUBSET Output /\ Spent \in SUBSET Output
    BY <1>1 DEF Unspent
  <2> HIDE DEF M, Spent
  <2> QED
    BY <1>1, <2>1, OutputsFinite
<1>3. \A o \in Output : worth[o] \in Nat
  BY <1>1, WorthType
<1>4. Coins \cup M = Unspent \cup Spent /\ Unspent \cap Spent = {}
  <2>1. \A o \in Output : Depth(o) > 0 <=> o \in Coins \cup M
    BY Numbers DEF Depth, Mined, Output
  <2>2. \A o \in Spent : o \in Output /\ Depth(o) > 0
    <3> SUFFICES ASSUME NEW t \in M, NEW o \in ins[t] PROVE o \in Output /\ Depth(o) > 0
      OBVIOUS
    <3>1. o \in Output /\ Depth(o) > MaxReorg
      BY <1>1 DEF Inv, InputsStay
    <3>2. Depth(o) \in Int
      BY <3>1, Numbers DEF Depth, Output, Inv, TypeOK
    <3> QED
      BY <3>1, <3>2, Numbers
  <2>3. \A o \in Output : o \in Unspent <=> Depth(o) > 0 /\ o \notin Spent
    BY DEF Unspent
  <2> HIDE DEF M, Spent
  <2> QED
    BY <1>1, <2>1, <2>2, <2>3 DEF Unspent
<1>5. Total(Coins \cup M) = Total(Coins) + Total(M)
  <2> HIDE DEF M
  <2> QED
    BY <1>1, <1>2, <1>3, SumOfUnion
<1>6. Total(Unspent \cup Spent) = Total(Unspent) + Total(Spent)
  <2>1. Unspent \subseteq Output /\ Spent \subseteq Output
    BY <1>1 DEF Unspent
  <2> HIDE DEF Spent
  <2> QED
    BY <1>2, <1>3, <1>4, <2>1, SumOfUnion
<1>7. Total(Spent) = SumFunctionOnSet(inputs, M)
  <2>1. \A t, u \in M : t # u => ins[t] \cap ins[u] = {}
    BY DEF Inv, ChainIsSound, Conflict
  <2>2. \A t \in M : \A o \in ins[t] : worth[o] \in Int
    BY <1>1, <1>3
  <2>3. \A t \in M : inputs[t] = SumFunctionOnSet(worth, ins[t])
    OBVIOUS
  <2> HIDE DEF M, inputs
  <2> QED
    BY <1>2, <2>1, <2>2, <2>3, SumOfFamily
<1>8. SumFunctionOnSet(inputs, M) = SumFunctionOnSet(payment, M) + Total(M)
  <2>1. \A t \in M : /\ payment[t] \in Int /\ worth[t] \in Int
                     /\ inputs[t] = payment[t] + worth[t]
    <3> SUFFICES ASSUME NEW t \in M
                 PROVE  /\ payment[t] \in Int /\ worth[t] \in Int
                        /\ inputs[t] = payment[t] + worth[t]
      OBVIOUS
    <3>1. worth[t] = change[t] /\ change[t] \in Nat /\ Target(t) \in Nat
      BY <1>1, WorthType
    <3>2. Sum(ins[t]) = Target(t) + change[t]
      <4>1. state[t] \in {"Broadcast", "Sync", "Done"}
        BY DEF Inv, ChainIsSound
      <4> QED
        BY <4>1 DEF Inv, Balanced
    <3> QED
      BY <3>1, <3>2 DEF Sum, worth
  <2> HIDE DEF M, inputs, payment
  <2> QED
    BY <1>2, <2>1, SumOfSums
<1>9. /\ Total(Coins) \in Int /\ Total(M) \in Int /\ Total(Unspent) \in Int
      /\ SumFunctionOnSet(payment, M) \in Int
  <2>1. \A t \in M : payment[t] \in Int
    BY <1>1, WorthType
  <2>2. Unspent \subseteq Output
    BY DEF Unspent
  <2> HIDE DEF M, payment
  <2> QED
    BY <1>1, <1>2, <1>3, <2>1, <2>2, SumIsInt
<1>10. Total(Unspent) + SumFunctionOnSet(payment, M) = Total(Coins)
  <2> DEFINE c == Total(Coins)
             m == Total(M)
             u == Total(Unspent)
             q == SumFunctionOnSet(payment, M)
  <2>1. Total(Coins \cup M) = Total(Unspent \cup Spent)
    BY <1>4
  <2>2. c + m = u + (q + m)
    BY <1>5, <1>6, <1>7, <1>8, <2>1, Zenon
  <2>3. c \in Int /\ m \in Int /\ u \in Int /\ q \in Int
    BY <1>9
  <2>4. u + q = c
    <3> HIDE DEF c, m, u, q
    <3> QED
      BY <2>2, <2>3
  <2> QED
    BY <2>4
<1> QED
  BY <1>10 DEF Conserved, Paid, Sum, worth

(* Payments, change, blocks and reorganisations move the account's money    *)
(* about (preSign, plugin.go:176-228): what it has lost is what the chain   *)
(* has seen it pay, and the gas.                                            *)
THEOREM NothingLost == Spec => []Conserved
BY InvConserves, Invariance, PTL

-----------------------------------------------------------------------------
(* What the payments booked as Done may count on.                           *)

(* No output pays for two of them: a node that had not heard of one offered *)
(* its outputs to the other, and the chain took one of the two.             *)
NoDoubleSpend ==
  \A t, u \in Tx : state[t] = "Done" /\ state[u] = "Done" => ~Conflict(t, u)

(* They cost no more, with the gas, than the account ever owned.            *)
DoneCosts == SumFunctionOnSet([t \in Tx |-> Target(t)], {t \in Tx : state[t] = "Done"})
WithinMeans == DoneCosts <= Sum(Coins)

LEMMA DoneAreMined == Inv => \A t \in Tx : state[t] = "Done" => Mined(t)
<1> SUFFICES ASSUME Inv, NEW t \in Tx, state[t] = "Done" PROVE Mined(t)
  OBVIOUS
<1>1. depth[t] > MaxReorg /\ depth[t] \in 0 .. Deep
  BY DEF Inv, DoneIsFinal, TypeOK
<1> QED
  BY <1>1, Numbers DEF Mined

LEMMA InvWithinMeans == Inv => WithinMeans
<1> SUFFICES ASSUME Inv PROVE WithinMeans
  OBVIOUS
<1> DEFINE payment == [t \in Tx |-> Target(t)]
           D == {t \in Tx : state[t] = "Done"}
           M == {t \in Tx : Mined(t)}
<1>1. change \in [Tx -> Nat] /\ D \subseteq M /\ M \subseteq Tx
  BY DoneAreMined DEF Inv, Balanced
<1>2. IsFiniteSet(M) /\ \A t \in M : payment[t] \in Nat
  <2>1. IsFiniteSet(M)
    BY <1>1, ConstantsAssumption, FS_Subset
  <2>2. \A t \in Tx : payment[t] \in Nat
    BY <1>1, WorthType
  <2> QED
    BY <1>1, <2>1, <2>2
<1>3. SumFunctionOnSet(payment, D) <= SumFunctionOnSet(payment, M)
  <2> HIDE DEF D, M, payment
  <2> QED
    BY <1>1, <1>2, SumOfSubset
<1>4. SumFunctionOnSet(payment, D) \in Nat /\ SumFunctionOnSet(payment, M) \in Nat
  <2>1. IsFiniteSet(D) /\ \A t \in D : payment[t] \in Nat
    <3> HIDE DEF D, M, payment
    <3> QED
      BY <1>1, <1>2, FS_Subset
  <2> HIDE DEF D, M, payment
  <2> QED
    BY <1>2, <2>1, SumIsNat
<1>5. Sum(Unspent) \in Nat
  <2>1. Unspent \in SUBSET Output
    BY DEF Unspent
  <2> QED
    BY <1>1, <2>1, OutputsFinite, WorthType, SumIsNat DEF Sum, worth
<1>6. Sum(Unspent) + SumFunctionOnSet(payment, M) = Sum(Coins)
  BY InvConserves DEF Conserved, Paid
<1>7. SumFunctionOnSet(payment, D) <= Sum(Coins)
  <2> DEFINE d == SumFunctionOnSet(payment, D)
             m == SumFunctionOnSet(payment, M)
             u == Sum(Unspent)
             c == Sum(Coins)
  <2>1. d \in Nat /\ m \in Nat /\ u \in Nat /\ d <= m
    BY <1>3, <1>4, <1>5
  <2>2. u + m = c
    BY <1>6
  <2>3. d <= c
    <3> HIDE DEF d, m, u, c
    <3> QED
      BY <2>1, <2>2
  <2> QED
    BY <2>3
<1> QED
  BY <1>7 DEF WithinMeans, DoneCosts

(* Two payments that syncTx (plugin.go:311) books as Done spend different   *)
(* outputs, whatever the nodes that offered them knew of each other.        *)
THEOREM DoneSpendApart == Spec => []NoDoubleSpend
<1>1. Inv => NoDoubleSpend
  BY DoneAreMined DEF Inv, ChainIsSound, NoDoubleSpend
<1> QED
  BY <1>1, Invariance, PTL

(* All that is ever booked as Done was paid out of the account's own coins: *)
(* sum by sum, change included, through every reorganisation.               *)
THEOREM NeverOverdrawn == Spec => []WithinMeans
BY InvWithinMeans, Invariance, PTL

-----------------------------------------------------------------------------
(* Why a payment fails.                                                     *)

(* A node that has fetched its blocks offers what nobody claims: it lies    *)
(* deeper than the node may lag behind.                                     *)
LEMMA UnclaimedIsOffered ==
  ASSUME Inv, NEW offered \in Offers
  PROVE  Unclaimed \subseteq offered /\ offered \in SUBSET Output
<1>0. PICK n \in Nodes, heard \in SUBSET Unconfirmed : offered = ListUnspent(n, heard)
  BY DEF Offers
<1> SUFFICES ASSUME NEW o \in Unclaimed PROVE o \in ListUnspent(n, heard)
  BY <1>0 DEF ListUnspent, Mature
<1>1. o \in Coins /\ o \in Output /\ \A t \in Tx : o \notin ins[t]
  BY DEF Unclaimed, Output
<1>2. Depth(o) - n >= MinConfirms
  <2>1. n \in Nat /\ n <= MaxReorg + MaxLag
    BY Numbers DEF Nodes, Inv, TypeOK
  <2> QED
    BY <1>1, <2>1, Numbers DEF Depth, Deep
<1>3. Value(o) > 0
  BY <1>1, ConstantsAssumption DEF Value
<1>4. o \notin SpentFor(n, heard)
  <2>1. heard \subseteq Tx
    BY DEF Unconfirmed, Inv, TypeOK
  <2> QED
    BY <1>1, <2>1 DEF SpentFor
<1> QED
  BY <1>1, <1>2, <1>3, <1>4 DEF ListUnspent, Mature

(* What nobody claims grows no larger. *)
LEMMA UnclaimedShrinks ==
  ASSUME Inv, Inv', Unclaimed' \subseteq Unclaimed
  PROVE  Sum(Unclaimed)' <= Sum(Unclaimed)
<1>1. Unclaimed \in SUBSET Output /\ Unclaimed' \in SUBSET Output
      /\ change \in [Tx -> Nat]
  BY DEF Unclaimed, Output, Inv, Balanced
<1>2. \A o \in Unclaimed' : Value(o)' = Value(o)
  BY DEF Unclaimed, Value
<1>3. SumFunctionOnSet(worth', Unclaimed') = SumFunctionOnSet(worth, Unclaimed')
  BY <1>1, <1>2, SumMoves
<1>4. SumFunctionOnSet(worth, Unclaimed') <= SumFunctionOnSet(worth, Unclaimed)
  BY <1>1, OutputsFinite, WorthType, SumOfSubset
<1> QED
  BY <1>3, <1>4 DEF Sum, worth

LEMMA FailedStep ==
  ASSUME Inv, Inv', FailedForAReason, [Next]_vars
  PROVE  FailedForAReason'
<1>1. Sum(Unclaimed) \in Nat
  <2>1. Unclaimed \in SUBSET Output /\ change \in [Tx -> Nat]
    BY DEF Unclaimed, Output, Inv, Balanced
  <2> QED
    BY <2>1, OutputsFinite, WorthType, SumIsNat DEF Sum, worth
<1>2. Sum(Unclaimed)' \in Nat
  <2>1. Unclaimed' \in SUBSET Output /\ change' \in [Tx -> Nat]
    BY DEF Unclaimed, Output, Inv, Balanced
  <2>2. \A o \in Output : worth'[o] \in Nat
    BY <2>1, ConstantsAssumption DEF worth, Value, Output
  <2> QED
    BY <2>1, <2>2, OutputsFinite, SumIsNat DEF Sum, worth
<1>3. Unclaimed' \subseteq Unclaimed
  <2>1. CASE UNCHANGED ins
    BY <2>1 DEF Unclaimed
  <2>2. ASSUME NEW t \in Tx, Prepares(t)
        PROVE  Unclaimed' \subseteq Unclaimed
    <3>1. ins[t] = {} /\ \E S : Prepared(t, S)
      BY <2>2 DEF Prepares, Inv, Unprepared
    <3>2. \A u \in Tx : ins[u] \subseteq ins'[u]
      BY <3>1 DEF Prepared, Inv, TypeOK
    <3> QED
      BY <3>2 DEF Unclaimed
  <2> QED
    BY <2>1, <2>2
    DEF Next, PreSign, Refuses, SignTx, Broadcast, BroadcastUnheard, SyncTx, Block, Reorg,
        vars, payload
<1>4. Sum(Unclaimed)' <= Sum(Unclaimed)
  BY <1>3, UnclaimedShrinks
<1>5. ASSUME NEW t \in Tx, state'[t] = "Fail", t \notin Malformed, t \notin misled'
      PROVE  Sum(Unclaimed) <= Target(t)
  <2>1. misled \subseteq misled'
    BY DEF Next, PreSign, Refuses, Prepares, SignTx, Broadcast, BroadcastUnheard, SyncTx,
           Block, Reorg, vars
  <2>2. CASE state[t] = "Fail"
    BY <1>5, <2>1, <2>2 DEF FailedForAReason
  <2>3. CASE state[t] # "Fail"
    <3>1. Refuses(t)
      BY <1>5, <2>3
      DEF Next, PreSign, Prepares, Refuses, SignTx, Broadcast, BroadcastUnheard, SyncTx,
          Block, Reorg, vars, Inv, TypeOK
    <3>2. PICK offered \in Offers : NotEnough(offered, t)
      BY <1>5, <3>1 DEF Refuses
    <3>3. Unclaimed \subseteq offered /\ offered \in SUBSET Output
      BY UnclaimedIsOffered
    <3>4. Sum(Unclaimed) <= Sum(offered) /\ Sum(offered) \in Nat
      <4>1. IsFiniteSet(offered) /\ \A o \in offered : worth[o] \in Nat
        BY <3>3, OutputsFinite, WorthType DEF Inv, Balanced
      <4> QED
        BY <3>3, <4>1, SumOfSubset, SumIsNat DEF Sum, worth
    <3> QED
      BY <1>1, <3>2, <3>4, ConstantsAssumption DEF NotEnough, Target
  <2> QED
    BY <2>2, <2>3
<1>6. \A t \in Tx : Target(t)' = Target(t) /\ Target(t) \in Nat
  BY ConstantsAssumption DEF Target
<1> QED
  BY <1>1, <1>2, <1>4, <1>5, <1>6 DEF FailedForAReason

(* A payment that is not malformed fails only for want of funds that nobody *)
(* claims (preSign, plugin.go:211), whatever the node asked has heard of    *)
(* and however it lags; unless that node was still fetching blocks, which   *)
(* its check (btc/client.go:101) lets pass.                                 *)
THEOREM FailsOnlyForFunds == Spec => []FailedForAReason
<1>1. Init => FailedForAReason
  BY DEF Init, FailedForAReason
<1>2. Inv /\ Inv' /\ FailedForAReason /\ [Next]_vars => FailedForAReason'
  BY FailedStep
<1> QED
  BY <1>1, <1>2, Invariance, PTL DEF Spec

=============================================================================
