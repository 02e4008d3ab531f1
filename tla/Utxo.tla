-------------------------------- MODULE Utxo --------------------------------
(***************************************************************************)
(* Payments out of one account of bitcoin or depinc, whose plugins          *)
(* (pkg/coins/{btc,depinc}/plugin) are the same code: preSign chooses       *)
(* outputs of the account and gives the rest back to it, syncTx waits for   *)
(* confirmations.  The chain may undo its newest blocks, and the node a     *)
(* handler happens to ask may be behind or not know of that yet.  It may    *)
(* also be far from done fetching blocks: the check of a bitcoin node       *)
(* (btc/client.go:101) lets it pass, as NodeChoice shows.                   *)
(*                                                                          *)
(* A handler and the update of the transaction's record are one step here,  *)
(* and a lost update of a broadcast one of its outcomes; handlers of        *)
(* several workers and late updates are TxPipeline's.                       *)
(*                                                                          *)
(* A payment has one output of the account, its change, and is named for    *)
(* it.  A transaction's depth is counted from the highest block there ever  *)
(* was, of which undone are gone; so it has depth - undone confirmations.   *)
(***************************************************************************)
EXTENDS Integers, FiniteSets, Functions

CONSTANTS
  Tx, amount,      \* payments, and their amounts in satoshi
  Malformed,       \* those with an environment, address or amount refused
  Coins, value,    \* outputs the account has had for long
  Gas,             \* BTCGas, DEPCGas
  MinConfirms,     \* DefaultMinConfirms
  MaxReorg,        \* so many blocks below the highest one may be undone
  MaxLag,          \* so many blocks may a node be behind that is not fetching
  MaxReorgs        \* bound on the blocks undone altogether

ASSUME ConstantsAssumption ==
  /\ amount \in [Tx -> Nat \ {0}] /\ value \in [Coins -> Nat \ {0}]
  /\ IsFiniteSet(Tx) /\ IsFiniteSet(Coins) /\ Tx \cap Coins = {}
  /\ Malformed \subseteq Tx
  /\ Gas \in Nat /\ MinConfirms \in Nat /\ MaxReorg \in Nat
  /\ MaxLag \in Nat /\ MaxReorgs \in Nat

(* Six confirmations are final: what the constant stands for.               *)
ASSUME ConfirmedIsFinal == MaxReorg < MinConfirms

VARIABLES
  state,        \* TransactionState of each payment
  ins, change,  \* its payload: the outputs it spends, and what it gives back
  sent,         \* payments that some node took
  depth,        \* 0 if it is not in the chain
  undone, reorgs,
  misled        \* history: payments preSign refused on a node still fetching

payload == <<ins, change>>
blocks == <<undone, reorgs>>
vars == <<state, payload, sent, depth, blocks, misled>>

Output == Coins \cup Tx
States == {"Wait", "Sign", "Broadcast", "Sync", "Done", "Fail"}
Deep == MinConfirms + MaxReorg + MaxLag     \* deeper is the same as this deep
Depth(o) == IF o \in Coins THEN Deep ELSE depth[o]
Mined(t) == depth[t] > 0

Target(t) == amount[t] + Gas
Value(o) == IF o \in Coins THEN value[o] ELSE change[o]
Sum(S) == SumFunctionOnSet([o \in Output |-> Value(o)], S)

(* Nodes by the number of blocks they lack: those up to undone still have   *)
(* blocks that are undone.                                                  *)
Nodes == 0 .. undone + MaxLag

-----------------------------------------------------------------------------
(* listunspent of a node that is n blocks short and has heard of the        *)
(* payments in heard: outputs with enough confirmations that it has not     *)
(* seen spent.                                                              *)
Unconfirmed == {t \in sent : ~Mined(t)}
SpentFor(n, heard) == UNION {ins[t] : t \in heard \cup {u \in Tx : depth[u] > n}}

(* Variant: unconfirmed change is offered as well. *)
MatureAny(n) == {o \in Output : Depth(o) - n > 0 /\ Value(o) > 0}

Mature(n) == {o \in Output : Depth(o) - n >= MinConfirms /\ Value(o) > 0}
ListUnspent(n, heard) == Mature(n) \ SpentFor(n, heard)

Offers == {ListUnspent(n, heard) : n \in Nodes, heard \in SUBSET Unconfirmed}

(* What a node still fetching blocks may know of: outputs, and payments of  *)
(* which it knows the inputs.  It lists, of what is mature for the node     *)
(* that is furthest behind of the others, what it knows and has not seen    *)
(* spent: nothing at first, and later outputs that were spent long ago.     *)
Fetched ==
  {K \in SUBSET Output : /\ K \cap Tx \subseteq sent
                        /\ \A t \in K \cap Tx : ins[t] \subseteq K}
FetchingOffers ==
  {(Mature(undone + MaxLag) \cap K) \ UNION {ins[t] : t \in K \cap Tx} : K \in Fetched}

(* Outputs are taken in the node's order until their sum, a float, reaches  *)
(* amount and gas: at exactly that sum the comparison may go either way.    *)
Takes(offered, t) ==
  {S \in SUBSET offered :
     Sum(S) >= Target(t) /\ \E last \in S : Sum(S \ {last}) <= Target(t)}

(* Variant: the sum is compared before the output is added. *)
NotEnoughBeforeLast(offered, t) ==
  \A last \in offered : Sum(offered \ {last}) <= Target(t)

NotEnough(offered, t) == Sum(offered) <= Target(t)

(* Variant: the gas is given back too. *)
GivesBackGas(S, t) == Sum(S) - amount[t]

GivesBack(S, t) == Sum(S) - Target(t)

Prepared(t, S) ==
  /\ ins' = [ins EXCEPT ![t] = S]
  /\ change' = [change EXCEPT ![t] = GivesBack(S, t)]

(* preSign makes the payload of what the node it asks lists.                *)
Prepares(t) ==
  /\ state[t] = "Wait" /\ t \notin Malformed
  /\ state' = [state EXCEPT ![t] = "Sign"]
  /\ \E offered \in Offers \cup FetchingOffers : \E S \in Takes(offered, t) : Prepared(t, S)
  /\ UNCHANGED <<sent, depth, blocks, misled>>

(* Or it refuses; its errors here are on the stop list.                     *)
Refuses(t) ==
  /\ state[t] = "Wait"
  /\ state' = [state EXCEPT ![t] = "Fail"]
  /\ \/ /\ t \in Malformed \/ \E offered \in Offers : NotEnough(offered, t)
        /\ UNCHANGED misled
     \/ /\ t \notin Malformed /\ \E offered \in FetchingOffers : NotEnough(offered, t)
        /\ misled' = misled \cup {t}
  /\ UNCHANGED <<payload, sent, depth, blocks>>

PreSign(t) == Refuses(t) \/ Prepares(t)

(* signTx signs every input with its amount. *)
SignTx(t) ==
  /\ state[t] = "Sign"
  /\ state' = [state EXCEPT ![t] = "Broadcast"]
  /\ UNCHANGED <<payload, sent, depth, blocks, misled>>

(* A node that is n blocks short takes a payment whose inputs it knows,     *)
(* unless it has the payment in its chain, or one that spends the same;     *)
(* what is in its pool is another matter from node to node.  A node still   *)
(* fetching blocks may lack any number.                                     *)
Conflict(t, u) == t # u /\ ins[t] \cap ins[u] # {}
Accepts(n, t) ==
  /\ \A o \in ins[t] : Depth(o) > n \/ Depth(o) = Deep
  /\ \A u \in Tx : u = t \/ Conflict(t, u) => depth[u] <= n

Broadcast(t) ==
  /\ state[t] = "Broadcast"
  /\ \E n \in 0 .. Deep : Accepts(n, t)
  /\ sent' = sent \cup {t}
  /\ state' = [state EXCEPT ![t] = "Sync"]
  /\ UNCHANGED <<payload, depth, blocks, misled>>

(* The node took it, but its answer or the update to Sync was lost: it is   *)
(* broadcast again, and refused wherever it is known.  What a node says     *)
(* then is not on the stop list.                                            *)
BroadcastUnheard(t) ==
  /\ state[t] = "Broadcast" /\ t \notin sent
  /\ \E n \in 0 .. Deep : Accepts(n, t)
  /\ sent' = sent \cup {t}
  /\ UNCHANGED <<state, payload, depth, blocks, misled>>

(* Variants: one confirmation is enough; the number is compared for         *)
(* equality.                                                                *)
ConfirmedOnce(t) == \E n \in Nodes : depth[t] - n >= 1
ConfirmedExactly(t) == \E n \in Nodes : depth[t] - n = MinConfirms

(* syncTx: an error or too few confirmations leave the payment in Sync. *)
Confirmed(t) == \E n \in Nodes : depth[t] - n >= MinConfirms

SyncTx(t) ==
  /\ state[t] = "Sync" /\ Confirmed(t)
  /\ state' = [state EXCEPT ![t] = "Done"]
  /\ UNCHANGED <<payload, sent, depth, blocks, misled>>

-----------------------------------------------------------------------------
(* The chain: a block with some of the payments that still fit, and the     *)
(* newest block undone.                                                     *)
Fits(t) ==
  /\ t \in Unconfirmed
  /\ \A o \in ins[t] : Depth(o) > 0
  /\ \A u \in Tx : Conflict(t, u) => ~Mined(u)

Deeper(d) == IF d = 0 \/ undone > 0 \/ d = Deep THEN d ELSE d + 1

Block(T) ==
  /\ \A t \in T : Fits(t)
  /\ \A t, u \in T : ~Conflict(t, u)
  /\ undone' = IF undone > 0 THEN undone - 1 ELSE 0
  /\ depth' = [t \in Tx |-> IF t \in T THEN undone' + 1 ELSE Deeper(depth[t])]
  /\ UNCHANGED <<state, payload, sent, reorgs, misled>>

Reorg ==
  /\ undone < MaxReorg /\ reorgs < MaxReorgs
  /\ undone' = undone + 1 /\ reorgs' = reorgs + 1
  /\ depth' = [t \in Tx |-> IF depth[t] <= undone' THEN 0 ELSE depth[t]]
  /\ UNCHANGED <<state, payload, sent, misled>>

-----------------------------------------------------------------------------
Init ==
  /\ state = [t \in Tx |-> "Wait"]
  /\ ins = [t \in Tx |-> {}] /\ change = [t \in Tx |-> 0]
  /\ depth = [t \in Tx |-> 0]
  /\ sent = {} /\ misled = {}
  /\ undone = 0 /\ reorgs = 0

Next ==
  \/ \E t \in Tx : \/ PreSign(t) \/ SignTx(t) \/ SyncTx(t)
                  \/ Broadcast(t) \/ BroadcastUnheard(t)
  \/ \E T \in SUBSET Tx : Block(T)
  \/ Reorg

Spec == Init /\ [][Next]_vars

Advance(t) ==
  PreSign(t) \/ SignTx(t) \/ SyncTx(t) \/ (t \notin sent /\ Broadcast(t))

(* The workers go on, the signer signs, and blocks are made that contain    *)
(* what fits.  A payment some node took need not be taken again.            *)
Fairness ==
  /\ \A t \in Tx : WF_vars(Advance(t))
                   /\ WF_vars(\E T \in SUBSET Tx : t \in T /\ Block(T))
  /\ WF_vars(\E T \in SUBSET Tx : Block(T))

FairSpec == Spec /\ Fairness

-----------------------------------------------------------------------------
(* Types; change is left to Balanced.                                       *)
TypeOK ==
  /\ state \in [Tx -> States] /\ ins \in [Tx -> SUBSET Output]
  /\ sent \subseteq Tx /\ depth \in [Tx -> 0 .. Deep]
  /\ undone \in 0 .. MaxReorg /\ reorgs \in 0 .. MaxReorgs

(* A payment in Done stays paid: it lies deeper than any block that may     *)
(* still be undone.                                                         *)
DoneIsFinal == \A t \in Tx : state[t] = "Done" => depth[t] > MaxReorg

(* A payload spends no change that a reorganisation could take away: the    *)
(* payment that gives it lies that deep as well.                            *)
InputsStay == \A t \in Tx : \A o \in ins[t] : Depth(o) > MaxReorg

(* The chain never spends an output twice, and what is in it lies below the *)
(* present tip and was signed and sent, whether or not the plugin knows.    *)
ChainIsSound ==
  /\ \A t \in sent : state[t] \in {"Broadcast", "Sync", "Done"}
  /\ \A t \in Tx : Mined(t) => depth[t] > undone /\ t \in sent
  /\ \A t, u \in Tx : Mined(t) /\ Mined(u) => ~Conflict(t, u)

(* A payment that is not prepared has no payload, and nothing depends on    *)
(* it.                                                                      *)
Unprepared == \A t \in Tx : state[t] \in {"Wait", "Fail"} => ins[t] = {}

(* What a prepared payment spends is what it pays, the gas and the change,  *)
(* which is never negative.                                                 *)
Balanced ==
  /\ change \in [Tx -> Nat]
  /\ \A t \in Tx :
       state[t] \notin {"Wait", "Fail"} => Sum(ins[t]) = Target(t) + change[t]

Inv ==
  /\ TypeOK /\ DoneIsFinal /\ InputsStay
  /\ ChainIsSound /\ Unprepared /\ Balanced

(* Whatever is mined and undone, the account has lost exactly the amounts   *)
(* and the gas of the payments in the chain: no change is lost or made up.  *)
Unspent ==
  {o \in Output : Depth(o) > 0 /\ \A t \in Tx : Mined(t) => o \notin ins[t]}
Paid == SumFunctionOnSet([t \in Tx |-> Target(t)], {t \in Tx : Mined(t)})
Conserved == Sum(Unspent) + Paid = Sum(Coins)

(* A payment fails for want of funds only if what no other payload spends   *)
(* was not enough, or a node still fetching blocks was asked: change that   *)
(* is not confirmed yet does not count, an output nobody claims does        *)
(* wherever the node is no further behind than MaxLag.                      *)
Unclaimed == Coins \ UNION {ins[t] : t \in Tx}
FailedForAReason ==
  \A t \in Tx : state[t] = "Fail" => t \in Malformed \cup misled \/ Sum(Unclaimed) <= Target(t)

(* A payment that shares no output with another ends, through every         *)
(* reorganisation, or was taken by a node that was not heard: then it may   *)
(* stay in Broadcast for ever, paid or not.                                 *)
Ended(t) == state[t] \in {"Done", "Fail"}
Contended(t) == \E u \in Tx : Conflict(t, u)
Unheard(t) == state[t] = "Broadcast" /\ t \in sent
Settles == <>[](\A t \in Tx : Ended(t) \/ Contended(t) \/ Unheard(t))

=============================================================================
