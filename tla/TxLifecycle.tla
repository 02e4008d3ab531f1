---------------------------- MODULE TxLifecycle -----------------------------
(***************************************************************************)
(* What the plugin promises of each of the proxy's transactions, without a  *)
(* word on polling, messages, nodes or retries: the states it may go        *)
(* through, and what must have happened on the chain before it does.        *)
(***************************************************************************)
CONSTANT Tx

VARIABLES
  state,    \* the state of each transaction at the proxy
  onchain   \* what became of each transaction on the chain

vars == <<state, onchain>>

State   == {"Wait", "Sign", "Broadcast", "Sync", "Done", "Fail"}
OnChain == {"none", "sent", "paid", "reverted"}

TypeOK ==
  /\ state \in [Tx -> State]
  /\ onchain \in [Tx -> OnChain]

Init ==
  /\ state = [t \in Tx |-> "Wait"]
  /\ onchain = [t \in Tx |-> "none"]

Move(t, from, to) ==
  /\ state[t] = from
  /\ state' = [state EXCEPT ![t] = to]
  /\ UNCHANGED onchain

Happens(t, from, to) ==
  /\ onchain[t] = from
  /\ onchain' = [onchain EXCEPT ![t] = to]
  /\ UNCHANGED state

PreSigned(t) == Move(t, "Wait", "Sign")

Signed(t) == Move(t, "Sign", "Broadcast")

(* Only what was signed is sent for the first time, though perhaps after a  *)
(* late answer has failed it.                                               *)
Sent(t) ==
  /\ state[t] \in {"Broadcast", "Fail"}
  /\ Happens(t, "none", "sent")

(* A transaction is executed, or reverted, once. *)
Executed(t) == Happens(t, "sent", "paid") \/ Happens(t, "sent", "reverted")

(* The proxy is told to wait for a TxID only when a node has the            *)
(* transaction.                                                             *)
ToSync(t) == onchain[t] # "none" /\ Move(t, "Broadcast", "Sync")

ToDone(t) == onchain[t] = "paid" /\ Move(t, "Sync", "Done")

(* A transaction the proxy knows the TxID of fails only when it reverted.   *)
ToFail(t) ==
  \/ Move(t, "Wait", "Fail")
  \/ Move(t, "Broadcast", "Fail")
  \/ onchain[t] = "reverted" /\ Move(t, "Sync", "Fail")

Next ==
  \E t \in Tx : \/ PreSigned(t) \/ Signed(t)
                \/ Sent(t) \/ Executed(t)
                \/ ToSync(t) \/ ToDone(t) \/ ToFail(t)

Spec == Init /\ [][Next]_vars

=============================================================================
