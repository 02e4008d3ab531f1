----------------------------- MODULE RpcFuture -----------------------------
(***************************************************************************)
(* What a caller of the rpcclient copy is promised: a call gives a future,  *)
(* which is answered once.                                                  *)
(***************************************************************************)
CONSTANT Calls

VARIABLE future  \* future[c]: "none", "pending", "answered"

Init == future = [c \in Calls |-> "none"]

Ask(c) ==
  /\ future[c] = "none"
  /\ future' = [future EXCEPT ![c] = "pending"]

Answer(c) ==
  /\ future[c] = "pending"
  /\ future' = [future EXCEPT ![c] = "answered"]

Next == \E c \in Calls : Ask(c) \/ Answer(c)

Spec == Init /\ [][Next]_future

=============================================================================
