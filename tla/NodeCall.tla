------------------------------ MODULE NodeCall ------------------------------
(***************************************************************************)
(* What a coin's handlers count on when they call WithClient: up to         *)
(* MaxNodes nodes are asked, one after the other; the first answer the      *)
(* handler is content with, or calls final, is the result; without one the  *)
(* result is the last answer a node gave, and only when no node gave one    *)
(* the reason why the last could not be asked.                              *)
(***************************************************************************)
EXTENDS Naturals

CONSTANTS
  MaxNodes,     \* nodes one call may ask
  AnswerError,  \* errors nodes answer with
  NodeError     \* reasons why a node cannot be asked

VARIABLES
  left,    \* how many nodes may still be asked
  best,    \* what will be returned if no node is left
  result   \* what was returned

vars == <<left, best, result>>

Answer == AnswerError \cup {"nil"}

Init ==
  /\ left \in 0 .. MaxNodes
  /\ best = "nil"
  /\ result = "none"

(* There is no node to ask at all. *)
NoEndpoints ==
  /\ result = "none" /\ left = 0 /\ best = "nil"
  /\ result' = "no_endpoints"
  /\ UNCHANGED <<left, best>>

(* The next node cannot be asked: an answer, if there is one, is kept. *)
NotAsked ==
  /\ result = "none" /\ left > 0
  /\ left' = left - 1
  /\ \E e \in NodeError : best' = IF best \in AnswerError THEN best ELSE e
  /\ UNCHANGED result

(* It answers, and the handler wants to ask another one. *)
Asked ==
  /\ result = "none" /\ left > 0
  /\ left' = left - 1
  /\ best' \in Answer
  /\ UNCHANGED result

(* It answers, and the handler stops. *)
Satisfied ==
  /\ result = "none" /\ left > 0
  /\ left' = 0
  /\ \E e \in Answer : best' = e /\ result' = e

(* All were tried. *)
GiveUp ==
  /\ result = "none" /\ left = 0
  /\ result' = best
  /\ UNCHANGED <<left, best>>

Next == NoEndpoints \/ NotAsked \/ Asked \/ Satisfied \/ GiveUp

Spec == Init /\ [][Next]_vars

=============================================================================
