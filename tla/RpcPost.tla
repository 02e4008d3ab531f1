------------------------------ MODULE RpcPost ------------------------------
(***************************************************************************)
(* The copied rpcclient (pkg/coins/depinc/depc/rpcclient/infrastructure.go) *)
(* in HTTP POST mode, the one the program uses: callers put their requests  *)
(* into sendPostChan, a handler goroutine posts them one after the other    *)
(* and puts the answers into the callers' response channels, Shutdown       *)
(* closes a channel that both look at.                                      *)
(*                                                                          *)
(* The order of the queue is left out: every call is in it once, and which  *)
(* of them is taken first makes no difference to any property.              *)
(***************************************************************************)
EXTENDS Naturals, FiniteSets

CONSTANTS
  Calls,        \* requests; each is made once, by a goroutine of its own
  Handlers,     \* sendPostHandlers: one after New, two after NewBatch
  Cap           \* sendPostBufferSize

ASSUME ConstantsAssumption ==
  /\ IsFiniteSet(Calls)
  /\ Cap \in Nat \ {0}
  /\ "none" \notin Calls   \* None, below, is no call

VARIABLES
  pc,        \* callers: "idle", "checking", "sending", "waiting", "done"
  slot,      \* what is in a call's responseChan, whose capacity is 1
  given,     \* history: answers put into it
  queue,     \* sendPostChan
  at,        \* handlers: "select", "posting", "draining", "ended"
  held,      \* the call a handler has in hand, or None
  answer,    \* what it is about to put into the call's channel, or None
  shutdown,  \* the channel shutdown is closed
  refused,   \* history: calls that saw it closed
  sent       \* history: calls posted to the server

callerVars  == <<pc, refused>>
answerVars  == <<slot, given>>
handlerVars == <<at, held, answer>>
vars == <<callerVars, answerVars, queue, handlerVars, shutdown, sent>>

None == "none"
Response == {"result", "error", "ErrClientShutdown"}

-----------------------------------------------------------------------------
(* Callers.                                                                 *)

Move(c, from, to) == pc[c] = from /\ pc' = [pc EXCEPT ![c] = to]

(* A response is put into the channel of c; it blocks while one is in it.   *)
Respond(c, r) ==
  /\ slot[c] = None
  /\ slot' = [slot EXCEPT ![c] = r]
  /\ given' = [given EXCEPT ![c] = @ + 1]

SendCmd(c) ==
  /\ Move(c, "idle", "checking")
  /\ UNCHANGED <<refused, answerVars, queue, handlerVars, shutdown, sent>>

(* No HTTP request can be built, or no credentials are found.               *)
RequestFails(c) ==
  /\ Move(c, "checking", "waiting")
  /\ Respond(c, "error")
  /\ UNCHANGED <<refused, queue, handlerVars, shutdown, sent>>

(* sendPostRequest looks at shutdown.  If it is closed the caller is        *)
(* answered, and the request is queued all the same.                        *)
SeesOpen(c) ==
  /\ ~shutdown
  /\ Move(c, "checking", "sending")
  /\ UNCHANGED <<refused, answerVars, queue, handlerVars, shutdown, sent>>

SeesShutdown(c) ==
  /\ shutdown
  /\ Move(c, "checking", "sending")
  /\ Respond(c, "ErrClientShutdown")
  /\ refused' = refused \cup {c}
  /\ UNCHANGED <<queue, handlerVars, shutdown, sent>>

(* Blocks while the queue is full.                                          *)
Enqueue(c) ==
  /\ Cardinality(queue) < Cap
  /\ Move(c, "sending", "waiting")
  /\ queue' = queue \cup {c}
  /\ UNCHANGED <<refused, answerVars, handlerVars, shutdown, sent>>

(* receiveFuture.                                                           *)
Receive(c) ==
  /\ slot[c] # None
  /\ Move(c, "waiting", "done")
  /\ slot' = [slot EXCEPT ![c] = None]
  /\ UNCHANGED <<refused, given, queue, handlerVars, shutdown, sent>>

-----------------------------------------------------------------------------
(* The handlers.                                                            *)

Hold(h, place, c, r) ==
  /\ at' = [at EXCEPT ![h] = place]
  /\ held' = [held EXCEPT ![h] = c]
  /\ answer' = [answer EXCEPT ![h] = r]

(* Mistakes one could make (variants, used by no specification): a request  *)
(* is looked at and left in the queue; the queue is not drained at all; the *)
(* drain ends before the queue is empty; a failed post is not answered.     *)
TakeLeaves(h) ==
  /\ at[h] = "select"
  /\ \E c \in queue : Hold(h, "posting", c, None)
  /\ UNCHANGED <<callerVars, answerVars, queue, shutdown, sent>>
HandlerStopsAtOnce(h) ==
  /\ at[h] = "select" /\ shutdown
  /\ Hold(h, "ended", None, None)
  /\ UNCHANGED <<callerVars, answerVars, queue, shutdown, sent>>
HandlerEndsAfterOne(h) ==
  /\ at[h] = "draining" /\ held[h] = None /\ queue # {}
  /\ Hold(h, "ended", None, None)
  /\ UNCHANGED <<callerVars, answerVars, queue, shutdown, sent>>

PutAnswerUnlessError(h) ==
  /\ answer[h] # None
  /\ IF answer[h] = "error" THEN UNCHANGED answerVars ELSE Respond(held[h], answer[h])
  /\ Hold(h, IF at[h] = "posting" THEN "select" ELSE "draining", None, None)
  /\ UNCHANGED <<callerVars, queue, shutdown, sent>>

(* A select with both cases ready chooses either: a request may be taken    *)
(* after shutdown was closed.                                               *)
Take(h) ==
  /\ at[h] = "select"
  /\ \E c \in queue : Hold(h, "posting", c, None) /\ queue' = queue \ {c}
  /\ UNCHANGED <<callerVars, answerVars, shutdown, sent>>

(* handleSendPostMessage: the server's answer, or why there is none.        *)
Post(h) ==
  /\ at[h] = "posting" /\ answer[h] = None
  /\ sent' = sent \cup {held[h]}
  /\ \E r \in {"result", "error"} : Hold(h, "posting", held[h], r)
  /\ UNCHANGED <<callerVars, answerVars, queue, shutdown>>

(* The answer goes into the caller's channel.                               *)
PutAnswer(h) ==
  /\ answer[h] # None
  /\ Respond(held[h], answer[h])
  /\ Hold(h, IF at[h] = "posting" THEN "select" ELSE "draining", None, None)
  /\ UNCHANGED <<callerVars, queue, shutdown, sent>>

HandlerStops(h) ==
  /\ at[h] = "select" /\ shutdown
  /\ Hold(h, "draining", None, None)
  /\ UNCHANGED <<callerVars, answerVars, queue, shutdown, sent>>

(* cleanup: what is still queued is answered, until nothing is found.       *)
Drain(h) ==
  /\ at[h] = "draining" /\ held[h] = None
  /\ \E c \in queue :
       Hold(h, "draining", c, "ErrClientShutdown") /\ queue' = queue \ {c}
  /\ UNCHANGED <<callerVars, answerVars, shutdown, sent>>

HandlerEnds(h) ==
  /\ at[h] = "draining" /\ held[h] = None /\ queue = {}
  /\ Hold(h, "ended", None, None)
  /\ UNCHANGED <<callerVars, answerVars, queue, shutdown, sent>>

(* Shutdown.  requestList is empty in this mode, so nobody is answered here. *)
Shutdown ==
  /\ ~shutdown
  /\ shutdown' = TRUE
  /\ UNCHANGED <<callerVars, answerVars, queue, handlerVars, sent>>

-----------------------------------------------------------------------------
Init ==
  /\ pc = [c \in Calls |-> "idle"]
  /\ slot = [c \in Calls |-> None]
  /\ given = [c \in Calls |-> 0]
  /\ queue = {} /\ refused = {} /\ sent = {}
  /\ at = [h \in Handlers |-> "select"]
  /\ held = [h \in Handlers |-> None]
  /\ answer = [h \in Handlers |-> None]
  /\ shutdown = FALSE

(* What a call does once it is made. *)
CallStep(c) ==
  RequestFails(c) \/ SeesOpen(c) \/ SeesShutdown(c) \/ Enqueue(c) \/ Receive(c)

HandlerStep(h) ==
  \/ Take(h) \/ Post(h) \/ PutAnswer(h)
  \/ HandlerStops(h) \/ Drain(h) \/ HandlerEnds(h)

Next ==
  \/ \E c \in Calls : SendCmd(c) \/ CallStep(c)
  \/ \E h \in Handlers : HandlerStep(h)
  \/ Shutdown

Spec == Init /\ [][Next]_vars

(***************************************************************************)
(* Goroutines go on.  Post returns: that is an assumption about the node,   *)
(* for the HTTP client has no timeout.  Nobody has to call or to shut down. *)
(***************************************************************************)
FairSpec ==
  /\ Spec
  /\ \A c \in Calls : WF_vars(CallStep(c))
  /\ \A h \in Handlers : WF_vars(HandlerStep(h))

-----------------------------------------------------------------------------
(* Properties.                                                              *)

(* Every variable holds values of its type. *)
TypeOK ==
  /\ pc \in [Calls -> {"idle", "checking", "sending", "waiting", "done"}]
  /\ slot \in [Calls -> Response \cup {None}]
  /\ given \in [Calls -> Nat]
  /\ queue \subseteq Calls /\ refused \subseteq Calls /\ sent \subseteq Calls
  /\ at \in [Handlers -> {"select", "posting", "draining", "ended"}]
  /\ held \in [Handlers -> Calls \cup {None}]
  /\ answer \in [Handlers -> Response \cup {None}]
  /\ shutdown \in BOOLEAN

(* Answers a call got before it was queued. *)
Early(c) == IF c \in refused THEN 1 ELSE 0

InHand(c) == \E h \in Handlers : held[h] = c

(* A request is in one place, the queue or the hand of one handler, and     *)
(* only an answered one is in neither.                                      *)
OnePlace ==
  /\ \A c \in queue : ~InHand(c)
  /\ \A h, k \in Handlers : held[h] = held[k] /\ held[h] # None => h = k

(* No request is lost: who waits without an answer is in the queue or in a  *)
(* handler's hand (sendPostHandler answers whatever it takes).              *)
NothingLost ==
  \A c \in Calls : pc[c] = "waiting" /\ given[c] = 0 => c \in queue \/ InHand(c)

(* A call is answered once; one that saw the shutdown may be answered again *)
(* by the drain, since it was queued all the same.                          *)
AnsweredOnce == \A c \in Calls : given[c] <= Early(c) + 1

(* What a call's place says of its answers. *)
AnswersFit ==
  \A c \in Calls :
    /\ pc[c] \in {"idle", "checking", "sending"} =>
         given[c] = Early(c) /\ c \notin queue /\ ~InHand(c)
    /\ pc[c] \in {"idle", "checking"} => c \notin refused
    /\ c \in queue \/ InHand(c) => given[c] = Early(c)
    /\ slot[c] # None => given[c] > 0
    /\ pc[c] = "done" => given[c] > 0

HandlersFit ==
  \A h \in Handlers :
    /\ held[h] # None => at[h] = "posting" \/ (at[h] = "draining" /\ answer[h] # None)
    /\ at[h] = "posting" => held[h] # None
    /\ answer[h] # None => held[h] # None
    /\ at[h] \in {"draining", "ended"} => shutdown

(* The invariant that is inductive. *)
Inv ==
  /\ TypeOK
  /\ OnePlace
  /\ NothingLost
  /\ AnsweredOnce
  /\ AnswersFit
  /\ HandlersFit

(* Whenever Shutdown comes, the client keeps the promise of RpcFuture.      *)
future ==
  [c \in Calls |-> IF pc[c] = "idle" THEN "none"
                   ELSE IF given[c] = 0 THEN "pending" ELSE "answered"]
Promise == INSTANCE RpcFuture

(* The answers as well: no future is given a second one, but for a call     *)
(* that was refused and queued all the same.                                *)
KeepsPromise ==
  /\ Promise!Spec
  /\ [][\A c \in Calls :
         given'[c] # given[c] => future[c] # "answered" \/ c \in refused]_vars

(* Shutdown comes when every call has returned, and no call after it: that  *)
(* is how WithClient of pkg/coins/depinc uses the client.                   *)
Orderly == shutdown => \A c \in Calls : pc[c] \in {"idle", "done"}

(* Used as the program uses it, every call returns. *)
Answered == []Orderly => \A c \in Calls : pc[c] = "checking" ~> pc[c] = "done"

(* Used freely, at least a request that is queued while some handler has    *)
(* not ended is answered.  (What is queued after the drain is not.)         *)
QueuedIsAnswered ==
  \A c \in Calls :
    (c \in queue /\ \E h \in Handlers : at[h] # "ended") ~> given[c] > 0 /\ pc[c] = "done"

(* After Shutdown every handler ends, so that WaitForShutdown returns.      *)
HandlersEnd == shutdown ~> \A h \in Handlers : at[h] = "ended"

=============================================================================
