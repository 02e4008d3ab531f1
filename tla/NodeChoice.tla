----------------------------- MODULE NodeChoice -----------------------------
(***************************************************************************)
(* One call of WithClient (pkg/coins/*/client.go) with the list of nodes it *)
(* draws from (pkg/endpoints) and the checks of GetNode: every handler of   *)
(* every coin reaches its chain through it.  The seven copies differ in the *)
(* number of nodes they try, in how they look at a node before using it,    *)
(* in whether they hold a connection, and in what their handlers answer.    *)
(***************************************************************************)
EXTENDS Naturals, Sequences, FiniteSets, SequencesExt

CONSTANTS
  Chains,       \* the chains considered, a subset of Chain
  Local,        \* addresses that may be configured in ENV_COIN_LOCAL_API
  Public,       \* addresses that may be configured in ENV_COIN_PUBLIC_API
  AnswerError,  \* errors a node may answer a handler with
  MaxHeight     \* bound on the block heights nodes report

Chain == {"eth", "bsc", "btc", "depinc", "fil", "sol", "tron"}
GetNodeError == {"malformed", "dial", "check", "unsynced"}
Outcome == AnswerError \cup GetNodeError \cup {"nil"}

ASSUME ConstantsAssumption ==
  /\ Chains \subseteq Chain
  /\ IsFiniteSet(Local) /\ IsFiniteSet(Public)
  /\ Local \cap Public = {}
  /\ MaxHeight \in Nat

ASSUME ErrorsDiffer ==
  AnswerError \cap (GetNodeError \cup {"nil", "none", "no_endpoints"}) = {}

VARIABLES
  chain,                \* whose WithClient this is
  localSet, publicSet,  \* the configured addresses
  localAddrs, publicAddrs, len,  \* the Manager
  pc, i,                \* WithClient: place and loop variable
  client,               \* the node in use and what it said of itself, or NoClient
  open,                 \* nodes with an open connection
  err, apiErr,          \* WithClient's two error variables
  result,               \* what it returned
  tried                 \* history: the nodes peeked, and what came of each

config  == <<chain, localSet, publicSet>>
manager == <<localAddrs, publicAddrs, len>>
vars == <<config, manager, pc, i, client, open, err, apiErr, result, tried>>

MinOf(a, b) == IF a <= b THEN a ELSE b

-----------------------------------------------------------------------------
(* How the chains differ.                                                   *)

MaxRetries(c) == IF c = "tron" THEN 20 ELSE 3

(* What may keep GetNode from opening a client: an address that does not    *)
(* split into its parts (for btc and depinc also an unknown network), or    *)
(* a failed dial.  The clients of btc, depinc and sol only dial later.      *)
OpenErrors(c) ==
  {e \in {"malformed", "dial"} :
     /\ e = "malformed" => c \in {"btc", "depinc", "fil"}
     /\ e = "dial" => c \in {"eth", "bsc", "fil", "tron"}}

(* The client is a connection that has to be closed (sol's is not). *)
Holds(c) == c # "sol"

(* A node is looked at before it is used; tron's is not. *)
Checks(c) == c # "tron"

(* What a node says of itself: the blocks it has, those it knows of, and    *)
(* whether it is at work on getting them (fil's sync stages).               *)
View == {v \in [blocks : 0 .. MaxHeight, headers : 0 .. MaxHeight, working : BOOLEAN] :
           v.blocks <= v.headers}

ToleranceNum == 2

(* SyncProgress, WalletIsSync, synchronized, GetHealth. *)
Synced(c, v) ==
  /\ c \in {"eth", "bsc", "sol"} => v.blocks = v.headers
  /\ c \in {"btc", "depinc"} => ~(v.headers < v.blocks)
  /\ c = "fil" => v.headers - v.blocks < ToleranceNum /\ ~v.working

(* What handlers return to WithClient: (retry, error).  Content with an     *)
(* answer; unhappy, let another node answer; some call errors final; some   *)
(* want another node when a node answers with nothing at all.               *)
HandlerReturns(c) ==
  {r \in [retry : BOOLEAN, err : AnswerError \cup {"nil"}] :
     /\ ~r.retry /\ r.err # "nil" => c \in {"eth", "bsc", "sol", "tron"}
     /\ r.retry /\ r.err = "nil" => c # "fil"}

NoClient == [node |-> "none"]

-----------------------------------------------------------------------------
(* The lists are shuffled: any order. *)
NewManager ==
  /\ pc = "start"
  /\ IF localSet = {} /\ publicSet = {}
       THEN /\ result' = "no_endpoints"
            /\ pc' = "done"
            /\ UNCHANGED manager
       ELSE /\ localAddrs' \in SetToSeqs(localSet)
            /\ publicAddrs' \in SetToSeqs(publicSet)
            /\ len' = Cardinality(localSet) + Cardinality(publicSet)
            /\ pc' = "loop"
            /\ UNCHANGED result
  /\ UNCHANGED <<config, i, client, open, err, apiErr, tried>>

(* A mistake one could make in Peek (variant, used by no specification):    *)
(* public nodes first.                                                      *)
PeekPublicFirst(a) ==
  \/ /\ publicAddrs # <<>>
     /\ a = Last(publicAddrs) /\ publicAddrs' = Front(publicAddrs)
     /\ UNCHANGED <<localAddrs, len>>
  \/ /\ publicAddrs = <<>> /\ localAddrs # <<>>
     /\ a = Last(localAddrs) /\ localAddrs' = Front(localAddrs)
     /\ UNCHANGED <<publicAddrs, len>>

(* Peek hands out a local address as long as there is one.  It is never     *)
(* called with both lists empty: NeverExhausted.                            *)
Peek(a) ==
  \/ /\ localAddrs # <<>>
     /\ a = Last(localAddrs) /\ localAddrs' = Front(localAddrs)
     /\ UNCHANGED <<publicAddrs, len>>
  \/ /\ localAddrs = <<>> /\ publicAddrs # <<>>
     /\ a = Last(publicAddrs) /\ publicAddrs' = Front(publicAddrs)
     /\ UNCHANGED <<localAddrs, len>>

Exhausted == localAddrs = <<>> /\ publicAddrs = <<>>

(* Variant of the loop's condition: whatever the number of nodes. *)
LoopingThrice == pc = "loop" /\ i < MaxRetries(chain)

Looping == pc = "loop" /\ i < MinOf(MaxRetries(chain), len)

(* GetNode fails with e: WithClient goes on to the next node. *)
Skip(e) ==
  /\ err' = e
  /\ i' = i + 1
  /\ UNCHANGED <<config, pc, client, apiErr, result>>

Tried(a, e) == tried' = Append(tried, [node |-> a, got |-> e])

OpenFails(a) ==
  /\ Looping
  /\ Peek(a)
  /\ \E e \in OpenErrors(chain) : Skip(e) /\ Tried(a, e)
  /\ UNCHANGED open

(* Why an opened node does not pass. *)
CheckErrors(c) ==
  {e \in {"check", "unsynced"} : e = "unsynced" => \E v \in View : ~Synced(c, v)}

(* Variant: the client of a node that does not pass is not closed. *)
CheckFailsLeaks(a) ==
  /\ Looping
  /\ Checks(chain)
  /\ Peek(a)
  /\ \E e \in CheckErrors(chain) : Skip(e) /\ Tried(a, e)
  /\ open' = open \cup {n \in {a} : Holds(chain)}

(* The client was opened and the node does not pass: the client is closed. *)
CheckFails(a) ==
  /\ Looping
  /\ Checks(chain)
  /\ Peek(a)
  /\ \E e \in CheckErrors(chain) : Skip(e) /\ Tried(a, e)
  /\ UNCHANGED open

GetNode(a) ==
  /\ Looping
  /\ Peek(a)
  /\ \E v \in View : /\ Checks(chain) => Synced(chain, v)
                     /\ client' = [node |-> a, view |-> v]
  /\ open' = open \cup {n \in {a} : Holds(chain)}
  /\ err' = "nil"
  /\ pc' = "call"
  /\ UNCHANGED <<config, i, apiErr, result, tried>>

(* Variant: every chain as fil. *)
FinalErrorIsErr(c, e) == err

(* fil returns the error of GetNode, which is nil here, where the others    *)
(* return the handler's.                                                    *)
FinalError(c, e) == IF c = "fil" THEN err ELSE e

(* The handler's function runs, and the client is closed. *)
Call ==
  /\ pc = "call"
  /\ \E r \in HandlerReturns(chain) :
       /\ apiErr' = r.err
       /\ Tried(client.node, r.err)
       /\ IF r.retry
            THEN pc' = "loop" /\ i' = i + 1 /\ UNCHANGED result
            ELSE pc' = "done" /\ result' = FinalError(chain, r.err) /\ UNCHANGED i
  /\ open' = open \ {client.node}
  /\ client' = NoClient
  /\ UNCHANGED <<config, manager, err>>

(* Variant: the error of the last attempt, whatever it was. *)
LoopEndsWithErr ==
  /\ pc = "loop" /\ ~Looping
  /\ result' = err
  /\ pc' = "done"
  /\ UNCHANGED <<config, manager, i, client, open, err, apiErr, tried>>

LoopEnds ==
  /\ pc = "loop" /\ ~Looping
  /\ result' = IF apiErr # "nil" THEN apiErr ELSE err
  /\ pc' = "done"
  /\ UNCHANGED <<config, manager, i, client, open, err, apiErr, tried>>

Init ==
  /\ chain \in Chains
  /\ localSet \in SUBSET Local
  /\ publicSet \in SUBSET Public
  /\ localAddrs = <<>> /\ publicAddrs = <<>> /\ len = 0
  /\ pc = "start" /\ i = 0
  /\ client = NoClient /\ open = {}
  /\ err = "nil" /\ apiErr = "nil"
  /\ result = "none"
  /\ tried = <<>>

Next ==
  \/ NewManager
  \/ \E a \in localSet \cup publicSet : OpenFails(a) \/ CheckFails(a) \/ GetNode(a)
  \/ Call
  \/ LoopEnds

Spec == Init /\ [][Next]_vars

-----------------------------------------------------------------------------
(* Properties.                                                              *)

Address == localSet \cup publicSet
TriedNodes == {tried[k].node : k \in DOMAIN tried}

(* Every variable holds values of its type. *)
TypeOK ==
  /\ chain \in Chains
  /\ localSet \subseteq Local /\ publicSet \subseteq Public
  /\ localAddrs \in Seq(localSet) /\ publicAddrs \in Seq(publicSet)
  /\ len \in Nat
  /\ i \in 0 .. MinOf(MaxRetries(chain), len)
  /\ pc \in {"start", "loop", "call", "done"}
  /\ client \in [node : Address, view : View] \cup {NoClient}
  /\ open \subseteq Address
  /\ err \in GetNodeError \cup {"nil"}
  /\ apiErr \in AnswerError \cup {"nil"}
  /\ result \in Outcome \cup {"none", "no_endpoints"}
  /\ tried \in Seq([node : Address, got : Outcome])

(* A public node is asked only when every local one was tried, in whatever  *)
(* order the lists were shuffled and however the local ones failed.         *)
LocalFirst ==
  /\ \A k \in DOMAIN tried : tried[k].node \in publicSet =>
       localSet \subseteq {tried[j].node : j \in 1 .. k - 1}
  /\ client # NoClient /\ client.node \in publicSet => localSet \subseteq TriedNodes

(* No node is tried twice in a call, and a call gives up only after all     *)
(* configured nodes, or the MaxRetries it is allowed.                       *)
NoneTwice ==
  /\ \A j, k \in DOMAIN tried : tried[j].node = tried[k].node => j = k
  /\ pc = "loop" /\ ~Looping =>
       Len(tried) = MinOf(MaxRetries(chain), Cardinality(Address))

(* The loop never runs out of addresses: the length the Manager was made    *)
(* with and its two lists agree for as long as WithClient goes on.          *)
NeverExhausted == Looping => ~Exhausted

(* Whichever way a node turns out unusable, and whatever the handler does,  *)
(* connections are closed: at most the one in use is open, and none at the  *)
(* end.                                                                     *)
ClientsClosed == open \subseteq {client.node} /\ (pc # "call" => open = {})

Answers == {k \in DOMAIN tried : tried[k].got \notin GetNodeError}

(* The result is the last answer a node gave to the handler, if that was an *)
(* error, even when the nodes tried after it could not be asked; no error   *)
(* is returned only after a node answered without one.                      *)
AnswerWins ==
  pc = "done" =>
    /\ \A k \in Answers : (\A j \in Answers : j <= k) /\ tried[k].got # "nil" =>
                            result = tried[k].got
    /\ result = "nil" => \E k \in Answers : tried[k].got = "nil"

(***************************************************************************)
(* Why these hold.                                                          *)
(***************************************************************************)
Running == pc \in {"loop", "call"}
InUse == IF pc = "call" THEN {client.node} ELSE {}
Seen == TriedNodes \cup InUse

(* The client in use is the one that is open. *)
OneInUse ==
  /\ pc = "call" <=> client # NoClient
  /\ pc = "call" => i < MinOf(MaxRetries(chain), len) /\ err = "nil"
  /\ ClientsClosed

(* The Manager's lists hold what has not been seen, each address once. *)
ListsAreTheRest ==
  /\ pc = "start" => i = 0 /\ tried = <<>>
  /\ Running =>
       /\ len = Cardinality(Address) /\ len > 0
       /\ Len(tried) = i
       /\ Len(localAddrs) + Len(publicAddrs) + (IF pc = "call" THEN 1 ELSE 0) + i = len
       /\ IsInjective(localAddrs) /\ IsInjective(publicAddrs)
       /\ Range(localAddrs) = localSet \ Seen
       /\ Range(publicAddrs) = publicSet \ Seen
       /\ InUse \cap TriedNodes = {}

(* apiErr is the last answer, err why the last node was not asked, and      *)
(* nothing is returned before the end.                                      *)
ErrorsAreRemembered ==
  /\ pc # "done" => result = "none"
  /\ \A k \in Answers : (\A j \in Answers : j <= k) => tried[k].got = apiErr
  /\ apiErr # "nil" => Answers # {}
  /\ pc = "loop" /\ tried # <<>> =>
       Last(tried).got = IF err # "nil" THEN err ELSE apiErr

Inv ==
  /\ TypeOK
  /\ OneInUse
  /\ ListsAreTheRest
  /\ ErrorsAreRemembered
  /\ LocalFirst
  /\ NoneTwice
  /\ AnswerWins

(* A node is used only if the blocks it has are those it knows of (but for  *)
(* the tolerance of fil): README.md:40, checking the sync state when        *)
(* connecting to a wallet node.  tron has no check.                         *)
UsesSyncedNode ==
  client # NoClient /\ Checks(chain) =>
    client.view.headers - client.view.blocks < ToleranceNum

(* WithClient is a NodeCall: what the handlers rely on. *)
left ==
  IF pc = "start" THEN MinOf(MaxRetries(chain), Cardinality(localSet) + Cardinality(publicSet))
  ELSE IF pc = "done" THEN 0
  ELSE MinOf(MaxRetries(chain), len) - i
best ==
  IF apiErr # "nil" THEN apiErr
  ELSE IF tried = <<>> THEN "nil" ELSE Last(tried).got

AbstractCall == INSTANCE NodeCall
  WITH MaxNodes <- 20, NodeError <- GetNodeError, left <- left, best <- best

NodeCallSpec == AbstractCall!Spec

=============================================================================
