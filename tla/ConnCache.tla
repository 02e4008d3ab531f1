----------------------------- MODULE ConnCache -----------------------------
(***************************************************************************)
(* The cache of gRPC connections (pkg/client/client.go), for the one target *)
(* the program uses, the proxy.  The three task workers and the stream      *)
(* clients are its callers.  GetGRPCConn has two critical sections under    *)
(* one lock, checkRemove and getConn: each is one step here, and other      *)
(* callers come in between.  A stream client closes the connection it was   *)
(* given (closeProxyClient, pkg/task/task.go), without the lock and without *)
(* taking it out of the map, whoever else works with it.                    *)
(***************************************************************************)
EXTENDS Naturals, FiniteSets

CONSTANTS
  Callers,      \* goroutines that call GetGRPCConn
  Streams,      \* those of them that are stream clients, the others are workers
  MaxFaults,    \* bound on failed checks of an open connection, and on dials
                \* that end not ready
  MaxCloses,    \* bound on open connections their stream client closes
  MaxBreaks     \* bound on how often the proxy stops serving

ASSUME ConstantsAssumption ==
  /\ IsFiniteSet(Callers) /\ Callers # {}
  /\ Streams \subseteq Callers
  /\ MaxFaults \in Nat /\ MaxCloses \in Nat /\ MaxBreaks \in Nat

VARIABLES
  cached,   \* conns: the connection stored for the target, or None
  made,     \* connections dialled so far: they are numbered
  open,     \* connections that were not closed
  pc,       \* where each caller is
  holds,    \* the connection each caller works with, or None
  proxy,    \* "serving", "not_serving" (up, but its health says no) or "down"
  breaks,   \* how often the proxy stopped serving
  removals, \* history: failed health checks, each of which removed a connection
  ended,    \* history: connections their stream client closed
  unready   \* history: dials whose connection was no longer ready

vars == <<cached, made, open, pc, holds, proxy, breaks, removals, ended, unready>>

None == 0
Conn == Nat \ {0}

-----------------------------------------------------------------------------
(* checkRemove, first critical section.                                     *)

(* The health check goes through the cached connection.  A stream client    *)
(* that closes it before the caller uses it comes after this step.          *)
Hit(c) ==
  /\ pc[c] = "idle" /\ cached # None /\ cached \in open /\ proxy = "serving"
  /\ holds' = [holds EXCEPT ![c] = cached]
  /\ pc' = [pc EXCEPT ![c] = "using"]
  /\ UNCHANGED <<cached, made, open, proxy, breaks, removals, ended, unready>>

Miss(c) ==
  /\ pc[c] = "idle" /\ cached = None
  /\ pc' = [pc EXCEPT ![c] = "missed"]
  /\ UNCHANGED <<cached, made, open, holds, proxy, breaks, removals, ended, unready>>

(* Mistakes one could make (variants, used by no specification): the        *)
(* connection is closed, stays in the map, and the caller gets an error;    *)
(* the connection is dropped and not closed.                                *)
RemoveGivesUp(c) ==
  /\ pc[c] = "idle" /\ cached # None
  /\ cached \in open => removals < MaxFaults
  /\ open' = open \ {cached}
  /\ removals' = removals + Cardinality({cached} \cap open)
  /\ UNCHANGED <<cached, made, pc, holds, proxy, breaks, ended, unready>>
RemoveLeaks(c) ==
  /\ pc[c] = "idle" /\ cached # None
  /\ cached \in open => removals < MaxFaults
  /\ cached' = None
  /\ removals' = removals + 1
  /\ pc' = [pc EXCEPT ![c] = "missed"]
  /\ UNCHANGED <<made, open, holds, proxy, breaks, ended, unready>>

(* The health check fails: the proxy is gone or does not serve, or it did   *)
(* not answer within a second; through a connection its stream client has   *)
(* closed it always fails.  Whoever else uses the connection loses it.      *)
Remove(c) ==
  /\ pc[c] = "idle" /\ cached # None
  /\ cached \in open => removals < MaxFaults
  /\ open' = open \ {cached}
  /\ cached' = None
  /\ removals' = removals + 1
  /\ pc' = [pc EXCEPT ![c] = "missed"]
  /\ UNCHANGED <<made, holds, proxy, breaks, ended, unready>>

-----------------------------------------------------------------------------
(* getConn, second critical section.                                        *)

(* The new connection replaces whatever another caller stored meanwhile.    *)
DialStores(c) ==
  /\ pc[c] = "missed" /\ proxy # "down"
  /\ made' = made + 1
  /\ open' = open \cup {made'}
  /\ cached' = made'
  /\ holds' = [holds EXCEPT ![c] = made']
  /\ pc' = [pc EXCEPT ![c] = "using"]
  /\ UNCHANGED <<proxy, breaks, removals, ended, unready>>

(* No connection within two seconds. *)
DialFails(c) ==
  /\ pc[c] = "missed"
  /\ pc' = [pc EXCEPT ![c] = "idle"]
  /\ UNCHANGED <<cached, made, open, holds, proxy, breaks, removals, ended, unready>>

(* It was made, and was lost again before its state was read: it is neither *)
(* stored nor closed.                                                       *)
DialUnready(c) ==
  /\ pc[c] = "missed" /\ unready < MaxFaults
  /\ made' = made + 1
  /\ open' = open \cup {made'}
  /\ unready' = unready + 1
  /\ pc' = [pc EXCEPT ![c] = "idle"]
  /\ UNCHANGED <<cached, holds, proxy, breaks, removals, ended>>

-----------------------------------------------------------------------------
(* Variant: workers too close what they were given, as they do with the     *)
(* clients of their chain.                                                  *)
FinishCloses(c) ==
  /\ pc[c] = "using"
  /\ open' = open \ {holds[c]}
  /\ holds' = [holds EXCEPT ![c] = None]
  /\ pc' = [pc EXCEPT ![c] = "idle"]
  /\ UNCHANGED <<cached, made, proxy, breaks, removals, ended, unready>>

(* A caller is done with its connection, one way or the other, and does not *)
(* close it: a worker after its call, a stream client that got no stream.   *)
Finish(c) ==
  /\ pc[c] = "using"
  /\ holds' = [holds EXCEPT ![c] = None]
  /\ pc' = [pc EXCEPT ![c] = "idle"]
  /\ UNCHANGED <<cached, made, open, proxy, breaks, removals, ended, unready>>

(* A stream client whose stream broke closes the connection under everybody *)
(* who was given the same one.  It stays in the map until it is checked.    *)
closeProxyClient(c) ==
  /\ c \in Streams /\ pc[c] = "using"
  /\ holds[c] \in open => Cardinality(ended) < MaxCloses
  /\ open' = open \ {holds[c]}
  /\ ended' = ended \cup ({holds[c]} \cap open)
  /\ holds' = [holds EXCEPT ![c] = None]
  /\ pc' = [pc EXCEPT ![c] = "idle"]
  /\ UNCHANGED <<cached, made, proxy, breaks, removals, unready>>

ProxyStops ==
  /\ breaks < MaxBreaks
  /\ proxy' \in {"not_serving", "down"} \ {proxy}
  /\ breaks' = breaks + 1
  /\ UNCHANGED <<cached, made, open, pc, holds, removals, ended, unready>>

ProxyServes ==
  /\ proxy # "serving"
  /\ proxy' = "serving"
  /\ UNCHANGED <<cached, made, open, pc, holds, breaks, removals, ended, unready>>

Init ==
  /\ cached = None /\ made = 0 /\ open = {}
  /\ pc = [c \in Callers |-> "idle"]
  /\ holds = [c \in Callers |-> None]
  /\ proxy \in {"serving", "not_serving", "down"}
  /\ breaks = 0 /\ removals = 0 /\ ended = {} /\ unready = 0

checkRemove(c) == Hit(c) \/ Miss(c) \/ Remove(c)
getConn(c) == DialStores(c) \/ DialFails(c) \/ DialUnready(c)

Next ==
  \/ \E c \in Callers : checkRemove(c) \/ getConn(c) \/ Finish(c) \/ closeProxyClient(c)
  \/ ProxyStops \/ ProxyServes

Spec == Init /\ [][Next]_vars

(* Every worker goes on: the lock serves those who wait, a worker returns   *)
(* to its tick.  The proxy comes back, and a dial of a proxy that serves    *)
(* cannot fail for ever.  Nothing is asked of the stream clients.           *)
FairSpec ==
  /\ Spec
  /\ \A c \in Callers \ Streams :
       /\ WF_vars(checkRemove(c))
       /\ WF_vars(getConn(c))
       /\ SF_vars(DialStores(c))
       /\ WF_vars(Finish(c))
  /\ WF_vars(ProxyServes)

-----------------------------------------------------------------------------
(* Properties.                                                              *)

(* Every variable holds values of its type. *)
TypeOK ==
  /\ cached \in Nat /\ made \in Nat
  /\ open \subseteq Conn /\ IsFiniteSet(open)
  /\ pc \in [Callers -> {"idle", "missed", "using"}]
  /\ holds \in [Callers -> Nat]
  /\ proxy \in {"serving", "not_serving", "down"}
  /\ breaks \in 0 .. MaxBreaks
  /\ removals \in Nat /\ unready \in 0 .. MaxFaults
  /\ ended \subseteq Conn

(* A connection that is open and that no later caller will be given. *)
Abandoned == open \ {cached}
Missed == {c \in Callers : pc[c] = "missed"}
others == Cardinality(Callers) - 1

(* A closed connection in the map was closed by the stream client it was    *)
(* given to: a failed health check leaves none behind.                      *)
ClosedByItsUser == cached # None => cached \in open \/ cached \in ended

(* How many connections are lost for good, though callers overwrite each    *)
(* other's: at most one for every caller but one each time the cache was    *)
(* emptied, and one for every dial that ended not ready.                    *)
LeaksBounded ==
  Cardinality(Abandoned) <= (removals + 1) * others + unready

(* A caller loses its connection to another caller's failed health check,   *)
(* while it is the cached one, or to a stream client that was given the     *)
(* same one, never to another worker that is done with it.  So a connection *)
(* a worker dialled and nobody else was given serves it to the end once     *)
(* another has replaced it in the map.                                      *)
LostToCheckOrStream ==
  [][\A c \in Callers : holds[c] \in open /\ holds[c] \notin open' =>
       \/ \E d \in Callers \ {c} : pc[d] = "idle" /\ pc'[d] = "missed" /\ holds[c] = cached
       \/ \E s \in Streams : holds[s] = holds[c] /\ holds'[s] = None]_vars

(* Every worker is given a connection that works again and again, whatever  *)
(* others do to the cache and to the connections in it, once the proxy      *)
(* stays up and the streams no longer break.                                *)
Served == \A c \in Callers \ Streams : []<>(pc[c] = "using" /\ holds[c] \in open)

(***************************************************************************)
(* Why LeaksBounded holds: as long as a connection is cached nobody new     *)
(* misses, so those still to dial are charged to the last removal.          *)
(***************************************************************************)
LeaksAccounted ==
  IF cached = None
    THEN Cardinality(Abandoned) <= removals * others + unready
    ELSE Cardinality(Abandoned) + Cardinality(Missed) <= (removals + 1) * others + unready

NumbersAreNew ==
  /\ \A n \in open : n <= made
  /\ cached <= made
  /\ \A c \in Callers : holds[c] <= made /\ (holds[c] # None <=> pc[c] = "using")

Inv == TypeOK /\ NumbersAreNew /\ ClosedByItsUser /\ LeaksAccounted

=============================================================================
