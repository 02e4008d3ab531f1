---------------------------- MODULE PluginClient ----------------------------
(***************************************************************************)
(* The stream client of sphinx-plugin (pkg/task/task.go): the bidirectional *)
(* stream ProxyPlugin over which sphinx-proxy asks for balances and gas     *)
(* estimates, and the plugin answers and registers its coins.               *)
(*                                                                          *)
(* Each pluginClient has four goroutines, watch, register, recv and send,   *)
(* and one more for each request.  They meet on three channels: exitChan,   *)
(* closed once; sendChannel, buffered; and closeBadConn, unbuffered, on     *)
(* which recv and send report a broken stream to watch.  After two reports  *)
(* watch closes the client, and makes a new one with four goroutines of its *)
(* own; the old watch goes on, so that several may be there at a time.      *)
(* The connection under a stream is the cached one (ConnCache): the next    *)
(* stream, and the task workers, may be given the same.                     *)
(*                                                                          *)
(* A step of a goroutine is what it does between two points at which it may *)
(* block or another goroutine may see the difference.                       *)
(***************************************************************************)
EXTENDS Naturals, Sequences

CONSTANTS
  Req,         \* requests the proxy makes
  Unknown,     \* requests for a token that is not registered
  MaxRetries,  \* attempts of Plugin to connect
  ChanBuff,    \* capacity of sendChannel
  Tokens,      \* coins that register announces at each tick
  MaxClients,  \* bound on the clients ever made
  MaxBreaks    \* bound on the streams that break

Client == 1 .. MaxClients

ASSUME ConstantsAssumption ==
  /\ Unknown \subseteq Req
  /\ MaxRetries \in Nat \ {0}
  /\ ChanBuff \in Nat \ {0}
  /\ Tokens \in Nat
  /\ MaxClients \in Nat \ {0}
  /\ MaxBreaks \in Nat
  /\ "coin" \notin Req

VARIABLES
  proc,        \* the process: "up", "exited", "panicked"
  attempts,    \* attempts Plugin has made; 0 once it returned
  made,        \* clients made so far: 1 .. made
  stream,      \* stream[c]: "up", "broken", "failed", "closed"
  conn,        \* conn[c]: the connection of the client, by the client it was dialled for
  shut,        \* connections that were closed
  exitChan,    \* exitChan[c]: closed?
  cleanChan,   \* closed?
  exitSig,     \* "none", "pending", "taken"
  sendChannel, \* sendChannel[c]: what waits to be sent
  watch, recv, send,  \* where the goroutines of each client are
  register,    \* of each client
  coins,       \* coins register has yet to put into sendChannel in this tick
  rpc, via,    \* what became of each request, and the client it came to
  breaks,      \* streams broken so far
  lateSend     \* history: send of a closed client was heard by watch

goVars   == <<watch, recv, send, register, coins>>
streamVars == <<stream, conn, shut>>
chanVars == <<exitChan, cleanChan, exitSig, sendChannel>>
vars == <<proc, attempts, made, streamVars, chanVars, goVars, rpc, via, breaks, lateSend>>

Live(c) == c <= made /\ ~exitChan[c]
OnConn(c, k) == stream[c] = "up" /\ conn[c] = k

-----------------------------------------------------------------------------
(* Clients.                                                                 *)

(* newClient succeeds: the stream is open and the goroutines run.  The      *)
(* connection is a new one, or one an earlier client still works with.      *)
newClient ==
  /\ made < MaxClients
  /\ \E k \in {made + 1} \cup ({conn[d] : d \in 1 .. made} \ shut) :
       conn' = [conn EXCEPT ![made + 1] = k]
  /\ UNCHANGED shut
  /\ made' = made + 1
  /\ stream' = [stream EXCEPT ![made + 1] = "up"]
  /\ register' = [register EXCEPT ![made + 1] = "run"]
  /\ recv' = [recv EXCEPT ![made + 1] = "select"]
  /\ coins' = [coins EXCEPT ![made + 1] = 0]
  /\ send' = [send EXCEPT ![made + 1] = "select"]

(* Closing a closed channel panics. *)
CloseCleanChan ==
  /\ cleanChan' = TRUE
  /\ proc' = IF cleanChan THEN "panicked" ELSE proc

(* closeProxyClient, which once makes idempotent: exitChan, the stream and  *)
(* the connection are closed.  Other streams on that connection break.      *)
closeProxyClient(c) ==
  /\ exitChan' = [exitChan EXCEPT ![c] = TRUE]
  /\ stream' = [d \in Client |-> IF d = c THEN "closed"
                                 ELSE IF OnConn(d, conn[c]) THEN "broken" ELSE stream[d]]
  /\ shut' = shut \cup {conn[c]}
  /\ UNCHANGED conn

-----------------------------------------------------------------------------
(* Plugin, called by main, which then waits for cleanChan.                  *)

PluginConnects ==
  /\ attempts \in 1 .. MaxRetries
  /\ newClient
  /\ watch' = [watch EXCEPT ![made + 1] = "select"]
  /\ attempts' = 0
  /\ UNCHANGED <<proc, chanVars, rpc, via, breaks, lateSend>>

(* Variant: out of attempts, Plugin just returns. *)
PluginFailsSilently ==
  /\ attempts \in 1 .. MaxRetries
  /\ attempts' = IF attempts = MaxRetries THEN 0 ELSE attempts + 1
  /\ UNCHANGED <<proc, made, streamVars, chanVars, goVars, rpc, via, breaks, lateSend>>

PluginFails ==
  /\ attempts \in 1 .. MaxRetries
  /\ attempts' = IF attempts = MaxRetries THEN 0 ELSE attempts + 1
  /\ IF attempts = MaxRetries THEN CloseCleanChan ELSE UNCHANGED <<cleanChan, proc>>
  /\ UNCHANGED <<made, streamVars, exitChan, exitSig, sendChannel, goVars, rpc, via, breaks, lateSend>>

(* <-cleanChan: the process ends. *)
MainReturns ==
  /\ attempts = 0 /\ cleanChan
  /\ proc' = "exited"
  /\ UNCHANGED <<attempts, made, streamVars, chanVars, goVars, rpc, via, breaks, lateSend>>

-----------------------------------------------------------------------------
(* watch.                                                                   *)

(* Variant: the first report is enough. *)
HearsOnce(c) ==
  /\ watch[c] = "select"
  /\ watch' = [watch EXCEPT ![c] = "close"]

(* The second report makes watch close the client. *)
Hears(c) ==
  /\ watch[c] \in {"select", "second"}
  /\ watch' = [watch EXCEPT ![c] = IF watch[c] = "select" THEN "second" ELSE "close"]

(* Variant: closeProxyClient forgets exitChan. *)
WatchClosesStream(c) ==
  /\ watch[c] = "close"
  /\ stream' = [stream EXCEPT ![c] = "closed"]
  /\ watch' = [watch EXCEPT ![c] = "dial"]
  /\ UNCHANGED <<conn, shut, proc, attempts, made, chanVars, recv, send, register, coins,
                 rpc, via, breaks, lateSend>>

(* Two reports were heard: the client is closed. *)
WatchCloses(c) ==
  /\ watch[c] = "close"
  /\ closeProxyClient(c)
  /\ watch' = [watch EXCEPT ![c] = "dial"]
  /\ UNCHANGED <<proc, attempts, made, cleanChan, exitSig, sendChannel,
                 recv, send, register, coins, rpc, via, breaks, lateSend>>

(* Variant: the old watch returns once it has made a new client. *)
WatchRenewsAndEnds(c) ==
  /\ watch[c] = "dial"
  /\ newClient
  /\ watch' = [watch EXCEPT ![c] = "end", ![made + 1] = "select"]
  /\ UNCHANGED <<proc, attempts, chanVars, rpc, via, breaks, lateSend>>

(* newClient after a pause: one attempt, then the process gives up. *)
WatchRenews(c) ==
  /\ watch[c] = "dial"
  /\ newClient
  /\ watch' = [watch EXCEPT ![c] = "select", ![made + 1] = "select"]
  /\ UNCHANGED <<proc, attempts, chanVars, rpc, via, breaks, lateSend>>

WatchGivesUp(c) ==
  /\ watch[c] = "dial"
  /\ CloseCleanChan
  /\ watch' = [watch EXCEPT ![c] = "select"]
  /\ UNCHANGED <<attempts, made, streamVars, exitChan, exitSig, sendChannel,
                 recv, send, register, coins, rpc, via, breaks, lateSend>>

(* Variant: the client is left open. *)
WatchOnlyTakesSignal(c) ==
  /\ watch[c] = "select"
  /\ exitSig = "pending"
  /\ exitSig' = "taken"
  /\ watch' = [watch EXCEPT ![c] = "clean"]
  /\ UNCHANGED <<proc, attempts, made, streamVars, exitChan, cleanChan, sendChannel,
                 recv, send, register, coins, rpc, via, breaks, lateSend>>

(* <-exitSig: the client is closed before cleanChan is.                     *)
WatchTakesSignal(c) ==
  /\ watch[c] = "select"
  /\ exitSig = "pending"
  /\ exitSig' = "taken"
  /\ closeProxyClient(c)
  /\ watch' = [watch EXCEPT ![c] = "clean"]
  /\ UNCHANGED <<proc, attempts, made, cleanChan, sendChannel,
                 recv, send, register, coins, rpc, via, breaks, lateSend>>

WatchCleans(c) ==
  /\ watch[c] = "clean"
  /\ CloseCleanChan
  /\ watch' = [watch EXCEPT ![c] = "end"]
  /\ UNCHANGED <<attempts, made, streamVars, exitChan, exitSig, sendChannel,
                 recv, send, register, coins, rpc, via, breaks, lateSend>>

-----------------------------------------------------------------------------
(* recv.                                                                    *)

RecvSelects(c) ==
  /\ recv[c] = "select"
  /\ recv' = [recv EXCEPT ![c] = IF exitChan[c] THEN "end" ELSE "recv"]
  /\ UNCHANGED <<proc, attempts, made, streamVars, chanVars, watch, send, register, coins,
                 rpc, via, breaks, lateSend>>

(* Recv returns a request, which gets a goroutine of its own. *)
RecvRequest(c, r) ==
  /\ recv[c] = "recv" /\ stream[c] = "up"
  /\ rpc[r] = "asked" /\ via[r] = c
  /\ rpc' = [rpc EXCEPT ![r] = "running"]
  /\ recv' = [recv EXCEPT ![c] = "select"]
  /\ UNCHANGED <<proc, attempts, made, streamVars, chanVars, watch, send, register, coins,
                 via, breaks, lateSend>>

(* Recv returns an error that CheckCode knows: broken, or closed here. *)
RecvFails(c) ==
  /\ recv[c] = "recv" /\ stream[c] \in {"broken", "closed"}
  /\ recv' = [recv EXCEPT ![c] = "report"]
  /\ UNCHANGED <<proc, attempts, made, streamVars, chanVars, watch, send, register, coins,
                 rpc, via, breaks, lateSend>>

(* Any other error is only logged: the goroutine for the request that is    *)
(* not there reads its Name, and the process panics.                        *)
RecvFailsOtherwise(c) ==
  /\ recv[c] = "recv" /\ stream[c] = "failed"
  /\ proc' = "panicked"
  /\ UNCHANGED <<attempts, made, streamVars, chanVars, goVars, rpc, via, breaks, lateSend>>

(* Variant: recv returns after it has reported. *)
RecvReportsOnce(c) ==
  /\ recv[c] = "report"
  /\ Hears(c)
  /\ recv' = [recv EXCEPT ![c] = "end"]
  /\ UNCHANGED <<proc, attempts, made, streamVars, chanVars, send, register, coins,
                 rpc, via, breaks, lateSend>>

(* closeBadConn <-: the break that follows only leaves the select. *)
RecvReports(c) ==
  /\ recv[c] = "report"
  /\ Hears(c)
  /\ recv' = [recv EXCEPT ![c] = "select"]
  /\ UNCHANGED <<proc, attempts, made, streamVars, chanVars, send, register, coins,
                 rpc, via, breaks, lateSend>>

-----------------------------------------------------------------------------
(* The goroutine of a request.                                              *)

(* The token is looked up and the handler called; without a handler, or     *)
(* when the handler fails, the answer says so.  For an unknown token the    *)
(* code takes the text of an error that is nil.                             *)
HandlerRuns(r) ==
  /\ rpc[r] = "running"
  /\ IF r \in Unknown
       THEN proc' = "panicked" /\ UNCHANGED rpc
       ELSE rpc' = [rpc EXCEPT ![r] = "handled"] /\ UNCHANGED proc
  /\ UNCHANGED <<attempts, made, streamVars, chanVars, goVars, via, breaks, lateSend>>

(* c.sendChannel <- x *)
Puts(c, x) ==
  /\ Len(sendChannel[c]) < ChanBuff
  /\ sendChannel' = [sendChannel EXCEPT ![c] = Append(@, x)]

(* Variant: an answer that finds the channel full is dropped. *)
HandlerAnswersOrDrops(r) ==
  /\ rpc[r] = "handled"
  /\ IF Len(sendChannel[via[r]]) < ChanBuff
       THEN Puts(via[r], r) /\ rpc' = [rpc EXCEPT ![r] = "queued"]
       ELSE rpc' = [rpc EXCEPT ![r] = "lost"] /\ UNCHANGED sendChannel
  /\ UNCHANGED <<proc, attempts, made, streamVars, exitChan, cleanChan, exitSig, goVars,
                 via, breaks, lateSend>>

(* The answer is put into sendChannel, and waits while that is full. *)
HandlerAnswers(r) ==
  /\ rpc[r] = "handled"
  /\ Puts(via[r], r)
  /\ rpc' = [rpc EXCEPT ![r] = "queued"]
  /\ UNCHANGED <<proc, attempts, made, streamVars, exitChan, cleanChan, exitSig, goVars,
                 via, breaks, lateSend>>

-----------------------------------------------------------------------------
(* register.                                                                *)

(* The timer of a select is a fresh one: with exitChan closed it never wins. *)
RegisterSelects(c) ==
  /\ register[c] = "run" /\ coins[c] = 0
  /\ IF exitChan[c]
       THEN register' = [register EXCEPT ![c] = "end"] /\ UNCHANGED coins
       ELSE coins' = [coins EXCEPT ![c] = Tokens] /\ UNCHANGED register
  /\ UNCHANGED <<proc, attempts, made, streamVars, chanVars, watch, recv, send,
                 rpc, via, breaks, lateSend>>

RegisterPuts(c) ==
  /\ register[c] = "run" /\ coins[c] > 0
  /\ Puts(c, "coin")
  /\ coins' = [coins EXCEPT ![c] = @ - 1]
  /\ UNCHANGED <<proc, attempts, made, streamVars, exitChan, cleanChan, exitSig, watch, recv,
                 send, register, rpc, via, breaks, lateSend>>

-----------------------------------------------------------------------------
(* send.                                                                    *)

SendExits(c) ==
  /\ send[c] = "select" /\ exitChan[c]
  /\ send' = [send EXCEPT ![c] = "end"]
  /\ UNCHANGED <<proc, attempts, made, streamVars, chanVars, watch, recv, register, coins,
                 rpc, via, breaks, lateSend>>

(* Sent or not, the response is out of the channel: what a stream that is   *)
(* not up is given is lost.  A broken stream may take it without an error;  *)
(* a stream closed here refuses it at once with an error that CheckCode     *)
(* does not know.                                                           *)
SendTakes(c) ==
  /\ send[c] = "select" /\ sendChannel[c] # <<>>
  /\ LET x == Head(sendChannel[c]) IN
       rpc' = [r \in Req |-> IF r # x THEN rpc[r]
                             ELSE IF stream[c] = "up" THEN "answered" ELSE "lost"]
  /\ sendChannel' = [sendChannel EXCEPT ![c] = Tail(@)]
  /\ \/ UNCHANGED send
     \/ stream[c] \in {"broken", "failed"} /\ send' = [send EXCEPT ![c] = "report"]
  /\ UNCHANGED <<proc, attempts, made, streamVars, exitChan, cleanChan, exitSig, watch, recv,
                 register, coins, via, breaks, lateSend>>

SendReports(c) ==
  /\ send[c] = "report"
  /\ Hears(c)
  /\ send' = [send EXCEPT ![c] = "select"]
  /\ lateSend' = IF exitChan[c] THEN lateSend \cup {c} ELSE lateSend
  /\ UNCHANGED <<proc, attempts, made, streamVars, chanVars, recv, register, coins,
                 rpc, via, breaks>>

-----------------------------------------------------------------------------
(* The proxy, the network and the operating system.                         *)

ProxyAsks(c, r) ==
  /\ stream[c] = "up" /\ rpc[r] = "none"
  /\ rpc' = [rpc EXCEPT ![r] = "asked"]
  /\ via' = [via EXCEPT ![r] = c]
  /\ UNCHANGED <<proc, attempts, made, streamVars, chanVars, goVars, breaks, lateSend>>

(* A stream ends with a status CheckCode knows, or with another.  Or the    *)
(* whole connection is lost, and a task worker's failed health check may    *)
(* have closed it.                                                          *)
Breaks(c) ==
  /\ stream[c] = "up" /\ breaks < MaxBreaks
  /\ breaks' = breaks + 1
  /\ \/ /\ \E s \in {"broken", "failed"} : stream' = [stream EXCEPT ![c] = s]
        /\ UNCHANGED shut
     \/ /\ stream' = [d \in Client |-> IF OnConn(d, conn[c]) THEN "broken" ELSE stream[d]]
        /\ shut' \in {shut, shut \cup {conn[c]}}
  /\ UNCHANGED <<conn, proc, attempts, made, chanVars, goVars, rpc, via, lateSend>>

Signal ==
  /\ exitSig = "none"
  /\ exitSig' = "pending"
  /\ UNCHANGED <<proc, attempts, made, streamVars, exitChan, cleanChan, sendChannel, goVars,
                 rpc, via, breaks, lateSend>>

-----------------------------------------------------------------------------
Init ==
  /\ proc = "up" /\ attempts = 1 /\ made = 0
  /\ stream = [c \in Client |-> "none"]
  /\ conn = [c \in Client |-> 0] /\ shut = {}
  /\ exitChan = [c \in Client |-> FALSE]
  /\ cleanChan = FALSE /\ exitSig = "none"
  /\ sendChannel = [c \in Client |-> <<>>]
  /\ watch = [c \in Client |-> "none"]
  /\ recv = [c \in Client |-> "none"]
  /\ send = [c \in Client |-> "none"]
  /\ register = [c \in Client |-> "none"]
  /\ coins = [c \in Client |-> 0]
  /\ rpc = [r \in Req |-> "none"]
  /\ via = [r \in Req |-> 0]
  /\ breaks = 0 /\ lateSend = {}

Main == PluginConnects \/ PluginFails \/ MainReturns

Watch(c) ==
  \/ WatchCloses(c) \/ WatchRenews(c) \/ WatchGivesUp(c)
  \/ WatchTakesSignal(c) \/ WatchCleans(c)

Recv(c) ==
  \/ RecvSelects(c) \/ RecvFails(c) \/ RecvFailsOtherwise(c) \/ RecvReports(c)
  \/ \E r \in Req : RecvRequest(c, r)

Register(c) == RegisterSelects(c) \/ RegisterPuts(c)

Send(c) == SendExits(c) \/ SendTakes(c) \/ SendReports(c)

Handler(r) == HandlerRuns(r) \/ HandlerAnswers(r)

Next ==
  /\ proc = "up"
  /\ \/ Main
     \/ \E c \in Client : Watch(c) \/ Recv(c) \/ Register(c) \/ Send(c) \/ Breaks(c)
     \/ \E r \in Req : Handler(r)
     \/ \E c \in Client, r \in Req : ProxyAsks(c, r)
     \/ Signal

Spec == Init /\ [][Next]_vars

(***************************************************************************)
(* Every goroutine that can go on does.  Goroutines blocked on a channel    *)
(* are served in the order they came, so that a handler waiting for room in *)
(* sendChannel is not passed over for ever (strong fairness).               *)
(***************************************************************************)
Fairness ==
  /\ WF_vars(proc = "up" /\ Main)
  /\ \A c \in Client : /\ WF_vars(proc = "up" /\ Watch(c))
                       /\ WF_vars(proc = "up" /\ Recv(c))
                       /\ WF_vars(proc = "up" /\ Register(c))
                       /\ WF_vars(proc = "up" /\ Send(c))
  /\ \A r \in Req : /\ WF_vars(proc = "up" /\ HandlerRuns(r))
                    /\ SF_vars(proc = "up" /\ HandlerAnswers(r))

FairSpec == Spec /\ Fairness

-----------------------------------------------------------------------------
(* Properties.                                                              *)

(* Every variable holds values of its type. *)
TypeOK ==
  /\ proc \in {"up", "exited", "panicked"}
  /\ attempts \in 0 .. MaxRetries
  /\ made \in 0 .. MaxClients
  /\ stream \in [Client -> {"none", "up", "broken", "failed", "closed"}]
  /\ conn \in [Client -> 0 .. MaxClients] /\ shut \subseteq 0 .. MaxClients
  /\ exitChan \in [Client -> BOOLEAN]
  /\ cleanChan \in BOOLEAN
  /\ exitSig \in {"none", "pending", "taken"}
  /\ sendChannel \in [Client -> Seq(Req \cup {"coin"})]
  /\ \A c \in Client : Len(sendChannel[c]) <= ChanBuff
  /\ watch \in [Client -> {"none", "select", "second", "close", "dial", "clean", "end"}]
  /\ recv \in [Client -> {"none", "select", "recv", "report", "end"}]
  /\ send \in [Client -> {"none", "select", "report", "end"}]
  /\ register \in [Client -> {"none", "run", "end"}]
  /\ coins \in [Client -> 0 .. Tokens]
  /\ rpc \in [Req -> {"none", "asked", "running", "handled", "queued", "answered", "lost"}]
  /\ via \in [Req -> 0 .. MaxClients]
  /\ breaks \in 0 .. MaxBreaks
  /\ lateSend \subseteq Client

(* The plugin keeps one stream to the proxy: reconnecting replaces a client *)
(* and never adds one.  (Late reports of a closed client's send goroutine   *)
(* do make watch connect once more; recv alone cannot.)                     *)
OneClient ==
  lateSend = {} => \A c, d \in Client : Live(c) /\ Live(d) => c = d

(* A client that is not closed has a watch that can close it: no broken     *)
(* stream goes unnoticed because its watch has gone.                        *)
Watched ==
  proc = "up" => \A c \in Client : Live(c) => watch[c] \in {"select", "second", "close"}

(* When the process ends in order, every stream was closed before, except   *)
(* when the signal went to the watch of a client that had been replaced.    *)
StopsGracefully ==
  proc = "exited" =>
    \A c \in Client : Live(c) => lateSend # {} \/ (c > 1 /\ exitSig = "taken")

(***************************************************************************)
(* Why these hold.  Of a client that is closed, recv can report once more   *)
(* at the most, having met the error before exitChan was closed; so its     *)
(* watch hears a second late report only from send.                         *)
(***************************************************************************)
NotYetMade ==
  \A c \in Client : c > made => watch[c] = "none" /\ recv[c] = "none" /\ ~exitChan[c]

Connecting == attempts > 0 => made = 0 /\ ~cleanChan

OpenIsWatched ==
  \A c \in Client : Live(c) => watch[c] \in {"select", "second", "close"}

OnlyNewestActs ==
  lateSend = {} =>
    \A c \in Client :
      /\ c < made => exitChan[c]
      /\ watch[c] = "second" /\ exitChan[c] => recv[c] \in {"select", "end"}
      /\ watch[c] \in {"close", "dial"} => c = made
      /\ watch[c] = "close" => ~exitChan[c]

CleanedUp ==
  /\ \A c \in Client : watch[c] \in {"dial", "clean"} => exitChan[c]
  /\ \A c \in Client : watch[c] = "clean" => exitSig = "taken"
  /\ cleanChan /\ lateSend = {} => \A c \in Client :
       Live(c) \/ watch[c] = "dial" => exitSig = "taken" /\ (Live(c) => c > 1)
  /\ proc = "exited" => cleanChan

(* The invariant that is inductive. *)
Inv ==
  /\ TypeOK
  /\ NotYetMade
  /\ Connecting
  /\ OpenIsWatched
  /\ OnlyNewestActs
  /\ CleanedUp

(* However often the stream breaks, the plugin ends up connected, unless    *)
(* the process ends and leaves that to its supervisor.                      *)
Reconnects ==
  <>[](proc = "up" => \E c \in Client : Live(c) /\ stream[c] = "up")

(* A request is answered on the stream it came by, as long as that is up.   *)
Answered ==
  \A r \in Req, c \in Client :
    rpc[r] = "asked" /\ via[r] = c ~>
      (rpc[r] = "answered" \/ stream[c] # "up" \/ proc # "up")

(* A signal ends the process, whatever the goroutines are doing. *)
Stops == exitSig = "pending" ~> proc # "up"

(* The recv and send goroutines of a closed client end: their last reports  *)
(* are heard, though their watch is busy making a new client.               *)
WindsDown ==
  \A c \in Client :
    exitChan[c] ~> ((recv[c] = "end" /\ send[c] = "end") \/ proc # "up")

=============================================================================
