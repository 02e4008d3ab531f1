------------------------ MODULE PluginClient_proofs -------------------------
(* Proofs about PluginClient, for any number of clients and requests and    *)
(* any capacity of sendChannel.                                             *)
EXTENDS PluginClient, TLAPS

(* The steps of Next, one by one. *)
LEMMA NextCases ==
  ASSUME Next
  PROVE  /\ proc = "up"
         /\ \/ PluginConnects \/ PluginFails \/ MainReturns \/ Signal
            \/ \E c \in Client : \/ WatchCloses(c) \/ WatchRenews(c) \/ WatchGivesUp(c)
                                 \/ WatchTakesSignal(c) \/ WatchCleans(c)
            \/ \E c \in Client : RecvReports(c) \/ SendReports(c)
            \/ \E c \in Client : \/ RecvSelects(c) \/ RecvFails(c) \/ RecvFailsOtherwise(c)
                                 \/ \E r \in Req : RecvRequest(c, r)
            \/ \E c \in Client : RegisterSelects(c) \/ RegisterPuts(c)
            \/ \E c \in Client : SendExits(c) \/ SendTakes(c)
            \/ \E c \in Client : Breaks(c) \/ \E r \in Req : ProxyAsks(c, r)
            \/ \E r \in Req : HandlerRuns(r) \/ HandlerAnswers(r)
BY DEF Next, Main, Watch, Recv, Register, Send, Handler

LEMMA InitTypeOK == Init => TypeOK
<1> SUFFICES ASSUME Init PROVE TypeOK
  OBVIOUS
<1>1. /\ sendChannel \in [Client -> Seq(Req \cup {"coin"})]
      /\ \A c \in Client : Len(sendChannel[c]) <= ChanBuff
  BY ConstantsAssumption DEF Init
<1>2. via \in [Req -> 0 .. MaxClients] /\ coins \in [Client -> 0 .. Tokens]
  BY ConstantsAssumption DEF Init
<1>3. /\ attempts \in 0 .. MaxRetries /\ made \in 0 .. MaxClients
      /\ breaks \in 0 .. MaxBreaks
  BY ConstantsAssumption DEF Init
<1> QED
  BY <1>1, <1>2, <1>3 DEF Init, TypeOK

(* A new client has a number of its own. *)
LEMMA NewClientType ==
  ASSUME TypeOK, newClient
  PROVE  /\ made + 1 \in Client
         /\ made' \in 0 .. MaxClients
         /\ stream' \in [Client -> {"none", "up", "broken", "failed", "closed"}]
         /\ register' \in [Client -> {"none", "run", "end"}]
         /\ recv' \in [Client -> {"none", "select", "recv", "report", "end"}]
         /\ send' \in [Client -> {"none", "select", "report", "end"}]
         /\ coins' \in [Client -> 0 .. Tokens]
         /\ conn' \in [Client -> 0 .. MaxClients]
         /\ shut' \subseteq 0 .. MaxClients
<1>1. made + 1 \in Client /\ made' \in 0 .. MaxClients
  BY ConstantsAssumption DEF TypeOK, newClient, Client
<1>2. 0 \in 0 .. Tokens
  BY ConstantsAssumption
<1>3. conn' \in [Client -> 0 .. MaxClients] /\ shut' \subseteq 0 .. MaxClients
  <2>1. PICK k \in {made + 1} \cup ({conn[d] : d \in 1 .. made} \ shut) :
          conn' = [conn EXCEPT ![made + 1] = k]
    BY DEF newClient
  <2>2. made + 1 \in 0 .. MaxClients /\ \A d \in 1 .. made : d \in Client
    BY <1>1, ConstantsAssumption DEF TypeOK, Client
  <2>3. conn \in [Client -> 0 .. MaxClients] /\ shut \subseteq 0 .. MaxClients
    BY DEF TypeOK
  <2>4. k \in 0 .. MaxClients
    BY <2>1, <2>2, <2>3
  <2>5. conn' \in [Client -> 0 .. MaxClients]
    BY <2>1, <2>3, <2>4
  <2> QED
    BY <2>3, <2>5 DEF newClient
<1> QED
  BY <1>1, <1>2, <1>3 DEF TypeOK, newClient

(* Closing a client leaves the streams and connections well typed. *)
LEMMA CloseType ==
  ASSUME TypeOK, NEW c \in Client, closeProxyClient(c)
  PROVE  /\ exitChan' \in [Client -> BOOLEAN]
         /\ stream' \in [Client -> {"none", "up", "broken", "failed", "closed"}]
         /\ conn' \in [Client -> 0 .. MaxClients]
         /\ shut' \subseteq 0 .. MaxClients
<1>1. exitChan' \in [Client -> BOOLEAN]
  BY DEF TypeOK, closeProxyClient
<1>2. stream' \in [Client -> {"none", "up", "broken", "failed", "closed"}]
  BY DEF TypeOK, closeProxyClient
<1>3. conn' = conn /\ shut' = shut \cup {conn[c]}
  BY DEF closeProxyClient
<1>4. conn \in [Client -> 0 .. MaxClients] /\ shut \subseteq 0 .. MaxClients
  BY DEF TypeOK
<1>5. conn' \in [Client -> 0 .. MaxClients] /\ shut' \subseteq 0 .. MaxClients
  BY <1>3, <1>4
<1> QED
  BY <1>1, <1>2, <1>5

(* What Puts leaves in sendChannel fits. *)
LEMMA PutsType ==
  ASSUME TypeOK, NEW c \in Client, NEW x \in Req \cup {"coin"}, Puts(c, x)
  PROVE  /\ sendChannel' \in [Client -> Seq(Req \cup {"coin"})]
         /\ \A d \in Client : Len(sendChannel'[d]) <= ChanBuff
<1>1. /\ sendChannel[c] \in Seq(Req \cup {"coin"})
      /\ Len(sendChannel[c]) < ChanBuff
  BY DEF TypeOK, Puts
<1>2. /\ Append(sendChannel[c], x) \in Seq(Req \cup {"coin"})
      /\ Len(Append(sendChannel[c], x)) = Len(sendChannel[c]) + 1
  BY <1>1
<1>3. Len(sendChannel[c]) + 1 <= ChanBuff
  BY <1>1, ConstantsAssumption
<1> QED
  BY <1>2, <1>3 DEF TypeOK, Puts

LEMMA NextTypeOK == TypeOK /\ [Next]_vars => TypeOK'
<1> SUFFICES ASSUME TypeOK, [Next]_vars PROVE TypeOK'
  OBVIOUS
<1> USE DEF TypeOK, chanVars, goVars, streamVars
<1>1. CASE PluginConnects
  <2>1. newClient /\ UNCHANGED <<proc, chanVars, rpc, via, breaks, lateSend>>
    BY <1>1 DEF PluginConnects
  <2>2. attempts' \in 0 .. MaxRetries
    BY <1>1, ConstantsAssumption DEF PluginConnects
  <2>3. watch' \in [Client -> {"none", "select", "second", "close", "dial", "clean", "end"}]
    BY <1>1 DEF PluginConnects
  <2>4. /\ made' \in 0 .. MaxClients
        /\ stream' \in [Client -> {"none", "up", "broken", "failed", "closed"}]
        /\ register' \in [Client -> {"none", "run", "end"}]
        /\ recv' \in [Client -> {"none", "select", "recv", "report", "end"}]
        /\ send' \in [Client -> {"none", "select", "report", "end"}]
        /\ coins' \in [Client -> 0 .. Tokens]
        /\ conn' \in [Client -> 0 .. MaxClients] /\ shut' \subseteq 0 .. MaxClients
    BY <2>1, NewClientType
  <2> QED
    BY <2>1, <2>2, <2>3, <2>4
<1>2. CASE PluginFails
  <2>1. attempts' \in 0 .. MaxRetries
    BY <1>2, ConstantsAssumption DEF PluginFails
  <2> QED
    BY <1>2, <2>1 DEF PluginFails, CloseCleanChan
<1>3. CASE MainReturns \/ Signal
  <2>1. CASE MainReturns
    BY <2>1 DEF MainReturns
  <2>2. CASE Signal
    BY <2>2 DEF Signal
  <2> QED
    BY <1>3, <2>1, <2>2
<1>4. ASSUME NEW c \in Client, WatchRenews(c) PROVE TypeOK'
  BY <1>4, NewClientType DEF WatchRenews
<1>5. ASSUME NEW c \in Client,
             WatchCloses(c) \/ WatchGivesUp(c) \/ WatchTakesSignal(c) \/ WatchCleans(c)
      PROVE  TypeOK'
  <2>1. CASE WatchCloses(c)
    BY <2>1, CloseType DEF WatchCloses
  <2>2. CASE WatchGivesUp(c)
    BY <2>2 DEF WatchGivesUp, CloseCleanChan
  <2>3. CASE WatchTakesSignal(c)
    BY <2>3, CloseType DEF WatchTakesSignal
  <2>4. CASE WatchCleans(c)
    BY <2>4 DEF WatchCleans, CloseCleanChan
  <2> QED
    BY <1>5, <2>1, <2>2, <2>3, <2>4
<1>6. ASSUME NEW c \in Client, RecvReports(c) \/ SendReports(c) PROVE TypeOK'
  <2>1. CASE RecvReports(c)
    BY <2>1 DEF RecvReports, Hears
  <2>2. CASE SendReports(c)
    BY <2>2 DEF SendReports, Hears
  <2> QED
    BY <1>6, <2>1, <2>2
<1>7. ASSUME NEW c \in Client, RecvSelects(c) \/ RecvFails(c) \/ RecvFailsOtherwise(c)
      PROVE  TypeOK'
  <2>1. CASE RecvSelects(c)
    BY <2>1 DEF RecvSelects
  <2>2. CASE RecvFails(c)
    BY <2>2 DEF RecvFails
  <2>3. CASE RecvFailsOtherwise(c)
    BY <2>3 DEF RecvFailsOtherwise
  <2> QED
    BY <1>7, <2>1, <2>2, <2>3
<1>8. ASSUME NEW c \in Client, NEW r \in Req, RecvRequest(c, r) \/ ProxyAsks(c, r)
      PROVE  TypeOK'
  <2>1. c \in 0 .. MaxClients
    BY ConstantsAssumption DEF Client
  <2> QED
    <3>1. CASE RecvRequest(c, r)
      BY <3>1, <2>1 DEF RecvRequest
    <3>2. CASE ProxyAsks(c, r)
      BY <3>2, <2>1 DEF ProxyAsks
    <3> QED
      BY <1>8, <3>1, <3>2
<1>9. ASSUME NEW c \in Client, RegisterSelects(c) PROVE TypeOK'
  <2>1. Tokens \in 0 .. Tokens
    BY ConstantsAssumption
  <2> QED
    BY <1>9, <2>1 DEF RegisterSelects
<1>10. ASSUME NEW c \in Client, RegisterPuts(c) PROVE TypeOK'
  <2>1. coins' \in [Client -> 0 .. Tokens]
    BY <1>10, ConstantsAssumption DEF RegisterPuts
  <2> QED
    BY <1>10, <2>1, PutsType DEF RegisterPuts
<1>11. ASSUME NEW c \in Client, SendExits(c) PROVE TypeOK'
  BY <1>11 DEF SendExits
<1>12. ASSUME NEW c \in Client, SendTakes(c) PROVE TypeOK'
  <2>1. /\ Tail(sendChannel[c]) \in Seq(Req \cup {"coin"})
        /\ Len(Tail(sendChannel[c])) <= ChanBuff
    BY <1>12, ConstantsAssumption DEF SendTakes
  <2>2. rpc' \in [Req -> {"none", "asked", "running", "handled", "queued", "answered", "lost"}]
    BY <1>12 DEF SendTakes
  <2> QED
    BY <1>12, <2>1, <2>2 DEF SendTakes
<1>13. ASSUME NEW c \in Client, Breaks(c) PROVE TypeOK'
  <2>1. breaks' \in 0 .. MaxBreaks
    BY <1>13, ConstantsAssumption DEF Breaks
  <2>2. stream' \in [Client -> {"none", "up", "broken", "failed", "closed"}]
    <3>1. CASE \E s \in {"broken", "failed"} : stream' = [stream EXCEPT ![c] = s]
      BY <3>1
    <3>2. CASE stream' = [d \in Client |-> IF OnConn(d, conn[c]) THEN "broken" ELSE stream[d]]
      BY <3>2
    <3> QED
      BY <1>13, <3>1, <3>2 DEF Breaks
  <2>3. conn' = conn /\ shut' \subseteq 0 .. MaxClients
    BY <1>13 DEF Breaks
  <2> QED
    BY <1>13, <2>1, <2>2, <2>3 DEF Breaks
<1>14. ASSUME NEW r \in Req, HandlerRuns(r) PROVE TypeOK'
  BY <1>14 DEF HandlerRuns
<1>15. ASSUME NEW r \in Req, HandlerAnswers(r) PROVE TypeOK'
  <2>1. CASE via[r] \in Client
    BY <1>15, <2>1, PutsType DEF HandlerAnswers
  <2>2. CASE via[r] \notin Client
    BY <1>15, <2>2 DEF HandlerAnswers, Puts
  <2> QED
    BY <2>1, <2>2
<1>16. CASE UNCHANGED vars
  BY <1>16 DEF vars
<1> QED
  BY <1>1, <1>2, <1>3, <1>4, <1>5, <1>6, <1>7, <1>8, <1>9, <1>10, <1>11, <1>12, <1>13,
     <1>14, <1>15, <1>16, NextCases

-----------------------------------------------------------------------------
(* The rest of Inv: a step that leaves watch, recv and the closing of       *)
(* clients alone preserves it.                                              *)
Rest == NotYetMade /\ Connecting /\ OpenIsWatched /\ OnlyNewestActs /\ CleanedUp

LEMMA InitRest == Init => Rest
BY ConstantsAssumption
DEF Init, Rest, NotYetMade, Connecting, OpenIsWatched, OnlyNewestActs, CleanedUp, Live, Client

LEMMA QuietStep ==
  ASSUME TypeOK, Rest,
         UNCHANGED <<attempts, made, exitChan, cleanChan, watch, recv, lateSend>>,
         exitSig' = exitSig \/ exitSig = "none",
         proc' = proc \/ proc' = "panicked" \/ (proc' = "exited" /\ cleanChan)
  PROVE  Rest'
BY DEF Rest, NotYetMade, Connecting, OpenIsWatched, OnlyNewestActs, CleanedUp, Live

(* recv goes on by itself. *)
LEMMA RecvStep ==
  ASSUME TypeOK, Rest, NEW c \in Client,
         \/ RecvSelects(c) \/ RecvFails(c) \/ RecvFailsOtherwise(c)
         \/ \E r \in Req : RecvRequest(c, r)
  PROVE  Rest'
<1>1. CASE RecvSelects(c)
  BY <1>1 DEF RecvSelects, TypeOK, Rest, NotYetMade, Connecting, OpenIsWatched,
              OnlyNewestActs, CleanedUp, Live, chanVars
<1>2. CASE RecvFails(c)
  BY <1>2 DEF RecvFails, TypeOK, Rest, NotYetMade, Connecting, OpenIsWatched,
              OnlyNewestActs, CleanedUp, Live, chanVars
<1>3. CASE RecvFailsOtherwise(c)
  BY <1>3, QuietStep DEF RecvFailsOtherwise, chanVars, goVars
<1>4. ASSUME NEW r \in Req, RecvRequest(c, r) PROVE Rest'
  BY <1>4 DEF RecvRequest, TypeOK, Rest, NotYetMade, Connecting, OpenIsWatched,
              OnlyNewestActs, CleanedUp, Live, chanVars
<1> QED
  BY <1>1, <1>2, <1>3, <1>4

(* A report is heard: a closed client's second one is from send. *)
LEMMA ReportStep ==
  ASSUME TypeOK, Rest, NEW c \in Client, RecvReports(c) \/ SendReports(c)
  PROVE  Rest'
<1>1. /\ UNCHANGED <<proc, attempts, made, exitChan, cleanChan, exitSig>>
      /\ watch[c] \in {"select", "second"}
      /\ watch' = [watch EXCEPT ![c] = IF watch[c] = "select" THEN "second" ELSE "close"]
      /\ lateSend' = {} => lateSend = {}
      /\ \/ recv[c] = "report" /\ recv' = [recv EXCEPT ![c] = "select"]
         \/ recv' = recv /\ (exitChan[c] => lateSend' # {})
  BY DEF RecvReports, SendReports, Hears, chanVars, goVars
<1>2. NotYetMade' /\ Connecting' /\ OpenIsWatched' /\ CleanedUp'
  BY <1>1 DEF TypeOK, Rest, NotYetMade, Connecting, OpenIsWatched, CleanedUp, Live
<1>3. OnlyNewestActs'
  <2> SUFFICES ASSUME lateSend' = {}, NEW d \in Client
               PROVE  /\ d < made => exitChan[d]
                      /\ watch'[d] = "second" /\ exitChan[d] => recv'[d] \in {"select", "end"}
                      /\ watch'[d] \in {"close", "dial"} => d = made
                      /\ watch'[d] = "close" => ~exitChan[d]
    BY <1>1 DEF OnlyNewestActs
  <2>1. lateSend = {}
    BY <1>1
  <2>2. CASE d # c
    BY <1>1, <2>1, <2>2 DEF TypeOK, Rest, OnlyNewestActs
  <2>3. CASE d = c /\ exitChan[c]
    BY <1>1, <2>1, <2>3 DEF TypeOK, Rest, OnlyNewestActs
  <2>4. CASE d = c /\ ~exitChan[c]
    <3>1. c <= made
      BY <1>1, ConstantsAssumption DEF TypeOK, Rest, NotYetMade, Client
    <3>2. c = made
      BY <2>1, <2>4, <3>1 DEF TypeOK, Rest, OnlyNewestActs, Client
    <3> QED
      BY <1>1, <2>1, <2>4, <3>2 DEF TypeOK, Rest, OnlyNewestActs
  <2> QED
    BY <2>2, <2>3, <2>4
<1> QED
  BY <1>2, <1>3 DEF Rest

(* Plugin makes the first client, or none. *)
LEMMA PluginStep ==
  ASSUME TypeOK, Rest, PluginConnects \/ PluginFails
  PROVE  Rest'
<1>1. CASE PluginConnects
  <2>1. /\ UNCHANGED <<proc, exitChan, cleanChan, exitSig, lateSend>>
        /\ attempts > 0 /\ attempts' = 0 /\ made' = made + 1
        /\ watch' = [watch EXCEPT ![made + 1] = "select"]
        /\ recv' = [recv EXCEPT ![made + 1] = "select"]
    BY <1>1, ConstantsAssumption DEF PluginConnects, newClient, chanVars
  <2>2. made = 0 /\ ~cleanChan /\ made' = 1
    BY <2>1 DEF Rest, Connecting
  <2>3. \A d \in Client : d > 1 => d > made /\ watch'[d] = "none" /\ recv'[d] = "none"
    BY <2>1, <2>2, ConstantsAssumption DEF TypeOK, Rest, NotYetMade, Client
  <2>4. \A d \in Client : /\ d \in Nat /\ d >= 1 /\ ~exitChan[d]
                          /\ d = 1 => watch'[d] = "select"
    BY <2>1, <2>2, ConstantsAssumption DEF TypeOK, Rest, NotYetMade, Client
  <2>5. NotYetMade' /\ Connecting' /\ OpenIsWatched'
    BY <2>1, <2>2, <2>3, <2>4 DEF NotYetMade, Connecting, OpenIsWatched, Live
  <2>6. OnlyNewestActs'
    BY <2>1, <2>2, <2>3, <2>4 DEF OnlyNewestActs
  <2>7. CleanedUp'
    BY <2>1, <2>2, <2>3, <2>4 DEF Rest, CleanedUp, Live
  <2> QED
    BY <2>5, <2>6, <2>7 DEF Rest
<1>2. CASE PluginFails
  <2>1. /\ UNCHANGED <<made, exitChan, exitSig, watch, recv, lateSend>>
        /\ attempts > 0 /\ proc' = proc
        /\ attempts' > 0 => cleanChan' = cleanChan
        /\ cleanChan => cleanChan'
    BY <1>2, ConstantsAssumption
    DEF PluginFails, CloseCleanChan, goVars, TypeOK, Rest, Connecting
  <2>2. made = 0 /\ ~cleanChan
    BY <2>1 DEF Rest, Connecting
  <2>3. \A d \in Client : /\ d \in Nat /\ d > 0 /\ d > made /\ ~(d <= made) /\ ~(d < made)
                          /\ watch[d] = "none" /\ recv[d] = "none" /\ ~exitChan[d]
    BY <2>2, ConstantsAssumption DEF TypeOK, Rest, NotYetMade, Client
  <2>4. NotYetMade' /\ Connecting' /\ OpenIsWatched'
    <3>1. NotYetMade'
      BY <2>1, <2>3 DEF NotYetMade
    <3>2. Connecting'
      BY <2>1, <2>2 DEF Connecting
    <3>3. OpenIsWatched'
      BY <2>1, <2>3 DEF OpenIsWatched, Live
    <3> QED
      BY <3>1, <3>2, <3>3
  <2>5. OnlyNewestActs'
    BY <2>1, <2>2, <2>3 DEF OnlyNewestActs
  <2>6. CleanedUp'
    <3>1. \A d \in Client : ~Live(d)' /\ watch'[d] = "none"
      BY <2>1, <2>2, <2>3, ConstantsAssumption DEF Live, Client
    <3> QED
      BY <2>1, <2>2, <3>1 DEF Rest, CleanedUp
  <2> QED
    BY <2>4, <2>5, <2>6 DEF Rest
<1> QED
  BY <1>1, <1>2

(* watch closes its client, replaces it, or gives up. *)
LEMMA WatchStep ==
  ASSUME TypeOK, Rest, NEW c \in Client, proc = "up",
         \/ WatchCloses(c) \/ WatchRenews(c) \/ WatchGivesUp(c)
         \/ WatchTakesSignal(c) \/ WatchCleans(c)
  PROVE  Rest'
<1>0. c <= made
  BY DEF WatchCloses, WatchRenews, WatchGivesUp, WatchTakesSignal, WatchCleans,
         TypeOK, Rest, NotYetMade, Connecting, OpenIsWatched, OnlyNewestActs,
              CleanedUp, Live, Client
<1>n. c \in Nat /\ c > 0 /\ made \in Nat
  BY ConstantsAssumption DEF Client, TypeOK
<1>1. CASE WatchCloses(c)
  <2>1. /\ UNCHANGED <<attempts, made, recv, lateSend>>
        /\ watch[c] = "close" /\ watch' = [watch EXCEPT ![c] = "dial"]
        /\ exitChan' = [exitChan EXCEPT ![c] = TRUE]
        /\ exitSig' = exitSig
        /\ cleanChan' = cleanChan /\ proc' = proc
    BY <1>1 DEF WatchCloses, closeProxyClient
  <2>2. NotYetMade'
    BY <1>0, <2>1 DEF Rest, TypeOK, NotYetMade, Client
  <2>3. Connecting'
    BY <1>0, <2>1, <1>n DEF Rest, TypeOK, Connecting
  <2>4. OpenIsWatched'
    BY <2>1 DEF Rest, TypeOK, OpenIsWatched, CleanedUp, Live
  <2>5. OnlyNewestActs'
    BY <2>1 DEF Rest, TypeOK, OnlyNewestActs, CleanedUp
  <2>6. CleanedUp'
    <3>1. exitChan'[c] /\ watch'[c] = "dial" /\ ~Live(c)'
      BY <2>1 DEF TypeOK, Live
    <3>2. \A d \in Client \ {c} : /\ exitChan'[d] = exitChan[d] /\ watch'[d] = watch[d]
                                /\ Live(d)' <=> Live(d)
      BY <2>1 DEF TypeOK, Live
    <3>3. lateSend = {} /\ cleanChan => exitSig = "taken"
      BY <1>0, <2>1 DEF Rest, CleanedUp, OnlyNewestActs, Live
    <3> QED
      BY <2>1, <3>1, <3>2, <3>3 DEF Rest, CleanedUp
  <2> QED
    BY <2>2, <2>3, <2>4, <2>5, <2>6 DEF Rest
<1>2. CASE WatchRenews(c)
  <2>1. made + 1 \in Client /\ made' = made + 1 /\ made + 1 # c
    <3>1. made < MaxClients /\ made' = made + 1
      BY <1>2 DEF WatchRenews, newClient
    <3> QED
      BY <1>0, <1>n, <3>1, ConstantsAssumption DEF Client
  <2>2. /\ UNCHANGED <<proc, attempts, exitChan, cleanChan, exitSig, lateSend>>
        /\ watch[c] = "dial" /\ watch'[c] = "select" /\ recv'[c] = recv[c]
        /\ watch'[made + 1] = "select" /\ recv'[made + 1] = "select"
        /\ \A d \in Client \ {c, made + 1} : watch'[d] = watch[d] /\ recv'[d] = recv[d]
    BY <1>2, <2>1 DEF WatchRenews, newClient, chanVars, TypeOK
  <2>3. ~exitChan[made + 1] /\ made \in Nat /\ Client \subseteq Nat
    BY <2>1, ConstantsAssumption DEF Rest, NotYetMade, TypeOK, Client
  <2>4. attempts = 0 /\ made > 0
    BY <1>0, <2>3, ConstantsAssumption DEF Rest, Connecting, TypeOK, Client
  <2>5. NotYetMade' /\ Connecting' /\ OpenIsWatched'
    <3>1. NotYetMade'
      BY <1>0, <2>1, <2>2, <2>3 DEF Rest, NotYetMade
    <3>2. Connecting'
      BY <2>2, <2>4 DEF Connecting
    <3>3. OpenIsWatched'
      <4> SUFFICES ASSUME NEW d \in Client, d <= made', ~exitChan[d]
                   PROVE  watch'[d] \in {"select", "second", "close"}
        BY <2>2 DEF OpenIsWatched, Live
      <4>1. CASE d = c \/ d = made + 1
        BY <2>2, <4>1
      <4>2. CASE d \in Client \ {c, made + 1}
        BY <2>1, <2>2, <2>3, <4>2 DEF Rest, OpenIsWatched, Live
      <4> QED
        BY <4>1, <4>2
    <3> QED
      BY <3>1, <3>2, <3>3
  <2>6. OnlyNewestActs'
    <3> SUFFICES ASSUME lateSend = {}, NEW d \in Client
                 PROVE  /\ d < made' => exitChan[d]
                        /\ watch'[d] = "second" /\ exitChan[d] => recv'[d] \in {"select", "end"}
                        /\ watch'[d] \in {"close", "dial"} => d = made'
                        /\ watch'[d] = "close" => ~exitChan[d]
      BY <2>2 DEF OnlyNewestActs
    <3>1. c = made /\ exitChan[c]
      BY <2>2 DEF Rest, OnlyNewestActs, CleanedUp
    <3>2. CASE d = c \/ d = made + 1
      BY <2>1, <2>2, <2>3, <3>1, <3>2
    <3>3. CASE d \in Client \ {c, made + 1}
      BY <2>1, <2>2, <2>3, <3>1, <3>3 DEF Rest, OnlyNewestActs
    <3> QED
      BY <3>2, <3>3
  <2>7. CleanedUp'
    <3>1. \A d \in Client : watch'[d] \in {"dial", "clean"} =>
            exitChan[d] /\ (watch'[d] = "clean" => exitSig = "taken")
      BY <2>2 DEF Rest, CleanedUp
    <3>2. ASSUME cleanChan, lateSend = {}, NEW d \in Client
          PROVE  Live(d)' \/ watch'[d] = "dial" =>
                   exitSig = "taken" /\ (Live(d)' => d > 1)
      <4>1. exitSig = "taken"
        BY <2>2, <3>2 DEF Rest, CleanedUp
      <4>2. CASE d \in Client \ {c, made + 1}
        BY <2>1, <2>2, <2>3, <3>2, <4>1, <4>2 DEF Rest, CleanedUp, Live
      <4>3. CASE d = c \/ d = made + 1
        BY <2>1, <2>2, <2>3, <2>4, <3>2, <4>1, <4>3 DEF Rest, CleanedUp, Live
      <4> QED
        BY <4>2, <4>3
    <3>3. (proc = "exited" => cleanChan)'
      BY <2>2 DEF Rest, CleanedUp
    <3> QED
      BY <2>2, <3>1, <3>2, <3>3 DEF CleanedUp
  <2> QED
    BY <2>5, <2>6, <2>7 DEF Rest
<1>3. CASE WatchGivesUp(c)
  <2>1. /\ UNCHANGED <<attempts, made, recv, lateSend>>
        /\ watch[c] = "dial" /\ watch' = [watch EXCEPT ![c] = "select"]
        /\ exitChan' = exitChan
        /\ exitSig' = exitSig
        /\ cleanChan' = TRUE /\ proc' \in {"up", "panicked"}
    BY <1>3 DEF WatchGivesUp, CloseCleanChan
  <2>2. NotYetMade'
    BY <1>0, <2>1 DEF Rest, TypeOK, NotYetMade, Client
  <2>3. Connecting'
    BY <1>0, <2>1, <1>n DEF Rest, TypeOK, Connecting
  <2>4. OpenIsWatched'
    BY <2>1 DEF Rest, TypeOK, OpenIsWatched, CleanedUp, Live
  <2>5. OnlyNewestActs'
    BY <2>1 DEF Rest, TypeOK, OnlyNewestActs, CleanedUp
  <2>6. CleanedUp'
    BY <2>1, <1>n DEF Rest, TypeOK, CleanedUp, OnlyNewestActs, NotYetMade, Live
  <2> QED
    BY <2>2, <2>3, <2>4, <2>5, <2>6 DEF Rest
<1>4. CASE WatchTakesSignal(c)
  <2>1. /\ UNCHANGED <<attempts, made, recv, lateSend>>
        /\ watch[c] = "select" /\ watch' = [watch EXCEPT ![c] = "clean"]
        /\ exitChan' = [exitChan EXCEPT ![c] = TRUE]
        /\ exitSig' = "taken"
        /\ cleanChan' = cleanChan /\ proc' = proc
    BY <1>4 DEF WatchTakesSignal, closeProxyClient
  <2>2. NotYetMade'
    BY <1>0, <2>1 DEF Rest, TypeOK, NotYetMade, Client
  <2>3. Connecting'
    BY <1>0, <2>1, <1>n DEF Rest, TypeOK, Connecting
  <2>4. OpenIsWatched'
    BY <2>1 DEF Rest, TypeOK, OpenIsWatched, CleanedUp, Live
  <2>5. OnlyNewestActs'
    BY <2>1 DEF Rest, TypeOK, OnlyNewestActs, CleanedUp
  <2>6. CleanedUp'
    BY <2>1, <1>n DEF Rest, TypeOK, CleanedUp, OnlyNewestActs, NotYetMade, Live
  <2> QED
    BY <2>2, <2>3, <2>4, <2>5, <2>6 DEF Rest
<1>5. CASE WatchCleans(c)
  <2>1. /\ UNCHANGED <<attempts, made, recv, lateSend>>
        /\ watch[c] = "clean" /\ watch' = [watch EXCEPT ![c] = "end"]
        /\ exitChan' = exitChan
        /\ exitSig' = exitSig
        /\ cleanChan' = TRUE /\ proc' \in {"up", "panicked"}
    BY <1>5 DEF WatchCleans, CloseCleanChan
  <2>2. NotYetMade'
    BY <1>0, <2>1 DEF Rest, TypeOK, NotYetMade, Client
  <2>3. Connecting'
    BY <1>0, <2>1, <1>n DEF Rest, TypeOK, Connecting
  <2>4. OpenIsWatched'
    BY <2>1 DEF Rest, TypeOK, OpenIsWatched, CleanedUp, Live
  <2>5. OnlyNewestActs'
    BY <2>1 DEF Rest, TypeOK, OnlyNewestActs, CleanedUp
  <2>6. CleanedUp'
    BY <2>1, <1>n DEF Rest, TypeOK, CleanedUp, OnlyNewestActs, NotYetMade, Live
  <2> QED
    BY <2>2, <2>3, <2>4, <2>5, <2>6 DEF Rest
<1> QED
  BY <1>1, <1>2, <1>3, <1>4, <1>5

LEMMA NextRest == TypeOK /\ Rest /\ [Next]_vars => Rest'
<1> SUFFICES ASSUME TypeOK, Rest, [Next]_vars PROVE Rest'
  OBVIOUS
<1>1. CASE MainReturns \/ Signal
  BY <1>1, QuietStep DEF MainReturns, Signal, chanVars, goVars
<1>2. ASSUME NEW c \in Client, NEW r \in Req, ProxyAsks(c, r) PROVE Rest'
  BY <1>2, QuietStep DEF ProxyAsks, chanVars, goVars
<1>3. ASSUME NEW c \in Client, RegisterSelects(c) \/ RegisterPuts(c) \/ Breaks(c)
      PROVE  Rest'
  BY <1>3, QuietStep DEF RegisterSelects, RegisterPuts, Breaks, chanVars, goVars
<1>4. ASSUME NEW c \in Client, SendExits(c) \/ SendTakes(c) PROVE Rest'
  BY <1>4, QuietStep DEF SendExits, SendTakes, chanVars
<1>5. ASSUME NEW r \in Req, HandlerRuns(r) \/ HandlerAnswers(r) PROVE Rest'
  BY <1>5, QuietStep DEF HandlerRuns, HandlerAnswers, chanVars, goVars
<1>6. CASE UNCHANGED vars
  BY <1>6, QuietStep DEF vars, chanVars, goVars
<1> QED
  BY <1>1, <1>2, <1>3, <1>4, <1>5, <1>6, NextCases, PluginStep, WatchStep, RecvStep, ReportStep

-----------------------------------------------------------------------------
(* Inv holds in every state: of a replaced client only send can still make  *)
(* watch connect again.                                                     *)
THEOREM Invariance == Spec => []Inv
<1>1. Init => TypeOK /\ Rest
  BY InitTypeOK, InitRest
<1>2. TypeOK /\ Rest /\ [Next]_vars => (TypeOK /\ Rest)'
  BY NextTypeOK, NextRest
<1>3. TypeOK /\ Rest => Inv
  BY DEF Inv, Rest
<1> QED
  BY <1>1, <1>2, <1>3, PTL DEF Spec

(* Type correctness. *)
THEOREM TypeCorrect == Spec => []TypeOK
<1>1. Inv => TypeOK
  BY DEF Inv
<1> QED
  BY <1>1, Invariance, PTL

(* Reconnecting replaces a client, and only a late report of send adds one. *)
THEOREM AtMostOneClient == Spec => []OneClient
<1>1. Inv => OneClient
  BY ConstantsAssumption
  DEF Inv, TypeOK, OneClient, OnlyNewestActs, Live, Client
<1> QED
  BY <1>1, Invariance, PTL

(* A client that is not closed has a watch. *)
THEOREM LiveIsWatched == Spec => []Watched
<1>1. Inv => Watched
  BY DEF Inv, OpenIsWatched, Watched
<1> QED
  BY <1>1, Invariance, PTL

(* An orderly end leaves no stream open, but for a signal that went to the  *)
(* watch of a replaced client.                                              *)
THEOREM GracefulStop == Spec => []StopsGracefully
<1>1. Inv => StopsGracefully
  BY DEF Inv, CleanedUp, StopsGracefully
<1> QED
  BY <1>1, Invariance, PTL

-----------------------------------------------------------------------------
(* The answers.                                                             *)

Waits(c, i, r) == i \in 1 .. Len(sendChannel[c]) /\ sendChannel[c][i] = r

(* An answer waits in one place, in the channel of the client its request   *)
(* came to.                                                                 *)
AnswersWait ==
  /\ \A r \in Req : rpc[r] # "none" => via[r] \in Client
  /\ \A c \in Client, i \in Nat, r \in Req : Waits(c, i, r) => rpc[r] = "queued" /\ via[r] = c
  /\ \A c \in Client, i, j \in Nat, r \in Req : Waits(c, i, r) /\ Waits(c, j, r) => i = j
  /\ \A r \in Req : rpc[r] = "queued" => \E c \in Client, i \in Nat : Waits(c, i, r)

(* What is done with a request is done: it keeps to its client, is answered *)
(* or lost once, and is answered only there, while the stream is up.        *)
AnswerStands(r) ==
  /\ rpc[r] # "none" => via'[r] = via[r] /\ rpc'[r] # "none"
  /\ rpc[r] \in {"answered", "lost"} => rpc'[r] = rpc[r]
  /\ rpc'[r] = "answered" /\ rpc[r] # "answered" => rpc[r] = "queued" /\ stream[via[r]] = "up"
AnswersStand == [][\A r \in Req : AnswerStands(r)]_vars

LEMMA AnswerSteps ==
  ASSUME [Next]_vars
  PROVE  \/ UNCHANGED <<rpc, via, sendChannel>>
         \/ \E c \in Client, r \in Req : ProxyAsks(c, r) \/ RecvRequest(c, r)
         \/ \E r \in Req : HandlerRuns(r) \/ HandlerAnswers(r)
         \/ \E c \in Client : RegisterPuts(c) \/ SendTakes(c)
<1>1. CASE UNCHANGED vars
  BY <1>1 DEF vars, chanVars
<1>2. CASE PluginConnects \/ PluginFails \/ MainReturns \/ Signal
  BY <1>2 DEF PluginConnects, PluginFails, MainReturns, Signal, chanVars
<1>3. CASE \E c \in Client : \/ WatchCloses(c) \/ WatchRenews(c) \/ WatchGivesUp(c)
                             \/ WatchTakesSignal(c) \/ WatchCleans(c)
  BY <1>3 DEF WatchCloses, WatchRenews, WatchGivesUp, WatchTakesSignal, WatchCleans, chanVars
<1>4. CASE \E c \in Client : RecvReports(c) \/ SendReports(c)
  BY <1>4 DEF RecvReports, SendReports, chanVars
<1>5. CASE \E c \in Client : RecvSelects(c) \/ RecvFails(c) \/ RecvFailsOtherwise(c)
  BY <1>5 DEF RecvSelects, RecvFails, RecvFailsOtherwise, chanVars
<1>6. CASE \E c \in Client : RegisterSelects(c) \/ SendExits(c) \/ Breaks(c)
  BY <1>6 DEF RegisterSelects, SendExits, Breaks, chanVars
<1> QED
  BY <1>1, <1>2, <1>3, <1>4, <1>5, <1>6, NextCases

(* What is put into a channel waits behind the rest. *)
LEMMA PutsWaits ==
  ASSUME TypeOK, NEW c \in Client, NEW x \in Req \cup {"coin"}, Puts(c, x),
         NEW d \in Client, NEW i \in Nat, NEW r \in Req
  PROVE  Waits(d, i, r)' <=> \/ Waits(d, i, r)
                             \/ d = c /\ i = Len(sendChannel[c]) + 1 /\ r = x
<1> DEFINE s == sendChannel[c]
<1>1. s \in Seq(Req \cup {"coin"}) /\ sendChannel \in [Client -> Seq(Req \cup {"coin"})]
  BY DEF TypeOK
<1>2. sendChannel' = [sendChannel EXCEPT ![c] = Append(s, x)]
  BY DEF Puts
<1>3. CASE d # c
  BY <1>1, <1>2, <1>3 DEF Waits
<1>4. CASE d = c
  <2>1. sendChannel'[d] = Append(s, x)
    BY <1>1, <1>2, <1>4
  <2>2. /\ Len(Append(s, x)) = Len(s) + 1 /\ Len(s) \in Nat
        /\ \A k \in 1 .. Len(s) : Append(s, x)[k] = s[k]
        /\ Append(s, x)[Len(s) + 1] = x
    BY <1>1
  <2> HIDE DEF s
  <2>3. Waits(d, i, r)' <=> i \in 1 .. Len(s) + 1 /\ Append(s, x)[i] = r
    BY <2>1, <2>2 DEF Waits
  <2>4. Waits(d, i, r) <=> i \in 1 .. Len(s) /\ s[i] = r
    BY <1>4 DEF Waits, s
  <2>5. CASE i \in 1 .. Len(s)
    BY <1>4, <2>2, <2>3, <2>4, <2>5 DEF s
  <2>6. CASE i = Len(s) + 1
    BY <1>4, <2>2, <2>3, <2>4, <2>6 DEF s
  <2>7. CASE i \notin 1 .. Len(s) + 1
    BY <1>4, <2>2, <2>3, <2>4, <2>7 DEF s
  <2> QED
    BY <2>2, <2>5, <2>6, <2>7
<1> QED
  BY <1>3, <1>4

(* What send takes was the first, and the rest moves up. *)
LEMMA TakesWaits ==
  ASSUME TypeOK, NEW c \in Client, sendChannel[c] # <<>>,
         sendChannel' = [sendChannel EXCEPT ![c] = Tail(@)],
         NEW d \in Client, NEW i \in Nat, NEW r \in Req
  PROVE  /\ Waits(d, i, r)' <=> IF d = c THEN i > 0 /\ Waits(d, i + 1, r) ELSE Waits(d, i, r)
         /\ Waits(c, 1, r) <=> r = Head(sendChannel[c])
<1> DEFINE s == sendChannel[c]
<1>1. s \in Seq(Req \cup {"coin"}) /\ sendChannel \in [Client -> Seq(Req \cup {"coin"})]
  BY DEF TypeOK
<1>2. /\ Len(s) \in Nat /\ Len(s) > 0 /\ Head(s) = s[1]
      /\ Len(Tail(s)) = Len(s) - 1
      /\ \A k \in 1 .. Len(s) - 1 : Tail(s)[k] = s[k + 1]
  BY <1>1
<1>3. Waits(c, 1, r) <=> r = Head(sendChannel[c])
  BY <1>2 DEF Waits
<1>4. CASE d # c
  BY <1>1, <1>3, <1>4 DEF Waits
<1>5. CASE d = c
  <2>1. sendChannel'[d] = Tail(s)
    BY <1>1, <1>5
  <2> HIDE DEF s
  <2>2. Waits(d, i, r)' <=> i \in 1 .. Len(s) - 1 /\ Tail(s)[i] = r
    BY <1>2, <2>1 DEF Waits
  <2>3. Waits(d, i + 1, r) <=> i + 1 \in 1 .. Len(s) /\ s[i + 1] = r
    BY <1>5 DEF Waits, s
  <2>4. i \in 1 .. Len(s) - 1 <=> i > 0 /\ i + 1 \in 1 .. Len(s)
    BY <1>2
  <2> QED
    BY <1>2, <1>3, <1>5, <2>2, <2>3, <2>4
<1> QED
  BY <1>4, <1>5

LEMMA NextAnswers ==
  ASSUME TypeOK, AnswersWait, [Next]_vars
  PROVE  AnswersWait' /\ \A r \in Req : AnswerStands(r)
<1>1. CASE UNCHANGED <<rpc, via, sendChannel>>
  BY <1>1 DEF AnswersWait, AnswerStands, Waits
<1>2. ASSUME NEW c \in Client, NEW r \in Req, ProxyAsks(c, r) \/ RecvRequest(c, r)
      PROVE  AnswersWait' /\ \A q \in Req : AnswerStands(q)
  <2>1. sendChannel' = sendChannel /\ rpc[r] \in {"none", "asked"}
    BY <1>2 DEF ProxyAsks, RecvRequest, chanVars
  <2>2. /\ rpc' = [rpc EXCEPT ![r] = rpc'[r]] /\ rpc'[r] \in {"asked", "running"}
        /\ via'[r] = c /\ \A q \in Req \ {r} : via'[q] = via[q]
        /\ rpc[r] # "none" => via[r] = c
    BY <1>2 DEF ProxyAsks, RecvRequest, TypeOK
  <2>3. \A q \in Req \ {r} : rpc'[q] = rpc[q] /\ via'[q] = via[q]
    BY <2>2 DEF TypeOK
  <2>4. \A d \in Client, i \in Nat, q \in Req : Waits(d, i, q)' <=> Waits(d, i, q)
    BY <2>1 DEF Waits
  <2>5. \A d \in Client, i \in Nat : ~Waits(d, i, r)
    BY <2>1 DEF AnswersWait
  <2>6. AnswersWait'
    BY <2>1, <2>2, <2>3, <2>4, <2>5 DEF AnswersWait
  <2> QED
    BY <2>1, <2>2, <2>3, <2>6 DEF AnswerStands
<1>3. ASSUME NEW r \in Req, HandlerRuns(r)
      PROVE  AnswersWait' /\ \A q \in Req : AnswerStands(q)
  <2>1. /\ sendChannel' = sendChannel /\ via' = via /\ rpc[r] = "running"
        /\ rpc' = rpc \/ rpc' = [rpc EXCEPT ![r] = "handled"]
    BY <1>3 DEF HandlerRuns, chanVars
  <2>2. \A d \in Client, i \in Nat, q \in Req : Waits(d, i, q)' <=> Waits(d, i, q)
    BY <2>1 DEF Waits
  <2>3. \A q \in Req : q # r => rpc'[q] = rpc[q]
    BY <2>1 DEF TypeOK
  <2>4. rpc'[r] \in {"running", "handled"}
    BY <2>1 DEF TypeOK
  <2>5. AnswersWait'
    BY <2>1, <2>2, <2>3, <2>4 DEF AnswersWait, Waits
  <2> QED
    BY <2>1, <2>3, <2>4, <2>5 DEF AnswerStands
<1>4. ASSUME NEW r \in Req, HandlerAnswers(r)
      PROVE  AnswersWait' /\ \A q \in Req : AnswerStands(q)
  <2>1. /\ rpc[r] = "handled" /\ via' = via /\ Puts(via[r], r)
        /\ rpc' = [rpc EXCEPT ![r] = "queued"] /\ via[r] \in Client
    BY <1>4 DEF HandlerAnswers, AnswersWait
  <2>2. \A d \in Client, i \in Nat, q \in Req :
          Waits(d, i, q)' <=> \/ Waits(d, i, q)
                              \/ d = via[r] /\ i = Len(sendChannel[via[r]]) + 1 /\ q = r
    BY <2>1, PutsWaits
  <2>3. rpc'[r] = "queued" /\ \A q \in Req \ {r} : rpc'[q] = rpc[q]
    BY <2>1 DEF TypeOK
  <2>4. \A d \in Client, i \in Nat : ~Waits(d, i, r)
    BY <2>1 DEF AnswersWait
  <2>5. Len(sendChannel[via[r]]) + 1 \in Nat
    BY <2>1 DEF TypeOK
  <2>6. \A q \in Req : rpc'[q] = "queued" => \E d \in Client, i \in Nat : Waits(d, i, q)'
    <3> SUFFICES ASSUME NEW q \in Req, rpc'[q] = "queued"
                 PROVE  \E d \in Client, i \in Nat : Waits(d, i, q)'
      OBVIOUS
    <3>1. CASE q = r
      BY <2>1, <2>2, <2>5, <3>1
    <3>2. CASE q # r
      <4>1. PICK d \in Client, i \in Nat : Waits(d, i, q)
        BY <2>3, <3>2 DEF AnswersWait
      <4> QED
        BY <2>2, <4>1
    <3> QED
      BY <3>1, <3>2
  <2>7. \A d \in Client, i \in Nat, q \in Req : Waits(d, i, q)' => rpc'[q] = "queued" /\ via'[q] = d
    BY <2>1, <2>2, <2>3 DEF AnswersWait
  <2>8. \A d \in Client, i, j \in Nat, q \in Req : Waits(d, i, q)' /\ Waits(d, j, q)' => i = j
    <3> SUFFICES ASSUME NEW d \in Client, NEW i \in Nat, NEW j \in Nat, NEW q \in Req,
                        Waits(d, i, q)', Waits(d, j, q)'
                 PROVE  i = j
      OBVIOUS
    <3>1. CASE q = r
      <4>1. ~Waits(d, i, q) /\ ~Waits(d, j, q)
        BY <2>4, <3>1
      <4> QED
        BY <2>2, <4>1
    <3>2. CASE q # r
      <4>1. Waits(d, i, q) /\ Waits(d, j, q)
        BY <2>2, <3>2
      <4> QED
        BY <4>1 DEF AnswersWait
    <3> QED
      BY <3>1, <3>2
  <2>9. \A q \in Req : rpc'[q] # "none" => via'[q] \in Client
    BY <2>1, <2>3 DEF AnswersWait
  <2>10. AnswersWait'
    BY <2>6, <2>7, <2>8, <2>9 DEF AnswersWait
  <2> QED
    BY <2>1, <2>3, <2>10 DEF AnswerStands
<1>5. ASSUME NEW c \in Client, RegisterPuts(c)
      PROVE  AnswersWait' /\ \A q \in Req : AnswerStands(q)
  <2>1. rpc' = rpc /\ via' = via /\ Puts(c, "coin")
    BY <1>5 DEF RegisterPuts
  <2>2. \A d \in Client, i \in Nat, q \in Req : Waits(d, i, q)' <=> Waits(d, i, q)
    BY <2>1, PutsWaits, ConstantsAssumption
  <2>3. AnswersWait'
    BY <2>1, <2>2 DEF AnswersWait
  <2> QED
    BY <2>1, <2>3 DEF AnswerStands
<1>6. ASSUME NEW c \in Client, SendTakes(c)
      PROVE  AnswersWait' /\ \A q \in Req : AnswerStands(q)
  <2> DEFINE x == Head(sendChannel[c])
  <2>1. /\ sendChannel[c] # <<>> /\ via' = via
        /\ sendChannel' = [sendChannel EXCEPT ![c] = Tail(@)]
        /\ \A q \in Req : rpc'[q] = IF q # x THEN rpc[q]
                                    ELSE IF stream[c] = "up" THEN "answered" ELSE "lost"
    BY <1>6 DEF SendTakes
  <2>2. \A d \in Client, i \in Nat, q \in Req :
          Waits(d, i, q)' <=> IF d = c THEN i > 0 /\ Waits(d, i + 1, q) ELSE Waits(d, i, q)
    BY <2>1, TakesWaits
  <2>3. \A q \in Req : Waits(c, 1, q) <=> q = x
    BY <2>1, TakesWaits
  <2> HIDE DEF x
  <2>4. \A q \in Req : q = x => rpc[q] = "queued" /\ via[q] = c
    BY <2>3 DEF AnswersWait
  <2>5. \A d \in Client, i \in Nat, q \in Req :
          Waits(d, i, q)' => q # x /\ \E j \in Nat : Waits(d, j, q)
    <3> SUFFICES ASSUME NEW d \in Client, NEW i \in Nat, NEW q \in Req, Waits(d, i, q)'
                 PROVE  q # x /\ \E j \in Nat : Waits(d, j, q)
      OBVIOUS
    <3>1. CASE d = c
      BY <2>2, <2>3, <3>1 DEF AnswersWait
    <3>2. CASE d # c
      BY <2>2, <2>4, <3>2 DEF AnswersWait
    <3> QED
      BY <3>1, <3>2
  <2>6. \A d \in Client, i \in Nat, q \in Req :
          Waits(d, i, q)' => rpc'[q] = "queued" /\ via'[q] = d
    BY <2>1, <2>5 DEF AnswersWait
  <2>7. \A d \in Client, i, j \in Nat, q \in Req : Waits(d, i, q)' /\ Waits(d, j, q)' => i = j
    <3> SUFFICES ASSUME NEW d \in Client, NEW i \in Nat, NEW j \in Nat, NEW q \in Req,
                        Waits(d, i, q)', Waits(d, j, q)'
                 PROVE  i = j
      OBVIOUS
    <3>1. CASE d = c
      <4>1. i + 1 = j + 1
        BY <2>2, <3>1 DEF AnswersWait
      <4> QED
        BY <4>1
    <3>2. CASE d # c
      BY <2>2, <3>2 DEF AnswersWait
    <3> QED
      BY <3>1, <3>2
  <2>8. \A q \in Req : rpc'[q] = "queued" => \E d \in Client, i \in Nat : Waits(d, i, q)'
    <3> SUFFICES ASSUME NEW q \in Req, rpc'[q] = "queued"
                 PROVE  \E d \in Client, i \in Nat : Waits(d, i, q)'
      OBVIOUS
    <3>1. q # x /\ rpc[q] = "queued"
      BY <2>1
    <3>2. PICK d \in Client, i \in Nat : Waits(d, i, q)
      BY <3>1 DEF AnswersWait
    <3>3. CASE d = c
      <4>1. i - 1 \in Nat /\ i - 1 > 0 /\ (i - 1) + 1 = i
        <5>1. i # 1 /\ i > 0
          BY <2>3, <3>1, <3>2, <3>3 DEF Waits
        <5> QED
          BY <5>1
      <4>2. Waits(c, (i - 1) + 1, q)
        BY <3>2, <3>3, <4>1
      <4>3. Waits(c, i - 1, q)'
        BY <2>2, <4>1, <4>2
      <4> QED
        BY <4>1, <4>3
    <3>4. CASE d # c
      BY <2>2, <3>2, <3>4
    <3> QED
      BY <3>3, <3>4
  <2>9. \A q \in Req : rpc'[q] # "none" => via'[q] \in Client
    BY <2>1, <2>4 DEF AnswersWait
  <2>10. AnswersWait'
    BY <2>1, <2>6, <2>7, <2>8, <2>9 DEF AnswersWait
  <2> QED
    BY <2>1, <2>4, <2>10 DEF AnswerStands
<1> QED
  BY <1>1, <1>2, <1>3, <1>4, <1>5, <1>6, AnswerSteps

(* A request is answered once at most, on the stream it came by and while   *)
(* that is up (task.go:288-302), though clients are replaced while its      *)
(* handler runs and answers of several streams wait at a time.              *)
THEOREM AnsweredWhereAsked == Spec => AnswersStand
<1>1. Init => AnswersWait
  BY DEF Init, AnswersWait, Waits
<1>2. TypeOK /\ AnswersWait /\ [Next]_vars => AnswersWait' /\ [\A r \in Req : AnswerStands(r)]_vars
  BY NextAnswers
<1> QED
  BY <1>1, <1>2, TypeCorrect, PTL DEF Spec, AnswersStand

=============================================================================
