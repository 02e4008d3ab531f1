--------------------------- MODULE RpcPost_proofs ---------------------------
(* Proofs about RpcPost, for any calls, handlers and capacity.              *)
EXTENDS RpcPost, TLAPS

LEMMA NoneFacts == None \notin Calls /\ None \notin Response
BY ConstantsAssumption DEF None, Response

(* The steps of Next, one by one. *)
LEMMA NextCases ==
  ASSUME Next
  PROVE  \/ \E c \in Calls : SendCmd(c) \/ RequestFails(c) \/ SeesOpen(c)
                             \/ SeesShutdown(c) \/ Enqueue(c) \/ Receive(c)
         \/ \E h \in Handlers : Take(h) \/ Post(h) \/ PutAnswer(h)
                                \/ HandlerStops(h) \/ Drain(h) \/ HandlerEnds(h)
         \/ Shutdown
BY DEF Next, CallStep, HandlerStep

LEMMA InitInv == Init => Inv
<1>. SUFFICES ASSUME Init PROVE Inv
  OBVIOUS
<1>1. TypeOK
  BY DEF Init, TypeOK
<1>2. OnePlace /\ NothingLost /\ HandlersFit
  BY DEF Init, OnePlace, NothingLost, HandlersFit
<1>3. AnsweredOnce
  BY DEF Init, AnsweredOnce, Early
<1>4. AnswersFit
  BY NoneFacts DEF Init, AnswersFit, Early, InHand
<1>. QED  BY <1>1, <1>2, <1>3, <1>4 DEF Inv

LEMMA NextTypeOK ==
  ASSUME Inv, Next
  PROVE  TypeOK'
<1>1. TypeOK
  BY DEF Inv
<1>2. ASSUME NEW c \in Calls, SendCmd(c) \/ SeesOpen(c) \/ Enqueue(c) \/ Receive(c)
      PROVE  TypeOK'
  BY <1>1, <1>2
  DEF TypeOK, SendCmd, SeesOpen, Enqueue, Receive, Move, callerVars, answerVars, handlerVars
<1>3. ASSUME NEW c \in Calls, RequestFails(c) \/ SeesShutdown(c)
      PROVE  TypeOK'
  BY <1>1, <1>3
  DEF TypeOK, RequestFails, SeesShutdown, Respond, Response, Move, handlerVars
<1>4. ASSUME NEW h \in Handlers,
             Take(h) \/ Post(h) \/ HandlerStops(h) \/ Drain(h) \/ HandlerEnds(h)
      PROVE  TypeOK'
  BY <1>1, <1>4
  DEF TypeOK, Take, Post, HandlerStops, Drain, HandlerEnds, Hold, Response, callerVars,
      answerVars, Inv, HandlersFit
<1>5. ASSUME NEW h \in Handlers, PutAnswer(h)
      PROVE  TypeOK'
  <2>1. held[h] \in Calls /\ answer[h] \in Response
    BY <1>1, <1>5 DEF PutAnswer, Inv, HandlersFit, TypeOK
  <2>. QED
    BY <1>1, <1>5, <2>1 DEF TypeOK, PutAnswer, Respond, Hold, callerVars
<1>6. CASE Shutdown
  BY <1>1, <1>6 DEF TypeOK, Shutdown, callerVars, answerVars, handlerVars
<1>. QED
  BY <1>2, <1>3, <1>4, <1>5, <1>6, NextCases

(* What a handler's hand may hold: moving a request from the queue into an  *)
(* empty hand, or letting go of it, keeps it in one place.                  *)
LEMMA NextOnePlace ==
  ASSUME Inv, Next
  PROVE  OnePlace'
<1>1. TypeOK /\ OnePlace /\ AnswersFit /\ HandlersFit
  BY DEF Inv
<1>2. ASSUME NEW c \in Calls, Enqueue(c)
      PROVE  OnePlace'
  <2>1. ~InHand(c)
    BY <1>1, <1>2 DEF Enqueue, Move, AnswersFit
  <2>. QED
    BY <1>1, <1>2, <2>1 DEF OnePlace, InHand, Enqueue, handlerVars
<1>3. ASSUME NEW h \in Handlers, Take(h) \/ Drain(h)
      PROVE  OnePlace'
  <2>1. PICK c \in queue : /\ held' = [held EXCEPT ![h] = c]
                           /\ queue' = queue \ {c}
    BY <1>3 DEF Take, Drain, Hold
  <2>. QED
    BY <1>1, <2>1, NoneFacts DEF OnePlace, InHand, TypeOK
<1>4. ASSUME NEW h \in Handlers, HandlerStops(h) \/ HandlerEnds(h) \/ PutAnswer(h)
      PROVE  OnePlace'
  <2>1. held' = [held EXCEPT ![h] = None] /\ queue' = queue
    BY <1>4 DEF HandlerStops, HandlerEnds, PutAnswer, Hold
  <2>. QED
    BY <1>1, <2>1, NoneFacts DEF OnePlace, InHand, TypeOK
<1>5. CASE UNCHANGED <<held, queue>>
  BY <1>1, <1>5 DEF OnePlace, InHand
<1>6. ASSUME NEW h \in Handlers, Post(h)
      PROVE  UNCHANGED <<held, queue>>
  BY <1>1, <1>6 DEF Post, Hold, TypeOK
<1>7. \/ UNCHANGED <<held, queue>>
      \/ \E c \in Calls : Enqueue(c)
      \/ \E h \in Handlers : Take(h) \/ Drain(h)
      \/ \E h \in Handlers : HandlerStops(h) \/ HandlerEnds(h) \/ PutAnswer(h)
  BY <1>6, NextCases
  DEF SendCmd, RequestFails, SeesOpen, SeesShutdown, Receive, Shutdown, handlerVars
<1>. QED  BY <1>2, <1>3, <1>4, <1>5, <1>7

(* A request leaves the queue only for a hand, and a hand only answered.    *)
LEMMA NextNothingLost ==
  ASSUME Inv, Next
  PROVE  NothingLost'
<1>1. TypeOK /\ NothingLost /\ HandlersFit
  BY DEF Inv
<1>2. ASSUME NEW h \in Handlers, Take(h) \/ Drain(h)
      PROVE  NothingLost'
  <2>1. PICK c \in queue : /\ held' = [held EXCEPT ![h] = c]
                           /\ queue' = queue \ {c}
    BY <1>2 DEF Take, Drain, Hold
  <2>2. held[h] = None /\ UNCHANGED <<pc, given>>
    BY <1>1, <1>2 DEF Take, Drain, HandlersFit, callerVars, answerVars
  <2>3. \A d \in Calls : InHand(d) => InHand(d)'
    BY <1>1, <2>1, <2>2, NoneFacts DEF InHand, TypeOK
  <2>4. InHand(c)'
    BY <1>1, <2>1 DEF InHand, TypeOK
  <2>. QED
    BY <1>1, <2>1, <2>2, <2>3, <2>4 DEF NothingLost
<1>3. ASSUME NEW h \in Handlers, HandlerStops(h) \/ HandlerEnds(h)
      PROVE  NothingLost'
  <2>1. /\ held' = [held EXCEPT ![h] = None]
        /\ UNCHANGED <<pc, given, queue>> /\ held[h] = None
    BY <1>1, <1>3
    DEF HandlerStops, HandlerEnds, Hold, HandlersFit, callerVars, answerVars
  <2>2. \A d \in Calls : InHand(d) => InHand(d)'
    BY <1>1, <2>1, NoneFacts DEF InHand, TypeOK
  <2>. QED
    BY <1>1, <2>1, <2>2 DEF NothingLost
<1>4. ASSUME NEW h \in Handlers, PutAnswer(h)
      PROVE  NothingLost'
  <2>1. /\ held' = [held EXCEPT ![h] = None]
        /\ UNCHANGED <<pc, queue>>
        /\ given' = [given EXCEPT ![held[h]] = @ + 1] /\ held[h] \in Calls
    BY <1>1, <1>4 DEF PutAnswer, Respond, Hold, HandlersFit, callerVars, TypeOK
  <2>2. \A d \in Calls : given'[d] = 0 => d # held[h] /\ given[d] = 0
    BY <1>1, <2>1 DEF TypeOK
  <2>3. \A d \in Calls : InHand(d) /\ d # held[h] => InHand(d)'
    BY <1>1, <2>1 DEF InHand, TypeOK
  <2>. QED
    BY <1>1, <2>1, <2>2, <2>3 DEF NothingLost
<1>5. ASSUME NEW c \in Calls,
             SendCmd(c) \/ RequestFails(c) \/ SeesOpen(c) \/ SeesShutdown(c) \/ Receive(c)
      PROVE  NothingLost'
  <2>1. UNCHANGED <<held, queue>>
    BY <1>5 DEF SendCmd, RequestFails, SeesOpen, SeesShutdown, Receive, handlerVars
  <2>2. \A d \in Calls : pc'[d] = "waiting" /\ given'[d] = 0 => pc[d] = "waiting" /\ given[d] = 0
    BY <1>1, <1>5
    DEF SendCmd, RequestFails, SeesOpen, SeesShutdown, Receive, Move, Respond, TypeOK, answerVars
  <2>. QED
    BY <1>1, <2>1, <2>2 DEF NothingLost, InHand
<1>6. ASSUME NEW c \in Calls, Enqueue(c)
      PROVE  NothingLost'
  <2>1. /\ pc' = [pc EXCEPT ![c] = "waiting"] /\ queue' = queue \cup {c}
        /\ UNCHANGED <<held, given>>
    BY <1>6 DEF Enqueue, Move, handlerVars, answerVars
  <2>. QED
    BY <1>1, <2>1 DEF NothingLost, InHand, TypeOK
<1>7. ASSUME NEW h \in Handlers, Post(h)
      PROVE  NothingLost'
  BY <1>1, <1>7 DEF Post, Hold, NothingLost, InHand, TypeOK, callerVars, answerVars
<1>8. CASE Shutdown
  BY <1>1, <1>8 DEF Shutdown, NothingLost, InHand, callerVars, answerVars, handlerVars
<1>. QED
  BY <1>2, <1>3, <1>4, <1>5, <1>6, <1>7, <1>8, NextCases

LEMMA NextHandlersFit ==
  ASSUME Inv, Next
  PROVE  HandlersFit'
<1>1. TypeOK /\ HandlersFit
  BY DEF Inv
<1>2. ASSUME NEW h \in Handlers,
             Take(h) \/ Post(h) \/ PutAnswer(h) \/ HandlerStops(h) \/ Drain(h) \/ HandlerEnds(h)
      PROVE  HandlersFit'
  BY <1>1, <1>2, NoneFacts
  DEF HandlersFit, TypeOK, Take, Post, PutAnswer, HandlerStops, Drain, HandlerEnds, Hold,
      Response
<1>3. CASE UNCHANGED handlerVars /\ (shutdown => shutdown')
  BY <1>1, <1>3 DEF HandlersFit, handlerVars
<1>4. \/ UNCHANGED handlerVars /\ (shutdown => shutdown')
      \/ \E h \in Handlers : Take(h) \/ Post(h) \/ PutAnswer(h)
                             \/ HandlerStops(h) \/ Drain(h) \/ HandlerEnds(h)
  BY NextCases DEF SendCmd, RequestFails, SeesOpen, SeesShutdown, Enqueue, Receive, Shutdown
<1>. QED  BY <1>2, <1>3, <1>4

(* Who puts an answer: nobody has answered the call before, but for         *)
(* sendPostRequest when the client is shutting down.                        *)
LEMMA NextAnswers ==
  ASSUME Inv, Next
  PROVE  AnswersFit' /\ AnsweredOnce'
<1>1. TypeOK /\ AnswersFit /\ AnsweredOnce /\ HandlersFit
  BY DEF Inv
<1>2. ASSUME NEW c \in Calls, SendCmd(c) \/ SeesOpen(c)
      PROVE  AnswersFit' /\ AnsweredOnce'
  BY <1>1, <1>2
  DEF AnswersFit, AnsweredOnce, Early, InHand, TypeOK, SendCmd, SeesOpen, Move,
      answerVars, handlerVars
<1>3. ASSUME NEW c \in Calls, RequestFails(c)
      PROVE  AnswersFit' /\ AnsweredOnce'
  BY <1>1, <1>3
  DEF AnswersFit, AnsweredOnce, Early, InHand, TypeOK, RequestFails, Move, Respond,
      handlerVars
<1>4. ASSUME NEW c \in Calls, SeesShutdown(c)
      PROVE  AnswersFit' /\ AnsweredOnce'
  BY <1>1, <1>4
  DEF AnswersFit, AnsweredOnce, Early, InHand, TypeOK, SeesShutdown, Move, Respond,
      handlerVars
<1>5. ASSUME NEW c \in Calls, Enqueue(c) \/ Receive(c)
      PROVE  AnswersFit' /\ AnsweredOnce'
  BY <1>1, <1>5
  DEF AnswersFit, AnsweredOnce, Early, InHand, TypeOK, Enqueue, Receive, Move,
      answerVars, handlerVars
<1>6. ASSUME NEW h \in Handlers, Take(h) \/ Drain(h)
      PROVE  AnswersFit' /\ AnsweredOnce'
  <2>1. PICK c \in queue : /\ held' = [held EXCEPT ![h] = c]
                           /\ queue' = queue \ {c}
    BY <1>6 DEF Take, Drain, Hold
  <2>2. UNCHANGED <<pc, refused, slot, given>>
    BY <1>6 DEF Take, Drain, callerVars, answerVars
  <2>3. \A d \in Calls : d \in queue' \/ InHand(d)' => d \in queue \/ InHand(d)
    BY <1>1, <2>1 DEF InHand, TypeOK
  <2>. QED
    BY <1>1, <2>2, <2>3 DEF AnswersFit, AnsweredOnce, Early
<1>7. ASSUME NEW h \in Handlers, HandlerStops(h) \/ HandlerEnds(h) \/ Post(h)
      PROVE  AnswersFit' /\ AnsweredOnce'
  <2>1. UNCHANGED <<pc, refused, slot, given, queue>>
    BY <1>7 DEF HandlerStops, HandlerEnds, Post, callerVars, answerVars
  <2>2. \A d \in Calls : InHand(d)' => InHand(d)
    BY <1>1, <1>7, NoneFacts DEF HandlerStops, HandlerEnds, Post, Hold, InHand, TypeOK
  <2>. QED
    BY <1>1, <2>1, <2>2 DEF AnswersFit, AnsweredOnce, Early
<1>8. ASSUME NEW h \in Handlers, PutAnswer(h)
      PROVE  AnswersFit' /\ AnsweredOnce'
  <2>. PICK c \in Calls : c = held[h]
    BY <1>1, <1>8 DEF PutAnswer, HandlersFit, TypeOK
  <2>1. /\ InHand(c)
        /\ given[c] = Early(c)
        /\ pc[c] \notin {"idle", "checking", "sending"}
    BY <1>1, <1>8 DEF PutAnswer, HandlersFit, TypeOK, InHand, AnswersFit
  <2>2. /\ slot' = [slot EXCEPT ![c] = answer[h]]
        /\ given' = [given EXCEPT ![c] = @ + 1]
        /\ held' = [held EXCEPT ![h] = None]
        /\ UNCHANGED <<pc, refused, queue>>
    BY <1>8 DEF PutAnswer, Respond, Hold, callerVars
  <2>3. c \notin queue /\ ~InHand(c)'
    <3>1. c \notin queue
      BY <2>1 DEF Inv, OnePlace
    <3>2. \A k \in Handlers : held'[k] # c
      BY <1>1, <2>1, <2>2, NoneFacts DEF Inv, OnePlace, TypeOK
    <3>. QED  BY <3>1, <3>2 DEF InHand
  <2>4. \A d \in Calls : InHand(d)' => InHand(d)
    BY <1>1, <2>2, NoneFacts DEF InHand, TypeOK
  <2>5. \A d \in Calls : given'[d] = IF d = c THEN given[d] + 1 ELSE given[d]
    BY <1>1, <2>1, <2>2 DEF TypeOK
  <2>6. \A d \in Calls : Early(d)' = Early(d) /\ (d # c => slot'[d] = slot[d])
    BY <1>1, <2>1, <2>2 DEF Early, TypeOK
  <2>7. AnsweredOnce'
    BY <1>1, <2>1, <2>5, <2>6 DEF AnsweredOnce, Early, TypeOK
  <2>8. AnswersFit'
    <3>1. given'[c] > 0
      BY <1>1, <2>1, <2>5 DEF TypeOK
    <3>2. ASSUME NEW d \in Calls, d # c
          PROVE  UNCHANGED <<pc[d], slot[d], given[d]>> /\ Early(d)' = Early(d)
      BY <2>2, <2>5, <2>6, <3>2
    <3>. QED
      BY <1>1, <2>1, <2>2, <2>3, <2>4, <2>6, <3>1, <3>2 DEF AnswersFit
  <2>. QED  BY <2>7, <2>8
<1>9. CASE Shutdown
  BY <1>1, <1>9
  DEF AnswersFit, AnsweredOnce, Early, InHand, Shutdown, callerVars, answerVars, handlerVars
<1>. QED
  BY <1>2, <1>3, <1>4, <1>5, <1>6, <1>7, <1>8, <1>9, NextCases

LEMMA NextInv == Inv /\ [Next]_vars => Inv'
<1>1. ASSUME Inv, Next
      PROVE  Inv'
  BY <1>1, NextTypeOK, NextOnePlace, NextNothingLost, NextAnswers, NextHandlersFit
  DEF Inv
<1>2. ASSUME Inv, UNCHANGED vars
      PROVE  Inv'
  BY <1>2
  DEF Inv, TypeOK, OnePlace, NothingLost, AnsweredOnce, AnswersFit, HandlersFit,
      InHand, Early, vars, callerVars, answerVars, handlerVars
<1>. QED  BY <1>1, <1>2

-----------------------------------------------------------------------------
(* Inv holds in every state of a client in POST mode. *)
THEOREM Invariance == Spec => []Inv
BY InitInv, NextInv, PTL DEF Spec

(* sendPostHandler loses no request, whenever Shutdown comes. *)
THEOREM NoRequestIsLost == Spec => []NothingLost
<1>1. Inv => NothingLost
  BY DEF Inv
<1>. QED  BY <1>1, Invariance, PTL

(* A call is answered once; after a shutdown at most twice. *)
THEOREM OneAnswer == Spec => []AnsweredOnce
<1>1. Inv => AnsweredOnce
  BY DEF Inv
<1>. QED  BY <1>1, Invariance, PTL

(* The client keeps the promise of RpcFuture, whenever Shutdown comes: each *)
(* step that touches a call asks for or answers its future, and none but a  *)
(* refused call is answered again.                                          *)
THEOREM PromiseKept == Spec => KeepsPromise
<1>1. Init => Promise!Init
  BY DEF Init, Promise!Init, future
<1>2. ASSUME Inv, Next
      PROVE  /\ [Promise!Next]_future
             /\ \A c \in Calls :
                  given'[c] # given[c] => future[c] # "answered" \/ c \in refused
  <2>1. TypeOK /\ AnswersFit /\ HandlersFit
    BY <1>2 DEF Inv
  <2>2. ASSUME NEW c \in Calls, SendCmd(c)
        PROVE  Promise!Ask(c) /\ UNCHANGED given
    BY <2>1, <2>2
    DEF SendCmd, Move, Promise!Ask, future, AnswersFit, Early, TypeOK, answerVars
  <2>3. ASSUME NEW c \in Calls, pc[c] # "idle", given[c] = 0,
               given' = [given EXCEPT ![c] = @ + 1],
               \A d \in Calls : pc'[d] = "idle" <=> pc[d] = "idle"
        PROVE  /\ Promise!Answer(c) /\ future[c] # "answered"
               /\ \A d \in Calls \ {c} : given'[d] = given[d]
    <3>1. given'[c] # 0 /\ \A d \in Calls \ {c} : given'[d] = given[d]
      BY <2>1, <2>3 DEF TypeOK
    <3>2. future[c] = "pending"
      BY <2>3 DEF future
    <3>3. future' = [future EXCEPT ![c] = "answered"]
      BY <2>3, <3>1 DEF future
    <3>. QED  BY <3>1, <3>2, <3>3 DEF Promise!Answer
  <2>4. ASSUME UNCHANGED given, \A d \in Calls : pc'[d] = "idle" <=> pc[d] = "idle"
        PROVE  UNCHANGED future
    BY <2>4 DEF future
  <2>5. ASSUME NEW c \in Calls, RequestFails(c) \/ SeesShutdown(c)
        PROVE  /\ pc[c] # "idle" /\ given[c] = 0
               /\ given' = [given EXCEPT ![c] = @ + 1]
               /\ \A d \in Calls : pc'[d] = "idle" <=> pc[d] = "idle"
    BY <2>1, <2>5
    DEF RequestFails, SeesShutdown, Move, Respond, AnswersFit, Early, TypeOK
  <2>6. ASSUME NEW h \in Handlers, PutAnswer(h)
        PROVE  /\ held[h] \in Calls /\ pc[held[h]] # "idle"
               /\ given[held[h]] = 0 \/ (held[h] \in refused /\ given[held[h]] = 1)
               /\ given' = [given EXCEPT ![held[h]] = @ + 1]
               /\ pc' = pc
    BY <2>1, <2>6
    DEF PutAnswer, Respond, HandlersFit, AnswersFit, Early, InHand, TypeOK, callerVars
  <2>7. ASSUME NEW c \in Calls, SeesOpen(c) \/ Enqueue(c) \/ Receive(c)
        PROVE  UNCHANGED given /\ \A d \in Calls : pc'[d] = "idle" <=> pc[d] = "idle"
    BY <2>1, <2>7 DEF SeesOpen, Enqueue, Receive, Move, TypeOK, answerVars
  <2>8. ASSUME \/ Shutdown
               \/ \E h \in Handlers : Take(h) \/ Post(h) \/ HandlerStops(h) \/ Drain(h)
                                      \/ HandlerEnds(h)
        PROVE  UNCHANGED <<given, pc>>
    BY <2>8
    DEF Shutdown, Take, Post, HandlerStops, Drain, HandlerEnds, callerVars, answerVars
  <2>9. ASSUME NEW c \in Calls, pc[c] # "idle", c \in refused, given[c] = 1, pc' = pc,
               given' = [given EXCEPT ![c] = @ + 1]
        PROVE  /\ UNCHANGED future
               /\ \A d \in Calls \ {c} : given'[d] = given[d]
    <3>1. \A d \in Calls : given'[d] = 0 <=> given[d] = 0
      BY <2>1, <2>9 DEF TypeOK
    <3>. QED  BY <2>1, <2>9, <3>1 DEF future, TypeOK
  <2>10. ASSUME NEW h \in Handlers, PutAnswer(h)
         PROVE  /\ \/ Promise!Answer(held[h]) /\ future[held[h]] # "answered"
                   \/ UNCHANGED future /\ held[h] \in refused
                /\ held[h] \in Calls
                /\ \A d \in Calls \ {held[h]} : given'[d] = given[d]
    BY <2>3, <2>6, <2>9, <2>10
  <2>. QED
    BY <1>2, <2>2, <2>3, <2>4, <2>5, <2>7, <2>8, <2>10, NextCases DEF Promise!Next
<1>3. ASSUME UNCHANGED vars
      PROVE  UNCHANGED <<future, given>>
  BY <1>3 DEF vars, callerVars, answerVars, future
<1>4. Inv /\ [Next]_vars => [Promise!Next]_future
  BY <1>2, <1>3
<1>5. Inv /\ [Next]_vars =>
        [\A c \in Calls :
           given'[c] # given[c] => future[c] # "answered" \/ c \in refused]_vars
  BY <1>2
<1>. QED
  BY <1>1, <1>4, <1>5, Invariance, PTL DEF Spec, Promise!Spec, KeepsPromise

=============================================================================
