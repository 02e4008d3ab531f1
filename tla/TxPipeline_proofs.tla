------------------------- MODULE TxPipeline_proofs --------------------------
(* Proofs about TxPipeline, for any set of transactions, accounts, rules    *)
(* and bounds.                                                              *)
EXTENDS TxPipeline, TLAPS

(* The steps of Next, one by one. *)
LEMMA NextCases ==
  ASSUME Next
  PROVE  \/ \E w \in Worker : GetTransactions(w) \/ UpdateReturns(w) \/ UpdateTimesOut(w)
         \/ \E w \in Worker : \E x \in batch[w] : Unregistered(w, x) \/ HandlerFails(w, x)
         \/ \E x \in batch["nonce"] : Nonce(x)
         \/ \E x \in batch["broadcast"] : BroadcastBegin(x)
         \/ SubmitAccepted \/ SubmitReplyLost \/ SubmitRefused \/ NodeUnusable
         \/ BroadcastEnd
         \/ \E x \in batch["sync"] : SyncTx(x)
         \/ \E m \in net : ProxyApply(m) \/ Lose(m)
         \/ \E t \in Tx : SignerSigns(t)
         \/ \E c \in pool : Mine(c) \/ Drop(c)
         \/ \E s \in Slot : Age(s)
         \/ Crash
BY DEF Next, WorkerStep, EnvironmentStep, FaultStep

(* What the pre-sign handler reads is a slot. *)
LEMMA SlotViewType ==
  ASSUME NEW a \in Account
  PROVE  SlotView(a) \subseteq Slot
BY ConstantsAssumption DEF SlotView

(* Taking an item, and asking the proxy for an update, keep their types. *)
LEMMA RequestType ==
  ASSUME NEW w \in Worker, NEW x \in TransInfo, NEW s \in State,
         NEW p \in Payload, NEW c \in Payload
  PROVE  Request(w, x, s, p, c) \in UpdateReq
BY DEF Request, UpdateReq, TransInfo, tState, State, Worker

LEMMA InitTypeOK == Init => TypeOK
BY ConstantsAssumption
DEF Init, TypeOK, State, Payload, Worker, NoJob

(* Putting a request under way, and giving an item up, keep the types. *)
LEMMA UpdateType ==
  ASSUME TypeOK, NEW w \in Worker, NEW m \in UpdateReq, UpdateTransaction(w, m)
  PROVE  /\ net' \subseteq UpdateReq
         /\ job' \in [Worker -> TransInfo \cup UpdateReq \cup {NoJob}]
         /\ pc' \in [Worker -> {"idle", "submit", "update"}]
BY DEF TypeOK, UpdateTransaction

LEMMA RetryType ==
  ASSUME TypeOK, NEW w \in Worker, RetryLater(w)
  PROVE  /\ job' \in [Worker -> TransInfo \cup UpdateReq \cup {NoJob}]
         /\ pc' \in [Worker -> {"idle", "submit", "update"}]
BY DEF TypeOK, RetryLater

LEMMA TakeType ==
  ASSUME TypeOK, NEW w \in Worker, NEW x, Take(w, x)
  PROVE  /\ x \in TransInfo
         /\ x.tx \in Tx /\ x.payload \in Payload
         /\ batch' \in [Worker -> SUBSET TransInfo]
BY DEF TypeOK, Take, TransInfo

LEMMA FaultType ==
  ASSUME TypeOK, NEW T \in SUBSET Tx, Fault(T)
  PROVE  faults' \in 0 .. MaxFaults /\ blamed' \subseteq Tx
BY ConstantsAssumption DEF TypeOK, Fault

LEMMA AcceptType ==
  ASSUME TypeOK, NEW c \in ChainTx, Accept(c)
  PROVE  /\ pool' \subseteq ChainTx /\ accepted' \subseteq ChainTx
         /\ mined' = mined /\ reverted' = reverted
         /\ spentTo' = spentTo /\ stale' = stale
BY DEF TypeOK, Accept

(* The item being broadcast is a transaction, with signed bytes to send. *)
LEMMA SubmittingItem ==
  ASSUME Inv, pc["broadcast"] = "submit"
  PROVE  /\ job["broadcast"] \in TransInfo
         /\ job["broadcast"].payload \in ChainTx
         /\ job["broadcast"].tx \in Tx
         /\ job["broadcast"].payload.tx = job["broadcast"].tx
         /\ job["broadcast"].payload = signed[job["broadcast"].tx]
BY DEF Inv, WorkersKnow, Known, OfTx, Worker, TransInfo

LEMMA NextTypeOK ==
  ASSUME Inv, Next
  PROVE  TypeOK'
<1>1. TypeOK
  BY DEF Inv
<1>2. CASE \E w \in Worker : GetTransactions(w) \/ UpdateReturns(w) \/ UpdateTimesOut(w)
  <2>. PICK w \in Worker : GetTransactions(w) \/ UpdateReturns(w) \/ UpdateTimesOut(w)
    BY <1>2
  <2>1. CASE GetTransactions(w)
    BY <1>1, <2>1 DEF TypeOK, GetTransactions, TransInfo, proxyVars, chainVars, loopVars, faultVars
  <2>2. CASE UpdateReturns(w)
    BY <1>1, <2>2, RetryType
    DEF TypeOK, UpdateReturns, proxyVars, chainVars, loopVars, faultVars
  <2>3. CASE UpdateTimesOut(w)
    <3>1. job[w].tx \in Tx
      BY <1>1, <2>3 DEF UpdateTimesOut, TypeOK, UpdateReq
    <3>. QED
      BY <1>1, <2>3, <3>1, RetryType, FaultType
      DEF TypeOK, UpdateTimesOut, proxyVars, chainVars, loopVars
  <2>. QED  BY <2>1, <2>2, <2>3
<1>3. CASE \E w \in Worker : \E x \in batch[w] : Unregistered(w, x) \/ HandlerFails(w, x)
  <2>. PICK w \in Worker : \E x \in batch[w] : Unregistered(w, x) \/ HandlerFails(w, x)
    BY <1>3
  <2>. PICK x \in batch[w] : Unregistered(w, x) \/ HandlerFails(w, x)
    OBVIOUS
  <2>1. CASE Unregistered(w, x)
    <3>1. Request(w, x, "Fail", None, None) \in UpdateReq
      BY <1>1, <2>1, TakeType, RequestType DEF Unregistered, State, Payload
    <3>. QED
      BY <1>1, <2>1, <3>1, TakeType, UpdateType
      DEF TypeOK, Unregistered, proxyVars, chainVars, loopVars, faultVars
  <2>2. CASE HandlerFails(w, x)
    BY <1>1, <2>2, TakeType, FaultType DEF TypeOK, HandlerFails, proxyVars, chainVars, loopVars
  <2>. QED  BY <2>1, <2>2
<1>4. CASE \E x \in batch["nonce"] : Nonce(x)
  <2>. PICK x \in batch["nonce"] : Nonce(x)
    BY <1>4
  <2>1. "nonce" \in Worker /\ x \in TransInfo /\ x.tx \in Tx
    BY <1>1, TakeType DEF Nonce, Worker
  <2>2. /\ net' \subseteq UpdateReq
        /\ job' \in [Worker -> TransInfo \cup UpdateReq \cup {NoJob}]
        /\ pc' \in [Worker -> {"idle", "submit", "update"}]
    <3>1. \A s \in Slot : Request("nonce", x, nextState["nonce"], [tx |-> x.tx, slot |-> s], None)
                            \in UpdateReq
      BY <2>1, RequestType DEF nextState, State, Payload, ChainTx
    <3>2. Request("nonce", x, "Fail", None, None) \in UpdateReq
      BY <2>1, RequestType DEF State, Payload
    <3>3. From[x.tx] \in Account
      BY <2>1, ConstantsAssumption
    <3>. QED
      BY <1>1, <2>1, <3>1, <3>2, <3>3, SlotViewType, UpdateType DEF Nonce, TypeOK
  <2>. QED
    BY <1>1, <2>1, <2>2, TakeType DEF TypeOK, Nonce, proxyVars, chainVars, loopVars, faultVars
<1>5. CASE \E x \in batch["broadcast"] : BroadcastBegin(x)
  <2>. PICK x \in batch["broadcast"] : BroadcastBegin(x)
    BY <1>5
  <2>1. "broadcast" \in Worker
    BY DEF Worker
  <2>. QED
    BY <1>1, <2>1, TakeType, ConstantsAssumption
    DEF TypeOK, BroadcastBegin, proxyVars, chainVars, faultVars
<1>6. CASE SubmitAccepted \/ SubmitReplyLost \/ SubmitRefused \/ NodeUnusable \/ BroadcastEnd
  <2>1. pc["broadcast"] = "submit" /\ "broadcast" \in Worker
    BY <1>6 DEF SubmitAccepted, SubmitReplyLost, SubmitRefused, NodeUnusable, BroadcastEnd,
                Submitting, Worker
  <2>2. /\ job["broadcast"] \in TransInfo
        /\ job["broadcast"].payload \in ChainTx
        /\ job["broadcast"].tx \in Tx
    BY <2>1, SubmittingItem
  <2>3. Submitting => tries + 1 \in 0 .. Endpoints
    BY <1>1, ConstantsAssumption DEF Submitting, TypeOK
  <2>4. CASE SubmitAccepted
    <3>1. Request("broadcast", job["broadcast"], nextState["broadcast"],
                  job["broadcast"].payload, job["broadcast"].payload) \in UpdateReq
      BY <2>1, <2>2, RequestType DEF nextState, State, Payload
    <3>. QED
      BY <1>1, <2>1, <2>2, <2>4, <3>1, AcceptType, UpdateType
      DEF TypeOK, SubmitAccepted, proxyVars, loopVars, faultVars
  <2>5. CASE SubmitReplyLost
    BY <1>1, <2>2, <2>3, <2>5, AcceptType, FaultType
    DEF TypeOK, SubmitReplyLost, NodeError, proxyVars, workerVars
  <2>6. CASE SubmitRefused
    BY <1>1, <2>3, <2>6, ConstantsAssumption
    DEF TypeOK, SubmitRefused, proxyVars, chainVars, workerVars, faultVars
  <2>7. CASE NodeUnusable
    BY <1>1, <2>3, <2>7, FaultType DEF TypeOK, NodeUnusable, proxyVars, chainVars, workerVars
  <2>8. CASE BroadcastEnd
    <3>1. Request("broadcast", job["broadcast"], "Fail", None, None) \in UpdateReq
      BY <2>1, <2>2, RequestType DEF State, Payload
    <3>. QED
      BY <1>1, <2>1, <2>8, <3>1, UpdateType, RetryType
      DEF TypeOK, BroadcastEnd, proxyVars, chainVars, loopVars, faultVars
  <2>. QED  BY <1>6, <2>4, <2>5, <2>6, <2>7, <2>8
<1>7. CASE \E x \in batch["sync"] : SyncTx(x)
  <2>. PICK x \in batch["sync"] : SyncTx(x)
    BY <1>7
  <2>1. "sync" \in Worker /\ x \in TransInfo
    BY <1>1, TakeType DEF SyncTx, Worker
  <2>2. /\ Request("sync", x, nextState["sync"], None, None) \in UpdateReq
        /\ Request("sync", x, "Fail", None, None) \in UpdateReq
    BY <2>1, RequestType DEF nextState, State, Payload
  <2>3. /\ net' \subseteq UpdateReq
        /\ job' \in [Worker -> TransInfo \cup UpdateReq \cup {NoJob}]
        /\ pc' \in [Worker -> {"idle", "submit", "update"}]
    BY <1>1, <2>1, <2>2, UpdateType DEF SyncTx, TypeOK
  <2>. QED
    BY <1>1, <2>1, <2>3, TakeType DEF TypeOK, SyncTx, proxyVars, chainVars, loopVars, faultVars
<1>8. CASE \E m \in net : ProxyApply(m) \/ Lose(m)
  <2>. PICK m \in net : ProxyApply(m) \/ Lose(m)
    BY <1>8
  <2>1. m \in UpdateReq
    BY <1>1 DEF TypeOK
  <2>2. CASE ProxyApply(m)
    BY <1>1, <2>1, <2>2
    DEF TypeOK, ProxyApply, UpdateReq, proxyVars, chainVars, workerVars, loopVars, faultVars
  <2>3. CASE Lose(m)
    BY <1>1, <2>1, <2>3, FaultType
    DEF TypeOK, Lose, UpdateReq, proxyVars, chainVars, workerVars, loopVars
  <2>. QED  BY <2>2, <2>3
<1>9. CASE \E t \in Tx : SignerSigns(t)
  BY <1>1, <1>9 DEF TypeOK, SignerSigns, State, chainVars, workerVars, loopVars, faultVars
<1>10. CASE \E c \in pool : Mine(c) \/ Drop(c)
  <2>. PICK c \in pool : Mine(c) \/ Drop(c)
    BY <1>10
  <2>1. c \in ChainTx /\ c.slot + 1 \in Nat /\ From[c.tx] \in Account
    BY <1>1, ConstantsAssumption DEF TypeOK, ChainTx, Slot
  <2>2. CASE Mine(c)
    BY <1>1, <2>1, <2>2 DEF TypeOK, Mine, proxyVars, workerVars, loopVars, faultVars
  <2>3. CASE Drop(c)
    BY <1>1, <2>3, FaultType DEF TypeOK, Drop, proxyVars, workerVars, loopVars
  <2>. QED  BY <2>2, <2>3
<1>11. CASE \E s \in Slot : Age(s)
  BY <1>1, <1>11 DEF TypeOK, Age, proxyVars, workerVars, loopVars, faultVars
<1>12. CASE Crash
  <2>. DEFINE T == {job[w].tx : w \in {v \in Worker : pc[v] # "idle"}}
  <2>1. T \subseteq Tx
    <3>. SUFFICES ASSUME NEW w \in Worker, pc[w] # "idle"
                  PROVE  job[w].tx \in Tx
      OBVIOUS
    <3>1. job[w] \in TransInfo \cup UpdateReq
      BY <1>1 DEF Inv, TypeOK, WorkersKnow
    <3>. QED  BY <3>1 DEF TransInfo, UpdateReq
  <2>2. Fault(T)
    BY <1>12 DEF Crash
  <2>3. faults' \in 0 .. MaxFaults /\ blamed' \subseteq Tx
    BY <1>1, <2>1, <2>2, FaultType
  <2>. QED
    BY <1>1, <1>12, <2>3, ConstantsAssumption DEF TypeOK, Crash, proxyVars, chainVars
<1>. QED
  BY <1>2, <1>3, <1>4, <1>5, <1>6, <1>7, <1>8, <1>9, <1>10, <1>11, <1>12, NextCases

(* What a step leaves behind for good: signed bytes, what the nodes took,   *)
(* and what the chain executed, with its outcome.                           *)
LEMMA Persists ==
  ASSUME Inv, Next
  PROVE  /\ \A t \in Tx : signed[t] # None => signed'[t] = signed[t]
         /\ accepted \subseteq accepted'
         /\ reverted \subseteq reverted'
         /\ mined \ reverted \subseteq mined' \ reverted'
<1>1. CASE \E w \in Worker : GetTransactions(w) \/ UpdateReturns(w) \/ UpdateTimesOut(w)
  BY <1>1 DEF GetTransactions, UpdateReturns, UpdateTimesOut, chainVars
<1>2. CASE \E w \in Worker : \E x \in batch[w] : Unregistered(w, x) \/ HandlerFails(w, x)
  BY <1>2 DEF Unregistered, HandlerFails, chainVars
<1>3. CASE \/ \E x \in batch["nonce"] : Nonce(x)
           \/ \E x \in batch["broadcast"] : BroadcastBegin(x)
           \/ \E x \in batch["sync"] : SyncTx(x)
  BY <1>3 DEF Nonce, BroadcastBegin, SyncTx, chainVars
<1>4. CASE SubmitAccepted \/ SubmitReplyLost
  BY <1>4 DEF SubmitAccepted, SubmitReplyLost, Accept
<1>5. CASE SubmitRefused \/ NodeUnusable \/ BroadcastEnd \/ Crash
  BY <1>5 DEF SubmitRefused, NodeUnusable, BroadcastEnd, Crash, chainVars
<1>6. CASE \E m \in net : ProxyApply(m) \/ Lose(m)
  BY <1>6 DEF ProxyApply, Lose, chainVars
<1>7. CASE \E t \in Tx : SignerSigns(t)
  <2>. PICK t \in Tx : SignerSigns(t)
    BY <1>7
  <2>1. signed[t] = None
    BY DEF Inv, ProxyKnows, SignerSigns
  <2>. QED
    BY <2>1 DEF SignerSigns, chainVars, Inv, TypeOK
<1>8. CASE \E c \in pool : Mine(c) \/ Drop(c)
  <2>. PICK c \in pool : Mine(c) \/ Drop(c)
    BY <1>8
  <2>1. c \notin mined
    BY DEF Inv, OnlySignedIsSent
  <2>. QED
    BY <2>1 DEF Mine, Drop
<1>9. CASE \E s \in Slot : Age(s)
  BY <1>9 DEF Age
<1>. QED
  BY <1>1, <1>2, <1>3, <1>4, <1>5, <1>6, <1>7, <1>8, <1>9, NextCases

(* The coin type is chosen once, and with it what is registered. *)
LEMMA CoinStays ==
  ASSUME Next
  PROVE  coin' = coin /\ Registered' = Registered
<1>1. coin' = coin
  BY NextCases
  DEF GetTransactions, UpdateReturns, UpdateTimesOut, Unregistered, HandlerFails, Nonce,
      BroadcastBegin, SyncTx, SubmitAccepted, SubmitReplyLost, SubmitRefused, NodeUnusable,
      BroadcastEnd, Crash, ProxyApply, Lose, SignerSigns, Mine, Drop, Age
<1>. QED  BY <1>1 DEF Registered

(* What a worker knows of an item stays true while it works on others. *)
LEMMA KnownPersists ==
  ASSUME Inv, Next, NEW w \in Worker, NEW x \in TransInfo, Known(w, x)
  PROVE  Known(w, x)'
<1>1. x.tx \in Tx
  BY DEF TransInfo
<1>2. \A t \in Tx : Sent(t) => signed[t] # None
  BY NoneAssumption DEF Sent, Inv, TypeOK
<1>3. CASE w = "broadcast"
  BY <1>1, <1>3, Persists, CoinStays, NoneAssumption DEF Known, OfTx
<1>4. CASE w = "sync"
  BY <1>1, <1>2, <1>4, Persists, CoinStays DEF Known, Sent
<1>5. CASE w = "nonce"
  BY <1>5 DEF Known
<1>. QED  BY <1>3, <1>4, <1>5 DEF Worker

LEMMA SentPersists ==
  ASSUME Inv, Next, NEW t \in Tx, Sent(t)
  PROVE  Sent(t)' /\ signed'[t] = signed[t] /\ signed[t] # None
BY Persists, NoneAssumption DEF Sent, Inv, TypeOK

(* A node takes only what it has not executed yet. *)
LEMMA AcceptedIsNew ==
  ASSUME NEW c, "ok" \in Answers(c)
  PROVE  c \notin mined
BY DEF Answers

LEMMA NextOnlySignedIsSent ==
  ASSUME Inv, Next
  PROVE  OnlySignedIsSent'
<1>1. OnlySignedIsSent /\ TypeOK
  BY DEF Inv
<1>2. CASE UNCHANGED <<signed, accepted, pool, mined>>
  BY <1>1, <1>2 DEF OnlySignedIsSent
<1>3. CASE SubmitAccepted \/ SubmitReplyLost
  <2>. DEFINE c == job["broadcast"].payload
  <2>1. pc["broadcast"] = "submit"
    BY <1>3 DEF SubmitAccepted, SubmitReplyLost, Submitting
  <2>2. c \in ChainTx /\ c = signed[c.tx]
    BY <2>1, SubmittingItem
  <2>3. "ok" \in Answers(c) /\ Accept(c) /\ UNCHANGED signed
    BY <1>3 DEF SubmitAccepted, SubmitReplyLost
  <2>4. c \notin mined
    BY <2>3, AcceptedIsNew
  <2>. HIDE DEF c
  <2>. QED
    BY <1>1, <2>2, <2>3, <2>4 DEF OnlySignedIsSent, Accept
<1>4. CASE \E t \in Tx : SignerSigns(t)
  <2>. PICK t \in Tx : SignerSigns(t)
    BY <1>4
  <2>1. UNCHANGED <<accepted, pool, mined>>
    BY DEF SignerSigns, chainVars
  <2>2. \A c \in accepted : c \in ChainTx /\ c.tx \in Tx /\ signed[c.tx] = c
    BY <1>1 DEF OnlySignedIsSent, TypeOK, ChainTx
  <2>3. \A c \in accepted : signed'[c.tx] = c
    BY <2>2, Persists, NoneAssumption
  <2>4. payload[t] \in OfTx(ChainTx, t) /\ signed' = [signed EXCEPT ![t] = payload[t]]
    BY DEF SignerSigns, Inv, ProxyKnows
  <2>. QED
    BY <1>1, <2>1, <2>3, <2>4 DEF OnlySignedIsSent, TypeOK
<1>5. CASE \E c \in pool : Mine(c) \/ Drop(c)
  BY <1>1, <1>5 DEF OnlySignedIsSent, Mine, Drop
<1>6. CASE \E s \in Slot : Age(s)
  BY <1>1, <1>6 DEF OnlySignedIsSent, Age
<1>7. \/ UNCHANGED <<signed, accepted, pool, mined>>
      \/ SubmitAccepted \/ SubmitReplyLost
      \/ \E t \in Tx : SignerSigns(t)
      \/ \E c \in pool : Mine(c) \/ Drop(c)
      \/ \E s \in Slot : Age(s)
  BY NextCases
  DEF GetTransactions, UpdateReturns, UpdateTimesOut, Unregistered, HandlerFails, Nonce,
      BroadcastBegin, SyncTx, SubmitRefused, NodeUnusable, BroadcastEnd, Crash, ProxyApply,
      Lose, chainVars
<1>. QED
  BY <1>2, <1>3, <1>4, <1>5, <1>6, <1>7

LEMMA NextProxyKnows ==
  ASSUME Inv, Next
  PROVE  ProxyKnows'
<1>1. ProxyKnows /\ TypeOK /\ RequestsAreTrue
  BY DEF Inv
<1>2. CASE UNCHANGED <<proxyVars, signed>>
  <2>. SUFFICES ASSUME NEW t \in Tx
                PROVE  /\ Sent(t) => Sent(t)'
                       /\ signed[t] \in mined \ reverted => (signed[t] \in mined \ reverted)'
    BY <1>1, <1>2, CoinStays DEF ProxyKnows, proxyVars
  <2>. QED
    BY <1>2, Persists DEF Sent
<1>3. CASE \E m \in net : ProxyApply(m)
  <2>. PICK m \in net : ProxyApply(m)
    BY <1>3
  <2>1. UNCHANGED <<signed, accepted, mined, reverted>> /\ m \in UpdateReq
    BY <1>1 DEF ProxyApply, chainVars, TypeOK
  <2>2. CASE pstate[m.tx] # m.old
    BY <1>1, <2>1, <2>2, CoinStays DEF ProxyApply, ProxyKnows, proxyVars, Sent
  <2>3. CASE pstate[m.tx] = m.old
    <3>. SUFFICES ASSUME NEW t \in Tx
                  PROVE  /\ pstate'[t] \notin {"Wait", "Fail"} => t \in Registered
                         /\ pstate'[t] \in {"Wait", "Sign"} => signed'[t] = None
                         /\ pstate'[t] = "Sign" => payload'[t] \in OfTx(ChainTx, t)
                         /\ pstate'[t] = "Broadcast" =>
                              payload'[t] = signed'[t] /\ signed'[t] \in OfTx(ChainTx, t)
                         /\ pstate'[t] = "Sync" => payload'[t] = signed'[t]
                         /\ pstate'[t] \in {"Sync", "Done"} => cid'[t] = signed'[t] /\ Sent(t)'
                         /\ pstate'[t] = "Done" => signed'[t] \in mined' \ reverted'
      BY CoinStays DEF ProxyKnows
    <3>1. CASE t # m.tx
      <4>1. UNCHANGED <<pstate[t], payload[t], cid[t], signed[t]>>
        BY <1>1, <2>1, <2>3, <3>1 DEF ProxyApply, TypeOK, UpdateReq
      <4>. QED
        BY <1>1, <2>1, <4>1 DEF ProxyKnows, Sent
    <3>2. CASE t = m.tx
      <4>1. /\ pstate'[t] = m.new
            /\ payload'[t] = m.payload
            /\ cid'[t] = IF m.cid = None THEN cid[t] ELSE m.cid
        BY <1>1, <2>1, <2>3, <3>2 DEF ProxyApply, TypeOK, UpdateReq
      <4>2. \/ m.old = "Wait" /\ m.new \in {"Sign", "Fail"}
            \/ m.old = "Broadcast" /\ m.new \in {"Sync", "Fail"}
            \/ m.old = "Sync" /\ m.new \in {"Done", "Fail"}
            \/ m.new = "Fail"
        BY <1>1 DEF RequestsAreTrue, Justified, tState, nextState, Worker
      <4>. m.new # "Fail" => t \in Registered
        BY <1>1, <3>2 DEF RequestsAreTrue, Justified
      <4>3. CASE m.new = "Fail"
        BY <4>1, <4>3
      <4>4. CASE m.old = "Wait" /\ m.new = "Sign"
        BY <1>1, <2>1, <2>3, <3>2, <4>1, <4>4 DEF RequestsAreTrue, Justified, ProxyKnows
      <4>5. CASE m.old = "Broadcast" /\ m.new = "Sync"
        <5>1. m.payload = signed[t] /\ m.cid = signed[t] /\ Sent(t)
          BY <1>1, <3>2, <4>5 DEF RequestsAreTrue, Justified
        <5>2. m.cid # None
          BY <1>1, <5>1, NoneAssumption DEF Sent, TypeOK
        <5>. QED
          BY <2>1, <4>1, <4>5, <5>1, <5>2 DEF Sent
      <4>6. CASE m.old = "Sync" /\ m.new = "Done"
        <5>1. cid[t] = signed[t] /\ Sent(t)
          BY <1>1, <2>3, <3>2, <4>6 DEF ProxyKnows
        <5>2. signed[t] \in mined \ reverted /\ m.cid = None
          BY <1>1, <3>2, <4>6 DEF RequestsAreTrue, Justified
        <5>. QED
          BY <2>1, <4>1, <4>6, <5>1, <5>2 DEF Sent
      <4>. QED  BY <4>2, <4>3, <4>4, <4>5, <4>6
    <3>. QED  BY <3>1, <3>2
  <2>. QED  BY <2>2, <2>3
<1>4. CASE \E t \in Tx : SignerSigns(t)
  <2>. PICK u \in Tx : SignerSigns(u)
    BY <1>4
  <2>1. UNCHANGED <<payload, cid, accepted, mined, reverted>>
    BY DEF SignerSigns, chainVars
  <2>2. signed[u] = None /\ payload[u] \in OfTx(ChainTx, u) /\ u \in Registered
    BY <1>1 DEF SignerSigns, ProxyKnows
  <2>3. /\ pstate' = [pstate EXCEPT ![u] = "Broadcast"]
        /\ signed' = [signed EXCEPT ![u] = payload[u]]
    BY DEF SignerSigns
  <2>. QED
    BY <1>1, <2>1, <2>2, <2>3, CoinStays DEF ProxyKnows, TypeOK, Sent
<1>5. \/ UNCHANGED <<proxyVars, signed>>
      \/ \E m \in net : ProxyApply(m)
      \/ \E t \in Tx : SignerSigns(t)
  BY NextCases
  DEF GetTransactions, UpdateReturns, UpdateTimesOut, Unregistered, HandlerFails, Nonce,
      BroadcastBegin, SyncTx, SubmitAccepted, SubmitReplyLost, SubmitRefused, NodeUnusable,
      BroadcastEnd, Crash, Lose, Mine, Drop, Age
<1>. QED  BY <1>2, <1>3, <1>4, <1>5

(* A request that says the truth goes on saying it. *)
LEMMA JustifiedPersists ==
  ASSUME Inv, Next, NEW m \in UpdateReq, Justified(m)
  PROVE  Justified(m)'
<1>1. m.tx \in Tx
  BY DEF UpdateReq
<1>2. Sent(m.tx) => Sent(m.tx)' /\ signed'[m.tx] = signed[m.tx]
  BY <1>1, SentPersists
<1>3. \A c \in ChainTx : signed[m.tx] = c => signed'[m.tx] = c
  BY <1>1, Persists, NoneAssumption
<1>4. mined \subseteq ChainTx /\ reverted \subseteq ChainTx
  BY DEF Inv, TypeOK
<1>5. reverted \subseteq reverted' /\ mined \ reverted \subseteq mined' \ reverted'
  BY Persists
<1>. QED
  BY <1>2, <1>3, <1>4, <1>5, CoinStays DEF Justified

(* The answer to an item is the truth when it is given. *)
LEMMA FailJustified ==
  ASSUME NEW w \in {"nonce", "broadcast"}, NEW x \in TransInfo
  PROVE  Justified(Request(w, x, "Fail", None, None))
BY DEF Justified, Request, tState, nextState, Worker

LEMMA NonceJustified ==
  ASSUME NEW x \in TransInfo, x.tx \in Registered, NEW s \in Slot
  PROVE  Justified(Request("nonce", x, nextState["nonce"], [tx |-> x.tx, slot |-> s], None))
BY DEF Justified, Request, tState, nextState, Worker, OfTx, ChainTx, TransInfo

LEMMA SyncJustified ==
  ASSUME TypeOK, NEW x \in TransInfo, Known("sync", x)
  PROVE  /\ x.payload \in mined \ reverted =>
              Justified(Request("sync", x, nextState["sync"], None, None))
         /\ x.payload \in reverted => Justified(Request("sync", x, "Fail", None, None))
BY DEF Justified, Known, Request, tState, nextState, Worker

LEMMA NextRequestsAreTrue ==
  ASSUME Inv, Next
  PROVE  RequestsAreTrue'
<1>1. TypeOK /\ WorkersKnow /\ RequestsAreTrue
  BY DEF Inv
<1>2. \A m \in net : Justified(m)'
  BY <1>1, JustifiedPersists DEF RequestsAreTrue, TypeOK
<1>3. CASE net' \subseteq net
  BY <1>2, <1>3 DEF RequestsAreTrue
<1>4. ASSUME NEW m \in UpdateReq, net' = net \cup {m}, Justified(m)'
      PROVE  RequestsAreTrue'
  BY <1>2, <1>4 DEF RequestsAreTrue
<1>5. CASE \E w \in Worker : \E x \in batch[w] : Unregistered(w, x)
  <2>. PICK w \in Worker : \E x \in batch[w] : Unregistered(w, x)
    BY <1>5
  <2>. PICK x \in batch[w] : Unregistered(w, x)
    OBVIOUS
  <2>. DEFINE m == Request(w, x, "Fail", None, None)
  <2>1. x \in TransInfo /\ net' = net \cup {m}
    BY <1>1, TakeType DEF Unregistered, UpdateTransaction
  <2>2. w = "nonce"
    BY <1>1 DEF Unregistered, WorkersKnow, Known
  <2>3. m \in UpdateReq /\ Justified(m)
    BY <2>1, <2>2, FailJustified, RequestType DEF State, Payload
  <2>. QED
    BY <1>4, <2>1, <2>3, JustifiedPersists
<1>6. CASE \E x \in batch["nonce"] : Nonce(x)
  <2>. PICK x \in batch["nonce"] : Nonce(x)
    BY <1>6
  <2>1. "nonce" \in Worker /\ x \in TransInfo /\ x.tx \in Tx /\ x.tx \in Registered
    BY <1>1, TakeType DEF Nonce, Worker
  <2>2. SlotView(From[x.tx]) \subseteq Slot
    BY <2>1, SlotViewType, ConstantsAssumption
  <2>3. CASE \E s \in Slot : UpdateTransaction("nonce",
               Request("nonce", x, nextState["nonce"], [tx |-> x.tx, slot |-> s], None))
    <3>. PICK s \in Slot : UpdateTransaction("nonce",
           Request("nonce", x, nextState["nonce"], [tx |-> x.tx, slot |-> s], None))
      BY <2>3
    <3>. DEFINE m == Request("nonce", x, nextState["nonce"], [tx |-> x.tx, slot |-> s], None)
    <3>1. m \in UpdateReq
      BY <2>1, RequestType DEF nextState, State, Payload, ChainTx
    <3>2. Justified(m)
      BY <2>1, NonceJustified
    <3>. QED
      BY <1>4, <3>1, <3>2, JustifiedPersists DEF UpdateTransaction
  <2>4. CASE UpdateTransaction("nonce", Request("nonce", x, "Fail", None, None))
    <3>. DEFINE m == Request("nonce", x, "Fail", None, None)
    <3>1. m \in UpdateReq /\ Justified(m)
      BY <2>1, RequestType, FailJustified DEF State, Payload
    <3>. QED
      BY <1>4, <2>4, <3>1, JustifiedPersists DEF UpdateTransaction
  <2>. QED
    BY <1>3, <2>2, <2>3, <2>4 DEF Nonce
<1>7. CASE SubmitAccepted
  <2>. PICK x \in TransInfo : x = job["broadcast"]
    BY <1>7, SubmittingItem DEF SubmitAccepted, Submitting
  <2>. DEFINE m == Request("broadcast", x, nextState["broadcast"], x.payload, x.payload)
  <2>1. /\ x.payload \in ChainTx /\ x.tx \in Tx
        /\ x.payload = signed[x.tx] /\ x.tx \in Registered
    BY <1>1, <1>7, SubmittingItem
    DEF SubmitAccepted, Submitting, WorkersKnow, Known, Worker
  <2>2. /\ net' = net \cup {m}
        /\ accepted' = accepted \cup {x.payload} /\ UNCHANGED signed
    BY <1>7 DEF SubmitAccepted, UpdateTransaction, Accept
  <2>3. m \in UpdateReq
    BY <2>1, RequestType DEF nextState, State, Payload, Worker
  <2>4. Justified(m)'
    BY <2>1, <2>2, CoinStays DEF Justified, Request, Sent, tState, nextState, Worker
  <2>. QED  BY <1>4, <2>2, <2>3, <2>4
<1>8. CASE BroadcastEnd
  <2>. PICK x \in TransInfo : x = job["broadcast"]
    BY <1>8, SubmittingItem DEF BroadcastEnd
  <2>. DEFINE m == Request("broadcast", x, "Fail", None, None)
  <2>1. m \in UpdateReq /\ Justified(m)
    BY RequestType, FailJustified DEF State, Payload, Worker
  <2>2. net' \subseteq net \/ net' = net \cup {m}
    BY <1>8 DEF BroadcastEnd, UpdateTransaction
  <2>. QED
    BY <1>3, <1>4, <2>1, <2>2, JustifiedPersists
<1>9. CASE \E x \in batch["sync"] : SyncTx(x)
  <2>. PICK x \in batch["sync"] : SyncTx(x)
    BY <1>9
  <2>. DEFINE m == Request("sync", x, nextState["sync"], None, None)
              f == Request("sync", x, "Fail", None, None)
  <2>1. x \in TransInfo /\ Known("sync", x)
    BY <1>1, TakeType DEF SyncTx, WorkersKnow, Worker
  <2>2. m \in UpdateReq /\ f \in UpdateReq
    BY <2>1, RequestType DEF nextState, State, Payload, Worker
  <2>3. \/ net' = net
        \/ net' = net \cup {m} /\ x.payload \in mined \ reverted
        \/ net' = net \cup {f} /\ x.payload \in reverted
    BY DEF SyncTx, UpdateTransaction
  <2>. QED
    BY <1>1, <1>3, <1>4, <2>1, <2>2, <2>3, SyncJustified, JustifiedPersists
<1>10. \/ net' \subseteq net
       \/ \E w \in Worker : \E x \in batch[w] : Unregistered(w, x)
       \/ \E x \in batch["nonce"] : Nonce(x)
       \/ SubmitAccepted \/ BroadcastEnd
       \/ \E x \in batch["sync"] : SyncTx(x)
  BY NextCases
  DEF GetTransactions, UpdateReturns, UpdateTimesOut, HandlerFails, BroadcastBegin,
      SubmitReplyLost, SubmitRefused, NodeUnusable, Crash, ProxyApply, Lose, SignerSigns,
      Mine, Drop, Age
<1>. QED
  BY <1>3, <1>5, <1>6, <1>7, <1>8, <1>9, <1>10

LEMMA NextWorkersKnow ==
  ASSUME Inv, Next
  PROVE  WorkersKnow'
<1>1. TypeOK /\ ProxyKnows /\ WorkersKnow
  BY DEF Inv
<1>2. \A w \in Worker : \A x \in TransInfo : Known(w, x) => Known(w, x)'
  BY KnownPersists
<1>3. \A w \in Worker : \A x \in batch[w] : x \in TransInfo /\ Known(w, x)
  BY <1>1 DEF WorkersKnow, TypeOK
<1>4. ASSUME \A w \in Worker : batch'[w] \subseteq batch[w],
             UNCHANGED <<pc, job>>
      PROVE  WorkersKnow'
  BY <1>1, <1>2, <1>3, <1>4 DEF WorkersKnow
<1>5. ASSUME NEW v \in Worker,
             \A w \in Worker : batch'[w] \subseteq batch[w],
             \A w \in Worker \ {v} : pc'[w] = pc[w] /\ job'[w] = job[w],
             \/ pc'[v] = "idle"
             \/ pc'[v] = "update" /\ job'[v] \in UpdateReq
      PROVE  WorkersKnow'
  BY <1>1, <1>2, <1>3, <1>5 DEF WorkersKnow
<1>6. ASSUME NEW v \in Worker, NEW m \in UpdateReq, UpdateTransaction(v, m),
             \A w \in Worker : batch'[w] \subseteq batch[w]
      PROVE  WorkersKnow'
  BY <1>1, <1>5, <1>6 DEF UpdateTransaction, TypeOK
<1>7. ASSUME NEW v \in Worker, RetryLater(v), UNCHANGED batch
      PROVE  WorkersKnow'
  BY <1>1, <1>5, <1>7 DEF RetryLater, TypeOK
<1>8. ASSUME NEW v \in Worker, NEW x, Take(v, x)
      PROVE  \A w \in Worker : batch'[w] \subseteq batch[w]
  BY <1>1, <1>8 DEF Take, TypeOK
<1>9. CASE \E w \in Worker : GetTransactions(w)
  <2>. PICK v \in Worker : GetTransactions(v)
    BY <1>9
  <2>1. \A x \in batch'[v] : x \in TransInfo /\ Known(v, x)
    BY <1>1 DEF GetTransactions, TypeOK, TransInfo, ProxyKnows, Known, tState, Worker
  <2>2. UNCHANGED <<pc, job>> /\ \A w \in Worker \ {v} : batch'[w] = batch[w]
    BY <1>1 DEF GetTransactions, TypeOK
  <2>. QED
    BY <1>1, <1>2, <1>3, <2>1, <2>2 DEF WorkersKnow
<1>10. CASE \E w \in Worker : UpdateReturns(w) \/ UpdateTimesOut(w)
  BY <1>7, <1>10 DEF UpdateReturns, UpdateTimesOut
<1>11. CASE \E w \in Worker : \E x \in batch[w] : Unregistered(w, x) \/ HandlerFails(w, x)
  <2>. PICK w \in Worker : \E x \in batch[w] : Unregistered(w, x) \/ HandlerFails(w, x)
    BY <1>11
  <2>. PICK x \in batch[w] : Unregistered(w, x) \/ HandlerFails(w, x)
    OBVIOUS
  <2>1. Request(w, x, "Fail", None, None) \in UpdateReq
    BY <1>3, RequestType DEF State, Payload
  <2>. QED
    BY <1>4, <1>6, <1>8, <2>1 DEF Unregistered, HandlerFails
<1>12. CASE \E x \in batch["nonce"] : Nonce(x)
  <2>. PICK x \in batch["nonce"] : Nonce(x)
    BY <1>12
  <2>1. "nonce" \in Worker /\ x \in TransInfo /\ x.tx \in Tx /\ From[x.tx] \in Account
    BY <1>3, ConstantsAssumption DEF Worker, TransInfo
  <2>2. /\ Request("nonce", x, "Fail", None, None) \in UpdateReq
        /\ \A s \in SlotView(From[x.tx]) :
             Request("nonce", x, nextState["nonce"], [tx |-> x.tx, slot |-> s], None)
               \in UpdateReq
    BY <2>1, SlotViewType, RequestType DEF nextState, State, Payload, ChainTx
  <2>. QED
    BY <1>4, <1>6, <1>8, <2>1, <2>2 DEF Nonce
<1>13. CASE \E x \in batch["broadcast"] : BroadcastBegin(x)
  <2>. PICK x \in batch["broadcast"] : BroadcastBegin(x)
    BY <1>13
  <2>1. "broadcast" \in Worker /\ x \in TransInfo /\ Known("broadcast", x)
    BY <1>3 DEF Worker
  <2>2. \A w \in Worker : batch'[w] \subseteq batch[w]
    BY <1>8, <2>1 DEF BroadcastBegin
  <2>3. /\ pc' = [pc EXCEPT !["broadcast"] = "submit"]
        /\ job' = [job EXCEPT !["broadcast"] = x]
    BY DEF BroadcastBegin
  <2>. QED
    BY <1>1, <1>2, <1>3, <2>1, <2>2, <2>3 DEF WorkersKnow, TypeOK
<1>14. CASE SubmitAccepted \/ BroadcastEnd
  <2>. PICK x \in TransInfo : x = job["broadcast"]
    BY <1>14, SubmittingItem DEF SubmitAccepted, BroadcastEnd, Submitting
  <2>1. "broadcast" \in Worker /\ x.payload \in ChainTx
    BY <1>14, SubmittingItem DEF SubmitAccepted, BroadcastEnd, Submitting, Worker
  <2>2. /\ Request("broadcast", x, "Fail", None, None) \in UpdateReq
        /\ Request("broadcast", x, nextState["broadcast"], x.payload, x.payload) \in UpdateReq
    BY <2>1, RequestType DEF nextState, State, Payload
  <2>. QED
    BY <1>6, <1>7, <1>14, <2>1, <2>2 DEF SubmitAccepted, BroadcastEnd
<1>15. CASE \E x \in batch["sync"] : SyncTx(x)
  <2>. PICK x \in batch["sync"] : SyncTx(x)
    BY <1>15
  <2>1. "sync" \in Worker /\ x \in TransInfo
    BY <1>3 DEF Worker
  <2>2. /\ Request("sync", x, "Fail", None, None) \in UpdateReq
        /\ Request("sync", x, nextState["sync"], None, None) \in UpdateReq
    BY <2>1, RequestType DEF nextState, State, Payload
  <2>. QED
    BY <1>4, <1>6, <1>8, <2>1, <2>2 DEF SyncTx
<1>16. CASE Crash
  BY <1>16 DEF Crash, WorkersKnow
<1>17. CASE UNCHANGED workerVars
  BY <1>4, <1>17 DEF workerVars
<1>18. \/ UNCHANGED workerVars
       \/ \E w \in Worker : GetTransactions(w) \/ UpdateReturns(w) \/ UpdateTimesOut(w)
       \/ \E w \in Worker : \E x \in batch[w] : Unregistered(w, x) \/ HandlerFails(w, x)
       \/ \E x \in batch["nonce"] : Nonce(x)
       \/ \E x \in batch["broadcast"] : BroadcastBegin(x)
       \/ SubmitAccepted \/ BroadcastEnd
       \/ \E x \in batch["sync"] : SyncTx(x)
       \/ Crash
  BY NextCases
  DEF SubmitReplyLost, SubmitRefused, NodeUnusable, ProxyApply, Lose, SignerSigns, Mine,
      Drop, Age, workerVars
<1>. QED
  BY <1>9, <1>10, <1>11, <1>12, <1>13, <1>14, <1>15, <1>16, <1>17, <1>18

LEMMA InitInv == Init => Inv
BY InitTypeOK
DEF Init, Inv, OnlySignedIsSent, ProxyKnows, RequestsAreTrue, WorkersKnow

LEMMA NextInv == Inv /\ [Next]_vars => Inv'
<1>1. ASSUME Inv, Next
      PROVE  Inv'
  BY <1>1, NextTypeOK, NextOnlySignedIsSent, NextProxyKnows, NextRequestsAreTrue,
     NextWorkersKnow
  DEF Inv
<1>2. ASSUME Inv, UNCHANGED vars
      PROVE  Inv'
  BY <1>2
  DEF Inv, TypeOK, OnlySignedIsSent, ProxyKnows, RequestsAreTrue, Justified, WorkersKnow,
      Known, Sent, Registered, vars, proxyVars, chainVars, workerVars, loopVars, faultVars
<1>. QED  BY <1>1, <1>2

(* Inv holds in every state of the pipeline: handle_nonce.go,               *)
(* handle_broadcast.go and handle_sync.go, interleaved with one another and *)
(* with a proxy, a signer and nodes that lose, delay and forget.            *)
THEOREM Invariance == Spec => []Inv
BY InitInv, NextInv, PTL DEF Spec

(* Type correctness. *)
THEOREM TypeCorrect == Spec => []TypeOK
<1>1. Inv => TypeOK
  BY DEF Inv
<1>. QED  BY <1>1, Invariance, PTL

(* No transaction is executed twice on the chain, whatever is retried.      *)
THEOREM AtMostOnce == Spec => []PaidOnce
<1>1. Inv => PaidOnce
  BY DEF Inv, OnlySignedIsSent, PaidOnce, TypeOK, ChainTx
<1>. QED  BY <1>1, Invariance, PTL

(* syncTx moves a transaction to Done only when its CID was executed.       *)
THEOREM DoneIsPaid == Spec => []DoneMeansPaid
<1>1. Inv => DoneMeansPaid
  <2>. SUFFICES ASSUME Inv, NEW t \in Tx, pstate[t] = "Done"
                PROVE  cid[t] \in mined \ reverted /\ cid[t].tx = t
    BY DEF DoneMeansPaid
  <2>1. cid[t] = signed[t] /\ signed[t] \in mined \ reverted
    BY DEF Inv, ProxyKnows
  <2>2. signed[t].tx = t
    BY <2>1, NoneAssumption DEF Inv, TypeOK, OnlySignedIsSent, OfTx
  <2>. QED  BY <2>1, <2>2
<1>. QED  BY <1>1, Invariance, PTL

(* broadcast hands a transaction to syncTx only when a node took it.        *)
THEOREM SyncedIsSent == Spec => []SyncedWasSent
<1>1. Inv => SyncedWasSent
  BY DEF Inv, ProxyKnows, SyncedWasSent
<1>. QED  BY <1>1, Invariance, PTL

-----------------------------------------------------------------------------
(* Whose fault it is: FailedPaidOnlyIfBlamed, from Inv and BlameInv.        *)

(* A step that concerns the broadcast worker only in that it may lose a     *)
(* request and blame the transaction for it.                                *)
Quiet ==
  /\ UNCHANGED <<pstate, signed, accepted>>
  /\ pc'["broadcast"] = pc["broadcast"]
  /\ job'["broadcast"] = job["broadcast"]
  /\ batch'["broadcast"] = batch["broadcast"]
  /\ reverted \subseteq reverted'
  /\ blamed \subseteq blamed'
  /\ \A m \in net' \ net : m.old # "Broadcast"
  /\ \A m \in net \ net' : m.tx \in blamed'

(* Such a step takes no blame away, so that BlameInv stays as it is.        *)
LEMMA QuietKeeps ==
  ASSUME BlameInv, Quiet
  PROVE  BlameInv'
<1>1. \A t \in Tx : Sent(t)' <=> Sent(t)
  BY DEF Quiet, Sent
<1>2. \A x : Unsent(x)' <=> Unsent(x)
  BY DEF Quiet, Unsent, Sent
<1>3. TakenOnce'
  BY DEF BlameInv, TakenOnce, Quiet
<1>4. AnsweredInTurn'
  BY <1>2 DEF BlameInv, AnsweredInTurn, Quiet
<1>5. UnsentUntilSubmitted'
  BY <1>2 DEF BlameInv, UnsentUntilSubmitted, Quiet
<1>6. SentIsReported'
  BY <1>1 DEF BlameInv, SentIsReported, Quiet
<1>7. FailedIsUnsent'
  BY <1>1 DEF BlameInv, FailedIsUnsent, Quiet
<1>. QED  BY <1>3, <1>4, <1>5, <1>6, <1>7 DEF BlameInv

(* The steps that are not quiet.                                            *)
LEMMA QuietSteps ==
  ASSUME Inv, Next
  PROVE  \/ Quiet
         \/ GetTransactions("broadcast") \/ UpdateReturns("broadcast")
         \/ UpdateTimesOut("broadcast") \/ Crash
         \/ \E x \in batch["broadcast"] : BroadcastBegin(x)
         \/ SubmitAccepted \/ SubmitReplyLost \/ BroadcastEnd
         \/ \E m \in net : ProxyApply(m)
         \/ \E t \in Tx : SignerSigns(t)
<1>1. TypeOK /\ WorkersKnow
  BY DEF Inv
<1>2. ASSUME NEW w \in Worker \ {"broadcast"},
             GetTransactions(w) \/ UpdateReturns(w) \/ UpdateTimesOut(w)
      PROVE  Quiet
  <2>1. CASE GetTransactions(w)
    BY <1>1, <2>1 DEF Quiet, GetTransactions, TypeOK, Worker, proxyVars, chainVars, faultVars
  <2>2. CASE UpdateReturns(w)
    BY <1>1, <2>2
    DEF Quiet, UpdateReturns, RetryLater, TypeOK, Worker, proxyVars, chainVars, faultVars
  <2>3. CASE UpdateTimesOut(w)
    BY <1>1, <2>3
    DEF Quiet, UpdateTimesOut, RetryLater, Fault, TypeOK, Worker, proxyVars, chainVars
  <2>. QED  BY <1>2, <2>1, <2>2, <2>3
<1>3. ASSUME NEW w \in Worker, NEW x \in batch[w], Unregistered(w, x) \/ HandlerFails(w, x)
      PROVE  Quiet
  <2>1. w # "broadcast"
    BY <1>1, <1>3 DEF Unregistered, HandlerFails, WorkersKnow, Known
  <2>2. batch'["broadcast"] = batch["broadcast"]
    BY <1>1, <1>3, <2>1 DEF Unregistered, HandlerFails, Take, TypeOK, Worker
  <2>3. CASE Unregistered(w, x)
    <3>1. Request(w, x, "Fail", None, None).old # "Broadcast"
      BY <2>1 DEF Request, tState, Worker
    <3>. QED
      BY <1>1, <2>1, <2>2, <2>3, <3>1
      DEF Quiet, Unregistered, UpdateTransaction, TypeOK, proxyVars, chainVars, faultVars
  <2>4. CASE HandlerFails(w, x)
    BY <2>2, <2>4 DEF Quiet, HandlerFails, Fault, proxyVars, chainVars
  <2>. QED  BY <1>3, <2>3, <2>4
<1>4. ASSUME NEW x \in batch["nonce"], Nonce(x)
      PROVE  Quiet
  BY <1>1, <1>4
  DEF Quiet, Nonce, UpdateTransaction, Request, tState, Take, TypeOK, Worker,
      proxyVars, chainVars, loopVars, faultVars
<1>5. ASSUME NEW x \in batch["sync"], SyncTx(x)
      PROVE  Quiet
  BY <1>1, <1>5
  DEF Quiet, SyncTx, UpdateTransaction, Request, tState, Take, TypeOK, Worker,
      proxyVars, chainVars, loopVars, faultVars
<1>6. CASE SubmitRefused \/ NodeUnusable
  BY <1>6
  DEF Quiet, SubmitRefused, NodeUnusable, Fault, proxyVars, chainVars, workerVars, faultVars
<1>7. ASSUME NEW m \in net, Lose(m)
      PROVE  Quiet
  BY <1>7 DEF Quiet, Lose, Fault, proxyVars, chainVars, workerVars
<1>8. ASSUME NEW c \in pool, Mine(c) \/ Drop(c)
      PROVE  Quiet
  BY <1>8 DEF Quiet, Mine, Drop, Fault, proxyVars, workerVars, faultVars
<1>9. ASSUME NEW s \in Slot, Age(s)
      PROVE  Quiet
  BY <1>9 DEF Quiet, Age, proxyVars, workerVars, faultVars
<1>. QED
  BY <1>2, <1>3, <1>4, <1>5, <1>6, <1>7, <1>8, <1>9, NextCases

(* The proxy's answer: only a request about the stored state moves it.      *)
LEMMA ApplyMoves ==
  ASSUME Inv, NEW m \in net, ProxyApply(m), NEW t \in Tx, pstate'[t] # pstate[t]
  PROVE  t = m.tx /\ pstate[t] = m.old /\ pstate'[t] = m.new
BY DEF Inv, TypeOK, ProxyApply, proxyVars, UpdateReq

LEMMA ApplyBlame ==
  ASSUME Inv, BlameInv, NEW m \in net, ProxyApply(m)
  PROVE  BlameInv'
<1>1. /\ UNCHANGED <<signed, accepted, reverted, pc, job, batch, blamed>>
      /\ net' = net \ {m} /\ m \in UpdateReq /\ m.tx \in Tx
  BY DEF ProxyApply, chainVars, workerVars, faultVars, Inv, TypeOK, UpdateReq
<1>2. \A t \in Tx : Sent(t)' <=> Sent(t)
  BY <1>1 DEF Sent
<1>3. ASSUME NEW t \in Tx, pstate'[t] # pstate[t]
      PROVE  t = m.tx /\ pstate[t] = m.old /\ pstate'[t] = m.new
  BY <1>3, ApplyMoves
<1>4. m.new # "Broadcast" /\ m.old \in {"Wait", "Broadcast", "Sync"}
  BY DEF Inv, RequestsAreTrue, Justified, tState, nextState, Worker
<1>5. TakenOnce'
  BY <1>1 DEF BlameInv, TakenOnce
<1>6. AnsweredInTurn'
  <2>. SUFFICES ASSUME NEW n \in net', n.old = "Broadcast", n.tx \notin blamed, n.new = "Fail"
                PROVE  Unsent(n)'
    BY <1>1 DEF BlameInv, AnsweredInTurn
  <2>1. n \in net /\ n # m /\ n.tx \in Tx
    BY <1>1 DEF Inv, TypeOK, UpdateReq
  <2>2. Unsent(n) /\ job["broadcast"] = n
    BY <1>1, <2>1 DEF BlameInv, AnsweredInTurn
  <2>3. pstate'[n.tx] = pstate[n.tx]
    <3>. SUFFICES ASSUME pstate'[n.tx] # pstate[n.tx]
                  PROVE  FALSE
      OBVIOUS
    <3>1. n.tx = m.tx /\ m.old = "Broadcast"
      BY <1>3, <2>1, <2>2 DEF Unsent
    <3>2. job["broadcast"] = m
      BY <1>1, <3>1 DEF BlameInv, AnsweredInTurn
    <3>. QED  BY <2>1, <2>2, <3>2
  <2>. QED  BY <1>2, <2>1, <2>2, <2>3 DEF Unsent
<1>7. UnsentUntilSubmitted'
  <2>1. ASSUME NEW t \in Tx, t \notin blamed, pstate[t] = "Broadcast", pstate'[t] # "Broadcast"
        PROVE  pc["broadcast"] = "update" /\ job["broadcast"].tx = t
    <3>1. t = m.tx /\ m.old = "Broadcast"
      BY <1>3, <2>1
    <3>. QED
      BY <2>1, <3>1 DEF BlameInv, AnsweredInTurn
  <2>2. \A x \in batch["broadcast"] : x.tx \in Tx
    BY DEF Inv, TypeOK, TransInfo, Worker
  <2>3. ASSUME NEW x \in batch["broadcast"], x.tx \notin blamed
        PROVE  Unsent(x)'
    <3>1. Unsent(x)
      BY <2>3 DEF BlameInv, UnsentUntilSubmitted
    <3>2. pstate'[x.tx] = "Broadcast"
      BY <2>1, <2>2, <2>3, <3>1 DEF Unsent, BlameInv, TakenOnce
    <3>. QED  BY <1>2, <2>2, <3>1, <3>2 DEF Unsent
  <2>4. ASSUME pc["broadcast"] = "submit", job["broadcast"].tx \notin blamed
        PROVE  Unsent(job["broadcast"])'
    <3>1. Unsent(job["broadcast"]) /\ job["broadcast"].tx \in Tx
      BY <2>4, SubmittingItem DEF BlameInv, UnsentUntilSubmitted
    <3>2. pstate'[job["broadcast"].tx] = "Broadcast"
      BY <2>1, <2>4, <3>1 DEF Unsent
    <3>. QED  BY <1>1, <1>2, <3>1, <3>2 DEF Unsent
  <2>. QED  BY <1>1, <2>3, <2>4 DEF UnsentUntilSubmitted
<1>8. SentIsReported'
  <2>. SUFFICES ASSUME NEW t \in Tx, pstate'[t] = "Broadcast", Sent(t)', t \notin blamed
                PROVE  \E n \in net' : n.tx = t /\ n.old = "Broadcast" /\ n.new = "Sync"
    BY <1>1 DEF SentIsReported
  <2>1. pstate[t] = "Broadcast" /\ Sent(t)
    BY <1>2, <1>3, <1>4
  <2>2. PICK n \in net : n.tx = t /\ n.old = "Broadcast" /\ n.new = "Sync"
    BY <2>1 DEF BlameInv, SentIsReported
  <2>3. n # m
    BY <2>1, <2>2 DEF ProxyApply, Inv, TypeOK
  <2>. QED  BY <1>1, <2>2, <2>3
<1>9. FailedIsUnsent'
  <2>. SUFFICES ASSUME NEW t \in Tx, pstate'[t] = "Fail", t \notin blamed, Sent(t)
                PROVE  signed[t] \in reverted
    BY <1>1, <1>2 DEF FailedIsUnsent
  <2>1. CASE pstate[t] = "Fail"
    BY <2>1 DEF BlameInv, FailedIsUnsent
  <2>2. CASE pstate[t] # "Fail"
    <3>1. t = m.tx /\ pstate[t] = m.old /\ m.new = "Fail"
      BY <1>3, <2>2
    <3>2. m.old # "Wait"
      BY <3>1, NoneAssumption DEF Inv, ProxyKnows, Sent, TypeOK
    <3>3. m.old # "Broadcast"
      BY <3>1 DEF BlameInv, AnsweredInTurn, Unsent
    <3>4. m.old = "Sync"
      BY <1>4, <3>2, <3>3
    <3>. QED
      BY <3>1, <3>4 DEF Inv, RequestsAreTrue, Justified
  <2>. QED  BY <2>1, <2>2
<1>. QED  BY <1>5, <1>6, <1>7, <1>8, <1>9 DEF BlameInv

(* Signing concerns a transaction that no node has taken and no worker of   *)
(* broadcast has met.                                                       *)
LEMMA SignBlame ==
  ASSUME Inv, BlameInv, NEW u \in Tx, SignerSigns(u)
  PROVE  BlameInv'
<1>1. /\ UNCHANGED <<accepted, reverted, pc, job, batch, blamed, net>>
      /\ \A t \in Tx : t # u => pstate'[t] = pstate[t] /\ signed'[t] = signed[t]
      /\ pstate[u] = "Sign" /\ pstate'[u] = "Broadcast" /\ signed'[u] = payload[u]
  BY DEF SignerSigns, chainVars, workerVars, faultVars, Inv, TypeOK
<1>2. ~Sent(u) /\ ~Sent(u)'
  <2>1. signed[u] = None /\ payload[u] \in ChainTx /\ payload[u].tx = u
    BY <1>1 DEF Inv, ProxyKnows, OfTx
  <2>2. payload[u] \notin accepted
    BY <2>1, NoneAssumption DEF Inv, OnlySignedIsSent
  <2>3. None \notin accepted
    BY NoneAssumption DEF Inv, TypeOK
  <2>. QED  BY <1>1, <2>1, <2>2, <2>3 DEF Sent
<1>3. \A t \in Tx : Sent(t)' <=> Sent(t)
  BY <1>1, <1>2 DEF Sent
<1>4. \A x : x.tx \in Tx /\ Unsent(x) => Unsent(x)'
  BY <1>1, <1>3 DEF Unsent
<1>5. /\ \A m \in net : m.tx \in Tx
      /\ \A x \in batch["broadcast"] : x.tx \in Tx
      /\ pc["broadcast"] = "submit" => job["broadcast"].tx \in Tx
  BY SubmittingItem DEF Inv, TypeOK, UpdateReq, TransInfo, Worker
<1>6. TakenOnce'
  BY <1>1 DEF BlameInv, TakenOnce
<1>7. AnsweredInTurn'
  BY <1>1, <1>4, <1>5 DEF BlameInv, AnsweredInTurn
<1>8. UnsentUntilSubmitted'
  BY <1>1, <1>4, <1>5 DEF BlameInv, UnsentUntilSubmitted
<1>9. SentIsReported'
  BY <1>1, <1>2, <1>3 DEF BlameInv, SentIsReported
<1>10. FailedIsUnsent'
  BY <1>1, <1>3 DEF BlameInv, FailedIsUnsent
<1>. QED  BY <1>6, <1>7, <1>8, <1>9, <1>10 DEF BlameInv

(* The steps of the broadcast worker, and a crash.                          *)
LEMMA PollBlame ==
  ASSUME Inv, BlameInv, GetTransactions("broadcast")
  PROVE  BlameInv'
<1>1. /\ UNCHANGED <<pstate, signed, accepted, reverted, pc, job, blamed, net>>
      /\ pc["broadcast"] = "idle"
      /\ \A x \in batch'["broadcast"] : x.tx \in Tx /\ pstate[x.tx] = "Broadcast"
  BY DEF GetTransactions, proxyVars, chainVars, faultVars, Inv, TypeOK, tState, Worker
<1>2. \A x : Unsent(x)' <=> Unsent(x)
  BY <1>1 DEF Unsent, Sent
<1>3. \A x \in batch'["broadcast"] : x.tx \in blamed \/ Unsent(x)
  BY <1>1 DEF BlameInv, AnsweredInTurn, SentIsReported, Unsent
<1>. QED
  BY <1>1, <1>2, <1>3
  DEF BlameInv, TakenOnce, AnsweredInTurn, UnsentUntilSubmitted, SentIsReported,
      FailedIsUnsent, Sent

LEMMA UpdateEndsBlame ==
  ASSUME Inv, BlameInv, UpdateReturns("broadcast") \/ UpdateTimesOut("broadcast")
  PROVE  BlameInv'
<1>1. /\ UNCHANGED <<pstate, signed, accepted, reverted, batch, net>>
      /\ pc'["broadcast"] = "idle"
  BY DEF UpdateReturns, UpdateTimesOut, RetryLater, proxyVars, chainVars, Inv, TypeOK, Worker
<1>2. blamed \subseteq blamed'
  BY DEF UpdateReturns, UpdateTimesOut, Fault, faultVars
<1>3. \A m \in net : m.old = "Broadcast" => m.tx \in blamed'
  BY DEF BlameInv, AnsweredInTurn, UpdateReturns, UpdateTimesOut, Fault, faultVars
<1>4. \A x : Unsent(x)' <=> Unsent(x)
  BY <1>1 DEF Unsent, Sent
<1>. QED
  BY <1>1, <1>2, <1>3, <1>4
  DEF BlameInv, TakenOnce, AnsweredInTurn, UnsentUntilSubmitted, SentIsReported,
      FailedIsUnsent, Sent

LEMMA CrashBlame ==
  ASSUME Inv, BlameInv, Crash
  PROVE  BlameInv'
<1>1. /\ UNCHANGED <<pstate, signed, accepted, reverted, net>>
      /\ pc'["broadcast"] = "idle" /\ batch'["broadcast"] = {}
  BY DEF Crash, proxyVars, chainVars, Worker
<1>2. /\ blamed \subseteq blamed'
      /\ pc["broadcast"] # "idle" => job["broadcast"].tx \in blamed'
  BY DEF Crash, Fault, Worker
<1>3. \A m \in net : m.old = "Broadcast" => m.tx \in blamed'
  BY <1>2 DEF BlameInv, AnsweredInTurn
<1>. QED
  BY <1>1, <1>2, <1>3
  DEF BlameInv, TakenOnce, AnsweredInTurn, UnsentUntilSubmitted, SentIsReported,
      FailedIsUnsent, Sent

LEMMA BeginBlame ==
  ASSUME Inv, BlameInv, NEW x \in batch["broadcast"], BroadcastBegin(x)
  PROVE  BlameInv'
<1>1. /\ UNCHANGED <<pstate, signed, accepted, reverted, blamed, net>>
      /\ pc["broadcast"] = "idle"
      /\ pc'["broadcast"] = "submit" /\ job'["broadcast"] = x
      /\ batch'["broadcast"] = batch["broadcast"] \ {x}
  BY DEF BroadcastBegin, Take, proxyVars, chainVars, faultVars, Inv, TypeOK, Worker
<1>2. \A y \in batch["broadcast"] : y \in TransInfo /\ y.payload = signed[y.tx]
  BY DEF Inv, TypeOK, WorkersKnow, Known, Worker
<1>3. TakenOnce'
  BY <1>1, <1>2 DEF TakenOnce, TransInfo
<1>4. \A y : Unsent(y)' <=> Unsent(y)
  BY <1>1 DEF Unsent, Sent
<1>. QED
  BY <1>1, <1>3, <1>4
  DEF BlameInv, AnsweredInTurn, UnsentUntilSubmitted, SentIsReported, FailedIsUnsent, Sent

(* A node takes what is being submitted: only this transaction is now sent, *)
(* and either it is reported or the lost answer is to blame.                *)
LEMMA SubmitBlame ==
  ASSUME Inv, BlameInv, SubmitAccepted \/ SubmitReplyLost
  PROVE  BlameInv'
<1>. DEFINE x == job["broadcast"]
            m == Request("broadcast", x, "Sync", x.payload, x.payload)
<1>1. pc["broadcast"] = "submit" /\ UNCHANGED <<pstate, signed, reverted, batch>>
  BY DEF SubmitAccepted, SubmitReplyLost, Submitting, Accept, proxyVars, workerVars
<1>2. /\ x.payload \in ChainTx /\ x.tx \in Tx /\ x.payload.tx = x.tx
      /\ accepted' = accepted \cup {x.payload}
  BY <1>1, SubmittingItem DEF SubmitAccepted, SubmitReplyLost, Accept
<1>3. \A t \in Tx : t # x.tx => (Sent(t)' <=> Sent(t))
  <2>1. \A t \in Tx : signed[t] = x.payload => t = x.tx
    BY <1>2, NoneAssumption DEF Inv, OnlySignedIsSent, OfTx
  <2>. QED  BY <1>1, <1>2, <2>1 DEF Sent
<1>4. x.tx \in blamed \/ Unsent(x)
  BY <1>1 DEF BlameInv, UnsentUntilSubmitted
<1>5. \A n \in net : n.old = "Broadcast" => n.tx \in blamed
  BY <1>1 DEF BlameInv, AnsweredInTurn
<1>6. \/ /\ net' = net \cup {m} /\ blamed' = blamed
         /\ pc'["broadcast"] = "update" /\ job'["broadcast"] = m
      \/ /\ net' = net /\ blamed' = blamed \cup {x.tx}
         /\ pc'["broadcast"] = "submit" /\ job'["broadcast"] = x
  <2>1. CASE SubmitAccepted
    <3>1. nextState["broadcast"] = "Sync"
      BY DEF nextState
    <3>. QED
      BY <2>1, <3>1 DEF SubmitAccepted, UpdateTransaction, Inv, TypeOK, Worker, faultVars
  <2>2. CASE SubmitReplyLost
    BY <1>1, <2>2 DEF SubmitReplyLost, Fault, workerVars
  <2>. QED  BY <2>1, <2>2
<1>7. m.tx = x.tx /\ m.old = "Broadcast" /\ m.new = "Sync"
  BY DEF Request, tState
<1>8. \A y \in batch["broadcast"] : y.tx \in Tx /\ y.tx # x.tx
  BY <1>1 DEF BlameInv, TakenOnce, Inv, TypeOK, TransInfo, Worker
<1>. HIDE DEF m, x
<1>9. TakenOnce'
  BY <1>1, <1>6, <1>7, <1>8 DEF TakenOnce
<1>10. AnsweredInTurn'
  BY <1>5, <1>6, <1>7 DEF AnsweredInTurn
<1>11. UnsentUntilSubmitted'
  <2>1. \A y \in batch["broadcast"] : Unsent(y) => Unsent(y)'
    BY <1>1, <1>3, <1>8 DEF Unsent
  <2>. QED
    BY <1>1, <1>6, <2>1 DEF BlameInv, UnsentUntilSubmitted
<1>12. SentIsReported'
  BY <1>1, <1>3, <1>6, <1>7 DEF BlameInv, SentIsReported
<1>13. FailedIsUnsent'
  BY <1>1, <1>3, <1>4, <1>6 DEF BlameInv, FailedIsUnsent, Unsent
<1>. QED  BY <1>9, <1>10, <1>11, <1>12, <1>13 DEF BlameInv

(* Giving up, or leaving the transaction for a later tick, changes nothing  *)
(* on the chain.                                                            *)
LEMMA EndBlame ==
  ASSUME Inv, BlameInv, BroadcastEnd
  PROVE  BlameInv'
<1>. DEFINE x == job["broadcast"]
            m == Request("broadcast", x, "Fail", None, None)
<1>1. /\ pc["broadcast"] = "submit"
      /\ UNCHANGED <<pstate, signed, accepted, reverted, batch, blamed>>
  BY DEF BroadcastEnd, proxyVars, chainVars, faultVars
<1>2. x.tx \in blamed \/ Unsent(x)
  BY <1>1 DEF BlameInv, UnsentUntilSubmitted
<1>3. \A n \in net : n.old = "Broadcast" => n.tx \in blamed
  BY <1>1 DEF BlameInv, AnsweredInTurn
<1>4. \/ net' = net \cup {m} /\ pc'["broadcast"] = "update" /\ job'["broadcast"] = m
      \/ net' = net /\ pc'["broadcast"] = "idle"
  BY DEF BroadcastEnd, UpdateTransaction, RetryLater, Inv, TypeOK, Worker
<1>5. m.tx = x.tx
  BY DEF Request
<1>6. \A y : Unsent(y)' <=> Unsent(y)
  BY <1>1 DEF Unsent, Sent
<1>7. Unsent(x) => Unsent(m)
  BY <1>5 DEF Unsent
<1>8. \A y \in batch["broadcast"] : y.tx # x.tx
  BY <1>1 DEF BlameInv, TakenOnce
<1>. HIDE DEF m, x
<1>9. TakenOnce'
  BY <1>1, <1>4, <1>5, <1>8 DEF TakenOnce
<1>10. AnsweredInTurn'
  BY <1>1, <1>2, <1>3, <1>4, <1>5, <1>6, <1>7 DEF AnsweredInTurn
<1>11. UnsentUntilSubmitted'
  BY <1>1, <1>4, <1>6 DEF BlameInv, UnsentUntilSubmitted
<1>12. SentIsReported' /\ FailedIsUnsent'
  BY <1>1, <1>4 DEF BlameInv, SentIsReported, FailedIsUnsent, Sent
<1>. QED  BY <1>9, <1>10, <1>11, <1>12 DEF BlameInv

LEMMA NextBlame == Inv /\ BlameInv /\ [Next]_vars => BlameInv'
<1>1. ASSUME Inv, BlameInv, Next
      PROVE  BlameInv'
  BY <1>1, QuietSteps, QuietKeeps, PollBlame, UpdateEndsBlame, CrashBlame, BeginBlame,
     SubmitBlame, EndBlame, ApplyBlame, SignBlame
<1>2. ASSUME BlameInv, UNCHANGED vars
      PROVE  BlameInv'
  BY <1>2, QuietKeeps
  DEF Quiet, vars, proxyVars, chainVars, workerVars, faultVars
<1>. QED  BY <1>1, <1>2

(* A transaction whose answers all came in time is booked as failed by      *)
(* handle_broadcast.go or handle_sync.go only when it was not paid.         *)
THEOREM FailWithoutBlame == Spec => []FailedPaidOnlyIfBlamed
<1>1. Init => BlameInv
  BY NoneAssumption
  DEF Init, BlameInv, TakenOnce, AnsweredInTurn, UnsentUntilSubmitted, SentIsReported,
      FailedIsUnsent, Sent, Worker
<1>2. Inv /\ BlameInv => FailedPaidOnlyIfBlamed
  <2>. SUFFICES ASSUME Inv, BlameInv, NEW t \in Tx, pstate[t] = "Fail", Paid(t)
                PROVE  t \in blamed
    BY DEF FailedPaidOnlyIfBlamed
  <2>1. PICK c \in mined \ reverted : c.tx = t
    BY DEF Paid
  <2>2. signed[t] = c /\ Sent(t)
    BY <2>1 DEF Inv, OnlySignedIsSent, Sent
  <2>. QED
    BY <2>1, <2>2 DEF BlameInv, FailedIsUnsent
<1>. QED
  BY <1>1, <1>2, Invariance, NextBlame, PTL DEF Spec

-----------------------------------------------------------------------------
(* Coins whose rules call no answer to a broadcast final: what is booked as *)
(* failed was never signed, or failed on the chain.                         *)
NeverGivenUp ==
  /\ apiErr # "no_funds"
  /\ \A m \in net : m.old = "Broadcast" => m.new # "Fail"
  /\ \A t \in Tx : pstate[t] = "Fail" => signed[t] = None \/ signed[t] \in reverted

LEMMA NextNeverGivenUp ==
  ASSUME NoAnswerAborts, Inv, NeverGivenUp, Next
  PROVE  NeverGivenUp'
<1>1. apiErr' # "no_funds"
  <2>1. \A c : "no_funds" \notin Answers(c)
    BY DEF Answers
  <2>2. CASE SubmitRefused
    BY <2>1, <2>2 DEF SubmitRefused
  <2>3. apiErr' \in {apiErr, None, "transport"} \/ SubmitRefused
    BY NextCases
    DEF GetTransactions, UpdateReturns, UpdateTimesOut, Unregistered, HandlerFails, Nonce,
        BroadcastBegin, SyncTx, SubmitAccepted, SubmitReplyLost, NodeUnusable,
        BroadcastEnd, Crash, ProxyApply, Lose, SignerSigns, Mine, Drop, Age, loopVars
  <2>. QED
    BY <2>2, <2>3, NoneAssumption DEF NeverGivenUp, NodeError
<1>2. \A m \in net' : m.old = "Broadcast" => m.new # "Fail"
  <2>1. CASE Quiet
    BY <2>1 DEF Quiet, NeverGivenUp
  <2>2. CASE BroadcastEnd
    <3>1. apiErr \notin AbortOn
      BY DEF NeverGivenUp, NoAnswerAborts
    <3>. QED  BY <2>2, <3>1 DEF BroadcastEnd, NeverGivenUp
  <2>3. CASE SubmitAccepted
    <3>1. nextState["broadcast"] # "Fail"
      BY DEF nextState
    <3>. QED
      BY <2>3, <3>1 DEF SubmitAccepted, UpdateTransaction, Request, NeverGivenUp
  <2>4. net' \subseteq net \/ Quiet \/ BroadcastEnd \/ SubmitAccepted
    BY QuietSteps
    DEF GetTransactions, UpdateReturns, UpdateTimesOut, Crash, BroadcastBegin,
        SubmitReplyLost, ProxyApply, SignerSigns, faultVars, workerVars
  <2>. QED  BY <2>1, <2>2, <2>3, <2>4 DEF NeverGivenUp
<1>3. ASSUME NEW t \in Tx, pstate'[t] = "Fail"
      PROVE  signed'[t] = None \/ signed'[t] \in reverted'
  <2>1. CASE \E u \in Tx : SignerSigns(u)
    BY <1>3, <2>1 DEF NeverGivenUp, SignerSigns, chainVars, Inv, TypeOK
  <2>2. CASE \E m \in net : ProxyApply(m)
    <3>. PICK m \in net : ProxyApply(m)
      BY <2>2
    <3>1. UNCHANGED <<signed, reverted>>
      BY DEF ProxyApply, chainVars
    <3>2. CASE pstate[t] = "Fail"
      BY <3>1, <3>2 DEF NeverGivenUp
    <3>3. CASE pstate[t] # "Fail"
      <4>1. t = m.tx /\ pstate[t] = m.old /\ m.new = "Fail"
        BY <1>3, <3>3, ApplyMoves
      <4>2. m.old \in {"Wait", "Sync"}
        BY <4>1 DEF NeverGivenUp, Inv, RequestsAreTrue, Justified, tState, Worker
      <4>. QED
        BY <3>1, <4>1, <4>2 DEF Inv, ProxyKnows, RequestsAreTrue, Justified
    <3>. QED  BY <3>2, <3>3
  <2>3. CASE UNCHANGED <<pstate, signed>>
    BY <1>3, <2>3, Persists DEF NeverGivenUp
  <2>4. \/ UNCHANGED <<pstate, signed>>
        \/ \E m \in net : ProxyApply(m)
        \/ \E u \in Tx : SignerSigns(u)
    BY NextCases
    DEF GetTransactions, UpdateReturns, UpdateTimesOut, Unregistered, HandlerFails, Nonce,
        BroadcastBegin, SyncTx, SubmitAccepted, SubmitReplyLost, SubmitRefused, NodeUnusable,
        BroadcastEnd, Crash, Lose, Mine, Drop, Age, proxyVars
  <2>. QED  BY <2>1, <2>2, <2>3, <2>4
<1>. QED  BY <1>1, <1>2, <1>3 DEF NeverGivenUp

(* With rules that abort on no answer to a broadcast, as those of btc and   *)
(* depinc, no paid transaction is ever booked as failed.                    *)
THEOREM FailMeansUnpaid == Spec => []PaidNeverFailedWithoutAbort
<1>. DEFINE I == NoAnswerAborts => NeverGivenUp
<1>1. Init => I
  BY NoneAssumption DEF Init, NeverGivenUp, NodeError
<1>2. Inv /\ I /\ [Next]_vars => I'
  <2>1. ASSUME I, UNCHANGED vars
        PROVE  I'
    BY <2>1 DEF NeverGivenUp, NoAnswerAborts, AbortOn, vars, proxyVars, chainVars, loopVars
  <2>2. ASSUME Inv, I, Next
        PROVE  I'
    <3>1. NoAnswerAborts' = NoAnswerAborts
      BY <2>2, CoinStays DEF NoAnswerAborts, AbortOn
    <3>. QED  BY <2>2, <3>1, NextNeverGivenUp
  <2>. QED  BY <2>1, <2>2
<1>3. Inv /\ I => PaidNeverFailedWithoutAbort
  <2>. SUFFICES ASSUME Inv, NeverGivenUp, NEW t \in Tx, pstate[t] = "Fail",
                       NEW c \in mined \ reverted, c.tx = t
                PROVE  FALSE
    BY DEF PaidNeverFailedWithoutAbort, PaidNeverFailed, Paid
  <2>1. signed[t] = c /\ c # None
    BY NoneAssumption DEF Inv, TypeOK, OnlySignedIsSent
  <2>. QED  BY <2>1 DEF NeverGivenUp
<1>. QED
  BY <1>1, <1>2, <1>3, Invariance, PTL DEF Spec

-----------------------------------------------------------------------------
(* What the proxy's books never take back.                                  *)

(* A TxID is recorded with the step to Sync, and not before: no other       *)
(* request carries one.                                                     *)
TxIDsWithSync ==
  /\ \A t \in Tx : pstate[t] \in {"Wait", "Sign", "Broadcast"} => cid[t] = None
  /\ \A m \in net : m.new # "Sync" => m.cid = None

(* A settled transaction stays as it is, and a recorded TxID is never       *)
(* replaced, by no late, repeated or overtaken request.                     *)
Kept(t) ==
  /\ Settled(t) => pstate'[t] = pstate[t]
  /\ cid[t] # None => cid'[t] = cid[t]
  /\ signed[t] # None => signed'[t] = signed[t]
BooksStand == [][\A t \in Tx : Kept(t)]_vars

(* The steps that write to the books.                                       *)
LEMMA BookSteps ==
  ASSUME Next
  PROVE  \/ UNCHANGED <<pstate, cid>>
         \/ \E m \in net : ProxyApply(m)
         \/ \E t \in Tx : SignerSigns(t)
BY NextCases
DEF GetTransactions, UpdateReturns, UpdateTimesOut, Unregistered, HandlerFails, Nonce,
    BroadcastBegin, SyncTx, SubmitAccepted, SubmitReplyLost, SubmitRefused, NodeUnusable,
    BroadcastEnd, Crash, Lose, Mine, Drop, Age, proxyVars

(* A request goes forward, and names a TxID only with the step to Sync.     *)
LEMMA RequestsGoForward ==
  ASSUME Inv, NEW m \in net
  PROVE  /\ m.tx \in Tx
         /\ \/ m.old = "Wait" /\ m.new \in {"Sign", "Fail"}
            \/ m.old = "Broadcast" /\ m.new \in {"Sync", "Fail"}
            \/ m.old = "Sync" /\ m.new \in {"Done", "Fail"}
<1>1. m \in UpdateReq /\ Justified(m)
  BY DEF Inv, TypeOK, RequestsAreTrue
<1>2. PICK w \in Worker : m.old = tState[w] /\ m.new \in {nextState[w], "Fail"}
  BY <1>1 DEF Justified
<1>. QED
  BY <1>1, <1>2 DEF Worker, tState, nextState, UpdateReq

LEMMA NewRequestsCarryNone ==
  ASSUME Next, NEW m \in net', m \notin net, m.new # "Sync"
  PROVE  m.cid = None
<1>1. CASE \E w \in Worker : \E x \in batch[w] : Unregistered(w, x)
  BY <1>1 DEF Unregistered, UpdateTransaction, Request
<1>2. CASE \E x \in batch["nonce"] : Nonce(x)
  BY <1>2 DEF Nonce, UpdateTransaction, Request
<1>3. CASE SubmitAccepted
  BY <1>3 DEF SubmitAccepted, UpdateTransaction, Request, nextState
<1>4. CASE BroadcastEnd
  BY <1>4 DEF BroadcastEnd, UpdateTransaction, Request
<1>5. CASE \E x \in batch["sync"] : SyncTx(x)
  BY <1>5 DEF SyncTx, UpdateTransaction, Request
<1>6. CASE \E w \in Worker : GetTransactions(w) \/ UpdateReturns(w) \/ UpdateTimesOut(w)
  BY <1>6 DEF GetTransactions, UpdateReturns, UpdateTimesOut
<1>7. CASE \E w \in Worker : \E x \in batch[w] : HandlerFails(w, x)
  BY <1>7 DEF HandlerFails
<1>8. CASE \E x \in batch["broadcast"] : BroadcastBegin(x)
  BY <1>8 DEF BroadcastBegin
<1>9. CASE SubmitReplyLost \/ SubmitRefused \/ NodeUnusable \/ Crash
  BY <1>9 DEF SubmitReplyLost, SubmitRefused, NodeUnusable, Crash
<1>10. CASE \E n \in net : ProxyApply(n) \/ Lose(n)
  BY <1>10 DEF ProxyApply, Lose
<1>11. CASE \E t \in Tx : SignerSigns(t)
  BY <1>11 DEF SignerSigns
<1>12. CASE \E c \in pool : Mine(c) \/ Drop(c)
  BY <1>12 DEF Mine, Drop
<1>13. CASE \E s \in Slot : Age(s)
  BY <1>13 DEF Age
<1>. QED
  BY <1>1, <1>2, <1>3, <1>4, <1>5, <1>6, <1>7, <1>8, <1>9, <1>10, <1>11, <1>12, <1>13, NextCases

LEMMA NextTxIDsWithSync ==
  ASSUME Inv, TxIDsWithSync, Next
  PROVE  TxIDsWithSync'
<1>1. \A m \in net' : m.new # "Sync" => m.cid = None
  BY NewRequestsCarryNone DEF TxIDsWithSync
<1>. SUFFICES ASSUME NEW t \in Tx, pstate'[t] \in {"Wait", "Sign", "Broadcast"}
              PROVE  cid'[t] = None
  BY <1>1 DEF TxIDsWithSync
<1>2. CASE UNCHANGED <<pstate, cid>>
  BY <1>2 DEF TxIDsWithSync
<1>3. ASSUME NEW m \in net, ProxyApply(m)
      PROVE  cid'[t] = None
  <2>1. CASE pstate[m.tx] = m.old /\ t = m.tx
    <3>1. pstate'[t] = m.new /\ cid'[t] = IF m.cid = None THEN cid[t] ELSE m.cid
      BY <1>3, <2>1 DEF ProxyApply, Inv, TypeOK
    <3>2. m.old = "Wait" /\ m.new = "Sign"
      BY <3>1, RequestsGoForward
    <3>3. m.cid = None /\ cid[t] = None
      BY <2>1, <3>2 DEF TxIDsWithSync
    <3>. QED  BY <3>1, <3>3
  <2>2. CASE ~(pstate[m.tx] = m.old /\ t = m.tx)
    <3>1. pstate'[t] = pstate[t] /\ cid'[t] = cid[t]
      BY <1>3, <2>2 DEF ProxyApply, Inv, TypeOK, proxyVars
    <3>. QED  BY <3>1 DEF TxIDsWithSync
  <2>. QED  BY <2>1, <2>2
<1>4. ASSUME NEW u \in Tx, SignerSigns(u)
      PROVE  cid'[t] = None
  <2>1. pstate[t] \in {"Wait", "Sign", "Broadcast"} /\ cid'[t] = cid[t]
    BY <1>4 DEF SignerSigns, Inv, TypeOK
  <2>. QED  BY <2>1 DEF TxIDsWithSync
<1>. QED
  BY <1>2, <1>3, <1>4, BookSteps

LEMMA NextKeeps ==
  ASSUME Inv, TxIDsWithSync, Next, NEW t \in Tx
  PROVE  Kept(t)
<1>1. signed[t] # None => signed'[t] = signed[t]
  BY Persists
<1>2. CASE UNCHANGED <<pstate, cid>>
  BY <1>1, <1>2 DEF Kept
<1>3. ASSUME NEW m \in net, ProxyApply(m)
      PROVE  Kept(t)
  <2>1. CASE pstate[m.tx] = m.old /\ t = m.tx
    <3>1. cid'[t] = IF m.cid = None THEN cid[t] ELSE m.cid
      BY <1>3, <2>1 DEF ProxyApply, Inv, TypeOK
    <3>2. ~Settled(t)
      BY <2>1, RequestsGoForward DEF Settled
    <3>3. cid[t] # None => m.cid = None
      BY <2>1, RequestsGoForward DEF TxIDsWithSync
    <3>. QED  BY <1>1, <3>1, <3>2, <3>3 DEF Kept
  <2>2. CASE ~(pstate[m.tx] = m.old /\ t = m.tx)
    <3>1. pstate'[t] = pstate[t] /\ cid'[t] = cid[t]
      BY <1>3, <2>2 DEF ProxyApply, Inv, TypeOK, proxyVars
    <3>. QED  BY <1>1, <3>1 DEF Kept
  <2>. QED  BY <2>1, <2>2
<1>4. ASSUME NEW u \in Tx, SignerSigns(u)
      PROVE  Kept(t)
  BY <1>1, <1>4 DEF SignerSigns, Kept, Settled, Inv, TypeOK
<1>. QED
  BY <1>2, <1>3, <1>4, BookSteps

(* Done and Fail are final, the TxID a transaction was booked under at      *)
(* handle_broadcast.go:137 stays its TxID, and its signed bytes are never   *)
(* made anew, though requests arrive late, twice or after a restart.        *)
THEOREM BooksAreFinal == Spec => BooksStand
<1>1. Init => TxIDsWithSync
  BY DEF Init, TxIDsWithSync
<1>2. Inv /\ TxIDsWithSync /\ [Next]_vars => TxIDsWithSync'
  <2>1. ASSUME TxIDsWithSync, UNCHANGED vars
        PROVE  TxIDsWithSync'
    BY <2>1 DEF TxIDsWithSync, vars, proxyVars
  <2>. QED  BY <2>1, NextTxIDsWithSync
<1>3. Inv /\ TxIDsWithSync /\ [Next]_vars => [\A t \in Tx : Kept(t)]_vars
  BY NextKeeps
<1>. QED
  BY <1>1, <1>2, <1>3, Invariance, PTL DEF Spec, BooksStand

-----------------------------------------------------------------------------
(* Which coins these are.                                                   *)
Rules == INSTANCE CoinRules

(* bitcoin and depinc by their stop lists, usdtbep20 as nobody registered   *)
(* one for it.                                                              *)
QuietCoins == {"bitcoin", "depinc", "usdtbep20"}
AbortsOn(c) == {e \in Rules!NodeError : Rules!Abort(c, e)}

(* A coin type has one function, or none. *)
LEMMA Registrations ==
  /\ \A r \in Rules!AbortFuncErrs : r[1] = "ethereum" <=> r = <<"ethereum", "eth">>
  /\ \A c \in {"usdcerc20", "binancecoin", "binanceusd"}, r \in Rules!AbortFuncErrs :
       r[1] = c <=> r = <<c, "bsc">>
  /\ \A r \in Rules!AbortFuncErrs : r[1] = "filecoin" <=> r = <<"filecoin", "fil">>
  /\ \A r \in Rules!AbortFuncErrs : r[1] = "bitcoin" <=> r = <<"bitcoin", "btc">>
  /\ \A r \in Rules!AbortFuncErrs : r[1] = "depinc" <=> r = <<"depinc", "depinc">>
  /\ \A r \in Rules!AbortFuncErrs : r[1] = "solana" <=> r = <<"solana", "sol">>
  /\ \A c \in {"tron", "usdttrc20"}, r \in Rules!AbortFuncErrs :
       r[1] = c <=> r = <<c, "tron">>
  /\ \A r \in Rules!AbortFuncErrs : r[1] # "usdtbep20"
  /\ {<<"ethereum", "eth">>, <<"usdcerc20", "bsc">>, <<"binancecoin", "bsc">>,
      <<"binanceusd", "bsc">>, <<"filecoin", "fil">>, <<"solana", "sol">>,
      <<"tron", "tron">>, <<"usdttrc20", "tron">>} \subseteq Rules!AbortFuncErrs
BY DEF Rules!AbortFuncErrs, Rules!ethRegisters, Rules!usdcRegisters, Rules!bscRegisters,
   Rules!bep20Registers, Rules!filRegisters, Rules!btcRegisters, Rules!depincRegisters,
   Rules!solRegisters, Rules!tronRegisters, Rules!trc20Registers

(* What the nodes say to a broadcast. *)
Said(c, e) == Rules!NodeText[Rules!ChainOf[c]][e]

LEMMA Chains ==
  /\ DOMAIN Rules!ChainOf = {"ethereum", "usdcerc20", "binancecoin", "binanceusd", "usdtbep20",
        "filecoin", "bitcoin", "depinc", "solana", "tron", "usdttrc20"}
  /\ \A c \in {"ethereum", "usdcerc20"} : Rules!ChainOf[c] = "eth"
  /\ \A c \in {"binancecoin", "binanceusd"} : Rules!ChainOf[c] = "bsc"
  /\ Rules!ChainOf["filecoin"] = "fil" /\ Rules!ChainOf["solana"] = "sol"
  /\ Rules!ChainOf["bitcoin"] = "btc" /\ Rules!ChainOf["depinc"] = "depinc"
  /\ \A c \in {"tron", "usdttrc20"} : Rules!ChainOf[c] = "tron"
BY DEF Rules!ChainOf

(* What the lists find in an answer to a broadcast. *)
LEMMA StoppingTexts ==
  /\ Rules!NodeText["eth"]["slot_spent"] \in Rules!stopErrMsg["bsc"] \cap Rules!stopErrMsg["eth"]
  /\ Rules!NodeText["bsc"]["slot_spent"] \in Rules!stopErrMsg["bsc"]
  /\ Rules!NodeText["fil"]["slot_spent"] \in Rules!stopErrMsg["fil"]
  /\ Rules!NodeText["sol"]["expired"] \in Rules!stopErrMsg["sol"]
  /\ Rules!NodeText["tron"]["expired"] \in Rules!stopErrMsg["tron"]
<1> USE DEF Rules!stopErrMsg, Rules!ethStop, Rules!bscStop, Rules!filStop, Rules!solStop,
            Rules!tronStop
<1>1. /\ Rules!NodeText["eth"]["slot_spent"] = "nonce too low"
      /\ Rules!NodeText["bsc"]["slot_spent"] = "nonce too low"
      /\ Rules!NodeText["fil"]["slot_spent"] = "message nonce too low"
      /\ Rules!NodeText["sol"]["expired"] = "Transaction simulation failed"
      /\ Rules!NodeText["tron"]["expired"] = "Transaction expired"
  BY DEF Rules!NodeText
<1> QED
  BY <1>1

(* ... and what they do not find. *)
LEMMA OtherTexts ==
  ASSUME NEW p \in {"btc", "depinc"}, NEW e \in Rules!NodeError, e # "no_funds"
  PROVE  Rules!NodeText[p][e] \notin Rules!stopErrMsg[p]
<1> DEFINE said == [already_known |-> "already in block chain",
                    slot_spent |-> "missing inputs", pool_conflict |-> "mempool conflict",
                    expired |-> "-", no_funds |-> "insufficient balance",
                    transport |-> "timeout"]
           stops == {"insufficient balance", "list unspent address fail",
                     "env value", "address invalid", "amount invalid"}
<1>1. Rules!NodeText["btc"] = said /\ Rules!NodeText["depinc"] = said
  BY DEF Rules!NodeText
<1>2. Rules!stopErrMsg["btc"] = stops /\ Rules!stopErrMsg["depinc"] = stops
  BY DEF Rules!stopErrMsg, Rules!btcStop, Rules!depincStop
<1>3. said[e] \notin stops
  <2>1. e \in {"already_known", "slot_spent", "pool_conflict", "expired", "transport"}
    BY DEF Rules!NodeError
  <2>2. CASE e = "already_known"
    BY <2>2
  <2>3. CASE e = "slot_spent"
    BY <2>3
  <2>4. CASE e = "pool_conflict"
    BY <2>4
  <2>5. CASE e = "expired"
    BY <2>5
  <2>6. CASE e = "transport"
    BY <2>6
  <2> QED
    BY <2>1, <2>2, <2>3, <2>4, <2>5, <2>6
<1> QED
  BY <1>1, <1>2, <1>3

(* The coins for which getter.Abort (getter.go:86-111) accepts no answer to *)
(* a broadcast, by the stop lists and the registrations of the packages.    *)
THEOREM QuietCoinsAre ==
  \A c \in DOMAIN Rules!ChainOf : AbortsOn(c) \subseteq {"no_funds"} <=> c \in QuietCoins
<1> USE DEF AbortsOn, Rules!Abort, Rules!TxFailErr
<1>1. ASSUME NEW c \in {"ethereum", "usdcerc20", "binancecoin", "binanceusd", "filecoin"}
      PROVE  "slot_spent" \in AbortsOn(c)
  <2>1. CASE c = "ethereum"
    BY <2>1, Registrations, Chains, StoppingTexts DEF Rules!NodeError
  <2>2. CASE c = "usdcerc20"
    BY <2>2, Registrations, Chains, StoppingTexts DEF Rules!NodeError
  <2>3. CASE c \in {"binancecoin", "binanceusd"}
    BY <2>3, Registrations, Chains, StoppingTexts DEF Rules!NodeError
  <2>4. CASE c = "filecoin"
    BY <2>4, Registrations, Chains, StoppingTexts DEF Rules!NodeError
  <2> QED
    BY <1>1, <2>1, <2>2, <2>3, <2>4
<1>2. ASSUME NEW c \in {"solana", "tron", "usdttrc20"} PROVE "expired" \in AbortsOn(c)
  <2>1. CASE c = "solana"
    BY <2>1, Registrations, Chains, StoppingTexts DEF Rules!NodeError
  <2>2. CASE c \in {"tron", "usdttrc20"}
    BY <2>2, Registrations, Chains, StoppingTexts DEF Rules!NodeError
  <2> QED
    BY <1>2, <2>1, <2>2
<1>3. AbortsOn("usdtbep20") = {}
  BY Registrations
<1>4. ASSUME NEW c \in {"bitcoin", "depinc"} PROVE AbortsOn(c) \subseteq {"no_funds"}
  BY <1>4, Registrations, Chains, OtherTexts
<1> QED
  BY <1>1, <1>2, <1>3, <1>4, Chains DEF QuietCoins

(* With the stop lists and registrations of the code, a paid transaction of *)
(* bitcoin, depinc or usdtbep20 is never booked as failed                   *)
(* (handle_broadcast.go:108-120).                                           *)
THEOREM FailMeansUnpaidByCoin ==
  ASSUME \A c \in Coins : c \in DOMAIN Rules!ChainOf /\ AbortOf[c] = AbortsOn(c)
  PROVE  Spec => [](coin \in QuietCoins => PaidNeverFailed)
<1>1. Inv /\ PaidNeverFailedWithoutAbort => (coin \in QuietCoins => PaidNeverFailed)
  BY QuietCoinsAre DEF Inv, TypeOK, PaidNeverFailedWithoutAbort, NoAnswerAborts, AbortOn
<1>. QED
  BY <1>1, Invariance, FailMeansUnpaid, PTL

-----------------------------------------------------------------------------
(* The broadcast handler's loop over the nodes is a call as NodeCall        *)
(* promises it, which NodeChoice shows WithClient to implement.             *)

callLeft == Endpoints - tries
callBest ==
  IF apiErr # None THEN apiErr ELSE IF tries = 0 THEN "nil" ELSE "unusable"
callResult == IF apiErr \in StopOnNode THEN apiErr ELSE "none"

Call == INSTANCE NodeCall WITH
  MaxNodes <- Endpoints, AnswerError <- NodeError, NodeError <- {"unusable"},
  left <- callLeft, best <- callBest, result <- callResult

InCall == pc["broadcast"] = "submit"

(* A broadcast begins a call and makes its steps; it ends it with a node    *)
(* that took the transaction, or with getter.Abort's opinion of what the    *)
(* call returns when no node is left, or dies.                              *)
Asks(new) == pc'["broadcast"] = "update" /\ job'["broadcast"].new = new
CallBegins == InCall' /\ Call!Init'
CallGoesOn == InCall' /\ [Call!Next]_(Call!vars)
CallEnds ==
  /\ ~InCall'
  /\ \/ callLeft > 0 /\ Asks("Sync")
     \/ callLeft = 0 /\ IF callBest \in AbortOn THEN Asks("Fail") ELSE pc'["broadcast"] = "idle"
     \/ Crash
BroadcastCalls ==
  [][IF InCall THEN CallGoesOn \/ CallEnds ELSE CallBegins \/ ~InCall']_vars

(* What it rests on: after a final answer no node is left. *)
FinalAnswerEnds == InCall /\ apiErr \in StopOnNode => tries = Endpoints

(* The steps that have to do with the loop. *)
LEMMA LoopSteps ==
  ASSUME Inv, Next
  PROVE  \/ UNCHANGED <<tries, apiErr>> /\ (InCall' <=> InCall)
         \/ \E x \in batch["broadcast"] : BroadcastBegin(x)
         \/ SubmitAccepted \/ SubmitReplyLost \/ SubmitRefused \/ NodeUnusable
         \/ BroadcastEnd \/ Crash
<1>1. pc \in [Worker -> {"idle", "submit", "update"}]
  BY DEF Inv, TypeOK
<1>2. ASSUME NEW w \in Worker, GetTransactions(w) \/ UpdateReturns(w) \/ UpdateTimesOut(w)
      PROVE  UNCHANGED <<tries, apiErr>> /\ (InCall' <=> InCall)
  BY <1>1, <1>2
  DEF GetTransactions, UpdateReturns, UpdateTimesOut, RetryLater, loopVars, InCall, Worker
<1>3. ASSUME NEW w \in Worker, NEW x \in batch[w], Unregistered(w, x) \/ HandlerFails(w, x)
      PROVE  UNCHANGED <<tries, apiErr>> /\ (InCall' <=> InCall)
  BY <1>1, <1>3
  DEF Unregistered, HandlerFails, Take, UpdateTransaction, loopVars, InCall, Worker
<1>4. ASSUME NEW x \in batch["nonce"], Nonce(x)
      PROVE  UNCHANGED <<tries, apiErr>> /\ (InCall' <=> InCall)
  BY <1>1, <1>4 DEF Nonce, UpdateTransaction, loopVars, InCall, Worker
<1>5. ASSUME NEW x \in batch["sync"], SyncTx(x)
      PROVE  UNCHANGED <<tries, apiErr>> /\ (InCall' <=> InCall)
  BY <1>1, <1>5 DEF SyncTx, UpdateTransaction, loopVars, InCall, Worker
<1>6. ASSUME NEW m \in net, ProxyApply(m) \/ Lose(m)
      PROVE  UNCHANGED <<tries, apiErr>> /\ (InCall' <=> InCall)
  BY <1>6 DEF ProxyApply, Lose, workerVars, loopVars, InCall
<1>7. ASSUME NEW t \in Tx, SignerSigns(t)
      PROVE  UNCHANGED <<tries, apiErr>> /\ (InCall' <=> InCall)
  BY <1>7 DEF SignerSigns, workerVars, loopVars, InCall
<1>8. ASSUME NEW c \in pool, Mine(c) \/ Drop(c)
      PROVE  UNCHANGED <<tries, apiErr>> /\ (InCall' <=> InCall)
  BY <1>8 DEF Mine, Drop, workerVars, loopVars, InCall
<1>9. ASSUME NEW s \in Slot, Age(s)
      PROVE  UNCHANGED <<tries, apiErr>> /\ (InCall' <=> InCall)
  BY <1>9 DEF Age, workerVars, loopVars, InCall
<1>. QED
  BY <1>2, <1>3, <1>4, <1>5, <1>6, <1>7, <1>8, <1>9, NextCases

(* What the types say of the loop, in NodeCall's terms. *)
LEMMA CallFacts ==
  ASSUME TypeOK
  PROVE  /\ Endpoints \in Nat /\ Endpoints > 0 /\ tries \in 0 .. Endpoints
         /\ callLeft \in 0 .. Endpoints /\ (callLeft = 0 <=> tries = Endpoints)
         /\ apiErr \in NodeError \cup {None} /\ StopOnNode \subseteq NodeError
         /\ None \notin NodeError /\ "nil" \notin NodeError /\ "unusable" \notin NodeError
         /\ AbortOn \subseteq NodeError
<1>1. /\ Endpoints \in Nat /\ Endpoints > 0 /\ tries \in 0 .. Endpoints
      /\ apiErr \in NodeError \cup {None} /\ StopOnNode \subseteq NodeError
      /\ AbortOn \subseteq NodeError /\ None \notin NodeError
  BY ConstantsAssumption, NoneAssumption DEF TypeOK, StopOnNode, AbortOn
<1>2. "nil" \notin NodeError /\ "unusable" \notin NodeError
  BY DEF NodeError
<1>. QED  BY <1>1, <1>2 DEF callLeft

LEMMA NextCalls ==
  ASSUME Inv, Inv', FinalAnswerEnds, Next, "transport" \notin StopOnNode
  PROVE  /\ FinalAnswerEnds'
         /\ IF InCall THEN CallGoesOn \/ CallEnds ELSE CallBegins \/ ~InCall'
<1>0. TypeOK /\ StopOnNode' = StopOnNode /\ Inv
  BY CoinStays DEF Inv, StopOnNode
<1>1. CASE UNCHANGED <<tries, apiErr>> /\ (InCall' <=> InCall)
  <2>1. FinalAnswerEnds' /\ UNCHANGED Call!vars
    BY <1>0, <1>1 DEF FinalAnswerEnds, Call!vars, callLeft, callBest, callResult
  <2>. QED  BY <1>1, <2>1 DEF CallGoesOn
<1>2. CASE \E x \in batch["broadcast"] : BroadcastBegin(x)
  <2>1. tries' = 0 /\ apiErr' = None /\ InCall' /\ ~InCall
    BY <1>0, <1>2 DEF BroadcastBegin, Take, InCall, TypeOK, Worker
  <2>2. callLeft' = Endpoints /\ callBest' = "nil" /\ callResult' = "none"
    BY <1>0, <2>1, CallFacts DEF callLeft, callBest, callResult
  <2>3. Call!Init'
    BY <1>0, <2>2, CallFacts DEF Call!Init
  <2>4. FinalAnswerEnds'
    BY <1>0, <2>1, CallFacts DEF FinalAnswerEnds
  <2>. QED  BY <2>1, <2>3, <2>4 DEF CallBegins
<1>3. ASSUME Submitting
      PROVE  /\ InCall /\ callLeft > 0 /\ callLeft - 1 = Endpoints - (tries + 1)
             /\ callResult = "none" /\ tries + 1 # 0
  <2>1. InCall /\ tries < Endpoints
    BY <1>3 DEF Submitting, InCall
  <2>2. callLeft > 0 /\ callLeft - 1 = Endpoints - (tries + 1) /\ tries + 1 # 0
    BY <1>0, <2>1, CallFacts DEF callLeft
  <2>3. callResult = "none"
    BY <1>0, <2>1, CallFacts DEF callResult, FinalAnswerEnds
  <2>. QED  BY <2>1, <2>2, <2>3
<1>4. CASE SubmitAccepted
  <2>1. InCall /\ callLeft > 0
    BY <1>3, <1>4 DEF SubmitAccepted
  <2>2. ~InCall' /\ Asks("Sync")
    BY <1>0, <1>4
    DEF Asks, SubmitAccepted, UpdateTransaction, Request, nextState, InCall, TypeOK, Worker
  <2>. QED  BY <2>1, <2>2 DEF CallEnds, FinalAnswerEnds
<1>5. CASE SubmitReplyLost
  <2>1. Submitting /\ InCall' /\ tries' = tries + 1 /\ apiErr' = "transport"
    BY <1>3, <1>5 DEF SubmitReplyLost, workerVars, InCall
  <2>2. /\ callLeft' = callLeft - 1 /\ callBest' = "transport" /\ callResult' = "none"
        /\ "transport" \in NodeError
    BY <1>0, <1>3, <2>1, CallFacts DEF callLeft, callBest, callResult, NodeError
  <2>3. Call!Asked
    BY <1>3, <2>1, <2>2 DEF Call!Asked, Call!Answer
  <2>. QED
    BY <1>0, <1>3, <2>1, <2>3 DEF CallGoesOn, Call!Next, FinalAnswerEnds
<1>6. CASE SubmitRefused
  <2>1. PICK e \in NodeError :
          apiErr' = e /\ tries' = IF e \in StopOnNode THEN Endpoints ELSE tries + 1
    BY <1>6 DEF SubmitRefused
  <2>2. Submitting /\ InCall' /\ InCall
    BY <1>3, <1>6 DEF SubmitRefused, workerVars, InCall
  <2>3. callBest' = e /\ callResult' = IF e \in StopOnNode THEN e ELSE "none"
    BY <1>0, <2>1, CallFacts DEF callBest, callResult
  <2>4. CASE e \in StopOnNode
    <3>1. callLeft' = 0
      BY <1>0, <2>1, <2>4, CallFacts DEF callLeft
    <3>2. Call!Satisfied
      BY <1>3, <2>2, <2>3, <2>4, <3>1 DEF Call!Satisfied, Call!Answer
    <3>. QED
      BY <2>1, <2>2, <2>4, <3>2 DEF CallGoesOn, Call!Next, FinalAnswerEnds
  <2>5. CASE e \notin StopOnNode
    <3>1. callLeft' = callLeft - 1
      BY <1>3, <2>1, <2>2, <2>5 DEF callLeft
    <3>2. Call!Asked
      BY <1>3, <2>2, <2>3, <2>5, <3>1 DEF Call!Asked, Call!Answer
    <3>. QED
      BY <1>0, <2>1, <2>2, <2>5, <3>2 DEF CallGoesOn, Call!Next, FinalAnswerEnds
  <2>. QED  BY <2>4, <2>5
<1>7. CASE NodeUnusable
  <2>1. Submitting /\ InCall /\ InCall' /\ tries' = tries + 1 /\ apiErr' = apiErr
    BY <1>3, <1>7 DEF NodeUnusable, workerVars, InCall
  <2>2. callLeft' = callLeft - 1 /\ callResult' = callResult
    BY <1>0, <1>3, <2>1 DEF callLeft, callResult
  <2>3. callBest' = IF callBest \in NodeError THEN callBest ELSE "unusable"
    BY <1>0, <1>3, <2>1, CallFacts DEF callBest
  <2>4. Call!NotAsked
    BY <1>3, <2>1, <2>2, <2>3 DEF Call!NotAsked
  <2>5. FinalAnswerEnds'
    BY <1>0, <1>3, <2>1, CallFacts DEF FinalAnswerEnds, Submitting
  <2>. QED
    BY <2>1, <2>4, <2>5 DEF CallGoesOn, Call!Next
<1>8. CASE BroadcastEnd
  <2>1. InCall /\ callLeft = 0 /\ tries # 0
    BY <1>0, <1>8, CallFacts DEF BroadcastEnd, InCall, callLeft
  <2>2. callBest \in AbortOn <=> apiErr \in AbortOn
    BY <1>0, <2>1, CallFacts DEF callBest
  <2>3. ~InCall'
    BY <1>0, <1>8
    DEF BroadcastEnd, UpdateTransaction, RetryLater, InCall, TypeOK, Worker
  <2>4. IF apiErr \in AbortOn THEN Asks("Fail") ELSE pc'["broadcast"] = "idle"
    BY <1>0, <1>8
    DEF Asks, BroadcastEnd, UpdateTransaction, Request, RetryLater, TypeOK, Worker
  <2>. QED  BY <2>1, <2>2, <2>3, <2>4 DEF CallEnds, FinalAnswerEnds
<1>9. CASE Crash
  <2>1. ~InCall'
    BY <1>9 DEF Crash, InCall, Worker
  <2>. QED  BY <1>9, <2>1 DEF CallEnds, FinalAnswerEnds
<1>. QED
  BY <1>1, <1>2, <1>4, <1>5, <1>6, <1>7, <1>8, <1>9, LoopSteps

(* A node that does not answer is not one that answered for good. *)
LEMMA TransportIsNotFinal ==
  \A p \in {"eth", "bsc", "fil", "btc", "depinc", "sol", "tron"} : ~Rules!Final(p, "transport")
<1>1. /\ Rules!NodeText["eth"]["transport"] = "timeout"
      /\ Rules!NodeText["bsc"]["transport"] = "timeout"
      /\ Rules!NodeText["sol"]["transport"] = "timeout"
  BY DEF Rules!NodeText
<1>2. /\ "timeout" \notin Rules!stopErrMsg["eth"] /\ "timeout" \notin Rules!stopErrMsg["bsc"]
      /\ "timeout" \notin Rules!stopErrMsg["sol"]
  BY DEF Rules!stopErrMsg, Rules!ethStop, Rules!bscStop, Rules!solStop
<1>. QED
  BY <1>1, <1>2
  DEF Rules!Final, Rules!ethFinal, Rules!bscFinal, Rules!solFinal, Rules!tronFinal,
      Rules!TxFailErr

(* Every broadcast, of any coin, is a sequence of whole calls of WithClient *)
(* (handle_broadcast.go:104, coins/*/client.go), cut short only by a crash: *)
(* TxPipeline's steps are those NodeCall allows.                            *)
THEOREM BroadcastIsACall ==
  ASSUME \A c \in Coins :
           /\ c \in DOMAIN Rules!ChainOf
           /\ StopOf[c] = {e \in Rules!NodeError : Rules!Final(Rules!ChainOf[c], e)}
  PROVE  Spec => BroadcastCalls
<1>1. Inv => "transport" \notin StopOnNode
  <2>1. \A c \in DOMAIN Rules!ChainOf :
          Rules!ChainOf[c] \in {"eth", "bsc", "fil", "btc", "depinc", "sol", "tron"}
    BY DEF Rules!ChainOf
  <2>. QED  BY <2>1, TransportIsNotFinal DEF Inv, TypeOK, StopOnNode
<1>2. Init => FinalAnswerEnds
  BY DEF Init, FinalAnswerEnds, InCall, Worker
<1>3. Inv /\ Inv' /\ FinalAnswerEnds /\ [Next]_vars =>
        /\ FinalAnswerEnds'
        /\ [IF InCall THEN CallGoesOn \/ CallEnds ELSE CallBegins \/ ~InCall']_vars
  <2>1. ASSUME FinalAnswerEnds, UNCHANGED vars
        PROVE  FinalAnswerEnds'
    BY <2>1 DEF FinalAnswerEnds, InCall, StopOnNode, vars, workerVars, loopVars
  <2>. QED  BY <1>1, <2>1, NextCalls
<1>. QED
  BY <1>2, <1>3, Invariance, PTL DEF Spec, BroadcastCalls

-----------------------------------------------------------------------------
(* The pipeline implements the life cycle that TxLifecycle promises: every  *)
(* step of it is a step of the life cycle, or none.                         *)

(* As only a transaction's signed bytes are ever sent, they alone decide    *)
(* what became of it on the chain.                                          *)
Outcome(t) ==
  IF signed[t] \in mined \ reverted THEN "paid"
  ELSE IF signed[t] \in reverted THEN "reverted"
  ELSE IF signed[t] \in accepted THEN "sent"
  ELSE "none"

LEMMA OutcomeIs == Inv => onchain = [t \in Tx |-> Outcome(t)]
<1>. SUFFICES ASSUME Inv, NEW t \in Tx
              PROVE  onchain[t] = Outcome(t)
  BY DEF onchain
<1>1. \A c \in accepted : c.tx = t <=> c = signed[t]
  BY NoneAssumption DEF Inv, TypeOK, OnlySignedIsSent, OfTx
<1>2. mined \subseteq accepted /\ reverted \subseteq accepted
  BY DEF Inv, TypeOK, OnlySignedIsSent
<1>. QED
  BY <1>1, <1>2 DEF onchain, Outcome, Paid

LEMMA OutcomeIsNext == (Inv => onchain = [t \in Tx |-> Outcome(t)])'
BY OutcomeIs, PTL

LEMMA InitRefines == Init => Lifecycle!Init
BY DEF Init, Lifecycle!Init, onchain, Paid

(* The outcomes after a step, for one that changes at most t's. *)
LEMMA OutcomeMoves ==
  ASSUME NEW t \in Tx, Inv, Inv',
         \A u \in Tx \ {t} : Outcome(u)' = Outcome(u)
  PROVE  onchain' = [onchain EXCEPT ![t] = Outcome(t)'] /\ onchain[t] = Outcome(t)
<1>1. onchain = [u \in Tx |-> Outcome(u)]
  BY OutcomeIs
<1>2. (Inv => onchain = [u \in Tx |-> Outcome(u)])'
  BY OutcomeIsNext
<1>. QED  BY <1>1, <1>2

LEMMA OutcomeStays ==
  ASSUME Inv, Inv', \A u \in Tx : Outcome(u)' = Outcome(u)
  PROVE  onchain' = onchain
<1>1. onchain = [u \in Tx |-> Outcome(u)]
  BY OutcomeIs
<1>2. (Inv => onchain = [u \in Tx |-> Outcome(u)])'
  BY OutcomeIsNext
<1>. QED  BY <1>1, <1>2

(* ProxyApply takes a transaction along an edge of the life cycle, and only *)
(* when the chain allows it.                                                *)
LEMMA ProxyApplyRefines ==
  ASSUME Inv, Inv', NEW m \in net, ProxyApply(m)
  PROVE  Lifecycle!Next \/ UNCHANGED <<pstate, onchain>>
<1>1. UNCHANGED <<signed, accepted, mined, reverted>>
  BY DEF ProxyApply, chainVars
<1>2. onchain' = onchain
  BY <1>1, OutcomeStays DEF Outcome
<1>3. m \in UpdateReq /\ m.tx \in Tx /\ Justified(m)
  BY DEF Inv, TypeOK, UpdateReq, RequestsAreTrue
<1>4. CASE pstate[m.tx] # m.old
  BY <1>2, <1>4 DEF ProxyApply, proxyVars
<1>5. CASE pstate[m.tx] = m.old
  <2>1. Lifecycle!Move(m.tx, m.old, m.new)
    BY <1>2, <1>5 DEF ProxyApply, Lifecycle!Move
  <2>2. onchain[m.tx] = Outcome(m.tx)
    BY <1>3, OutcomeIs
  <2>3. CASE m.new = "Fail"
    <3>1. m.old \in {"Wait", "Broadcast", "Sync"}
      BY <1>3 DEF Justified, tState, Worker
    <3>2. m.old = "Sync" => onchain[m.tx] = "reverted"
      BY <1>3, <2>2, <2>3 DEF Justified, Outcome
    <3>. QED
      BY <1>3, <2>1, <2>3, <3>1, <3>2 DEF Lifecycle!Next, Lifecycle!ToFail
  <2>4. CASE m.old = "Wait" /\ m.new = "Sign"
    BY <1>3, <2>1, <2>4 DEF Lifecycle!Next, Lifecycle!PreSigned
  <2>5. CASE m.old = "Broadcast" /\ m.new = "Sync"
    <3>1. onchain[m.tx] # "none"
      BY <1>3, <2>2, <2>5 DEF Justified, Sent, Outcome
    <3>. QED
      BY <1>3, <2>1, <2>5, <3>1 DEF Lifecycle!Next, Lifecycle!ToSync
  <2>6. CASE m.old = "Sync" /\ m.new = "Done"
    <3>1. onchain[m.tx] = "paid"
      BY <1>3, <2>2, <2>6 DEF Justified, Outcome
    <3>. QED
      BY <1>3, <2>1, <2>6, <3>1 DEF Lifecycle!Next, Lifecycle!ToDone
  <2>. QED
    BY <1>3, <2>3, <2>4, <2>5, <2>6 DEF Justified, tState, nextState, Worker
<1>. QED  BY <1>4, <1>5

(* A node that takes bytes for the first time takes what was signed. *)
LEMMA AcceptRefines ==
  ASSUME Inv, Inv', NEW c \in ChainTx, signed[c.tx] = c, Accept(c), UNCHANGED <<pstate, signed>>
  PROVE  Lifecycle!Next \/ UNCHANGED <<pstate, onchain>>
<1>1. /\ accepted' = accepted \cup {c} /\ UNCHANGED <<mined, reverted>>
      /\ c.tx \in Tx /\ c # None
  BY NoneAssumption DEF Accept, ChainTx
<1>2. CASE c \in accepted
  <2>1. accepted' = accepted
    BY <1>1, <1>2
  <2>. QED
    BY <1>1, <2>1, OutcomeStays DEF Outcome
<1>3. CASE c \notin accepted
  <2>1. \A u \in Tx \ {c.tx} : signed[u] # c
    BY <1>1 DEF Inv, OnlySignedIsSent, OfTx
  <2>2. \A u \in Tx \ {c.tx} : Outcome(u)' = Outcome(u)
    BY <1>1, <2>1 DEF Outcome
  <2>3. c \notin mined /\ c \notin reverted
    BY <1>3 DEF Inv, TypeOK, OnlySignedIsSent
  <2>4. Outcome(c.tx) = "none" /\ Outcome(c.tx)' = "sent"
    BY <1>1, <1>3, <2>3 DEF Outcome
  <2>5. Lifecycle!Happens(c.tx, "none", "sent")
    BY <1>1, <2>2, <2>4, OutcomeMoves DEF Lifecycle!Happens
  <2>6. pstate[c.tx] \in {"Broadcast", "Fail"}
    BY <1>1, <1>3 DEF Inv, TypeOK, State, ProxyKnows, Sent
  <2>. QED
    BY <1>1, <2>5, <2>6 DEF Lifecycle!Next, Lifecycle!Sent
<1>. QED  BY <1>2, <1>3

(* A block executes what the nodes took, once. *)
LEMMA MineRefines ==
  ASSUME Inv, Inv', NEW c \in pool, Mine(c)
  PROVE  Lifecycle!Next
<1>1. /\ c \in ChainTx /\ c.tx \in Tx /\ signed[c.tx] = c /\ c \in accepted
      /\ c \notin mined /\ c \notin reverted
  BY DEF Inv, TypeOK, OnlySignedIsSent, ChainTx
<1>2. /\ UNCHANGED <<pstate, signed, accepted>>
      /\ mined' = mined \cup {c}
      /\ reverted' \in {reverted, reverted \cup {c}}
  BY DEF Mine, proxyVars
<1>3. \A u \in Tx \ {c.tx} : signed[u] # c
  BY <1>1, NoneAssumption DEF Inv, OnlySignedIsSent, OfTx
<1>4. \A u \in Tx \ {c.tx} : Outcome(u)' = Outcome(u)
  BY <1>2, <1>3 DEF Outcome
<1>5. Outcome(c.tx) = "sent" /\ Outcome(c.tx)' \in {"paid", "reverted"}
  BY <1>1, <1>2 DEF Outcome
<1>6. Lifecycle!Executed(c.tx)
  BY <1>1, <1>2, <1>4, <1>5, OutcomeMoves DEF Lifecycle!Executed, Lifecycle!Happens
<1>. QED  BY <1>1, <1>6 DEF Lifecycle!Next

LEMMA SignerRefines ==
  ASSUME Inv, Inv', NEW t \in Tx, SignerSigns(t)
  PROVE  Lifecycle!Next
<1>1. UNCHANGED <<accepted, mined, reverted>> /\ signed[t] = None
  BY DEF SignerSigns, chainVars, Inv, ProxyKnows
<1>2. /\ payload[t] \in OfTx(ChainTx, t)
      /\ signed' = [signed EXCEPT ![t] = payload[t]]
  BY DEF SignerSigns, Inv, ProxyKnows
<1>3. \A u \in Tx \ {t} : signed'[u] = signed[u]
  BY <1>2 DEF Inv, TypeOK
<1>4. payload[t] \notin accepted
  BY <1>1, <1>2, NoneAssumption DEF Inv, OnlySignedIsSent, OfTx
<1>5. Outcome(t)' = "none" /\ Outcome(t) = "none"
  BY <1>1, <1>2, <1>4, NoneAssumption DEF Outcome, Inv, TypeOK, OnlySignedIsSent
<1>6. onchain' = onchain
  BY <1>1, <1>3, <1>5, OutcomeStays DEF Outcome
<1>. QED
  BY <1>6 DEF SignerSigns, Lifecycle!Next, Lifecycle!Signed, Lifecycle!Move

LEMMA NextRefines ==
  ASSUME Inv, Inv', [Next]_vars
  PROVE  Lifecycle!Next \/ UNCHANGED <<pstate, onchain>>
<1>1. CASE UNCHANGED <<pstate, signed, accepted, mined, reverted>>
  BY <1>1, OutcomeStays DEF Outcome
<1>2. CASE SubmitAccepted \/ SubmitReplyLost
  <2>. PICK c \in ChainTx : c = job["broadcast"].payload
    BY <1>2, SubmittingItem DEF SubmitAccepted, SubmitReplyLost, Submitting
  <2>1. signed[c.tx] = c
    BY <1>2, SubmittingItem DEF SubmitAccepted, SubmitReplyLost, Submitting
  <2>. QED
    BY <1>2, <2>1, AcceptRefines DEF SubmitAccepted, SubmitReplyLost, proxyVars
<1>3. CASE \E m \in net : ProxyApply(m)
  BY <1>3, ProxyApplyRefines
<1>4. CASE \E t \in Tx : SignerSigns(t)
  BY <1>4, SignerRefines
<1>5. CASE \E c \in pool : Mine(c)
  BY <1>5, MineRefines
<1>6. \/ UNCHANGED <<pstate, signed, accepted, mined, reverted>>
      \/ SubmitAccepted \/ SubmitReplyLost
      \/ \E m \in net : ProxyApply(m)
      \/ \E t \in Tx : SignerSigns(t)
      \/ \E c \in pool : Mine(c)
  BY NextCases
  DEF GetTransactions, UpdateReturns, UpdateTimesOut, Unregistered, HandlerFails, Nonce,
      BroadcastBegin, SyncTx, SubmitRefused, NodeUnusable, BroadcastEnd, Crash, Lose, Drop,
      Age, proxyVars, chainVars, vars
<1>. QED  BY <1>1, <1>2, <1>3, <1>4, <1>5, <1>6

(* Every behaviour of the three workers, with the faults around them, is    *)
(* one that TxLifecycle allows.                                             *)
THEOREM Implements == Spec => LifecycleSpec
BY InitRefines, InitInv, NextInv, NextRefines, PTL
DEF Spec, LifecycleSpec, Lifecycle!Spec, Lifecycle!vars

=============================================================================
