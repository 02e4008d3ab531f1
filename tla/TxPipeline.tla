----------------------------- MODULE TxPipeline -----------------------------
(***************************************************************************)
(* The transaction pipeline of sphinx-plugin (pkg/task/handle_nonce.go,     *)
(* handle_broadcast.go, handle_sync.go) with the three parties it works     *)
(* between, none of which is in this repository:                            *)
(*                                                                          *)
(*   - sphinx-proxy, which stores every transaction with its state, payload *)
(*     and CID, answers GetTransactions and applies UpdateTransaction;      *)
(*   - sphinx-sign, which turns a pre-signed payload into a signed one;     *)
(*   - the block chain, reached through a few interchangeable nodes.        *)
(*                                                                          *)
(* Each worker is a ticker that polls the proxy for the transactions in one *)
(* state, handles them one after the other by calling the chain, and asks   *)
(* the proxy to move each to its next state.  Nothing is kept locally: when *)
(* any step fails the transaction is simply met again at the next tick, so  *)
(* every handler must tolerate being run twice on one transaction.          *)
(***************************************************************************)
EXTENDS Naturals

CONSTANTS
  Tx,          \* identifiers of the proxy's transactions
  Account,     \* sending accounts
  From,        \* From[t]: the account transaction t is paid from
  Coins,       \* coin types; a behaviour is about the transactions of one
  RegisteredOf,\* per coin type: transactions whose token has handlers here
  LedgerKind,    \* how its chain orders transactions: "nonce", "utxo", "expiry"
  AbortOf,     \* node errors that getter.Abort classifies as final
  StopOf,      \* node errors after which the handler tries no other node
  MaxSlot,     \* bound on nonces, outputs or block hashes
  Endpoints,   \* nodes one handler call may try
  MaxFaults,   \* bound on failures of the environment
  None         \* no payload, no CID, no error

Slot == 0 .. MaxSlot

(***************************************************************************)
(* A chain transaction is what a payload denotes: the proxy transaction it  *)
(* pays and the resource that makes it unique on the chain, a nonce (eth,   *)
(* bsc, fil), an unspent output (btc, depinc) or a recent block hash (sol,  *)
(* tron).  Two payloads with the same slot are the same bytes, and have the *)
(* same hash: ChainTx stands for the TxID too.                              *)
(***************************************************************************)
ChainTx    == [tx : Tx, slot : Slot]
Payload    == ChainTx \cup {None}
State      == {"Wait", "Sign", "Broadcast", "Sync", "Done", "Fail"}
Worker     == {"nonce", "broadcast", "sync"}
TransInfo  == [tx : Tx, payload : Payload]
UpdateReq  == [tx : Tx, old : State, new : State, payload : Payload, cid : Payload]
NodeError  == {"already_known", "slot_spent", "pool_conflict", "expired",
               "no_funds", "transport"}

ASSUME ConstantsAssumption ==
  /\ From \in [Tx -> Account]
  /\ RegisteredOf \in [Coins -> SUBSET Tx]
  /\ LedgerKind \in [Coins -> {"nonce", "utxo", "expiry"}]
  /\ AbortOf \in [Coins -> SUBSET NodeError]
  /\ StopOf \in [Coins -> SUBSET NodeError]
  /\ MaxSlot \in Nat
  /\ Endpoints \in Nat \ {0}
  /\ MaxFaults \in Nat

ASSUME NoneAssumption == None \notin ChainTx \cup NodeError

VARIABLES
  coin,                        \* the coin type
  pstate, payload, cid,        \* the proxy's record of each transaction
  net,                         \* UpdateTransaction requests under way
  signed,                      \* what sphinx-sign signed for a transaction
  pool, mined, reverted, spentTo, stale,  \* the chain
  accepted,                    \* history: chain transactions a node ever took
  pc, batch, job,              \* workers: place, rest of the tick, current item
  tries, apiErr,               \* WithClient's loop in the broadcast handler
  faults, blamed               \* history: failures, and whom they touched

proxyVars  == <<pstate, payload, cid>>
chainVars  == <<pool, mined, reverted, spentTo, stale, accepted>>
workerVars == <<pc, batch, job>>
loopVars   == <<tries, apiErr>>
faultVars  == <<faults, blamed>>
vars == <<coin, proxyVars, net, signed, chainVars, workerVars, loopVars, faultVars>>

Registered == RegisteredOf[coin]
Ledger     == LedgerKind[coin]
AbortOn    == AbortOf[coin]
StopOnNode == StopOf[coin]

-----------------------------------------------------------------------------
(* The chain, as the nodes show it.                                         *)

OfAccount(S, a) == {c \in S : From[c.tx] = a}
OfTx(S, t) == {c \in S : c.tx = t}

(* Transactions of S that use up what c needs. *)
Rivals(S, c) ==
  IF Ledger = "expiry" THEN {}
  ELSE {d \in S : d # c /\ From[d.tx] = From[c.tx] /\ d.slot = c.slot}

(* The slot of c is gone: its nonce is below the account's, or its output   *)
(* is spent by another mined transaction.                                   *)
Spent(c) ==
  \/ Ledger = "nonce" /\ c.slot < spentTo[From[c.tx]]
  \/ Ledger = "utxo"  /\ Rivals(mined, c) # {}

(***************************************************************************)
(* What pre-signing may read for account a.  Nodes lag behind one another:  *)
(* a pending nonce (PendingNonceAt, MpoolGetNonce) is any number that is    *)
(* reached from the account's nonce through pooled ones, so a node that has *)
(* not seen a pooled transaction hands its nonce out again.  Likewise       *)
(* listunspent of a lagging wallet lists what a pooled transaction spends.  *)
(***************************************************************************)
SlotView(a) ==
  {s \in Slot :
     /\ Ledger = "nonce" => /\ s >= spentTo[a]
                            /\ \A n \in spentTo[a] .. (s - 1) :
                                 \E c \in OfAccount(pool, a) : c.slot = n
     /\ Ledger = "utxo" => \A c \in OfAccount(mined, a) : c.slot # s
     /\ s \notin stale}

(***************************************************************************)
(* The answers a node may give to the submission of c.  A pooled            *)
(* transaction is refused as known, or taken by a node that lacks it; a     *)
(* rival in the pool refuses c, or is replaced by it (a higher gas price).  *)
(* A node that does not have the newest blocks calls a block hash unknown,  *)
(* which is the same error as an expired one.                               *)
(***************************************************************************)
Answers(c) ==
  IF c \in mined
    THEN (IF Ledger = "nonce" THEN {"slot_spent"} ELSE {"already_known"})
           \cup (IF c.slot \in stale THEN {"expired"} ELSE {})
  ELSE IF Spent(c) THEN {"slot_spent"}
  ELSE IF c.slot \in stale THEN {"expired"}
  ELSE {"ok"} \cup (IF c \in pool THEN {"already_known"} ELSE {})
              \cup (IF Rivals(pool, c) # {} THEN {"pool_conflict"} ELSE {})
              \cup (IF Ledger = "expiry" THEN {"expired"} ELSE {})

(* A node takes c. *)
Accept(c) ==
  /\ pool' = (pool \ Rivals(pool, c)) \cup {c}
  /\ accepted' = accepted \cup {c}
  /\ UNCHANGED <<mined, reverted, spentTo, stale>>

(* A block with c: for an account chain only the account's next nonce.      *)
Mine(c) ==
  /\ c \in pool
  /\ c.slot \notin stale
  /\ Ledger = "nonce" => c.slot = spentTo[From[c.tx]]
  /\ mined' = mined \cup {c}
  /\ pool' = pool \ ({c} \cup Rivals(pool, c))
  /\ spentTo' = [spentTo EXCEPT ![From[c.tx]] =
                   IF Ledger = "nonce" THEN c.slot + 1 ELSE @]
  /\ \/ UNCHANGED reverted
     \/ Ledger # "utxo" /\ reverted' = reverted \cup {c}
  /\ UNCHANGED <<coin, proxyVars, net, signed, stale, accepted, workerVars, loopVars, faultVars>>

(* A block hash becomes too old to be built on, and there is a newer one;   *)
(* what is pooled on it is discarded.                                       *)
Age(s) ==
  /\ Ledger = "expiry"
  /\ s \notin stale /\ stale \cup {s} # Slot
  /\ stale' = stale \cup {s}
  /\ pool' = {c \in pool : c.slot # s}
  /\ UNCHANGED <<coin, proxyVars, net, signed, mined, reverted, spentTo, accepted,
                 workerVars, loopVars, faultVars>>

Fault(T) ==
  /\ faults < MaxFaults
  /\ faults' = faults + 1
  /\ blamed' = blamed \cup T

(* The nodes forget a pooled transaction. *)
Drop(c) ==
  /\ c \in pool
  /\ Fault({})
  /\ pool' = pool \ {c}
  /\ UNCHANGED <<coin, proxyVars, net, signed, mined, reverted, spentTo, stale, accepted,
                 workerVars, loopVars>>

-----------------------------------------------------------------------------
(* The proxy and the signer.                                                *)

(***************************************************************************)
(* UpdateTransaction names the state it expects and the state it wants: the *)
(* proxy takes it only when the stored state is the expected one.  A        *)
(* request without a CID leaves the stored one.                             *)
(***************************************************************************)
ProxyApply(m) ==
  /\ m \in net
  /\ net' = net \ {m}
  /\ IF pstate[m.tx] = m.old
       THEN /\ pstate' = [pstate EXCEPT ![m.tx] = m.new]
            /\ payload' = [payload EXCEPT ![m.tx] = m.payload]
            /\ cid' = [cid EXCEPT ![m.tx] = IF m.cid = None THEN @ ELSE m.cid]
       ELSE UNCHANGED proxyVars
  /\ UNCHANGED <<coin, signed, chainVars, workerVars, loopVars, faultVars>>

(* A request that never arrives, or finds the deadline of ctx already past. *)
Lose(m) ==
  /\ m \in net
  /\ Fault({m.tx})
  /\ net' = net \ {m}
  /\ UNCHANGED <<coin, proxyVars, signed, chainVars, workerVars, loopVars>>

(* sphinx-sign signs what it finds in state Sign. *)
SignerSigns(t) ==
  /\ pstate[t] = "Sign"
  /\ signed' = [signed EXCEPT ![t] = payload[t]]
  /\ pstate' = [pstate EXCEPT ![t] = "Broadcast"]
  /\ UNCHANGED <<coin, payload, cid, net, chainVars, workerVars, loopVars, faultVars>>

-----------------------------------------------------------------------------
(* The workers.                                                             *)

(* A mistake one could make here (a variant, used by no specification). *)
tStateCopied == [nonce |-> "Wait", broadcast |-> "Broadcast", sync |-> "Broadcast"]

(* The state a worker polls for: tState. *)
tState == [nonce |-> "Wait", broadcast |-> "Broadcast", sync |-> "Sync"]

(* The state a handled transaction goes to: nextState. *)
nextState == [nonce |-> "Sign", broadcast |-> "Sync", sync |-> "Done"]

NoJob == [tx |-> None]

(* One tick: GetTransactions answers with the transactions in tState[w], as *)
(* they are now.  (A failed GetGRPCConn or GetTransactions skips the tick.) *)
GetTransactions(w) ==
  /\ pc[w] = "idle" /\ batch[w] = {}
  /\ \E t \in Tx : pstate[t] = tState[w]
  /\ batch' = [batch EXCEPT ![w] =
       {[tx |-> t, payload |-> payload[t]] : t \in {u \in Tx : pstate[u] = tState[w]}}]
  /\ UNCHANGED <<coin, proxyVars, net, signed, chainVars, pc, job, loopVars, faultVars>>

(* The item x of the batch of w is taken out and answered, in one step, by  *)
(* an UpdateTransaction request.                                            *)
Request(w, x, new, p, c) ==
  [tx |-> x.tx, old |-> tState[w], new |-> new, payload |-> p, cid |-> c]

UpdateTransaction(w, m) ==
  /\ net' = net \cup {m}
  /\ job' = [job EXCEPT ![w] = m]
  /\ pc' = [pc EXCEPT ![w] = "update"]

Take(w, x) ==
  /\ pc[w] = "idle"
  /\ x \in batch[w]
  /\ batch' = [batch EXCEPT ![w] = @ \ {x}]

(* A handler error that is not final: the transaction waits for a later     *)
(* tick.                                                                    *)
RetryLater(w) ==
  /\ pc' = [pc EXCEPT ![w] = "idle"]
  /\ job' = [job EXCEPT ![w] = NoJob]

(* No token or no handler for the transaction: it fails. *)
Unregistered(w, x) ==
  /\ Take(w, x)
  /\ x.tx \notin Registered
  /\ UpdateTransaction(w, Request(w, x, "Fail", None, None))
  /\ UNCHANGED <<coin, proxyVars, signed, chainVars, loopVars, faultVars>>

(***************************************************************************)
(* nonce: the pre-sign handler reads a slot and builds the transaction on   *)
(* it.  Or it refuses for good: with no output left, btc and depinc say     *)
(* insufficient balance; and balances, amounts and addresses, which are     *)
(* left out here, may be at fault for any coin.                             *)
(***************************************************************************)
Nonce(x) ==
  /\ Take("nonce", x)
  /\ x.tx \in Registered
  /\ \/ \E s \in SlotView(From[x.tx]) :
          UpdateTransaction("nonce",
            Request("nonce", x, nextState["nonce"], [tx |-> x.tx, slot |-> s], None))
     \/ UpdateTransaction("nonce", Request("nonce", x, "Fail", None, None))
  /\ UNCHANGED <<coin, proxyVars, signed, chainVars, loopVars, faultVars>>

(* broadcast starts: the signed payload goes to up to Endpoints nodes. *)
BroadcastBegin(x) ==
  /\ Take("broadcast", x)
  /\ x.tx \in Registered
  /\ pc' = [pc EXCEPT !["broadcast"] = "submit"]
  /\ job' = [job EXCEPT !["broadcast"] = x]
  /\ tries' = 0
  /\ apiErr' = None
  /\ UNCHANGED <<coin, proxyVars, net, signed, chainVars, faultVars>>

Submitting == pc["broadcast"] = "submit" /\ tries < Endpoints

(* A node takes the transaction and says so. *)
SubmitAccepted ==
  /\ Submitting
  /\ LET x == job["broadcast"] IN
       /\ "ok" \in Answers(x.payload)
       /\ Accept(x.payload)
       /\ UpdateTransaction("broadcast",
            Request("broadcast", x, nextState["broadcast"], x.payload, x.payload))
  /\ UNCHANGED <<coin, proxyVars, signed, batch, loopVars, faultVars>>

(* A node takes the transaction, and its answer is lost. *)
SubmitReplyLost ==
  /\ Submitting
  /\ LET x == job["broadcast"] IN
       /\ "ok" \in Answers(x.payload)
       /\ Accept(x.payload)
       /\ Fault({x.tx})
  /\ tries' = tries + 1
  /\ apiErr' = "transport"
  /\ UNCHANGED <<coin, proxyVars, net, signed, workerVars>>

(* A node answers with an error: final for the handler, or the next node is *)
(* tried.                                                                   *)
SubmitRefused ==
  /\ Submitting
  /\ \E e \in Answers(job["broadcast"].payload) \cap NodeError :
       /\ apiErr' = e
       /\ tries' = IF e \in StopOnNode THEN Endpoints ELSE tries + 1
  /\ UNCHANGED <<coin, proxyVars, net, signed, chainVars, workerVars, faultVars>>

(* GetNode finds no usable node: WithClient goes on, and keeps the error an *)
(* earlier node gave.                                                       *)
NodeUnusable ==
  /\ Submitting
  /\ Fault({})
  /\ tries' = tries + 1
  /\ UNCHANGED <<coin, proxyVars, net, signed, chainVars, workerVars, apiErr>>

(* Variants of the end of the loop: a final error sends the transaction back *)
(* for another nonce; WithClient drops the last error; every error is final; *)
(* none is.                                                                  *)
BroadcastEndsWith(states) ==
  /\ pc["broadcast"] = "submit" /\ tries = Endpoints
  /\ \/ \E s \in states :
          LET x == job["broadcast"] IN
            UpdateTransaction("broadcast", Request("broadcast", x, s, x.payload, x.payload))
     \/ states = {} /\ RetryLater("broadcast") /\ UNCHANGED net
  /\ UNCHANGED <<coin, proxyVars, signed, chainVars, batch, loopVars, faultVars>>
BroadcastEndRenonces == BroadcastEndsWith({s \in {"Wait"} : apiErr \in AbortOn})
BroadcastEndForgetsError == BroadcastEndsWith({"Sync"})
BroadcastEndAlwaysFails == BroadcastEndsWith({"Fail"})
BroadcastEndNeverFails == BroadcastEndsWith({})

(* The loop is over without success: getter.Abort decides. *)
BroadcastEnd ==
  /\ pc["broadcast"] = "submit" /\ tries = Endpoints
  /\ IF apiErr \in AbortOn
       THEN UpdateTransaction("broadcast",
              Request("broadcast", job["broadcast"], "Fail", None, None))
       ELSE RetryLater("broadcast") /\ UNCHANGED net
  /\ UNCHANGED <<coin, proxyVars, signed, chainVars, batch, loopVars, faultVars>>

(* Variants of syncTx: a transaction not found is a failed one; the receipt's *)
(* status is not looked at.                                                   *)
SyncTxAnswers(x, done, failed) ==
  /\ Take("sync", x)
  /\ x.tx \in Registered
  /\ \/ /\ x.payload \in done
        /\ UpdateTransaction("sync", Request("sync", x, nextState["sync"], None, None))
     \/ /\ x.payload \in failed
        /\ UpdateTransaction("sync", Request("sync", x, "Fail", None, None))
  /\ UNCHANGED <<coin, proxyVars, signed, chainVars, loopVars, faultVars>>
SyncTxFailsPending(x) ==
  SyncTxAnswers(x, mined \ reverted, reverted \cup (ChainTx \ mined))
SyncTxIgnoresStatus(x) == SyncTxAnswers(x, mined, {})

(***************************************************************************)
(* syncTx: the TxID in the payload is looked up.  Pooled or unknown: wait.  *)
(***************************************************************************)
SyncTx(x) ==
  /\ Take("sync", x)
  /\ x.tx \in Registered
  /\ \/ /\ x.payload \in mined \ reverted
        /\ UpdateTransaction("sync", Request("sync", x, nextState["sync"], None, None))
     \/ /\ x.payload \in reverted
        /\ UpdateTransaction("sync", Request("sync", x, "Fail", None, None))
     \/ /\ x.payload \notin mined
        /\ UNCHANGED <<net, pc, job>>
  /\ UNCHANGED <<coin, proxyVars, signed, chainVars, loopVars, faultVars>>

(* The handler gives up this time: nodes out of reach, deadline of ctx. *)
HandlerFails(w, x) ==
  /\ w \in {"nonce", "sync"}
  /\ Take(w, x)
  /\ Fault({})
  /\ UNCHANGED <<coin, proxyVars, net, signed, chainVars, pc, job, loopVars>>

(* UpdateTransaction returns; an error is only logged. *)
UpdateReturns(w) ==
  /\ pc[w] = "update"
  /\ job[w] \notin net
  /\ RetryLater(w)
  /\ UNCHANGED <<coin, proxyVars, net, signed, chainVars, batch, loopVars, faultVars>>

(* The deadline passes with the request still under way. *)
UpdateTimesOut(w) ==
  /\ pc[w] = "update"
  /\ job[w] \in net
  /\ Fault({job[w].tx})
  /\ RetryLater(w)
  /\ UNCHANGED <<coin, proxyVars, net, signed, chainVars, batch, loopVars>>

(* The process dies, between any two steps, and is started again. *)
Crash ==
  /\ \E w \in Worker : pc[w] # "idle" \/ batch[w] # {}
  /\ Fault({job[w].tx : w \in {v \in Worker : pc[v] # "idle"}})
  /\ pc' = [w \in Worker |-> "idle"]
  /\ batch' = [w \in Worker |-> {}]
  /\ job' = [w \in Worker |-> NoJob]
  /\ tries' = 0
  /\ apiErr' = None
  /\ UNCHANGED <<coin, proxyVars, net, signed, chainVars>>

-----------------------------------------------------------------------------
Init ==
  /\ coin \in Coins
  /\ pstate = [t \in Tx |-> "Wait"]
  /\ payload = [t \in Tx |-> None]
  /\ cid = [t \in Tx |-> None]
  /\ net = {}
  /\ signed = [t \in Tx |-> None]
  /\ pool = {} /\ mined = {} /\ reverted = {} /\ stale = {} /\ accepted = {}
  /\ spentTo = [a \in Account |-> 0]
  /\ pc = [w \in Worker |-> "idle"]
  /\ batch = [w \in Worker |-> {}]
  /\ job = [w \in Worker |-> NoJob]
  /\ tries = 0 /\ apiErr = None
  /\ faults = 0 /\ blamed = {}

(* The steps of worker w, a goroutine of its own. *)
WorkerStep(w) ==
  \/ GetTransactions(w)
  \/ UpdateReturns(w)
  \/ \E x \in batch[w] : Unregistered(w, x)
  \/ w = "nonce" /\ \E x \in batch[w] : Nonce(x)
  \/ w = "broadcast" /\ \/ \E x \in batch[w] : BroadcastBegin(x)
                        \/ SubmitAccepted
                        \/ SubmitRefused
                        \/ BroadcastEnd
  \/ w = "sync" /\ \E x \in batch[w] : SyncTx(x)

(* What the other parties do. *)
EnvironmentStep ==
  \/ \E m \in net : ProxyApply(m)
  \/ \E t \in Tx : SignerSigns(t)
  \/ \E c \in pool : Mine(c)
  \/ \E s \in Slot : Age(s)

(* What goes wrong, at most MaxFaults times. *)
FaultStep ==
  \/ SubmitReplyLost
  \/ NodeUnusable
  \/ Crash
  \/ \E w \in Worker : UpdateTimesOut(w)
  \/ \E w \in Worker : \E x \in batch[w] : HandlerFails(w, x)
  \/ \E m \in net : Lose(m)
  \/ \E c \in pool : Drop(c)

Next ==
  \/ \E w \in Worker : WorkerStep(w)
  \/ EnvironmentStep
  \/ FaultStep

Spec == Init /\ [][Next]_vars

(***************************************************************************)
(* Every worker is a goroutine that is never waited for, so each keeps      *)
(* taking steps; the proxy answers, the signer signs, blocks are made.      *)
(* Faults are bounded, and nothing is assumed of them.                      *)
(***************************************************************************)
Fairness ==
  /\ \A w \in Worker : WF_vars(WorkerStep(w))
  /\ \A t \in Tx : /\ WF_vars(\E m \in net : m.tx = t /\ ProxyApply(m))
                   /\ WF_vars(SignerSigns(t))
                   /\ WF_vars(\E c \in pool : c.tx = t /\ Mine(c))

FairSpec == Spec /\ Fairness

-----------------------------------------------------------------------------
(* Properties.                                                              *)

(* Every variable holds values of its type. *)
TypeOK ==
  /\ coin \in Coins
  /\ pstate \in [Tx -> State]
  /\ payload \in [Tx -> Payload]
  /\ cid \in [Tx -> Payload]
  /\ net \subseteq UpdateReq
  /\ signed \in [Tx -> Payload]
  /\ pool \subseteq ChainTx
  /\ mined \subseteq ChainTx
  /\ reverted \subseteq mined
  /\ accepted \subseteq ChainTx
  /\ stale \subseteq Slot
  /\ spentTo \in [Account -> Nat]
  /\ pc \in [Worker -> {"idle", "submit", "update"}]
  /\ batch \in [Worker -> SUBSET TransInfo]
  /\ job \in [Worker -> TransInfo \cup UpdateReq \cup {NoJob}]
  /\ tries \in 0 .. Endpoints
  /\ apiErr \in NodeError \cup {None}
  /\ faults \in 0 .. MaxFaults
  /\ blamed \subseteq Tx

Sent(t) == signed[t] \in accepted

Paid(t) == \E c \in mined \ reverted : c.tx = t

(* A transfer is executed on the chain at most once, however often it was   *)
(* pre-signed, broadcast again after a lost answer, or picked up again by a *)
(* restarted process.                                                       *)
PaidOnce == \A c, d \in mined : c.tx = d.tx => c = d

(* The proxy books a transaction as Done only when the chain executed it,   *)
(* under the very CID the proxy recorded when it was broadcast.             *)
DoneMeansPaid ==
  \A t \in Tx : pstate[t] = "Done" => /\ cid[t] \in mined \ reverted
                                      /\ cid[t].tx = t

(* A transaction is handed to syncTx only with the CID of the bytes that    *)
(* were signed for it and that some node took: what the sync worker waits   *)
(* for really was sent.                                                     *)
SyncedWasSent ==
  \A t \in Tx : pstate[t] \in {"Sync", "Done"} => cid[t] = signed[t] /\ Sent(t)

(***************************************************************************)
(* Why these hold: what a state of the proxy says of the other parties, and *)
(* what a worker or a request under way still knows to be true when it is   *)
(* acted upon, however late.                                                *)
(***************************************************************************)
(* A transaction has one set of signed bytes, and only these are ever sent. *)
OnlySignedIsSent ==
  /\ \A t \in Tx : signed[t] \in OfTx(ChainTx, t) \cup {None}
  /\ \A c \in accepted : signed[c.tx] = c
  /\ pool \cup mined \subseteq accepted
  /\ pool \cap mined = {}

ProxyKnows ==
  \A t \in Tx :
    /\ pstate[t] \notin {"Wait", "Fail"} => t \in Registered
    /\ pstate[t] \in {"Wait", "Sign"} => signed[t] = None
    /\ pstate[t] = "Sign" => payload[t] \in OfTx(ChainTx, t)
    /\ pstate[t] = "Broadcast" => payload[t] = signed[t] /\ signed[t] \in OfTx(ChainTx, t)
    /\ pstate[t] = "Sync" => payload[t] = signed[t]
    /\ pstate[t] \in {"Sync", "Done"} => cid[t] = signed[t] /\ Sent(t)
    /\ pstate[t] = "Done" => signed[t] \in mined \ reverted

Justified(m) ==
  /\ \E w \in Worker : m.old = tState[w] /\ m.new \in {nextState[w], "Fail"}
  /\ m.new # "Fail" => m.tx \in Registered
  /\ m.new = "Sign" => m.payload \in OfTx(ChainTx, m.tx) /\ m.cid = None
  /\ m.new = "Sync" => m.payload = signed[m.tx] /\ m.cid = signed[m.tx] /\ Sent(m.tx)
  /\ m.new = "Done" => signed[m.tx] \in mined \ reverted /\ m.cid = None
  /\ m.old = "Sync" /\ m.new = "Fail" => signed[m.tx] \in reverted

RequestsAreTrue == \A m \in net : Justified(m)

Known(w, x) ==
  /\ w # "nonce" => x.tx \in Registered
  /\ w = "broadcast" => x.payload = signed[x.tx] /\ x.payload \in OfTx(ChainTx, x.tx)
  /\ w = "sync" => x.payload = signed[x.tx] /\ Sent(x.tx)

WorkersKnow ==
  /\ \A w \in Worker : \A x \in batch[w] : Known(w, x)
  /\ \A w \in Worker : pc[w] = "submit" =>
       w = "broadcast" /\ job[w] \in TransInfo /\ Known(w, job[w])
  /\ \A w \in Worker : pc[w] = "update" => job[w] \in UpdateReq

(* The invariant that is inductive. *)
Inv ==
  /\ TypeOK
  /\ OnlySignedIsSent
  /\ ProxyKnows
  /\ RequestsAreTrue
  /\ WorkersKnow

(* What became of t on the chain. *)
onchain ==
  [t \in Tx |->
     IF Paid(t) THEN "paid"
     ELSE IF \E c \in reverted : c.tx = t THEN "reverted"
     ELSE IF \E c \in accepted : c.tx = t THEN "sent"
     ELSE "none"]

(* The pipeline implements the life cycle of TxLifecycle: polling, retries, *)
(* crashes and late messages never take a transaction along a forbidden     *)
(* edge, such as to Done before it is paid.                                 *)
Lifecycle == INSTANCE TxLifecycle WITH state <- pstate, onchain <- onchain
LifecycleSpec == Lifecycle!Spec

(* A transaction that is booked as failed and yet paid had an answer about  *)
(* it lost, late, or cut off by a crash: with every answer in time, Fail    *)
(* means the money did not move.                                            *)
FailedPaidOnlyIfBlamed ==
  \A t \in Tx : pstate[t] = "Fail" /\ Paid(t) => t \in blamed

(***************************************************************************)
(* Why: of a transaction without blame, the broadcast worker's request is   *)
(* answered before it goes on, so that it has not been sent while it is in  *)
(* a batch or being submitted, and only an unsent one is given up.  A batch *)
(* holds no transaction that is already taken out of it.                    *)
(***************************************************************************)
Unsent(x) == pstate[x.tx] = "Broadcast" /\ ~Sent(x.tx)

TakenOnce == pc["broadcast"] # "idle" =>
  \A x \in batch["broadcast"] : x.tx # job["broadcast"].tx

AnsweredInTurn ==
  \A m \in net : m.old = "Broadcast" /\ m.tx \notin blamed =>
    /\ pc["broadcast"] = "update" /\ job["broadcast"] = m
    /\ m.new = "Fail" => Unsent(m)

UnsentUntilSubmitted ==
  /\ \A x \in batch["broadcast"] : x.tx \in blamed \/ Unsent(x)
  /\ pc["broadcast"] = "submit" => job["broadcast"].tx \in blamed \/ Unsent(job["broadcast"])

SentIsReported ==
  \A t \in Tx : pstate[t] = "Broadcast" /\ Sent(t) /\ t \notin blamed =>
    \E m \in net : m.tx = t /\ m.old = "Broadcast" /\ m.new = "Sync"

FailedIsUnsent ==
  \A t \in Tx : pstate[t] = "Fail" /\ t \notin blamed => ~Sent(t) \/ signed[t] \in reverted

BlameInv ==
  /\ TakenOnce
  /\ AnsweredInTurn
  /\ UnsentUntilSubmitted
  /\ SentIsReported
  /\ FailedIsUnsent

(* Fail always means the money did not move.  It holds for the coins whose  *)
(* rules abort on no answer to a broadcast, and for no other.               *)
PaidNeverFailed == \A t \in Tx : ~(pstate[t] = "Fail" /\ Paid(t))

NoAnswerAborts == AbortOn \subseteq {"no_funds"}

(* With such rules, nothing that was paid is booked as failed.              *)
PaidNeverFailedWithoutAbort == NoAnswerAborts => PaidNeverFailed

Settled(t) == pstate[t] \in {"Done", "Fail"}

(* A transaction the nodes took and then forgot, or replaced, blocks its    *)
(* account's later nonces, and syncTx waits for it in vain.                 *)
Lost(a) == OfAccount(accepted \ (pool \cup mined), a) # {}

(* Every transaction is settled in the end, unless a transaction of its     *)
(* account is lost by the nodes: retrying at every tick is enough to get    *)
(* past lost requests, lost answers and crashes.                            *)
Settles == \A t \in Tx : <>[](Settled(t) \/ Lost(From[t]))

(* What an answer that does not abort leaves in Broadcast for ever: an      *)
(* answer about t was lost, or a rival took its output.                     *)
Stuck(t) ==
  /\ NoAnswerAborts
  /\ t \in blamed \/ (signed[t] # None /\ Spent(signed[t]))

(* The same, as far as the coin's rules go: where no answer to a broadcast  *)
(* aborts (bitcoin, depinc), such a transaction is broadcast again for ever. *)
SettlesUnlessStuck == \A t \in Tx : <>[](Settled(t) \/ Lost(From[t]) \/ Stuck(t))

=============================================================================
