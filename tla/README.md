# Verification of sphinx-plugin

sphinx-plugin is a daemon that stands between **sphinx-proxy** (a gRPC service
that stores transactions and hands them out) and the nodes of one **block
chain**. One process serves one chain: it prepares, broadcasts and follows the
transactions the proxy holds, answers the proxy's questions about balances and
gas, and announces the coins it serves. A third program, **sphinx-sign**, holds
the keys and signs; it links the signing code of this repository but is not part
of it. Proxy, signer and chain are *external*: they are modelled from how
`src/` uses them.

This directory holds TLA+ modules for the parts below, TLC configurations
(`*.cfg`), proofs for TLAPS (`*_proofs.tla`, `SumTheorems.tla`) and
`PROJECT.json`, which lists components, runs, the lines of code each definition
stands for, hazards, findings and theorems.

    tlc -workers 2 -config MCTxPipeline_coins.cfg MCTxPipeline
    tlapm TxPipeline_proofs.tla

## 1. Inventory

| component | code | state | operations | module |
|---|---|---|---|---|
| task workers | `pkg/task/handle_{nonce,broadcast,sync}.go`, `reg.go` | none that survives a tick: the batch being handled | poll the proxy for transactions in one state, run the coin's handler, ask for the next state | `TxPipeline` |
| node choice and retry loop | `WithClient`, `GetNode` in `pkg/coins/*/client.go`, `pkg/endpoints` | nodes not yet tried, the open client, two error variables | shuffle the nodes, check one, run the handler, try up to three (tron 20), stop at a final error | `NodeChoice` |
| error classification | `getter.Abort`, `register.go`, `base.go` of each coin | two maps filled by `init` functions | is this error the end of the transaction? | `CoinRules` |
| coin plugins | `pkg/coins/*/plugin` | none | balance, pre-sign, broadcast, sync, estimate gas | `TxPipeline`, `CoinRules`, `Utxo` |
| stream client | `pkg/task/task.go`, `pkg/rpc`, `cmd/.../run.go` | the stream, three channels, four goroutines a client | connect, reconnect, register coins, answer requests, stop on a signal | `PluginClient` |
| connection cache | `pkg/client/client.go` | one gRPC connection per target, shared by everybody | check health, drop, dial | `ConnCache` |
| token registry, network handlers | `pkg/coins/register`, `getter`, `coin.go`, `setUpTokens`, `netHandle` | name, contract and coin-type maps; a switch and a contract per token | register in `init`, look up; switch on, private contracts of the test network | `TokenRegistry` |
| depinc RPC client | `depinc/depc/rpcclient` (a copy of btcd's) | a request queue, a response channel per call, the shutdown channel | post a call, answer it, shut down and drain | `RpcPost` |
| environment, configuration | `pkg/env`, `pkg/config`, `cmd` | flags and variables | read once | none |
| signers | `pkg/coins/*/sign`, `pkg/sign` | none | run inside sphinx-sign | none |
| generated code | contract bindings | none | calls of contracts | none |

How they interact. The three workers and the stream client are goroutines that
share nothing but the connection cache, the registry maps (written before they
start, except by `setUpTokens`) and the proxy. Workers talk to each other only
through the proxy's database: `nonce` moves a transaction Wait -> Sign, the
signer Sign -> Broadcast, `broadcast` to Sync, `sync` to Done; each may move it
to Fail. Every request names the state the transaction is expected in
(`TransactionState`) and the one wanted (`NextTransactionState`).

What is hard.

- *No local memory.* Whatever fails, a transaction is simply met again. A
  handler therefore runs any number of times on one transaction, also after the
  chain has already taken it.
- *Three places to lose an answer*: between node and plugin, between plugin and
  proxy, and in a crash between the two.
- *Late messages.* A request whose deadline passed may still arrive.
- *Lagging nodes, and a chain that undoes blocks.* The next nonce or output is
  read from whichever node answers.
- *Errors by text.* What a second broadcast is answered decides whether the
  transaction is failed, tried again or passed on.
- *Reconnecting* needs two reports on an unbuffered channel that two goroutines
  write to, and leaves old goroutines behind that go on listening.
- *Two critical sections for one decision*: the cache is looked at under a lock,
  the lock is given up, and what is dialled then replaces whatever is there.
- *One connection for everybody*: a failed health check closes it under its users,
  and so does the stream client when its stream broke.
- *Order of package initialisation* decides in which order tokens meet.
- *A queue that is drained once*, while callers still put requests into it.

What makes each part correct: nobody is paid twice; Done means paid under the
recorded TxID, and stays so; Fail means not paid; every transaction ends
(workers, plugins). A broken stream is replaced, by one stream; requests are
answered; a signal ends the process with the stream closed (stream client). A
caller gets a usable connection, few leak (cache). One contract has one name,
the heavier entry wins in any order; what is announced can be served (registry).
Every node is tried once, local ones first (endpoints). No request is lost, and
none is answered twice (rpcclient).

`PROJECT.json` lists the 40 hazards, each at its line, with the properties that
would show it going wrong.

## 2. Modules

| module | what it is |
|---|---|
| `TxPipeline` | workers, retry loop of the broadcast handlers, proxy, signer, chain |
| `TxLifecycle` | abstract specification: the states a transaction may go through |
| `CoinRules` | which node errors are final, for each coin type, from the stop lists and registrations |
| `NodeChoice` | one `WithClient` call: list of nodes, checks, retries |
| `NodeCall` | abstract specification: what handlers count on when they call it |
| `Utxo` | btc and depinc: selection of outputs, change, confirmations, reorganisations |
| `PluginClient` | the stream client |
| `ConnCache` | `GetGRPCConn` and its callers |
| `TokenRegistry` | registration, `setUpTokens`, the register loop and erc20's pre-sign |
| `RpcPost` | the copied rpcclient in HTTP POST mode |
| `RpcFuture` | abstract specification: a call's future is answered once |
| `MC*` | instances of these for TLC |
| `*_proofs` | theorems and proofs about the module of that name |
| `SumTheorems` | what sums over finite sets are, proved without a word on payments |

Definitions named "variant" (`tStateCopied`, `BroadcastEndRenonces`, ...) are
plausible mistakes; no specification uses them. `PROJECT.json` pairs each
property with one that violates it.

### TxPipeline

| variable | in the code |
|---|---|
| `coin` | the coin type of the transactions; chosen at the start |
| `pstate`, `payload`, `cid` | the proxy's record of a transaction |
| `net` | UpdateTransaction requests on their way; a set, so they are reordered freely |
| `signed` | history: what sphinx-sign signed |
| `pool`, `mined`, `reverted`, `spentTo`, `stale` | the chain: mempool, executed transactions and those among them that failed on chain, nonces used, block hashes too old |
| `accepted` | history: everything a node ever took |
| `batch[w]`, `job[w]`, `pc[w]` | the `transInfos` a worker is looping over, the current one, and where it is |
| `tries`, `apiErr` | the loop variable and the error of `WithClient` |
| `faults`, `blamed` | failures so far, and the transactions an answer about which was lost, late or cut off |

Actions are steps between two points at which others can interfere:
`GetTransactions` (one answer of the proxy, a snapshot), `Nonce`,
`BroadcastBegin` / `SubmitAccepted` / `SubmitRefused` / `SubmitReplyLost` /
`NodeUnusable` / `BroadcastEnd` (one submission to a node is one step),
`SyncTx`, `Unregistered`, `UpdateReturns`, `UpdateTimesOut`, `HandlerFails`,
`Crash`. `nonce` and `sync` handlers read the chain and change nothing, so the
whole handler is one step up to the UpdateTransaction it issues.

A payload is the pair of the transaction and the *slot* that makes it unique:
nonce (`LedgerKind[coin] = "nonce"`: eth, bsc, fil), output (`"utxo"`: btc,
depinc), block hash (`"expiry"`: sol, tron). Equal pairs are equal bytes and have
one TxID. `SlotView` is what a lagging node may offer; `Answers` what nodes may
say to a submission. Amounts, gas and addresses are left out; what pre-signing may
say of them is an outcome of `Nonce`, which may end any transaction.

The constants `RegisteredOf`, `LedgerKind`, `AbortOf` and `StopOf` give each coin
type its rules. `MCTxPipeline` takes them from `CoinRules`, which turns the
situations above into error texts and applies the code's own lists: `AbortOn`
(getter.Abort) and `StopOnNode` (handlers that return `false, err` to
`WithClient`). The rules differ more than one expects: usdcerc20 uses bsc's
function, usdtbep20 registers none, btc and depinc abort on nothing a node
answers to a broadcast. `AbortFuncErrs` is the map of the registrations as a set
of pairs of coin type and package.

### Utxo

The plugins of bitcoin and depinc are the same code twice, so `Utxo` is both;
its map points at one or the other copy. `state` is the proxy's record, `ins`
and `change` the payload, `depth` how deep a payment lies below the highest
block there ever was, `undone` the blocks that are gone, `reorgs` a bound; `sent`
are the payments some node took.
`PreSign` (`Prepares`, `Refuses`) reads `listunspent` from any node: one that is
`n` blocks behind, or still has the blocks undone, and has heard of any part of
the unmined payments (`Offers`); or one that is still fetching blocks, which the
check of the code lets pass (`node_unsynced`), and which lists some of the outputs
or none (`FetchingOffers`). `misled` are the payments refused on such a node.
Outputs are taken until their sum reaches amount and gas; the code compares
floats, so at exact equality either branch may be taken (`Takes`, `NotEnough`).
Change below the confirmations asked for is not offered, so that a rich account's
second payment may fail for want of funds; `FailedForAReason` says when.
A node takes a payment whose inputs it knows (`Accepts`), and the payment goes on
to Sync; or the answer or the update is lost (`BroadcastUnheard`), the payment
stays in Broadcast, perhaps mined, and is broadcast again. Otherwise a handler and
its update are one step: several workers, crashes and late updates are
`TxPipeline`'s. What some node took reaches the miners, and is not forgotten: that
nodes may drop it is `TxPipeline`'s as well.
`SyncTx` asks for `MinConfirms` confirmations. `ConfirmedIsFinal`
(`MaxReorg < MinConfirms`) is what the constant 6 stands for, and an assumption.
Payments and the outputs the account begins with are finitely many
(`ConstantsAssumption`): their values are added up.

### PluginClient

A client is a number; `made` counts them. For each there are `stream`,
`exitChan`, `sendChannel` and the places of its `watch`, `recv`, `send` and
`register` goroutines; `rpc` and `via` follow the requests; `attempts` is
`Plugin`'s loop. Sending on the unbuffered `closeBadConn` and watch's receiving
are one step (`RecvReports`, `SendReports`, with `Hears`). `closeProxyClient` is
one step: a `recv` that was already waiting in `Recv` still meets the error
afterwards. It closes the connection as well: `conn` says which connection a client
was given, a new one or that of an earlier client that is in the cache still, and
`shut` which were closed; the other streams on it break. `Breaks` is the end of one
stream, or of a connection, which a worker's failed health check may have closed.
On a stream closed here `Send` fails at once with an error that is not reported
(`SendTakes`). Closing `cleanChan` twice, a nil request after an unknown stream
error, and an unknown token panic, as in the code.

### NodeChoice

`localAddrs`, `publicAddrs` and `len` are the fields of `endpoints.Manager`;
`i`, `err`, `apiErr` and `client` the variables of `WithClient`; `open` the
connections not yet closed; `tried` a history of the nodes peeked and what came
of each. `GetNode` has three outcomes: no client can be made (`OpenFails`), the
node does not pass the check (`CheckFails`), it is usable (`GetNode`). `Call`
runs the handler and closes the client. The seven copies of the code are one
module with the differences as operators of `chain`: `MaxRetries`, `OpenErrors`,
`Holds`, `Checks`, `Synced`, `HandlerReturns`, `FinalError`. Heights and
handlers' answers are small sets; waiting between attempts is left out.

`NodeCall` is the interface: `left` nodes may still be asked, `best` is what will
be returned without a further answer. `TxPipeline` uses this interface in its
broadcast step: its `tries` counts to the bound that `left` counts down from
(`Endpoints` is the lesser of `MaxRetries` and the number of nodes), its
`apiErr` is `best` as far as an answer is concerned. `BroadcastIsACall` proves
that every broadcast of `TxPipeline` is such a call.

### ConnCache

`cached` is the entry of `conns` for the proxy, the one target the program has;
connections are numbered by `made`, and `open` are those nobody closed. `pc` and
`holds` are the callers'. The two critical sections of `GetGRPCConn` are one step
each: `checkRemove` (`Hit`, `Miss`, `Remove`) and `getConn` (`DialStores`,
`DialFails`, `DialUnready`); others come in between. `proxy` is what the health
check sees. Callers are the three workers and, in `Streams`, the stream clients. A
worker leaves what it was given open (`Finish`); a stream client closes it when its
stream broke (`closeProxyClient`, task.go:88-92), under the hands of whoever was
given the same, and leaves it in the map, where the next health check finds it
closed (`Remove`). A failed check closes a connection under its users' hands as
well. `ended` are the connections stream clients closed. A connection that a
worker dialled and another replaced, or that was not ready when its state was read,
is never closed: `LeaksBounded` says how many such there can be.

### TokenRegistry

`RegisteTokenInfo` is `registeTokenInfo` for a token and for its copy of the test
network, in any order of tokens: `contractToName`, `nameToInfo`, `tokenInfoMap`
are the code's maps, per net where the code has two. Then three goroutines:
`setUpTokens` (`SetUpTokens`, `BuildChainFails`, `Enable`, `Enabled`,
`EnablePrivate`, `SetContract`, `SetUpReturns`; `netHandle`'s two writes are two
steps), the register loop (`Announce`, `ChainInfoMissing`) and a worker that
pre-signs an erc20 transaction (`PreSign`, `Balance`, `Pack`), which reads the
contract twice. Panics end everything (`running`). Reading a string while it is
written is a data race in the code; a torn read is not modelled.

### RpcPost

`pc`, `slot` and `given` are a caller, its response channel and how often it was
answered; `queue` is `sendPostChan`, as a set, because every call is in it at
most once and no property depends on the order; `at`, `held`, `answer` a handler
goroutine; `shutdown` the closed channel. `SeesShutdown` answers the caller and,
as the code does, goes on to `Enqueue`. A `select` with several cases ready takes
any. `Orderly` is how `WithClient` of depinc uses the client: shut down after the
last call has returned.

## 3. Runs

| run | specification and instance | checks | states |
|---|---|---|---|
| `coins` | FairSpec; ethereum, bitcoin, solana; 2 transactions of 1 account, 2 nodes, 1 fault | `Inv PaidOnce DoneMeansPaid FailedPaidOnlyIfBlamed PaidNeverFailedWithoutAbort LifecycleSpec SettlesUnlessStuck` | 493,432 |
| `paid_failed` | Spec; ethereum, 1 fault | `PaidNeverFailed`, violated | |
| `usdtbep20` | FairSpec; usdtbep20 | `Settles`, violated | |
| `stream_safe` | Spec; 3 clients, 1 break | `Inv OneClient StopsGracefully` | 2,572,538 |
| `stream_live` | FairSpec; 2 clients, 1 break | `Reconnects Stops WindsDown` | 41,210 |
| `stream_answers` | FairSpec; 1 client, 2 requests, one of an unknown token | `Answered` | 46,918 |
| `node_choice` | Spec; seven chains, up to 2 local and 2 public nodes, 2 errors | `Inv LocalFirst NeverExhausted ClientsClosed AnswerWins NodeCallSpec` | 59,015 |
| `node_unsynced` | Spec; bitcoin | `UsesSyncedNode`, violated | |
| `conn_cache` | FairSpec; 2 workers and a stream client that closes 2 connections, 1 failed check of an open connection, 1 unready dial, 1 stop of the proxy | `Inv LeaksBounded LostToCheckOrStream Served` | 467,476 |
| `registry` | FairSpec; 6 entries of 4 contracts, 3 plugins | `Inv HeaviestWins PaysToContract AnnouncesOwn AllAnnounced` | 3,746 |
| `utxo` | FairSpec; 4 payments, 2 outputs, 2 blocks undone | `Inv Conserved FailedForAReason DoneIsFinal InputsStay Settles` | 212,872 |
| `rpc_post` | FairSpec; 3 calls, 2 handlers, a queue for one | `Inv KeepsPromise Answered QueuedIsAnswered HandlersEnd` | 97,758 |

What they show.

- `coins`: no double payment and no false Done, with nonces, outputs or expiring
  block hashes. A transaction that failed and was paid had an answer lost, late
  or cut off; with rules that abort on no answer to a broadcast (bitcoin, depinc)
  there is none. Every transaction ends in Done or Fail unless the nodes forgot
  one of its account or, with those rules, an answer was lost or a rival took the
  output (`Stuck`). The pipeline implements `TxLifecycle`.
- `stream_*`: reconnecting keeps one client unless a closed client's `send`
  reports twice; an orderly end closes the stream but for a signal an old watch
  takes; a break is followed by a stream again, a signal by the end; answers get
  through a full channel.
- `node_choice`: retries over nodes that fail in every way; `WithClient`
  implements `NodeCall`.
- `conn_cache`: callers lose a connection only to failed checks of others, while it
  is the cached one, or to a stream client that was given the same; a closed
  connection in the map is one a stream client closed; and each worker is given an
  open connection again and again once the proxy stays up and streams stay whole.
- `registry`: the maps agree and the heaviest entry wins in every order of
  `init`; a payload is for the token's contract although `setUpTokens` may set it
  meanwhile; what cannot be served is not announced, and what can be is, although
  the register loop starts earlier.
- `utxo`: Done is final, payloads spend nothing a reorganisation could take away,
  the account loses amounts and gas and no more, a payment fails for want of
  funds only when unclaimed outputs do not suffice or a node still fetching blocks
  was asked, and a payment that shares no output with another ends, unless a node
  took it and was not heard.
- `rpc_post`: a future is answered once, or twice if its call was refused at
  shutdown; handlers end, and what is queued while one still runs is answered;
  used as `WithClient` uses it, every call returns.

`Inv` of each module includes its type invariant and further properties that
have theorems of their own but no line in a configuration: `SyncedWasSent`
(its content is in `ProxyKnows`), `Watched`, `NoneTwice`, `ClosedByItsUser`,
`MapsAgree`, `NothingLost`, `AnsweredOnce`.

Bounds, and why they are enough.

- `coins`. Two transactions are what it takes to compete for a slot; no action
  reads a third. `MaxSlot = 1`: two nonces, outputs or hashes, so that sharing one
  and having one each both occur. `Endpoints = 2`: a lost answer followed by
  another node's (the code tries at most three). `MaxFaults = 1`, because liveness
  is checked as well: one fault is enough for a lost answer and its late arrival;
  that two do no more harm is what the proofs say, for any number. One of
  solana's two transactions has a token without an entry.
- `stream_*`. The third client is the one an old watch makes besides the second,
  the least with which `OneClient` could fail. `ChanBuff = 1` stands for 1000:
  full and empty both occur. `MaxBreaks = 1`, `Tokens = 1`. That two clients share a
  connection and the old one's closing breaks the newer's stream takes a third client
  to notice, so that it is met in `stream_safe` only; three clients are too many
  for the liveness runs.
- `node_*`. Four nodes are one more than six of the chains try and fewer than
  tron may, so both bounds of the loop are met; two of each kind give every order
  of failures within a list and across the lists; two errors tell an earlier
  answer from a later one; `MaxHeight = 1` has a node that is behind (2 for
  bitcoin, where the property asks for a gap of two).
- `conn_cache`. Three callers: one that removes, and two that then dial over each
  other; two workers, so that the stream client closes a connection both may be
  using. `MaxFaults = 1` and `MaxCloses = 2`: the cache is emptied several times, for
  each reason. Checks of a connection that is closed fail without a bound.
- `registry`. Four contracts, ethereum's own name among them. Each way two entries can share a contract: same coin type with the
  heavier one first or last, another coin type, and one entry alone.
- `utxo`. Four payments: two that may conflict, one that spends another's change,
  one malformed. `MinConfirms = 2`, `MaxReorg = 1` and `MaxLag = 1` keep the order
  of the real numbers (6, fewer, a few); a block undone twice, `MaxReorgs = 2`.
- `rpc_post`. With one place in the queue and three calls, one is posted, one
  queued and one blocked; a second handler (as after `NewBatch`) drains beside the
  first.

Deadlock is not checked: settled systems, ended processes and clients stop.

Fairness. Workers are goroutines driven by a ticker: weak fairness of each
worker. The proxy applies requests and the signer signs, per transaction; blocks
are made, and contain what fits (weak). Faults are not fair and are bounded;
without the bound nothing would settle. In the stream client each goroutine is
weakly fair, and a handler waiting for room in `sendChannel` strongly, because
Go's channels serve blocked senders in order. Callers and handlers of `RpcPost`
are weakly fair: that suffices, because every call is made once. Handlers are assumed to return (`context.Background()`
gives them no deadline). In `ConnCache` workers are weakly fair and a successful
dial strongly: a proxy that serves cannot be unreachable for ever. Nothing is asked
of stream clients, and what they close is bounded: a stream that broke at every
call would leave the workers nothing. In `Utxo` a payment that no node has taken is
taken in the end; one that was taken need not be taken again. Nodes answer
or break the connection: the HTTP client of btc and depinc has no timeout and
`ctx` does not reach it, so this is an assumption about nodes, listed as a hazard.

## 4. What is proved

Each theorem holds for all values of the constants within the module's
`ConstantsAssumption`, which says types and little more. Every module has
`Invariance` (`Spec => []Inv`), with its type invariant in it.

**TxPipeline.** `TypeCorrect`, `Invariance`, `AtMostOnce` (`PaidOnce`),
`DoneIsPaid` (`DoneMeansPaid`), `SyncedIsSent` (`SyncedWasSent`),
`FailWithoutBlame` (`FailedPaidOnlyIfBlamed`), `FailMeansUnpaid`
(`PaidNeverFailedWithoutAbort`), `Implements` (`LifecycleSpec`); and, without a
run of their own, `BooksAreFinal`, `QuietCoinsAre`, `FailMeansUnpaidByCoin` and
`BroadcastIsACall`. The properties are not inductive: a
request still under way may be about a state long gone. `Inv` adds what each
party may rely on: `OnlySignedIsSent` (a transaction has one signed payload, and
only that is ever accepted by a node; so it is paid at most once), `ProxyKnows`
(what each proxy state implies), `RequestsAreTrue` (each request under way is
*justified* by facts that never become false again: signed, accepted, mined), and
`WorkersKnow` (the same for batches and jobs). The facts persist (`Persists`,
`KnownPersists`), and the proxy's comparison with the expected state does the
rest. A transaction never goes back from Broadcast to Wait or Sign; the variant
that re-nonces is what breaks `PaidOnce`. For `FailedPaidOnlyIfBlamed`,
`BlameInv`: of a transaction without blame the broadcast worker's request is
answered before it goes on, so that it has not been sent while it is in a batch
or being submitted, and only an unsent one is given up. The refinement maps
`pstate` to the abstract state and the chain to `onchain`; each action is one
abstract step or a stutter.

`BooksAreFinal` is an action property: Done and Fail are never left, a TxID once
recorded is never replaced, signed bytes are never made anew. It needs that a
TxID travels only with the step to Sync (`TxIDsWithSync`). `QuietCoinsAre` is
about `CoinRules` itself: by the stop lists and the registrations, exactly
bitcoin, depinc and usdtbep20 accept no answer to a broadcast as final. With
`FailMeansUnpaid` it gives `FailMeansUnpaidByCoin`: a paid transaction of one of
these coins is never booked as failed (`paid_failed` shows ethereum's may be).
`BroadcastIsACall` maps the broadcast loop to `NodeCall`, step by step: a
broadcast begins a call, goes through steps of `NodeCall`, and ends with a node
that took the transaction, or with getter.Abort's opinion of what the call
returns when no node is left, or in a crash. It rests on the rules for final
answers, of which "no answer" is none (`TransportIsNotFinal`), and on
`FinalAnswerEnds`: after a final answer no node is left. The last two theorems
assume of `AbortOf` and `StopOf` that they are what `CoinRules` says, which is
how `MCTxPipeline` defines them.

**PluginClient**, any number of clients, breaks, requests and any capacity:
`AtMostOneClient` (`OneClient`), `LiveIsWatched` (`Watched`), `GracefulStop`
(`StopsGracefully`), `TypeCorrect`, and the action property `AnsweredWhereAsked`:
a request keeps to the client it came to, is answered or lost once, and answered
only by that client while its stream is up. For the latter `AnswersWait`: an
answer waits at one place of one `sendChannel`. For the former the heart is `OnlyNewestActs`: of a closed
client recv can report at most once more (it had passed its look at exitChan), so
as long as send has not reported late its watch cannot count to two again; hence
only the newest client is ever closed and replaced.

**NodeChoice**, any finite sets of addresses and any errors (local and public
addresses are different, errors of nodes are none of `GetNode`'s:
`ErrorsDiffer`): `LocalNodesFirst`, `EachNodeOnce`, `NeverRunsDry`,
`NothingStaysOpen`, `AnswersAreReturned`, `TypeCorrect` and `Implements`
(`NodeCallSpec`). What carries them: `ListsAreTheRest` (the lists hold, without
repetition, exactly the addresses not yet seen, and lists, attempts and the node
in use add up to `len`) and `ErrorsAreRemembered` (`apiErr` is the last answer,
`err` why the last node was not asked). fil returns the wrong variable on a final
answer; the refinement holds because its handlers end with no error, which
`HandlerReturns` states.

**ConnCache**, any finite number of workers and stream clients: `ClosedInMap`
(`ClosedByItsUser`), `BoundedLeaks` (`LeaksBounded`), `OthersClose`
(`LostToCheckOrStream`). What the stream clients close only lowers the number of
open connections, but the check that finds one closed empties the cache again and
counts as a removal.
`LeaksAccounted` is the accounting: while a connection is cached nobody new
misses, so the callers still to dial are charged to the last removal.

**TokenRegistry**, any entries in which one name has one contract
(`NamesAreUnique`, register.go:67): `OneRecord` (`MapsAgree`), `WeightDecides`
(`HeaviestWins`), `RightContract` (`PaysToContract`), `AnnouncedIsServed`
(`AnnouncesOwn`), and `HeaviestIsFound`: an entry heavier than every other of its
contract, such as the hand-written ones, is what is found by contract, by name
and by coin type, on both nets, from its registration on. The two directions of
`MapsAgree` and `Twins` (the maps of the two nets are equal) need each other;
`ContractsSettle` says that a contract is set once and read only after;
`SwitchedOn` that nothing is announced before the init functions have run, and
that only what has a contract is, or is about to be, switched on.

**Utxo**, any payments, amounts and depths with `MaxReorg < MinConfirms`:
`DoneStays` (`DoneIsFinal`), `PayloadsStand` (`InputsStay`). A depth is counted
from the highest block ever, so a node's lag and the blocks it has not yet seen
undone are the same number and confirmations can be compared with the deepest
reorganisation; `ChainIsSound` adds that what is mined lies below the present tip and was sent,
though the record may still say Broadcast.
`NothingLost` (`Conserved`) and `FailsOnlyForFunds` (`FailedForAReason`) are about
sums. `Balanced` is what the former adds to `Inv`: what a prepared payment spends
is its amount, the gas and its change. As payments in the chain spend different
outputs, and spend none that is not there, coins and change add up to what is
unspent and what the payments spent. From these follow `DoneSpendApart` (no
output pays for two payments in Done) and `NeverOverdrawn` (all that was ever
booked as Done cost, with the gas, no more than the coins the account began with).

**SumTheorems**, about `SumFunctionOnSet`, the community modules' sum over a
finite set: `SumOfUnion`, `SumOfFamily`, `SumOfSums`, `SumOfSubset` and others.
The library's induction over finite sets takes a predicate as a parameter; here
the property is membership in a set of subsets, so that the induction
(`SubsetInduction`) is first-order, and follows from strict inclusion being
well-founded on the subsets of a finite set.

**RpcPost**, any calls, handlers and capacity: `NoRequestIsLost`
(`NothingLost`), `OneAnswer` (`AnsweredOnce`), `PromiseKept` (`KeepsPromise`,
which includes the refinement of `RpcFuture`). `OnePlace`, `AnswersFit` and
`HandlersFit` follow a request from the caller through the queue and a handler's
hand to its answer.

Only model-checked: all liveness (`SettlesUnlessStuck`, `Reconnects`, `Stops`,
`WindsDown`, `Answered` of the stream client, `Served`, `AllAnnounced`, `Settles`,
and `Answered`, `QueuedIsAnswered` and `HandlersEnd` of the rpcclient), which is
out of the prover's reach. Every other property of a run is stated by a theorem.

## 5. What the models found

- *Paid, yet failed* (`paid_failed`): the answer to a submission is lost,
  the transaction is mined, the next tick submits the bytes again, the node says
  "nonce too low", which is on eth's stop list, and the transaction is booked as
  Fail. `newcoin.md:22-24` has it followed by its ID instead. The same happens
  for every coin whose answer to a known transaction is a stop error.
- *For ever* (`usdtbep20`): bep20 registers the abort function only for
  binanceusd, so a usdtbep20 transaction whose nonce is used never fails.
- *Any node is synchronised* (`node_unsynced`): btc and depinc compare headers
  and blocks the wrong way round (`client.go:101`), against `README.md:40` and
  `README.md:154` (a check of the sync state; only tron is exempt).

Observations without a run of their own:

- rpcclient's `sendPostRequest` answers a call made after shutdown and then puts
  it into the queue all the same (`infrastructure.go:857-863`). The comment there
  says "Don't send the message if shutting down." (856), and that of the drain
  "so nothing is left waiting around to send" (832-833): a refused request may
  still be posted, or stay in the queue. The model has it
  (`SeesShutdown`, then `Enqueue`), and `KeepsPromise` excepts it. depinc's
  `WithClient` shuts down after its calls and does not meet it (`Answered`).
- A payment of btc or depinc fails with "insufficient balance", for good, while
  the account's change waits for confirmations (`FailedForAReason` counts only
  unclaimed outputs), or because the node asked was still fetching blocks
  (`misled`), which the check of `node_unsynced` lets pass.
- A payment of btc or depinc that a node took and whose answer was lost stays in
  Broadcast for ever, though mined, if every node refuses it as known: no stop
  error says so (`Unheard` in `Utxo`, `Stuck` in `TxPipeline`).
- The stream client closes the connection it shares with the task workers and leaves
  it in the cache (`closeProxyClient`); their calls fail until the next check.
- Two streams at once after late reports of `send`, a signal taken by an old
  watch, a second close of `cleanChan`, a nil request: in the model because they
  are in the code, and listed as hazards; no document says otherwise.

## 6. Not modelled, and why

- *Amounts of account chains, gas, encodings and addresses*: pure computation on
  values no property tells apart; that pre-signing may refuse a transaction for them
  is in `Nonce`. `Utxo` has amounts, as integers.
- *Reorganisations outside `Utxo`.* In `TxPipeline` a mined transaction stays;
  `DoneMeansPaid` is relative to that. eth takes one receipt as final.
- *Several plugins for one chain* (`README.md:39` lists this as open).
- *Signing and key storage*: another program, cryptography. Flags and
  environment: read once.
- *Generated contract bindings*: some 16,000 of the repository's 34,619 lines,
  generated by abigen, without state of their own. They are most of why the map
  covers a small share of all lines.
- *rpcclient beyond POST mode*: websockets, reconnecting, notifications, batches
  (but for the second handler they start), and the wrappers of single commands,
  several thousand lines of which the program calls a few. The program only ever
  sets `HTTPPostMode`.
- *Values handlers fill in*: a handler that returns (true, nil) with nothing
  filled in (`sol/plugin/plugin.go:132`) is listed as a hazard.
- *A node that never answers*: see fairness.
- *Torn reads* of `Contract`, which `netHandle` writes while workers read it.
- An address configured twice, in one list or in both, counts as two nodes in the
  code; the model has sets, so `NoneTwice` is about different addresses.
- The numbers inside what a node says are abstracted: fil's base and target
  heights and eth's progress to the blocks a node has and those it knows of,
  sol's health check to the node's own judgement of the same.

## 7. Plan

1. A value beside each answer in `NodeChoice`, so that what a handler fills in
   can be followed through `WithClient`.
2. `TxPipeline` with `Utxo`'s depths in place of `mined`, for eth, bsc and tron as
   well: what Done means on chains that take one receipt as final.
3. What a node says about gas and balances, as far as pre-sign refuses a
   transaction for it.
