--------------------------- MODULE TokenRegistry ---------------------------
(***************************************************************************)
(* The tokens a plugin knows (pkg/coins/register) and those it serves.      *)
(* First the init functions of the coins register their tokens, each with a *)
(* copy for the test network.  Then three goroutines share the records:     *)
(* setUpTokens (pkg/task/reg.go) switches tokens on and, for ethereum's     *)
(* test network, fetches their contracts from build-chain; the register     *)
(* loop (pkg/task/task.go) announces to the proxy what is switched on; a    *)
(* worker pre-signs transactions of erc20 tokens, reading the contract      *)
(* twice.                                                                   *)
(***************************************************************************)
EXTENDS Naturals

CONSTANTS
  Tokens,    \* the entries of the token lists
  Names, OfficialContracts, CoinTypes,
  name, officialContract, weight, coinType,  \* the fields of an entry
  Native,    \* entries that are a chain's own coin
  Private,   \* official contracts build-chain knows a private one for
  Plugins,   \* [net, coinType] of the processes considered
  None

Net == {"main", "test"}

ASSUME ConstantsAssumption ==
  /\ name \in [Tokens -> Names]
  /\ officialContract \in [Tokens -> OfficialContracts]
  /\ weight \in [Tokens -> Nat]
  /\ coinType \in [Tokens -> CoinTypes]
  /\ Native \subseteq Tokens /\ Private \subseteq OfficialContracts
  /\ Plugins \subseteq [net : Net, coinType : CoinTypes]
  /\ None \notin Names \cup Tokens

(* One name to one contract (register.go:67); several entries may share     *)
(* both, or share a contract under several names.                           *)
ASSUME NamesAreUnique ==
  \A t, u \in Tokens : name[t] = name[u] => officialContract[t] = officialContract[u]

VARIABLES
  todo,            \* entries whose init has not run
  contractToName,  \* MainContractToName and TestContractToName
  nameToInfo,      \* NameToTokenInfo: names of the test copies begin with t
  tokenInfoMap,    \* TokenInfoMap: by coin type, then name
  disabled,        \* DisableRegiste of each record
  contract,        \* Contract of each record: "none", "official" or "private"
  plugin,          \* whose process this is
  chainEnv,        \* whether ENV_CHAIN_ID and ENV_CHAIN_NICKNAME are set
  setup, left,     \* setUpTokens: its place, and the tokens still to go
  announced,       \* history: names sent in a RegisterCoin message
  sign,            \* the worker: its place and token
  paysTo,          \* history: [token, contract] of the payloads it made
  running          \* the process has not panicked

maps == <<contractToName, nameToInfo, tokenInfoMap>>
records == <<disabled, contract>>
process == <<plugin, chainEnv>>
vars == <<todo, maps, records, process, setup, left, announced, sign, paysTo, running>>

-----------------------------------------------------------------------------
(* Registration.                                                            *)

Known(n, t) == contractToName[n][officialContract[t]]
Rival(n, t) == nameToInfo[n][Known(n, t)]

(* Variant: the last one wins. *)
StaysNever(n, t) == FALSE

(* What is registered for the contract of t is at least as heavy. *)
Stays(n, t) == Known(n, t) # None /\ weight[Rival(n, t)] >= weight[t]

(* The entries of TokenInfoMap deleted before t is added. *)
Drops(n, t, ct, nm) ==
  /\ Known(n, t) # None
  /\ \/ ct = coinType[Rival(n, t)] /\ nm = Known(n, t)
     \/ ct = coinType[t] /\ nm = name[Rival(n, t)]

(* registeTokenInfo, for the entry and for its copy: the two use different  *)
(* maps or different names.                                                 *)
RegisteTokenInfo(t) ==
  /\ t \in todo
  /\ todo' = todo \ {t}
  /\ contractToName' = [n \in Net |->
       IF Stays(n, t) THEN contractToName[n]
       ELSE [contractToName[n] EXCEPT ![officialContract[t]] = name[t]]]
  /\ nameToInfo' = [n \in Net |->
       IF Stays(n, t) THEN nameToInfo[n]
       ELSE [nm \in Names |->
              IF nm = name[t] THEN t
              ELSE IF Known(n, t) # None /\ nm = name[Rival(n, t)] THEN None
              ELSE nameToInfo[n][nm]]]
  /\ tokenInfoMap' = [n \in Net |->
       IF Stays(n, t) THEN tokenInfoMap[n]
       ELSE [ct \in CoinTypes |-> [nm \in Names |->
              IF ct = coinType[t] /\ nm = name[t] THEN t
              ELSE IF Drops(n, t, ct, nm) THEN None
              ELSE tokenInfoMap[n][ct][nm]]]]
  /\ UNCHANGED <<records, process, setup, left, announced, sign, paysTo, running>>

-----------------------------------------------------------------------------
(* The process runs.                                                        *)

Runs == todo = {} /\ running

(* GetTokenInfos. *)
Infos == {t \in Tokens : \E nm \in Names : tokenInfoMap[plugin.net][plugin.coinType][nm] = t}

Own(t) == <<plugin.net, t>>

(* Only ethereum's test network has a handler. *)
HasNetHandler == plugin.net = "test" /\ plugin.coinType = "ethereum"

Panic ==
  /\ running' = FALSE
  /\ UNCHANGED <<todo, maps, records, process, setup, left, announced, sign, paysTo>>

(* Variant: nothing is done without a handler. *)
SetUpTokensHandledOnly ==
  /\ Runs /\ setup = "start"
  /\ left' = IF HasNetHandler THEN Infos \cap Native ELSE {}
  /\ setup' = "enable"
  /\ UNCHANGED <<todo, maps, records, process, announced, sign, paysTo, running>>

SetUpTokens ==
  /\ Runs /\ setup = "start"
  /\ left' = IF HasNetHandler THEN Infos \cap Native ELSE Infos
  /\ setup' = "enable"
  /\ UNCHANGED <<todo, maps, records, process, announced, sign, paysTo, running>>

(* build-chain is not configured, cannot be reached or does not answer. *)
BuildChainFails == Runs /\ setup = "start" /\ HasNetHandler /\ Panic

Enable(t) ==
  /\ Runs /\ setup = "enable" /\ t \in left
  /\ disabled' = disabled \ {Own(t)}
  /\ left' = left \ {t}
  /\ UNCHANGED <<todo, maps, contract, process, setup, announced, sign, paysTo, running>>

(* Variant: every token build-chain lists, with or without a private        *)
(* contract.                                                                *)
ListedAll == Infos \ Native

(* The tokens build-chain has a private contract for. *)
Listed == {t \in Infos \ Native : officialContract[t] \in Private}

Enabled ==
  /\ Runs /\ setup = "enable" /\ left = {}
  /\ IF HasNetHandler
       THEN setup' = "private" /\ left' = Listed
       ELSE setup' = "done" /\ UNCHANGED left
  /\ UNCHANGED <<todo, maps, records, process, announced, sign, paysTo, running>>

(* The token is switched on, and gets its contract. *)
EnablePrivate(t) ==
  /\ Runs /\ setup = "private" /\ t \in left
  /\ Own(t) \in disabled
  /\ disabled' = disabled \ {Own(t)}
  /\ UNCHANGED <<todo, maps, contract, process, setup, left, announced, sign, paysTo, running>>

SetContract(t) ==
  /\ Runs /\ setup = "private" /\ t \in left
  /\ Own(t) \notin disabled
  /\ contract' = [contract EXCEPT ![Own(t)] = "private"]
  /\ left' = left \ {t}
  /\ UNCHANGED <<todo, maps, disabled, process, setup, announced, sign, paysTo, running>>

SetUpReturns ==
  /\ Runs /\ setup = "private" /\ left = {}
  /\ setup' = "done"
  /\ UNCHANGED <<todo, maps, records, process, left, announced, sign, paysTo, running>>

setUpTokens ==
  \/ SetUpTokens \/ BuildChainFails \/ Enabled \/ SetUpReturns
  \/ \E t \in left : Enable(t) \/ EnablePrivate(t) \/ SetContract(t)

(* The register loop, one token: CheckAndSetChainInfo panics on a test      *)
(* network without its environment.                                         *)
Announce(t) ==
  /\ Runs /\ t \in Infos /\ Own(t) \notin disabled
  /\ plugin.net = "main" \/ chainEnv
  /\ announced' = announced \cup {name[t]}
  /\ UNCHANGED <<todo, maps, records, process, setup, left, sign, paysTo, running>>

ChainInfoMissing ==
  /\ Runs /\ \E t \in Infos : Own(t) \notin disabled
  /\ plugin.net = "test" /\ ~chainEnv
  /\ Panic

(* erc20 PreSign (erc20 tokens are of ethereum's coin type): an empty       *)
(* contract passes the check (plugin.go:217), and the balance is asked of   *)
(* the contract.                                                            *)
PreSign(t) ==
  /\ Runs /\ sign.at = "idle" /\ t \in Infos \ Native /\ coinType[t] = "ethereum"
  /\ sign' = [at |-> "balance", token |-> t]
  /\ UNCHANGED <<todo, maps, records, process, setup, left, announced, paysTo, running>>

(* Variant: the balance is not asked for. *)
BalanceSkipped ==
  /\ Runs /\ sign.at = "balance"
  /\ sign' = [sign EXCEPT !.at = "pack"]
  /\ UNCHANGED <<todo, maps, records, process, setup, left, announced, paysTo, running>>

(* No contract at the empty address: an error, and the transaction is met   *)
(* again.                                                                   *)
Balance ==
  /\ Runs /\ sign.at = "balance"
  /\ sign' = IF contract[Own(sign.token)] = "none"
               THEN [at |-> "idle", token |-> None]
               ELSE [sign EXCEPT !.at = "pack"]
  /\ UNCHANGED <<todo, maps, records, process, setup, left, announced, paysTo, running>>

(* The contract is read once more for the payload. *)
Pack ==
  /\ Runs /\ sign.at = "pack"
  /\ paysTo' = paysTo \cup {[token |-> sign.token, contract |-> contract[Own(sign.token)]]}
  /\ sign' = [at |-> "idle", token |-> None]
  /\ UNCHANGED <<todo, maps, records, process, setup, left, announced, running>>

Init ==
  /\ todo = Tokens
  /\ contractToName = [n \in Net |-> [k \in OfficialContracts |-> None]]
  /\ nameToInfo = [n \in Net |-> [nm \in Names |-> None]]
  /\ tokenInfoMap = [n \in Net |-> [ct \in CoinTypes |-> [nm \in Names |-> None]]]
  /\ disabled = {"test"} \X Tokens
  /\ contract = [r \in Net \X Tokens |-> IF r[1] = "main" THEN "official" ELSE "none"]
  /\ plugin \in Plugins /\ chainEnv \in BOOLEAN
  /\ setup = "start" /\ left = {}
  /\ announced = {}
  /\ sign = [at |-> "idle", token |-> None]
  /\ paysTo = {}
  /\ running = TRUE

Next ==
  \/ \E t \in Tokens : RegisteTokenInfo(t)
  \/ setUpTokens
  \/ \E t \in Tokens : Announce(t) \/ PreSign(t)
  \/ ChainInfoMissing
  \/ Balance \/ Pack

Spec == Init /\ [][Next]_vars

(* init functions run, and every goroutine goes on; the register loop looks *)
(* at every token at each of its ticks.                                     *)
FairSpec ==
  /\ Spec
  /\ \A t \in Tokens : WF_vars(RegisteTokenInfo(t)) /\ WF_vars(Announce(t))
  /\ WF_vars(setUpTokens) /\ WF_vars(ChainInfoMissing)

-----------------------------------------------------------------------------
(* Properties.                                                              *)

InfoOrNone == Tokens \cup {None}

(* Every variable holds values of its type. *)
TypeOK ==
  /\ todo \subseteq Tokens
  /\ contractToName \in [Net -> [OfficialContracts -> Names \cup {None}]]
  /\ nameToInfo \in [Net -> [Names -> InfoOrNone]]
  /\ tokenInfoMap \in [Net -> [CoinTypes -> [Names -> InfoOrNone]]]
  /\ disabled \subseteq Net \X Tokens
  /\ contract \in [Net \X Tokens -> {"none", "official", "private"}]
  /\ plugin \in Plugins /\ chainEnv \in BOOLEAN
  /\ setup \in {"start", "enable", "private", "done"} /\ left \subseteq Tokens
  /\ announced \subseteq Names
  /\ sign \in [at : {"idle", "balance", "pack"}, token : InfoOrNone]
  /\ paysTo \subseteq [token : InfoOrNone, contract : {"none", "official", "private"}]
  /\ running \in BOOLEAN

(* A contract leads to the record that is found by name and by coin type.   *)
ContractsLead ==
  \A n \in Net, k \in OfficialContracts :
    contractToName[n][k] # None =>
      LET nm == contractToName[n][k]
          t  == nameToInfo[n][nm]
      IN  /\ t # None /\ name[t] = nm /\ officialContract[t] = k
          /\ tokenInfoMap[n][coinType[t]][nm] = t

(* Nothing a heavier entry replaced is left behind, in either map: what is  *)
(* found there is the one record of its contract.                           *)
NothingLeft ==
  \A n \in Net, nm \in Names :
    /\ LET t == nameToInfo[n][nm] IN
         t # None => name[t] = nm /\ contractToName[n][officialContract[t]] = nm
    /\ \A ct \in CoinTypes :
         LET t == tokenInfoMap[n][ct][nm] IN
           t # None => nameToInfo[n][nm] = t /\ coinType[t] = ct

MapsAgree == ContractsLead /\ NothingLeft

(* Whatever the order the init functions run in, a contract ends up with an *)
(* entry no other entry of the contract outweighs, the same for both nets   *)
(* (register.go:67-68).                                                     *)
HeaviestWins ==
  \A t \in Tokens \ todo, n \in Net :
    /\ Known(n, t) # None
    /\ weight[t] <= weight[Rival(n, t)]
    /\ Rival("main", t) = Rival("test", t)

(* The payloads of a contract coin are for its contract, though setUpTokens *)
(* may set the contract while a transaction is being prepared.              *)
PaysToContract ==
  \A p \in paysTo : p.contract = IF plugin.net = "main" THEN "official" ELSE "private"

(* In ethereum's test network the proxy never hears of a contract coin      *)
(* without a private contract, and of none of another coin type.            *)
AnnouncesOwn ==
  \A nm \in announced : \E t \in Infos :
    name[t] = nm /\ (HasNetHandler => t \in Native \/ officialContract[t] \in Private)

Servable == {t \in Infos : HasNetHandler => t \in Native \/ officialContract[t] \in Private}

(* Every token that can be served is announced, though the register loop    *)
(* started before it was switched on (unless the process panics).           *)
AllAnnounced == <>(running => todo = {} /\ \A t \in Servable : name[t] \in announced)

(* Why PaysToContract holds: a contract is set once and never taken back,   *)
(* and a payload is made only after it was seen to be set.                  *)
ContractsSettle ==
  /\ setup = "private" => HasNetHandler
  /\ \A r \in Net \X Tokens :
       contract[r] = "official" <=> r[1] = "main"
  /\ sign.at # "idle" => sign.token \in Tokens
  /\ sign.at = "pack" => contract[Own(sign.token)] # "none"
  /\ PaysToContract

(* Why AnnouncesOwn holds: the goroutines start after the init functions,   *)
(* and only what has a contract is or will be switched on.                  *)
SwitchedOn ==
  /\ todo # {} => announced = {}
  /\ \A t \in Tokens :
       (t \in left \/ Own(t) \notin disabled) /\ HasNetHandler =>
         t \in Native \/ officialContract[t] \in Private

(* The test network's maps are those of the main one. *)
Twins ==
  /\ contractToName["main"] = contractToName["test"]
  /\ nameToInfo["main"] = nameToInfo["test"]

Inv ==
  /\ TypeOK /\ MapsAgree /\ Twins /\ HeaviestWins
  /\ ContractsSettle /\ SwitchedOn /\ AnnouncesOwn

=============================================================================
