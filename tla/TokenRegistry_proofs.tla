------------------------ MODULE TokenRegistry_proofs ------------------------
(***************************************************************************)
(* The registry's maps agree and the heaviest entry of a contract wins, in  *)
(* whatever order any list of tokens is registered; payloads are for the    *)
(* contract of their token.                                                 *)
(***************************************************************************)
EXTENDS TokenRegistry, TLAPS

LEMMA InitInv == Init => Inv
<1> SUFFICES ASSUME Init PROVE Inv
  OBVIOUS
<1> USE ConstantsAssumption DEF Init, Net
<1>1. TypeOK
  BY DEF TypeOK, InfoOrNone
<1>2. MapsAgree
  BY DEF MapsAgree, ContractsLead, NothingLeft
<1>3. HeaviestWins
  BY DEF HeaviestWins
<1>4. ContractsSettle
  BY DEF ContractsSettle, PaysToContract
<1>5. Twins
  BY DEF Twins
<1>6. SwitchedOn /\ AnnouncesOwn
  BY DEF SwitchedOn, AnnouncesOwn, HasNetHandler, Own
<1> QED
  BY <1>1, <1>2, <1>3, <1>4, <1>5, <1>6 DEF Inv

LEMMA TypeStep == TypeOK /\ ContractsSettle /\ [Next]_vars => TypeOK'
<1> SUFFICES ASSUME TypeOK, ContractsSettle, [Next]_vars PROVE TypeOK'
  OBVIOUS
<1> USE ConstantsAssumption DEF TypeOK, InfoOrNone, maps, records, process
<1>1. ASSUME NEW t \in Tokens, RegisteTokenInfo(t) PROVE TypeOK'
  <2>1. contractToName' \in [Net -> [OfficialContracts -> Names \cup {None}]]
    BY <1>1 DEF RegisteTokenInfo
  <2>2. nameToInfo' \in [Net -> [Names -> Tokens \cup {None}]]
    BY <1>1 DEF RegisteTokenInfo
  <2>3. tokenInfoMap' \in [Net -> [CoinTypes -> [Names -> Tokens \cup {None}]]]
    BY <1>1 DEF RegisteTokenInfo
  <2> QED
    BY <1>1, <2>1, <2>2, <2>3 DEF RegisteTokenInfo
<1>2. CASE SetUpTokens
  BY <1>2 DEF SetUpTokens, Infos
<1>3. CASE BuildChainFails \/ ChainInfoMissing
  BY <1>3 DEF BuildChainFails, ChainInfoMissing, Panic
<1>4. CASE Enabled
  BY <1>4 DEF Enabled, Listed, Infos
<1>5. CASE SetUpReturns
  BY <1>5 DEF SetUpReturns
<1>6. ASSUME NEW t \in left, Enable(t) \/ EnablePrivate(t) PROVE TypeOK'
  BY <1>6 DEF Enable, EnablePrivate
<1>7. ASSUME NEW t \in left, SetContract(t) PROVE TypeOK'
  BY <1>7 DEF SetContract
<1>8. ASSUME NEW t \in Tokens, Announce(t) PROVE TypeOK'
  BY <1>8 DEF Announce
<1>9. ASSUME NEW t \in Tokens, PreSign(t) PROVE TypeOK'
  BY <1>9 DEF PreSign
<1>10. CASE Balance
  BY <1>10 DEF Balance
<1>11. CASE Pack
  <2>1. sign.token \in Tokens
    BY <1>11 DEF Pack, ContractsSettle
  <2>2. plugin.net \in Net
    OBVIOUS
  <2>3. contract[Own(sign.token)] \in {"none", "official", "private"}
    BY <2>1, <2>2 DEF Own
  <2> QED
    BY <1>11, <2>1, <2>3 DEF Pack
<1>12. CASE UNCHANGED vars
  BY <1>12 DEF vars
<1> QED
  BY <1>1, <1>2, <1>3, <1>4, <1>5, <1>6, <1>7, <1>8, <1>9, <1>10, <1>11, <1>12
  DEF Next, setUpTokens

-----------------------------------------------------------------------------
(* Registration.                                                            *)

(* A contract leads to a record of its own.                                 *)
LEMMA Leads ==
  ASSUME Inv, NEW n \in Net, NEW t \in Tokens, Known(n, t) # None
  PROVE  /\ Known(n, t) \in Names /\ Rival(n, t) \in Tokens
         /\ name[Rival(n, t)] = Known(n, t)
         /\ officialContract[Rival(n, t)] = officialContract[t]
<1>1. officialContract[t] \in OfficialContracts
  BY ConstantsAssumption
<1>2. Known(n, t) \in Names
  BY <1>1 DEF Inv, TypeOK, Known
<1>3. Rival(n, t) \in Tokens \cup {None}
  BY <1>2 DEF Inv, TypeOK, InfoOrNone, Rival
<1> QED
  BY <1>1, <1>2, <1>3 DEF Inv, MapsAgree, ContractsLead, Known, Rival

(* What registering t makes of the maps of a net, unless something at least *)
(* as heavy is there: the name of the contract, the record of the name, and *)
(* nothing under the name replaced.                                         *)
LEMMA ReplacesContract ==
  ASSUME Inv, NEW t \in Tokens, RegisteTokenInfo(t), NEW n \in Net, ~Stays(n, t)
  PROVE  \A k \in OfficialContracts :
           contractToName'[n][k] =
             IF k = officialContract[t] THEN name[t] ELSE contractToName[n][k]
BY ConstantsAssumption DEF Inv, TypeOK, RegisteTokenInfo

LEMMA ReplacesName ==
  ASSUME Inv, NEW t \in Tokens, RegisteTokenInfo(t), NEW n \in Net, ~Stays(n, t)
  PROVE  \A nm \in Names :
           nameToInfo'[n][nm] =
             IF nm = name[t] THEN t
             ELSE IF nm = Known(n, t) THEN None ELSE nameToInfo[n][nm]
<1>1. Known(n, t) # None => name[Rival(n, t)] = Known(n, t)
  BY Leads
<1>2. None \notin Names
  BY ConstantsAssumption
<1> QED
  BY <1>1, <1>2 DEF RegisteTokenInfo

LEMMA ReplacesInfo ==
  ASSUME Inv, NEW t \in Tokens, RegisteTokenInfo(t), NEW n \in Net, ~Stays(n, t)
  PROVE  \A ct \in CoinTypes, nm \in Names :
           tokenInfoMap'[n][ct][nm] =
             IF ct = coinType[t] /\ nm = name[t] THEN t
             ELSE IF Drops(n, t, ct, nm) THEN None ELSE tokenInfoMap[n][ct][nm]
BY DEF RegisteTokenInfo

LEMMA Keeps ==
  ASSUME Inv, NEW t \in Tokens, RegisteTokenInfo(t), NEW n \in Net, Stays(n, t)
  PROVE  /\ contractToName'[n] = contractToName[n]
         /\ nameToInfo'[n] = nameToInfo[n]
         /\ tokenInfoMap'[n] = tokenInfoMap[n]
BY DEF Inv, TypeOK, RegisteTokenInfo

(* What the steps below use of Inv. *)
MapTypes ==
  /\ contractToName \in [Net -> [OfficialContracts -> Names \cup {None}]]
  /\ nameToInfo \in [Net -> [Names -> Tokens \cup {None}]]
  /\ tokenInfoMap \in [Net -> [CoinTypes -> [Names -> Tokens \cup {None}]]]

LEMMA InvGives == Inv => MapTypes /\ MapsAgree /\ Twins /\ HeaviestWins
BY DEF Inv, TypeOK, InfoOrNone, MapTypes

LEMMA MapsStep ==
  ASSUME Inv, NEW t \in Tokens, RegisteTokenInfo(t)
  PROVE  MapsAgree'
<1> USE ConstantsAssumption, InvGives DEF MapTypes
<1>1. ContractsLead'
  <2> SUFFICES ASSUME NEW n \in Net, NEW k \in OfficialContracts,
                      contractToName'[n][k] # None
               PROVE  LET nm == contractToName'[n][k]
                          u  == nameToInfo'[n][nm]
                      IN  /\ u # None /\ name[u] = nm /\ officialContract[u] = k
                          /\ tokenInfoMap'[n][coinType[u]][nm] = u
    BY DEF ContractsLead
  <2>1. CASE Stays(n, t)
    BY <2>1, Keeps DEF MapsAgree, ContractsLead
  <2>2. CASE ~Stays(n, t) /\ k = officialContract[t]
    <3>1. contractToName'[n][k] = name[t]
      BY <2>2, ReplacesContract
    <3>2. nameToInfo'[n][name[t]] = t
      BY <2>2, ReplacesName
    <3>3. tokenInfoMap'[n][coinType[t]][name[t]] = t
      BY <2>2, ReplacesInfo
    <3> QED
      BY <2>2, <3>1, <3>2, <3>3
  <2>3. CASE ~Stays(n, t) /\ k # officialContract[t]
    <3> DEFINE nm == contractToName[n][k]
               u  == nameToInfo[n][nm]
    <3>1. /\ contractToName'[n][k] = nm
          /\ nm \in Names /\ u \in Tokens /\ name[u] = nm /\ officialContract[u] = k
          /\ tokenInfoMap[n][coinType[u]][nm] = u
      BY <2>3, ReplacesContract DEF MapsAgree, ContractsLead
    <3>2. nm # name[t]
      BY <2>3, <3>1, NamesAreUnique
    <3>3. nm # Known(n, t)
      BY <2>3, <3>1, Leads DEF Rival
    <3>4. ~Drops(n, t, coinType[u], nm)
      <4>1. nm = name[Rival(n, t)] => nm = Known(n, t) \/ Known(n, t) = None
        BY Leads
      <4> QED
        BY <3>3, <4>1 DEF Drops
    <3>5. nameToInfo'[n][nm] = u
      BY <2>3, <3>1, <3>2, <3>3, ReplacesName
    <3>6. tokenInfoMap'[n][coinType[u]][nm] = u
      BY <2>3, <3>1, <3>2, <3>4, ReplacesInfo
    <3> QED
      BY <3>1, <3>5, <3>6
  <2> QED
    BY <2>1, <2>2, <2>3
<1>2. ASSUME NEW n \in Net, NEW nm \in Names, nameToInfo'[n][nm] # None
      PROVE  /\ name[nameToInfo'[n][nm]] = nm
             /\ contractToName'[n][officialContract[nameToInfo'[n][nm]]] = nm
  <2>1. CASE Stays(n, t)
    BY <1>2, <2>1, Keeps DEF MapsAgree, NothingLeft
  <2>2. CASE ~Stays(n, t) /\ nm = name[t]
    <3>1. nameToInfo'[n][nm] = t
      BY <2>2, ReplacesName
    <3> QED
      BY <2>2, <3>1, ReplacesContract
  <2>3. CASE ~Stays(n, t) /\ nm # name[t]
    <3>1. nm # Known(n, t) /\ nameToInfo'[n][nm] = nameToInfo[n][nm]
      BY <1>2, <2>3, ReplacesName
    <3>2. /\ nameToInfo[n][nm] \in Tokens
          /\ name[nameToInfo[n][nm]] = nm
          /\ contractToName[n][officialContract[nameToInfo[n][nm]]] = nm
      BY <1>2, <3>1 DEF MapsAgree, NothingLeft
    <3>3. officialContract[nameToInfo[n][nm]] # officialContract[t]
      BY <3>1, <3>2 DEF Known
    <3> QED
      BY <2>3, <3>1, <3>2, <3>3, ReplacesContract
  <2> QED
    BY <2>1, <2>2, <2>3
<1>3. ASSUME NEW n \in Net, NEW nm \in Names, NEW ct \in CoinTypes,
             tokenInfoMap'[n][ct][nm] # None
      PROVE  /\ nameToInfo'[n][nm] = tokenInfoMap'[n][ct][nm]
             /\ coinType[tokenInfoMap'[n][ct][nm]] = ct
  <2>1. CASE Stays(n, t)
    BY <1>3, <2>1, Keeps DEF MapsAgree, NothingLeft
  <2>2. CASE ~Stays(n, t) /\ nm = name[t] /\ ct = coinType[t]
    <3>1. nameToInfo'[n][nm] = t
      BY <2>2, ReplacesName
    <3> QED
      BY <2>2, <3>1, ReplacesInfo
  <2>3. CASE ~Stays(n, t) /\ ~(nm = name[t] /\ ct = coinType[t])
    <3> DEFINE u == tokenInfoMap[n][ct][nm]
    <3>1. ~Drops(n, t, ct, nm) /\ tokenInfoMap'[n][ct][nm] = u
      BY <1>3, <2>3, ReplacesInfo
    <3>2. /\ u \in Tokens /\ nameToInfo[n][nm] = u /\ coinType[u] = ct
          /\ name[u] = nm /\ contractToName[n][officialContract[u]] = nm
      BY <1>3, <3>1 DEF MapsAgree, NothingLeft
    <3>3. nm # Known(n, t)
      BY <3>1, <3>2 DEF Drops, Rival
    <3>4. nm # name[t]
      BY <3>2, <3>3, NamesAreUnique DEF Known
    <3> QED
      BY <2>3, <3>1, <3>2, <3>3, <3>4, ReplacesName
  <2> QED
    BY <2>1, <2>2, <2>3
<1>4. NothingLeft'
  BY <1>2, <1>3 DEF NothingLeft
<1> QED
  BY <1>1, <1>4 DEF MapsAgree

LEMMA TwinsStep ==
  ASSUME Inv, NEW t \in Tokens, RegisteTokenInfo(t)
  PROVE  Twins'
<1>1. /\ Known("main", t) = Known("test", t)
      /\ Rival("main", t) = Rival("test", t)
  BY DEF Inv, Twins, Known, Rival
<1>2. Stays("main", t) <=> Stays("test", t)
  BY <1>1 DEF Stays
<1> QED
  BY <1>1, <1>2 DEF Inv, Twins, RegisteTokenInfo, Net

LEMMA HeaviestStep ==
  ASSUME Inv, NEW t \in Tokens, RegisteTokenInfo(t)
  PROVE  HeaviestWins'
<1> USE ConstantsAssumption, InvGives DEF MapTypes
<1>1. ASSUME NEW u \in Tokens \ todo', NEW n \in Net
      PROVE  Known(n, u)' # None /\ weight[u] <= weight[Rival(n, u)']
  <2>1. u = t \/ u \in Tokens \ todo
    BY <1>1 DEF RegisteTokenInfo
  <2>2. CASE Stays(n, t)
    <3>1. Known(n, u)' = Known(n, u) /\ Rival(n, u)' = Rival(n, u)
      BY <2>2, Keeps DEF Known, Rival
    <3>2. CASE u = t
      BY <2>2, <3>1, <3>2 DEF Stays, MapsAgree, ContractsLead, Known, Rival
    <3>3. CASE u \in Tokens \ todo
      BY <3>1, <3>3 DEF HeaviestWins
    <3> QED
      BY <2>1, <3>2, <3>3
  <2>3. CASE ~Stays(n, t) /\ officialContract[u] = officialContract[t]
    <3>1. Known(n, u)' = name[t] /\ Rival(n, u)' = t
      <4>1. Known(n, u)' = name[t]
        BY <2>3, ReplacesContract DEF Known
      <4>2. nameToInfo'[n][name[t]] = t
        BY <2>3, ReplacesName
      <4> QED
        BY <4>1, <4>2 DEF Rival
    <3>2. Known(n, u) = Known(n, t) /\ Rival(n, u) = Rival(n, t)
      BY <2>3 DEF Known, Rival
    <3>3. CASE u \in Tokens \ todo
      <4>1. Known(n, t) # None /\ weight[u] <= weight[Rival(n, t)]
        BY <3>2, <3>3 DEF HeaviestWins
      <4>2. weight[Rival(n, t)] < weight[t]
        BY <2>3, <4>1, Leads DEF Stays
      <4> QED
        BY <3>1, <4>1, <4>2, Leads
    <3>4. CASE u = t
      BY <3>1, <3>4
    <3> QED
      BY <2>1, <3>3, <3>4
  <2>4. CASE ~Stays(n, t) /\ officialContract[u] # officialContract[t]
    <3>1. /\ u \in Tokens \ todo
          /\ Known(n, u) # None /\ weight[u] <= weight[Rival(n, u)]
      BY <2>1, <2>4 DEF HeaviestWins
    <3>2. /\ Known(n, u) \in Names /\ Rival(n, u) \in Tokens
          /\ name[Rival(n, u)] = Known(n, u)
          /\ officialContract[Rival(n, u)] = officialContract[u]
      BY <3>1, Leads
    <3>3. Known(n, u) # name[t]
      BY <2>4, <3>2, NamesAreUnique
    <3>4. Known(n, u) # Known(n, t)
      BY <2>4, <3>1, <3>2, Leads DEF Rival
    <3>5. /\ \A k \in OfficialContracts :
               k # officialContract[t] => contractToName'[n][k] = contractToName[n][k]
          /\ \A nm \in Names :
               nm # name[t] /\ nm # Known(n, t) => nameToInfo'[n][nm] = nameToInfo[n][nm]
      BY <2>4, ReplacesContract, ReplacesName
    <3>6. officialContract[u] \in OfficialContracts
      OBVIOUS
    <3>7. Known(n, u)' = Known(n, u)
      BY <2>4, <3>5, <3>6 DEF Known
    <3>8. Rival(n, u)' = Rival(n, u)
      <4>1. nameToInfo'[n][Known(n, u)] = nameToInfo[n][Known(n, u)]
        BY <3>2, <3>3, <3>4, <3>5
      <4> QED
        BY <3>7, <4>1 DEF Rival
    <3> QED
      BY <3>1, <3>7, <3>8
  <2> QED
    BY <2>2, <2>3, <2>4
<1>2. ASSUME NEW u \in Tokens PROVE Rival("main", u)' = Rival("test", u)'
  BY TwinsStep DEF Twins, Rival, Known
<1> QED
  BY <1>1, <1>2 DEF HeaviestWins

-----------------------------------------------------------------------------
(* Contracts and payloads.                                                  *)

LEMMA SettleStep ==
  ASSUME Inv, TypeOK', [Next]_vars
  PROVE  ContractsSettle'
<1> USE ConstantsAssumption DEF Inv, TypeOK, ContractsSettle, PaysToContract, maps, records, process
<1>1. CASE /\ UNCHANGED <<contract, plugin, sign, paysTo>>
           /\ setup' = "private" => setup = "private" \/ HasNetHandler
  <2>1. setup' = "private" => HasNetHandler'
    BY <1>1 DEF HasNetHandler
  <2>2. sign'.at = "pack" => contract'[Own(sign.token)'] # "none"
    BY <1>1 DEF Own
  <2> QED
    BY <1>1, <2>1, <2>2
<1>2. ASSUME NEW t \in left, SetContract(t)
      PROVE  ContractsSettle'
  <2>1. HasNetHandler /\ plugin.net = "test"
    BY <1>2 DEF SetContract, HasNetHandler
  <2>2. /\ Own(t) \in Net \X Tokens /\ Own(t)[1] = "test"
        /\ \A r \in Net \X Tokens :
             contract'[r] = IF r = Own(t) THEN "private" ELSE contract[r]
    BY <1>2, <2>1 DEF SetContract, Own
  <2>3. \A r \in Net \X Tokens :
          /\ contract'[r] = "official" <=> r[1] = "main"
          /\ contract[r] # "none" => contract'[r] # "none"
    BY <2>2
  <2>4. UNCHANGED <<plugin, setup, sign, paysTo>>
    BY <1>2 DEF SetContract
  <2>5. sign.at = "pack" => contract'[Own(sign.token)] # "none"
    BY <2>3 DEF Own
  <2> QED
    BY <2>1, <2>3, <2>4, <2>5 DEF Own, HasNetHandler
<1>3. ASSUME NEW t \in Tokens, PreSign(t) PROVE ContractsSettle'
  BY <1>3 DEF PreSign, HasNetHandler
<1>4. CASE Balance
  <2>1. CASE contract[Own(sign.token)] = "none"
    BY <1>4, <2>1 DEF Balance, HasNetHandler
  <2>2. CASE contract[Own(sign.token)] # "none"
    BY <1>4, <2>2 DEF Balance, Own, HasNetHandler
  <2> QED
    BY <2>1, <2>2
<1>5. CASE Pack
  <2>1. Own(sign.token) \in Net \X Tokens /\ contract[Own(sign.token)] # "none"
    BY <1>5 DEF Pack, Own
  <2>2. contract[Own(sign.token)] = IF plugin.net = "main" THEN "official" ELSE "private"
    BY <2>1 DEF Own
  <2> QED
    BY <1>5, <2>2 DEF Pack, HasNetHandler
<1> QED
  BY <1>1, <1>2, <1>3, <1>4, <1>5
  DEF Next, setUpTokens, RegisteTokenInfo, SetUpTokens, BuildChainFails, Enabled, SetUpReturns,
      Enable, EnablePrivate, SetContract, Announce, ChainInfoMissing, Panic, vars

-----------------------------------------------------------------------------
(* What is switched on, and announced.                                      *)

(* Whatever setUpTokens or the register loop does with the handler of       *)
(* ethereum's test network, it does for a token that has a contract there.  *)
LEMMA SwitchedOnStep ==
  ASSUME Inv, [Next]_vars
  PROVE  SwitchedOn'
<1> USE DEF Inv, TypeOK, SwitchedOn, records, process, maps, Own, HasNetHandler
<1>1. ASSUME NEW t \in Tokens, RegisteTokenInfo(t) PROVE SwitchedOn'
  BY <1>1 DEF RegisteTokenInfo
<1>2. CASE SetUpTokens
  BY <1>2 DEF SetUpTokens, Runs
<1>3. CASE Enabled
  BY <1>3 DEF Enabled, Listed, Runs
<1>4. ASSUME NEW t \in left, Enable(t) \/ EnablePrivate(t) \/ SetContract(t)
      PROVE  SwitchedOn'
  BY <1>4 DEF Enable, EnablePrivate, SetContract, Runs
<1>5. ASSUME NEW t \in Tokens, Announce(t) PROVE SwitchedOn'
  BY <1>5 DEF Announce, Runs
<1>6. CASE UNCHANGED <<todo, plugin, disabled, left, announced>>
  BY <1>6
<1> QED
  BY <1>1, <1>2, <1>3, <1>4, <1>5, <1>6
  DEF Next, setUpTokens, BuildChainFails, SetUpReturns, PreSign, Balance, Pack,
      ChainInfoMissing, Panic, vars

LEMMA AnnouncesStep ==
  ASSUME Inv, [Next]_vars
  PROVE  AnnouncesOwn'
<1> USE DEF Inv, maps, records, process
<1>1. ASSUME NEW t \in Tokens, RegisteTokenInfo(t) PROVE AnnouncesOwn'
  BY <1>1 DEF RegisteTokenInfo, SwitchedOn, AnnouncesOwn
<1>2. CASE UNCHANGED <<maps, plugin, announced>>
  BY <1>2 DEF AnnouncesOwn, Infos, HasNetHandler
<1>3. ASSUME NEW t \in Tokens, Announce(t) PROVE AnnouncesOwn'
  <2>1. /\ UNCHANGED <<maps, plugin>> /\ announced' = announced \cup {name[t]}
        /\ t \in Infos /\ Own(t) \notin disabled
    BY <1>3 DEF Announce
  <2>2. Infos' = Infos /\ HasNetHandler' = HasNetHandler
    BY <2>1 DEF Infos, HasNetHandler
  <2>3. HasNetHandler => t \in Native \/ officialContract[t] \in Private
    BY <2>1 DEF SwitchedOn
  <2> QED
    BY <2>1, <2>2, <2>3 DEF AnnouncesOwn
<1> QED
  BY <1>1, <1>2, <1>3
  DEF Next, setUpTokens, SetUpTokens, BuildChainFails, Enabled, SetUpReturns, Enable,
      EnablePrivate, SetContract, PreSign, Balance, Pack, ChainInfoMissing, Panic, vars

-----------------------------------------------------------------------------
(* Inv is an invariant of the registry. *)
THEOREM Invariance == Spec => []Inv
<1>1. ASSUME Inv, [Next]_vars PROVE Inv'
  <2>1. TypeOK' /\ ContractsSettle' /\ SwitchedOn' /\ AnnouncesOwn'
    BY <1>1, TypeStep, SettleStep, SwitchedOnStep, AnnouncesStep DEF Inv
  <2>2. CASE \E t \in Tokens : RegisteTokenInfo(t)
    BY <1>1, <2>1, <2>2, MapsStep, TwinsStep, HeaviestStep DEF Inv
  <2>3. CASE UNCHANGED <<todo, maps>>
    <3>1. MapsAgree'
      BY <1>1, <2>3 DEF Inv, maps, MapsAgree, ContractsLead, NothingLeft
    <3>2. Twins'
      BY <1>1, <2>3 DEF Inv, maps, Twins
    <3>3. HeaviestWins'
      BY <1>1, <2>3 DEF Inv, maps, HeaviestWins, Known, Rival
    <3> QED
      BY <2>1, <3>1, <3>2, <3>3 DEF Inv
  <2>4. \/ \E t \in Tokens : RegisteTokenInfo(t)
        \/ UNCHANGED <<todo, maps>>
    BY <1>1
    DEF Next, setUpTokens, SetUpTokens, BuildChainFails, Enabled, SetUpReturns,
        Enable, EnablePrivate, SetContract, Announce, PreSign, Balance, Pack,
        ChainInfoMissing, Panic, vars
  <2> QED
    BY <2>2, <2>3, <2>4
<1> QED
  BY InitInv, <1>1, PTL DEF Spec

(* What is found by contract, by name and by coin type is the same record,  *)
(* and nothing replaced is found (register.go:70-101).                      *)
THEOREM OneRecord == Spec => []MapsAgree
<1>1. Inv => MapsAgree
  BY DEF Inv
<1> QED
  BY Invariance, <1>1, PTL

(* The heaviest entry of a contract is the registered one, on both nets, in *)
(* whatever order the init functions run (register.go:82-91).               *)
THEOREM WeightDecides == Spec => []HeaviestWins
<1>1. Inv => HeaviestWins
  BY DEF Inv
<1> QED
  BY Invariance, <1>1, PTL

(* Payloads of contract coins are for the contract of their token, though   *)
(* it is set while they are prepared (eth/base.go:107-112).                 *)
THEOREM RightContract == Spec => []PaysToContract
<1>1. Inv => PaysToContract
  BY DEF Inv, ContractsSettle
<1> QED
  BY Invariance, <1>1, PTL

(* In ethereum's test network the proxy never hears of a contract coin that *)
(* has no private contract (eth/base.go:107-112), nor any plugin's of       *)
(* another coin type (task.go:154), though setUpTokens and the register     *)
(* loop run side by side.                                                   *)
THEOREM AnnouncedIsServed == Spec => []AnnouncesOwn
<1>1. Inv => AnnouncesOwn
  BY DEF Inv
<1> QED
  BY Invariance, <1>1, PTL

-----------------------------------------------------------------------------
(* What the weights are for: the hand-written lists (Waight 100,            *)
(* eth/base.go:45) over the long ones (Waight 1, erc20/data.go:25).         *)

Heaviest(t) ==
  \A u \in Tokens \ {t} :
    officialContract[u] = officialContract[t] => weight[u] < weight[t]

(* By contract, by name and by coin type, t is what is found.               *)
FoundAt(n, t) ==
  /\ contractToName[n][officialContract[t]] = name[t]
  /\ nameToInfo[n][name[t]] = t
  /\ tokenInfoMap[n][coinType[t]][name[t]] = t

(* An entry heavier than every other of its contract is found from the      *)
(* moment its init function has run.                                        *)
HeaviestFound ==
  \A t \in Tokens \ todo, n \in Net : Heaviest(t) => FoundAt(n, t)

LEMMA InvFindsHeaviest == Inv => HeaviestFound
<1> SUFFICES ASSUME Inv, NEW t \in Tokens \ todo, NEW n \in Net, Heaviest(t)
             PROVE  FoundAt(n, t)
  BY DEF HeaviestFound
<1>1. Known(n, t) # None /\ weight[t] <= weight[Rival(n, t)]
  BY DEF Inv, HeaviestWins
<1>2. /\ Rival(n, t) \in Tokens /\ name[Rival(n, t)] = Known(n, t)
      /\ officialContract[Rival(n, t)] = officialContract[t]
  BY <1>1, Leads
<1>3. Rival(n, t) = t
  BY <1>1, <1>2, ConstantsAssumption DEF Heaviest
<1>4. Known(n, t) = name[t] /\ nameToInfo[n][name[t]] = t
  BY <1>2, <1>3 DEF Rival
<1>5. tokenInfoMap[n][coinType[t]][name[t]] = t
  <2>1. officialContract[t] \in OfficialContracts
    BY ConstantsAssumption
  <2> QED
    BY <1>1, <1>4, <2>1 DEF Inv, MapsAgree, ContractsLead, Known
<1> QED
  BY <1>4, <1>5 DEF FoundAt, Known

(* The order in which Go runs the init functions of the packages decides    *)
(* nothing for the entry that outweighs all others of its contract: neither *)
(* net ever loses it again (register.go:82-91).                             *)
THEOREM HeaviestIsFound == Spec => []HeaviestFound
BY InvFindsHeaviest, Invariance, PTL

=============================================================================
