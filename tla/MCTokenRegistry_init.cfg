SPECIFICATION FairSpec
CONSTANTS
  eth = eth
  usdt100 = usdt100
  usdt1 = usdt1
  usdc100 = usdc100
  usdc1 = usdc1
  elon = elon
  None = None
  Tokens = {eth, usdt100, usdt1, usdc100, usdc1, elon}
  Names <- MCNames
  OfficialContracts <- MCContracts
  CoinTypes = {"ethereum", "usdcerc20"}
  name <- MCname
  officialContract <- MCofficialContract
  weight <- MCweight
  coinType <- MCcoinType
  Native = {eth}
  Private = {"0xdAC1"}
  Plugins <- MCPlugins
INVARIANT Inv
INVARIANT HeaviestWins
INVARIANT PaysToContract
INVARIANT AnnouncesOwn
CHECK_DEADLOCK FALSE
PROPERTY AllAnnounced
