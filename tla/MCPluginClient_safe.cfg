CONSTANTS
  r1 = r1
  r2 = r2
  Req = {}
  Unknown = {}
  MaxRetries = 3
  ChanBuff = 1
  Tokens = 1
  MaxClients = 3
  MaxBreaks = 1
SPECIFICATION Spec
INVARIANT Inv
INVARIANT OneClient
INVARIANT StopsGracefully
CHECK_DEADLOCK FALSE
