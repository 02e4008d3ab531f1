CONSTANTS
  r1 = r1
  r2 = r2
  Req = {r1, r2}
  Unknown = {r2}
  MaxRetries = 3
  ChanBuff = 1
  Tokens = 1
  MaxClients = 1
  MaxBreaks = 1
SPECIFICATION FairSpec
PROPERTY Answered
CHECK_DEADLOCK FALSE
