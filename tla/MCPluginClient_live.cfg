CONSTANTS
  r1 = r1
  r2 = r2
  Req = {}
  Unknown = {}
  MaxRetries = 3
  ChanBuff = 1
  Tokens = 1
  MaxClients = 2
  MaxBreaks = 1
SPECIFICATION FairSpec
PROPERTY Reconnects
PROPERTY Stops
PROPERTY WindsDown
CHECK_DEADLOCK FALSE
