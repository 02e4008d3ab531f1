SPECIFICATION FairSpec
CONSTANTS
  broadcast = broadcast
  sync = sync
  stream = stream
  Callers = {broadcast, sync, stream}
  Streams = {stream}
  MaxFaults = 1
  MaxCloses = 2
  MaxBreaks = 1
INVARIANT Inv
INVARIANT LeaksBounded
PROPERTY LostToCheckOrStream
CHECK_DEADLOCK FALSE
PROPERTY Served
