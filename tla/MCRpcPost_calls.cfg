SPECIFICATION FairSpec
CONSTANTS
  c1 = c1
  c2 = c2
  c3 = c3
  h1 = h1
  h2 = h2
  Calls = {c1, c2, c3}
  Handlers = {h1, h2}
  Cap = 1
INVARIANT Inv
PROPERTY KeepsPromise
PROPERTY Answered
PROPERTY QueuedIsAnswered
PROPERTY HandlersEnd
CHECK_DEADLOCK FALSE
