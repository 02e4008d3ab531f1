SPECIFICATION FairSpec
CONSTANTS
  a = a
  b = b
  c = c
  d = d
  x = x
  y = y
  Tx = {a, b, c, d}
  amount <- Amounts
  Malformed = {d}
  Coins = {x, y}
  value <- Values
  Gas = 1
  MinConfirms = 2
  MaxReorg = 1
  MaxLag = 1
  MaxReorgs = 2
CHECK_DEADLOCK FALSE
INVARIANT Inv
INVARIANT Conserved
INVARIANT FailedForAReason
INVARIANT DoneIsFinal
INVARIANT InputsStay
PROPERTY Settles
