SPECIFICATION Spec
CONSTANTS
  l1 = l1
  l2 = l2
  p1 = p1
  p2 = p2
  e1 = e1
  e2 = e2
  Chains = {"eth", "bsc", "btc", "depinc", "fil", "sol", "tron"}
  Local = {l1, l2}
  Public = {p1, p2}
  AnswerError = {e1, e2}
  MaxHeight = 1
INVARIANT Inv
INVARIANT LocalFirst
INVARIANT NeverExhausted
INVARIANT ClientsClosed
INVARIANT AnswerWins
PROPERTY NodeCallSpec
CHECK_DEADLOCK FALSE
