SPECIFICATION Spec
CONSTANTS
  l1 = l1
  l2 = l2
  p1 = p1
  p2 = p2
  e1 = e1
  e2 = e2
  Chains = {"btc"}
  Local = {l1, l2}
  Public = {p1, p2}
  AnswerError = {e1, e2}
  MaxHeight = 2
INVARIANT UsesSyncedNode
CHECK_DEADLOCK FALSE
