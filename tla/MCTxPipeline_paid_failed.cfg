CONSTANTS
  t1 = t1
  t2 = t2
  a1 = a1
  Tx = {t1, t2}
  Account = {a1}
  From <- MCFrom
  Coins = {"ethereum"}
  RegisteredOf <- MCRegistered
  LedgerKind <- MCLedger
  AbortOf <- MCAbort
  StopOf <- MCStop
  MaxSlot = 1
  Endpoints = 1
  MaxFaults = 1
  None = None
SPECIFICATION Spec
INVARIANT PaidNeverFailed
CHECK_DEADLOCK FALSE
