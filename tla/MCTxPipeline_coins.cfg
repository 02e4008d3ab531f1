CONSTANTS
  t1 = t1
  t2 = t2
  a1 = a1
  Tx = {t1, t2}
  Account = {a1}
  From <- MCFrom
  Coins = {"ethereum", "bitcoin", "solana"}
  RegisteredOf <- MCRegistered
  LedgerKind <- MCLedger
  AbortOf <- MCAbort
  StopOf <- MCStop
  MaxSlot = 1
  Endpoints = 2
  MaxFaults = 1
  None = None
SPECIFICATION FairSpec
INVARIANT Inv
INVARIANT PaidOnce
INVARIANT DoneMeansPaid
INVARIANT FailedPaidOnlyIfBlamed
INVARIANT PaidNeverFailedWithoutAbort
PROPERTY LifecycleSpec
PROPERTY SettlesUnlessStuck
CHECK_DEADLOCK FALSE
