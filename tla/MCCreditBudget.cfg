SPECIFICATION FairSpec
CONSTANTS
  KeyCount = 2
  DailyLimit = 3
  DailyReserve = 1
  RunCap = 2
  SaveEvery = 2
  NetworkAttempts = 2
  UsageSyncAttempts = 2
  RateLimitRetries = 1
  MaxDay = 2
  MaxRun = 1
INVARIANT TypeOK
INVARIANT CapOvershootBound
INVARIANT ChargesCoverBilling
INVARIANT VerifiedKeyCovered
INVARIANT SyncedRunPaysVerified
INVARIANT MidnightUndercountBound
PROPERTY PaidRequestReturns
PROPERTY RequestAdvances
