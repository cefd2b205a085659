SPECIFICATION Spec
CONSTANTS
  KeyCount = 2
  DailyLimit = 2
  DailyReserve = 1
  RunCap = 2
  SaveEvery = 2
  NetworkAttempts = 2
  UsageSyncAttempts = 1
  RateLimitRetries = 1
  MaxDay = 2
  MaxRun = 1
INVARIANT SkippedKeyUnused
