SPECIFICATION FairSpec
CONSTANTS
  KeyCount = 2
  DailyLimit = 1
  DailyReserve = 0
  RunCap = 1
  SaveEvery = 2
  NetworkAttempts = 1
  UsageSyncAttempts = 1
  RateLimitRetries = 0
  MaxDay = 1
  MaxRun = 1
PROPERTY CatalogRequestReturns
