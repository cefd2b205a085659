SPECIFICATION FairSpec
CONSTANTS
  Symbols = {"a", "b"}
  BootstrapDays = 0
  MaxAge = 1
  MinCatalog = 1
  MaxDay = 2
  MaxChanges = 2
  MaxFaults = 1
INVARIANT TypeOK
INVARIANT FormerKept
PROPERTY RotationListed
PROPERTY ListComesBack
