SPECIFICATION FairSpec
CONSTANTS
  Threshold = 2
  PageSizes = {2}
  MaxPages = 2
  DaysBack = 2
  MaxDaysBack = 3
  MaxDay = 4
  MaxArticles = 3
  MaxPublished = 4
  MaxFaults = 1
INVARIANT TypeOK
INVARIANT NoDateSkipped
INVARIANT WalkedPartStored
PROPERTY WindowsFinish
PROPERTY WindowWalksOn
