SPECIFICATION Spec
CONSTANTS
  KeepBackups = 2
  GrowthFactor = 2
  MaxCommit = 4
  MaxSize = 4
  MaxDay = 2
  MaxSecond = 2
  MaxKills = 1
INVARIANT TypeOK
INVARIANT NothingLost
INVARIANT ReplacedFileKept
INVARIANT LinkOnlyByKill
PROPERTY NoNeedlessRebuild

