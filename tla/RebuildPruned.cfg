SPECIFICATION Spec
CONSTANTS
  KeepBackups = 2
  GrowthFactor = 2
  MaxCommit = 1
  MaxSize = 1
  MaxDay = 1
  MaxSecond = 4
  MaxKills = 0
INVARIANT JustMadeBackupKept

