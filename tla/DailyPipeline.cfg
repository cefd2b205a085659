SPECIFICATION FairSpec
CONSTANTS
  Writers = {"update", "refresh"}
  Daily = {"run_daily"}
  Backups = {"rclone_backup"}
  Clis = {"cli"}
  Viewers = {"progress"}
  StageCount = 2
  Monitored = {1}
  NoOne = "none"
INVARIANT TypeOK
INVARIANT OneWriter
INVARIANT HolderNamed
 
PROPERTY LockComesFree
PROPERTY TakeTurns
