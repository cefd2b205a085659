SPECIFICATION Spec
CONSTANTS
  SymbolCount = 2
  SaveEvery = 2
  Movable = {2}
  Splitting = {2}
  OffHours = TRUE
  MaxLag = 1
  MaxKills = 1
  MaxSession = 2
  MaxDay = 2
INVARIANT TypeOK
INVARIANT CompleteHasBars
INVARIANT CompleteHasSplits
INVARIANT NoUnfinishedBar
INVARIANT CleanRunLeavesNoGap
PROPERTY StaleSurvives
PROPERTY ContractHolds
