SPECIFICATION Spec
CONSTANTS
  SymbolCount = 1
  SaveEvery = 2
  Movable = {}
  Splitting = {1}
  OffHours = TRUE
  MaxLag = 0
  MaxKills = 0
  MaxSession = 2
  MaxDay = 2
INVARIANT CompletePromise
