SPECIFICATION Spec
CONSTANTS
  SymbolCount = 1
  SaveEvery = 2
  Movable = {}
  Splitting = {1}
  OffHours = FALSE
  MaxLag = 0
  MaxKills = 1
  MaxSession = 2
  MaxDay = 2
INVARIANT SplitsPromise
