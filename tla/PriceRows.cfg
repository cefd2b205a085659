SPECIFICATION Spec
CONSTANTS
  Days = {1, 2, 3, 4}
  PatchDay = 3
  RefDay = 2
  Starts = {0, 4}
  Closures = {4}
  MaxSplits = 1
  MaxSecond = 2
INVARIANT TypeOK
INVARIANT IndicatorsCurrent
INVARIANT RulesKept
INVARIANT OneBasis
INVARIANT PatchesInside
