SPECIFICATION Spec
CONSTANTS
  N = 3
  INT_MAX = 127
  Paths <- SixPaths
  Counts = {1, 2, 10, 127}
  Totals <- SmallTotals
INVARIANTS
  BestShown
  TotalsRight
  OnlyLargeTotalsCrash
CHECK_DEADLOCK FALSE
