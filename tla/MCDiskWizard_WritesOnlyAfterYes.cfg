SPECIFICATION Spec
CONSTANTS
  MaxRuns = 1
  NoPart = NoPart
INVARIANT WritesOnlyAfterYes
CHECK_DEADLOCK FALSE
