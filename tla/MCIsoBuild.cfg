SPECIFICATION Spec
CONSTANTS
  tmp = tmp
  varTmp = varTmp
  WorkDirs <- MCWorkDirs
  Removals <- MCRemovals
  MaxRuns = 3
  MaxFaults = 1
SYMMETRY MCSymmetry
INVARIANTS
  OneGeneration
  SumChain
  LacksOnlyMissed
  LatestUnlessMoved
CHECK_DEADLOCK FALSE
