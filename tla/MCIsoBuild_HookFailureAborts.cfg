SPECIFICATION Spec
CONSTANTS
  tmp = tmp
  varTmp = varTmp
  WorkDirs <- MCWorkDirs
  Removals <- MCRemovals
  MaxRuns = 1
  MaxFaults = 1
SYMMETRY MCSymmetry
INVARIANTS
  HookFailureAborts
CHECK_DEADLOCK FALSE
