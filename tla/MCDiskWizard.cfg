SPECIFICATION Spec
CONSTANTS
  MaxRuns = 2
  NoPart = NoPart
INVARIANTS
  ConsentFirst
  ResultIsUsable
  ResultOnNewTable
CHECK_DEADLOCK FALSE
