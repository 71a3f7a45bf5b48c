SPECIFICATION Spec
CONSTANTS
  Order <- TwoTools
  BinsOf <- MCBinsOf
  Builds = {new}
  Missing = missing
  Partial = partial
  MaxRuns = 2
INVARIANTS
  TypeOK
  ServedToolsConverge
PROPERTIES
  FetchedIsTheRow
CHECK_DEADLOCK FALSE
