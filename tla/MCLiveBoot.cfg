SPECIFICATION FairSpec
CONSTANTS
  Devices <- MCDevices
  Isos <- MCIsos
  Glob <- MCGlob
  NumLoops = 2
  Passes = 2
  Arrangements <- MCArrangements
  Boots <- MCBoots
  NoDev = NoDev
  NoIso = NoIso
INVARIANTS
  SystemIsWhole
  MediumStaysInReach
  BreakpointStages
  ZramLeavesMemory
PROPERTIES
  RunsAsMicroInit
  GoodMediumPassesScan
CHECK_DEADLOCK FALSE
