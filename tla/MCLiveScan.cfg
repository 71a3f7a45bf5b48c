SPECIFICATION FairScanSpec
CONSTANTS
  Devices <- MCDevices
  Isos <- MCIsos
  Glob <- MCGlob
  NumLoops = 2
  Passes = 3
  Arrangements <- MCArrangements
  NoDev = NoDev
  NoIso = NoIso
INVARIANTS
  ScanTypeOK
  MediumVerified
  VerdictAgrees
  RejectedIsUnmounted
  LoopsReleased
PROPERTIES
  ChoosesFirstGood
  ScanEnds
  LatecomerIsFound
CHECK_DEADLOCK FALSE
