SPECIFICATION FairSpec
CONSTANTS
  hd = hd
  usb = usb
  Disks <- MCDisks
  MaxWait = 2
  Machines <- MCMachines
INVARIANTS
  SystemHasRoot
  GivesUpJustly
PROPERTIES
  LateRootIsMounted
  HandsOver
  RunsAsMicroInit
CHECK_DEADLOCK FALSE
