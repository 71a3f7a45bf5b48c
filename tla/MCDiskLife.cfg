SPECIFICATION LifeSpec
CONSTANTS
  hd = hd
  usb = usb
  Disks <- MCDisks
  MaxWait = 1
  MaxBoots = 2
  Machines <- MCMachines
INVARIANTS
  StaleOnlyIfPassedOver
CHECK_DEADLOCK FALSE
