----------------------------- MODULE MCDiskLife -----------------------------
(* Lives of machines with their root on one disk and their swap on another *)
(* or on the same; each boot has noresume or not, and any name for resume=.*)
EXTENDS DiskLife

CONSTANTS hd, usb

MCDisks == {hd, usb}

OnPartition(d) == [disk |-> d, layer |-> "partition", name |-> "dev"]

MCMachines ==
  {[root |-> OnPartition(hd), swap |-> v, noresume |-> skip, udev |-> TRUE, rules |-> FALSE,
    tools |-> v.layer = "activated", init |-> TRUE] : v \in Volume, skip \in BOOLEAN}

=============================================================================
