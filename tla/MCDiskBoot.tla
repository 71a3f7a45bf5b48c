----------------------------- MODULE MCDiskBoot -----------------------------
(* DiskBoot on two disks: root and swap on the same one or on two, each on *)
(* a partition or on an activated volume, named in every way.              *)
EXTENDS DiskBoot

CONSTANTS hd, usb

MCDisks == {hd, usb}

MCMachines ==
  {m \in Machine : /\ m.root.disk = hd
                   /\ m.swap.layer = "activated" => m.root.layer = "activated"
                   /\ m.rules => m.tools /\ m.udev
                   /\ m.noresume => m.swap.name = "dev"
                   /\ m.swap.name = "none" => m.swap.disk = hd}

=============================================================================
