----------------------------- MODULE MediaChoice -----------------------------
(***************************************************************************)
(* What the search for the boot medium promises, without mounts, loop      *)
(* devices or hashes ("Safe and deterministic ISO selection",              *)
(* docs/08-ventoy-support.md:30; "Ordered probing of devices",             *)
(* docs/04-device-detection.md:45).  The search makes a bounded number of  *)
(* passes; each pass considers exactly the devices known when it starts;   *)
(* it ends with the first good one in glob order, and gives up only after  *)
(* a last pass in which no device was good.                                *)
(***************************************************************************)
EXTENDS Naturals, Sequences

CONSTANTS Devices, Glob, Passes, Undecided, Missing

VARIABLES
  present,   \* devices discovered so far
  good,      \* the devices that hold a medium of this initramfs
  pass,      \* passes begun
  seen,      \* the devices of the current pass
  choice     \* the device chosen, Undecided or Missing

vars == <<present, good, pass, seen, choice>>

Init ==
  /\ present \subseteq Devices
  /\ good \subseteq Devices
  /\ pass = 0
  /\ seen = {}
  /\ choice = Undecided

Plug ==
  /\ \E d \in Devices \ present : present' = present \cup {d}
  /\ UNCHANGED <<good, pass, seen, choice>>

LookAgain ==
  /\ choice = Undecided
  /\ pass < Passes
  /\ seen \cap good = {}
  /\ pass' = pass + 1
  /\ seen' = present
  /\ UNCHANGED <<present, good, choice>>

(* d is listed before every other good device of the pass. *)
IsFirst(d) ==
  \E i \in DOMAIN Glob :
    /\ Glob[i] = d
    /\ \A j \in 1..(i - 1) : Glob[j] \notin seen \cap good

Choose ==
  /\ choice = Undecided
  /\ \E d \in seen \cap good : IsFirst(d) /\ choice' = d
  /\ UNCHANGED <<present, good, pass, seen>>

GiveUp ==
  /\ choice = Undecided
  /\ pass = Passes
  /\ seen \cap good = {}
  /\ choice' = Missing
  /\ UNCHANGED <<present, good, pass, seen>>

Next == Plug \/ LookAgain \/ Choose \/ GiveUp

Spec == Init /\ [][Next]_vars

=============================================================================
