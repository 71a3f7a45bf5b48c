--------------------------- MODULE LiveScan_proofs ---------------------------
(***************************************************************************)
(* Theorems about the media scan, for all devices, ISO files, contents,    *)
(* loop devices and passes.                                                *)
(***************************************************************************)
EXTENDS LiveScan, FiniteSetTheorems, TLAPS

Idle     == {"start", "attempt", "device", "missing"}
OnDevice == {"probe", "verify", "list", "iso", "attached", "release"}
OnIso    == {"isoprobe", "isoverify"}
Testing  == {"attached", "isoprobe", "isoverify"}
Ended    == {"verdict", "found"}

Empty      == mnt["/mnt/iso"] = << >> /\ mnt["/mnt/iso_test"] = << >>
DeviceOnly == mnt["/mnt/iso"] = <<dev>> /\ mnt["/mnt/iso_test"] = << >>
IsoToo     == mnt["/mnt/iso"] = <<dev>> /\ mnt["/mnt/iso_test"] = <<Iso>>

(* What each part of the loop body may rely on having mounted. *)
Mounts ==
  /\ pc \in Idle     => Empty /\ held = {}
  /\ pc \in OnDevice => DeviceOnly /\ dev \in Devices /\ media.on[dev].fs
  /\ pc \in OnIso    => /\ IsoToo /\ dev \in Devices
                        /\ media.on[dev].fs /\ media.on[Iso].fs
  /\ pc \in {"probe", "verify"} => held = {}

(* What it has tested. *)
Tested ==
  /\ pc = "iso"       => file >= 1
  /\ pc \in Testing   => file \in 1..Len(Files)
  /\ pc = "verify"    => HasSquash(dev) /\ HasSum(dev)
  /\ pc = "isoverify" => HasSquash(Iso) /\ HasSum(Iso)

(* The loop device of the ISO under test is the one LOOP names; every      *)
(* other one carries an ISO grep did not find, or nothing.                 *)
Loops ==
  /\ \A l \in LoopIds : \/ loop[l] \in media.ungreppable \cup {NoIso}
                        \/ pc \in Testing /\ loop_out = {l} /\ loop[l] = Iso
                        \/ pc \in Ended /\ found_dev = "ventoy_iso"
  /\ pc \in Testing => \/ loop_out = {}
                       \/ \E l \in LoopIds : /\ loop_out = {l}
                                             /\ loop[l] = Iso
                                             /\ Iso \notin media.ungreppable
  /\ pc \in OnIso   => loop_out # {}

FoundNothing == found_dev = NoDev /\ iso_mnt = "/mnt/iso"

FoundDevice ==
  /\ found_dev \in Devices /\ found_dev = dev /\ iso_mnt = "/mnt/iso"
  /\ DeviceOnly /\ GoodMedium(dev)

FoundIso ==
  /\ found_dev = "ventoy_iso" /\ iso_mnt = "/mnt/iso_test"
  /\ IsoToo /\ Iso \in Isos /\ GoodMedium(Iso)
  /\ \E l \in LoopIds : {m \in LoopIds : loop[m] = Iso} = {l}

Verdicts ==
  /\ pc \notin Ended => FoundNothing
  /\ pc = "verdict"  => (FoundNothing /\ Empty /\ held = {}) \/ FoundDevice \/ FoundIso
  /\ pc = "found"    => FoundDevice \/ FoundIso

ScanInv == ScanTypeOK /\ Mounts /\ Tested /\ Loops /\ Verdicts

-----------------------------------------------------------------------------
(* Types *)

LEMMA MediaTypes ==
  ASSUME ScanTypeOK
  PROVE  /\ \A x \in Sources : media.on[x] \in Medium
         /\ \A d \in Devices : media.files[d] \in Seq(Isos)
         /\ media.ungreppable \subseteq Isos
BY DEF ScanTypeOK, Arrangement

LEMMA GlobTypes == Len(Glob) \in Nat /\ \A i \in 1..Len(Glob) : Glob[i] \in Devices
BY ScanAssumption

(* The ISO file under test exists. *)
LEMMA IsoType ==
  ASSUME ScanTypeOK, dev \in Devices, file \in 1..Len(Files)
  PROVE  Iso \in Isos
<1>1. media.files[dev] \in Seq(Isos)
  BY MediaTypes
<1> QED
  BY <1>1 DEF Iso, Files

LEMMA MountOnType ==
  ASSUME ScanTypeOK, NEW p \in Points, NEW x \in Sources, MountOn(p, x)
  PROVE  /\ mnt' \in [Points -> Seq(Sources)]
         /\ mnt'[p] = <<x>> \o mnt[p]
         /\ \A q \in Points \ {p} : mnt'[q] = mnt[q]
<1>1. <<x>> \o mnt[p] \in Seq(Sources)
  BY DEF ScanTypeOK
<1> QED
  BY <1>1 DEF ScanTypeOK, MountOn

LEMMA MountOnFree ==
  ASSUME ScanTypeOK, NEW p \in Points, NEW x \in Sources, MountOn(p, x),
         mnt[p] = << >>
  PROVE  /\ mnt' \in [Points -> Seq(Sources)]
         /\ mnt'[p] = <<x>>
         /\ \A q \in Points \ {p} : mnt'[q] = mnt[q]
<1>1. <<x>> \o << >> = <<x>>
  OBVIOUS
<1> QED
  BY <1>1, MountOnType

LEMMA TailType ==
  ASSUME ScanTypeOK, NEW p \in Points, Mounted(p), mnt' = [mnt EXCEPT ![p] = Tail(@)]
  PROVE  /\ mnt' \in [Points -> Seq(Sources)]
         /\ mnt'[p] = Tail(mnt[p])
         /\ \A q \in Points \ {p} : mnt'[q] = mnt[q]
<1>1. Tail(mnt[p]) \in Seq(Sources)
  BY DEF ScanTypeOK, Mounted
<1> QED
  BY <1>1 DEF ScanTypeOK

LEMMA UmountType ==
  ASSUME ScanTypeOK, NEW p \in Points, Umount(p)
  PROVE  mnt' \in [Points -> Seq(Sources)]
<1>1. CASE Mounted(p) /\ ~Busy(p)
  BY <1>1, TailType DEF Umount
<1>2. CASE ~(Mounted(p) /\ ~Busy(p))
  BY <1>2 DEF Umount, ScanTypeOK
<1> QED
  BY <1>1, <1>2

LEMMA UmountOrLazilyType ==
  ASSUME ScanTypeOK, NEW p \in Points, UmountOrLazily(p)
  PROVE  mnt' \in [Points -> Seq(Sources)] /\ held' \subseteq LoopIds
<1>1. held' \subseteq LoopIds
  BY DEF UmountOrLazily, ScanTypeOK
<1>2. CASE Mounted(p)
  BY <1>1, <1>2, TailType DEF UmountOrLazily
<1>3. CASE ~Mounted(p)
  BY <1>1, <1>3 DEF UmountOrLazily, ScanTypeOK
<1> QED
  BY <1>2, <1>3

LEMMA LosetupDType ==
  ASSUME ScanTypeOK, LosetupD
  PROVE  /\ loop' \in [LoopIds -> Isos \cup {NoIso}]
         /\ held' \subseteq LoopIds
         /\ \A l \in LoopIds : loop'[l] = IF loop_out = {l} THEN NoIso ELSE loop[l]
BY DEF ScanTypeOK, LosetupD

-----------------------------------------------------------------------------
(* The invariant is inductive.  Lemmas about the steps that mount, umount  *)
(* and attach first; the others only move pc.                              *)

LEMMA Inputs == Points = {"/mnt/iso", "/mnt/iso_test"} /\ "/mnt/iso" # "/mnt/iso_test"
BY DEF Points

LEMMA ScanInvInit == ScanInit => ScanInv
<1> SUFFICES ASSUME ScanInit PROVE ScanInv
  OBVIOUS
<1>1. ScanTypeOK
  <2>1. mnt \in [Points -> Seq(Sources)]
    BY DEF ScanInit
  <2>2. loop \in [LoopIds -> Isos \cup {NoIso}]
    BY DEF ScanInit
  <2>3. pos \in 0..Len(Glob) /\ attempt \in 0..Passes
    BY GlobTypes, ScanAssumption DEF ScanInit
  <2>4. media \in Arrangement
    BY ArrangementsAssumption DEF ScanInit
  <2> QED
    BY <2>1, <2>2, <2>3, <2>4 DEF ScanInit, ScanTypeOK, Labels, Points
<1>2. Empty
  BY DEF ScanInit, Empty, Points
<1>3. Mounts /\ Tested /\ Verdicts
  BY <1>2 DEF ScanInit, Mounts, Tested, Verdicts, FoundNothing, Idle,
              OnDevice, OnIso, Testing, Ended
<1>4. Loops
  BY DEF ScanInit, Loops, Testing, OnIso
<1> QED
  BY <1>1, <1>3, <1>4 DEF ScanInv

(* A device is mounted on an empty mount point. *)
LEMMA NextDeviceStep == ScanInv /\ NextDevice => ScanInv'
<1> SUFFICES ASSUME ScanInv, NextDevice PROVE ScanInv'
  OBVIOUS
<1> USE DEF ScanInv, NextDevice, Goto, inputs, verdict
<1>1. pos + 1 \in 1..Len(Glob) /\ Glob[pos + 1] \in Devices
  BY GlobTypes DEF ScanTypeOK
<1>2. pc = "device" /\ Empty /\ held = {} /\ FoundNothing
  BY DEF Mounts, Verdicts, Idle, Ended
<1>3. CASE Glob[pos + 1] \in seen /\ media.on[Glob[pos + 1]].fs
  <2>1. MountOn("/mnt/iso", Glob[pos + 1]) /\ dev' = Glob[pos + 1] /\ pc' = "probe"
    BY <1>3
  <2>2. /\ mnt' \in [Points -> Seq(Sources)]
        /\ mnt'["/mnt/iso"] = <<Glob[pos + 1]>>
        /\ mnt'["/mnt/iso_test"] = << >>
    BY <1>1, <1>2, <2>1, MountOnFree DEF Points, Sources, Empty
  <2>3. ScanTypeOK'
    BY <1>1, <2>1, <2>2 DEF ScanTypeOK, Labels
  <2>4. Mounts' /\ Tested' /\ Verdicts'
    BY <1>1, <1>2, <1>3, <2>1, <2>2
       DEF Mounts, Tested, Verdicts, FoundNothing, DeviceOnly, Idle, OnDevice, OnIso,
           Testing, Ended
  <2>5. Loops'
    BY <1>2, <2>1 DEF Loops, Testing, OnIso, Ended
  <2> QED
    BY <2>3, <2>4, <2>5
<1>4. CASE ~(Glob[pos + 1] \in seen /\ media.on[Glob[pos + 1]].fs)
  <2>1. dev' \in Devices \cup {NoDev} /\ UNCHANGED <<mnt, pc>>
    BY <1>1, <1>4 DEF ScanTypeOK
  <2>2. ScanTypeOK'
    BY <1>1, <2>1 DEF ScanTypeOK
  <2>3. Mounts' /\ Tested' /\ Verdicts'
    BY <1>2, <2>1
       DEF Mounts, Tested, Verdicts, FoundNothing, Empty, Idle, OnDevice, OnIso,
           Testing, Ended
  <2>4. Loops'
    BY <1>2, <2>1 DEF Loops, Testing, OnIso, Ended
  <2> QED
    BY <2>2, <2>3, <2>4
<1> QED
  BY <1>3, <1>4

(* Rejecting a device leaves both mount points empty. *)
LEMMA UmountDevice ==
  ASSUME ScanInv, DeviceOnly, dev \in Devices,
         UmountOrLazily("/mnt/iso") \/ (held = {} /\ Umount("/mnt/iso"))
  PROVE  Empty' /\ mnt' \in [Points -> Seq(Sources)]
<1>1. "/mnt/iso" \in Points /\ "/mnt/iso_test" \in Points
  BY DEF Points
<1>2. Mounted("/mnt/iso")
  BY DEF Mounted, DeviceOnly
<1>3. mnt' = [mnt EXCEPT !["/mnt/iso"] = Tail(@)]
  BY <1>2 DEF UmountOrLazily, Umount, Busy
<1>4. Tail(mnt["/mnt/iso"]) = << >>
  BY DEF DeviceOnly
<1> QED
  BY <1>1, <1>2, <1>3, <1>4, TailType DEF ScanInv, Empty, DeviceOnly

LEMMA ProbeDeviceStep == ScanInv /\ ProbeDevice => ScanInv'
<1> SUFFICES ASSUME ScanInv, ProbeDevice PROVE ScanInv'
  OBVIOUS
<1> USE DEF ProbeDevice, Goto, inputs, verdict
<1>1. /\ pc = "probe" /\ DeviceOnly /\ dev \in Devices /\ media.on[dev].fs
      /\ held = {} /\ FoundNothing
  BY DEF ScanInv, Mounts, Verdicts, OnDevice, Ended
<1>2. Loops'
  BY <1>1 DEF ScanInv, Loops, Testing, OnIso, Ended
<1>3. CASE /\ UNCHANGED mnt
           /\ pc' = "list" \/ (pc' = "verify" /\ HasSquash(dev) /\ HasSum(dev))
  BY <1>1, <1>2, <1>3
     DEF ScanInv, ScanTypeOK, Labels, Mounts, Tested, Verdicts, FoundNothing,
         DeviceOnly, Empty, Idle, OnDevice, OnIso, Testing, Ended, HasSquash, HasSum
<1>4. CASE pc' = "device" /\ Umount("/mnt/iso")
  <2>1. Empty' /\ mnt' \in [Points -> Seq(Sources)]
    BY <1>1, <1>4, UmountDevice
  <2> QED
    BY <1>1, <1>2, <1>4, <2>1
       DEF ScanInv, ScanTypeOK, Labels, Mounts, Tested, Verdicts, FoundNothing,
           Idle, OnDevice, OnIso, Testing, Ended
<1> QED
  BY <1>1, <1>3, <1>4

LEMMA AcceptDeviceStep == ScanInv /\ AcceptDevice => ScanInv'
<1> SUFFICES ASSUME ScanInv, AcceptDevice PROVE ScanInv'
  OBVIOUS
<1> USE DEF AcceptDevice, Goto, inputs, kernel
<1>1. /\ pc = "verify" /\ DeviceOnly /\ dev \in Devices /\ media.on[dev].fs
      /\ HasSquash(dev) /\ HasSum(dev) /\ FoundNothing
  BY DEF ScanInv, Mounts, Tested, Verdicts, OnDevice, Ended
<1>2. GoodMedium(dev)
  BY <1>1 DEF GoodMedium, HasSquash, HasSum, HashMatches
<1>3. FoundDevice'
  BY <1>1, <1>2 DEF FoundDevice, FoundNothing, DeviceOnly, GoodMedium, HasSquash,
                    HasSum, HashMatches
<1>4. ScanTypeOK'
  BY <1>1 DEF ScanInv, ScanTypeOK, Labels
<1>5. Loops'
  BY <1>1 DEF ScanInv, Loops, Testing, OnIso, Ended
<1> QED
  BY <1>3, <1>4, <1>5 DEF ScanInv, Mounts, Tested, Verdicts, Idle, OnDevice, OnIso,
                          Testing, Ended

LEMMA RejectDeviceStep == ScanInv /\ (RejectDevice \/ ReleaseDevice) => ScanInv'
<1> SUFFICES ASSUME ScanInv, RejectDevice \/ ReleaseDevice PROVE ScanInv'
  OBVIOUS
<1> USE DEF RejectDevice, ReleaseDevice, Goto, inputs, verdict
<1>1. /\ DeviceOnly /\ dev \in Devices /\ FoundNothing
      /\ pc \in {"verify", "release"}
      /\ pc = "verify" => held = {}
  BY DEF ScanInv, Mounts, Verdicts, OnDevice, Ended
<1>2. Empty' /\ mnt' \in [Points -> Seq(Sources)]
  BY <1>1, UmountDevice
<1>3. held' = {} /\ pc' = "device"
  BY <1>1 DEF UmountOrLazily
<1>4. Loops'
  BY <1>1, <1>3 DEF ScanInv, Loops, Testing, OnIso, Ended
<1> QED
  BY <1>1, <1>2, <1>3, <1>4
     DEF ScanInv, ScanTypeOK, Labels, Mounts, Tested, Verdicts, FoundNothing,
         Idle, OnDevice, OnIso, Testing, Ended

(* The steps that only move through the loops of the scan. *)
LEMMA StartScanStep == ScanInv /\ StartScan => ScanInv'
<1> SUFFICES ASSUME ScanInv, StartScan PROVE ScanInv'
  OBVIOUS
<1> USE DEF StartScan, Goto, inputs, verdict
<1>1. pc = "start" /\ Empty /\ held = {} /\ FoundNothing
  BY DEF ScanInv, Mounts, Verdicts, Idle, Ended
<1>2. mnt' = mnt /\ held' = {}
  BY <1>1 DEF UmountOrLazily, Mounted, Empty
<1>3. Loops'
  BY <1>1 DEF ScanInv, Loops, Testing, OnIso, Ended
<1> QED
  BY <1>1, <1>2, <1>3
     DEF ScanInv, ScanTypeOK, Labels, Mounts, Tested, Verdicts, FoundNothing,
         Empty, Idle, OnDevice, OnIso, Testing, Ended

LEMMA LoopControlStep ==
  ScanInv /\ (StartPass \/ PassesOver \/ DevicesOver) => ScanInv'
<1> SUFFICES ASSUME ScanInv, StartPass \/ PassesOver \/ DevicesOver PROVE ScanInv'
  OBVIOUS
<1> USE DEF StartPass, PassesOver, DevicesOver, Goto, inputs, kernel, verdict
<1>1. pc \in {"attempt", "device"} /\ Empty /\ held = {} /\ FoundNothing
  BY DEF ScanInv, Mounts, Verdicts, Idle, Ended
<1>2. pc' \in {"attempt", "device", "verdict"}
  OBVIOUS
<1>3. ScanTypeOK'
  <2>1. attempt' \in 0..Passes /\ pos' \in 0..Len(Glob)
    BY GlobTypes, ScanAssumption DEF ScanInv, ScanTypeOK
  <2> QED
    BY <1>2, <2>1 DEF ScanInv, ScanTypeOK, Labels
<1>4. Loops'
  BY <1>1, <1>2 DEF ScanInv, Loops, Testing, OnIso, Ended
<1> QED
  BY <1>1, <1>2, <1>3, <1>4
     DEF ScanInv, Mounts, Tested, Verdicts, FoundNothing, Empty, Idle, OnDevice,
         OnIso, Testing, Ended

LEMMA IsoListStep == ScanInv /\ (ListIsos \/ IsosOver \/ NoLoopLeft) => ScanInv'
<1> SUFFICES ASSUME ScanInv, ListIsos \/ IsosOver \/ NoLoopLeft PROVE ScanInv'
  OBVIOUS
<1> USE DEF ListIsos, IsosOver, NoLoopLeft, Goto, inputs, kernel, verdict
<1>1. /\ pc \in {"list", "iso"} /\ DeviceOnly /\ dev \in Devices
      /\ media.on[dev].fs /\ FoundNothing
  BY DEF ScanInv, Mounts, Verdicts, OnDevice, Ended
<1>2. /\ pc' \in {"iso", "release"} /\ file' \in Nat
      /\ pc' = "iso" => file' >= 1
  BY DEF ScanInv, ScanTypeOK, Tested
<1>3. ScanTypeOK'
  BY <1>2 DEF ScanInv, ScanTypeOK, Labels
<1>4. Loops'
  BY <1>1, <1>2 DEF ScanInv, Loops, Testing, OnIso, Ended
<1> QED
  BY <1>1, <1>2, <1>3, <1>4
     DEF ScanInv, Mounts, Tested, Verdicts, FoundNothing, DeviceOnly, Idle, OnDevice,
         OnIso, Testing, Ended

LEMMA ConcludeStep == ScanInv /\ Conclude => ScanInv'
<1> SUFFICES ASSUME ScanInv, Conclude PROVE ScanInv'
  OBVIOUS
<1> USE DEF Conclude, Goto, inputs, kernel, verdict
<1>1. pc = "verdict"
  OBVIOUS
<1>2. CASE FoundNothing /\ Empty /\ held = {}
  <2>1. pc' = "missing"
    BY <1>2 DEF FoundNothing
  <2>2. Loops'
    BY <1>1, <1>2, <2>1, ScanAssumption
       DEF ScanInv, Loops, FoundNothing, Testing, OnIso, Ended
  <2> QED
    BY <1>2, <2>1, <2>2
       DEF ScanInv, ScanTypeOK, Labels, Mounts, Tested, Verdicts, FoundNothing, Empty,
           Idle, OnDevice, OnIso, Testing, Ended
<1>3. CASE FoundDevice \/ FoundIso
  <2>1. pc' = "found"
    BY <1>3, ScanAssumption DEF FoundDevice, FoundIso
  <2>2. Loops'
    BY <1>1, <2>1 DEF ScanInv, Loops, Testing, OnIso, Ended
  <2>3. FoundDevice' \/ FoundIso'
    BY <1>3 DEF FoundDevice, FoundIso, DeviceOnly, IsoToo, Iso, Files, GoodMedium,
                HasSquash, HasSum, HashMatches
  <2> QED
    BY <2>1, <2>2, <2>3
       DEF ScanInv, ScanTypeOK, Labels, Mounts, Tested, Verdicts,
           Idle, OnDevice, OnIso, Testing, Ended
<1> QED
  BY <1>1, <1>2, <1>3 DEF ScanInv, Verdicts

(* The steps on an ISO file.  losetup gives a free device to the file, and *)
(* grep finds that one alone, or none.                                     *)
LEMMA AttachIsoStep == ScanInv /\ AttachIso => ScanInv'
<1> SUFFICES ASSUME ScanInv, AttachIso PROVE ScanInv'
  OBVIOUS
<1> USE DEF AttachIso, Goto, inputs, verdict
<1>1. /\ pc = "iso" /\ DeviceOnly /\ dev \in Devices /\ media.on[dev].fs
      /\ FoundNothing /\ file >= 1 /\ pc' = "attached"
  BY DEF ScanInv, Mounts, Tested, Verdicts, OnDevice, Ended
<1>2. file \in 1..Len(Files) /\ Iso \in Isos
  <2>1. media.files[dev] \in Seq(Isos)
    BY <1>1, MediaTypes DEF ScanInv
  <2>2. file \in 1..Len(Files)
    BY <1>1, <2>1 DEF ScanInv, ScanTypeOK, Files
  <2> QED
    BY <1>1, <2>2, IsoType DEF ScanInv
<1>3. PICK l \in LoopIds : /\ loop[l] = NoIso
                           /\ loop' = [loop EXCEPT ![l] = Iso]
                           /\ held' = held \cup {l}
  OBVIOUS
<1>4. \A m \in LoopIds : loop'[m] = IF m = l THEN Iso ELSE loop[m]
  BY <1>3 DEF ScanInv, ScanTypeOK
<1>5. \A m \in LoopIds : loop[m] \in media.ungreppable \cup {NoIso}
  BY <1>1 DEF ScanInv, Loops, Testing, Ended
<1>6. Iso' = Iso /\ Files' = Files
  BY DEF Iso, Files
<1>7. CASE Iso \in media.ungreppable
  <2>1. loop_out' = {}
    BY <1>7
  <2>2. Loops'
    BY <1>1, <1>4, <1>5, <1>7, <2>1 DEF Loops, Testing, OnIso, Ended
  <2> QED
    BY <1>1, <1>2, <1>3, <1>6, <2>1, <2>2
       DEF ScanInv, ScanTypeOK, Labels, Mounts, Tested, Verdicts, FoundNothing,
           DeviceOnly, Idle, OnDevice, OnIso, Testing, Ended
<1>8. CASE Iso \notin media.ungreppable
  <2>1. loop_out' = {l}
    BY <1>2, <1>4, <1>5, <1>8, ScanAssumption
  <2>2. Loops'
    BY <1>1, <1>4, <1>5, <1>6, <1>8, <2>1 DEF Loops, Testing, OnIso, Ended
  <2> QED
    BY <1>1, <1>2, <1>3, <1>6, <2>1, <2>2
       DEF ScanInv, ScanTypeOK, Labels, Mounts, Tested, Verdicts, FoundNothing,
           DeviceOnly, Idle, OnDevice, OnIso, Testing, Ended
<1> QED
  BY <1>7, <1>8

(* losetup -d frees the device of the ISO under test, if grep found it. *)
LEMMA Detached ==
  ASSUME ScanInv, LosetupD, pc \in Testing
  PROVE  \A l \in LoopIds : loop'[l] \in media.ungreppable \cup {NoIso}
BY LosetupDType DEF ScanInv, Loops, Testing, Ended

LEMMA MountIsoStep == ScanInv /\ MountIso => ScanInv'
<1> SUFFICES ASSUME ScanInv, MountIso PROVE ScanInv'
  OBVIOUS
<1> USE DEF MountIso, Goto, inputs, verdict
<1>1. /\ pc = "attached" /\ DeviceOnly /\ dev \in Devices /\ media.on[dev].fs
      /\ FoundNothing /\ file \in 1..Len(Files) /\ Iso \in Isos
  BY IsoType DEF ScanInv, Mounts, Tested, Verdicts, OnDevice, Testing, Ended
<1>2. CASE Cardinality(loop_out) = 1 /\ media.on[Iso].fs
  <2>1. loop_out # {}
    BY <1>2, FS_EmptySet
  <2>2. /\ mnt' \in [Points -> Seq(Sources)]
        /\ mnt'["/mnt/iso_test"] = <<Iso>> /\ mnt'["/mnt/iso"] = <<dev>>
    BY <1>1, <1>2, MountOnFree DEF ScanInv, Points, Sources, DeviceOnly
  <2>3. Loops'
    BY <1>1, <1>2, <2>1 DEF ScanInv, Loops, Testing, OnIso, Ended, Iso, Files
  <2> QED
    BY <1>1, <1>2, <2>2, <2>3
       DEF ScanInv, ScanTypeOK, Labels, Mounts, Tested, Verdicts, FoundNothing, Iso,
           Files, IsoToo, Idle, OnDevice, OnIso, Testing, Ended
<1>3. CASE ~(Cardinality(loop_out) = 1 /\ media.on[Iso].fs)
  <2>1. LosetupD /\ file' = file + 1 /\ pc' = "iso" /\ UNCHANGED mnt
    BY <1>3
  <2>2. Loops'
    BY <1>1, <2>1, Detached DEF Loops, Testing, OnIso, Ended
  <2> QED
    BY <1>1, <2>1, <2>2, LosetupDType
       DEF ScanInv, ScanTypeOK, Labels, Mounts, Tested, Verdicts, FoundNothing,
           DeviceOnly, Idle, OnDevice, OnIso, Testing, Ended
<1> QED
  BY <1>2, <1>3

LEMMA NextIsoStep ==
  ASSUME ScanInv, pc \in OnIso, NextIso,
         UNCHANGED <<inputs, present, attempt, pos, dev, loop_out, verdict, seen>>
  PROVE  ScanInv'
<1> USE DEF NextIso, Goto, inputs, verdict
<1>1. /\ IsoToo /\ dev \in Devices /\ FoundNothing /\ file \in 1..Len(Files)
      /\ pc \in Testing
  BY DEF ScanInv, Mounts, Tested, Verdicts, OnIso, Testing, Ended
<1>2. media.on[dev].fs
  BY DEF ScanInv, Mounts, OnIso
<1>3. mnt' \in [Points -> Seq(Sources)] /\ DeviceOnly'
  <2>1. Mounted("/mnt/iso_test") /\ ~Busy("/mnt/iso_test")
    BY <1>1 DEF Mounted, IsoToo, Busy
  <2>2. mnt' = [mnt EXCEPT !["/mnt/iso_test"] = Tail(@)]
    BY <2>1 DEF Umount
  <2>3. Tail(mnt["/mnt/iso_test"]) = << >>
    BY <1>1 DEF IsoToo
  <2> QED
    BY <1>1, <2>1, <2>2, <2>3, TailType DEF ScanInv, Points, IsoToo, DeviceOnly
<1>4. Loops'
  BY <1>1, Detached DEF Loops, Testing, OnIso, Ended
<1> QED
  BY <1>1, <1>2, <1>3, <1>4, LosetupDType
     DEF ScanInv, ScanTypeOK, Labels, Mounts, Tested, Verdicts, FoundNothing,
         Idle, OnDevice, OnIso, Testing, Ended

LEMMA AcceptIsoStep == ScanInv /\ AcceptIso => ScanInv'
<1> SUFFICES ASSUME ScanInv, AcceptIso PROVE ScanInv'
  OBVIOUS
<1> USE DEF AcceptIso, Goto, inputs, kernel
<1>1. /\ pc = "isoverify" /\ IsoToo /\ dev \in Devices /\ media.on[Iso].fs
      /\ HasSquash(Iso) /\ HasSum(Iso) /\ file \in 1..Len(Files) /\ Iso \in Isos
  BY IsoType DEF ScanInv, Mounts, Tested, OnIso, Testing
<1>2. \E l \in LoopIds : {m \in LoopIds : loop[m] = Iso} = {l}
  BY <1>1, ScanAssumption DEF ScanInv, Loops, Testing, OnIso, Ended
<1>3. Iso' = Iso /\ GoodMedium(Iso)'
  BY <1>1 DEF Iso, Files, GoodMedium, HasSquash, HasSum, HashMatches
<1>4. FoundIso'
  BY <1>1, <1>2, <1>3 DEF FoundIso, IsoToo
<1>5. ScanTypeOK'
  BY <1>1 DEF ScanInv, ScanTypeOK, Labels, Points
<1>6. Loops'
  BY <1>1, <1>4 DEF Loops, Testing, OnIso, Ended
<1> QED
  BY <1>4, <1>5, <1>6 DEF ScanInv, Mounts, Tested, Verdicts, Idle, OnDevice, OnIso,
                          Testing, Ended

LEMMA ProbeIsoStep == ScanInv /\ (ProbeIso \/ RejectIso) => ScanInv'
<1> SUFFICES ASSUME ScanInv, ProbeIso \/ RejectIso PROVE ScanInv'
  OBVIOUS
<1>1. pc \in OnIso
  BY DEF ProbeIso, RejectIso, OnIso
<1>2. CASE NextIso
  BY <1>1, <1>2, NextIsoStep DEF ProbeIso, RejectIso
<1>3. CASE pc = "isoprobe" /\ pc' = "isoverify" /\ HasSquash(Iso) /\ HasSum(Iso)
           /\ UNCHANGED <<inputs, present, kernel, attempt, pos, dev, file,
                          loop_out, verdict, seen>>
  BY <1>3
     DEF ScanInv, ScanTypeOK, Labels, Mounts, Tested, Loops, Verdicts, FoundNothing,
         IsoToo, Iso, Files, HasSquash, HasSum, Idle, OnDevice, OnIso, Testing, Ended,
         inputs, kernel, verdict
<1> QED
  BY <1>2, <1>3 DEF ProbeIso, RejectIso, Goto

(* A device that appears, or a stuttering step. *)
LEMMA PlugStep ==
  ScanInv /\ ((\E d \in Devices : Plug(d)) \/ UNCHANGED scanVars) => ScanInv'
<1> SUFFICES ASSUME ScanInv, (\E d \in Devices : Plug(d)) \/ UNCHANGED scanVars
             PROVE  ScanInv'
  OBVIOUS
<1>1. /\ UNCHANGED <<inputs, kernel, pc, attempt, pos, dev, file, loop_out, verdict, seen>>
      /\ present' \subseteq Devices
  BY DEF Plug, scanVars, ScanInv, ScanTypeOK
<1> USE <1>1 DEF ScanInv, inputs, kernel, verdict, Iso, Files
<1>2. ScanTypeOK'
  BY DEF ScanTypeOK
<1>3. Mounts' /\ Tested'
  BY DEF Mounts, Tested, Empty, DeviceOnly, IsoToo, HasSquash, HasSum
<1>4. Loops'
  BY SMTT(30) DEF Loops
<1>5. Verdicts'
  BY DEF Verdicts, FoundNothing, FoundDevice, FoundIso, Empty, DeviceOnly, IsoToo,
         GoodMedium, HasSquash, HasSum, HashMatches
<1> QED
  BY <1>2, <1>3, <1>4, <1>5

LEMMA ScanInvStep == ScanInv /\ [ScanNext]_scanVars => ScanInv'
BY StartScanStep, LoopControlStep, NextDeviceStep, ProbeDeviceStep, AcceptDeviceStep,
   RejectDeviceStep, IsoListStep, AttachIsoStep, MountIsoStep, ProbeIsoStep,
   AcceptIsoStep, ConcludeStep, PlugStep
   DEF ScanNext, ScanStep

LEMMA ScanInvariant == ScanSpec => []ScanInv
BY ScanInvInit, ScanInvStep, PTL DEF ScanSpec

-----------------------------------------------------------------------------
(* The theorems. *)

(* Type correctness of the scan: mounts only of devices and ISO files,     *)
(* loop devices only of ISO files, a verdict of the values the later       *)
(* phases test for.                                                        *)
THEOREM ScanTypeCorrect == ScanSpec => []ScanTypeOK
<1>1. ScanInv => ScanTypeOK
  BY DEF ScanInv
<1> QED
  BY <1>1, ScanInvariant, PTL

(* However the devices are arranged and whenever they appear, the scan     *)
(* succeeds only with a mounted medium that passed the check of the mode.  *)
THEOREM FoundIsVerified == ScanSpec => []MediumVerified
<1>1. ScanInv => MediumVerified
  <2> SUFFICES ASSUME ScanInv, pc = "found"
               PROVE  Mounted(iso_mnt) /\ GoodMedium(Top(iso_mnt))
    BY DEF MediumVerified
  <2>1. CASE FoundDevice
    <3>1. mnt[iso_mnt] = <<dev>> /\ GoodMedium(dev)
      BY <2>1 DEF FoundDevice, DeviceOnly
    <3> QED
      BY <3>1 DEF Mounted, Top
  <2>2. CASE FoundIso
    <3>1. mnt[iso_mnt] = <<Iso>> /\ GoodMedium(Iso)
      BY <2>2 DEF FoundIso, IsoToo
    <3> QED
      BY <3>1 DEF Mounted, Top
  <2> QED
    BY <2>1, <2>2 DEF ScanInv, Verdicts
<1> QED
  BY <1>1, ScanInvariant, PTL

(* FOUND_DEV, by which the later phases choose what to mount and to free,  *)
(* agrees with the mounts and with the loop devices.                       *)
THEOREM VerdictIsConsistent == ScanSpec => []VerdictAgrees
<1>1. ScanInv => VerdictAgrees
  <2> SUFFICES ASSUME ScanInv, pc = "found"
               PROVE  VerdictAgrees
    BY DEF VerdictAgrees
  <2>1. CASE FoundDevice
    BY <2>1 DEF FoundDevice, DeviceOnly, VerdictAgrees, Mounted
  <2>2. CASE FoundIso
    <3>1. Top("/mnt/iso_test") = Iso /\ Len(mnt["/mnt/iso_test"]) = 1
      BY <2>2 DEF FoundIso, IsoToo, Top
    <3>2. Cardinality({m \in LoopIds : loop[m] = Iso}) = 1
      BY <2>2, FS_Singleton DEF FoundIso
    <3> QED
      BY <2>2, <3>1, <3>2 DEF FoundIso, IsoToo, VerdictAgrees
  <2> QED
    BY <2>1, <2>2 DEF ScanInv, Verdicts
<1> QED
  BY <1>1, ScanInvariant, PTL

(* Every rejection unmounts what it mounted, even with a busy loop device  *)
(* left behind by an ISO file whose name grep misread.                     *)
THEOREM MountsNeverPileUp == ScanSpec => []RejectedIsUnmounted
<1>1. ScanInv => RejectedIsUnmounted
  BY DEF ScanInv, Mounts, Idle, Empty, RejectedIsUnmounted, Mounted, Points
<1> QED
  BY <1>1, ScanInvariant, PTL

(* The only loop devices the scan leaks are those of misread names.        *)
THEOREM OnlyMisreadNamesLeak == ScanSpec => []LoopsReleased
<1>1. ScanInv => LoopsReleased
  BY DEF ScanInv, Loops, LoopsReleased, Testing, Ended
<1> QED
  BY <1>1, ScanInvariant, PTL

-----------------------------------------------------------------------------
(* The scan chooses as MediaChoice says.  What the search has established: *)
(* no device of this pass before pos is good, and of the device under test *)
(* nothing that was looked at is.                                          *)

Visiting == OnDevice \cup OnIso

NoGoodAt(i) == Glob[i] \notin seen \cap GoodDevices

PassedOver == seen \cap GoodDevices = {}

(* The ISO file at k is none the scan could have accepted. *)
NoGoodFile(k) == Files[k] \in media.ungreppable \/ ~GoodMedium(Files[k])

Searched ==
  /\ pc = "start" => attempt = 0 /\ seen = {}
  /\ pc = "device" => \A j \in 1..pos : NoGoodAt(j)
  /\ pc \in Visiting => /\ pos > 0 /\ Glob[pos] = dev /\ dev \in seen
                        /\ \A j \in 1..(pos - 1) : NoGoodAt(j)
  /\ pc = "attempt" => PassedOver
  /\ pc = "verdict" /\ found_dev = NoDev => attempt = Passes /\ PassedOver
  /\ pc \in {"list", "iso"} \cup Testing => ~HasSquash(dev)
  /\ pc \in {"iso"} \cup Testing =>
       ventoy /\ \A k \in 1..Len(Files) : k < file => NoGoodFile(k)
  /\ pc = "attached" /\ loop_out = {} => Iso \in media.ungreppable
  /\ pc = "release" => ~GoodDevice(dev)

LEMMA SameGood ==
  ASSUME UNCHANGED inputs
  PROVE  /\ \A x : GoodMedium(x)' <=> GoodMedium(x)
         /\ \A x : GoodDevice(x)' <=> GoodDevice(x)
         /\ \A x : HasSquash(x)' <=> HasSquash(x)
         /\ GoodDevices' = GoodDevices
BY DEF inputs, GoodMedium, GoodDevice, GoodDevices, HasSquash

(* What the tests of a file system tell of it. *)
LEMMA WhatTestsTell ==
  /\ \A x : ~HasSquash(x) => ~GoodMedium(x)
  /\ \A x : ~HasSum(x) \/ ~media.on[x].fs => ~GoodMedium(x)
  /\ \A x : HasSquash(x) /\ ~HashMatches(x) => ~GoodMedium(x)
  /\ \A x : media.on[x].fs /\ HasSquash(x) /\ HasSum(x) /\ HashMatches(x) => GoodMedium(x)
  /\ \A d : HasSquash(d) \/ ~media.on[d].fs => (GoodDevice(d) <=> GoodMedium(d))
BY DEF GoodMedium, GoodDevice, HasSquash, HasSum, HashMatches

(* A device without a squashfs is good through an ISO file only. *)
LEMMA GoodThroughIso ==
  ASSUME ScanInv, dev \in Devices, ~HasSquash(dev)
  PROVE  GoodDevice(dev) <=>
           media.on[dev].fs /\ ventoy /\ \E k \in 1..Len(Files) : ~NoGoodFile(k)
<1>1. DOMAIN Files = 1..Len(Files)
  BY MediaTypes DEF ScanInv, Files
<1> QED BY <1>1, WhatTestsTell DEF GoodDevice, NoGoodFile, Files

LEMMA SearchedInit == ScanInit => Searched
BY DEF ScanInit, Searched, Visiting, OnDevice, OnIso, Testing

(* The steps of the two loops. *)
LEMMA PassesSearched ==
  ASSUME ScanInv, Searched, StartScan \/ StartPass \/ PassesOver \/ DevicesOver \/ Conclude
  PROVE  Searched'
<1> USE DEF Searched, Goto, Visiting, OnDevice, OnIso, Testing
<1>0. GoodDevices' = GoodDevices
  BY SameGood DEF StartScan, StartPass, PassesOver, DevicesOver, Conclude
<1>1. CASE StartScan
  BY <1>0, <1>1 DEF StartScan, PassedOver
<1>2. CASE StartPass
  BY <1>0, <1>2 DEF StartPass, NoGoodAt
<1>3. CASE PassesOver
  BY <1>0, <1>3 DEF PassesOver, PassedOver
<1>4. CASE DevicesOver
  <2>1. \A d \in Devices : \E i \in 1..Len(Glob) : Glob[i] = d
    BY ScanAssumption
  <2>2. PassedOver
    BY <1>4, <2>1 DEF DevicesOver, PassedOver, NoGoodAt, ScanInv, ScanTypeOK
  <2> QED BY <1>0, <1>4, <2>2 DEF DevicesOver, PassedOver
<1>5. CASE Conclude
  BY <1>5 DEF Conclude
<1> QED BY <1>1, <1>2, <1>3, <1>4, <1>5

(* To the next device. *)
LEMMA NextDeviceSearched ==
  ASSUME ScanInv, Searched, NextDevice PROVE Searched'
<1> USE DEF NextDevice, Goto
<1>1. /\ pos + 1 \in 1..Len(Glob) /\ pos \in Nat /\ Glob[pos + 1] \in Devices
      /\ \A j \in 1..pos : NoGoodAt(j)
  BY GlobTypes DEF ScanInv, ScanTypeOK, Searched
<1>2. GoodDevices' = GoodDevices /\ seen' = seen /\ pos' = pos + 1
  BY SameGood
<1>3. CASE Glob[pos + 1] \in seen /\ media.on[Glob[pos + 1]].fs
  <2>1. pc' = "probe" /\ dev' = Glob[pos + 1]
    BY <1>3
  <2> QED
    BY <1>1, <1>2, <1>3, <2>1 DEF Searched, NoGoodAt, Visiting, OnDevice, OnIso, Testing
<1>4. CASE ~(Glob[pos + 1] \in seen /\ media.on[Glob[pos + 1]].fs)
  <2>1. NoGoodAt(pos + 1)
    BY <1>4, WhatTestsTell DEF NoGoodAt, GoodDevices
  <2>2. pc' = "device" /\ \A j \in 1..(pos + 1) : NoGoodAt(j)'
    BY <1>1, <1>2, <1>4, <2>1 DEF NoGoodAt
  <2> QED BY <1>2, <2>2 DEF Searched, Visiting, OnDevice, OnIso, Testing
<1> QED BY <1>3, <1>4

(* A rejected device is not good, so the loop over the devices goes on. *)
LEMMA RejectionSearched ==
  ASSUME ScanInv, Searched, pc \in Visiting, pc' = "device", ~GoodDevice(dev),
         UNCHANGED <<inputs, pos, seen>>
  PROVE  Searched'
<1>1. GoodDevices' = GoodDevices
  BY SameGood
<1>2. /\ pos \in Nat /\ pos > 0 /\ Glob[pos] = dev
      /\ \A j \in 1..(pos - 1) : NoGoodAt(j)
  BY DEF Searched, ScanInv, ScanTypeOK
<1>3. \A j \in 1..pos : NoGoodAt(j)
  BY <1>2 DEF NoGoodAt, GoodDevices
<1> QED
  BY <1>1, <1>3 DEF Searched, NoGoodAt, Visiting, OnDevice, OnIso, Testing

(* What stays true of the pass while a device is visited. *)
LEMMA VisitSearched ==
  ASSUME Searched, pc \in Visiting, pc' \in Visiting, UNCHANGED <<inputs, pos, dev, seen>>
  PROVE  /\ pos' > 0 /\ Glob[pos'] = dev' /\ dev' \in seen'
         /\ \A j \in 1..(pos' - 1) : NoGoodAt(j)'
BY SameGood DEF Searched, NoGoodAt

LEMMA DeviceSearched ==
  ASSUME ScanInv, Searched,
         ProbeDevice \/ AcceptDevice \/ RejectDevice \/ ListIsos \/ IsosOver \/ ReleaseDevice
  PROVE  Searched'
<1> USE DEF Goto
<1>0. dev \in Devices /\ DOMAIN Files = 1..Len(Files) /\ Len(Files) \in Nat
  <2>1. dev \in Devices
    BY DEF ScanInv, Mounts, OnDevice, ProbeDevice, AcceptDevice, RejectDevice, ListIsos,
           IsosOver, ReleaseDevice
  <2> QED BY <2>1, MediaTypes DEF ScanInv, Files
<1>1. CASE ProbeDevice
  <2>1. CASE pc' = "device" /\ HasSquash(dev) /\ ~HasSum(dev)
    <3>1. ~GoodDevice(dev)
      BY <2>1, WhatTestsTell
    <3> QED
      BY <1>1, <2>1, <3>1, RejectionSearched DEF ProbeDevice, Visiting, OnDevice
  <2>2. CASE pc' = "verify" \/ (pc' = "list" /\ ~HasSquash(dev))
    <3>1. pc \in Visiting /\ pc' \in Visiting
      BY <1>1, <2>2 DEF ProbeDevice, Visiting, OnDevice
    <3> QED
      BY <1>1, <2>2, <3>1, VisitSearched, SameGood
         DEF ProbeDevice, Searched, Visiting, OnDevice, OnIso, Testing
  <2> QED BY <1>1, <2>1, <2>2 DEF ProbeDevice
<1>2. CASE AcceptDevice
  <2>1. pc' = "verdict" /\ found_dev' # NoDev
    BY <1>0, <1>2, ScanAssumption DEF AcceptDevice
  <2> QED BY <2>1 DEF Searched, Visiting, OnDevice, OnIso, Testing
<1>3. CASE RejectDevice
  <2>1. ~GoodDevice(dev)
    BY <1>3, WhatTestsTell DEF RejectDevice, ScanInv, Tested
  <2> QED
    BY <1>3, <2>1, RejectionSearched DEF RejectDevice, Visiting, OnDevice
<1>4. CASE ListIsos
  <2>1. ~HasSquash(dev) /\ pc \in Visiting /\ pc' \in Visiting
    BY <1>4 DEF ListIsos, Searched, Visiting, OnDevice
  <2>2. CASE ventoy /\ Files # << >>
    <3>1. pc' = "iso" /\ file' = 1
      BY <1>4, <2>2 DEF ListIsos
    <3>2. \A k \in 1..Len(Files)' : k < file' => NoGoodFile(k)'
      BY <3>1
    <3>3. ventoy' /\ ~HasSquash(dev)'
      BY <1>4, <2>1, <2>2, SameGood DEF ListIsos, inputs, HasSquash
    <3> QED
      BY <1>4, <2>1, <3>1, <3>2, <3>3, VisitSearched
         DEF ListIsos, Searched, Visiting, OnDevice, OnIso, Testing
  <2>3. CASE ~(ventoy /\ Files # << >>)
    <3>1. pc' = "release"
      BY <1>4, <2>3 DEF ListIsos
    <3>2. Files = << >> => Len(Files) = 0
      OBVIOUS
    <3>3. ~GoodDevice(dev)
      BY <1>0, <2>1, <2>3, <3>2, GoodThroughIso
    <3> QED
      BY <1>4, <2>1, <3>1, <3>3, VisitSearched, SameGood
         DEF ListIsos, Searched, Visiting, OnDevice, OnIso, Testing
  <2> QED BY <2>2, <2>3
<1>5. CASE IsosOver
  <2>1. ~HasSquash(dev) /\ pc \in Visiting /\ pc' \in Visiting /\ pc' = "release"
    BY <1>5 DEF IsosOver, Searched, Visiting, OnDevice
  <2>2. \A k \in 1..Len(Files) : NoGoodFile(k)
    BY <1>0, <1>5 DEF IsosOver, Searched, ScanInv, ScanTypeOK
  <2>3. ~GoodDevice(dev)
    BY <1>0, <2>1, <2>2, GoodThroughIso
  <2> QED
    BY <1>5, <2>1, <2>3, VisitSearched, SameGood
       DEF IsosOver, Searched, Visiting, OnDevice, OnIso, Testing
<1>6. CASE ReleaseDevice
  BY <1>6, RejectionSearched DEF ReleaseDevice, Searched, Visiting, OnDevice
<1> QED BY <1>1, <1>2, <1>3, <1>4, <1>5, <1>6

(* From one ISO file to the next, when it is none to accept. *)
LEMMA NextFileSearched ==
  ASSUME ScanInv, Searched, pc \in {"iso"} \cup Testing, pc' = "iso", file' = file + 1,
         file \in 1..Len(Files) => NoGoodFile(file),
         UNCHANGED <<inputs, pos, dev, seen>>
  PROVE  Searched'
<1>1. pc \in Visiting /\ pc' \in Visiting
  BY DEF Visiting, OnDevice, OnIso, Testing
<1>2. file \in Nat /\ ~HasSquash(dev) /\ ventoy
  BY DEF Searched, ScanInv, ScanTypeOK
<1>3. Files' = Files /\ \A k : NoGoodFile(k)' <=> NoGoodFile(k)
  BY SameGood DEF Files, NoGoodFile, inputs
<1>4. \A k \in 1..Len(Files) : k < file + 1 => NoGoodFile(k)
  BY <1>2 DEF Searched
<1>5. ~HasSquash(dev)' /\ ventoy'
  BY <1>2 DEF inputs, HasSquash
<1> QED
  BY <1>1, <1>3, <1>4, <1>5, VisitSearched
     DEF Searched, Visiting, OnDevice, OnIso, Testing

(* On with the same ISO file. *)
LEMMA SameFileSearched ==
  ASSUME Searched, pc \in {"iso"} \cup Testing, pc' \in Testing,
         pc' = "attached" /\ loop_out' = {} => Iso \in media.ungreppable,
         UNCHANGED <<inputs, pos, dev, seen, file>>
  PROVE  Searched'
<1>1. pc \in Visiting /\ pc' \in Visiting
  BY DEF Visiting, OnDevice, OnIso, Testing
<1>2. Files' = Files /\ Iso' = Iso /\ \A k : NoGoodFile(k)' <=> NoGoodFile(k)
  BY SameGood DEF Files, Iso, NoGoodFile, inputs
<1>3. ~HasSquash(dev)' /\ ventoy' /\ media' = media
  BY DEF Searched, inputs, HasSquash
<1> QED
  BY <1>1, <1>2, <1>3, VisitSearched DEF Searched, Visiting, OnDevice, OnIso, Testing

LEMMA IsoSearched ==
  ASSUME ScanInv, Searched, GoodIsoGetsLoop,
         AttachIso \/ NoLoopLeft \/ MountIso \/ ProbeIso \/ RejectIso \/ AcceptIso
  PROVE  Searched'
<1> USE DEF Goto
<1>1. CASE AttachIso
  <2>1. loop_out' = {} => Iso \in media.ungreppable
    <3> SUFFICES ASSUME Iso \notin media.ungreppable PROVE loop_out' # {}
      OBVIOUS
    <3>1. PICK l \in LoopIds : loop' = [loop EXCEPT ![l] = Iso]
      BY <1>1 DEF AttachIso
    <3>2. loop'[l] = Iso
      BY <3>1 DEF ScanInv, ScanTypeOK
    <3> QED BY <1>1, <3>2 DEF AttachIso
  <2> QED BY <1>1, <2>1, SameFileSearched DEF AttachIso, Testing
<1>2. CASE NoLoopLeft
  <2>1. file \in 1..Len(Files) => NoGoodFile(file)
    BY <1>2 DEF NoLoopLeft, GoodIsoGetsLoop, NoGoodFile, Iso
  <2> QED BY <1>2, <2>1, NextFileSearched DEF NoLoopLeft
<1>3. CASE MountIso
  <2>1. CASE Cardinality(loop_out) = 1 /\ media.on[Iso].fs
    BY <1>3, <2>1, SameFileSearched DEF MountIso, Testing
  <2>2. CASE ~(Cardinality(loop_out) = 1 /\ media.on[Iso].fs)
    <3>1. loop_out # {} => Cardinality(loop_out) = 1
      BY <1>3, FS_Singleton DEF MountIso, ScanInv, Loops, Testing
    <3>2. NoGoodFile(file)
      BY <1>3, <2>2, <3>1, WhatTestsTell DEF MountIso, Searched, NoGoodFile, Iso
    <3> QED BY <1>3, <2>2, <3>2, NextFileSearched DEF MountIso, Testing
  <2> QED BY <2>1, <2>2
<1>4. CASE ProbeIso /\ HasSquash(Iso) /\ HasSum(Iso)
  BY <1>4, SameFileSearched DEF ProbeIso, Testing
<1>5. CASE ProbeIso /\ ~(HasSquash(Iso) /\ HasSum(Iso))
  <2>1. NoGoodFile(file)
    BY <1>5, WhatTestsTell DEF NoGoodFile, Iso
  <2> QED BY <1>5, <2>1, NextFileSearched DEF ProbeIso, NextIso, Testing
<1>6. CASE RejectIso
  <2>1. NoGoodFile(file)
    BY <1>6, WhatTestsTell DEF RejectIso, NoGoodFile, Iso, ScanInv, Tested
  <2> QED BY <1>6, <2>1, NextFileSearched DEF RejectIso, NextIso, Testing
<1>7. CASE AcceptIso
  <2>1. pc' = "verdict" /\ found_dev' # NoDev
    BY <1>7, ScanAssumption DEF AcceptIso
  <2> QED BY <2>1 DEF Searched, Visiting, OnDevice, OnIso, Testing
<1> QED BY <1>1, <1>2, <1>3, <1>4, <1>5, <1>6, <1>7

LEMMA PlugSearched ==
  ASSUME Searched, (\E d \in Devices : Plug(d)) \/ UNCHANGED scanVars PROVE Searched'
<1>1. UNCHANGED <<inputs, pc, attempt, pos, dev, file, loop_out, verdict, seen>>
  BY DEF Plug, scanVars
<1>2. Files' = Files /\ Iso' = Iso /\ media' = media /\ ventoy' = ventoy /\ found_dev' = found_dev
  BY <1>1 DEF Files, Iso, inputs, verdict
<1>3. /\ \A j : NoGoodAt(j)' <=> NoGoodAt(j)
      /\ \A k : NoGoodFile(k)' <=> NoGoodFile(k)
      /\ PassedOver' <=> PassedOver
  BY <1>1, <1>2, SameGood DEF NoGoodAt, NoGoodFile, PassedOver
<1> QED BY <1>1, <1>2, <1>3, SameGood DEF Searched

LEMMA SearchedStep ==
  ASSUME ScanInv, Searched, GoodIsoGetsLoop, [ScanNext]_scanVars PROVE Searched'
BY PassesSearched, NextDeviceSearched, DeviceSearched, IsoSearched, PlugSearched
   DEF ScanNext, ScanStep

(* Every step of the scan is one of MediaChoice, or none of its business.  *)
LEMMA NoneChosen == ASSUME ScanInv, pc \notin Ended \cup {"missing"}
                    PROVE  found_dev = NoDev /\ Choice!vars = <<present, GoodDevices, attempt, seen, "undecided">>
BY DEF ScanInv, Verdicts, FoundNothing, Choice!vars

LEMMA ChosenStep ==
  ASSUME ScanInv, Searched, pc \in Visiting, found_dev = NoDev, GoodDevice(dev),
         dev \in Devices, found_dev' # NoDev, pc' = "verdict",
         UNCHANGED <<inputs, present, attempt, seen, dev>>
  PROVE  Choice!Choose
<1>1. dev \in seen \cap GoodDevices
  BY DEF Searched, GoodDevices
<1>2. Choice!IsFirst(dev)
  <2>1. pos \in DOMAIN Glob /\ Glob[pos] = dev
    BY GlobTypes, ScanAssumption DEF Searched, ScanInv, ScanTypeOK
  <2>2. \A j \in 1..(pos - 1) : Glob[j] \notin seen \cap GoodDevices
    BY DEF Searched, NoGoodAt
  <2> QED BY <2>1, <2>2 DEF Choice!IsFirst
<1>3. GoodDevices' = GoodDevices
  BY SameGood
<1>4. pc # "missing" /\ pc' # "missing"
  BY DEF Visiting, OnDevice, OnIso
<1> QED BY <1>1, <1>2, <1>3, <1>4 DEF Choice!Choose

LEMMA ChoiceStep ==
  ASSUME ScanInv, Searched, [ScanNext]_scanVars PROVE [Choice!Next]_(Choice!vars)
<1> USE DEF Goto
<1>1. CASE StartPass
  <2>1. /\ found_dev = NoDev /\ found_dev' = NoDev /\ pc # "missing" /\ pc' # "missing"
        /\ attempt < Passes /\ attempt' = attempt + 1 /\ seen' = present
        /\ present' = present /\ PassedOver
    BY <1>1 DEF StartPass, ScanInv, Verdicts, FoundNothing, Ended, Searched, verdict
  <2>2. GoodDevices' = GoodDevices
    BY <1>1, SameGood DEF StartPass
  <2>3. Choice!LookAgain
    BY <2>1, <2>2 DEF Choice!LookAgain, PassedOver
  <2> QED BY <2>3 DEF Choice!Next
<1>2. CASE AcceptDevice
  <2>1. pc \in Visiting /\ found_dev = NoDev /\ dev \in Devices
    BY <1>2 DEF AcceptDevice, ScanInv, Verdicts, FoundNothing, Mounts, Ended, Visiting, OnDevice
  <2>2. GoodDevice(dev)
    BY <1>2, WhatTestsTell DEF AcceptDevice, ScanInv, Mounts, Tested, OnDevice
  <2>3. Choice!Choose
    BY <1>2, <2>1, <2>2, ScanAssumption, ChosenStep DEF AcceptDevice
  <2> QED BY <2>3 DEF Choice!Next
<1>3. CASE AcceptIso
  <2>1. /\ pc \in Visiting /\ found_dev = NoDev /\ dev \in Devices /\ file \in 1..Len(Files)
        /\ media.on[dev].fs /\ media.on[Iso].fs /\ ~HasSquash(dev) /\ ventoy
    BY <1>3 DEF AcceptIso, ScanInv, Verdicts, FoundNothing, Mounts, Tested, Ended, Visiting, OnIso,
                Testing, Searched
  <2>2. Iso \notin media.ungreppable /\ GoodMedium(Iso)
    BY <1>3, <2>1, WhatTestsTell
       DEF AcceptIso, ScanInv, Tested, Loops, Testing, OnIso
  <2>3. GoodDevice(dev)
    BY <2>1, <2>2, GoodThroughIso DEF NoGoodFile, Iso
  <2>4. Choice!Choose
    BY <1>3, <2>1, <2>3, ScanAssumption, ChosenStep DEF AcceptIso
  <2> QED BY <2>4 DEF Choice!Next
<1>4. CASE Conclude
  <2>1. GoodDevices' = GoodDevices /\ UNCHANGED <<present, attempt, seen, dev, found_dev>>
    BY <1>4, SameGood DEF Conclude, verdict
  <2>2. CASE found_dev = NoDev
    <3>1. pc = "verdict" /\ pc' = "missing" /\ attempt = Passes /\ PassedOver
      BY <1>4, <2>2 DEF Conclude, Searched
    <3>2. Choice!GiveUp
      BY <2>1, <2>2, <3>1 DEF Choice!GiveUp, PassedOver
    <3> QED BY <3>2 DEF Choice!Next
  <2>3. CASE found_dev # NoDev
    <3>1. pc # "missing" /\ pc' # "missing"
      BY <1>4, <2>3 DEF Conclude
    <3> QED BY <2>1, <2>3, <3>1 DEF Choice!vars
  <2> QED BY <2>2, <2>3
<1>5. CASE \E d \in Devices : Plug(d)
  <2>1. PICK d \in Devices : Plug(d)
    BY <1>5
  <2>2. GoodDevices' = GoodDevices /\ UNCHANGED <<attempt, seen, dev, found_dev, pc>>
    BY <2>1, SameGood DEF Plug, verdict
  <2>3. Choice!Plug
    BY <2>1, <2>2 DEF Plug, Choice!Plug
  <2> QED BY <2>3 DEF Choice!Next
<1>6. CASE UNCHANGED scanVars
  <2>1. GoodDevices' = GoodDevices
    BY <1>6, SameGood DEF scanVars
  <2> QED BY <1>6, <2>1 DEF scanVars, verdict, Choice!vars
<1>7. ASSUME \/ StartScan \/ PassesOver \/ DevicesOver \/ NextDevice \/ ProbeDevice \/ RejectDevice
             \/ ListIsos \/ IsosOver \/ AttachIso \/ NoLoopLeft \/ MountIso \/ ProbeIso
             \/ RejectIso \/ ReleaseDevice
      PROVE  UNCHANGED Choice!vars
  <2>1. /\ UNCHANGED <<inputs, present, attempt, seen, found_dev>>
        /\ pc \notin Ended \cup {"missing"} /\ pc' # "missing"
    BY <1>7 DEF StartScan, PassesOver, DevicesOver, NextDevice, ProbeDevice, RejectDevice, ListIsos,
                IsosOver, AttachIso, NoLoopLeft, MountIso, ProbeIso, RejectIso, ReleaseDevice,
                NextIso, verdict, Ended
  <2>2. GoodDevices' = GoodDevices /\ found_dev = NoDev
    BY <2>1, SameGood, NoneChosen
  <2> QED BY <2>1, <2>2 DEF Choice!vars, Ended
<1> QED
  BY <1>1, <1>2, <1>3, <1>4, <1>5, <1>6, <1>7 DEF ScanNext, ScanStep

LEMMA ChoiceInit == ScanInit => Choice!Init
<1> SUFFICES ASSUME ScanInit PROVE Choice!Init
  OBVIOUS
<1> QED BY DEF ScanInit, Choice!Init, GoodDevices

-----------------------------------------------------------------------------
(* Loop devices.  What the visits so far can have left attached: each one  *)
(* at most the misread files of its device.  A good device is visited      *)
(* once, since nothing of it is passed over; so of its own misread files   *)
(* only those before the file under test count.                            *)

VisitsDone ==
  IF pc \in {"start", "attempt"} THEN attempt * Len(Glob)
  ELSE IF pc = "device" THEN (attempt - 1) * Len(Glob) + pos
  ELSE (attempt - 1) * Len(Glob) + pos - 1

Leaked == {l \in LoopIds : loop[l] \in media.ungreppable}

MisreadHere ==
  IF pc = "iso" THEN {k \in Misread(media, dev) : k < file}
  ELSE IF pc \in Testing THEN {k \in Misread(media, dev) : k <= file}
  ELSE IF pc = "release" THEN Misread(media, dev)
  ELSE {}

(* n misread files at most on any other device than d. *)
Elsewhere(d, n) == \A e \in Devices \ {d} : Cardinality(Misread(media, e)) <= n

Underway == {"start", "attempt", "device"} \cup Visiting

FewLeaks ==
  /\ media \in Arrangements
  /\ pc \in Visiting \cup {"device"} => attempt > 0
  /\ pc \in Underway =>
       \A d \in Devices, n \in Nat :
         GoodDevice(d) /\ Elsewhere(d, n) =>
           Cardinality(Leaked) <= VisitsDone * n + Cardinality(MisreadHere)

LEMMA Products ==
  /\ \A m, n \in Nat : m * n \in Nat /\ (m + 1) * n = m * n + n
  /\ \A k, m, n \in Nat : k <= m => k * n <= m * n
<1>1. \A m, n \in Nat : m * n \in Nat /\ (m + 1) * n = m * n + n
  OBVIOUS
<1>2. \A k, m, n \in Nat : k <= m => k * n <= m * n
  OBVIOUS
<1> QED BY <1>1, <1>2

LEMMA MisreadFinite ==
  ASSUME ScanTypeOK, NEW d \in Devices
  PROVE  /\ IsFiniteSet(Misread(media, d)) /\ Cardinality(Misread(media, d)) \in Nat
         /\ \A S : S \subseteq Misread(media, d) =>
              /\ IsFiniteSet(S) /\ Cardinality(S) \in Nat
              /\ Cardinality(S) <= Cardinality(Misread(media, d))
<1>1. media.files[d] \in Seq(Isos)
  BY MediaTypes
<1>2. Misread(media, d) \subseteq 1..Len(media.files[d]) /\ Len(media.files[d]) \in Nat
  BY <1>1 DEF Misread
<1>3. IsFiniteSet(Misread(media, d))
  <2>1. IsFiniteSet(1..Len(media.files[d]))
    BY <1>2, FS_Interval
  <2> QED BY <1>2, <2>1, FS_Subset
<1> QED BY <1>3, FS_Subset, FS_CardinalityType

LEMMA LoopsFinite ==
  /\ IsFiniteSet(LoopIds) /\ Cardinality(LoopIds) = NumLoops
  /\ \A S : S \subseteq LoopIds => IsFiniteSet(S) /\ Cardinality(S) \in Nat
<1>1. IsFiniteSet(LoopIds) /\ Cardinality(LoopIds) = NumLoops
  BY FS_Interval, ScanAssumption DEF LoopIds
<1> QED BY <1>1, FS_Subset, FS_CardinalityType

LEMMA VisitsType ==
  ASSUME ScanTypeOK, Searched, FewLeaks, pc \in Underway
  PROVE  VisitsDone \in Nat /\ VisitsDone <= Passes * Len(Glob)
<1>1. attempt \in Nat /\ pos \in Nat /\ Passes \in Nat /\ attempt <= Passes
      /\ Len(Glob) \in Nat /\ pos <= Len(Glob)
  BY GlobTypes, ScanAssumption DEF ScanTypeOK
<1>2. CASE pc \in {"start", "attempt"}
  BY <1>1, <1>2, Products DEF VisitsDone
<1>3. CASE pc \in Visiting \cup {"device"}
  <2>1. attempt - 1 \in Nat /\ (attempt - 1) + 1 = attempt
    BY <1>1, <1>3 DEF FewLeaks
  <2>2. /\ (attempt - 1) * Len(Glob) \in Nat
        /\ attempt * Len(Glob) = (attempt - 1) * Len(Glob) + Len(Glob)
        /\ attempt * Len(Glob) <= Passes * Len(Glob)
        /\ Passes * Len(Glob) \in Nat
    BY <1>1, <2>1, Products
  <2>3. pc \in Visiting => pos > 0
    BY DEF Searched
  <2>4. CASE pc = "device"
    BY <1>1, <2>2, <2>4 DEF VisitsDone
  <2>5. CASE pc \in Visiting
    <3>1. VisitsDone = (attempt - 1) * Len(Glob) + pos - 1
      BY <2>5 DEF VisitsDone, Visiting, OnDevice, OnIso
    <3> QED BY <1>1, <2>2, <2>3, <2>5, <3>1
  <2> QED BY <1>3, <2>4, <2>5
<1> QED BY <1>2, <1>3 DEF Underway

(* The bound gives a free loop device to a good ISO file. *)
LEMMA LoopIsFree ==
  ASSUME EnoughLoops, ScanInv, Searched, FewLeaks PROVE GoodIsoGetsLoop
<1> SUFFICES ASSUME pc = "iso", file <= Len(Files), Iso \notin media.ungreppable, GoodMedium(Iso),
                    \A l \in LoopIds : loop[l] # NoIso
             PROVE  FALSE
  BY DEF GoodIsoGetsLoop
<1>1. dev \in Devices /\ media.on[dev].fs /\ ScanTypeOK /\ file \in Nat /\ file >= 1
  BY DEF ScanInv, ScanTypeOK, Mounts, Tested, OnDevice
<1>2. Len(Files) \in Nat /\ DOMAIN Files = 1..Len(Files) /\ Files = media.files[dev]
  BY <1>1, MediaTypes DEF Files
<1>3. GoodDevice(dev)
  BY <1>1, <1>2, GoodThroughIso DEF Searched, Testing, NoGoodFile, Iso
<1>4. media.files[dev] # << >>
  BY <1>1, <1>2
<1>5. PICK n \in 0..NumLoops :
        /\ Elsewhere(dev, n)
        /\ Passes * Len(Glob) * n + Cardinality(Misread(media, dev)) < NumLoops
  BY <1>1, <1>4 DEF EnoughLoops, FewLeaks, Elsewhere
<1>6. n \in Nat /\ NumLoops \in Nat
  BY <1>5, ScanAssumption
<1>7. Leaked = LoopIds
  BY DEF Leaked, ScanInv, Loops, Testing, Ended
<1>8. NumLoops <= VisitsDone * n + Cardinality(MisreadHere)
  BY <1>1, <1>3, <1>5, <1>6, <1>7, LoopsFinite DEF FewLeaks, Underway, Visiting, OnDevice
<1>9. /\ Cardinality(MisreadHere) <= Cardinality(Misread(media, dev))
      /\ Cardinality(MisreadHere) \in Nat /\ Cardinality(Misread(media, dev)) \in Nat
  BY <1>1, MisreadFinite DEF MisreadHere
<1>10. VisitsDone * n \in Nat /\ VisitsDone * n <= Passes * Len(Glob) * n
       /\ Passes * Len(Glob) * n \in Nat
  <2>1. VisitsDone \in Nat /\ VisitsDone <= Passes * Len(Glob)
    BY <1>1, VisitsType DEF Underway, Visiting, OnDevice
  <2>2. Passes * Len(Glob) \in Nat
    BY GlobTypes, ScanAssumption, Products
  <2> QED BY <1>6, <2>1, <2>2, Products
<1> QED BY <1>5, <1>6, <1>8, <1>9, <1>10

LEMMA HereFinite ==
  ScanInv /\ pc \in Underway => IsFiniteSet(MisreadHere) /\ Cardinality(MisreadHere) \in Nat
<1> SUFFICES ASSUME ScanInv, pc \in Underway
             PROVE  IsFiniteSet(MisreadHere) /\ Cardinality(MisreadHere) \in Nat
  OBVIOUS
<1>1. CASE pc \in {"iso", "release"} \cup Testing
  <2>1. dev \in Devices
    BY <1>1 DEF ScanInv, Mounts, OnDevice, OnIso, Testing
  <2> QED BY <2>1, MisreadFinite DEF ScanInv, MisreadHere
<1>2. CASE pc \notin {"iso", "release"} \cup Testing
  BY <1>2, FS_EmptySet DEF MisreadHere
<1> QED BY <1>1, <1>2

(* A step that attaches nothing for good keeps the bound.                  *)
LEMMA BoundKept ==
  ASSUME ScanInv, Searched, FewLeaks, ScanInv', pc \in Underway, pc' \in Underway,
         UNCHANGED inputs, Leaked' \subseteq Leaked,
         VisitsDone' \in Nat, VisitsDone <= VisitsDone',
         MisreadHere \subseteq MisreadHere',
         pc' \in Visiting \cup {"device"} => attempt' > 0
  PROVE  FewLeaks'
<1>1. VisitsDone \in Nat
  BY VisitsType DEF ScanInv
<1>2. Cardinality(MisreadHere) <= Cardinality(MisreadHere')
      /\ Cardinality(MisreadHere) \in Nat /\ Cardinality(MisreadHere') \in Nat
  <2>1. (ScanInv /\ pc \in Underway)'
    OBVIOUS
  <2>2. (IsFiniteSet(MisreadHere) /\ Cardinality(MisreadHere) \in Nat)'
    BY <2>1, HereFinite, PTL
  <2> QED BY <2>2, FS_Subset, HereFinite
<1>3. Cardinality(Leaked') <= Cardinality(Leaked) /\ Cardinality(Leaked') \in Nat
      /\ Cardinality(Leaked) \in Nat
  <2>1. IsFiniteSet(Leaked) /\ Leaked \subseteq LoopIds /\ Leaked' \subseteq LoopIds
    BY LoopsFinite DEF Leaked, LoopIds
  <2> QED BY <2>1, FS_Subset, LoopsFinite
<1>4. ASSUME NEW d \in Devices, NEW n \in Nat, GoodDevice(d)', Elsewhere(d, n)'
      PROVE  Cardinality(Leaked') <= VisitsDone' * n + Cardinality(MisreadHere')
  <2>1. GoodDevice(d) /\ Elsewhere(d, n)
    BY <1>4, SameGood DEF inputs, Elsewhere
  <2>2. Cardinality(Leaked) <= VisitsDone * n + Cardinality(MisreadHere)
    BY <2>1 DEF FewLeaks
  <2>3. VisitsDone * n <= VisitsDone' * n /\ VisitsDone * n \in Nat /\ VisitsDone' * n \in Nat
    BY <1>1, Products
  <2> QED BY <1>2, <1>3, <2>2, <2>3
<1>5. media' \in Arrangements
  BY DEF FewLeaks, inputs
<1> QED BY <1>4, <1>5 DEF FewLeaks

LEMMA FewLeaksInit == ScanInit => FewLeaks
<1> SUFFICES ASSUME ScanInit PROVE FewLeaks
  OBVIOUS
<1>1. pc = "start" /\ media \in Arrangements
  BY DEF ScanInit
<1>2. Leaked = {}
  BY <1>1, ScanAssumption, ArrangementsAssumption DEF ScanInit, Leaked, Arrangement
<1>3. Cardinality(Leaked) = 0 /\ Cardinality(MisreadHere) = 0
  BY <1>1, <1>2, FS_EmptySet DEF MisreadHere, Testing
<1>4. VisitsDone \in Nat
  BY GlobTypes, Products DEF ScanInit, VisitsDone
<1>5. \A n \in Nat : VisitsDone * n \in Nat
  BY <1>4, Products
<1> QED BY <1>1, <1>3, <1>5 DEF FewLeaks, Visiting, OnDevice, OnIso

(* A visit begins, goes on or ends; the count of visits keeps up. *)
LEMMA VisitsCounted ==
  ASSUME ScanInv, Searched, FewLeaks, pc \in Underway
  PROVE  /\ attempt \in Nat /\ pos \in Nat /\ Len(Glob) \in Nat /\ VisitsDone \in Nat
         /\ attempt * Len(Glob) \in Nat
         /\ pc \in Visiting \cup {"device"} =>
              /\ (attempt - 1) * Len(Glob) \in Nat
              /\ attempt * Len(Glob) = (attempt - 1) * Len(Glob) + Len(Glob)
         /\ (attempt + 1 - 1) * Len(Glob) = attempt * Len(Glob)
         /\ pc \in Visiting => VisitsDone = (attempt - 1) * Len(Glob) + pos - 1
<1>1. attempt \in Nat /\ pos \in Nat /\ Len(Glob) \in Nat
  BY GlobTypes DEF ScanInv, ScanTypeOK
<1>2. (attempt + 1) - 1 = attempt
  BY <1>1
<1>3. ASSUME pc \in Visiting \cup {"device"}
      PROVE  /\ (attempt - 1) * Len(Glob) \in Nat
             /\ attempt * Len(Glob) = (attempt - 1) * Len(Glob) + Len(Glob)
  <2>1. attempt - 1 \in Nat /\ (attempt - 1) + 1 = attempt
    BY <1>1, <1>3 DEF FewLeaks
  <2> QED BY <1>1, <2>1, Products
<1>4. pc \in Visiting => VisitsDone = (attempt - 1) * Len(Glob) + pos - 1
  BY DEF VisitsDone, Visiting, OnDevice, OnIso
<1>5. VisitsDone \in Nat
  BY VisitsType DEF ScanInv
<1> QED BY <1>1, <1>2, <1>3, <1>4, <1>5, Products

LEMMA PassesFewLeaks ==
  ASSUME ScanInv, Searched, FewLeaks, ScanInv',
         StartScan \/ StartPass \/ DevicesOver \/ NextDevice
  PROVE  FewLeaks'
<1> USE DEF Goto
<1>1. UNCHANGED inputs /\ Leaked' = Leaked /\ MisreadHere = {} /\ pc \in Underway
  BY DEF StartScan, StartPass, DevicesOver, NextDevice, Leaked, inputs, kernel, MisreadHere, Testing,
         Underway
<1>2. CASE StartScan
  <2>1. VisitsDone' = VisitsDone
    BY <1>2 DEF StartScan, VisitsDone
  <2> QED BY <1>1, <1>2, <2>1, VisitsCounted, BoundKept DEF StartScan, Underway, Visiting, OnDevice, OnIso
<1>3. CASE StartPass
  <2>1. VisitsDone' = VisitsDone
    <3>1. VisitsDone = attempt * Len(Glob)
      BY <1>3 DEF StartPass, VisitsDone
    <3>2. VisitsDone' = (attempt' - 1) * Len(Glob) + pos'
      BY <1>3 DEF StartPass, VisitsDone
    <3>3. attempt' - 1 = attempt /\ pos' = 0
      BY <1>1, <1>3, VisitsCounted DEF StartPass
    <3>4. VisitsDone' = attempt * Len(Glob) + 0
      BY <3>2, <3>3
    <3> QED BY <1>1, <3>1, <3>4, VisitsCounted
  <2>2. attempt' > 0
    BY <1>1, <1>3, VisitsCounted DEF StartPass
  <2> QED BY <1>1, <1>3, <2>1, <2>2, VisitsCounted, BoundKept DEF StartPass, Underway
<1>4. CASE DevicesOver
  <2>1. VisitsDone' = VisitsDone
    <3>1. VisitsDone = (attempt - 1) * Len(Glob) + Len(Glob) /\ VisitsDone' = attempt * Len(Glob)
      BY <1>4 DEF DevicesOver, VisitsDone
    <3> QED BY <1>1, <1>4, <3>1, VisitsCounted DEF DevicesOver
  <2> QED BY <1>1, <1>4, <2>1, VisitsCounted, BoundKept
          DEF DevicesOver, Underway, Visiting, OnDevice, OnIso
<1>5. CASE NextDevice
  <2>1. pc' \in {"device", "probe"} /\ attempt' = attempt /\ attempt > 0 /\ pc = "device"
        /\ pos' = pos + 1
    BY <1>5 DEF NextDevice, FewLeaks
  <2>2. VisitsDone' \in {VisitsDone, VisitsDone + 1} /\ VisitsDone' \in Nat
    <3> DEFINE before == (attempt - 1) * Len(Glob)
    <3>1. before \in Nat /\ pos \in Nat
      BY <1>1, <2>1, VisitsCounted
    <3>2. VisitsDone = before + pos
      BY <2>1 DEF VisitsDone
    <3>3. VisitsDone' = IF pc' = "device" THEN before + (pos + 1) ELSE before + (pos + 1) - 1
      BY <2>1 DEF VisitsDone
    <3> HIDE DEF before
    <3> QED BY <3>1, <3>2, <3>3
  <2> QED BY <1>1, <2>1, <2>2, VisitsCounted, BoundKept DEF Underway, Visiting, OnDevice
<1> QED BY <1>2, <1>3, <1>4, <1>5

LEMMA VisitFewLeaks ==
  ASSUME ScanInv, Searched, FewLeaks, ScanInv', pc \in Visiting, pc' \in Visiting,
         UNCHANGED <<inputs, attempt, pos>>, Leaked' \subseteq Leaked,
         MisreadHere \subseteq MisreadHere'
  PROVE  FewLeaks'
<1>1. VisitsDone' = VisitsDone
  BY DEF VisitsDone, Visiting, OnDevice, OnIso
<1> QED BY <1>1, VisitsCounted, BoundKept DEF FewLeaks, Underway

LEMMA DeviceFewLeaks ==
  ASSUME ScanInv, Searched, FewLeaks, ScanInv',
         ProbeDevice \/ RejectDevice \/ ListIsos \/ IsosOver
  PROVE  FewLeaks'
<1> USE DEF Goto
<1>1. UNCHANGED <<inputs, attempt, pos, dev>> /\ Leaked' = Leaked /\ pc \in Visiting
      /\ pc' \in Visiting \cup {"device"}
  BY DEF ProbeDevice, RejectDevice, ListIsos, IsosOver, Leaked, inputs, kernel, Visiting, OnDevice
<1>2. CASE pc' = "device"
  <2>1. MisreadHere = {}
    BY <1>2 DEF ProbeDevice, RejectDevice, ListIsos, IsosOver, MisreadHere, Testing
  <2>2. VisitsDone' = VisitsDone + 1
    BY <1>1, <1>2, VisitsCounted DEF VisitsDone, Underway
  <2> QED BY <1>1, <1>2, <2>1, <2>2, VisitsCounted, BoundKept, SMTT(30) DEF FewLeaks, Underway
<1>3. CASE pc' \in Visiting
  <2>1. MisreadHere \subseteq MisreadHere'
    BY <1>1, <1>3 DEF ProbeDevice, RejectDevice, ListIsos, IsosOver, MisreadHere, Testing, inputs, Visiting,
                      OnDevice, OnIso
  <2> QED BY <1>1, <1>3, <2>1, VisitFewLeaks
<1> QED BY <1>1, <1>2, <1>3

(* The end of a visit to a device that turned out not to be good: its      *)
(* misread files are among those n bounds.                                 *)
LEMMA ReleaseFewLeaks ==
  ASSUME ScanInv, Searched, FewLeaks, ScanInv', ReleaseDevice PROVE FewLeaks'
<1> USE DEF ReleaseDevice, Goto
<1>1. /\ pc = "release" /\ pc' = "device" /\ dev \in Devices /\ ~GoodDevice(dev)
      /\ UNCHANGED inputs /\ Leaked' = Leaked
  BY DEF ScanInv, Mounts, OnDevice, Searched, Leaked, inputs
<1>2. VisitsDone \in Nat /\ VisitsDone' = VisitsDone + 1
  BY <1>1, VisitsCounted DEF VisitsDone, Underway, Visiting, OnDevice
<1>3. MisreadHere = Misread(media, dev) /\ MisreadHere' = {}
  BY <1>1 DEF MisreadHere, Testing
<1>4. Cardinality(MisreadHere) \in Nat /\ Cardinality(MisreadHere') = 0 /\ Cardinality(Leaked) \in Nat
  BY <1>1, <1>3, MisreadFinite, LoopsFinite, FS_EmptySet DEF ScanInv, Leaked
<1>5. ASSUME NEW d \in Devices, NEW n \in Nat, GoodDevice(d)', Elsewhere(d, n)'
      PROVE  Cardinality(Leaked') <= VisitsDone' * n + Cardinality(MisreadHere')
  <2>1. GoodDevice(d) /\ Elsewhere(d, n)
    BY <1>1, <1>5, SameGood DEF inputs, Elsewhere
  <2>2. Cardinality(Leaked) <= VisitsDone * n + Cardinality(MisreadHere)
    BY <1>1, <2>1 DEF FewLeaks, Underway, Visiting, OnDevice
  <2>3. Cardinality(MisreadHere) <= n
    BY <1>1, <1>3, <2>1 DEF Elsewhere
  <2>4. VisitsDone * n \in Nat /\ VisitsDone' * n = VisitsDone * n + n
    BY <1>2, Products
  <2> QED BY <1>1, <1>4, <2>2, <2>3, <2>4
<1>6. attempt' > 0 /\ media' \in Arrangements
  BY <1>1 DEF FewLeaks, inputs, Visiting, OnDevice
<1> QED BY <1>5, <1>6 DEF FewLeaks

(* One more misread file, one more loop device that stays attached.        *)
LEMMA AttachFewLeaks ==
  ASSUME ScanInv, Searched, FewLeaks, ScanInv', AttachIso PROVE FewLeaks'
<1> USE DEF AttachIso, Goto
<1>1. /\ pc = "iso" /\ pc' = "attached" /\ dev \in Devices /\ UNCHANGED <<inputs, media, attempt, pos, dev, file>>
      /\ file \in Nat /\ file >= 1
  BY DEF ScanInv, ScanTypeOK, Mounts, Tested, OnDevice, inputs
<1>2. file \in DOMAIN Files
  BY <1>1, MediaTypes DEF ScanInv, Files
<1>3. PICK l \in LoopIds : loop[l] = NoIso /\ loop' = [loop EXCEPT ![l] = Iso]
  OBVIOUS
<1>4. \A m \in LoopIds : loop'[m] = IF m = l THEN Iso ELSE loop[m]
  BY <1>3 DEF ScanInv, ScanTypeOK
<1>5. NoIso \notin media.ungreppable
  BY MediaTypes, ScanAssumption DEF ScanInv
<1>6. CASE Iso \notin media.ungreppable
  <2>1. Leaked' \subseteq Leaked
    BY <1>1, <1>4, <1>6 DEF Leaked
  <2>2. MisreadHere \subseteq MisreadHere'
    <3>1. Misread(media, dev) \subseteq Nat
      BY <1>1, MediaTypes DEF ScanInv, Misread
    <3>2. \A k \in Misread(media, dev) : k < file => k <= file
      BY <1>1, <3>1
    <3> QED BY <1>1, <3>2 DEF MisreadHere, Testing
  <2> QED BY <1>1, <2>1, <2>2, VisitFewLeaks DEF Visiting, OnDevice
<1>7. CASE Iso \in media.ungreppable
  <2>1. Leaked' = Leaked \cup {l}
    BY <1>1, <1>4, <1>7 DEF Leaked
  <2>2. MisreadHere' = MisreadHere \cup {file} /\ file \notin MisreadHere
    <3>1. DOMAIN Files \subseteq Nat
      BY <1>1, MediaTypes DEF ScanInv, Files
    <3>2. \A k \in DOMAIN Files : k <= file <=> k < file \/ k = file
      BY <1>1, <3>1
    <3>3. file \in Misread(media, dev)
      BY <1>2, <1>7 DEF Misread, Iso, Files
    <3>4. MisreadHere = {k \in Misread(media, dev) : k < file}
          /\ MisreadHere' = {k \in Misread(media, dev) : k <= file}
      BY <1>1 DEF MisreadHere, Testing
    <3>5. Misread(media, dev) \subseteq DOMAIN Files
      BY DEF Misread, Files
    <3> QED BY <1>1, <3>2, <3>3, <3>4, <3>5
  <2>3. Cardinality(Leaked') <= Cardinality(Leaked) + 1 /\ Cardinality(Leaked) \in Nat
        /\ Cardinality(Leaked') \in Nat
    <3>1. IsFiniteSet(Leaked) /\ Cardinality(Leaked) \in Nat
      BY LoopsFinite DEF Leaked
    <3>2. Cardinality(Leaked \cup {l}) = IF l \in Leaked THEN Cardinality(Leaked)
                                         ELSE Cardinality(Leaked) + 1
      BY <3>1, FS_AddElement
    <3> QED BY <2>1, <3>1, <3>2
  <2>4. Cardinality(MisreadHere') = Cardinality(MisreadHere) + 1 /\ Cardinality(MisreadHere) \in Nat
    <3>1. IsFiniteSet(MisreadHere) /\ Cardinality(MisreadHere) \in Nat
      BY <1>1, HereFinite DEF Underway, Visiting, OnDevice
    <3> QED BY <2>2, <3>1, FS_AddElement
  <2>5. VisitsDone' = VisitsDone /\ VisitsDone \in Nat
    BY <1>1, VisitsCounted DEF VisitsDone, Underway, Visiting, OnDevice
  <2>6. ASSUME NEW d \in Devices, NEW n \in Nat, GoodDevice(d)', Elsewhere(d, n)'
        PROVE  Cardinality(Leaked') <= VisitsDone' * n + Cardinality(MisreadHere')
    <3>1. GoodDevice(d) /\ Elsewhere(d, n)
      BY <1>1, <2>6, SameGood DEF Elsewhere
    <3>2. Cardinality(Leaked) <= VisitsDone * n + Cardinality(MisreadHere)
      BY <1>1, <3>1 DEF FewLeaks, Underway, Visiting, OnDevice
    <3> QED BY <2>3, <2>4, <2>5, <3>2, Products
  <2> QED BY <1>1, <2>6 DEF FewLeaks, Visiting, OnDevice
<1> QED BY <1>6, <1>7

LEMMA IsoFewLeaks ==
  ASSUME ScanInv, Searched, FewLeaks, ScanInv',
         NoLoopLeft \/ MountIso \/ ProbeIso \/ RejectIso
  PROVE  FewLeaks'
<1> USE DEF Goto
<1>1. /\ UNCHANGED <<inputs, media, attempt, pos, dev>> /\ pc \in {"iso"} \cup Testing
      /\ \/ pc' \in Testing /\ pc # "iso" /\ file' = file
         \/ pc' = "iso" /\ file' = file + 1
  BY DEF NoLoopLeft, MountIso, ProbeIso, RejectIso, NextIso, inputs, Testing, kernel
<1>2. Leaked' \subseteq Leaked
  <2>1. UNCHANGED loop \/ LosetupD
    BY DEF NoLoopLeft, MountIso, ProbeIso, RejectIso, NextIso, kernel
  <2>2. CASE LosetupD
    <3>1. \A l \in LoopIds : loop'[l] \in {loop[l], NoIso}
      BY <2>2, LosetupDType DEF ScanInv
    <3>2. NoIso \notin media.ungreppable
      BY MediaTypes, ScanAssumption DEF ScanInv
    <3> QED BY <1>1, <3>1, <3>2 DEF Leaked
  <2> QED BY <1>1, <2>1, <2>2 DEF Leaked
<1>3. MisreadHere \subseteq MisreadHere'
  <2>1. dev \in Devices /\ file \in Nat
    BY <1>1 DEF ScanInv, ScanTypeOK, Mounts, OnDevice, OnIso, Testing
  <2>2. Misread(media, dev) \subseteq Nat
    BY <2>1, MediaTypes DEF ScanInv, Misread
  <2>3. \A k \in Misread(media, dev) : (k < file => k <= file) /\ (k <= file => k < file + 1)
                                     /\ (k < file => k < file + 1)
    BY <2>1, <2>2
  <2> QED BY <1>1, <2>3 DEF MisreadHere, Testing
<1> QED BY <1>1, <1>2, <1>3, VisitFewLeaks DEF Visiting, OnDevice, OnIso, Testing

LEMMA FewLeaksStep ==
  ASSUME ScanInv, Searched, FewLeaks, ScanInv', [ScanNext]_scanVars PROVE FewLeaks'
<1>1. CASE PassesOver \/ AcceptDevice \/ AcceptIso \/ Conclude
  <2>1. pc' \notin Underway /\ media' = media
    BY <1>1 DEF PassesOver, AcceptDevice, AcceptIso, Conclude, Goto, inputs, Underway, Visiting, OnDevice,
                OnIso
  <2> QED BY <2>1 DEF FewLeaks, Underway
<1>2. CASE (\E d \in Devices : Plug(d)) \/ UNCHANGED scanVars
  <2>1. UNCHANGED <<inputs, loop, pc, attempt, pos, dev, file>>
    BY <1>2 DEF Plug, scanVars, kernel
  <2>2. media' = media /\ Leaked' = Leaked /\ VisitsDone' = VisitsDone /\ MisreadHere' = MisreadHere
    BY <2>1 DEF inputs, Leaked, VisitsDone, MisreadHere
  <2>3. \A d, n : Elsewhere(d, n)' <=> Elsewhere(d, n)
    BY <2>2 DEF Elsewhere
  <2> QED BY <2>1, <2>2, <2>3, SameGood DEF FewLeaks
<1> QED
  BY <1>1, <1>2, PassesFewLeaks, DeviceFewLeaks, ReleaseFewLeaks, AttachFewLeaks, IsoFewLeaks
     DEF ScanNext, ScanStep

-----------------------------------------------------------------------------
(* With enough loop devices no good ISO file is passed over: losetup -f    *)
(* finds a free one for each, whatever misread names keep attached         *)
(* (init-live.sh:124-128).                                                 *)
THEOREM LoopsSuffice == EnoughLoops => (ScanSpec => []GoodIsoGetsLoop)
<1> SUFFICES ASSUME EnoughLoops PROVE ScanSpec => []GoodIsoGetsLoop
  OBVIOUS
<1>1. ScanInit => ScanInv /\ Searched /\ FewLeaks
  BY ScanInvInit, SearchedInit, FewLeaksInit
<1>2. ScanInv /\ Searched /\ FewLeaks => GoodIsoGetsLoop
  BY LoopIsFree
<1>3. ScanInv /\ Searched /\ FewLeaks /\ [ScanNext]_scanVars => (ScanInv /\ Searched /\ FewLeaks)'
  BY <1>2, ScanInvStep, SearchedStep, FewLeaksStep
<1> QED BY <1>1, <1>2, <1>3, PTL DEF ScanSpec

(* The scan takes the first good device, in the order of the globs, of the *)
(* first pass that has one, and gives up only after a last pass with none, *)
(* provided there is a loop device for every good ISO file                 *)
(* (init-live.sh:74-169).                                                  *)
THEOREM ImplementsChoice == EnoughLoops => (ScanSpec => ChoosesFirstGood)
<1> SUFFICES ASSUME EnoughLoops PROVE ScanSpec => ChoosesFirstGood
  OBVIOUS
<1>1. Searched /\ ScanInv /\ GoodIsoGetsLoop /\ [ScanNext]_scanVars => Searched'
  BY SearchedStep
<1>2. ScanInv /\ Searched /\ [ScanNext]_scanVars => [Choice!Next]_(Choice!vars)
  BY ChoiceStep
<1> QED
  BY <1>1, <1>2, ChoiceInit, SearchedInit, ScanInvariant, LoopsSuffice, PTL
     DEF ScanSpec, ChoosesFirstGood, Choice!Spec

-----------------------------------------------------------------------------
(* The scan ends: each step lowers ScanLeft.                               *)

LEMMA LeftTypes ==
  ASSUME ScanInv
  PROVE  /\ Passes - attempt \in Nat /\ Len(Glob) - pos \in Nat
         /\ PassStage \in Nat /\ BodyStage \in Nat /\ IsosLeft \in Nat /\ TestStage \in Nat
<1>1. Passes - attempt \in Nat /\ Len(Glob) - pos \in Nat
  BY ScanAssumption DEF ScanInv, ScanTypeOK
<1>2. PassStage \in Nat /\ BodyStage \in Nat /\ TestStage \in Nat
  BY DEF PassStage, BodyStage, TestStage
<1>3. IsosLeft \in Nat
  <2>1. CASE pc \in IsoLoop
    <3>1. Len(Files) \in Nat /\ file \in Nat
      BY <2>1, MediaTypes DEF IsoLoop, ScanInv, ScanTypeOK, Mounts, OnDevice, OnIso, Files
    <3> QED BY <3>1 DEF IsosLeft
  <2> QED BY <2>1 DEF IsosLeft
<1> QED BY <1>1, <1>2, <1>3

LEMMA LeftMeasure == ScanInv => IsMeasure(ScanLeft)
BY LeftTypes DEF IsMeasure, ScanLeft

LEMMA LeftLowered ==
  ASSUME ScanInv, ScanInv',
         \/ attempt' > attempt
         \/ /\ attempt' = attempt
            /\ \/ PassStage' < PassStage
               \/ /\ PassStage' = PassStage
                  /\ \/ pos' > pos
                     \/ /\ pos' = pos
                        /\ \/ BodyStage' < BodyStage
                           \/ /\ BodyStage' = BodyStage
                              /\ \/ IsosLeft' < IsosLeft
                                 \/ IsosLeft' = IsosLeft /\ TestStage' < TestStage
  PROVE  Precedes(ScanLeft', ScanLeft)
<1> DEFINE s == ScanLeft'
           t == ScanLeft
<1>0. Passes \in Nat /\ Len(Glob) \in Nat /\ attempt \in Int /\ pos \in Int
      /\ attempt' \in Int /\ pos' \in Int
  BY ScanAssumption DEF ScanInv, ScanTypeOK
<1>1. Len(t) = 6
  BY DEF ScanLeft
<1>2. /\ s[1] = Passes - attempt' /\ s[2] = PassStage' /\ s[3] = Len(Glob) - pos'
      /\ s[4] = BodyStage' /\ s[5] = IsosLeft' /\ s[6] = TestStage'
      /\ t[1] = Passes - attempt /\ t[2] = PassStage /\ t[3] = Len(Glob) - pos
      /\ t[4] = BodyStage /\ t[5] = IsosLeft /\ t[6] = TestStage
  BY DEF ScanLeft
<1> HIDE DEF s, t
<1>3. \E i \in {1, 2, 3, 4, 5, 6} : s[i] < t[i] /\ \A j \in {1, 2, 3, 4, 5} : j < i => s[j] = t[j]
  BY <1>0, <1>2, SMTT(30)
<1>4. Precedes(s, t)
  BY <1>1, <1>3 DEF Precedes
<1> QED BY <1>4 DEF s, t

LEMMA ScanStepAdvances ==
  ASSUME ScanInv, ScanInv', ScanStep
  PROVE  present' = present /\ Precedes(ScanLeft', ScanLeft)
<1>0. present' = present
  BY DEF ScanStep, StartScan, StartPass, PassesOver, DevicesOver, NextDevice, ProbeDevice,
         AcceptDevice, RejectDevice, ListIsos, IsosOver, AttachIso, NoLoopLeft, MountIso, ProbeIso,
         AcceptIso, RejectIso, ReleaseDevice, Conclude
<1>1. attempt \in Int /\ pos \in Int
  BY DEF ScanInv, ScanTypeOK
<1> USE DEF Goto, PassStage
<1>2. CASE StartScan \/ StartPass \/ PassesOver \/ DevicesOver \/ Conclude
  BY <1>1, <1>2, LeftLowered DEF StartScan, StartPass, PassesOver, DevicesOver, Conclude
<1>3. CASE NextDevice
  BY <1>1, <1>3, LeftLowered DEF NextDevice
<1>4. CASE ProbeDevice \/ AcceptDevice \/ RejectDevice \/ ListIsos \/ IsosOver \/ ReleaseDevice
           \/ AcceptIso
  BY <1>4, LeftLowered
  DEF ProbeDevice, AcceptDevice, RejectDevice, ListIsos, IsosOver, ReleaseDevice, AcceptIso,
      BodyStage, IsoLoop
<1>5. CASE AttachIso \/ NoLoopLeft \/ MountIso \/ ProbeIso \/ RejectIso
  <2>1. /\ pc \in IsoLoop /\ pc' \in IsoLoop /\ UNCHANGED <<inputs, attempt, pos, dev>>
        /\ file \in Nat /\ Len(Files) \in Nat /\ file <= Len(Files)
        /\ \/ file' = file + 1
           \/ file' = file /\ TestStage' < TestStage
    BY <1>5, MediaTypes, SMTT(30)
    DEF AttachIso, NoLoopLeft, MountIso, ProbeIso, RejectIso, NextIso, IsoLoop, TestStage,
        ScanInv, ScanTypeOK, Mounts, OnDevice, OnIso, Tested, Testing, Files
  <2>2. Files' = Files
    BY <2>1 DEF Files, inputs
  <2>3. IsosLeft' < IsosLeft \/ (IsosLeft' = IsosLeft /\ TestStage' < TestStage)
    BY <2>1, <2>2 DEF IsosLeft
  <2>4. PassStage' = PassStage /\ BodyStage' = BodyStage
    BY <2>1 DEF IsoLoop, BodyStage
  <2> QED BY <1>0, <2>1, <2>3, <2>4, LeftLowered
<1> QED BY <1>0, <1>2, <1>3, <1>4, <1>5 DEF ScanStep

LEMMA PlugKeepsLeft ==
  ASSUME NEW d \in Devices, Plug(d) PROVE present' # present /\ ScanLeft' = ScanLeft
BY DEF Plug, inputs, ScanLeft, PassStage, BodyStage, IsosLeft, TestStage, Files

(* For all devices, ISO files, loop devices and passes, and however often  *)
(* a device appears: every step of the scan lowers the measure, a tuple of *)
(* naturals, so that the loops of init-live.sh:74-163 end.                 *)
THEOREM ScanTerminates == ScanSpec => ScanAdvances
<1>1. ScanInv /\ ScanInv' /\ [ScanNext]_scanVars =>
        [ /\ IsMeasure(ScanLeft')
          /\ IF present' = present THEN Precedes(ScanLeft', ScanLeft)
             ELSE ScanLeft' = ScanLeft ]_scanVars
  <2> SUFFICES ASSUME ScanInv, ScanInv', ScanNext
               PROVE  /\ IsMeasure(ScanLeft')
                      /\ IF present' = present THEN Precedes(ScanLeft', ScanLeft)
                         ELSE ScanLeft' = ScanLeft
    OBVIOUS
  <2>1. IsMeasure(ScanLeft)'
    BY LeftMeasure, PTL
  <2>2. CASE ScanStep
    BY <2>1, <2>2, ScanStepAdvances
  <2>3. CASE \E d \in Devices : Plug(d)
    BY <2>1, <2>3, PlugKeepsLeft
  <2> QED BY <2>2, <2>3 DEF ScanNext
<1> QED BY <1>1, ScanInvariant, PTL DEF ScanSpec, ScanAdvances

=============================================================================
