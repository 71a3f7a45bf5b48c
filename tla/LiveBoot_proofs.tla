--------------------------- MODULE LiveBoot_proofs ---------------------------
(***************************************************************************)
(* Theorems about the live profile from the first phase to switch_root,    *)
(* for all devices, ISO files, arrangements and boot options.  The media   *)
(* scan brings its own invariant, ScanInv of LiveScan_proofs.              *)
(***************************************************************************)
EXTENDS LiveBoot, LiveScan_proofs

-----------------------------------------------------------------------------
(* The inductive invariant.  Only a Ventoy boot looks into ISO files. *)
VentoyOnly ==
  /\ pc \in {"iso", "attached", "isoprobe", "isoverify"} => ventoy
  /\ found_dev = "ventoy_iso" => ventoy

(* Where the script is, and PID 1 with it. *)
First3 == at \in {0, 1, 2}
Third  == at = 3
Later  == at \in {4, 5, 6}

Phase40 == {"40", "squashfs", "debug2", "overlay", "config", "newroot", "debug3"}

Placed ==
  /\ opts \in Options
  /\ First3 \/ Third \/ Later
  /\ step # "over" => pid1 = "init" /\ stop = ""
  /\ step \in {"mode", "libs", "10", "20"} => First3
  /\ step \in {"30", "scan"} => Third
  /\ step \in Phase40 \cup {"50", "60", "switch"} => Later

(* What the storage is at each place: the phase loop goes on, or a step of *)
(* a phase does, only when what went before succeeded.                     *)
Onward == step = "loop" /\ last = "zero"

Unscanned == step \in {"mode", "libs", "10", "20", "30"} \/ (Onward /\ First3)
Unstored  == Unscanned \/ step \in {"scan", "40"} \/ (Onward /\ Third)
Complete  == (Onward /\ Later) \/ step \in {"50", "60", "switch"} \/ pid1 = "system"

Nothing == upper = "none" /\ ro_root = NoDev /\ overlay = "none" /\ config = "no"
Stored  == upper = overlay_type /\ upper # "none"
Lower   == Stored /\ ro_root # NoDev
Merged  == Lower /\ overlay = overlay_type
Chosen  == Merged /\ config = IF opts.neoconfig THEN "overlay" ELSE "no"

BindIsRight == iso_bind = IF ventoy /\ found_dev \in Devices THEN NoDev ELSE ro_root

Rooted == Chosen /\ found_init # "none" /\ BindIsRight

Storage ==
  /\ Unscanned => pc = "start" /\ attempt = 0
  /\ Unstored => Nothing /\ overlay_type = "tmpfs"
  /\ (Onward /\ Third) \/ step = "40" => pc = "found"
  /\ step = "squashfs" => /\ pc = "found" /\ Stored /\ ro_root = NoDev
                         /\ overlay = "none" /\ config = "no"
  /\ step \in {"debug2", "overlay"} => Lower /\ overlay = "none" /\ config = "no"
  /\ step = "config" => Merged /\ config = "no"
  /\ step = "newroot" => Chosen
  /\ step = "debug3" => Rooted
  /\ Complete => Rooted

(* What the later phases build on is what the scan found. *)
OnTheMedium == ro_root # NoDev => pc = "found" /\ ro_root = Top(iso_mnt)

Zram == upper = "zram" => opts.mem >= MinZramKB /\ zram_kb = ZramKB(opts.mem)

Stops ==
  /\ stop = "debug1" => attempt = 0 /\ Nothing
  /\ stop = "debug2" => Lower /\ overlay = "none"
  /\ stop = "debug3" => Rooted

BootInv ==
  ScanInv /\ VentoyOnly /\ Placed /\ Storage /\ OnTheMedium /\ Zram /\ Stops

-----------------------------------------------------------------------------
(* The scan within the boot. *)

(* Once the medium is found nothing of the scan moves. *)
LEMMA FoundStays == ASSUME pc = "found" PROVE ~ScanStep /\ \A d : ~Plug(d)
BY DEF ScanStep, StartScan, StartPass, PassesOver, DevicesOver, NextDevice, ProbeDevice,
       AcceptDevice, RejectDevice, ListIsos, IsosOver, AttachIso, NoLoopLeft, MountIso, ProbeIso,
       AcceptIso, RejectIso, ReleaseDevice, Conclude, Plug

(* Phase 60 frees the test mount point only where there is nothing on it. *)
LEMMA ReleaseFreesNothing ==
  ASSUME ScanInv, pc = "found", ReleaseIsoTest PROVE UNCHANGED scanVars
<1>1. UNCHANGED mnt
  <2>1. CASE found_dev = "ventoy_iso"
    BY <2>1 DEF ReleaseIsoTest
  <2>2. CASE found_dev # "ventoy_iso"
    <3>1. mnt["/mnt/iso_test"] = << >>
      BY <2>2 DEF ScanInv, Verdicts, FoundDevice, FoundIso, DeviceOnly
    <3> QED BY <2>2, <3>1 DEF ReleaseIsoTest, Umount, Mounted
  <2> QED BY <2>1, <2>2
<1> QED BY <1>1 DEF ReleaseIsoTest, scanVars, kernel

LEMMA ScanOrNot ==
  ASSUME BootInv, [Next]_vars
  PROVE  /\ [ScanNext]_scanVars
         /\ step \notin {"scan"} /\ pc = "found" => UNCHANGED scanVars
         /\ ScanStep \/ UNCHANGED scanVars \/ (step # "over" /\ \E d \in Devices : Plug(d))
<1>1. CASE ReleaseIsoTest
  <2>1. pc = "found"
    BY <1>1 DEF ReleaseIsoTest, BootInv, Storage, Complete, Rooted, Chosen, Merged, Lower, OnTheMedium
  <2> QED BY <1>1, <2>1, ReleaseFreesNothing DEF BootInv
<1>2. CASE UNCHANGED scanVars
  BY <1>2
<1>3. CASE Scanning
  BY <1>3, FoundStays DEF Scanning, ScanNext
<1>4. CASE Discover
  BY <1>4, FoundStays DEF Discover, ScanNext
<1> QED
  BY <1>1, <1>2, <1>3, <1>4
  DEF Next, Step, vars, Interrupt, ResolveMode, SourceLibs, EnterPhase, PhaseFailed,
      PhaseWithoutFailure, CheckRootfsHash, ScanReturns, ZramOverlay, TmpfsOverlay, MountSquashfs,
      Breakpoint2, MountOverlay, RunLiveConfig, SetupNewroot, Breakpoint3, SwitchRoot

LEMMA VentoyKept == ASSUME VentoyOnly, ScanTypeOK, [ScanNext]_scanVars PROVE VentoyOnly'
<1> USE DEF VentoyOnly, Goto, inputs, verdict
<1>1. CASE UNCHANGED scanVars
  BY <1>1 DEF scanVars
<1>2. CASE \E d \in Devices : Plug(d)
  BY <1>2 DEF Plug
<1>3. CASE AcceptDevice
  BY <1>3, ScanAssumption DEF AcceptDevice, ScanTypeOK
<1>4. CASE AcceptIso
  BY <1>4 DEF AcceptIso
<1>5. CASE ListIsos \/ IsosOver \/ AttachIso \/ NoLoopLeft \/ MountIso \/ ProbeIso \/ RejectIso
  BY <1>5 DEF ListIsos, IsosOver, AttachIso, NoLoopLeft, MountIso, ProbeIso, RejectIso, NextIso
<1>6. CASE StartScan \/ StartPass \/ PassesOver \/ DevicesOver \/ NextDevice \/ ProbeDevice
           \/ RejectDevice \/ ReleaseDevice \/ Conclude
  BY <1>6 DEF StartScan, StartPass, PassesOver, DevicesOver, NextDevice, ProbeDevice, RejectDevice,
              ReleaseDevice, Conclude
<1> QED BY <1>1, <1>2, <1>3, <1>4, <1>5, <1>6 DEF ScanNext, ScanStep

(* What the scan's invariant says of a medium that was found. *)
LEMMA MediumFound ==
  ASSUME ScanInv, VentoyOnly, pc = "found"
  PROVE  /\ Mounted(iso_mnt) /\ GoodMedium(Top(iso_mnt)) /\ Top(iso_mnt) # NoDev
         /\ Top(iso_mnt) \in Isos => \E l \in LoopIds : loop[l] = Top(iso_mnt)
         /\ (IF Mounted(BoundPoint) THEN Top(BoundPoint) ELSE NoDev)
              = IF ventoy /\ found_dev \in Devices THEN NoDev ELSE Top(iso_mnt)
<1>1. CASE FoundDevice
  <2>1. mnt[iso_mnt] = <<dev>> /\ iso_mnt = "/mnt/iso" /\ dev \in Devices /\ GoodMedium(dev)
        /\ mnt["/mnt/iso_test"] = << >> /\ found_dev \in Devices
    BY <1>1 DEF FoundDevice, DeviceOnly
  <2>2. Top(iso_mnt) = dev /\ Mounted(iso_mnt) /\ ~Mounted("/mnt/iso_test")
    BY <2>1 DEF Top, Mounted
  <2> QED BY <2>1, <2>2, ScanAssumption DEF BoundPoint
<1>2. CASE FoundIso
  <2>1. mnt[iso_mnt] = <<Iso>> /\ iso_mnt = "/mnt/iso_test" /\ GoodMedium(Iso)
        /\ found_dev = "ventoy_iso" /\ ventoy /\ found_dev \notin Devices
        /\ \E l \in LoopIds : loop[l] = Iso
    BY <1>2, ScanAssumption DEF FoundIso, IsoToo, VentoyOnly
  <2>2. Top(iso_mnt) = Iso /\ Mounted(iso_mnt)
    BY <2>1 DEF Top, Mounted
  <2>3. Iso # NoDev
    BY <1>2, ScanAssumption DEF FoundIso
  <2> QED BY <2>1, <2>2, <2>3 DEF BoundPoint
<1> QED BY <1>1, <1>2 DEF ScanInv, Verdicts

-----------------------------------------------------------------------------
(* The boot around it. *)

Rest == Placed /\ Storage /\ OnTheMedium /\ Zram /\ Stops

(* Steps that leave the storage alone. *)
LEMMA StorageAlone ==
  ASSUME Rest, UNCHANGED <<opts, storage, scanVars>>
  PROVE  /\ OnTheMedium' /\ Zram'
         /\ (Nothing => Nothing') /\ (Stored => Stored') /\ (Lower => Lower')
         /\ (Merged => Merged') /\ (Chosen => Chosen') /\ (Rooted => Rooted')
         /\ UNCHANGED <<pc, attempt, ro_root, overlay, config, overlay_type, found_init>>
<1>1. UNCHANGED <<opts, overlay_type, found_init, upper, zram_kb, ro_root, overlay, iso_bind, config>>
  BY DEF storage
<1>2. UNCHANGED <<pc, attempt, mnt, iso_mnt, found_dev, ventoy>>
  BY DEF scanVars, inputs, kernel, verdict
<1>3. OnTheMedium'
  BY <1>1, <1>2 DEF Rest, OnTheMedium, Top
<1>4. Zram'
  BY <1>1 DEF Rest, Zram, ZramKB
<1>5. Nothing' = Nothing /\ Stored' = Stored /\ Lower' = Lower /\ Merged' = Merged /\ Chosen' = Chosen
  BY <1>1 DEF Nothing, Stored, Lower, Merged, Chosen
<1>6. BindIsRight' = BindIsRight
  BY <1>1, <1>2 DEF BindIsRight
<1>7. Rooted' = Rooted
  BY <1>1, <1>5, <1>6 DEF Rooted
<1> QED BY <1>1, <1>2, <1>3, <1>4, <1>5, <1>7

LEMMA PhasesInOrder ==
  /\ Len(FirstStep) = 6
  /\ \A n \in {0, 1, 2, 3, 4, 5} :
       FirstStep[n + 1] = CASE n = 0 -> "10" [] n = 1 -> "20" [] n = 2 -> "30"
                            [] n = 3 -> "40" [] n = 4 -> "50" [] n = 5 -> "60"
BY DEF FirstStep

LEMMA AtIsOne == ~(First3 /\ Third) /\ ~(First3 /\ Later) /\ ~(Third /\ Later)
BY DEF First3, Third, Later

LEMMA AtStays ==
  ASSUME UNCHANGED at
  PROVE  (First3 <=> First3') /\ (Third <=> Third') /\ (Later <=> Later')
BY DEF First3, Third, Later

(* The phase that is entered. *)
LEMMA Entered ==
  ASSUME EnterPhase, First3 \/ Third \/ Later
  PROVE  \/ First3 /\ First3' /\ step' \in {"10", "20"}
         \/ First3 /\ Third' /\ step' = "30"
         \/ Third /\ Later' /\ step' = "40"
         \/ Later /\ Later' /\ step' \in {"50", "60"}
<1>1. at' = at + 1 /\ step' = FirstStep[at + 1] /\ at \in {0, 1, 2, 3, 4, 5}
  BY PhasesInOrder DEF EnterPhase, First3, Third, Later
<1>2. CASE at \in {0, 1}
  BY <1>1, <1>2, PhasesInOrder DEF First3, Third, Later
<1>3. CASE at \in {2, 3}
  BY <1>1, <1>3, PhasesInOrder DEF First3, Third, Later
<1>4. CASE at \in {4, 5}
  BY <1>1, <1>4, PhasesInOrder DEF First3, Third, Later
<1> QED BY <1>1, <1>2, <1>3, <1>4

LEMMA ControlStep ==
  ASSUME Rest,
         \/ ResolveMode \/ SourceLibs \/ EnterPhase \/ PhaseFailed \/ PhaseWithoutFailure
         \/ CheckRootfsHash \/ ScanReturns \/ Breakpoint2 \/ Breakpoint3 \/ SwitchRoot \/ Interrupt
  PROVE  Rest'
<1>u. UNCHANGED <<opts, storage, scanVars>>
  BY DEF ResolveMode, SourceLibs, EnterPhase, PhaseFailed, PhaseWithoutFailure, CheckRootfsHash,
         ScanReturns, Breakpoint2, Breakpoint3, SwitchRoot, Interrupt
<1>s. /\ OnTheMedium' /\ Zram'
      /\ (Nothing => Nothing') /\ (Stored => Stored') /\ (Lower => Lower')
      /\ (Merged => Merged') /\ (Chosen => Chosen') /\ (Rooted => Rooted')
      /\ UNCHANGED <<pc, attempt, ro_root, overlay, config, overlay_type, found_init>>
  BY <1>u, StorageAlone
<1>1. Placed' /\ Storage' /\ Stops'
  <2> USE <1>s, <1>u, AtIsOne
      DEF Rest, Placed, Storage, Stops, Unscanned, Unstored, Complete, Onward, Phase40,
          Continue, Return, Shell
  <2>1. CASE ResolveMode
    BY <2>1, AtStays DEF ResolveMode
  <2>2. CASE SourceLibs
    BY <2>2, AtStays DEF SourceLibs
  <2>3. CASE EnterPhase
    <3>1. step = "loop" /\ last = "zero" /\ last' = "none" /\ UNCHANGED <<pid1, stop>>
      BY <2>3 DEF EnterPhase
    <3> QED BY <2>3, <3>1, Entered
  <2>4. CASE PhaseFailed
    BY <2>4, AtStays DEF PhaseFailed
  <2>5. CASE PhaseWithoutFailure
    BY <2>5, AtStays DEF PhaseWithoutFailure
  <2>6. CASE CheckRootfsHash
    BY <2>6, AtStays DEF CheckRootfsHash
  <2>7. CASE ScanReturns
    BY <2>7, AtStays DEF ScanReturns
  <2>8. CASE Breakpoint2
    BY <2>8, AtStays DEF Breakpoint2
  <2>9. CASE Breakpoint3
    BY <2>9, AtStays DEF Breakpoint3
  <2>10. CASE SwitchRoot
    BY <2>10, AtStays DEF SwitchRoot
  <2>11. CASE Interrupt
    BY <2>11, AtStays DEF Interrupt
  <2> QED BY <2>1, <2>2, <2>3, <2>4, <2>5, <2>6, <2>7, <2>8, <2>9, <2>10, <2>11
<1> QED BY <1>1, <1>s DEF Rest

(* The scan runs, or the kernel discovers a device. *)
LEMMA ScanMoves ==
  ASSUME BootInv, Scanning \/ Discover
  PROVE  Rest'
<1>1. UNCHANGED <<opts, bootVars>> /\ UNCHANGED inputs
  BY DEF Scanning, Discover, Plug, ScanStep, StartScan, StartPass, PassesOver, DevicesOver,
         NextDevice, ProbeDevice, AcceptDevice, RejectDevice, ListIsos, IsosOver, AttachIso,
         NoLoopLeft, MountIso, ProbeIso, AcceptIso, RejectIso, ReleaseDevice, Conclude
<1>2. UNCHANGED <<opts, step, at, last, pid1, libs, stop, overlay_type, found_init, upper,
                  zram_kb, ro_root, overlay, iso_bind, config>>
  BY <1>1 DEF bootVars
<1>3. Placed'
  BY <1>2, AtStays DEF BootInv, Placed, Phase40
<1>4. Zram'
  BY <1>2 DEF BootInv, Zram, ZramKB
<1>5. /\ Nothing' = Nothing /\ Stored' = Stored /\ Lower' = Lower /\ Merged' = Merged
      /\ Chosen' = Chosen
  BY <1>2 DEF Nothing, Stored, Lower, Merged, Chosen
<1>6. pc # "found"
  BY FoundStays DEF Scanning, Discover
<1>7. ro_root = NoDev /\ step \notin Phase40 \cup {"50", "60", "switch"}
      /\ ~(Onward /\ (Third \/ Later)) /\ pid1 # "system" /\ ~Complete
  BY <1>6 DEF BootInv, OnTheMedium, Storage, Complete, Rooted, Chosen, Merged, Lower, Phase40
<1>8. OnTheMedium'
  BY <1>2, <1>7 DEF OnTheMedium
<1>9. (Onward' <=> Onward) /\ (Unscanned' <=> Unscanned) /\ (Unstored' <=> Unstored)
      /\ (Complete' <=> Complete)
  BY <1>2, AtStays DEF Onward, Unscanned, Unstored, Complete
<1>10. CASE Scanning
  <2>1. step = "scan" /\ stop = "" /\ ~Unscanned
    BY <1>10 DEF Scanning, BootInv, Placed, Unscanned, Onward
  <2>2. Storage'
    BY <1>2, <1>5, <1>7, <1>9, <2>1, AtStays DEF BootInv, Storage, Onward
  <2>3. Stops'
    BY <1>2, <2>1 DEF Stops
  <2> QED BY <1>3, <1>4, <1>8, <2>2, <2>3 DEF Rest
<1>11. CASE Discover
  <2>1. UNCHANGED <<pc, attempt>> /\ stop = ""
    BY <1>11 DEF Discover, Plug, BootInv, Placed
  <2>2. Storage'
    BY <1>2, <1>5, <1>7, <1>9, <2>1, AtStays DEF BootInv, Storage, Onward, Phase40
  <2>3. Stops'
    BY <1>2, <2>1 DEF Stops
  <2> QED BY <1>3, <1>4, <1>8, <2>2, <2>3 DEF Rest
<1> QED BY <1>10, <1>11

(* The step of phase 40 or 60 that builds the root; the scan is over. *)
LEMMA StorageSet ==
  ASSUME BootInv, UNCHANGED scanVars, UNCHANGED opts,
         ZramOverlay \/ TmpfsOverlay \/ MountSquashfs \/ MountOverlay \/ RunLiveConfig
           \/ SetupNewroot \/ ReleaseIsoTest
  PROVE  /\ UNCHANGED <<at, pid1, stop, pc, attempt, mnt, iso_mnt, found_dev, ventoy>>
         /\ stop = "" /\ pid1 = "init" /\ Later /\ Later' /\ ~First3' /\ ~Third'
         /\ step' \in {"squashfs", "debug2", "config", "newroot", "debug3", "switch"}
              \/ (step' = "loop" /\ last' \in {"zero", "nonzero"})
<1>1. step \in Phase40 \cup {"60"}
  BY DEF ZramOverlay, TmpfsOverlay, MountSquashfs, MountOverlay, RunLiveConfig, SetupNewroot,
         ReleaseIsoTest, Phase40
<1>2. stop = "" /\ pid1 = "init" /\ Later
  BY <1>1 DEF BootInv, Placed, Phase40
<1>3. UNCHANGED <<at, pid1, stop>>
  BY DEF ZramOverlay, TmpfsOverlay, MountSquashfs, MountOverlay, RunLiveConfig, SetupNewroot,
         ReleaseIsoTest, Continue, Return
<1>4. UNCHANGED <<pc, attempt, mnt, iso_mnt, found_dev, ventoy>>
  BY DEF scanVars, inputs, kernel, verdict
<1>5. step' \in {"squashfs", "debug2", "config", "newroot", "debug3", "switch"}
        \/ (step' = "loop" /\ last' \in {"zero", "nonzero"})
  BY DEF ZramOverlay, TmpfsOverlay, MountSquashfs, MountOverlay, RunLiveConfig, SetupNewroot,
         ReleaseIsoTest, Continue, Return
<1> QED BY <1>2, <1>3, <1>4, <1>5, AtStays, AtIsOne

LEMMA StorageStep ==
  ASSUME BootInv, UNCHANGED scanVars, UNCHANGED opts,
         ZramOverlay \/ TmpfsOverlay \/ MountSquashfs \/ MountOverlay \/ RunLiveConfig
           \/ SetupNewroot \/ ReleaseIsoTest
  PROVE  Rest'
<1>s. /\ UNCHANGED <<at, pid1, stop, pc, attempt, mnt, iso_mnt, found_dev, ventoy>>
      /\ stop = "" /\ pid1 = "init" /\ Later /\ Later' /\ ~First3' /\ ~Third'
      /\ step' \in {"squashfs", "debug2", "config", "newroot", "debug3", "switch"}
           \/ (step' = "loop" /\ last' \in {"zero", "nonzero"})
  BY StorageSet
<1>1. Placed' /\ Stops'
  BY <1>s DEF BootInv, Placed, Stops, Phase40
<1>2. ~Unscanned' /\ ~Unstored' /\ ~(Onward /\ Third)' /\ step' # "40"
      /\ (Complete' => step' = "switch" \/ (step' = "loop" /\ last' = "zero"))
  BY <1>s DEF Unscanned, Unstored, Onward, Complete
<1> SUFFICES Storage' /\ OnTheMedium' /\ Zram'
  BY <1>1 DEF Rest
<1> USE DEF Continue, Return
<1>3. CASE ZramOverlay
  <2>1. step = "40" /\ pc = "found" /\ Nothing /\ step' = "squashfs"
    BY <1>3 DEF ZramOverlay, BootInv, Storage, Unstored
  <2>2. Storage'
    BY <1>3, <1>s, <1>2, <2>1 DEF ZramOverlay, Storage, Stored, Nothing
  <2>3. OnTheMedium' /\ Zram'
    BY <1>3, <2>1 DEF ZramOverlay, ZramWanted, OnTheMedium, Zram, ZramKB, Nothing
  <2> QED BY <2>2, <2>3
<1>4. CASE TmpfsOverlay
  <2>1. step = "40" /\ pc = "found" /\ Nothing /\ overlay_type = "tmpfs"
    BY <1>4 DEF TmpfsOverlay, BootInv, Storage, Unstored
  <2>2. \/ upper' = "tmpfs" /\ step' = "squashfs"
        \/ upper' = "none" /\ step' = "loop" /\ last' = "nonzero"
    BY <1>4, <2>1 DEF TmpfsOverlay, Nothing
  <2>3. Storage'
    BY <1>4, <1>s, <1>2, <2>1, <2>2 DEF TmpfsOverlay, Storage, Stored, Nothing
  <2>4. OnTheMedium' /\ Zram'
    BY <1>4, <2>1, <2>2 DEF TmpfsOverlay, OnTheMedium, Zram, Nothing
  <2> QED BY <2>3, <2>4
<1>5. CASE MountSquashfs
  <2>1. step = "squashfs" /\ pc = "found" /\ Stored /\ ro_root = NoDev /\ overlay = "none"
        /\ config = "no" /\ UNCHANGED <<overlay_type, upper, overlay, config, zram_kb, opts>>
    BY <1>5 DEF MountSquashfs, BootInv, Storage
  <2>2. Stored'
    BY <2>1 DEF Stored
  <2>3. Zram'
    BY <2>1 DEF BootInv, Zram, ZramKB
  <2>4. CASE ro_root' = Top(iso_mnt) /\ step' = "debug2"
    <3>1. ro_root' # NoDev /\ ro_root' = Top(iso_mnt)'
      BY <2>1, <2>4, <1>s, MediumFound DEF BootInv, Top
    <3>2. Storage'
      BY <2>1, <2>2, <2>4, <3>1, <1>2 DEF Storage, Lower
    <3>3. OnTheMedium'
      BY <2>1, <3>1, <1>s DEF OnTheMedium
    <3> QED BY <2>3, <3>2, <3>3
  <2>5. CASE ro_root' = NoDev /\ step' = "loop" /\ last' = "nonzero"
    <3>1. Storage'
      BY <2>5, <1>2 DEF Storage
    <3> QED BY <2>3, <2>5, <3>1 DEF OnTheMedium
  <2> QED BY <1>5, <2>1, <2>4, <2>5 DEF MountSquashfs
<1>6. CASE MountOverlay
  <2>1. step = "overlay" /\ Lower /\ overlay = "none" /\ config = "no"
        /\ UNCHANGED <<overlay_type, upper, ro_root, config, zram_kb, opts>>
    BY <1>6 DEF MountOverlay, BootInv, Storage
  <2>2. \/ overlay' = overlay_type' /\ step' = "config"
        \/ step' = "loop" /\ last' = "nonzero"
    BY <1>6, <2>1 DEF MountOverlay
  <2>3. Lower'
    BY <2>1 DEF Lower, Stored
  <2>4. Storage'
    BY <2>1, <2>2, <2>3, <1>2 DEF Storage, Merged
  <2>5. Zram'
    BY <2>1 DEF BootInv, Zram, ZramKB
  <2>6. OnTheMedium'
    BY <2>1, <1>s DEF BootInv, OnTheMedium, Top
  <2> QED BY <2>4, <2>5, <2>6
<1>7. CASE RunLiveConfig
  <2>1. step = "config" /\ step' = "newroot" /\ Merged /\ config = "no"
        /\ UNCHANGED <<overlay_type, upper, ro_root, overlay, zram_kb, opts>>
    BY <1>7 DEF RunLiveConfig, BootInv, Storage
  <2>2. Merged'
    BY <2>1 DEF Merged, Lower, Stored
  <2>3. Chosen'
    BY <1>7, <2>1, <2>2 DEF RunLiveConfig, Chosen, Merged, Lower, Stored
  <2>4. Storage'
    BY <2>1, <2>3, <1>2 DEF Storage
  <2>5. Zram'
    BY <2>1 DEF BootInv, Zram, ZramKB
  <2>6. OnTheMedium'
    BY <2>1, <1>s DEF BootInv, OnTheMedium, Top
  <2> QED BY <2>4, <2>5, <2>6
<1>8. CASE SetupNewroot
  <2>1. step = "newroot" /\ Chosen
        /\ UNCHANGED <<overlay_type, upper, ro_root, overlay, zram_kb, opts, config>>
    BY <1>8 DEF SetupNewroot, BootInv, Storage
  <2>2. Chosen' /\ pc = "found" /\ ro_root = Top(iso_mnt)
    BY <2>1 DEF BootInv, OnTheMedium, Chosen, Merged, Lower, Stored
  <2>3. BindIsRight'
    <3>1. (IF Mounted(BoundPoint) THEN Top(BoundPoint) ELSE NoDev)
            = IF ventoy /\ found_dev \in Devices THEN NoDev ELSE Top(iso_mnt)
      BY <2>2, MediumFound DEF BootInv
    <3> QED BY <1>8, <1>s, <2>1, <2>2, <3>1 DEF SetupNewroot, BindIsRight
  <2>4. step' = "debug3" => Rooted'
    BY <1>8, <2>2, <2>3 DEF SetupNewroot, Rooted
  <2>5. step' = "debug3" \/ (step' = "loop" /\ last' = "nonzero")
    BY <1>8 DEF SetupNewroot
  <2>6. Storage'
    BY <2>4, <2>5, <1>2 DEF Storage
  <2>7. Zram'
    BY <2>1 DEF BootInv, Zram, ZramKB
  <2>8. OnTheMedium'
    BY <2>1, <1>s DEF BootInv, OnTheMedium, Top
  <2> QED BY <2>6, <2>7, <2>8
<1>9. CASE ReleaseIsoTest
  <2>1. step = "60" /\ step' = "switch" /\ UNCHANGED <<opts, storage, scanVars>> /\ Rooted
    BY <1>9 DEF ReleaseIsoTest, BootInv, Storage, Complete
  <2>2. Rooted' /\ OnTheMedium' /\ Zram'
    BY <2>1, StorageAlone DEF BootInv, Rest
  <2> QED BY <2>1, <2>2, <1>2 DEF Storage
<1> QED BY <1>3, <1>4, <1>5, <1>6, <1>7, <1>8, <1>9

LEMMA RestUnchanged == ASSUME Rest, UNCHANGED vars PROVE Rest'
<1>1. UNCHANGED <<opts, storage, scanVars>> /\ UNCHANGED <<step, at, last, pid1, stop>>
  BY DEF vars, bootVars, storage
<1>2. /\ OnTheMedium' /\ Zram'
      /\ (Nothing => Nothing') /\ (Stored => Stored') /\ (Lower => Lower')
      /\ (Merged => Merged') /\ (Chosen => Chosen') /\ (Rooted => Rooted')
      /\ UNCHANGED <<pc, attempt, ro_root, overlay, config, overlay_type, found_init>>
  BY <1>1, StorageAlone
<1>3. (Onward' <=> Onward) /\ (Unscanned' <=> Unscanned) /\ (Unstored' <=> Unstored)
      /\ (Complete' <=> Complete)
  BY <1>1, AtStays DEF Onward, Unscanned, Unstored, Complete
<1>4. Placed'
  BY <1>1, AtStays DEF Rest, Placed, Phase40
<1>5. Storage'
  BY <1>1, <1>2, <1>3, AtStays DEF Rest, Storage
<1>6. Stops'
  BY <1>1, <1>2 DEF Rest, Stops
<1> QED BY <1>2, <1>4, <1>5, <1>6 DEF Rest

-----------------------------------------------------------------------------
(* The invariant is inductive. *)
LEMMA BootInit == Init => BootInv
<1> SUFFICES ASSUME Init PROVE BootInv
  OBVIOUS
<1>1. ScanInv
  BY ScanInvInit DEF Init
<1>2. pc = "start" /\ attempt = 0 /\ found_dev = NoDev
  BY DEF Init, ScanInit
<1>3. VentoyOnly
  BY <1>2, ScanAssumption DEF VentoyOnly
<1>4. First3 /\ Nothing
  BY DEF Init, First3, Nothing
<1>5. Placed
  BY <1>4, BootsAssumption DEF Init, Placed, Phase40
<1>6. Storage /\ Stops
  BY <1>2, <1>4 DEF Init, Storage, Stops, Unscanned, Unstored, Complete, Onward
<1>7. OnTheMedium /\ Zram
  BY DEF Init, OnTheMedium, Zram
<1> QED BY <1>1, <1>3, <1>5, <1>6, <1>7 DEF BootInv

LEMMA BootNext == BootInv /\ [Next]_vars => BootInv'
<1> SUFFICES ASSUME BootInv, [Next]_vars PROVE BootInv'
  OBVIOUS
<1>1. [ScanNext]_scanVars
  BY ScanOrNot
<1>2. ScanInv' /\ VentoyOnly'
  BY <1>1, ScanInvStep, VentoyKept DEF BootInv, ScanInv
<1>3. Rest'
  <2>1. Rest
    BY DEF BootInv, Rest
  <2>2. CASE UNCHANGED vars
    BY <2>1, <2>2, RestUnchanged
  <2>3. CASE Scanning \/ Discover
    BY <2>3, ScanMoves
  <2>4. CASE ZramOverlay \/ TmpfsOverlay \/ MountSquashfs \/ MountOverlay \/ RunLiveConfig
             \/ SetupNewroot
    <3>1. UNCHANGED scanVars /\ UNCHANGED opts
      BY <2>4 DEF ZramOverlay, TmpfsOverlay, MountSquashfs, MountOverlay, RunLiveConfig,
                  SetupNewroot
    <3> QED BY <2>4, <3>1, StorageStep
  <2>5. CASE ReleaseIsoTest
    <3>1. pc = "found"
      BY <2>5 DEF ReleaseIsoTest, BootInv, Storage, Complete, Rooted, Chosen, Merged, Lower,
                  OnTheMedium
    <3>2. UNCHANGED scanVars /\ UNCHANGED opts
      BY <2>5, <3>1, ReleaseFreesNothing DEF ReleaseIsoTest, BootInv
    <3> QED BY <2>5, <3>2, StorageStep
  <2>6. CASE \/ ResolveMode \/ SourceLibs \/ EnterPhase \/ PhaseFailed \/ PhaseWithoutFailure
             \/ CheckRootfsHash \/ ScanReturns \/ Breakpoint2 \/ Breakpoint3 \/ SwitchRoot
             \/ Interrupt
    BY <2>1, <2>6, ControlStep
  <2> QED BY <2>2, <2>3, <2>4, <2>5, <2>6 DEF Next, Step
<1> QED BY <1>2, <1>3 DEF BootInv, Rest

LEMMA BootInvariant == Spec => []BootInv
BY BootInit, BootNext, PTL DEF Spec

-----------------------------------------------------------------------------
LEMMA ZramShare ==
  ASSUME NEW total \in Nat, total >= MinZramKB
  PROVE  /\ ZramKB(total) > 0 /\ 2 * ZramKB(total) <= total
         /\ ZramKB(total) <= MaxZramKB
<1>1. /\ total \div 3 \in Nat /\ 3 * (total \div 3) <= total /\ total < 3 * (total \div 3) + 3
      /\ total \div 2 \in Nat /\ 2 * (total \div 2) <= total /\ total < 2 * (total \div 2) + 2
  OBVIOUS
<1> QED BY <1>1 DEF ZramKB, MinZramKB, HalfFrom, MaxZramKB

(* Whatever the devices, ISO files and boot options are, PID 1 becomes the *)
(* system only on a complete root over a verified medium, with the user's  *)
(* choices in the overlay (init-live.sh:20-238 and 60-switch-root).        *)
THEOREM RootIsWhole == Spec => []SystemIsWhole
<1>1. BootInv => SystemIsWhole
  <2> SUFFICES ASSUME BootInv, pid1 = "system" PROVE SystemIsWhole
    BY DEF SystemIsWhole
  <2>1. Rooted
    BY DEF BootInv, Storage, Complete
  <2>2. ro_root # NoDev /\ GoodMedium(ro_root)
    BY <2>1, MediumFound DEF BootInv, OnTheMedium, Rooted, Chosen, Merged, Lower
  <2> QED BY <2>1, <2>2 DEF SystemIsWhole, Rooted, Chosen, Merged, Lower, Stored
<1> QED BY <1>1, BootInvariant, PTL

(* From the squashfs mount on, the medium under it is never unmounted nor  *)
(* its loop device freed, by the scan or by phase 60, and the new root     *)
(* binds the mount point the medium is on (init-live.sh:206-238,           *)
(* 60-switch-root:3-5).                                                    *)
THEOREM MediumIsKept == Spec => []MediumStaysInReach
<1>1. BootInv => MediumStaysInReach
  <2> SUFFICES ASSUME BootInv PROVE MediumStaysInReach
    OBVIOUS
  <2>1. ro_root # NoDev =>
          /\ Mounted(iso_mnt) /\ Top(iso_mnt) = ro_root
          /\ ro_root \in Isos => \E l \in LoopIds : loop[l] = ro_root
    BY MediumFound DEF BootInv, OnTheMedium
  <2>2. pid1 = "system" => BindIsRight
    BY DEF BootInv, Storage, Complete, Rooted
  <2> QED BY <2>1, <2>2 DEF MediumStaysInReach, BindIsRight
<1> QED BY <1>1, BootInvariant, PTL

(* A breakpoint leaves the user at the stage it names, however the boot    *)
(* came there (libexec/30-scan-devices:5, libexec/40-overlay:6-12).        *)
THEOREM BreakpointsKeepTheirStage == Spec => []BreakpointStages
<1>1. BootInv => BreakpointStages
  <2> SUFFICES ASSUME BootInv PROVE BreakpointStages
    OBVIOUS
  <2>1. stop = "debug1" => attempt = 0 /\ upper = "none" /\ ro_root = NoDev
    BY DEF BootInv, Stops, Nothing
  <2>2. stop = "debug2" => /\ upper # "none" /\ overlay = "none"
                           /\ ro_root # NoDev /\ GoodMedium(ro_root)
    BY MediumFound DEF BootInv, Stops, Lower, Stored, OnTheMedium
  <2>3. stop = "debug3" => /\ overlay # "none" /\ found_init # "none"
                           /\ opts.neoconfig => config = "overlay"
    BY DEF BootInv, Stops, Rooted, Chosen, Merged, Lower, Stored
  <2> QED BY <2>1, <2>2, <2>3 DEF BreakpointStages
<1> QED BY <1>1, BootInvariant, PTL

(* For every amount of memory: a zram store is at least one KB, at most    *)
(* 2 GiB and at most half of the memory (init-live.sh:23-29).              *)
THEOREM ZramIsBounded == Spec => []ZramLeavesMemory
<1>1. BootInv => ZramLeavesMemory
  <2> SUFFICES ASSUME BootInv, upper = "zram" PROVE ZramLeavesMemory
    BY DEF ZramLeavesMemory
  <2>1. opts.mem \in Nat /\ opts.mem >= MinZramKB /\ zram_kb = ZramKB(opts.mem)
    BY DEF BootInv, Zram, Placed, Options
  <2> QED BY <2>1, ZramShare DEF ZramLeavesMemory
<1> QED BY <1>1, BootInvariant, PTL

-----------------------------------------------------------------------------
(* The boot runs as MicroInit says.  Which phase is entered when, and what *)
(* the breakpoints passed so far say of initrd_debug.                      *)
Track ==
  /\ at \in 0..6 /\ step \in Steps
  /\ step = "10" => at = 1
  /\ step = "20" => at = 2
  /\ step \in {"30", "scan"} => at = 3
  /\ step \in Phase40 => at = 4
  /\ step = "50" => at = 5
  /\ step \in {"60", "switch"} => at = 6
  /\ step = "scan" => opts.dbg # 1
  /\ step \in {"overlay", "config", "newroot", "debug3"} => opts.dbg # 2

LEMMA TrackInit == Init => Track
<1> SUFFICES ASSUME step = "mode", at = 0 PROVE Track
  BY DEF Init
<1> QED BY DEF Track, Phase40, Steps

LEMMA TrackNext == Track /\ [Next]_vars => Track'
<1> SUFFICES ASSUME Track, [Next]_vars PROVE Track'
  OBVIOUS
<1> USE DEF Track, Phase40, Steps, Continue, Return, Shell
<1>1. CASE EnterPhase
  <2>1. at' = at + 1 /\ step' = FirstStep[at + 1] /\ at \in {0, 1, 2, 3, 4, 5} /\ UNCHANGED opts
    BY <1>1, PhasesInOrder DEF EnterPhase
  <2>2. at' \in 1..6 /\ step' = CASE at' = 1 -> "10" [] at' = 2 -> "20" [] at' = 3 -> "30"
                                  [] at' = 4 -> "40" [] at' = 5 -> "50" [] at' = 6 -> "60"
    BY <2>1, PhasesInOrder
  <2> QED BY <2>2
<1>2. CASE ResolveMode \/ SourceLibs \/ PhaseFailed \/ PhaseWithoutFailure \/ CheckRootfsHash
           \/ Scanning \/ ScanReturns
  BY <1>2 DEF ResolveMode, SourceLibs, PhaseFailed, PhaseWithoutFailure, CheckRootfsHash, Scanning,
              ScanReturns, bootVars
<1>3. CASE ZramOverlay \/ TmpfsOverlay \/ MountSquashfs \/ Breakpoint2 \/ MountOverlay
  BY <1>3 DEF ZramOverlay, TmpfsOverlay, MountSquashfs, Breakpoint2, MountOverlay
<1>4. CASE RunLiveConfig \/ SetupNewroot \/ Breakpoint3 \/ ReleaseIsoTest \/ SwitchRoot
           \/ Interrupt \/ Discover \/ UNCHANGED vars
  BY <1>4 DEF RunLiveConfig, SetupNewroot, Breakpoint3, ReleaseIsoTest, SwitchRoot, Interrupt,
              Discover, bootVars, vars
<1> QED BY <1>1, <1>2, <1>3, <1>4 DEF Next, Step

LEMMA PhaseNames ==
  /\ Len(Orchestrator!LibExec) = 7
  /\ \A n \in 1..7 :
       Orchestrator!LibExec[n] =
         CASE n = 1 -> "10-mount-basic" [] n = 2 -> "20-load-modules" [] n = 3 -> "30-scan-devices"
           [] n = 4 -> "40-overlay" [] n = 5 -> "50-network" [] n = 6 -> "60-switch-root"
           [] n = 7 -> "99-hooks"
BY DEF Orchestrator!LibExec

LEMMA OrchestratorStep == Track /\ [Next]_vars => [Orchestrator!Next]_(Orchestrator!vars)
<1> SUFFICES ASSUME Track, [Next]_vars PROVE [Orchestrator!Next]_(Orchestrator!vars)
  OBVIOUS
<1> USE DEF Continue, Return, Shell, Orchestrator!inputs, Orchestrator!vars,
            Orchestrator!Becomes, Orchestrator!Returns
<1>1. CASE ResolveMode
  BY <1>1 DEF ResolveMode, Orchestrator!ResolveMode, Orchestrator!ResolvedMode,
              Orchestrator!Next, Orchestrator!Step
<1>2. CASE SourceLibs
  BY <1>2 DEF SourceLibs, Orchestrator!SourceLibs, Orchestrator!Next, Orchestrator!Step
<1>3. CASE EnterPhase
  <2>1. step' \in {"10", "20", "30", "40", "50", "60"}
    BY <1>3, PhasesInOrder DEF EnterPhase, Track
  <2>2. /\ step = "loop" /\ last = "zero" /\ at < 7 /\ at' = at + 1 /\ last' = "none"
        /\ UNCHANGED <<opts, pid1, libs>>
    BY <1>3, PhasesInOrder DEF EnterPhase, Track
  <2>3. Orchestrator!EnterPhase
    BY <2>1, <2>2, PhaseNames DEF Orchestrator!EnterPhase
  <2> QED BY <2>3 DEF Orchestrator!Next, Orchestrator!Step
<1>4. CASE PhaseFailed
  BY <1>4 DEF PhaseFailed, Orchestrator!PhaseFailed, Orchestrator!Next, Orchestrator!Step
<1>5. CASE Interrupt
  BY <1>5 DEF Interrupt, Orchestrator!Interrupt, Orchestrator!Next
<1>6. CASE PhaseWithoutFailure
  <2>1. \/ step = "10" /\ Orchestrator!Running("10-mount-basic")
        \/ step = "20" /\ Orchestrator!Running("20-load-modules")
        \/ step = "50" /\ Orchestrator!Running("50-network")
    BY <1>6, PhaseNames DEF PhaseWithoutFailure, Track, Orchestrator!Running, Orchestrator!Phase
  <2>2. Orchestrator!Returns("zero")
    BY <1>6 DEF PhaseWithoutFailure
  <2> QED BY <2>1, <2>2 DEF Orchestrator!MountBasic, Orchestrator!LoadModules,
                            Orchestrator!Network, Orchestrator!Next, Orchestrator!Step
<1>7. CASE CheckRootfsHash \/ ScanReturns
  <2>1. Orchestrator!Running("30-scan-devices")
    BY <1>7, PhaseNames DEF CheckRootfsHash, ScanReturns, Track, Orchestrator!Running,
                            Orchestrator!Phase
  <2>2. CASE CheckRootfsHash
    <3>1. CASE step' = "scan"
      BY <2>2, <3>1 DEF CheckRootfsHash
    <3>2. CASE step' # "scan"
      <4>1. Orchestrator!Returns("nonzero") \/ (opts.dbg = 1 /\ Orchestrator!Becomes("shell"))
        BY <2>2, <3>2 DEF CheckRootfsHash
      <4> QED BY <2>1, <4>1 DEF Orchestrator!ScanDevices, Orchestrator!Next, Orchestrator!Step
    <3> QED BY <3>1, <3>2
  <2>3. CASE ScanReturns
    <3>1. Orchestrator!Returns("nonzero") \/ (opts.dbg # 1 /\ Orchestrator!Returns("zero"))
      BY <2>3 DEF ScanReturns, Track
    <3> QED BY <2>1, <3>1 DEF Orchestrator!ScanDevices, Orchestrator!Next, Orchestrator!Step
  <2> QED BY <1>7, <2>2, <2>3
<1>8. CASE \/ ZramOverlay \/ TmpfsOverlay \/ MountSquashfs \/ Breakpoint2 \/ MountOverlay
           \/ RunLiveConfig \/ SetupNewroot \/ Breakpoint3
  <2>1. Orchestrator!Running("40-overlay") /\ step \in Phase40
    BY <1>8, PhaseNames DEF ZramOverlay, TmpfsOverlay, MountSquashfs, Breakpoint2, MountOverlay,
                            RunLiveConfig, SetupNewroot, Breakpoint3, Track, Phase40,
                            Orchestrator!Running, Orchestrator!Phase
  <2>2. \/ step' \in Phase40 /\ UNCHANGED <<opts, at, last, pid1, libs>>
        \/ Orchestrator!Returns("nonzero")
        \/ opts.dbg \in {2, 3} /\ Orchestrator!Becomes("shell")
        \/ opts.dbg \notin {2, 3} /\ Orchestrator!Returns("zero")
    BY <1>8 DEF ZramOverlay, TmpfsOverlay, MountSquashfs, Breakpoint2, MountOverlay,
                RunLiveConfig, SetupNewroot, Breakpoint3, Track, Phase40
  <2>3. CASE step' \in Phase40 /\ UNCHANGED <<opts, at, last, pid1, libs>>
    BY <2>1, <2>3 DEF Phase40
  <2> QED BY <2>1, <2>2, <2>3 DEF Orchestrator!Overlay, Orchestrator!Next, Orchestrator!Step
<1>9. CASE SwitchRoot
  <2>1. Orchestrator!Running("60-switch-root")
    BY <1>9, PhaseNames DEF SwitchRoot, Track, Orchestrator!Running, Orchestrator!Phase
  <2>2. Orchestrator!Becomes("system")
    BY <1>9 DEF SwitchRoot
  <2> QED BY <2>1, <2>2 DEF Orchestrator!SwitchLive, Orchestrator!SwitchRootPhase,
                            Orchestrator!Next, Orchestrator!Step
<1>10. CASE Scanning \/ ReleaseIsoTest \/ Discover \/ UNCHANGED vars
  BY <1>10 DEF Scanning, ReleaseIsoTest, Discover, vars, bootVars
<1> QED BY <1>1, <1>2, <1>3, <1>4, <1>5, <1>6, <1>7, <1>8, <1>9, <1>10 DEF Next, Step

(* All the detail of the live profile ends its phases only the ways the    *)
(* orchestrator knows, whatever is plugged in, altered or fails            *)
(* (initramfs/init:41-46 with libexec/10 to 60).                           *)
THEOREM ImplementsMicroInit == Spec => RunsAsMicroInit
<1>1. Init => Orchestrator!Init
  BY BootsAssumption DEF Init, Options, Orchestrator!Init
<1> QED
  BY <1>1, TrackInit, TrackNext, OrchestratorStep, PTL DEF Spec, RunsAsMicroInit, Orchestrator!Spec

-----------------------------------------------------------------------------
(* The scan that runs inside the boot is LiveScan: no other phase, and no  *)
(* shell PID 1 becomes, moves anything of it, phase 60's umount of         *)
(* /mnt/iso_test included (init-live.sh:66-171, 60-switch-root:3-5).       *)
THEOREM ScansAsLiveScan == Spec => ScanSpec
<1>1. Init => ScanInit
  BY DEF Init
<1>2. BootInv /\ [Next]_vars => [ScanNext]_scanVars
  BY ScanOrNot
<1> QED BY <1>1, <1>2, BootInvariant, PTL DEF Spec, ScanSpec

(* The medium a boot goes on with is the first good one, where the loop    *)
(* devices suffice for the ISO files (init-live.sh:74-169).                *)
THEOREM BootsFirstGood == EnoughLoops => (Spec => ChoosesFirstGood)
BY ScansAsLiveScan, ImplementsChoice

-----------------------------------------------------------------------------
(* The boot ends: each step lowers BootLeft. *)

LEMMA Appended ==
  ASSUME NEW a \in Nat, NEW b \in Nat, NEW s \in Seq(Nat), NEW S, S = <<a, b>> \o s
  PROVE  /\ Len(S) = Len(s) + 2 /\ Len(s) \in Nat
         /\ S[1] = a /\ S[2] = b
         /\ \A i \in 1..Len(s) : S[i + 2] = s[i]
OBVIOUS

(* Two more parts in front of a measure. *)
LEMMA InFront ==
  ASSUME NEW a \in Nat, NEW b \in Nat, NEW c \in Nat, NEW d \in Nat,
         NEW s \in Seq(Nat), NEW t \in Seq(Nat), Len(s) = Len(t),
         c < a \/ (c = a /\ d < b) \/ (c = a /\ d = b /\ Precedes(s, t))
  PROVE  Precedes(<<c, d>> \o s, <<a, b>> \o t)
<1> DEFINE S == <<c, d>> \o s
           T == <<a, b>> \o t
<1>1. S = <<c, d>> \o s /\ T = <<a, b>> \o t
  OBVIOUS
<1> SUFFICES Precedes(S, T)
  OBVIOUS
<1> HIDE DEF S, T
<1>2. S[1] = c /\ S[2] = d /\ \A i \in 1..Len(s) : S[i + 2] = s[i]
  BY <1>1, Appended
<1>3. /\ Len(T) = Len(t) + 2 /\ Len(t) \in Nat
      /\ T[1] = a /\ T[2] = b /\ \A i \in 1..Len(t) : T[i + 2] = t[i]
  BY <1>1, Appended
<1>4. /\ Len(T) = Len(t) + 2 /\ Len(t) \in Nat
      /\ S[1] = c /\ S[2] = d /\ T[1] = a /\ T[2] = b
      /\ \A i \in 1..Len(t) : S[i + 2] = s[i] /\ T[i + 2] = t[i]
  BY <1>2, <1>3
<1>5. CASE c < a
  BY <1>4, <1>5 DEF Precedes
<1>6. CASE c = a /\ d < b
  BY <1>4, <1>6 DEF Precedes
<1>7. CASE c = a /\ d = b /\ Precedes(s, t)
  <2>1. PICK i \in 1..Len(t) : s[i] < t[i] /\ \A j \in 1..(i - 1) : s[j] = t[j]
    BY <1>7 DEF Precedes
  <2>2. i + 2 \in 1..Len(T) /\ S[i + 2] < T[i + 2]
    BY <1>4, <2>1
  <2>3. ASSUME NEW j \in 1..(i + 2 - 1) PROVE S[j] = T[j]
    <3>1. CASE j \in {1, 2}
      BY <1>4, <1>7, <3>1
    <3>2. CASE j \notin {1, 2}
      <4> DEFINE k == j - 2
      <4>1. k \in 1..(i - 1) /\ k \in 1..Len(t) /\ k + 2 = j
        BY <1>4, <2>1, <3>2
      <4> HIDE DEF k
      <4>2. S[k + 2] = s[k] /\ T[k + 2] = t[k] /\ s[k] = t[k]
        BY <1>4, <2>1, <4>1
      <4> QED BY <4>1, <4>2
    <3> QED BY <3>1, <3>2
  <2>4. \A j \in 1..(i + 2 - 1) : S[j] = T[j]
    BY <2>3
  <2> QED BY <2>2, <2>4 DEF Precedes
<1> QED BY <1>5, <1>6, <1>7, Zenon

LEMMA BootLeftType == ASSUME ScanInv, Track PROVE IsMeasure(BootLeft)
<1>1. PhaseCount - at \in Nat /\ StepsLeft \in Nat
  BY DEF Track, PhaseCount, StepsLeft
<1>2. ScanLeft \in Seq(Nat)
  BY LeftMeasure DEF IsMeasure
<1> QED BY <1>1, <1>2 DEF BootLeft, IsMeasure

LEMMA BootStepAdvances ==
  ASSUME BootInv, BootInv', Track, Track', Next
  PROVE  IF present' = present THEN Precedes(BootLeft', BootLeft) ELSE BootLeft' = BootLeft
<1>1. /\ PhaseCount - at \in Nat /\ StepsLeft \in Nat
      /\ PhaseCount - at' \in Nat /\ StepsLeft' \in Nat /\ at \in Int /\ at' \in Int
  BY DEF Track, PhaseCount, StepsLeft
<1>2. ScanLeft \in Seq(Nat) /\ ScanLeft' \in Seq(Nat) /\ Len(ScanLeft) = Len(ScanLeft')
  <2>1. IsMeasure(ScanLeft) /\ IsMeasure(ScanLeft)'
    BY LeftMeasure, PTL DEF BootInv
  <2>2. Len(ScanLeft) = 6 /\ Len(ScanLeft') = 6
    BY DEF ScanLeft
  <2> QED BY <2>1, <2>2 DEF IsMeasure
<1>3. ASSUME \/ at' > at
             \/ at' = at /\ StepsLeft' < StepsLeft
             \/ at' = at /\ StepsLeft' = StepsLeft /\ Precedes(ScanLeft', ScanLeft)
      PROVE  Precedes(BootLeft', BootLeft)
  <2>1. \/ PhaseCount - at' < PhaseCount - at
        \/ PhaseCount - at' = PhaseCount - at /\ StepsLeft' < StepsLeft
        \/ /\ PhaseCount - at' = PhaseCount - at /\ StepsLeft' = StepsLeft
           /\ Precedes(ScanLeft', ScanLeft)
    <3>1. at' > at => PhaseCount - at' < PhaseCount - at
      <4>1. at \in 0..6 /\ at' \in 0..6
        BY DEF Track
      <4>2. \A m, n \in 0..6 : m > n => PhaseCount - m < PhaseCount - n
        BY DEF PhaseCount
      <4> QED BY <4>1, <4>2
    <3> QED BY <1>3, <3>1, Zenon
  <2> QED BY <1>1, <1>2, <2>1, InFront DEF BootLeft
<1>4. CASE Scanning
  <2>1. ScanStep /\ at' = at /\ StepsLeft' = StepsLeft
    BY <1>4 DEF Scanning, bootVars, StepsLeft
  <2>2. present' = present /\ Precedes(ScanLeft', ScanLeft)
    BY <2>1, ScanStepAdvances DEF BootInv
  <2> QED BY <1>3, <2>1, <2>2
<1>5. CASE Discover
  <2>1. present' # present /\ ScanLeft' = ScanLeft /\ UNCHANGED bootVars
    BY <1>5, PlugKeepsLeft DEF Discover
  <2> QED BY <2>1 DEF bootVars, BootLeft, StepsLeft
<1>6. CASE EnterPhase
  <2>1. at' = at + 1 /\ UNCHANGED scanVars
    BY <1>6 DEF EnterPhase
  <2> QED BY <1>1, <1>3, <2>1 DEF scanVars
<1>7. CASE ~Scanning /\ ~Discover /\ ~EnterPhase
  <2>1. present' = present
    BY <1>7 DEF Next, Step, scanVars, ResolveMode, SourceLibs, PhaseFailed, PhaseWithoutFailure,
                CheckRootfsHash, ScanReturns, ZramOverlay, TmpfsOverlay, MountSquashfs, Breakpoint2,
                MountOverlay, RunLiveConfig, SetupNewroot, Breakpoint3, ReleaseIsoTest, SwitchRoot,
                Interrupt
  <2>2. at' = at
    BY <1>7 DEF Next, Step, Continue, Return, Shell, ResolveMode, SourceLibs, PhaseFailed,
                PhaseWithoutFailure, CheckRootfsHash, ScanReturns, ZramOverlay, TmpfsOverlay,
                MountSquashfs, Breakpoint2, MountOverlay, RunLiveConfig, SetupNewroot, Breakpoint3,
                ReleaseIsoTest, SwitchRoot, Interrupt
  <2>3. StepsLeft' < StepsLeft
    <3> USE DEF Continue, Return, Shell, StepsLeft
    <3>1. CASE ResolveMode \/ SourceLibs \/ PhaseFailed \/ PhaseWithoutFailure \/ CheckRootfsHash
               \/ ScanReturns
      BY <3>1 DEF ResolveMode, SourceLibs, PhaseFailed, PhaseWithoutFailure, CheckRootfsHash,
                  ScanReturns
    <3>2. CASE ZramOverlay \/ TmpfsOverlay \/ MountSquashfs \/ Breakpoint2 \/ MountOverlay
               \/ RunLiveConfig \/ SetupNewroot \/ Breakpoint3
      BY <3>2 DEF ZramOverlay, TmpfsOverlay, MountSquashfs, Breakpoint2, MountOverlay,
                  RunLiveConfig, SetupNewroot, Breakpoint3
    <3>3. CASE ReleaseIsoTest \/ SwitchRoot
      BY <3>3 DEF ReleaseIsoTest, SwitchRoot
    <3>4. CASE Interrupt
      BY <3>4 DEF Interrupt, Track, Steps
    <3> QED BY <1>7, <3>1, <3>2, <3>3, <3>4 DEF Next, Step
  <2> QED BY <1>3, <2>1, <2>2, <2>3
<1> QED BY <1>4, <1>5, <1>6, <1>7

(* Every boot of the live profile ends, whatever devices, contents, options *)
(* and failures: each step of PID 1 or of the user lowers a tuple of       *)
(* naturals, a device that appears leaves it (initramfs/init:41-46 with     *)
(* libexec/10 to 60 and init-live.sh).                                     *)
THEOREM BootTerminates == Spec => BootAdvances
<1>1. BootInv /\ BootInv' /\ Track /\ Track' /\ [Next]_vars =>
        [ /\ IsMeasure(BootLeft')
          /\ IF present' = present THEN Precedes(BootLeft', BootLeft)
             ELSE BootLeft' = BootLeft ]_vars
  <2> SUFFICES ASSUME BootInv, BootInv', Track, Track', Next
               PROVE  /\ IsMeasure(BootLeft')
                      /\ IF present' = present THEN Precedes(BootLeft', BootLeft)
                         ELSE BootLeft' = BootLeft
    OBVIOUS
  <2>1. IsMeasure(BootLeft)'
    BY BootLeftType, PTL DEF BootInv
  <2> QED BY <2>1, BootStepAdvances
<1> QED BY <1>1, BootInvariant, TrackInit, TrackNext, PTL DEF Spec, BootAdvances

-----------------------------------------------------------------------------
(* What is proved of the orchestrator holds of the boot: MicroInit with    *)
(* its theorems, over the state of this boot, as Orchestrator is.          *)
Pid1 == INSTANCE MicroInit_proofs WITH
  Markers  <- {"embedded"},
  NoMarker <- "no marker",
  flags    <- {},
  marker   <- "no marker",
  dbg      <- opts.dbg,
  hooks    <- "empty",
  mode     <- "live",
  target   <- TRUE,
  pc       <- IF step \in {"mode", "libs", "loop", "over"} THEN step ELSE "phase"

LEMMA SameEndings ==
  /\ \A s : Orchestrator!Returns(s) <=> Pid1!Returns(s)
  /\ \A s : Orchestrator!Becomes(s) <=> Pid1!Becomes(s)
  /\ \A p : Orchestrator!Running(p) <=> Pid1!Running(p)
BY DEF Orchestrator!Returns, Pid1!Returns, Orchestrator!Becomes, Pid1!Becomes,
       Orchestrator!Running, Pid1!Running, Orchestrator!inputs, Pid1!inputs,
       Orchestrator!LibExec, Pid1!LibExec, Orchestrator!Phase, Pid1!Phase

LEMMA SameSteps == Orchestrator!Next <=> Pid1!Next
<1>1. /\ Orchestrator!ResolveMode <=> Pid1!ResolveMode
      /\ Orchestrator!SourceLibs <=> Pid1!SourceLibs
  BY SMT
     DEF Orchestrator!ResolveMode, Pid1!ResolveMode, Orchestrator!ResolvedMode,
         Pid1!ResolvedMode, Orchestrator!SourceLibs, Pid1!SourceLibs, Orchestrator!inputs,
         Pid1!inputs
<1>2. /\ Orchestrator!EnterPhase <=> Pid1!EnterPhase
      /\ Orchestrator!PhaseFailed <=> Pid1!PhaseFailed
      /\ Orchestrator!LoopEnds <=> Pid1!LoopEnds
      /\ Orchestrator!Interrupt <=> Pid1!Interrupt
  BY SameEndings, Zenon
     DEF Orchestrator!EnterPhase, Pid1!EnterPhase, Orchestrator!PhaseFailed,
         Pid1!PhaseFailed, Orchestrator!LoopEnds, Pid1!LoopEnds, Orchestrator!Interrupt,
         Pid1!Interrupt, Orchestrator!LibExec, Pid1!LibExec, Orchestrator!inputs,
         Pid1!inputs
<1>3. /\ Orchestrator!MountBasic <=> Pid1!MountBasic
      /\ Orchestrator!LoadModules <=> Pid1!LoadModules
      /\ Orchestrator!Network <=> Pid1!Network
      /\ Orchestrator!UserHooks <=> Pid1!UserHooks
  BY SameEndings, Zenon
     DEF Orchestrator!MountBasic, Pid1!MountBasic, Orchestrator!LoadModules,
         Pid1!LoadModules, Orchestrator!Network, Pid1!Network, Orchestrator!UserHooks,
         Pid1!UserHooks
<1>4. /\ Orchestrator!ScanDevices <=> Pid1!ScanDevices
      /\ Orchestrator!Overlay <=> Pid1!Overlay
  BY SameEndings, Zenon
     DEF Orchestrator!ScanDevices, Pid1!ScanDevices, Orchestrator!Overlay, Pid1!Overlay
<1>5. /\ Orchestrator!SwitchLive <=> Pid1!SwitchLive
      /\ Orchestrator!EndInShell <=> Pid1!EndInShell
      /\ Orchestrator!SwitchDisk <=> Pid1!SwitchDisk
      /\ Orchestrator!NoBranch <=> Pid1!NoBranch
  BY SameEndings, Zenon
     DEF Orchestrator!SwitchLive, Pid1!SwitchLive, Orchestrator!EndInShell, Pid1!EndInShell,
         Orchestrator!SwitchDisk, Pid1!SwitchDisk, Orchestrator!NoBranch, Pid1!NoBranch,
         Orchestrator!ShellModes, Pid1!ShellModes, Orchestrator!KnownModes, Pid1!KnownModes
<1>6. Orchestrator!SwitchRootPhase <=> Pid1!SwitchRootPhase
  BY SameEndings, <1>5, Zenon
     DEF Orchestrator!SwitchRootPhase, Pid1!SwitchRootPhase
<1> QED
  BY <1>1, <1>2, <1>3, <1>4, <1>6, Zenon
     DEF Orchestrator!Next, Pid1!Next, Orchestrator!Step, Pid1!Step

(* Every boot of the live profile, in all its detail, keeps the runtime    *)
(* contract of the phases (HOOKS-AND-PHASES.md): no phase starts after one *)
(* that failed, PID 1 is handed over once, and to a system only by phase   *)
(* 60 (initramfs/init:41-46).                                              *)
THEOREM LiveHonoursContract == Spec => Pid1!HonoursContract
<1>1. Orchestrator!Init => Pid1!Init
  BY DEF Orchestrator!Init, Pid1!Init
<1>2. [Orchestrator!Next]_(Orchestrator!vars) => [Pid1!Next]_(Pid1!vars)
  <2>1. UNCHANGED Orchestrator!vars => UNCHANGED Pid1!vars
    BY DEF Orchestrator!vars, Pid1!vars
  <2> QED BY <2>1, SameSteps
<1>3. Orchestrator!Spec => Pid1!Spec
  BY <1>1, <1>2, PTL DEF Orchestrator!Spec, Pid1!Spec
<1>4. Pid1!Spec => Pid1!HonoursContract
  <2>1. Pid1!MarkersAssumption
    BY DEF Pid1!MarkersAssumption, Pid1!KnownModes, Pid1!ShellModes
  <2> QED BY <2>1, Pid1!ImplementsContract
<1> QED BY <1>3, <1>4, ImplementsMicroInit, PTL DEF RunsAsMicroInit

=============================================================================
