------------------------------ MODULE LiveBoot ------------------------------
(***************************************************************************)
(* The live profile from the first phase to switch_root: phases 10 to 60   *)
(* of initramfs/libexec with the functions of initramfs/lib/init-live.sh.  *)
(* The media scan of phase 30 is LiveScan's, step by step; its mounts and  *)
(* loop devices are the ones the later phases build the new root on.       *)
(* Commands the script lets fail may fail here; whatever a failure leaves  *)
(* behind stays.                                                           *)
(***************************************************************************)
EXTENDS LiveScan

CONSTANT Boots    \* the ways the machine may be booted, as in Options

VARIABLES
  opts,           \* how this machine is booted
  (* the script *)
  step, at, last, pid1,
  libs,           \* the libraries sourced
  stop,           \* why PID 1 became a shell
  overlay_type,   \* OVERLAY_TYPE
  found_init,     \* INIT
  (* the kernel *)
  upper,          \* the writable store mounted: "none", "tmpfs" or "zram"
  zram_kb,        \* disksize of zram0
  ro_root,        \* the medium whose squashfs is on /mnt/ro_root
  overlay,        \* the store the overlay on /mnt/newroot writes to
  iso_bind,       \* what /mnt/newroot/mnt/iso shows
  config          \* where live-config.sh wrote

bootVars == <<step, at, last, pid1, libs, stop, overlay_type, found_init, upper,
              zram_kb, ro_root, overlay, iso_bind, config>>
storage  == <<overlay_type, found_init, upper, zram_kb, ro_root, overlay,
              iso_bind, config>>
vars     == <<opts, bootVars, scanVars>>

PhaseCount == 7

(* zram=1, neoconfig=1 and initrd_debug on the command line; is there a     *)
(* /rootfs.sha256 in the initramfs; MemTotal in KB; the init in the squashfs *)
Options == [zram : BOOLEAN, neoconfig : BOOLEAN, dbg : 0..3, hashfile : BOOLEAN,
            mem : Nat, init : {"systemd", "sysvinit", "none"}]

ASSUME BootsAssumption == Boots \subseteq Options

Steps == {"mode", "libs", "loop", "10", "20", "30", "scan", "40", "squashfs",
          "debug2", "overlay", "config", "newroot", "debug3", "50", "60",
          "switch", "over"}

TypeOK ==
  /\ ScanTypeOK
  /\ opts \in Options
  /\ step \in Steps
  /\ at \in 0..PhaseCount
  /\ last \in {"none", "zero", "nonzero"}
  /\ pid1 \in {"init", "shell", "system"}
  /\ libs \in SUBSET {"live"}
  /\ stop \in {"", "emergency", "sigint", "debug1", "debug2", "debug3"}
  /\ overlay_type \in {"tmpfs", "zram"}
  /\ found_init \in {"none", "systemd", "sysvinit"}
  /\ upper \in {"none", "tmpfs", "zram"}
  /\ zram_kb \in Nat
  /\ ro_root \in Sources \cup {NoDev}
  /\ overlay \in {"none", "tmpfs", "zram"}
  /\ iso_bind \in Sources \cup {NoDev}
  /\ config \in {"no", "overlay", "initramfs"}

Init ==
  /\ ScanInit
  /\ opts \in Boots
  /\ libs = {}
  /\ step = "mode" /\ at = 0 /\ last = "zero" /\ pid1 = "init" /\ stop = ""
  /\ overlay_type = "tmpfs" /\ found_init = "none"
  /\ upper = "none" /\ zram_kb = 0 /\ ro_root = NoDev /\ overlay = "none"
  /\ iso_bind = NoDev /\ config = "no"

-----------------------------------------------------------------------------
(* How a step of a phase goes on: to the next one, back to the loop with a *)
(* status, or never, because PID 1 execs a shell.                          *)

Continue(next) == step' = next /\ UNCHANGED <<at, last, pid1, libs, stop>>

Return(status) ==
  /\ last' = status
  /\ step' = "loop"
  /\ UNCHANGED <<at, pid1, libs, stop>>

Shell(reason) ==
  /\ pid1' = "shell"
  /\ stop' = reason
  /\ step' = "over"
  /\ UNCHANGED <<at, last, libs>>

-----------------------------------------------------------------------------
(* init: the mode and its library, then the phase loop. *)

ResolveMode ==
  /\ step = "mode"
  /\ Continue("libs")
  /\ UNCHANGED <<opts, storage, scanVars>>

SourceLibs ==
  /\ step = "libs"
  /\ libs' = {"live"}
  /\ step' = "loop"
  /\ UNCHANGED <<opts, at, last, pid1, stop, storage, scanVars>>

(* The first step of each phase that does work in the live profile. *)
FirstStep == <<"10", "20", "30", "40", "50", "60">>

EnterPhase ==
  /\ step = "loop" /\ last = "zero"
  /\ at < Len(FirstStep)
  /\ at' = at + 1
  /\ last' = "none"
  /\ step' = FirstStep[at + 1]
  /\ UNCHANGED <<opts, pid1, libs, stop, storage, scanVars>>

PhaseFailed ==
  /\ step = "loop" /\ last = "nonzero"
  /\ Shell("emergency")
  /\ UNCHANGED <<opts, storage, scanVars>>

(* Phases that only prepare /dev and the modules, or are not for live. *)
PhaseWithoutFailure ==
  /\ step \in {"10", "20", "50"}
  /\ Return("zero")
  /\ UNCHANGED <<opts, storage, scanVars>>

-----------------------------------------------------------------------------
(* Phase 30. *)

(* A faulty variant: level 1 does not stop. *)
CheckRootfsHashOnly ==
  /\ step = "30"
  /\ IF opts.hashfile THEN Continue("scan") ELSE Return("nonzero")
  /\ UNCHANGED <<opts, storage, scanVars>>

(* check_rootfs_hash, the level 1 breakpoint, detect_ventoy. *)
CheckRootfsHash ==
  /\ step = "30"
  /\ IF ~opts.hashfile THEN Return("nonzero")
     ELSE IF opts.dbg = 1 THEN Shell("debug1")
     ELSE Continue("scan")
  /\ UNCHANGED <<opts, storage, scanVars>>

Scanning ==
  /\ step = "scan"
  /\ ScanStep
  /\ UNCHANGED <<opts, bootVars>>

ScanReturns ==
  /\ step = "scan"
  /\ \/ pc = "found"   /\ Return("zero")
     \/ pc = "missing" /\ Return("nonzero")
  /\ UNCHANGED <<opts, storage, scanVars>>

-----------------------------------------------------------------------------
(* Phase 40. *)

MinZramKB == 262144
HalfFrom  == 4194304
MaxZramKB == 2097152

(* A faulty variant: no upper bound. *)
ZramKBUncapped(total) == IF total < HalfFrom THEN total \div 3 ELSE total \div 2

(* Lines 23-29: a third of the memory, half from 4 GiB on, at most 2 GiB. *)
ZramKB(total) ==
  LET share == IF total < HalfFrom THEN total \div 3 ELSE total \div 2
  IN IF share > MaxZramKB THEN MaxZramKB ELSE share

ZramWanted == opts.zram /\ opts.mem >= MinZramKB

(* zram wins if every command up to the mount succeeds. *)
ZramOverlay ==
  /\ step = "40" /\ ZramWanted
  /\ upper' = "zram" /\ zram_kb' = ZramKB(opts.mem) /\ overlay_type' = "zram"
  /\ Continue("squashfs")
  /\ UNCHANGED <<opts, found_init, ro_root, overlay, iso_bind, config, scanVars>>

(* No zram, or it failed, perhaps after its size was set: tmpfs, if that   *)
(* mounts.                                                                 *)
TmpfsOverlay ==
  /\ step = "40"
  /\ zram_kb' = 0 \/ (ZramWanted /\ zram_kb' = ZramKB(opts.mem))
  /\ \/ upper' = "tmpfs" /\ Continue("squashfs")
     \/ UNCHANGED upper /\ Return("nonzero")
  /\ UNCHANGED <<opts, overlay_type, found_init, ro_root, overlay, iso_bind,
                 config, scanVars>>

(* A faulty variant: the status of mount is not looked at. *)
MountSquashfsUnchecked ==
  /\ step = "squashfs"
  /\ ro_root' \in {Top(iso_mnt), NoDev}
  /\ Continue("debug2")
  /\ UNCHANGED <<opts, overlay_type, found_init, upper, zram_kb, overlay,
                 iso_bind, config, scanVars>>

(* Lines 172-182: busybox attaches the file to a loop device in either     *)
(* branch, so one must be left; an altered squashfs may still mount.       *)
MountSquashfs ==
  /\ step = "squashfs"
  /\ \/ /\ Mounted(iso_mnt) /\ media.on[Top(iso_mnt)].squash # "absent"
        /\ \E l \in LoopIds : loop[l] = NoIso
        /\ ro_root' = Top(iso_mnt)
        /\ Continue("debug2")
     \/ UNCHANGED ro_root /\ Return("nonzero")
  /\ UNCHANGED <<opts, overlay_type, found_init, upper, zram_kb, overlay,
                 iso_bind, config, scanVars>>

Breakpoint2 ==
  /\ step = "debug2"
  /\ IF opts.dbg = 2 THEN Shell("debug2") ELSE Continue("overlay")
  /\ UNCHANGED <<opts, storage, scanVars>>

(* A faulty variant: a failed overlay mount is only reported. *)
MountOverlayUnchecked ==
  /\ step = "overlay"
  /\ overlay' \in {overlay_type, overlay}
  /\ Continue("config")
  /\ UNCHANGED <<opts, overlay_type, found_init, upper, zram_kb, ro_root,
                 iso_bind, config, scanVars>>

(* Lines 184-195: the upper directory is the one OVERLAY_TYPE names. *)
MountOverlay ==
  /\ step = "overlay"
  /\ \/ /\ ro_root # NoDev /\ upper = overlay_type
        /\ overlay' = overlay_type
        /\ Continue("config")
     \/ UNCHANGED overlay /\ Return("nonzero")
  /\ UNCHANGED <<opts, overlay_type, found_init, upper, zram_kb, ro_root,
                 iso_bind, config, scanVars>>

(* Lines 197-204: live-config.sh writes below /mnt/newroot, whatever that  *)
(* is by then; its status is not looked at.                                *)
RunLiveConfig ==
  /\ step = "config"
  /\ config' = IF ~opts.neoconfig THEN "no"
               ELSE IF overlay # "none" THEN "overlay" ELSE "initramfs"
  /\ Continue("newroot")
  /\ UNCHANGED <<opts, overlay_type, found_init, upper, zram_kb, ro_root,
                 overlay, iso_bind, scanVars>>

(* A faulty variant: the Ventoy case forgotten. *)
BoundPointPlain == "/mnt/iso"

(* Lines 206-238: VENTOY_MODE, not FOUND_DEV, chooses the mount point that *)
(* is bound; an empty one shows nothing.                                   *)
BoundPoint == IF ventoy THEN "/mnt/iso_test" ELSE "/mnt/iso"

SetupNewroot ==
  /\ step = "newroot"
  /\ iso_bind' = IF Mounted(BoundPoint) THEN Top(BoundPoint) ELSE NoDev
  /\ found_init' = opts.init
  /\ IF opts.init = "none" THEN Return("nonzero") ELSE Continue("debug3")
  /\ UNCHANGED <<opts, overlay_type, upper, zram_kb, ro_root, overlay, config,
                 scanVars>>

Breakpoint3 ==
  /\ step = "debug3"
  /\ IF opts.dbg = 3 THEN Shell("debug3") ELSE Return("zero")
  /\ UNCHANGED <<opts, storage, scanVars>>

-----------------------------------------------------------------------------
(* Phase 60: the test mount point is freed unless it holds the medium. *)

(* A faulty variant: the lazy umount of scan_devices, whatever was found. *)
ReleaseIsoTestAlways ==
  /\ step = "60"
  /\ UmountOrLazily("/mnt/iso_test")
  /\ Continue("switch")
  /\ UNCHANGED <<opts, storage, inputs, present, loop, pc, attempt, pos, dev,
                 file, loop_out, verdict, seen>>

ReleaseIsoTest ==
  /\ step = "60"
  /\ IF found_dev # "ventoy_iso" THEN Umount("/mnt/iso_test") ELSE UNCHANGED mnt
  /\ Continue("switch")
  /\ UNCHANGED <<opts, storage, inputs, present, loop, held, pc, attempt, pos,
                 dev, file, loop_out, verdict, seen>>

SwitchRoot ==
  /\ step = "switch"
  /\ pid1' = "system"
  /\ step' = "over"
  /\ UNCHANGED <<opts, at, last, libs, stop, storage, scanVars>>

(* ^C at any point: the trap execs a shell. *)
Interrupt ==
  /\ step # "over"
  /\ Shell("sigint")
  /\ UNCHANGED <<opts, storage, scanVars>>

Step ==
  \/ ResolveMode \/ SourceLibs \/ EnterPhase \/ PhaseFailed \/ PhaseWithoutFailure
  \/ CheckRootfsHash \/ Scanning \/ ScanReturns
  \/ ZramOverlay \/ TmpfsOverlay \/ MountSquashfs \/ Breakpoint2
  \/ MountOverlay \/ RunLiveConfig \/ SetupNewroot \/ Breakpoint3
  \/ ReleaseIsoTest \/ SwitchRoot

(* Devices are discovered while the modules settle and while the scan runs. *)
Discover ==
  /\ step # "over"
  /\ \E d \in Devices : Plug(d)
  /\ UNCHANGED <<opts, bootVars>>

Next == Step \/ Interrupt \/ Discover

Spec == Init /\ [][Next]_vars

(* Every command the script waits for ends. *)
FairSpec == Spec /\ WF_vars(Step)

-----------------------------------------------------------------------------
(* Properties *)

(* The system is started only on a whole root: an overlay whose lower layer *)
(* is the squashfs of the medium the scan verified and whose upper layer is *)
(* the store OVERLAY_TYPE says, with an init to run, and the user's choices *)
(* written into the overlay rather than into the initramfs under it.        *)
SystemIsWhole ==
  pid1 = "system" =>
    /\ ro_root # NoDev /\ GoodMedium(ro_root)
    /\ overlay # "none" /\ overlay = upper /\ overlay = overlay_type
    /\ found_init # "none"
    /\ config = IF opts.neoconfig THEN "overlay" ELSE "no"

(* From the squashfs mount on, up to and after switch_root, what carries   *)
(* the squashfs stays where ISO_MNT says and on its loop device, although  *)
(* 60-switch-root:3-5 frees one of the two mount points; and the booted    *)
(* system sees it under /mnt/iso, except on a physical medium in a Ventoy  *)
(* environment, where the empty test mount is bound.                       *)
MediumStaysInReach ==
  /\ ro_root # NoDev =>
       /\ Mounted(iso_mnt) /\ Top(iso_mnt) = ro_root
       /\ ro_root \in Isos => \E l \in LoopIds : loop[l] = ro_root
  /\ pid1 = "system" =>
       iso_bind = IF ventoy /\ found_dev \in Devices THEN NoDev ELSE ro_root

(* Each breakpoint stops at the stage docs/10-boot-modes.md:84-103 gives   *)
(* it: 1 before zram and scan, 2 with a verified squashfs mounted and no   *)
(* overlay yet, 3 with the new root ready and configured.                  *)
BreakpointStages ==
  /\ stop = "debug1" => attempt = 0 /\ upper = "none" /\ ro_root = NoDev
  /\ stop = "debug2" => /\ upper # "none" /\ overlay = "none"
                        /\ ro_root # NoDev /\ GoodMedium(ro_root)
  /\ stop = "debug3" => /\ overlay # "none" /\ found_init # "none"
                        /\ opts.neoconfig => config = "overlay"

(* The boundaries of the zram sizing: small machines get none, and at      *)
(* least half of the memory is left (setup_overlay, lines 23-29).          *)
ZramLeavesMemory ==
  upper = "zram" => /\ opts.mem >= MinZramKB
                    /\ zram_kb > 0 /\ 2 * zram_kb <= opts.mem
                    /\ zram_kb <= MaxZramKB

(* The phases, in all their detail, end only the ways MicroInit says the   *)
(* live profile's phases end.                                              *)
Orchestrator == INSTANCE MicroInit WITH
  Markers  <- {"embedded"},
  NoMarker <- "no marker",
  flags    <- {},
  marker   <- "no marker",
  dbg      <- opts.dbg,
  hooks    <- "empty",
  mode     <- "live",
  target   <- TRUE,
  pc       <- IF step \in {"mode", "libs", "loop", "over"} THEN step ELSE "phase"
RunsAsMicroInit == Orchestrator!Spec

(* What is left of the boot: phases, then steps of the phase, in phase 30  *)
(* those of the scan.                                                      *)
StepsLeft ==
  CASE step = "40" -> 8 [] step = "squashfs" -> 7 [] step = "debug2" -> 6
    [] step = "overlay" -> 5 [] step = "config" -> 4 [] step \in {"newroot", "30", "60", "mode"} -> 3
    [] step \in {"debug3", "scan", "switch", "libs", "10", "20", "50"} -> 2
    [] step = "loop" -> 1 [] OTHER -> 0

BootLeft == <<PhaseCount - at, StepsLeft>> \o ScanLeft

(* Whatever fails, every step brings the boot nearer to the process that   *)
(* takes over PID 1, a system or a shell; no phase is entered twice.       *)
BootAdvances ==
  [][ /\ IsMeasure(BootLeft')
      /\ IF present' = present THEN Precedes(BootLeft', BootLeft)
         ELSE BootLeft' = BootLeft ]_vars

(* A machine whose medium is there, with no breakpoint, is left to the     *)
(* emergency shell only by a failure of the storage steps, not of the scan. *)
GoodMediumPassesScan ==
  (step = "10" /\ present \cap GoodDevices # {} /\ opts.hashfile /\ opts.dbg # 1)
    ~> (at = 4 \/ stop = "sigint")

=============================================================================
