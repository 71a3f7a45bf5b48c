------------------------------ MODULE DiskBoot ------------------------------
(***************************************************************************)
(* One boot of the disk profile: the loop of init, whose phases 10 to 50   *)
(* only prepare, and the disk branch of phase 60 with the functions of     *)
(* initramfs/lib/init-disk.sh.  Disks are discovered between any two       *)
(* steps, and so during the sleep of rootdelay= too; a volume on RAID or   *)
(* LVM exists only from the activation of its disk on, a name under        *)
(* /dev/disk only where a udevd runs.                                      *)
(***************************************************************************)
EXTENDS Naturals, Progress

CONSTANTS
  Disks,
  MaxWait,     \* seconds do_mount_root waits for the device
  Machines     \* the machines booted, as in Machine

VARIABLES
  machine,     \* this machine and the command line of this boot; no step changes them
  image,       \* the hibernation image on its swap volume
  (* the kernel and udev *)
  found,       \* disks discovered
  active,      \* disks whose RAID and LVM volumes were activated
  links,       \* a udevd makes the names under /dev/disk
  rooted,      \* root is mounted on /.root
  (* the script *)
  step, mode, at, last, pid1, libs,
  waited,      \* wait
  stop,        \* why PID 1 became a shell
  (* history *)
  ready,       \* the disks that were there to be activated
  checked,     \* the disks that were there at the last test of the device
  resumed,     \* the image the kernel resumed from, "none" if it did not
  passed       \* why boots went past the image of the last hibernation

kernel  == <<found, active, links, rooted>>
script  == <<step, mode, at, last, pid1, libs, waited, stop>>
history == <<ready, checked, resumed, passed>>
vars    == <<machine, image, kernel, script, history>>

(* A volume, and the way it is named on the command line: not at all, by a *)
(* device node, by a link of udev's, or by a form the case does not know.  *)
Volume  == [disk : Disks, layer : {"partition", "activated"},
            name : {"none", "dev", "link", "unknown"}]
Machine == [root : Volume, swap : Volume, noresume : BOOLEAN,
            udev : BOOLEAN,       \* find_udevd finds one
            rules : BOOLEAN,      \* the rules of the host, which mkinitramfs copies,
                                  \* activate what is discovered later
            tools : BOOLEAN,      \* mdadm and vgchange are in the image
            init : BOOLEAN]       \* the root has the init named

ASSUME MachinesAssumption == Machines \subseteq Machine
ASSUME MaxWaitAssumption  == MaxWait \in Nat

Images == {"none", "fresh", "stale"}
Steps  == {"mode", "libs", "loop", "early", "parse", "udev", "activate",
           "resume", "wait", "mount", "switch", "over"}

TypeOK ==
  /\ machine \in Machines /\ image \in Images
  /\ found \subseteq Disks /\ active \subseteq found
  /\ links \in BOOLEAN /\ rooted \in BOOLEAN
  /\ step \in Steps /\ mode \in {"live", "disk"} /\ at \in 0..6
  /\ last \in {"none", "zero", "nonzero"}
  /\ pid1 \in {"init", "shell", "system", "panic"}
  /\ libs \in SUBSET {"disk"}
  /\ waited \in 0..MaxWait
  /\ stop \in {"", "no root=", "udev", "no device", "mount", "sigint"}
  /\ ready \subseteq Disks /\ checked \subseteq Disks
  /\ resumed \in Images /\ passed \subseteq {"noresume", "missed"}

PowerOn ==
  /\ found = {} /\ active = {} /\ links = FALSE /\ rooted = FALSE
  /\ step = "mode" /\ mode = "live" /\ at = 0 /\ last = "zero" /\ pid1 = "init" /\ libs = {}
  /\ waited = 0 /\ stop = ""
  /\ ready = {} /\ checked = {} /\ resumed = "none"

(* The machine was shut down, or hibernated. *)
Init ==
  /\ machine \in Machines
  /\ image \in {"none", "fresh"}
  /\ PowerOn
  /\ passed = {}

-----------------------------------------------------------------------------
Continue(next) == step' = next /\ UNCHANGED <<mode, at, last, pid1, libs, stop>>

Become(process, reason) ==
  /\ pid1' = process
  /\ stop' = reason
  /\ step' = "over"
  /\ UNCHANGED <<mode, at, last, libs, waited>>

(* [ -b ] on the name of a volume. *)
IsBlock(v) ==
  /\ v.disk \in found
  /\ v.layer = "activated" => v.disk \in active
  /\ v.name = "dev" \/ (v.name = "link" /\ links)

-----------------------------------------------------------------------------
(* init, and the phases that do nothing the disk profile depends on. *)

ResolveMode ==
  /\ step = "mode"
  /\ mode' = "disk" /\ step' = "libs"
  /\ UNCHANGED <<machine, image, kernel, at, last, pid1, libs, waited, stop, history>>

SourceLibs ==
  /\ step = "libs"
  /\ libs' = {"disk"} /\ step' = "loop"
  /\ UNCHANGED <<machine, image, kernel, mode, at, last, pid1, waited, stop, history>>

EnterPhase ==
  /\ step = "loop"
  /\ at' = at + 1 /\ last' = "none"
  /\ step' = IF at + 1 = 6 THEN "parse" ELSE "early"
  /\ UNCHANGED <<machine, image, kernel, mode, pid1, libs, waited, stop, history>>

EarlyPhase ==
  /\ step = "early"
  /\ last' = "zero" /\ step' = "loop"
  /\ UNCHANGED <<machine, image, kernel, mode, at, pid1, libs, waited, stop, history>>

-----------------------------------------------------------------------------
(* 60-switch-root:17-40, in its order. *)

ParseRootCmdline ==
  /\ step = "parse"
  /\ IF machine.root.name = "none" THEN Become("shell", "no root=")
     ELSE Continue("udev") /\ UNCHANGED waited
  /\ UNCHANGED <<machine, image, kernel, history>>

(* A faulty variant: the status is left to the loop of init. *)
SetupUdevReturns ==
  /\ step = "udev"
  /\ IF machine.udev
       THEN Continue("activate") /\ links' \in BOOLEAN
       ELSE /\ step' = "loop" /\ last' = "nonzero"
            /\ UNCHANGED <<links, mode, at, pid1, libs, stop>>
  /\ UNCHANGED <<machine, image, found, active, rooted, waited, history>>

(* That the daemon starts is not checked. *)
SetupUdev ==
  /\ step = "udev"
  /\ IF machine.udev THEN Continue("activate") /\ links' \in BOOLEAN /\ UNCHANGED waited
     ELSE Become("shell", "udev") /\ UNCHANGED links
  /\ UNCHANGED <<machine, image, found, active, rooted, history>>

(* A faulty variant: the tool is looked for where the image has none. *)
ActivateNothing ==
  /\ step = "activate"
  /\ ready' = found
  /\ Continue("resume")
  /\ UNCHANGED <<machine, image, kernel, waited, checked, resumed, passed>>

(* activate_raid and activate_lvm, of the disks that are there before the  *)
(* sleep of rootdelay=.                                                    *)
Activate ==
  /\ step = "activate"
  /\ ready' = found
  /\ active' = IF machine.tools THEN found ELSE active
  /\ Continue("resume")
  /\ UNCHANGED <<machine, image, found, links, rooted, waited, checked, resumed, passed>>

(* A faulty variant: $root for $resume in the test, so that the device     *)
(* resumed from is looked at only when root is there already.              *)
ResumableByRoot ==
  ~machine.noresume /\ IsBlock(machine.root) /\ IsBlock(machine.swap)

(* do_try_resume.  Once the numbers of the device are in /sys/power/resume *)
(* the kernel replaces everything by the image, if the device has one, and *)
(* else goes on.  Only do_mount_root waits for its device.                 *)
Resumable == ~machine.noresume /\ IsBlock(machine.swap)

WhyPassedOver ==
  IF machine.noresume THEN {"noresume"}
  ELSE IF IsBlock(machine.swap) THEN {} ELSE {"missed"}

PassOver ==
  /\ passed' = IF image = "none" THEN passed ELSE passed \cup WhyPassedOver
  /\ Continue("wait")
  /\ UNCHANGED <<image, waited, resumed>>

TryResume ==
  /\ step = "resume"
  /\ IF Resumable
       THEN /\ resumed' = image /\ image' = "none"
            /\ IF image = "none" THEN Continue("wait") /\ UNCHANGED waited
               ELSE Become("system", "")
            /\ UNCHANGED passed
       ELSE PassOver
  /\ UNCHANGED <<machine, kernel, ready, checked>>

(* The loop of do_mount_root; a name in a form its case does not know      *)
(* leaves device empty, which is no block device.                          *)
GiveUp == Become("shell", "no device")

WaitSecond == waited' = waited + 1 /\ UNCHANGED <<step, mode, at, last, pid1, libs, stop>>

MountNow == Continue("mount") /\ UNCHANGED waited

(* Faulty variants: the limit is tested before the device; no limit. *)
WaitLimitFirst ==
  /\ step = "wait"
  /\ checked' = found
  /\ IF waited >= MaxWait THEN GiveUp
     ELSE IF IsBlock(machine.root) THEN MountNow
     ELSE WaitSecond
  /\ UNCHANGED <<machine, image, kernel, ready, resumed, passed>>

WaitForever ==
  /\ step = "wait"
  /\ IsBlock(machine.root) /\ MountNow
  /\ UNCHANGED <<machine, image, kernel, history>>

WaitDevice ==
  /\ step = "wait"
  /\ checked' = found
  /\ IF IsBlock(machine.root) THEN MountNow
     ELSE IF waited >= MaxWait THEN GiveUp
     ELSE WaitSecond
  /\ UNCHANGED <<machine, image, kernel, ready, resumed, passed>>

(* A faulty variant: the status of mount is not looked at. *)
MountUnchecked ==
  /\ step = "mount"
  /\ rooted' \in BOOLEAN
  /\ Continue("switch")
  /\ UNCHANGED <<machine, image, found, active, links, waited, history>>

(* Mounting a root, even read-only, replays its journal: an image made     *)
(* before describes a file system that is no longer there.                 *)
MountRoot ==
  /\ step = "mount"
  /\ \/ /\ rooted' = TRUE
        /\ image' = IF image = "fresh" THEN "stale" ELSE image
        /\ Continue("switch") /\ UNCHANGED waited
     \/ Become("shell", "mount") /\ UNCHANGED <<rooted, image>>
  /\ UNCHANGED <<machine, found, active, links, history>>

SwitchRoot ==
  /\ step = "switch"
  /\ Become(IF machine.init THEN "system" ELSE "panic", "")
  /\ UNCHANGED <<machine, image, kernel, history>>

Interrupt ==
  /\ step # "over"
  /\ Become("shell", "sigint")
  /\ UNCHANGED <<machine, image, kernel, history>>

(* A disk spins up, a USB bridge answers; udevd runs the rules for it. *)
Discover ==
  /\ step # "over"
  /\ \E d \in Disks \ found :
       /\ found'  = found \cup {d}
       /\ active' = IF machine.rules /\ links THEN active \cup {d} ELSE active
  /\ UNCHANGED <<machine, image, links, rooted, script, history>>

Step ==
  \/ ResolveMode \/ SourceLibs \/ EnterPhase \/ EarlyPhase
  \/ ParseRootCmdline \/ SetupUdev \/ Activate \/ TryResume
  \/ WaitDevice \/ MountRoot \/ SwitchRoot

Next == Step \/ Interrupt \/ Discover

Spec     == Init /\ [][Next]_vars
FairSpec == Spec /\ WF_vars(Step)

-----------------------------------------------------------------------------
(* Properties *)

(* The system is started only with its root mounted, or resumed.           *)
SystemHasRoot ==
  pid1 = "system" => rooted \/ resumed # "none"

(* do_mount_root gives up only on a device that was not to be had: its     *)
(* disk absent at the last test after the whole wait, its name one that    *)
(* nothing creates, or its volume on a disk that was discovered after the  *)
(* only activation, or that no tool can activate.                          *)
GivesUpJustly ==
  stop = "no device" =>
    /\ waited = MaxWait
    /\ LET r == machine.root
       IN \/ r.disk \notin checked
          \/ r.name = "unknown" \/ (r.name = "link" /\ ~links)
          \/ r.layer = "activated" /\ (~machine.tools \/ r.disk \notin ready)

(* A root that shows up during the wait, its last second included, is      *)
(* mounted, unless the mount itself fails or the user interrupts.          *)
LateRootIsMounted ==
  (step = "wait" /\ IsBlock(machine.root)) ~> (rooted \/ stop \in {"mount", "sigint"})

(* What is left of the boot: phases, steps of the phase, seconds.          *)
StepsLeft ==
  CASE step = "parse" -> 8 [] step = "udev" -> 7 [] step = "activate" -> 6
    [] step = "resume" -> 5 [] step = "wait" -> 4 [] step \in {"mount", "mode"} -> 3
    [] step \in {"switch", "libs", "early"} -> 2 [] step = "loop" -> 1 [] OTHER -> 0

BootLeft == <<6 - at, StepsLeft, MaxWait - waited>>

(* Whatever is missing or fails, every step brings the boot nearer to the  *)
(* process that takes over PID 1, and a disk that appears during the wait  *)
(* of init-disk.sh:126 does not start it again.                            *)
BootAdvances ==
  [][ /\ IsMeasure(BootLeft')
      /\ IF found' = found THEN Precedes(BootLeft', BootLeft)
         ELSE BootLeft' = BootLeft ]_vars

(* PID 1 stops being the script.                                           *)
HandsOver == <>(pid1 # "init")

(* The disk boot ends only in the ways MicroInit gives the disk mode.      *)
Orchestrator == INSTANCE MicroInit WITH
  Markers  <- {"embedded"},
  NoMarker <- "no marker",
  flags    <- {"root="},
  marker   <- "no marker",
  dbg      <- 0,
  hooks    <- "empty",
  target   <- machine.init,
  pc       <- IF step \in {"mode", "libs", "loop", "over"} THEN step ELSE "phase"
RunsAsMicroInit == Orchestrator!Spec

=============================================================================
