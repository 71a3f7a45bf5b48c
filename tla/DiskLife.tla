------------------------------ MODULE DiskLife ------------------------------
(***************************************************************************)
(* The life of a machine that boots with the disk profile: boots follow    *)
(* one another after a shutdown, a power cut at any moment, or a           *)
(* hibernation of the system that was started, each with a command line of *)
(* its own.                                                                *)
(***************************************************************************)
EXTENDS DiskBoot

CONSTANT MaxBoots      \* boots after the first

ASSUME MaxBootsAssumption == MaxBoots \in Nat

VARIABLE boots

lifeVars == <<vars, boots>>

LifeInit == Init /\ boots = 0

(* The command line is the boot's: noresume, init= and the names of the    *)
(* volumes may be others at each boot; the rest is the machine's.          *)
SameHardware(m) ==
  /\ \A volume \in {"root", "swap"} :
       m[volume].disk = machine[volume].disk /\ m[volume].layer = machine[volume].layer
  /\ \A part \in {"udev", "rules", "tools"} : m[part] = machine[part]

(* The next boot: everything but the disks' contents is gone. *)
PowersOn ==
  /\ boots < MaxBoots /\ boots' = boots + 1
  /\ found' = {} /\ active' = {} /\ links' = FALSE /\ rooted' = FALSE
  /\ step' = "mode" /\ mode' = "live" /\ at' = 0 /\ last' = "zero" /\ pid1' = "init" /\ libs' = {}
  /\ waited' = 0 /\ stop' = ""
  /\ ready' = {} /\ checked' = {} /\ resumed' = "none"
  /\ machine' \in {m \in Machines : SameHardware(m)}

(* The power fails, or the user or the system restarts the machine. *)
Restart == PowersOn /\ UNCHANGED <<image, passed>>

(* The running system writes an image of itself and powers off. *)
Hibernate ==
  /\ pid1 = "system" /\ PowersOn
  /\ image' = "fresh" /\ passed' = {}

(* The running system may find the old image on its swap and drop it. *)
DropImage ==
  /\ pid1 = "system" /\ image # "none"
  /\ image' = "none"
  /\ UNCHANGED <<machine, kernel, script, history, boots>>

LifeNext ==
  \/ Next /\ UNCHANGED boots
  \/ Restart \/ Hibernate \/ DropImage

LifeSpec == LifeInit /\ [][LifeNext]_lifeVars

LifeTypeOK == TypeOK /\ boots \in 0..MaxBoots

-----------------------------------------------------------------------------
(* Properties *)

(* A system is resumed on a root that was mounted since its image was      *)
(* made, which corrupts that root, only when a boot since then went past   *)
(* that very image: told so by noresume, which init-disk.sh:104 obeys, or  *)
(* because the swap device was not there when do_try_resume looked for it. *)
StaleOnlyIfPassedOver == resumed = "stale" => passed # {}

(* What docs/10-boot-modes.md:140 ("Honors ... `resume=`") and :203        *)
(* ("Resume device for hibernation") say: an image on the device that      *)
(* resume= names is resumed and not booted past.  Only names the code      *)
(* translates, on partitions, and a udevd that makes them are considered.  *)
HonoursResume ==
  /\ machine.swap.name \in {"dev", "link"} /\ machine.swap.layer = "partition"
  /\ ~machine.noresume /\ links
  => ~(rooted /\ image = "stale")

=============================================================================
