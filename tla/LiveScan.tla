------------------------------ MODULE LiveScan ------------------------------
(***************************************************************************)
(* scan_devices of initramfs/lib/init-live.sh: three passes over the block *)
(* devices the kernel shows, in search of the medium whose rootfs.squashfs *)
(* belongs to this initramfs; on a Ventoy stick, also over the ISO files   *)
(* of each partition, attached to loop devices.                            *)
(*                                                                         *)
(* The kernel's side is the stacks of mounts on the two mount points, the  *)
(* table of loop devices and the devices it has discovered; devices appear *)
(* between any two steps of the script.  The bytes of a file are           *)
(* abstracted to whether they are the ones this initramfs was built with.  *)
(***************************************************************************)
EXTENDS Naturals, Sequences, FiniteSets, Progress

CONSTANTS
  Devices,       \* block devices a pattern of line 83 matches
  Isos,          \* ISO files
  Glob,          \* what the patterns of line 83 expand to when all devices
                 \* exist: a sequence, in which an SD card partition is twice
  NumLoops,      \* loop devices the kernel can attach
  Passes,        \* `for attempt in 1 2 3`
  Arrangements,  \* what the devices and the ISO files may hold
  NoDev, NoIso   \* an empty FOUND_DEV; a free loop device

LoopIds == 1..NumLoops
Points  == {"/mnt/iso", "/mnt/iso_test"}
Sources == Devices \cup Isos

(* A file system and the two files of it the scan looks at: is it mountable, *)
(* is rootfs.squashfs there and intact, does rootfs.sha256 hold the hash     *)
(* baked into the initramfs.                                                 *)
Medium == [fs     : BOOLEAN,
           squash : {"absent", "intact", "altered"},
           sum    : {"absent", "match", "other"}]

(* What is in every device and every ISO, the ISO files at the root of each  *)
(* device in glob order, and the ISOs whose path `grep "$ISO"` does not find *)
(* in the output of `losetup -a`: the path is a regular expression to grep,  *)
(* and the kernel keeps only its first 63 characters.                        *)
Arrangement == [on      : [Sources -> Medium],
                files   : [Devices -> Seq(Isos)],
                ungreppable : SUBSET Isos]

ASSUME ScanAssumption ==
  /\ IsFiniteSet(Devices)
  /\ Devices \cap Isos = {}
  /\ Glob \in Seq(Devices) /\ \A d \in Devices : \E i \in DOMAIN Glob : Glob[i] = d
  /\ NumLoops \in Nat /\ Passes \in Nat
  /\ NoDev \notin Devices \cup Isos \cup {"ventoy_iso"}
  /\ "ventoy_iso" \notin Devices
  /\ NoIso \notin Isos

ASSUME ArrangementsAssumption == Arrangements \subseteq Arrangement

(* The ISO files of d that are attached under a name grep does not find,   *)
(* and so never detached.                                                  *)
Misread(a, d) == {k \in DOMAIN a.files[d] : a.files[d][k] \in a.ungreppable}

(* There is a loop device for every ISO file to be tested, whatever the    *)
(* visits before it left attached: those to other devices in every pass,   *)
(* that to its own device once, for a good device is not visited twice.    *)
EnoughLoops ==
  \A a \in Arrangements, d \in Devices : a.files[d] # << >> =>
    \E n \in 0..NumLoops :
      /\ \A e \in Devices \ {d} : Cardinality(Misread(a, e)) <= n
      /\ Passes * Len(Glob) * n + Cardinality(Misread(a, d)) < NumLoops

VARIABLES
  (* what the machine boots with *)
  media,        \* the arrangement
  ventoy,       \* VENTOY_MODE, as detect_ventoy set it
  checkhash,    \* checkhash=1 is on the command line
  (* the kernel *)
  present,      \* devices discovered so far
  mnt,          \* per mount point, its stack of mounts, the top one first
  loop,         \* per loop device, the ISO attached to it
  held,         \* loop devices whose file is on the top mount of /mnt/iso
  (* the script *)
  pc, attempt,
  pos,          \* how much of the glob this pass has gone through
  dev,          \* DEV
  file,         \* which ISO file of DEV is being tested
  loop_out,     \* LOOP: the loop devices named by the pipeline's output
  found_dev, found_match, iso_mnt,
  seen          \* the nodes that existed when the globs were expanded

inputs   == <<media, ventoy, checkhash>>
kernel   == <<mnt, loop, held>>
verdict  == <<found_dev, found_match, iso_mnt>>
scanVars == <<inputs, present, kernel, pc, attempt, pos, dev, file, loop_out,
              verdict, seen>>

Labels == {"start", "attempt", "device", "probe", "verify", "list", "iso",
           "attached", "isoprobe", "isoverify", "release", "verdict",
           "found", "missing"}

ScanTypeOK ==
  /\ media \in Arrangement
  /\ ventoy \in BOOLEAN /\ checkhash \in BOOLEAN
  /\ present \subseteq Devices
  /\ mnt  \in [Points -> Seq(Sources)]
  /\ loop \in [LoopIds -> Isos \cup {NoIso}]
  /\ held \subseteq LoopIds
  /\ pc \in Labels
  /\ attempt \in 0..Passes
  /\ pos \in 0..Len(Glob)
  /\ dev  \in Devices \cup {NoDev}
  /\ file \in Nat
  /\ loop_out \subseteq LoopIds
  /\ found_dev \in Devices \cup {NoDev, "ventoy_iso"}
  /\ found_match \in BOOLEAN
  /\ iso_mnt \in Points
  /\ seen \subseteq Devices

ScanInit ==
  /\ media \in Arrangements
  /\ ventoy \in BOOLEAN /\ checkhash \in BOOLEAN
  /\ present \in SUBSET Devices
  /\ mnt  = [p \in Points |-> << >>]
  /\ loop = [l \in LoopIds |-> NoIso]
  /\ held = {}
  /\ pc = "start" /\ attempt = 0
  /\ pos = 0 /\ dev = NoDev /\ file = 0 /\ loop_out = {}
  /\ found_dev = NoDev /\ found_match = FALSE /\ iso_mnt = "/mnt/iso"
  /\ seen = {}

-----------------------------------------------------------------------------
(* The kernel's operations, as the script's tools use them. *)

Top(p)     == Head(mnt[p])
Mounted(p) == mnt[p] # << >>

MountOn(p, src) == mnt' = [mnt EXCEPT ![p] = <<src>> \o @]

(* umount of busybox: the top mount goes, unless a file of it backs a loop. *)
Busy(p) == p = "/mnt/iso" /\ held # {}

Umount(p) ==
  mnt' = IF Mounted(p) /\ ~Busy(p) THEN [mnt EXCEPT ![p] = Tail(@)] ELSE mnt

(* umount || umount -l: the lazy one detaches even a busy mount; the loop   *)
(* devices keep their files.                                                *)
UmountOrLazily(p) ==
  /\ mnt'  = IF Mounted(p) THEN [mnt EXCEPT ![p] = Tail(@)] ELSE mnt
  /\ held' = IF p = "/mnt/iso" THEN {} ELSE held

(* losetup -d "$LOOP": only a LOOP of exactly one device names a device. *)
LosetupD ==
  /\ loop' = [l \in LoopIds |-> IF loop_out = {l} THEN NoIso ELSE loop[l]]
  /\ held' = {l \in held : loop_out # {l}}

-----------------------------------------------------------------------------
(* What the script decides. *)

(* rootfs.squashfs and rootfs.sha256 are both there. *)
HasSquash(x) == media.on[x].squash # "absent"
HasSum(x)    == media.on[x].sum # "absent"

(* A faulty variant: checkhash=1 is not looked at. *)
HashMatchesFast(x) == media.on[x].sum = "match"

(* checkhash=1 hashes the squashfs; otherwise the file rootfs.sha256 of the *)
(* medium is compared with the one of the initramfs.                        *)
HashMatches(x) == IF checkhash THEN media.on[x].squash = "intact"
                  ELSE media.on[x].sum = "match"

Goto(label) == pc' = label

Files == media.files[dev]
Iso   == Files[file]

-----------------------------------------------------------------------------
(* The steps of scan_devices. *)

(* Lines 71-73: free the mount point, in case something is left on it. *)
StartScan ==
  /\ pc = "start"
  /\ UmountOrLazily("/mnt/iso")
  /\ Goto("attempt")
  /\ UNCHANGED <<inputs, present, loop, attempt, pos, dev, file, loop_out,
                 verdict, seen>>

(* Faulty variants: the globs are expanded once, before the passes; the    *)
(* passes never end.                                                       *)
StartPassStaleList ==
  /\ pc = "attempt" /\ attempt < Passes
  /\ attempt' = attempt + 1 /\ pos' = 0
  /\ seen' = IF attempt = 0 THEN present ELSE seen
  /\ Goto("device")
  /\ UNCHANGED <<inputs, present, kernel, dev, file, loop_out, verdict>>

PassesRestart ==
  /\ pc = "attempt" /\ attempt = Passes
  /\ attempt' = 0
  /\ UNCHANGED <<inputs, present, kernel, pc, pos, dev, file, loop_out, verdict, seen>>

(* Lines 74-83: rescan the buses, let mdev make the nodes, expand the globs. *)
StartPass ==
  /\ pc = "attempt"
  /\ attempt < Passes
  /\ attempt' = attempt + 1
  /\ pos' = 0
  /\ seen' = present
  /\ Goto("device")
  /\ UNCHANGED <<inputs, present, kernel, dev, file, loop_out, verdict>>

PassesOver ==
  /\ pc = "attempt"
  /\ attempt = Passes
  /\ Goto("verdict")
  /\ UNCHANGED <<inputs, present, kernel, attempt, pos, dev, file, loop_out,
                 verdict, seen>>

DevicesOver ==
  /\ pc = "device"
  /\ pos = Len(Glob)
  /\ Goto("attempt")
  /\ UNCHANGED <<inputs, present, kernel, attempt, pos, dev, file, loop_out,
                 verdict, seen>>

(* Lines 83-94: mount the next device; a node that did not exist when the  *)
(* globs were expanded, or that has no file system, is passed over.        *)
NextDevice ==
  /\ pc = "device"
  /\ pos < Len(Glob)
  /\ pos' = pos + 1
  /\ IF Glob[pos + 1] \in seen
       THEN /\ dev' = Glob[pos + 1]
            /\ IF media.on[Glob[pos + 1]].fs
                 THEN MountOn("/mnt/iso", Glob[pos + 1]) /\ Goto("probe")
                 ELSE UNCHANGED <<mnt, pc>>
       ELSE UNCHANGED <<dev, mnt, pc>>
  /\ UNCHANGED <<inputs, present, loop, held, attempt, file, loop_out, verdict,
                 seen>>

(* Lines 95-99. *)
ProbeDevice ==
  /\ pc = "probe"
  /\ \/ ~HasSquash(dev) /\ Goto("list") /\ UNCHANGED mnt
     \/ HasSquash(dev) /\ HasSum(dev) /\ Goto("verify") /\ UNCHANGED mnt
     \/ HasSquash(dev) /\ ~HasSum(dev) /\ Goto("device") /\ Umount("/mnt/iso")
  /\ UNCHANGED <<inputs, present, loop, held, attempt, pos, dev, file,
                 loop_out, verdict, seen>>

(* Faulty variants: `break` for `break 2`; a rejection that leaves its     *)
(* mount behind.                                                           *)
AcceptDeviceBreakOne ==
  /\ pc = "verify" /\ HashMatches(dev)
  /\ found_match' = TRUE /\ found_dev' = dev
  /\ Goto("attempt")
  /\ UNCHANGED <<inputs, present, kernel, attempt, pos, dev, file, loop_out,
                 iso_mnt, seen>>

RejectDeviceMounted ==
  /\ pc = "verify" /\ ~HashMatches(dev)
  /\ Goto("device")
  /\ UNCHANGED <<inputs, present, kernel, attempt, pos, dev, file, loop_out,
                 verdict, seen>>

(* Lines 100-120. *)
AcceptDevice ==
  /\ pc = "verify"
  /\ HashMatches(dev)
  /\ found_match' = TRUE
  /\ found_dev' = dev
  /\ Goto("verdict")
  /\ UNCHANGED <<inputs, present, kernel, attempt, pos, dev, file, loop_out,
                 iso_mnt, seen>>

RejectDevice ==
  /\ pc = "verify"
  /\ ~HashMatches(dev)
  /\ Umount("/mnt/iso")
  /\ Goto("device")
  /\ UNCHANGED <<inputs, present, loop, held, attempt, pos, dev, file,
                 loop_out, verdict, seen>>

(* A faulty variant: VENTOY_MODE is tested before detect_ventoy sets it. *)
ListIsosTooEarly ==
  /\ pc = "list"
  /\ Goto("release")
  /\ UNCHANGED <<inputs, present, kernel, attempt, pos, dev, file, loop_out,
                 verdict, seen>>

(* Lines 122-125. *)
ListIsos ==
  /\ pc = "list"
  /\ IF ventoy /\ Files # << >>
       THEN file' = 1 /\ Goto("iso")
       ELSE Goto("release") /\ UNCHANGED file
  /\ UNCHANGED <<inputs, present, kernel, attempt, pos, dev, loop_out,
                 verdict, seen>>

IsosOver ==
  /\ pc = "iso"
  /\ file > Len(Files)
  /\ Goto("release")
  /\ UNCHANGED <<inputs, present, kernel, attempt, pos, dev, file, loop_out,
                 verdict, seen>>

(* Line 127: losetup -f attaches the ISO to a free loop device, then LOOP  *)
(* is what grep finds under its path.  The status tested by `|| continue`  *)
(* is losetup -f's only: that of the pipeline is sed's.                    *)
AttachIso ==
  /\ pc = "iso"
  /\ file <= Len(Files)
  /\ \E l \in LoopIds :
       /\ loop[l] = NoIso
       /\ \A m \in LoopIds : loop[m] = NoIso => l <= m
       /\ loop' = [loop EXCEPT ![l] = Iso]
       /\ held' = held \cup {l}
  /\ loop_out' = IF Iso \in media.ungreppable THEN {}
                 ELSE {m \in LoopIds : loop'[m] = Iso}
  /\ Goto("attached")
  /\ UNCHANGED <<inputs, present, mnt, attempt, pos, dev, file, verdict, seen>>

(* A faulty variant: `continue 2`, past the umount of the device. *)
NoLoopLeftSkipsDevice ==
  /\ pc = "iso" /\ file <= Len(Files)
  /\ \A l \in LoopIds : loop[l] # NoIso
  /\ loop_out' = {}
  /\ Goto("device")
  /\ UNCHANGED <<inputs, present, kernel, attempt, pos, dev, file, verdict, seen>>

NoLoopLeft ==
  /\ pc = "iso"
  /\ file <= Len(Files)
  /\ \A l \in LoopIds : loop[l] # NoIso
  /\ loop_out' = {}
  /\ file' = file + 1
  /\ UNCHANGED <<inputs, present, kernel, pc, attempt, pos, dev, verdict, seen>>

(* Line 128. *)
MountIso ==
  /\ pc = "attached"
  /\ IF Cardinality(loop_out) = 1 /\ media.on[Iso].fs
       THEN /\ MountOn("/mnt/iso_test", Iso)
            /\ Goto("isoprobe")
            /\ UNCHANGED <<loop, held, file>>
       ELSE /\ LosetupD
            /\ file' = file + 1
            /\ Goto("iso")
            /\ UNCHANGED mnt
  /\ UNCHANGED <<inputs, present, attempt, pos, dev, loop_out, verdict, seen>>

(* A faulty variant: no losetup -d. *)
NextIsoAttached ==
  /\ Umount("/mnt/iso_test")
  /\ file' = file + 1
  /\ Goto("iso")
  /\ UNCHANGED <<loop, held>>

(* umount, losetup -d and on to the next ISO: what every rejection does. *)
NextIso ==
  /\ Umount("/mnt/iso_test")
  /\ LosetupD
  /\ file' = file + 1
  /\ Goto("iso")

(* Lines 129-133 and 154-157. *)
ProbeIso ==
  /\ pc = "isoprobe"
  /\ IF HasSquash(Iso) /\ HasSum(Iso)
       THEN Goto("isoverify") /\ UNCHANGED <<kernel, file>>
       ELSE NextIso
  /\ UNCHANGED <<inputs, present, attempt, pos, dev, loop_out, verdict, seen>>

(* Faulty variants: ISO_MNT is not moved; FOUND_DEV is the file's name; no *)
(* hash is compared.                                                       *)
AcceptIsoInPlace ==
  /\ pc = "isoverify" /\ HashMatches(Iso)
  /\ found_match' = TRUE /\ found_dev' = "ventoy_iso"
  /\ Goto("verdict")
  /\ UNCHANGED <<inputs, present, kernel, attempt, pos, dev, file, loop_out,
                 iso_mnt, seen>>

AcceptIsoByName ==
  /\ pc = "isoverify" /\ HashMatches(Iso)
  /\ found_match' = TRUE /\ found_dev' = Iso /\ iso_mnt' = "/mnt/iso_test"
  /\ Goto("verdict")
  /\ UNCHANGED <<inputs, present, kernel, attempt, pos, dev, file, loop_out, seen>>

AcceptIsoUnchecked ==
  /\ pc = "isoverify"
  /\ found_match' = TRUE /\ found_dev' = "ventoy_iso" /\ iso_mnt' = "/mnt/iso_test"
  /\ Goto("verdict")
  /\ UNCHANGED <<inputs, present, kernel, attempt, pos, dev, file, loop_out, seen>>

(* Lines 134-152: an accepted ISO becomes ISO_MNT; the partition it lies   *)
(* on stays mounted on /mnt/iso.                                           *)
AcceptIso ==
  /\ pc = "isoverify"
  /\ HashMatches(Iso)
  /\ found_match' = TRUE
  /\ found_dev' = "ventoy_iso"
  /\ iso_mnt' = "/mnt/iso_test"
  /\ Goto("verdict")
  /\ UNCHANGED <<inputs, present, kernel, attempt, pos, dev, file, loop_out,
                 seen>>

RejectIso ==
  /\ pc = "isoverify"
  /\ ~HashMatches(Iso)
  /\ NextIso
  /\ UNCHANGED <<inputs, present, attempt, pos, dev, loop_out, verdict, seen>>

(* A faulty variant: without the lazy umount, which is needed where a loop *)
(* device that no losetup -d named still holds an ISO of the mount.        *)
ReleaseDevicePlain ==
  /\ pc = "release"
  /\ Umount("/mnt/iso")
  /\ Goto("device")
  /\ UNCHANGED <<inputs, present, loop, held, attempt, pos, dev, file, loop_out,
                 verdict, seen>>

(* Lines 160-162. *)
ReleaseDevice ==
  /\ pc = "release"
  /\ UmountOrLazily("/mnt/iso")
  /\ Goto("device")
  /\ UNCHANGED <<inputs, present, loop, attempt, pos, dev, file, loop_out,
                 verdict, seen>>

(* Lines 165-169. *)
Conclude ==
  /\ pc = "verdict"
  /\ Goto(IF found_dev = NoDev THEN "missing" ELSE "found")
  /\ UNCHANGED <<inputs, present, kernel, attempt, pos, dev, file, loop_out,
                 verdict, seen>>

ScanStep ==
  \/ StartScan \/ StartPass \/ PassesOver \/ DevicesOver \/ NextDevice
  \/ ProbeDevice \/ AcceptDevice \/ RejectDevice
  \/ ListIsos \/ IsosOver \/ AttachIso \/ NoLoopLeft \/ MountIso
  \/ ProbeIso \/ AcceptIso \/ RejectIso \/ ReleaseDevice \/ Conclude

(* The kernel discovers a device: a slow USB stick, a disk that spins up. *)
Plug(d) ==
  /\ d \notin present
  /\ pc \notin {"found", "missing"}
  /\ present' = present \cup {d}
  /\ UNCHANGED <<inputs, kernel, pc, attempt, pos, dev, file, loop_out,
                 verdict, seen>>

ScanNext == ScanStep \/ \E d \in Devices : Plug(d)

ScanSpec == ScanInit /\ [][ScanNext]_scanVars

(* The script is never suspended for ever: every command of the loop ends. *)
FairScanSpec == ScanSpec /\ WF_scanVars(ScanStep)

-----------------------------------------------------------------------------
(* Properties *)

(* A medium of this system, by the measure the command line asks for. *)
GoodMedium(x) ==
  /\ media.on[x].fs /\ media.on[x].sum # "absent"
  /\ checkhash  => media.on[x].squash = "intact"
  /\ ~checkhash => media.on[x].squash # "absent" /\ media.on[x].sum = "match"

(* A device the scan can accept, itself or through an ISO file grep finds. *)
GoodDevice(d) ==
  \/ GoodMedium(d)
  \/ /\ media.on[d].fs /\ ~HasSquash(d) /\ ventoy
     /\ \E k \in DOMAIN media.files[d] :
          LET i == media.files[d][k]
          IN i \notin media.ungreppable /\ GoodMedium(i)

GoodDevices == {d \in Devices : GoodDevice(d)}

(* The boot goes on only with a medium that is mounted where ISO_MNT says  *)
(* and passed the check of the mode: the whole squashfs under checkhash=1, *)
(* the recorded hash otherwise (init-live.sh:95-120, 129-152).             *)
MediumVerified ==
  pc = "found" => Mounted(iso_mnt) /\ GoodMedium(Top(iso_mnt))

(* FOUND_DEV, ISO_MNT, the mounts and the loop devices agree: the later    *)
(* phases choose what to mount, to bind and to umount by FOUND_DEV alone.  *)
VerdictAgrees ==
  pc = "found" =>
    \/ /\ found_dev = "ventoy_iso" /\ iso_mnt = "/mnt/iso_test"
       /\ mnt["/mnt/iso"] = <<dev>> /\ Len(mnt["/mnt/iso_test"]) = 1
       /\ Cardinality({l \in LoopIds : loop[l] = Top("/mnt/iso_test")}) = 1
    \/ /\ found_dev \in Devices /\ iso_mnt = "/mnt/iso"
       /\ mnt["/mnt/iso"] = <<found_dev>> /\ ~Mounted("/mnt/iso_test")

(* Whatever was looked at and rejected is unmounted before the next device *)
(* is: mounts never pile up over the passes, whichever branch rejected.    *)
RejectedIsUnmounted ==
  pc \in {"attempt", "device", "missing"} => \A p \in Points : ~Mounted(p)

(* Between devices the only loop devices still attached are those of ISO   *)
(* files whose name grep did not find: every other rejection detaches.     *)
LoopsReleased ==
  pc \in {"attempt", "device", "missing"} =>
    \A l \in LoopIds : loop[l] \in media.ungreppable \cup {NoIso}

(* A good ISO file never goes untested for want of a loop device           *)
(* (`|| continue` in line 127).                                            *)
GoodIsoGetsLoop ==
  pc = "iso" /\ file <= Len(Files) /\ Iso \notin media.ungreppable /\ GoodMedium(Iso) =>
    \E l \in LoopIds : loop[l] = NoIso

(* The scan implements the abstract choice of a medium: it takes the first *)
(* good device of the first pass that has one, and gives up only when the  *)
(* last pass had none.                                                     *)
Choice == INSTANCE MediaChoice WITH
  Undecided <- "undecided",
  Missing   <- "missing",
  good      <- GoodDevices,
  pass      <- attempt,
  choice    <- IF pc = "missing" THEN "missing"
               ELSE IF found_dev = NoDev THEN "undecided" ELSE dev
ChoosesFirstGood == Choice!Spec

(* What is left of the scan: passes, then of the pass the globs, then of   *)
(* the body of the loop its ISO files, then the tests of one of them.      *)
IsoLoop == {"iso", "attached", "isoprobe", "isoverify"}

PassStage ==
  CASE pc = "start" -> 4 [] pc = "attempt" -> 2 [] pc = "verdict" -> 1
    [] pc \in {"found", "missing"} -> 0 [] OTHER -> 3

BodyStage ==
  CASE pc = "probe" -> 4 [] pc \in {"verify", "list"} -> 3 [] pc \in IsoLoop -> 2
    [] pc = "release" -> 1 [] OTHER -> 0

IsosLeft == IF pc \in IsoLoop /\ file <= Len(Files) THEN Len(Files) + 1 - file ELSE 0

TestStage ==
  CASE pc = "iso" -> 3 [] pc = "attached" -> 2 [] pc = "isoprobe" -> 1 [] OTHER -> 0

ScanLeft == <<Passes - attempt, PassStage, Len(Glob) - pos, BodyStage, IsosLeft, TestStage>>

(* Every step of the script, whichever test fails and however often loop   *)
(* devices run out, brings the verdict nearer, and a device that appears   *)
(* does not put it off: none of the three nested loops of lines 74-163 can *)
(* be repeated without an end.                                             *)
ScanAdvances ==
  [][ /\ IsMeasure(ScanLeft')
      /\ IF present' = present THEN Precedes(ScanLeft', ScanLeft)
         ELSE ScanLeft' = ScanLeft ]_scanVars

(* The scan always reaches a verdict: three passes over finite lists.      *)
ScanEnds == <>(pc \in {"found", "missing"})

(* A good device discovered while a pass is still to come is found.        *)
LatecomerIsFound ==
  (attempt < Passes /\ present \cap GoodDevices # {}) ~> (pc = "found")

=============================================================================
