----------------------------- MODULE IsoBuild -----------------------------
(***************************************************************************)
(* build.sh over several runs: the live and the netinstall image,          *)
(* --make-iso from what an earlier run left, --make-embedded and --clean,  *)
(* each with the mkinitramfs of MkInitramfs in it, and each stopped        *)
(* anywhere by ^C or by a command that fails (set -e).  A mkinitramfs run  *)
(* for the disk profile, which needs no build.sh, is a kind of run too.    *)
(*                                                                         *)
(* check_tmp_space chooses the work directory by the space that is free    *)
(* when the run starts, so two runs may not use the same one.              *)
(***************************************************************************)
EXTENDS MkInitramfs

CONSTANTS
  WorkDirs,   \* /tmp/neonatox-live, /var/tmp/neonatox-live
  Removals,   \* what an `rm -rf` that is stopped may have removed, of Artifacts
  MaxRuns     \* bound on the runs of one history

VARIABLES
  run,       \* runs so far
  kind,      \* what this run makes
  at,        \* where build.sh is
  dir,       \* WORKDIR
  tree,      \* what each work directory holds
  iso,       \* the ISO in output/
  (* history *)
  emptied,   \* the last run that emptied a work directory
  home,      \* that directory
  unsummed   \* runs whose sha256sum failed

buildVars == <<run, kind, at, dir, tree, iso, emptied, home, unsummed>>
vars == <<buildVars, mkVars>>

Kinds == {"live", "netinstall", "make iso", "embedded", "clean", "disk"}
Makes == {"live", "netinstall"}

(* squashfs, rootfs.sha256, the kernel, initramfs.img, grub.cfg,           *)
(* BOOTX64.EFI and eltorito.img.                                           *)
Artifacts == {"squashfs", "sum", "kernel", "initramfs", "menu", "efi", "bios"}

ASSUME RunsAssumption == MaxRuns \in Nat /\ Removals \subseteq SUBSET Artifacts

(* An artifact is told apart by the run that wrote it; 0 is no file.  sum  *)
(* is the content of rootfs.sha256, the run of the squashfs it is of, or 0 *)
(* if the file is empty.                                                   *)
Tree == [by : [Artifacts -> Nat], cut : SUBSET Artifacts, sum : Nat, profile : Profiles,
         image : Image, missed : SUBSET Parts]

NoTree == [by |-> [a \in Artifacts |-> 0], cut |-> {}, sum |-> 0, profile |-> "live",
           image |-> NoImage, missed |-> {}]

IsoStates == {"none", "torn", "ready"}
NoIso == [state |-> "none", name |-> "live", emptied |-> 0, moved |-> FALSE, tree |-> NoTree]
TornIso == [NoIso EXCEPT !.state = "torn"]

Places == {"idle", "check", "wipe", "squashfs", "sum", "kernel", "extra", "mk", "menu", "efi",
           "bios", "verify", "report", "iso"}

TypeOK ==
  /\ MkTypeOK
  /\ run \in 0..MaxRuns /\ kind \in Kinds /\ at \in Places /\ dir \in WorkDirs
  /\ tree \in [WorkDirs -> Tree]
  /\ iso \in [state : IsoStates, name : Makes, emptied : Nat, moved : BOOLEAN, tree : Tree]
  /\ emptied \in 0..MaxRuns /\ home \in WorkDirs
  /\ unsummed \subseteq 0..MaxRuns

(* mkinitramfs is over; the next run starts it anew. *)
MkReset ==
  /\ mk' = "off" /\ left' = << >> /\ wdir' = {} /\ baked' = 0 /\ extra' = 0
  /\ packed' = NoImage /\ img' = NoImage /\ missed' = {} /\ refused' = FALSE
  /\ profile' = "live"
  /\ UNCHANGED faults

Init ==
  /\ run = 0 /\ kind = "clean" /\ at = "idle" /\ dir \in WorkDirs
  /\ tree = [w \in WorkDirs |-> NoTree]
  /\ iso = NoIso
  /\ emptied = 0 /\ home = dir /\ unsummed = {}
  /\ mk = "off" /\ profile = "live" /\ left = << >> /\ wdir = {} /\ baked = 0 /\ extra = 0
  /\ packed = NoImage /\ img = NoImage /\ missed = {} /\ refused = FALSE
  /\ faults = 0

-----------------------------------------------------------------------------
Goto(place) ==
  /\ at' = place
  /\ kind' = (IF place = "idle" THEN "clean" ELSE kind)
  /\ UNCHANGED <<run, dir>>

history == <<emptied, home, unsummed>>

There(a) == tree[dir].by[a] # 0

(* A run starts: the directory is whichever has the space; an embedded or a *)
(* disk run reads nothing from it that it has not written.                 *)
Begin ==
  /\ at = "idle" /\ run < MaxRuns
  /\ run' = run + 1
  /\ kind' \in Kinds
  /\ dir' \in (IF kind' \in {"embedded", "disk"} THEN {dir} ELSE WorkDirs)
  /\ at' = CASE kind' = "make iso"           -> "check"
             [] kind' \in Makes \cup {"clean"} -> "wipe"
             [] OTHER                         -> "extra"
  /\ UNCHANGED <<tree, iso, history, mkVars>>

(* Faulty variant: the directory of the last build is built over. *)
WipeNothing ==
  /\ at = "wipe"
  /\ Goto(IF kind = "live" THEN "squashfs" ELSE IF kind = "netinstall" THEN "kernel" ELSE "idle")
  /\ emptied' = run /\ home' = dir
  /\ UNCHANGED <<tree, iso, unsummed, mkVars>>

(* rm -rf "$WORKDIR" *)
Wipe ==
  /\ at = "wipe"
  /\ tree' = [tree EXCEPT ![dir] = NoTree]
  /\ Goto(IF kind = "live" THEN "squashfs" ELSE IF kind = "netinstall" THEN "kernel" ELSE "idle")
  /\ emptied' = run /\ home' = dir
  /\ UNCHANGED <<iso, unsummed, mkVars>>

Written(a) == [tree EXCEPT ![dir].by[a] = run]

MakeSquashfs ==
  /\ at = "squashfs"
  /\ tree' = Written("squashfs")
  /\ Goto("sum")
  /\ UNCHANGED <<iso, history, mkVars>>

(* `sha256sum | awk > file`: the status is awk's. *)
SumSquashfs ==
  /\ at = "sum"
  /\ \/ /\ tree' = [Written("sum") EXCEPT ![dir].sum = tree[dir].by["squashfs"]]
        /\ UNCHANGED <<unsummed, faults>>
     \/ /\ Fault
        /\ tree' = Written("sum") /\ unsummed' = unsummed \cup {run}
  /\ Goto("kernel")
  /\ UNCHANGED <<iso, emptied, home, mkRun>>

CopyKernel ==
  /\ at = "kernel"
  /\ tree' = Written("kernel")
  /\ Goto("extra")
  /\ UNCHANGED <<iso, history, mkVars>>

(* Faulty variant: the sum is not where it is looked for. *)
PopulateExtraWithoutSum ==
  /\ at = "extra"
  /\ profile' = (IF kind \in Makes THEN kind ELSE IF kind = "disk" THEN "disk" ELSE "embedded")
  /\ mk' = "checks"
  /\ Goto("mk")
  /\ UNCHANGED <<tree, iso, history, left, wdir, baked, extra, packed, img, missed, refused, faults>>

(* EXTRA_DIR is filled and mkinitramfs called. *)
PopulateExtra ==
  /\ at = "extra"
  /\ extra' = (IF kind = "live" THEN tree[dir].sum ELSE 0)
  /\ profile' = (IF kind \in Makes THEN kind ELSE IF kind = "disk" THEN "disk" ELSE "embedded")
  /\ mk' = "checks"
  /\ Goto("mk")
  /\ UNCHANGED <<tree, iso, history, left, wdir, baked, packed, img, missed, refused, faults>>

Mkinitramfs ==
  /\ at = "mk"
  /\ MkStep
  /\ UNCHANGED <<buildVars>>

(* initramfs.img as mkinitramfs left it. *)
WithImage ==
  [tree EXCEPT ![dir].by["initramfs"] = run, ![dir].profile = profile,
               ![dir].image = img, ![dir].missed = missed]

MkinitramfsDone ==
  /\ at = "mk" /\ mk = "exit 0"
  /\ IF kind \in Makes THEN tree' = WithImage ELSE UNCHANGED tree
  /\ IF kind = "embedded" THEN Goto("verify") /\ UNCHANGED mkVars
     ELSE Goto(IF kind \in Makes THEN "menu" ELSE "idle") /\ MkReset
  /\ UNCHANGED <<iso, history>>

WriteMenu ==
  /\ at = "menu"
  /\ tree' = Written("menu")
  /\ Goto("efi")
  /\ UNCHANGED <<iso, history, mkVars>>

MakeEfi ==
  /\ at = "efi"
  /\ tree' = Written("efi")
  /\ Goto("bios")
  /\ UNCHANGED <<iso, history, mkVars>>

(* core.img, then eltorito.img, the last of the artifacts; --without-make- *)
(* iso ends here.                                                          *)
MakeBios ==
  /\ at = "bios"
  /\ tree' = Written("bios")
  /\ Goto("iso") \/ Goto("idle")
  /\ UNCHANGED <<iso, history, mkVars>>

(* Faulty variant: eltorito.img is not asked for. *)
CheckArtifactsFew ==
  /\ at = "check"
  /\ IF \A a \in {"squashfs", "initramfs"} : There(a) THEN Goto("iso") ELSE Goto("idle")
  /\ UNCHANGED <<tree, iso, history, mkVars>>

(* --make-iso: five artifacts must be there. *)
CheckArtifacts ==
  /\ at = "check"
  /\ IF \A a \in {"squashfs", "initramfs", "menu", "efi", "bios"} : There(a)
       THEN Goto("iso") ELSE Goto("idle")
  /\ UNCHANGED <<tree, iso, history, mkVars>>

(* xorriso writes the ISO in place; --make-iso names it as a live one. *)
Packaged ==
  [state |-> "ready", name |-> IF kind = "netinstall" THEN "netinstall" ELSE "live",
   emptied |-> emptied, moved |-> dir # home, tree |-> tree[dir]]

MakeIso ==
  /\ at = "iso"
  /\ iso' = Packaged
  /\ Goto("idle")
  /\ UNCHANGED <<tree, history, mkVars>>

(* The sysroot must have init and the marker of hook 55. *)
VerifySysroot ==
  /\ at = "verify"
  /\ {"init", "55-ssh-hostkeys"} \subseteq img.parts
  /\ Goto("report")
  /\ UNCHANGED <<tree, iso, history, mkVars>>

(* SYSROOT READY *)
ReportSysroot ==
  /\ at = "report"
  /\ Goto("idle")
  /\ MkReset
  /\ UNCHANGED <<tree, iso, history>>

-----------------------------------------------------------------------------
(* What a command that fails, or is killed, leaves of its work. *)
Torn(a) == {tree, [Written(a) EXCEPT ![dir].cut = @ \cup {a}]}

Remains ==
  CASE at = "wipe"     -> {[tree EXCEPT ![dir].by = [a \in Artifacts |-> IF a \in gone THEN 0 ELSE @[a]]] :
                             gone \in Removals}
    [] at \in Artifacts -> Torn(at)
    [] at = "mk" /\ kind \in Makes /\ img # NoImage -> {WithImage}
    [] OTHER           -> {tree}

(* The run ends there: ^C, SIGKILL, or set -e. *)
Stop ==
  /\ at # "idle"
  /\ tree' \in Remains
  /\ iso' = (IF at = "iso" THEN TornIso ELSE iso)
  /\ MkReset
  /\ Goto("idle")
  /\ UNCHANGED history

Step ==
  \/ Wipe \/ MakeSquashfs \/ SumSquashfs \/ CopyKernel \/ PopulateExtra
  \/ Mkinitramfs \/ MkinitramfsDone \/ WriteMenu \/ MakeEfi \/ MakeBios
  \/ CheckArtifacts \/ MakeIso \/ VerifySysroot \/ ReportSysroot

Next == Begin \/ Step \/ Stop

Spec == Init /\ [][Next]_vars

-----------------------------------------------------------------------------
(* Properties *)

(* An ISO is of one run: whatever runs were stopped where, and whether it  *)
(* is made by the run itself or by --make-iso from what is there, all the  *)
(* files in it come from one run, of the profile the ISO is named for, and *)
(* are whole, eltorito.img excepted, whose existence is all that is looked *)
(* at (build.sh:503-509, 539, 1036-1038).                                  *)
OneGeneration ==
  iso.state = "ready" =>
    /\ \A a, b \in Artifacts : 0 \in {iso.tree.by[a], iso.tree.by[b]} \/ iso.tree.by[a] = iso.tree.by[b]
    /\ iso.tree.cut \subseteq {"bios"}
    /\ iso.tree.profile = iso.name

(* The sum in the initramfs and the one on the medium are those of the     *)
(* squashfs beside them, or are empty or absent because sha256sum or hook  *)
(* 50 failed unnoticed (build.sh:618, 841-842; 50-live-config:7-8): the    *)
(* live boot never compares with the sum of another build.                 *)
SumChain ==
  iso.state = "ready" /\ iso.name = "live" =>
    LET t == iso.tree
        g == t.by["squashfs"]
    IN /\ g # 0
       /\ t.sum = g \/ (t.sum = 0 /\ (g \in unsummed \/ t.by["sum"] = 0))
       /\ t.image.baked = g \/ (t.image.baked = 0 /\ (g \in unsummed \/ "50-live-config" \in t.missed))

(* What an image lacks is what failed without anybody looking, never what  *)
(* the order of the steps lost: for every ISO that was finished, every     *)
(* sysroot that was reported ready, which has its init and marker in any   *)
(* case, and every mkinitramfs that exits with 0.                          *)
LacksOnlyMissed ==
  /\ iso.state = "ready" => Needed(iso.tree.profile) \ iso.tree.image.parts \subseteq iso.tree.missed
  /\ mk = "exit 0" => Needed(profile) \ img.parts \subseteq missed
  /\ at = "report" => /\ Needed("embedded") \ img.parts \subseteq missed
                      /\ {"init", "55-ssh-hostkeys"} \subseteq img.parts

(* An ISO holds the last image that was begun, not an older one that lay   *)
(* around, unless the work directory moved in between because the space    *)
(* did (build.sh:69-93, 217-228, 501-509).                                 *)
LatestUnlessMoved ==
  iso.state = "ready" => iso.tree.by["initramfs"] = iso.emptied \/ iso.moved

(* HOOKS-AND-PHASES.md:13: a hook that returns non-zero aborts the build.  *)
HookFailureAborts == ~(refused /\ mk = "exit 0")

=============================================================================
