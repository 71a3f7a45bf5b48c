---------------------------- MODULE MkInitramfs ----------------------------
(***************************************************************************)
(* mkinitramfs: one run of the script, for any profile.  It has no set -e: *)
(* of most commands nobody looks at the status, so that a copy which fails *)
(* leaves its part out of the image and the script goes on.  What the      *)
(* script copies is told apart by parts only; IsoBuild extends this module *)
(* with build.sh.                                                          *)
(***************************************************************************)
EXTENDS Naturals, Sequences

CONSTANT MaxFaults   \* bound on the failures of one history that nobody looks at

ASSUME MaxFaultsAssumption == MaxFaults \in Nat

VARIABLES
  mk,        \* where the script is
  profile,   \* PROFILE
  left,      \* the hooks of the phase that have yet to run
  wdir,      \* the parts in WDIR
  baked,     \* the sum in WDIR/rootfs.sha256; 0 is an empty or absent file
  extra,     \* the sum in EXTRA_DIR/rootfs.sha256
  packed,    \* INITRAMFS_FILE.tmp
  img,       \* INITRAMFS_FILE, or the sysroot of an embedded run
  (* history *)
  missed,    \* the parts whose commands failed unnoticed
  refused,   \* a hook returned non-zero
  faults     \* failures nobody looked at, in this run and those before

mkRun  == <<mk, profile, left, wdir, baked, extra, packed, img, missed, refused>>
mkVars == <<mkRun, faults>>

Profiles == {"disk", "live", "netinstall", "embedded"}

(* The hooks of the project, in the order of the globs; 50-plymouth is not *)
(* executable.  No other phase has any.                                    *)
PreBinaries == << "10-reboot-poweroff", "20-passwd-shadow", "30-devices" >>
PrePack     == << "40-wifi-wizard", "50-live-config", "55-ssh-hostkeys",
                  "60-netinstall-config", "62-embedded-etc", "70-bootstrap" >>

Hooks == {PreBinaries[i] : i \in DOMAIN PreBinaries} \cup {PrePack[i] : i \in DOMAIN PrePack}
Parts == {"init", "applets", "tools", "libs", "modules", "whole"} \cup Hooks

(* A hook begins by leaving the profiles it is not for. *)
Serves(h) ==
  CASE h = "50-live-config"                                -> {"live"}
    [] h \in {"55-ssh-hostkeys", "60-netinstall-config"}   -> {"netinstall", "embedded"}
    [] h = "62-embedded-etc"                               -> {"embedded"}
    [] h = "70-bootstrap"                                  -> {"netinstall"}
    [] OTHER                                               -> Profiles

(* What a run in which every command works puts into the image. *)
Needed(p) ==
  {"init", "applets", "tools", "whole"} \cup {h \in Hooks : p \in Serves(h)}
    \cup (IF p = "disk" THEN {"libs"} ELSE {})
    \cup (IF p = "embedded" THEN {} ELSE {"modules"})

(* An image; "whole" is one of its parts if it was packed and written to   *)
(* its end.                                                                *)
Image   == [parts : SUBSET Parts, baked : Nat]
NoImage == [parts |-> {}, baked |-> 0]

MkPlaces == {"off", "checks", "stage", "pre-binaries", "busybox", "applets", "tools",
             "libs", "modules", "pre-pack", "pack", "microcode", "cat", "exit 0", "exit 1"}

MkTypeOK ==
  /\ mk \in MkPlaces /\ profile \in Profiles
  /\ left \in Seq(Hooks)
  /\ wdir \subseteq Parts /\ missed \subseteq Parts
  /\ baked \in Nat /\ extra \in Nat
  /\ packed \in Image /\ img \in Image
  /\ refused \in BOOLEAN /\ faults \in 0..MaxFaults

-----------------------------------------------------------------------------
Lands(p) == wdir' = wdir \cup {p} /\ UNCHANGED <<missed, faults>>

Fault == faults < MaxFaults /\ faults' = faults + 1

(* The command fails and its status is lost. *)
Misses(p) ==
  /\ Fault
  /\ missed' = missed \cup {p}
  /\ UNCHANGED wdir

Copies(p) == Lands(p) \/ Misses(p)

MkGoto(place) == mk' = place /\ UNCHANGED <<profile, extra>>

(* The arguments, the modules of the kernel and the project directory are  *)
(* looked at before anything is touched.                                   *)
CheckArguments ==
  /\ mk = "checks"
  /\ MkGoto("stage") \/ MkGoto("exit 1")
  /\ UNCHANGED <<left, wdir, baked, packed, img, missed, refused, faults>>

(* WDIR is emptied; init, lib and libexec go first. *)
Stage ==
  /\ mk = "stage"
  /\ Copies("init")
  /\ left' = PreBinaries
  /\ MkGoto("pre-binaries")
  /\ UNCHANGED <<baked, packed, img, refused>>

(* A hook for another profile leaves at once; one whose tree was removed   *)
(* under it (CopyLibraries) cannot write.                                  *)
Runs(h) ==
  IF profile \notin Serves(h) THEN UNCHANGED <<wdir, missed, faults>>
  ELSE IF "libs" \in missed THEN missed' = missed \cup {h} /\ UNCHANGED <<wdir, faults>>
  ELSE Copies(h)

(* run_hooks.  The project's hooks end in `exit 0` whatever failed in them; *)
(* a hook that does not, or that cannot run, ends its phase, and the       *)
(* callers of run_hooks do not look.                                       *)
RunHook ==
  /\ mk \in {"pre-binaries", "pre-pack"} /\ left # << >>
  /\ LET h == Head(left)
     IN \/ /\ left' = Tail(left)
           /\ Runs(h)
           /\ baked' = IF h = "50-live-config" /\ h \in wdir' THEN extra ELSE baked
           /\ UNCHANGED refused
        \/ /\ Fault
           /\ left' = << >>
           /\ missed' = missed \cup {left[i] : i \in DOMAIN left}
           /\ refused' = TRUE
           /\ UNCHANGED <<wdir, baked>>
  /\ UNCHANGED <<mk, profile, extra, packed, img>>

HooksOver ==
  /\ mk \in {"pre-binaries", "pre-pack"} /\ left = << >>
  /\ MkGoto(IF mk = "pre-binaries" THEN "busybox" ELSE "pack")
  /\ UNCHANGED <<left, wdir, baked, packed, img, missed, refused, faults>>

(* The one tool whose absence ends the script. *)
SelectBusybox ==
  /\ mk = "busybox"
  /\ \/ MkGoto("applets") /\ UNCHANGED <<wdir, baked>>
     \/ MkGoto("exit 1") /\ wdir' = {} /\ baked' = 0
  /\ UNCHANGED <<left, packed, img, missed, refused, faults>>

(* `exit 1` of applet_symlinks, for a busybox that cannot be run, leaves   *)
(* the subshell only; a tool that is not there is passed over.             *)
LinkApplets ==
  /\ mk = "applets"
  /\ Copies("applets")
  /\ MkGoto("tools")
  /\ UNCHANGED <<left, baked, packed, img, refused>>

InstallRequires ==
  /\ mk = "tools"
  /\ Copies("tools")
  /\ MkGoto("libs")
  /\ UNCHANGED <<left, baked, packed, img, refused>>

(* The libraries of the disk profile's tools.  copy() removes WDIR and     *)
(* exits on one it cannot find, but the loop is the end of a pipeline: it  *)
(* is a subshell that exits, and the script goes on without WDIR.          *)
CopyLibraries ==
  /\ mk = "libs"
  /\ IF profile # "disk" THEN UNCHANGED <<wdir, baked, missed, faults>>
     ELSE \/ Lands("libs") /\ UNCHANGED baked
          \/ /\ Fault
             /\ wdir' = {} /\ baked' = 0
             /\ missed' = missed \cup wdir \cup {"libs"}
  /\ MkGoto("modules")
  /\ UNCHANGED <<left, packed, img, refused>>

CopyModules ==
  /\ mk = "modules"
  /\ IF profile = "embedded" THEN UNCHANGED <<wdir, missed, faults>> ELSE Copies("modules")
  /\ left' = PrePack
  /\ MkGoto("pre-pack")
  /\ UNCHANGED <<baked, packed, img, refused>>

-----------------------------------------------------------------------------
(* cpio and the compressor: neither status is looked at.  An embedded run  *)
(* copies the tree instead and is done.                                    *)
Pack ==
  /\ mk = "pack"
  /\ Copies("whole")
  /\ IF profile = "embedded"
       THEN /\ img' = [parts |-> wdir', baked |-> baked]
            /\ MkGoto("exit 0")
            /\ UNCHANGED packed
       ELSE /\ packed' = [parts |-> wdir', baked |-> baked]
            /\ MkGoto("microcode")
            /\ UNCHANGED img
  /\ UNCHANGED <<left, baked, refused>>

(* Without microcode on the build host the finished file is renamed; with  *)
(* some, it is appended to a file that has the final name from the start.  *)
AddMicrocode ==
  /\ mk = "microcode"
  /\ \/ MkGoto("exit 0") /\ img' = packed
     \/ MkGoto("cat") /\ img' = [packed EXCEPT !.parts = @ \ {"whole"}]
  /\ UNCHANGED <<left, wdir, baked, packed, missed, refused, faults>>

(* Faulty variant: the image is not appended. *)
CatMicrocodeAlone ==
  /\ mk = "cat"
  /\ img' = NoImage
  /\ MkGoto("exit 0")
  /\ UNCHANGED <<left, wdir, baked, packed, missed, refused, faults>>

CatMicrocode ==
  /\ mk = "cat"
  /\ \/ img' = packed /\ UNCHANGED <<missed, faults>>
     \/ Misses("whole") /\ UNCHANGED img
  /\ MkGoto("exit 0")
  /\ UNCHANGED <<left, wdir, baked, packed, refused>>

MkStep ==
  \/ CheckArguments \/ Stage \/ RunHook \/ HooksOver
  \/ SelectBusybox \/ LinkApplets \/ InstallRequires \/ CopyLibraries \/ CopyModules
  \/ Pack \/ AddMicrocode \/ CatMicrocode

=============================================================================
