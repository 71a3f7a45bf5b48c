----------------------------- MODULE MicroInit -----------------------------
(***************************************************************************)
(* initramfs/init, the orchestrator that runs as PID 1: it resolves the    *)
(* boot mode, sources the profile library and sources every phase of       *)
(* /libexec in order.  The work of a phase is abstracted to the ways it    *)
(* can end in each mode; LiveBoot refines the live profile's phases.       *)
(***************************************************************************)
EXTENDS Naturals, Sequences, Progress

CONSTANTS
  Markers,        \* contents /etc/neonatox-mode may have (without NoMarker)
  NoMarker        \* the file does not exist

VARIABLES
  (* what the machine boots with; no step changes it *)
  flags,      \* which of netinstall=1 and root= are on the command line
  marker,     \* the content of /etc/neonatox-mode, or NoMarker
  dbg,        \* initrd_debug, handed over by the kernel as a variable
  hooks,      \* what /libexec/99-hooks.d holds
  (* the state of the script *)
  pc,         \* where the script is
  mode,       \* MODE
  libs,       \* profile libraries sourced so far
  at, last, pid1,   \* as in BootContract
  target      \* disk: may the mounted root's init be executed?

inputs == <<flags, marker, dbg, hooks>>
vars   == <<flags, marker, dbg, hooks, pc, mode, libs, at, last, pid1, target>>

(* The files of /libexec, in the lexical order the glob of the loop gives. *)
LibExec == << "10-mount-basic", "20-load-modules", "30-scan-devices",
              "40-overlay", "50-network", "60-switch-root", "99-hooks" >>

Phase == IF at = 0 THEN "none" ELSE LibExec[at]

ShellModes == {"netinstall", "embedded"}
KnownModes == ShellModes \cup {"live", "disk"}

ASSUME MarkersAssumption == NoMarker \notin Markers \cup KnownModes

TypeOK ==
  /\ flags  \in SUBSET {"netinstall=1", "root="}
  /\ marker \in Markers \cup {NoMarker}
  /\ dbg    \in 0..3
  /\ hooks  \in {"empty", "succeed", "fail"}
  /\ pc     \in {"mode", "libs", "loop", "phase", "over"}
  /\ mode   \in KnownModes \cup Markers
  /\ libs   \in SUBSET {"live", "net", "disk", "embedded"}
  /\ at     \in 0..Len(LibExec)
  /\ last   \in {"none", "zero", "nonzero"}
  /\ pid1   \in {"init", "shell", "system", "panic"}
  /\ target \in BOOLEAN

Init ==
  /\ flags  \in SUBSET {"netinstall=1", "root="}
  /\ marker \in Markers \cup {NoMarker}
  /\ dbg    \in 0..3
  /\ hooks  \in {"empty", "succeed", "fail"}
  /\ pc   = "mode"
  /\ mode = "live"
  /\ libs = {}
  /\ at   = 0
  /\ last = "zero"
  /\ pid1 = "init"
  /\ target \in BOOLEAN

-----------------------------------------------------------------------------
(* The ways a step can end: PID 1 is replaced, or the phase returns. *)

Becomes(p) ==
  /\ pid1' = p
  /\ pc'   = "over"
  /\ UNCHANGED <<inputs, mode, libs, at, last, target>>

Returns(status) ==
  /\ last' = status
  /\ pc'   = "loop"
  /\ UNCHANGED <<inputs, mode, libs, at, pid1, target>>

-----------------------------------------------------------------------------
(* The mode: netinstall=1 wins; a marker hides root=; an empty marker is   *)
(* live.                                                                   *)
(* A faulty variant, for the mutation run: root= is tried before the marker. *)
ResolvedModeRootFirst ==
  LET baked == IF marker = NoMarker \/ marker = "" THEN "live" ELSE marker
  IN IF "netinstall=1" \in flags THEN "netinstall"
     ELSE IF "root=" \in flags THEN "disk"
     ELSE baked

ResolvedMode ==
  LET baked == IF marker = NoMarker \/ marker = "" THEN "live" ELSE marker
  IN IF "netinstall=1" \in flags THEN "netinstall"
     ELSE IF marker = NoMarker /\ "root=" \in flags THEN "disk"
     ELSE baked

ResolveMode ==
  /\ pc = "mode"
  /\ mode' = ResolvedMode
  /\ pc'   = "libs"
  /\ UNCHANGED <<inputs, libs, at, last, pid1, target>>

(* A mode the case does not know sources no library and is not an error. *)
SourceLibs ==
  /\ pc = "libs"
  /\ libs' = CASE mode = "live"       -> {"live"}
               [] mode = "netinstall" -> {"live", "net"}
               [] mode = "disk"       -> {"disk"}
               [] mode = "embedded"   -> {"embedded"}
               [] OTHER               -> {}
  /\ pc' = "loop"
  /\ UNCHANGED <<inputs, mode, at, last, pid1, target>>

(* Faulty variants: no end to the list; the status of the phase ignored; a *)
(* failed phase run again.                                                 *)
EnterPhaseUnbounded ==
  /\ pc = "loop" /\ last = "zero"
  /\ at' = at + 1 /\ last' = "none" /\ pc' = "phase"
  /\ UNCHANGED <<inputs, mode, libs, pid1, target>>

EnterPhaseRegardless ==
  /\ pc = "loop" /\ at < Len(LibExec)
  /\ at' = at + 1 /\ last' = "none" /\ pc' = "phase"
  /\ UNCHANGED <<inputs, mode, libs, pid1, target>>

PhaseFailedRetries ==
  /\ pc = "loop" /\ last = "nonzero"
  /\ last' = "none" /\ pc' = "phase"
  /\ UNCHANGED <<inputs, mode, libs, at, pid1, target>>

(* The loop: `. "$phase" "$MODE" || emergency_shell`. *)
EnterPhase ==
  /\ pc = "loop"
  /\ last = "zero"
  /\ at < Len(LibExec)
  /\ at'   = at + 1
  /\ last' = "none"
  /\ pc'   = "phase"
  /\ UNCHANGED <<inputs, mode, libs, pid1, target>>

PhaseFailed ==
  /\ pc = "loop"
  /\ last = "nonzero"
  /\ Becomes("shell")

(* After the last phase the script ends, and with it PID 1. *)
LoopEnds ==
  /\ pc = "loop"
  /\ last = "zero"
  /\ at = Len(LibExec)
  /\ Becomes("panic")

-----------------------------------------------------------------------------
(* The phases. *)

Running(p) == pc = "phase" /\ Phase = p

(* 10 and 20 end in an echo and in an if: they return 0 in every mode. *)
MountBasic  == Running("10-mount-basic")  /\ Returns("zero")
LoadModules == Running("20-load-modules") /\ Returns("zero")

(* 30: a missing /rootfs.sha256 or no media found is non-zero; level 1     *)
(* stops between the two.                                                  *)
ScanDevices ==
  /\ Running("30-scan-devices")
  /\ IF mode # "live" THEN Returns("zero")
     ELSE \/ Returns("nonzero")
          \/ dbg = 1 /\ Becomes("shell")
          \/ dbg # 1 /\ Returns("zero")

(* 40: any of the storage steps may fail; levels 2 and 3 stop inside it. *)
Overlay ==
  /\ Running("40-overlay")
  /\ IF mode # "live" THEN Returns("zero")
     ELSE \/ Returns("nonzero")
          \/ dbg \in {2, 3} /\ Becomes("shell")
          \/ dbg \notin {2, 3} /\ Returns("zero")

(* 50: the shell profiles' network; setup_ssh ends in an echo either way. *)
Network == Running("50-network") /\ Returns("zero")

(* 60: live execs switch_root into an init setup_newroot found; the shell  *)
(* profiles exec a shell; disk stops at a missing root=, a udev or a mount *)
(* failure, is left for the hibernated system the kernel resumes, and else *)
(* execs switch_root without a look at the init it names; an unknown mode  *)
(* matches no branch.                                                      *)
SwitchLive == mode = "live" /\ Becomes("system")

EndInShell == mode \in ShellModes /\ Becomes("shell")

SwitchDisk ==
  /\ mode = "disk"
  /\ \/ Becomes("shell")
     \/ "root=" \in flags /\ Becomes("system")
     \/ "root=" \in flags /\ ~target /\ Becomes("panic")

NoBranch == mode \notin KnownModes /\ Returns("zero")

SwitchRootPhase ==
  /\ Running("60-switch-root")
  /\ SwitchLive \/ EndInShell \/ SwitchDisk \/ NoBranch

(* A faulty variant: `|| true` after the hooks. *)
UserHooksTolerant == Running("99-hooks") /\ Returns("zero")

(* 99: the status is that of the last `[ -f ] && .`: an unmatched glob is  *)
(* non-zero.                                                               *)
UserHooks ==
  /\ Running("99-hooks")
  /\ Returns(IF hooks = "succeed" THEN "zero" ELSE "nonzero")

(* ^C: the trap of init-common.sh execs a shell at any point. *)
Interrupt ==
  /\ pc # "over"
  /\ Becomes("shell")

Step ==
  \/ ResolveMode \/ SourceLibs
  \/ EnterPhase \/ PhaseFailed \/ LoopEnds
  \/ MountBasic \/ LoadModules \/ ScanDevices \/ Overlay
  \/ Network \/ SwitchRootPhase \/ UserHooks

Next == Step \/ Interrupt

Spec == Init /\ [][Next]_vars

(* What the network phase may wait for without a limit: a user in the WiFi *)
(* script, a DHCP server that never answers it, an NTP server (NetBoot).   *)
Waits == Running("50-network") /\ mode \in ShellModes

(* The kernel schedules PID 1 and every other wait of the script ends. *)
FairSpec == Spec /\ WF_vars(Step /\ ~Waits)

-----------------------------------------------------------------------------
(* Properties *)

(* What is left to do: phases to enter, and steps up to the next one.      *)
StepsLeft ==
  CASE pc = "mode" -> 3 [] pc \in {"libs", "phase"} -> 2 [] pc = "loop" -> 1 [] OTHER -> 0

BootLeft == << Len(LibExec) - at, StepsLeft >>

(* In every mode and however the phases return, init goes through its list *)
(* once: no step of it leaves as much to do as there was (init:41-46).     *)
BootAdvances == [][IsMeasure(BootLeft') /\ Precedes(BootLeft', BootLeft)]_vars

(* The phase contract of HOOKS-AND-PHASES.md, as an abstract machine that  *)
(* the loop of init, with every profile's ending, must implement.          *)
Contract == INSTANCE BootContract WITH Phases      <- Len(LibExec),
                                       SwitchPhase <- 6
HonoursContract == Contract!Spec

(* An embedded image never leaves for a disk: whatever root= says, its     *)
(* PID 1 ends as a shell (init:14-32, the reason the marker exists).       *)
EmbeddedStays ==
  marker = "embedded" /\ "netinstall=1" \notin flags
    => pid1 \in {"init", "shell"} /\ libs \subseteq {"embedded"}

(* PID 1 dies only where the code really lets it: in a disk boot whose     *)
(* root has no init to execute, or by running off the end in a mode no     *)
(* profile implements.                                                     *)
PanicOnlyWhen ==
  pid1 = "panic" => \/ mode = "disk" /\ ~target
                    \/ mode \notin KnownModes /\ hooks = "succeed"

(* Whatever the mode and however the phases end, PID 1 stops being the     *)
(* script, unless a server or the user keeps it in the network phase.      *)
HandsOver == <>(pid1 # "init") \/ <>[]Waits

=============================================================================
