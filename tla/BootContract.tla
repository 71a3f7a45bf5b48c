---------------------------- MODULE BootContract ----------------------------
(***************************************************************************)
(* The runtime phase contract of the initramfs, stated without any of the  *)
(* phases' work (HOOKS-AND-PHASES.md, "Contrato de fase runtime"):         *)
(*                                                                         *)
(*   - the phases of /libexec are sourced one after the other, in order;   *)
(*   - a phase that returns non-zero never lets the next one start: PID 1  *)
(*     becomes the emergency shell;                                        *)
(*   - PID 1 stops being the init script exactly once: it becomes a shell, *)
(*     or the booted system, or it is lost (the kernel panics);            *)
(*   - only the switch-root phase may boot a system.                       *)
(*                                                                         *)
(* MicroInit, and LiveBoot for the live profile, are shown to implement    *)
(* this module.                                                            *)
(***************************************************************************)
EXTENDS Naturals

CONSTANTS
  Phases,       \* how many files match /libexec/[0-9][0-9]-*
  SwitchPhase   \* the position of 60-switch-root among them

VARIABLES
  at,     \* position of the phase being, or last, sourced; 0 before the first
  last,   \* its return status: "none" while it runs, "zero" or "nonzero"
  pid1    \* what process 1 is

vars == <<at, last, pid1>>

Statuses  == {"none", "zero", "nonzero"}
Processes == {"init", "shell", "system", "panic"}

Init ==
  /\ at   = 0
  /\ last = "zero"
  /\ pid1 = "init"

(* The loop sources the next phase, only over a zero status. *)
Enter ==
  /\ pid1 = "init"
  /\ last = "zero"
  /\ at < Phases
  /\ at'   = at + 1
  /\ last' = "none"
  /\ UNCHANGED pid1

(* The running phase returns. *)
Return ==
  /\ pid1 = "init"
  /\ last = "none"
  /\ last' \in {"zero", "nonzero"}
  /\ UNCHANGED <<at, pid1>>

(* An emergency, a debug breakpoint, the end of a shell profile or ^C. *)
BecomeShell ==
  /\ pid1 = "init"
  /\ pid1' = "shell"
  /\ UNCHANGED <<at, last>>

(* switch_root is exec'ed; it replaces PID 1, or dies as PID 1. *)
SwitchRoot ==
  /\ pid1 = "init"
  /\ at = SwitchPhase
  /\ last = "none"
  /\ pid1' \in {"system", "panic"}
  /\ UNCHANGED <<at, last>>

(* The script reaches its end: PID 1 exits. *)
RunOff ==
  /\ pid1 = "init"
  /\ at = Phases
  /\ last = "zero"
  /\ pid1' = "panic"
  /\ UNCHANGED <<at, last>>

Next == Enter \/ Return \/ BecomeShell \/ SwitchRoot \/ RunOff

Spec == Init /\ [][Next]_vars

=============================================================================
