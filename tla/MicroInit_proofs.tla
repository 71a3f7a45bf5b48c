-------------------------- MODULE MicroInit_proofs --------------------------
(***************************************************************************)
(* Theorems about MicroInit, for every set of markers an image may carry.  *)
(***************************************************************************)
EXTENDS MicroInit, TLAPS

(* Where the script is says what PID 1 is and what the last phase did:     *)
(* the loop is only at its head between phases, and only "over" replaced   *)
(* PID 1.  The inductive invariant behind the refinement.                  *)
Control ==
  /\ pc \in {"mode", "libs"} => at = 0 /\ last = "zero"
  /\ pc = "phase" => last = "none" /\ at \in 1..7
  /\ pc = "loop"  => last \in {"zero", "nonzero"}
  /\ pc = "over" <=> pid1 # "init"
  /\ at = 7 /\ last = "zero" => hooks = "succeed"

(* In a mode with a profile, control never comes back from phase 60. *)
NoReturn ==
  mode \in KnownModes => /\ at <= 6
                         /\ at = 6 => pc \in {"phase", "over"}

(* EmbeddedStays is not inductive alone: it holds because, from the moment *)
(* the mode is resolved until PID 1 is replaced, the mode is embedded.     *)
EmbeddedMode ==
  marker = "embedded" /\ "netinstall=1" \notin flags /\ pc \notin {"mode", "over"}
    => mode = "embedded"

EmbeddedInv == EmbeddedStays /\ EmbeddedMode

IInv == TypeOK /\ Control /\ NoReturn

LEMMA LibExecLength == Len(LibExec) = 7
BY DEF LibExec

LEMMA PhaseNames ==
  /\ LibExec[1] = "10-mount-basic" /\ LibExec[2] = "20-load-modules"
  /\ LibExec[3] = "30-scan-devices" /\ LibExec[4] = "40-overlay"
  /\ LibExec[5] = "50-network" /\ LibExec[6] = "60-switch-root"
  /\ LibExec[7] = "99-hooks"
BY DEF LibExec

(* The name of the running phase gives its position. *)
LEMMA PhasePositions ==
  ASSUME TypeOK
  PROVE  /\ Running("10-mount-basic")  => at = 1
         /\ Running("20-load-modules") => at = 2
         /\ Running("30-scan-devices") => at = 3
         /\ Running("40-overlay")      => at = 4
         /\ Running("50-network")      => at = 5
         /\ Running("60-switch-root")  => at = 6
         /\ Running("99-hooks")        => at = 7
BY LibExecLength, PhaseNames DEF TypeOK, Running, Phase

LEMMA IInvInit == Init => IInv
BY LibExecLength DEF Init, IInv, TypeOK, Control, NoReturn, KnownModes

LEMMA IInvStep == IInv /\ [Next]_vars => IInv'
<1> SUFFICES ASSUME IInv, [Next]_vars PROVE IInv'
  OBVIOUS
<1> USE LibExecLength DEF IInv, TypeOK, Control, NoReturn, inputs
<1>1. CASE ResolveMode
  <2>1. ResolvedMode \in KnownModes \cup Markers
    BY DEF ResolvedMode, KnownModes, ShellModes
  <2> QED BY <1>1, <2>1 DEF ResolveMode
<1>2. CASE SourceLibs
  <2>1. libs' \in SUBSET {"live", "net", "disk", "embedded"}
    BY <1>2 DEF SourceLibs
  <2> QED BY <1>2, <2>1 DEF SourceLibs
<1>3. CASE EnterPhase
  BY <1>3 DEF EnterPhase
<1>4. CASE PhaseFailed
  BY <1>4 DEF PhaseFailed, Becomes
<1>5. CASE LoopEnds
  BY <1>5 DEF LoopEnds, Becomes
<1>6. CASE MountBasic
  <2>1. at = 1
    BY <1>6, PhasePositions DEF MountBasic
  <2> QED
    BY <1>6, <2>1 DEF MountBasic, Running, Returns
<1>7. CASE LoadModules
  <2>1. at = 2
    BY <1>7, PhasePositions DEF LoadModules
  <2> QED
    BY <1>7, <2>1 DEF LoadModules, Running, Returns
<1>8. CASE ScanDevices
  <2>1. at = 3 /\ pc = "phase"
    BY <1>8, PhasePositions DEF ScanDevices, Running
  <2>2. ASSUME NEW status \in {"zero", "nonzero"}, Returns(status) PROVE IInv'
    BY <2>1, <2>2 DEF Returns
  <2>3. CASE Becomes("shell")
    BY <2>1, <2>3 DEF Becomes
  <2> QED
    BY <1>8, <2>2, <2>3 DEF ScanDevices
<1>9. CASE Overlay
  <2>1. at = 4 /\ pc = "phase"
    BY <1>9, PhasePositions DEF Overlay, Running
  <2>2. ASSUME NEW status \in {"zero", "nonzero"}, Returns(status) PROVE IInv'
    BY <2>1, <2>2 DEF Returns
  <2>3. CASE Becomes("shell")
    BY <2>1, <2>3 DEF Becomes
  <2> QED
    BY <1>9, <2>2, <2>3 DEF Overlay
<1>10. CASE Network
  <2>1. at = 5
    BY <1>10, PhasePositions DEF Network
  <2> QED
    BY <1>10, <2>1 DEF Network, Running, Returns
<1>11. CASE SwitchRootPhase
  <2>1. at = 6 /\ pc = "phase"
    BY <1>11, PhasePositions DEF SwitchRootPhase, Running
  <2>2. CASE NoBranch
    BY <2>1, <2>2 DEF NoBranch, Returns
  <2>3. CASE Becomes("shell") \/ Becomes("system") \/ Becomes("panic")
    BY <2>1, <2>3 DEF Becomes
  <2> QED
    BY <1>11, <2>2, <2>3 DEF SwitchRootPhase, SwitchLive, EndInShell, SwitchDisk
<1>12. CASE UserHooks
  <2>1. at = 7
    BY <1>12, PhasePositions DEF UserHooks
  <2> QED
    BY <1>12, <2>1 DEF UserHooks, Running, Returns
<1>13. CASE Interrupt
  BY <1>13 DEF Interrupt, Becomes
<1>14. CASE UNCHANGED vars
  BY <1>14 DEF vars
<1> QED
  BY <1>1, <1>2, <1>3, <1>4, <1>5, <1>6, <1>7, <1>8, <1>9, <1>10, <1>11,
     <1>12, <1>13, <1>14 DEF Next, Step

(* Type correctness: init never holds a mode, a status or a phase outside  *)
(* the ones its code names.                                                *)
THEOREM TypeCorrect == Spec => []TypeOK
<1>1. Spec => []IInv
  BY IInvInit, IInvStep, PTL DEF Spec
<1>2. IInv => TypeOK
  BY DEF IInv
<1> QED BY <1>1, <1>2, PTL

LEMMA ContractInit == Init => Contract!Init
BY DEF Init, Contract!Init

LEMMA ContractStep == IInv /\ [Next]_vars => [Contract!Next]_(Contract!vars)
<1> SUFFICES ASSUME IInv, [Next]_vars PROVE [Contract!Next]_(Contract!vars)
  OBVIOUS
<1> USE LibExecLength DEF IInv, Control, Contract!Next, Contract!vars
<1>1. CASE ResolveMode \/ SourceLibs
  BY <1>1 DEF ResolveMode, SourceLibs
<1>2. CASE EnterPhase
  BY <1>2 DEF EnterPhase, Contract!Enter
<1>3. CASE PhaseFailed \/ Interrupt
  BY <1>3 DEF PhaseFailed, Interrupt, Becomes, Contract!BecomeShell
<1>4. CASE LoopEnds
  BY <1>4 DEF LoopEnds, Becomes, Contract!RunOff
<1>5. CASE MountBasic \/ LoadModules \/ Network \/ UserHooks
  BY <1>5 DEF MountBasic, LoadModules, Network, UserHooks, Running, Returns,
              Contract!Return
<1>6. CASE ScanDevices \/ Overlay
  BY <1>6 DEF ScanDevices, Overlay, Running, Returns, Becomes,
              Contract!Return, Contract!BecomeShell
<1>7. CASE SwitchRootPhase
  <2>1. at = 6
    BY <1>7, PhasePositions DEF SwitchRootPhase
  <2> QED
    BY <1>7, <2>1 DEF SwitchRootPhase, SwitchLive, EndInShell, SwitchDisk, NoBranch,
              Running, Returns, Becomes,
       Contract!Return, Contract!BecomeShell, Contract!SwitchRoot
<1>8. CASE UNCHANGED vars
  BY <1>8 DEF vars
<1> QED
  BY <1>1, <1>2, <1>3, <1>4, <1>5, <1>6, <1>7, <1>8 DEF Next, Step

(* init implements the phase contract: whatever the marker, the command    *)
(* line and the way each phase ends, phases run in order, a failed one     *)
(* never lets the next start, and PID 1 is handed over once.               *)
THEOREM ImplementsContract == Spec => HonoursContract
<1>1. Spec => []IInv
  BY IInvInit, IInvStep, PTL DEF Spec
<1> QED
  BY <1>1, ContractInit, ContractStep, PTL
  DEF Spec, HonoursContract, Contract!Spec

LEMMA EmbeddedInvInit == Init => EmbeddedInv
BY DEF Init, EmbeddedInv, EmbeddedStays, EmbeddedMode

LEMMA EmbeddedInvStep ==
  IInv /\ EmbeddedInv /\ [Next]_vars => EmbeddedInv'
<1> SUFFICES ASSUME IInv, EmbeddedInv, [Next]_vars,
                    marker' = "embedded", "netinstall=1" \notin flags'
             PROVE  /\ pid1' \in {"init", "shell"}
                    /\ libs' \subseteq {"embedded"}
                    /\ pc' \notin {"mode", "over"} => mode' = "embedded"
  BY DEF EmbeddedInv, EmbeddedStays, EmbeddedMode
<1>0. /\ UNCHANGED inputs
      /\ marker = "embedded" /\ "netinstall=1" \notin flags
      /\ pid1 \in {"init", "shell"} /\ libs \subseteq {"embedded"}
      /\ pc \notin {"mode", "over"} => mode = "embedded"
  <2>1. UNCHANGED inputs
    BY DEF Next, Step, ResolveMode, SourceLibs, EnterPhase, PhaseFailed,
       LoopEnds, MountBasic, LoadModules, ScanDevices, Overlay, Network,
       SwitchRootPhase, SwitchLive, EndInShell, SwitchDisk, NoBranch,
       UserHooks, Interrupt, Becomes, Returns, inputs, vars
  <2> QED BY <2>1 DEF inputs, EmbeddedInv, EmbeddedStays, EmbeddedMode
<1>00. NoMarker # "embedded"
  BY MarkersAssumption DEF KnownModes, ShellModes
<1> USE <1>0, <1>00
<1>1. CASE ResolveMode
  BY <1>1 DEF ResolveMode, ResolvedMode
<1>2. CASE SourceLibs
  BY <1>2 DEF SourceLibs
<1>3. CASE EnterPhase
  BY <1>3 DEF EnterPhase
<1>4. CASE PhaseFailed \/ Interrupt
  BY <1>4 DEF PhaseFailed, Interrupt, Becomes
<1>5. CASE LoopEnds
  BY <1>5, LibExecLength DEF LoopEnds, IInv, NoReturn, KnownModes, ShellModes
<1>6. CASE MountBasic \/ LoadModules \/ Network \/ UserHooks
  BY <1>6 DEF MountBasic, LoadModules, Network, UserHooks, Running, Returns
<1>7. CASE ScanDevices \/ Overlay
  BY <1>7 DEF ScanDevices, Overlay, Running, Returns, Becomes
<1>8. CASE SwitchRootPhase
  BY <1>8 DEF SwitchRootPhase, SwitchLive, EndInShell, SwitchDisk, NoBranch,
              Running, Returns, Becomes, ShellModes
<1>9. CASE UNCHANGED vars
  BY <1>9 DEF vars
<1> QED
  BY <1>1, <1>2, <1>3, <1>4, <1>5, <1>6, <1>7, <1>8, <1>9 DEF Next, Step

(* An embedded image stays embedded, for every marker set, debug level and *)
(* way the phases end (the property EmbeddedStays of the runs).            *)
THEOREM EmbeddedNeverLeaves == Spec => []EmbeddedStays
<1>1. Spec => []IInv
  BY IInvInit, IInvStep, PTL DEF Spec
<1>2. EmbeddedInv => EmbeddedStays
  BY DEF EmbeddedInv
<1> QED
  BY <1>1, <1>2, EmbeddedInvInit, EmbeddedInvStep, PTL DEF Spec

(* In every mode a profile implements, phase 99 is never entered: phase 60 *)
(* replaces PID 1, so the user's runtime hooks do not run.                 *)
THEOREM HooksUnreachable ==
  Spec => [](mode \in KnownModes => Phase # "99-hooks")
<1>1. Spec => []IInv
  BY IInvInit, IInvStep, PTL DEF Spec
<1>2. IInv => (mode \in KnownModes => Phase # "99-hooks")
  BY LibExecLength, PhaseNames DEF IInv, TypeOK, NoReturn, Phase
<1> QED BY <1>1, <1>2, PTL

LEMMA PanicStep == IInv /\ PanicOnlyWhen /\ [Next]_vars => PanicOnlyWhen'
<1> SUFFICES ASSUME IInv, PanicOnlyWhen, [Next]_vars, pid1' = "panic"
             PROVE  PanicOnlyWhen'
  BY DEF PanicOnlyWhen
<1>1. CASE UNCHANGED vars
  BY <1>1 DEF vars, PanicOnlyWhen
<1>2. ASSUME Next, pc # "over" PROVE PanicOnlyWhen'
  <2>1. pid1 = "init"
    BY <1>2 DEF IInv, Control
  <2>2. LoopEnds \/ SwitchRootPhase
    BY <1>2, <2>1 DEF Next, Step, ResolveMode, SourceLibs, EnterPhase,
       PhaseFailed, MountBasic, LoadModules, ScanDevices, Overlay, Network,
       UserHooks, Interrupt, Becomes, Returns
  <2>3. CASE LoopEnds
    <3>1. hooks = "succeed" /\ mode \notin KnownModes
      BY <2>3, LibExecLength DEF LoopEnds, IInv, Control, NoReturn
    <3> QED BY <2>3, <3>1 DEF LoopEnds, Becomes, inputs, PanicOnlyWhen
  <2>4. CASE SwitchRootPhase
    <3>1. mode = "disk" /\ ~target /\ UNCHANGED <<mode, target>>
      BY <2>4, <2>1 DEF SwitchRootPhase, SwitchLive, EndInShell, SwitchDisk,
                        NoBranch, Becomes, Returns
    <3> QED BY <3>1 DEF PanicOnlyWhen
  <2> QED BY <2>2, <2>3, <2>4
<1>3. Next => pc # "over"
  BY DEF Next, Step, ResolveMode, SourceLibs, EnterPhase, PhaseFailed,
     LoopEnds, MountBasic, LoadModules, ScanDevices, Overlay, Network,
     SwitchRootPhase, UserHooks, Interrupt, Running
<1> QED BY <1>1, <1>2, <1>3

(* PID 1 dies only in a disk boot whose root has no init to execute, or in *)
(* a mode without a profile once its hooks have succeeded.                 *)
THEOREM PanicsAreKnown == Spec => []PanicOnlyWhen
<1>1. Spec => []IInv
  BY IInvInit, IInvStep, PTL DEF Spec
<1>2. Init => PanicOnlyWhen
  BY DEF Init, PanicOnlyWhen
<1> QED
  BY <1>1, <1>2, PanicStep, PTL DEF Spec

-----------------------------------------------------------------------------
(* The script ends: each step lowers BootLeft. *)

LEMMA BootLeftType == TypeOK => IsMeasure(BootLeft)
<1> SUFFICES ASSUME TypeOK PROVE IsMeasure(BootLeft)
  OBVIOUS
<1>1. Len(LibExec) - at \in Nat
  BY LibExecLength DEF TypeOK
<1>2. StepsLeft \in Nat
  BY DEF StepsLeft
<1> QED BY <1>1, <1>2 DEF BootLeft, IsMeasure

LEMMA BootStepAdvances ==
  ASSUME IInv, IInv', Next
  PROVE  Precedes(BootLeft', BootLeft)
<1>1. /\ at \in 0..7 /\ at' \in 0..7 /\ Len(LibExec) = 7 /\ Len(LibExec)' = 7
      /\ pc \in {"mode", "libs", "loop", "phase", "over"}
  BY LibExecLength DEF IInv, TypeOK, LibExec
<1>2. \/ at' > at
      \/ at' = at /\ StepsLeft' < StepsLeft
  <2>1. CASE EnterPhase
    BY <1>1, <2>1 DEF EnterPhase
  <2>2. CASE ~EnterPhase
    <3>1. at' = at
      BY <2>2 DEF Next, Step, ResolveMode, SourceLibs, PhaseFailed, LoopEnds, MountBasic,
                  LoadModules, ScanDevices, Overlay, Network, SwitchRootPhase, SwitchLive,
                  EndInShell, SwitchDisk, NoBranch, UserHooks, Interrupt, Becomes, Returns
    <3>2. \/ pc = "mode" /\ pc' = "libs"
          \/ pc \in {"libs", "phase"} /\ pc' = "loop"
          \/ pc # "over" /\ pc' = "over"
      BY <2>2 DEF Next, Step, ResolveMode, SourceLibs, PhaseFailed, LoopEnds, MountBasic,
                  LoadModules, ScanDevices, Overlay, Network, SwitchRootPhase, SwitchLive,
                  EndInShell, SwitchDisk, NoBranch, UserHooks, Interrupt, Becomes, Returns,
                  Running
    <3> QED BY <1>1, <3>1, <3>2 DEF StepsLeft
  <2> QED BY <2>1, <2>2
<1>3. \A m, n \in 0..7 : m > n => 7 - m < 7 - n
  OBVIOUS
<1> DEFINE S == BootLeft'
           T == BootLeft
<1>4. /\ Len(T) = 2
      /\ S[1] = 7 - at' /\ S[2] = StepsLeft' /\ T[1] = 7 - at /\ T[2] = StepsLeft
  BY <1>1 DEF BootLeft
<1> HIDE DEF S, T
<1>5. at' > at => S[1] < T[1]
  BY <1>1, <1>3, <1>4
<1>6. \E i \in {1, 2} : S[i] < T[i] /\ \A j \in 1..(i - 1) : S[j] = T[j]
  BY <1>2, <1>4, <1>5
<1>7. Precedes(S, T)
  BY <1>4, <1>6 DEF Precedes
<1> QED BY <1>7 DEF S, T

(* init goes through its list once and ends, whatever mode an image names, *)
(* whatever the phases return: each step lowers a pair of naturals         *)
(* (initramfs/init:41-46).                                                 *)
THEOREM BootTerminates == Spec => BootAdvances
<1>1. Spec => []IInv
  BY IInvInit, IInvStep, PTL DEF Spec
<1>2. IInv => TypeOK
  BY DEF IInv
<1>3. IInv /\ IInv' /\ [Next]_vars => [IsMeasure(BootLeft') /\ Precedes(BootLeft', BootLeft)]_vars
  <2> SUFFICES ASSUME IInv, IInv', Next
               PROVE  IsMeasure(BootLeft') /\ Precedes(BootLeft', BootLeft)
    OBVIOUS
  <2>1. IsMeasure(BootLeft)'
    BY <1>2, BootLeftType, PTL
  <2> QED BY <2>1, BootStepAdvances
<1> QED BY <1>1, <1>3, PTL DEF Spec, BootAdvances

=============================================================================
