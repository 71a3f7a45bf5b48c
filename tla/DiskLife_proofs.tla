-------------------------- MODULE DiskLife_proofs --------------------------
(* Theorems about the disk profile: about one boot, and about a machine's  *)
(* life.                                                                   *)
EXTENDS DiskLife, Sequences, TLAPS

-----------------------------------------------------------------------------
(* One boot. *)

(* The script reaches switch_root only behind a mount that succeeded, and  *)
(* process 1 is a system only through switch_root or the kernel's resume.  *)
RootInv ==
  /\ step = "switch" => rooted
  /\ pid1 = "system" => step = "over"
  /\ SystemHasRoot

LEMMA RootInvKept ==
  ASSUME RootInv, Next
  PROVE  RootInv'
<1> USE DEF RootInv, SystemHasRoot, kernel, script, history
<1>1. CASE ResolveMode BY <1>1 DEF ResolveMode
<1>2. CASE SourceLibs BY <1>2 DEF SourceLibs
<1>3. CASE EnterPhase BY <1>3 DEF EnterPhase
<1>4. CASE EarlyPhase BY <1>4 DEF EarlyPhase
<1>5. CASE ParseRootCmdline BY <1>5 DEF ParseRootCmdline, Become, Continue
<1>6. CASE SetupUdev BY <1>6 DEF SetupUdev, Become, Continue
<1>7. CASE Activate BY <1>7 DEF Activate, Continue
<1>8. CASE TryResume
  <2>1. CASE Resumable
    <3>1. CASE image = "none" BY <1>8, <2>1, <3>1 DEF TryResume, Continue
    <3>2. CASE image # "none" BY <1>8, <2>1, <3>2 DEF TryResume, Become
    <3>3. QED BY <3>1, <3>2
  <2>2. CASE ~Resumable BY <1>8, <2>2 DEF TryResume, PassOver, Continue
  <2>3. QED BY <2>1, <2>2
<1>9. CASE WaitDevice BY <1>9 DEF WaitDevice, GiveUp, WaitSecond, MountNow, Become, Continue
<1>10. CASE MountRoot BY <1>10 DEF MountRoot, Become, Continue
<1>11. CASE SwitchRoot BY <1>11 DEF SwitchRoot, Become
<1>12. CASE Interrupt BY <1>12 DEF Interrupt, Become
<1>13. CASE Discover BY <1>13 DEF Discover
<1>14. QED
  BY <1>1, <1>2, <1>3, <1>4, <1>5, <1>6, <1>7, <1>8, <1>9, <1>10, <1>11, <1>12, <1>13
  DEF Next, Step

(* 60-switch-root:17-40 never hands over to a system whose root is not     *)
(* there.                                                                  *)
THEOREM SystemAlwaysHasRoot == Spec => []SystemHasRoot
<1>1. Init => RootInv
  BY DEF Init, PowerOn, RootInv, SystemHasRoot
<1>2. RootInv /\ [Next]_vars => RootInv'
  <2>1. CASE Next BY <2>1, RootInvKept
  <2>2. CASE UNCHANGED vars
    BY <2>2 DEF RootInv, SystemHasRoot, vars, kernel, script, history
  <2>3. QED BY <2>1, <2>2
<1>3. RootInv => SystemHasRoot
  BY DEF RootInv
<1>4. QED BY <1>1, <1>2, <1>3, PTL DEF Spec

(* A volume whose disk was there to be activated is active from then on,   *)
(* and the wait begins only with a root to wait for.                       *)
WaitInv ==
  /\ machine \in Machine /\ waited \in 0..MaxWait
  /\ step \in {"udev", "activate", "resume", "wait"} => machine.root.name # "none"
  /\ step \in {"resume", "wait"} /\ machine.tools => ready \subseteq active
  /\ step # "over" => stop = ""
  /\ GivesUpJustly

LEMMA Seconds ==
  /\ 0 \in 0..MaxWait
  /\ \A w \in 0..MaxWait : IF w >= MaxWait THEN w = MaxWait ELSE w + 1 \in 0..MaxWait
BY MaxWaitAssumption

LEMMA WaitInvKept ==
  ASSUME WaitInv, Next
  PROVE  WaitInv'
<1> USE DEF WaitInv, GivesUpJustly, kernel, script, history
<1>1. CASE ResolveMode \/ SourceLibs \/ EnterPhase \/ EarlyPhase
  BY <1>1 DEF ResolveMode, SourceLibs, EnterPhase, EarlyPhase
<1>2. CASE ParseRootCmdline BY <1>2 DEF ParseRootCmdline, Become, Continue
<1>3. CASE SetupUdev BY <1>3 DEF SetupUdev, Become, Continue
<1>4. CASE Activate BY <1>4 DEF Activate, Continue
<1>5. CASE TryResume
  <2>1. step = "resume" /\ step' \in {"wait", "over"} /\ stop' = ""
        /\ UNCHANGED <<machine, kernel, ready, checked, waited>>
    BY <1>5 DEF TryResume, PassOver, Continue, Become
  <2> QED BY <2>1
<1>6. CASE WaitDevice
  <2>1. step = "wait" /\ checked' = found /\ UNCHANGED <<machine, kernel, ready>>
    BY <1>6 DEF WaitDevice
  <2>2. CASE IsBlock(machine.root)
    BY <1>6, <2>1, <2>2 DEF WaitDevice, MountNow, Continue
  <2>3. CASE ~IsBlock(machine.root) /\ ~(waited >= MaxWait)
    <3>1. waited' = waited + 1 /\ UNCHANGED <<step, stop>>
      BY <1>6, <2>3 DEF WaitDevice, WaitSecond
    <3>2. waited' \in 0..MaxWait
      BY <2>3, <3>1, Seconds
    <3> QED BY <2>1, <3>1, <3>2
  <2>4. CASE ~IsBlock(machine.root) /\ waited >= MaxWait
    <3>0. waited = MaxWait
      BY <2>4, Seconds
    <3>1. step' = "over" /\ waited' = waited
      BY <1>6, <2>4 DEF WaitDevice, GiveUp, Become
    <3>2. machine.root \in Volume
      BY DEF Machine
    <3>3. \/ machine.root.disk \notin found
          \/ machine.root.layer = "activated" /\ machine.root.disk \notin active
          \/ machine.root.name = "unknown" \/ (machine.root.name = "link" /\ ~links)
      BY <2>1, <2>4, <3>2 DEF IsBlock, Volume
    <3> QED BY <2>1, <3>0, <3>1, <3>3
  <2> QED BY <2>2, <2>3, <2>4
<1>7. CASE MountRoot BY <1>7 DEF MountRoot, Become, Continue
<1>8. CASE SwitchRoot \/ Interrupt BY <1>8 DEF SwitchRoot, Interrupt, Become
<1>9. CASE Discover BY <1>9 DEF Discover
<1> QED BY <1>1, <1>2, <1>3, <1>4, <1>5, <1>6, <1>7, <1>8, <1>9 DEF Next, Step

LEMMA WaitInvariant == Spec => []WaitInv
<1>1. Init => WaitInv
  <2> SUFFICES ASSUME Init PROVE WaitInv
    OBVIOUS
  <2>1. machine \in Machine /\ waited \in 0..MaxWait
    BY MachinesAssumption, Seconds DEF Init, PowerOn
  <2>2. step = "mode" /\ stop = ""
    BY DEF Init, PowerOn
  <2> QED BY <2>1, <2>2 DEF WaitInv, GivesUpJustly
<1>2. WaitInv /\ [Next]_vars => WaitInv'
  <2>1. CASE Next BY <2>1, WaitInvKept
  <2>2. CASE UNCHANGED vars
    BY <2>2 DEF WaitInv, GivesUpJustly, vars, kernel, script, history
  <2>3. QED BY <2>1, <2>2
<1>3. QED BY <1>1, <1>2, PTL DEF Spec

(* For any disks, layers, names and length of the wait: do_mount_root      *)
(* gives up only on a root that was not to be had (init-disk.sh:112-139,   *)
(* 60-switch-root:25-32).                                                  *)
THEOREM GivesUpOnlyJustly == Spec => []GivesUpJustly
<1>1. WaitInv => GivesUpJustly
  BY DEF WaitInv
<1> QED BY <1>1, WaitInvariant, PTL

-----------------------------------------------------------------------------
(* The boot runs as MicroInit says: which phase is entered when. *)
Late == {"parse", "udev", "activate", "resume", "wait", "mount", "switch"}

Track ==
  /\ at \in 0..6 /\ step \in Steps
  /\ step \notin {"mode", "over"} => mode = "disk"
  /\ step \in {"mode", "libs"} => at = 0 /\ last = "zero"
  /\ step = "loop" => at \in 0..5 /\ last = "zero"
  /\ step = "early" => at \in 1..5
  /\ step \in Late => at = 6

LEMMA TrackNext == Track /\ [Next]_vars => Track'
<1> SUFFICES ASSUME Track, [Next]_vars PROVE Track'
  OBVIOUS
<1> USE DEF Track, Late, Steps, Continue, Become, script
<1>1. CASE ResolveMode \/ SourceLibs \/ EnterPhase \/ EarlyPhase
  BY <1>1 DEF ResolveMode, SourceLibs, EnterPhase, EarlyPhase
<1>2. CASE ParseRootCmdline \/ SetupUdev \/ Activate
  BY <1>2 DEF ParseRootCmdline, SetupUdev, Activate
<1>3. CASE TryResume \/ WaitDevice
  BY <1>3 DEF TryResume, PassOver, WaitDevice, GiveUp, WaitSecond, MountNow
<1>4. CASE MountRoot \/ SwitchRoot
  BY <1>4 DEF MountRoot, SwitchRoot
<1>5. CASE Discover \/ UNCHANGED vars
  BY <1>5 DEF Discover, vars
<1>6. CASE Interrupt
  <2>1. step' = "over" /\ mode' = mode /\ at' = at /\ step # "over"
    BY <1>6 DEF Interrupt
  <2> QED BY <2>1
<1> QED BY <1>1, <1>2, <1>3, <1>4, <1>5, <1>6 DEF Next, Step

LEMMA TrackInvariant == Spec => []Track
<1>1. Init => Track
  <2> SUFFICES ASSUME Init PROVE Track
    OBVIOUS
  <2>1. step = "mode" /\ at = 0 /\ last = "zero"
    BY DEF Init, PowerOn
  <2> QED BY <2>1 DEF Track, Late, Steps
<1> QED BY <1>1, TrackNext, PTL DEF Spec

LEMMA PhaseNames ==
  /\ Len(Orchestrator!LibExec) = 7
  /\ \A n \in 1..7 :
       Orchestrator!LibExec[n] =
         CASE n = 1 -> "10-mount-basic" [] n = 2 -> "20-load-modules" [] n = 3 -> "30-scan-devices"
           [] n = 4 -> "40-overlay" [] n = 5 -> "50-network" [] n = 6 -> "60-switch-root"
           [] n = 7 -> "99-hooks"
BY DEF Orchestrator!LibExec

LEMMA OrchestratorStep == Track /\ [Next]_vars => [Orchestrator!Next]_(Orchestrator!vars)
<1> SUFFICES ASSUME Track, [Next]_vars PROVE [Orchestrator!Next]_(Orchestrator!vars)
  OBVIOUS
<1> USE DEF Continue, Become, script, Orchestrator!inputs, Orchestrator!vars,
            Orchestrator!Becomes, Orchestrator!Returns
<1>1. CASE ResolveMode
  BY <1>1 DEF ResolveMode, Orchestrator!ResolveMode, Orchestrator!ResolvedMode,
              Orchestrator!Next, Orchestrator!Step
<1>2. CASE SourceLibs
  BY <1>2 DEF SourceLibs, Track, Orchestrator!SourceLibs, Orchestrator!Next, Orchestrator!Step
<1>3. CASE EnterPhase
  <2>1. at \in 0..5 /\ last = "zero" /\ step = "loop" /\ step' \in {"parse", "early"}
    BY <1>3 DEF EnterPhase, Track
  <2>2. Orchestrator!EnterPhase
    BY <1>3, <2>1, PhaseNames DEF EnterPhase, Orchestrator!EnterPhase
  <2> QED BY <2>2 DEF Orchestrator!Next, Orchestrator!Step
<1>4. CASE EarlyPhase
  <2>1. \/ Orchestrator!Running("10-mount-basic") \/ Orchestrator!Running("20-load-modules")
        \/ Orchestrator!Running("30-scan-devices") \/ Orchestrator!Running("40-overlay")
        \/ Orchestrator!Running("50-network")
    <3>1. at \in {1, 2, 3, 4, 5} /\ step = "early"
      BY <1>4 DEF EarlyPhase, Track
    <3> QED BY <3>1, PhaseNames DEF Orchestrator!Running, Orchestrator!Phase
  <2>2. Orchestrator!Returns("zero") /\ mode # "live"
    BY <1>4 DEF EarlyPhase, Track
  <2> QED BY <2>1, <2>2 DEF Orchestrator!MountBasic, Orchestrator!LoadModules,
                            Orchestrator!ScanDevices, Orchestrator!Overlay, Orchestrator!Network,
                            Orchestrator!Next, Orchestrator!Step
<1>5. CASE \/ ParseRootCmdline \/ SetupUdev \/ Activate \/ TryResume \/ WaitDevice
           \/ MountRoot \/ SwitchRoot
  <2>1. step \in Late
    BY <1>5 DEF ParseRootCmdline, SetupUdev, Activate, TryResume, WaitDevice, MountRoot,
                SwitchRoot, Late
  <2>2. Orchestrator!Running("60-switch-root") /\ mode = "disk"
    BY <2>1, PhaseNames DEF Track, Late, Orchestrator!Running, Orchestrator!Phase
  <2>3. \/ step' \in Late /\ UNCHANGED <<machine, mode, at, last, pid1, libs>>
        \/ Orchestrator!Becomes("shell") \/ Orchestrator!Becomes("system")
        \/ ~machine.init /\ Orchestrator!Becomes("panic")
    <3>1. CASE ParseRootCmdline \/ SetupUdev \/ Activate
      BY <3>1 DEF ParseRootCmdline, SetupUdev, Activate, Late
    <3>2. CASE TryResume \/ WaitDevice
      BY <2>1, <3>2 DEF TryResume, PassOver, WaitDevice, GiveUp, WaitSecond, MountNow, Late
    <3>3. CASE MountRoot \/ SwitchRoot
      BY <3>3 DEF MountRoot, SwitchRoot, Late
    <3> QED BY <1>5, <3>1, <3>2, <3>3
  <2>4. CASE step' \in Late /\ UNCHANGED <<machine, mode, at, last, pid1, libs>>
    BY <2>1, <2>4 DEF Late
  <2> QED BY <2>2, <2>3, <2>4 DEF Orchestrator!SwitchDisk, Orchestrator!SwitchRootPhase,
                                  Orchestrator!Next, Orchestrator!Step
<1>6. CASE Interrupt
  BY <1>6 DEF Interrupt, Orchestrator!Interrupt, Orchestrator!Next
<1>7. CASE Discover \/ UNCHANGED vars
  BY <1>7 DEF Discover, vars
<1> QED BY <1>1, <1>2, <1>3, <1>4, <1>5, <1>6, <1>7 DEF Next, Step

(* Whatever the disks do and whichever command fails, the disk boot ends   *)
(* only in the ways the orchestrator gives the disk mode                   *)
(* (initramfs/init:41-46, 60-switch-root:17-40).                           *)
THEOREM ImplementsMicroInit == Spec => RunsAsMicroInit
<1>1. Init => Orchestrator!Init /\ Track
  <2> SUFFICES ASSUME Init PROVE Orchestrator!Init /\ Track
    OBVIOUS
  <2>1. machine.init \in BOOLEAN
    BY MachinesAssumption DEF Init, Machine
  <2>2. step = "mode" /\ mode = "live" /\ at = 0 /\ last = "zero" /\ pid1 = "init" /\ libs = {}
    BY DEF Init, PowerOn
  <2> QED BY <2>1, <2>2 DEF Track, Late, Steps, Orchestrator!Init
<1> QED
  BY <1>1, TrackNext, OrchestratorStep, PTL DEF Spec, RunsAsMicroInit, Orchestrator!Spec

-----------------------------------------------------------------------------
(* What is proved of the orchestrator holds of the boot: MicroInit with    *)
(* its theorems, over the state of this boot, as Orchestrator is.          *)
Pid1 == INSTANCE MicroInit_proofs WITH
  Markers  <- {"embedded"},
  NoMarker <- "no marker",
  flags    <- {"root="},
  marker   <- "no marker",
  dbg      <- 0,
  hooks    <- "empty",
  target   <- machine.init,
  pc       <- IF step \in {"mode", "libs", "loop", "over"} THEN step ELSE "phase"

LEMMA SameEndings ==
  /\ \A s : Orchestrator!Returns(s) <=> Pid1!Returns(s)
  /\ \A s : Orchestrator!Becomes(s) <=> Pid1!Becomes(s)
  /\ \A p : Orchestrator!Running(p) <=> Pid1!Running(p)
BY DEF Orchestrator!Returns, Pid1!Returns, Orchestrator!Becomes, Pid1!Becomes,
       Orchestrator!Running, Pid1!Running, Orchestrator!inputs, Pid1!inputs,
       Orchestrator!LibExec, Pid1!LibExec, Orchestrator!Phase, Pid1!Phase

LEMMA SameSteps == Orchestrator!Next <=> Pid1!Next
<1>1. /\ Orchestrator!ResolveMode <=> Pid1!ResolveMode
      /\ Orchestrator!SourceLibs <=> Pid1!SourceLibs
  BY SMT
     DEF Orchestrator!ResolveMode, Pid1!ResolveMode, Orchestrator!ResolvedMode,
         Pid1!ResolvedMode, Orchestrator!SourceLibs, Pid1!SourceLibs, Orchestrator!inputs,
         Pid1!inputs
<1>2. /\ Orchestrator!EnterPhase <=> Pid1!EnterPhase
      /\ Orchestrator!PhaseFailed <=> Pid1!PhaseFailed
      /\ Orchestrator!LoopEnds <=> Pid1!LoopEnds
      /\ Orchestrator!Interrupt <=> Pid1!Interrupt
  BY SameEndings, Zenon
     DEF Orchestrator!EnterPhase, Pid1!EnterPhase, Orchestrator!PhaseFailed,
         Pid1!PhaseFailed, Orchestrator!LoopEnds, Pid1!LoopEnds, Orchestrator!Interrupt,
         Pid1!Interrupt, Orchestrator!LibExec, Pid1!LibExec, Orchestrator!inputs,
         Pid1!inputs
<1>3. /\ Orchestrator!MountBasic <=> Pid1!MountBasic
      /\ Orchestrator!LoadModules <=> Pid1!LoadModules
      /\ Orchestrator!Network <=> Pid1!Network
      /\ Orchestrator!UserHooks <=> Pid1!UserHooks
  BY SameEndings, Zenon
     DEF Orchestrator!MountBasic, Pid1!MountBasic, Orchestrator!LoadModules,
         Pid1!LoadModules, Orchestrator!Network, Pid1!Network, Orchestrator!UserHooks,
         Pid1!UserHooks
<1>4. /\ Orchestrator!ScanDevices <=> Pid1!ScanDevices
      /\ Orchestrator!Overlay <=> Pid1!Overlay
  BY SameEndings, Zenon
     DEF Orchestrator!ScanDevices, Pid1!ScanDevices, Orchestrator!Overlay, Pid1!Overlay
<1>5. /\ Orchestrator!SwitchLive <=> Pid1!SwitchLive
      /\ Orchestrator!EndInShell <=> Pid1!EndInShell
      /\ Orchestrator!SwitchDisk <=> Pid1!SwitchDisk
      /\ Orchestrator!NoBranch <=> Pid1!NoBranch
  BY SameEndings, Zenon
     DEF Orchestrator!SwitchLive, Pid1!SwitchLive, Orchestrator!EndInShell, Pid1!EndInShell,
         Orchestrator!SwitchDisk, Pid1!SwitchDisk, Orchestrator!NoBranch, Pid1!NoBranch,
         Orchestrator!ShellModes, Pid1!ShellModes, Orchestrator!KnownModes, Pid1!KnownModes
<1>6. Orchestrator!SwitchRootPhase <=> Pid1!SwitchRootPhase
  BY SameEndings, <1>5, Zenon
     DEF Orchestrator!SwitchRootPhase, Pid1!SwitchRootPhase
<1> QED
  BY <1>1, <1>2, <1>3, <1>4, <1>6, Zenon
     DEF Orchestrator!Next, Pid1!Next, Orchestrator!Step, Pid1!Step

LEMMA RunsAsPid1 == Spec => Pid1!Spec
<1>1. Orchestrator!Init => Pid1!Init
  BY DEF Orchestrator!Init, Pid1!Init
<1>2. [Orchestrator!Next]_(Orchestrator!vars) => [Pid1!Next]_(Pid1!vars)
  <2>1. UNCHANGED Orchestrator!vars => UNCHANGED Pid1!vars
    BY DEF Orchestrator!vars, Pid1!vars
  <2> QED BY <2>1, SameSteps
<1>3. Orchestrator!Spec => Pid1!Spec
  BY <1>1, <1>2, PTL DEF Orchestrator!Spec, Pid1!Spec
<1> QED BY <1>3, ImplementsMicroInit, PTL DEF RunsAsMicroInit

LEMMA MarkersDiffer == Pid1!MarkersAssumption
BY DEF Pid1!MarkersAssumption, Pid1!KnownModes, Pid1!ShellModes

(* Every disk boot keeps the runtime contract of the phases                *)
(* (HOOKS-AND-PHASES.md): the failures of phase 60 exec their shells, and  *)
(* a system is started by that phase only (60-switch-root:17-40).          *)
THEOREM DiskHonoursContract == Spec => Pid1!HonoursContract
BY RunsAsPid1, MarkersDiffer, Pid1!ImplementsContract, PTL

(* The kernel of a disk boot panics only over a root without the init that *)
(* was named (60-switch-root:39).                                          *)
THEOREM PanicsOnlyWithoutInit == Spec => [](pid1 = "panic" => ~machine.init)
<1>1. Spec => []Pid1!PanicOnlyWhen
  BY RunsAsPid1, MarkersDiffer, Pid1!PanicsAreKnown, PTL
<1>2. Pid1!PanicOnlyWhen => (pid1 = "panic" => ~machine.init)
  BY DEF Pid1!PanicOnlyWhen
<1> QED BY <1>1, <1>2, PTL

-----------------------------------------------------------------------------
(* The boot ends: each step lowers BootLeft. *)

LEMMA BootLeftType == ASSUME Track, WaitInv PROVE IsMeasure(BootLeft)
<1>1. at \in 0..6 /\ waited \in 0..MaxWait
  BY DEF Track, WaitInv
<1>2. 6 - at \in Nat
  BY <1>1
<1>3. MaxWait - waited \in Nat
  BY <1>1, MaxWaitAssumption
<1>4. StepsLeft \in Nat
  BY DEF StepsLeft
<1> QED BY <1>2, <1>3, <1>4 DEF BootLeft, IsMeasure

LEMMA BootLeftLowered ==
  ASSUME Track, Track',
         \/ at' > at
         \/ at' = at /\ StepsLeft' < StepsLeft
         \/ at' = at /\ StepsLeft' = StepsLeft /\ MaxWait - waited' < MaxWait - waited
  PROVE  Precedes(BootLeft', BootLeft)
<1> DEFINE s == BootLeft'
           t == BootLeft
<1>1. at \in 0..6 /\ at' \in 0..6
  BY DEF Track
<1>2. /\ Len(t) = 3
      /\ s[1] = 6 - at' /\ s[2] = StepsLeft' /\ s[3] = MaxWait - waited'
      /\ t[1] = 6 - at /\ t[2] = StepsLeft /\ t[3] = MaxWait - waited
  BY DEF BootLeft
<1> HIDE DEF s, t
<1>3. \A m, n \in 0..6 : m > n => 6 - m < 6 - n
  OBVIOUS
<1>4. at' > at => s[1] < t[1]
  BY <1>1, <1>2, <1>3
<1>5. \E i \in {1, 2, 3} : s[i] < t[i] /\ \A j \in {1, 2} : j < i => s[j] = t[j]
  BY <1>2, <1>4
<1>6. Precedes(s, t)
  BY <1>2, <1>5 DEF Precedes
<1> QED BY <1>6 DEF s, t

LEMMA BootStepAdvances ==
  ASSUME Track, Track', WaitInv, WaitInv', Next
  PROVE  IF found' = found THEN Precedes(BootLeft', BootLeft) ELSE BootLeft' = BootLeft
<1> USE DEF StepsLeft, Continue, Become
<1>1. CASE Discover
  <2>1. found' # found /\ UNCHANGED script
    BY <1>1 DEF Discover
  <2> QED BY <2>1 DEF script, BootLeft
<1>2. CASE ~Discover
  <2>1. found' = found
    BY <1>2 DEF Next, Step, kernel, ResolveMode, SourceLibs, EnterPhase, EarlyPhase,
                ParseRootCmdline, SetupUdev, Activate, TryResume, WaitDevice, MountRoot, SwitchRoot,
                Interrupt
  <2>2. CASE ResolveMode \/ SourceLibs \/ EnterPhase \/ EarlyPhase
    BY <2>1, <2>2, BootLeftLowered DEF ResolveMode, SourceLibs, EnterPhase, EarlyPhase, Track
  <2>3. CASE ParseRootCmdline \/ SetupUdev \/ Activate \/ TryResume
    <3>1. at' = at
      BY <2>3 DEF ParseRootCmdline, SetupUdev, Activate, TryResume, PassOver
    <3>2. \/ step = "parse" /\ step' \in {"udev", "over"}
          \/ step = "udev" /\ step' \in {"activate", "over"}
          \/ step = "activate" /\ step' \in {"resume", "wait", "over"}
          \/ step = "resume" /\ step' \in {"wait", "over"}
      BY <2>3 DEF ParseRootCmdline, SetupUdev, Activate, TryResume, PassOver
    <3>3. StepsLeft' < StepsLeft
      BY <3>2
    <3> QED BY <2>1, <3>1, <3>3, BootLeftLowered
  <2>4. CASE WaitDevice
    <3>1. CASE WaitSecond
      <4>1. waited' = waited + 1 /\ at' = at /\ StepsLeft' = StepsLeft
        BY <3>1 DEF WaitSecond
      <4>2. waited \in Nat /\ MaxWait \in Nat
        <5>1. waited \in 0..MaxWait
          BY DEF WaitInv
        <5> QED BY <5>1, MaxWaitAssumption
      <4>3. MaxWait - waited' < MaxWait - waited
        BY <4>1, <4>2
      <4> QED BY <2>1, <4>1, <4>3, BootLeftLowered
    <3>2. CASE GiveUp \/ MountNow
      <4>1. at' = at
        BY <3>2 DEF GiveUp, MountNow
      <4>2. step = "wait" /\ step' \in {"mount", "over"}
        BY <2>4, <3>2 DEF WaitDevice, GiveUp, MountNow
      <4>3. StepsLeft' < StepsLeft
        BY <4>2
      <4> QED BY <2>1, <4>1, <4>3, BootLeftLowered
    <3> QED BY <2>4, <3>1, <3>2 DEF WaitDevice
  <2>5. CASE MountRoot \/ SwitchRoot
    <3>1. at' = at
      BY <2>5 DEF MountRoot, SwitchRoot
    <3>2. \/ step = "mount" /\ step' \in {"switch", "over"}
          \/ step = "switch" /\ step' = "over"
      BY <2>5 DEF MountRoot, SwitchRoot
    <3>3. StepsLeft' < StepsLeft
      BY <3>2
    <3> QED BY <2>1, <3>1, <3>3, BootLeftLowered
  <2>6. CASE Interrupt
    BY <2>1, <2>6, BootLeftLowered DEF Interrupt, Track, Steps
  <2> QED BY <1>2, <2>2, <2>3, <2>4, <2>5, <2>6 DEF Next, Step
<1> QED BY <1>1, <1>2

(* Every disk boot ends, for any disks and any length of the wait: each    *)
(* step lowers a tuple of naturals, and a disk that appears leaves it      *)
(* (initramfs/init:41-46, 60-switch-root:17-40, init-disk.sh:112-139).     *)
THEOREM BootTerminates == Spec => BootAdvances
<1>1. Track /\ Track' /\ WaitInv /\ WaitInv' /\ [Next]_vars =>
        [ /\ IsMeasure(BootLeft')
          /\ IF found' = found THEN Precedes(BootLeft', BootLeft)
             ELSE BootLeft' = BootLeft ]_vars
  <2> SUFFICES ASSUME Track, Track', WaitInv, WaitInv', Next
               PROVE  /\ IsMeasure(BootLeft')
                      /\ IF found' = found THEN Precedes(BootLeft', BootLeft)
                         ELSE BootLeft' = BootLeft
    OBVIOUS
  <2>1. IsMeasure(BootLeft)'
    BY BootLeftType, PTL
  <2> QED BY <2>1, BootStepAdvances
<1> QED BY <1>1, WaitInvariant, TrackInvariant, PTL DEF Spec, BootAdvances

-----------------------------------------------------------------------------
(* A machine's life. *)

(* What the disk holds between boots matters: an image that is stale was   *)
(* passed over by a boot that had a reason, which its history names; and   *)
(* behind do_try_resume a fresh one has just been passed over.             *)
PassedOver == passed # {}

ImageInv ==
  /\ image = "stale" => PassedOver
  /\ step \in {"wait", "mount"} /\ image = "fresh" => PassedOver
  /\ StaleOnlyIfPassedOver

LEMMA ImageInvKeptByBoot ==
  ASSUME ImageInv, Next
  PROVE  ImageInv'
<1> USE DEF ImageInv, PassedOver, StaleOnlyIfPassedOver, kernel, script, history
<1>1. CASE ResolveMode BY <1>1 DEF ResolveMode
<1>2. CASE SourceLibs BY <1>2 DEF SourceLibs
<1>3. CASE EnterPhase BY <1>3 DEF EnterPhase
<1>4. CASE EarlyPhase BY <1>4 DEF EarlyPhase
<1>5. CASE ParseRootCmdline BY <1>5 DEF ParseRootCmdline, Become, Continue
<1>6. CASE SetupUdev BY <1>6 DEF SetupUdev, Become, Continue
<1>7. CASE Activate BY <1>7 DEF Activate, Continue
<1>8. CASE TryResume
  <2>1. CASE Resumable
    <3>1. CASE image = "none" BY <1>8, <2>1, <3>1 DEF TryResume, Continue
    <3>2. CASE image # "none" BY <1>8, <2>1, <3>2 DEF TryResume, Become, Resumable
    <3>3. QED BY <3>1, <3>2
  <2>2. CASE ~Resumable BY <1>8, <2>2 DEF TryResume, PassOver, WhyPassedOver, Continue, Resumable
  <2>3. QED BY <2>1, <2>2
<1>9. CASE WaitDevice BY <1>9 DEF WaitDevice, GiveUp, WaitSecond, MountNow, Become, Continue
<1>10. CASE MountRoot BY <1>10 DEF MountRoot, Become, Continue
<1>11. CASE SwitchRoot BY <1>11 DEF SwitchRoot, Become
<1>12. CASE Interrupt BY <1>12 DEF Interrupt, Become
<1>13. CASE Discover BY <1>13 DEF Discover
<1>14. QED
  BY <1>1, <1>2, <1>3, <1>4, <1>5, <1>6, <1>7, <1>8, <1>9, <1>10, <1>11, <1>12, <1>13
  DEF Next, Step

(* For any disks, any way to name and to stack them, any wait, any number  *)
(* of boots and any command line of each: do_try_resume                    *)
(* (init-disk.sh:99-110) resumes from a stale image only after a boot went *)
(* past that image, told so by noresume or without seeing its device.      *)
THEOREM StaleImagesWerePassedOver == LifeSpec => []StaleOnlyIfPassedOver
<1>1. LifeInit => ImageInv
  BY DEF LifeInit, Init, PowerOn, ImageInv, PassedOver, StaleOnlyIfPassedOver
<1>2. ImageInv /\ [LifeNext]_lifeVars => ImageInv'
  <2> SUFFICES ASSUME ImageInv, [LifeNext]_lifeVars PROVE ImageInv'
    OBVIOUS
  <2>1. CASE Next BY <2>1, ImageInvKeptByBoot
  <2>2. CASE Restart
    BY <2>2 DEF Restart, PowersOn, ImageInv, PassedOver, StaleOnlyIfPassedOver
  <2>3. CASE Hibernate
    BY <2>3 DEF Hibernate, PowersOn, ImageInv, PassedOver, StaleOnlyIfPassedOver
  <2>4. CASE DropImage
    BY <2>4 DEF DropImage, ImageInv, PassedOver, StaleOnlyIfPassedOver, kernel, script, history
  <2>5. CASE UNCHANGED lifeVars
    BY <2>5 DEF lifeVars, vars, kernel, script, history, ImageInv, PassedOver, StaleOnlyIfPassedOver
  <2>6. QED BY <2>1, <2>2, <2>3, <2>4, <2>5 DEF LifeNext
<1>3. ImageInv => StaleOnlyIfPassedOver
  BY DEF ImageInv
<1>4. QED BY <1>1, <1>2, <1>3, PTL DEF LifeSpec

=============================================================================
