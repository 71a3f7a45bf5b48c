# A verification project for neonatox-live-boot

neonatox-live-boot builds and boots NeonatoX: `build.sh` and `mkinitramfs`
produce an initramfs and an ISO, and the initramfs is a set of shell scripts
that find the boot medium (or bring up the network, or mount a disk) and hand
PID 1 over.  This directory models those scripts in TLA+, checks the models with
TLC and proves theorems about them with TLAPS.

The modules are about the *control* of the scripts: every guard, early return,
error path and the order they happen in.  Messages, colours and the text of
prompts are left out; the bytes of a file are abstracted to the facts a script
tests (is it there, does its hash match).

## 1. Inventory of the system

| Part | Source | State it keeps | Operations | Modelled in |
|---|---|---|---|---|
| micro init | `initramfs/init`, `lib/init-common.sh` | `MODE`, the phase loop, what PID 1 is | resolve the mode, source a library, source the phases, emergency and debug shells, the SIGINT trap | `MicroInit` |
| phases | `initramfs/libexec/10..99` | mounts, device nodes, modules | one per file | `MicroInit` (every mode), `LiveBoot` (live), `DiskBoot` (disk), `NetBoot` (net, embedded) |
| live: scan | `lib/init-live.sh:62-170` | `FOUND_DEV`, `ISO_MNT`, two mount points, loop devices | three passes over devices and ISO files | `LiveScan` |
| live: root | `lib/init-live.sh:12-60,172-238` | zram or tmpfs store, squashfs, overlay, binds | set up, mount, bind, find the init | `LiveBoot` |
| disk profile | `lib/init-disk.sh`, phase 60 | udev, RAID, LVM, resume, `/.root` | parse, settle, resume, wait and mount | `DiskBoot` (one boot), `DiskLife` (boots, hibernation, power cuts) |
| net and embedded profiles | `lib/init-net.sh`, `lib/init-embedded.sh` | interfaces, passwd/shadow, host keys, dropbear | DHCP, WiFi, NTP, SSH | `NetBoot` |
| WiFi tools | `wifi-wizard.sh`, `wifi-config.sh` | wpa_supplicant, association, lease | scan, associate, lease, timeouts | `WifiTools`, and `NetBoot` around it |
| disk wizard | `disk-wizard.sh` | partition table, ROOT/SWAP/EFI_PART | ask, write, wait, format, mount | `DiskWizard` |
| live configuration | `live-config.sh` | files of the new root | menu with timeout, apply | not modelled (section 5) |
| tool store | `build-tools.sh`, `tools/lib-pack.sh`, `tools/publish.sh`, `build.sh:708-729` | `tools/output`, `tools/dist`, the manifest, the release | build, package, publish, fetch, ensure | `ToolStore` |
| mkinitramfs | `mkinitramfs/src/mkinitramfs` | the staging tree, the image | hooks, copy, modules, pack | `MkInitramfs` |
| image build | `build.sh` | WORKDIR, squashfs, hashes, grub.cfg, ISO | embedded, squashfs, ISO, `--make-iso`, `--clean` | `IsoBuild` |

### How the parts interact

The kernel starts `init` as PID 1.  `init` resolves `MODE` from the command line
and the marker `/etc/neonatox-mode`, sources the library of the profile, and
sources every file of `/libexec` in order **in its own process**: a phase returns
a status to the loop, or `exec`s, which replaces PID 1.  A non-zero status makes
PID 1 the emergency shell.  In the live profile, phase 30 leaves its verdict in
shell variables (`FOUND_DEV`, `ISO_MNT`, `VENTOY_MODE`) and in the kernel (mounts,
loop devices), and phases 40 and 60 act on both.  At build time `mkinitramfs`
bakes `/rootfs.sha256`, the marker and the hooks' files into the image; the tool
store gives it the static binaries.

### Which behaviours are hard

* **Concurrency with the kernel.**  Devices are discovered while the scan runs;
  the list of device files is expanded once per pass, each node is looked at later.
* **Cleanup on every early exit.**  The body of the scan has nine ways out, each with
  its own `umount` and `losetup -d`; what one forgets, the next device inherits.
* **Two records of one fact.**  `FOUND_DEV` and the mount table say the same thing;
  later phases believe one or the other.
* **Precedence and early return.**  Four sources of the mode; breakpoints inside
  phases that return early in other modes; a phase no mode reaches.
* **Statuses by accident.**  A sourced file returns the status of its last command.
* **Failure of any command**, after which the script goes on with what is left.
* **Reboots, power cuts and interruptions** between two writes: a hibernation image and a
  mounted root, the binaries of a tool, the manifest and the release, the table on a disk and
  the one the kernel has; account files and host keys written while the power may go; a work
  directory another run of the build was stopped in.
* **Somebody else's answer.**  DHCP and NTP servers, access points and the user: some waits have
  a limit, some do not, and an answer to an earlier question may be taken for that to this one.
* **Unchecked statuses.**  `mkinitramfs` has no `set -e`, `build.sh` has, and a pipeline has the
  status of its last command.

`PROJECT.json` lists the hazards one by one, at the line where each bites, with the
property that covers it or a note why none does.

### What makes each component correct

* micro init: no phase starts after a failed one; PID 1 is replaced exactly once; only
  phase 60 switches root; an embedded image never becomes a disk boot; a breakpoint is
  never walked past; PID 1 always ends as something, and dies only in known cases.
* scan: it succeeds only with a mounted medium that passed the check; its verdict agrees
  with the mounts and loop devices; rejected candidates leave nothing mounted or attached;
  it picks the first good medium of the first pass that has one; it ends.
* live root: the system starts only on an overlay over the verified squashfs, with the
  store that was really set up and an init to run; breakpoints stop where documented;
  zram leaves memory; the medium stays reachable.
* disk: a resume image is used before root is mounted; a late root device is waited for;
  the mount flags are those of the command line.
* net/embedded: after any sequence of boots and power cuts root can log in, an embedded system
  keeps its host keys and its user's password, and the boot waits for ever only where it must.
* WiFi: what a script reports as connected is an address of the network asked for.
* wizards: nothing is written before YES; the partitions formatted are the ones made.
* tool store: what a fetch leaves is what the manifest says; a published manifest can be
  fetched.
* mkinitramfs/build: what an image lacks is only what failed in its own run; all files of an
  ISO are of one run; the hash baked into the initramfs is that of the squashfs beside it.

## 2. Modules

| Module | Kind | About |
|---|---|---|
| `BootContract` | abstract | the phase contract of `HOOKS-AND-PHASES.md`, without any phase's work |
| `MicroInit` | detailed | `init` in all modes; implements `BootContract` |
| `MicroInit_proofs` | proofs | theorems about `MicroInit` |
| `MediaChoice` | abstract | the search for a medium: bounded passes, first good device wins |
| `LiveScan` | detailed | `scan_devices`, command by command; implements `MediaChoice` |
| `LiveScan_proofs` | proofs | theorems about `LiveScan` |
| `LiveBoot` | composition | extends `LiveScan` with phases 10 to 60 of the live profile; implements `MicroInit`, and so `BootContract` |
| `LiveBoot_proofs` | proofs | theorems about `LiveBoot`, on those about `LiveScan` |
| `DiskBoot` | detailed | one boot of the disk profile; implements `MicroInit`'s disk mode |
| `DiskLife` | composition | extends `DiskBoot` with restarts, hibernation and power cuts |
| `DiskLife_proofs` | proofs | theorems about both |
| `ToolStore` | detailed | the publisher, the release and the consumer of the static tools |
| `ToolStore_proofs` | proofs | theorems about `ToolStore` |
| `DiskWizard` | detailed | the wizard, fdisk and the kernel's partitions over several runs |
| `DiskWizard_proofs` | proofs | theorems about `DiskWizard` |
| `WifiTools` | detailed | `wifi-config.sh` and `wifi-wizard.sh` against the supplicant, the radio and DHCP |
| `NetBoot` | composition | extends `WifiTools` with the net and embedded profiles over reboots and power cuts; implements `MicroInit`'s shell modes |
| `NetBoot_proofs` | proofs | theorems about `NetBoot` and `WifiTools` |
| `Progress` | operators | measures of what is left to do: tuples of naturals, compared lexicographically |
| `MkInitramfs` | detailed | one run of `mkinitramfs`, for any profile |
| `IsoBuild` | composition | extends `MkInitramfs` with `build.sh` over several runs |
| `IsoBuild_proofs` | proofs | theorems about both |
| `MCMicroInit`, `MCLiveScan`, `MCLiveBoot`, `MCDiskBoot`, `MCDiskLife`, `MCToolStore`, `MCNetBoot`, `MCIsoBuild` | TLC | the constants of the runs |

### MicroInit

`pc` is where the script is: resolving the mode, sourcing libraries, at the head of the
loop, inside a phase, or over.  `at` and `last` are the phase and its status, `pid1` what
process 1 has become.  A phase is one action whose disjuncts are its endings in each mode:
`Returns(status)` or `Becomes(process)`.  Everything the machine boots with (which of
`netinstall=1` and `root=` are on the command line, the marker, `initrd_debug`, the content
of `99-hooks.d`) is chosen in `Init` and never changes.  A marker may hold any text: an
empty one is `live`, an unknown one matches no branch anywhere and PID 1 runs off the end
of the script.  `Interrupt` is the SIGINT trap, enabled at every step.

### LiveScan

The kernel is three variables: `mnt`, a *stack* of mounts per mount point (mounting over a
mount hides it, `umount` pops), `loop`, the file attached to each loop device, and `held`,
the loop devices whose file lies on the top mount of `/mnt/iso` and makes it busy.  A plain
`umount` of a busy mount fails; `umount -l` detaches it.  `present` grows by `Plug`, at any
moment; `seen` is what the globs of line 83 expanded to.  The script is `pc`, the loop
counters `attempt`, `pos` (in the glob) and `file` (in the ISO list of the device), and its
variables.  One action per branch of the loop body.

`losetup -f "$ISO" && losetup -a | grep "$ISO" | sed ...` (line 127) is two actions:
`NoLoopLeft` when the first command fails, `AttachIso` otherwise, where `loop_out` is the set
of loop devices whose lines grep prints.  `ungreppable` are the ISO files whose path is not
found by grep, because it is used as a regular expression or the kernel truncated it.

`GoodMedium` states the acceptance criterion independently of the script's tests.  `EnoughLoops` says
when the loop devices suffice for the ISO files (see `LoopsSuffice` in section 4), and `ScanLeft` what is
left to do: passes, devices of the pass, ISO files of the device, tests of the file.

### LiveBoot

`step` is the position in the phases.  Each storage command is an action that may succeed or
fail wherever the script tests it, and failures leave behind what was done (a zram device
sized but not mounted).  `Scanning` takes `LiveScan`'s steps as they are.  `RunsAsMicroInit`
maps it onto `MicroInit`: `step` becomes `pc`, the mode is live.

### DiskBoot and DiskLife

`machine` is what a boot does not change.  Part of it is the hardware and the initramfs: where
root and swap are, on a partition or on a volume that RAID or LVM must activate, whether the
initramfs holds udevd, the tools, rules that activate on discovery.  The rest is the command line of
this boot: how it names root and swap (a node, a link of udev's, a form the code does not know,
nothing), `noresume`, whether the `init=` it names is there.  `IsBlock` is `[ -b ]` on such a name: it needs the disk
found, its volume active, and for a link a running udevd.  `Discover` adds a disk at any
moment, during the sleeps too, which is why `rootdelay=` needs no action of its own.
`image` is the hibernation image on swap: mounting root, even read-only, makes a fresh one
stale.  `TryResume` writes to `/sys/power/resume`, after which the kernel either is the
resumed system or goes on.

`DiskLife` keeps `image` over boots, chooses the command line anew at each (`SameHardware` says what stays
of `machine`), and resets the rest.  The history `passed` belongs to the image: it collects why boots went
past it (`WhyPassedOver`: told so by "noresume", or the device "missed"), and a new image begins with none.
A restart is enabled at every step: it is also the power cut.

### ToolStore

A hash is modelled by what it is the hash of: a row of `releases.sha256` *is* the zip it was
computed from (no collisions), and a zip is a function from the tool's binaries to their
contents.  Zips are deterministic in the code, so equal binaries give an equal zip.  `ppc`
is `publish.sh`: package and rewrite the manifest for every tool first, then find the
release, then upload each, with a lookup, a delete and a second upload when the asset
exists.  `set -e` ends the script at a `curl` that cannot connect (`ConnectionLost`), while
a refusal by the server is only a warning (`Refused`).  `cpc` is `ensure_tool` in its
default mode with `fetch_tool` inside it, of a consumer with its own checkout.  Interrupted
writes leave `Partial` files, on either side.  Version, revision and tag are fixed: they
name the asset, and a new one is another asset.

### DiskWizard

`table` is what is on the disk, `tables` how often one was written, `known` the one the kernel
read last, `nodes` and `content` its partitions and what they hold; `prefixed` tells disks whose
partitions carry a `p`.  A name the wizard computes is a number with or without that `p`, and
`[ -b ]` on it (`IsBlock`) compares it with the nodes.  The script given to fdisk is the sequence
of sizes asked for: once a partition has taken the rest of the disk the following ones are not
made (`Made`), which is why the automatic scheme never has its swap.  In both schemes but the
single-partition one, what the wait loops find out is dropped (lines 265 and 272), so they are no
action.  A partition in use keeps the kernel from reading the new table; fdisk's status is not
looked at.  A new table may begin its partitions where old ones began, so each may hold an old
file system (`Reread`).

### WifiTools and NetBoot

An address is named by the network whose server leased it, so that a stale one can be told from a
fresh one.  `conf` is the network the supplicant was started for, `radio` the one the interface is
associated with, `ip` the address; the radio and the servers act between any two steps of a script
(`RadioStep`, `AnsweredStep`).  `tool`, `tpc` and `waited` are the script that runs, its place and its
wait loop; `claim` is what it last told the user.  `Words` is what the unquoted `for s in $ssids`
(`wifi-wizard.sh:246`) makes of a name.

`NetBoot` runs phase 50 command by command.  `image` is the image and its machine: profile, store
(RAM or a disk), which applets and scripts it has, the accounts and keys it was completed with.
`etc` and `key` are the files, `etcDisk` and `keyDisk` the set of contents a power cut may leave of
each: `>` leaves the old, an empty or the new file (`Truncate`), `>>` the old or the new one
(`AppendEntry`), and `dropbearkey`, which writes a temporary file and links it, a whole key or none.
A reboot settles the files, a power cut picks; in RAM both bring the image back.  `prints` is what
clients have been shown, `lost` what power cuts took: the history `KeepsIdentity` speaks of.

### MkInitramfs and IsoBuild

What `mkinitramfs` copies is told apart by parts (applets, tools, libraries, modules, one per
hook).  A command whose status nobody reads may fail (`Fault`, bounded by `MaxFaults`): its part is
then in `missed` and not in the tree.  `Needed(profile)` is what a run without failures packs,
stated independently of the order of the steps.

`IsoBuild` names every artifact of the work directory by the run that wrote it.  A run may be stopped
at any step and leaves what it had, half-written files included (`cut`, `Torn`); `set -e` is such a
stop.  The next run may find another work directory (`check_tmp_space`), a removal that was stopped
itself (`Removals`), or be `--make-iso`, which packs what lies there.  `emptied` and `home` remember
which run emptied which directory last.  `tree.sum`, `extra` and `baked` follow the
hash from `sha256sum | awk` through `EXTRA_DIR` and hook 50 into the image.

### What is left to do

`MicroInit`, `LiveScan`, `LiveBoot`, `DiskBoot` and `NetBoot` each define a measure, a tuple of naturals with
the coarsest part first (phases to enter, steps of the phase, turns of its loops, seconds of its waits),
and an action property `BootAdvances` or `ScanAdvances`: every step of the scripts lowers it, and
what the surroundings do (a device or disk appears, the radio changes, a user sets a password)
leaves it alone.  No loop of the scripts can then go round for ever, whatever fails and however
unfairly it is scheduled.  These are stated as theorems (`BootTerminates`, `ScanTerminates`); the runs
check what follows from them under fairness, `HandsOver`, `ScanEnds` and `EndsOrWaits`.  In `NetBoot` two things may start the count anew: another start of the wizard, which
is the user's, and the next boot.

## 3. Runs

TLC checks each run completely.  `expect: pass` runs:

* **micro_init** (`MCMicroInit.cfg`): six markers (none, empty, the four modes and one that
  no profile implements), every combination of flags, levels 0 to 3, three kinds of hooks
  directory, an init on the target or not.  The inputs are enumerated exhaustively, the
  seven phases are the real ones: nothing is bounded.
* **live_scan** (`MCLiveScan.cfg`): three devices, one of them listed twice by the globs, two
  ISO files on one of them, 64 arrangements of contents and two more with a bad ISO on a stick before
  a card that holds the good one, with and without Ventoy and
  `checkhash=1`, all orders of discovery.  Three passes as in the code.  Two loop devices: when
  the first ISO has a misread name there is one left for the second ISO on the first visit to the
  stick, which is all that `ChoosesFirstGood` needs, one on the second visit only for the first
  ISO again, and none on the third (`NoLoopLeft`).  That the loop devices suffice in this sense
  (`EnoughLoops`, the hypothesis of three theorems) is evaluated by an ASSUME of this run's module
  and of the next one's.
* **live_boot** (`MCLiveBoot.cfg`): two devices, one ISO, two passes (the third adds no new
  situation: a pass before and a pass after the discovery), 13 ways to boot including the
  boundaries of the zram sizing, each storage command failing or not.
* **disk_boot** (`MCDiskBoot.cfg`): two disks, root on one, swap on the same or the other, both
  layers, all four ways of naming each, every mixture of udev, tools, rules and init: 1080
  machines, each shut down or hibernated; a wait of 2 seconds (a second that is the last, one
  that is not).
* **disk_life** (`MCDiskLife.cfg`): four kinds of hardware (swap on the disk of root or on another, on a
  partition or on an activated volume), and at each of three boots any of eight command lines (four
  names for `resume=`, `noresume` or not): one boot that makes an image, one that misses it or is told
  to skip it, one that resumes from it is the shortest way to a stale resume.  A machine that was
  hibernated before begins with the image, so that three boots also hold two that pass it over.
* **tool_store** (`MCToolStore.cfg`): a tool of two binaries (the first is the one `ensure_tool`
  looks at) and a tool of one, so that the upload loop skips a tool, or fails between them;
  whole and half-written builds, two runs of `publish.sh` (the second finds the asset of
  the first), any number of pulls, fetches, compilations and interruptions.
* **disk_wizard** (`MCDiskWizard.cfg`): disks with zero to three old partitions, of either naming,
  two runs of the wizard in any scheme, each tool failing or not, reboots and umounts between.
  Two runs are what it takes to partition a disk the first run left mounted.
* **net_boot** (`MCNetBoot.cfg`): four images (netinstall with WiFi; embedded with and without the
  full applet list, with and without accounts and keys of its own), two networks one of whose names
  is the other's first word, one wired interface, waits of one second and one DHCP request (a turn
  that is the last and one that is not), two boots: a power cut in the first and what phase 50 makes
  of the files in the second.  `Keys` bounds the keys made, two per boot.
* **image_build** (`MCIsoBuild.cfg`): three runs of any kind (one that builds, one that is stopped in
  the same or the other directory, one that packs what is there), two work directories, which are
  symmetric, at most one unnoticed failure, three ways an `rm -rf` may be stopped: before anything,
  after files `--make-iso` does not ask for, after one it does.

`expect: violation` runs are disagreements between the code and what its documentation says,
met while modelling; each is a finding in `PROJECT.json`:

* **resume_is_honoured**: a late swap device is booted past, and its image is stale from then on.
* **table_after_yes**: the single partition of the manual scheme is written before YES is asked for.
* **hook_failure_aborts**: a hook that returns non-zero does not stop the build; `mkinitramfs` exits
  with 0.

### Fairness

`LiveScan`, `LiveBoot` and `DiskBoot` assume weak fairness of the script's steps taken
together: PID 1 is scheduled, and each command it waits for ends (the waits of the script
are `sleep`s and bounded loops).  `MicroInit` assumes it except in phase 50 of the two shell modes,
which may wait for a user or a server for ever (`Waits`); `NetBoot` says where exactly: it assumes
that PID 1 (`Step`) and its child (`Tool`) are scheduled and that their bounded waits end, and nothing
of the user, the radio, or a DHCP or NTP server (`Answered`), because `udhcpc -q` without `-n`, `ntpd -q`
and `read` have no limit.  No fairness is assumed of device discovery or of interrupts.  `ToolStore`,
`DiskWizard`, `DiskLife` and `IsoBuild` state no liveness and assume no fairness.

### Deadlock

The runs say `CHECK_DEADLOCK FALSE`: a boot ends, in a shell or a system, and the scan in a
verdict; a machine may stay off, a tool unfetched, and a history ends with its last run or boot.
`HandsOver`, `EndsOrWaits` and `ScanEnds` say that the boots and the scan stop nowhere else.

### Mutants

Every property of a passing run comes with a faulty variant of a definition, kept beside the
definition it varies and marked as such (a `break` for a `break 2`, a forgotten `umount`, a
status not looked at), under which TLC finds the property violated.

## 4. Proofs

`tlapm` checks every theorem for all values of the constants, under the named assumptions of
the modules: `MarkersAssumption` (the "no marker" value is no marker), `ScanAssumption`
(devices and ISO files are disjoint, the glob lists every device and nothing else, "ventoy_iso" names no device, the empty
`FOUND_DEV` is none of them), `ArrangementsAssumption` and `BootsAssumption` (arrangements and boot options are
well formed), `ToolsAssumption` (no tool is listed twice, no two tools share a binary),
`NetsAssumption`, `ImagesAssumption` and `BoundsAssumption` (names, images and bounds are well formed, the wired
interfaces are finitely many),
`RunsAssumption` and `MaxFaultsAssumption`.

`EnoughLoops` is no assumption of a module but the hypothesis of `LoopsSuffice`, `ImplementsChoice` and
`BootsFirstGood`: a good ISO file can only be taken while a loop device is free, and a file whose
name grep does not find keeps one at each visit.  It asks for more loop devices than all visits
to other devices can keep, plus those the device itself keeps at one visit.  With no such file, the
ordinary case, that is one loop device.  What the code does when they run out
(`NoLoopLeft`) is in the model, and all other theorems about the scan hold without the hypothesis.

**MicroInit_proofs.**  The inductive invariant is `TypeOK /\ Control /\ NoReturn`.  `Control`
ties `pc` to `at`, `last` and `pid1` (PID 1 is the script exactly while `pc` is not "over");
`NoReturn` says that in a mode with a profile control never comes back from phase 60.  From it
follow `TypeCorrect`, `HooksUnreachable`, `PanicsAreKnown`, step by step,
`ImplementsContract`: `Spec => Contract!Spec`, and `BootTerminates`, one case per action: what lowers a pair in its first
or in its second part precedes it.  `EmbeddedStays` needs its own strengthening: the
mode of an embedded image is "embedded" from the moment it is resolved.

**LiveScan_proofs.**  The invariant `ScanInv` has one part per kind of state: `Mounts` (what each
stretch of the loop body may rely on having mounted, and that a device is only ever mounted on
an empty mount point), `Tested` (what it has established about the candidate), `Loops` (the
loop device of the ISO under test is the one `LOOP` names; every other one is free or holds a
misread name) and `Verdicts` (what `FOUND_DEV` means for the mounts).  None is inductive alone:
that a plain `umount` suffices at lines 98, 108 and 117 rests on no loop device being held there,
which rests on the lazy `umount` of line 161 having been reached with the right mount.  One lemma
per action shows it preserved; the theorems about the verdict and what it leaves behind are its
consequences.  Two further invariants are needed for *which* medium is chosen.  `Searched`: what
lies before the place of the loops (positions of the glob, ISO files of the device) is not good, or had
not been discovered when the globs were expanded.  `FewLeaks` counts the loop devices kept under
misread names: at most `n` for each visit to another device, where no other device has more than `n`
such files, and what this visit has added.  With `EnoughLoops` a loop device is then free whenever a good
ISO is reached (`LoopsSuffice`), and each step of the scan is one of `MediaChoice` or none
(`ImplementsChoice`): the verdict of a pass is reached only over candidates that were not good.
`ScanTerminates` needs `ScanInv` for the ranges of the counters; every action lowers the one part of
`ScanLeft` that belongs to its loop and keeps the coarser ones.

**LiveBoot_proofs.**  The composition keeps the scan's invariant and adds its own.  `Placed` ties `step` to
`at` and PID 1; `Storage` says what each place of phases 30 to 60 may rely on, from `Nothing` over
`Stored`, `Lower`, `Merged` and `Chosen` to `Rooted`; `OnTheMedium` says that the squashfs is that of the
medium ISO_MNT shows; `Zram` where the size came from; `VentoyOnly` that only a Ventoy boot has an ISO
under test.  The two halves meet in two lemmas: `FoundStays` (once the medium is found neither the scan
nor the kernel moves anything) and `ReleaseFreesNothing` (the umount of phase 60 hits an empty mount
point, because of what the scan's invariant says of a verdict that is a device).  Then `ScanInv` is
preserved by every step of the boot, and the four properties of the run follow.  `ImplementsMicroInit`
needs much less: `Track`, which ties `step` to the phase it belongs to and remembers that a breakpoint
that was passed was not asked for.  With it each action is one of the orchestrator's or leaves
the orchestrator's variables alone.  That mapping carries the orchestrator's theorem over:
`LiveHonoursContract` cites `ImplementsContract` of an instance of `MicroInit_proofs` (`Pid1`), so the
contract holds of a live boot in all its detail.  In the other direction `ScansAsLiveScan` says that a
boot, seen through the scan's variables, is a behaviour of `LiveScan`, from which
`BootsFirstGood` follows.  `BootTerminates` puts phases and steps before `ScanLeft` and uses
`ScanTerminates`' lemma for the scan's own steps.

**DiskLife_proofs.**  `SystemAlwaysHasRoot` needs that "switch" is reached only behind a mount.
`GivesUpOnlyJustly` carries `WaitInv`: until the wait is over a boot with the tools has activated all it had
discovered, and it has a root to wait for; so what is still missing after `MaxWait` is one of the cases the
property lists.  `ImplementsMicroInit` maps each step of the boot to the orchestrator, with a `Track` of which
phase is entered when; through it `DiskHonoursContract` carries the orchestrator's theorem over, and
`PanicsOnlyWithoutInit` leaves one way for the kernel of a disk boot to panic.  `BootTerminates` rests on `Track`
and `WaitInv`, which bounds the seconds waited.  `StaleImagesWerePassedOver` is an invariant of the *disk's contents* across boots,
whatever their command lines: `ImageInv` says that a stale image has a boot on record that went past it,
and that behind `do_try_resume` even a fresh one has just been passed over, which is what makes the step
of `MountRoot` harmless.

**ToolStore_proofs.**  For `ServedToolsDoConverge` the invariant says that the release agrees with the
manifest on every packaged tool the upload loop has passed, but for those in `unserved`, the history of
refused requests; that an upload or a delete disturbs none of those rests on no tool being listed twice.  For `FetchesAreTheRow` it says
that between verification and validation `temp` is the row and the binaries extracted so far are
the row's; no pull can come between, since a checkout is not updated while a build runs in it.
`TypeCorrect` needs one thing more: outside a fetch no download is left, so the archive at hand is always
one of the tool asked for.

**DiskWizard_proofs.**  `WizardInv` follows a run stage by stage: what was asked and confirmed
(`Consent`: before YES a table may be written in the single scheme only), what has become of root
(`RootMade`: mkswap over it is allowed for, and that the mount then still succeeds is what makes
the result usable), and which table the kernel has (`Known`: what this run formatted was not in
use, so something else must have kept the old table).

**NetBoot_proofs.**  Three invariants that do not need each other.  `SetUp`: where the script is tells what
is in the account files, and while dropbear runs the script is past every step that writes them; a
power cut stops dropbear with the rest.  `RootAlwaysCanLogIn` also assumes `NoBlankImages`, that no image
which has `cryptpw` comes with an empty root password, which is hook 20's doing
(`20-passwd-shadow:20-25`).  `Identity`: a client that was shown a key was shown the one there is, unless a
power cut took it.  `Associated /\ Address`: without an address at its beginning a script has none until
`udhcpc` got one, of the network the supplicant is configured for.  `ImplementsMicroInit`: with `Track`, every
step of a boot is one of the orchestrator's; what user, servers and power do leaves it alone or
restarts it.  `EveryBootHonoursContract` says that of the contract: each step is the orchestrator's or
begins a boot from its initial state, so the orchestrator's invariant, and with it its step lemma, holds
over any number of boots.  `BootTerminates` uses `Left`: the interfaces still to try are finitely many, and the
tries and seconds counted stay within their limits.

**IsoBuild_proofs.**  The invariant has five parts.  `TreeAccounts` and `ImageAccounts`: at each place of
`mkinitramfs` the parts due by then are in the tree, or known to have failed, or belong to a hook that
has yet to run.  `SumTravels`: the sum in the image is `EXTRA_DIR`'s unless hook 50 failed.  `Coupled`: how the
places of `build.sh` and `mkinitramfs` go together.  `OwnTree` and `Trees`: the directory a run builds in
holds its own files only, in the order they are made, and every directory, whatever runs were
stopped in it, holds files of one run.  `Checked` and `IsoKept` carry that to the ISO.  None holds alone:
that `--make-iso` packs a coherent tree rests on its asking for `eltorito.img`, the last artifact made:
a directory that has one was built to its end, up to that file's own bytes.

Only model-checked: the liveness properties `HandsOver`, `ScanEnds`, `LatecomerIsFound`,
`LateRootIsMounted`, `GoodMediumPassesScan` and `EndsOrWaits`.  One half of each, that the scripts take only
finitely many steps, is what the `...Terminates` theorems prove for all constants; the other half,
that a step is always enabled until the end and fairness takes it, is out of the prover's
reach, as is the induction over measures that would join the two.

## 5. What is not modelled, and why

* Removal of a device during the scan, I/O errors that come and go: the scripts have no code
  for them.
* `mount --bind` and the pseudo file systems of the new root are assumed to succeed when
  their source exists; their failure is ignored by the script and changes no decision.
* `losetup -f FILE` is taken to claim a free device at once, and `exec` of the shell on tty1
  to succeed.
* What the booted system does with a stale image on its swap is a choice (`DropImage`): it is not
  this repository's code.  Disks are not removed during a boot.
* Two publishers of one architecture at a time: the CI job publishes x86_64, the maintainer ARMHF.
* `initrd_debug=1` outside the live profile: `MicroInit` shows phase 30 returning before the
  breakpoint in the other modes, so the boot menu's debug entry for the net install (`build.sh:968`)
  does not stop there.  No run is spent on it.
* Phase 99 is documented for every profile (`HOOKS-AND-PHASES.md:71`); the theorem
  `HooksUnreachable` says none reaches it.  A refused upload is a warning (`publish.sh:171`), after
  which the manifest names an asset that is not there; `ServedToolsConverge` is what remains true:
  a refusal at one tool costs no other.  A consumer of the refused tool fails to fetch it and compiles.
* In the wizard: which commands fdisk makes of answers left over from a partition it could not
  create; names that denote another disk (`nvme0n1` followed by `1`); formatting the EFI partition,
  which the wizard does not do.
* Cross compilation and the recipes: their result is an action, `BuildHere` or `Compile`.
* `live-config.sh`: when it runs and below which root is in `LiveBoot`.  What it does is one
  straight-line pass over a fresh overlay, once per boot, with nothing beside it, into files no other
  part reads.
* `netinstall-init.sh`, which is deprecated: nothing starts it.
* In the net profiles: a read-only root; a user who starts `wifi-wizard.sh` in the shell
  `wifi-config.sh` opened; the wizard's branch for `dhcpcd`, which no profile installs; hook 62's removal
  of the baked passwd, which `Images` has as "absent"; group, resolv.conf and the guide.
* In the build: the effect of a power cut on a work directory (a stop leaves what the process had
  written), `--clean-all`, the choice of the kernel and the text of the menu, `relax_perms`,
  `lsinitramfs`.
* The shares of code covered: the program is shell scripts, most without an extension; the C files of
  the repository are the vendored kernel headers, of which nothing is modelled.
* Splash screens, banners, prompts, colours.
* `tools/lib/kernel-headers`: vendored C headers; the per-tool build recipes, CI and meson files:
  straight-line calls of external build systems.

### Where the documents and the code part, without a run

* `docs/08-ventoy-support.md:78-83` says that the hash of an ISO's squashfs is computed; without
  `checkhash=1`, `init-live.sh:144` compares the recorded one (`HashMatches` is what the code does, and
  `MediumVerified` claims no more).
* `docs/10-boot-modes.md:204` has `noresume` as "Skip hibernation resume".  The image is skipped and left
  on the swap (`init-disk.sh:104`); root is mounted past it, and the next boot without `noresume` resumes
  an image of a root that has changed.  `StaleOnlyIfPassedOver` names this way to a stale resume beside
  the late device.
* The path of an ISO is a regular expression to grep (`init-live.sh:127`), so its name decides whether it
  can be found; `ungreppable` is that set, and `LoopsReleased` says what it costs.
* `ensure_tool` (`build.sh:710`) takes any file of the tool's name for the tool, also the half of one that
  an interrupted fetch or recipe left.  Nothing guards against it, so no property is stated.
* `wifi-wizard.sh:246` splits names with spaces; the user is offered the words (`Words`).
* `HOOKS-AND-PHASES.md:31` says hook 55 bakes the host keys of both profiles; `build.sh` makes them for embedded
  only.  `HOOKS-AND-PHASES.md:33` says `setup_ssh` regenerates passwd and group; it writes no group.
* An embedded image without `cryptpw` whose shadow is lost gets an empty root hash (`SetupShadow`); that is
  the exception `RootCanLogIn` names.

## 6. Plan

What is left, in order:

1. `live-config.sh` and the group memberships it appends, if it comes to run on a root that is kept.
2. Two publishers at a time, if the CI job comes to publish both architectures.
