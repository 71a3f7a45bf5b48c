------------------------------ MODULE NetBoot ------------------------------
(***************************************************************************)
(* The net and embedded profiles over the life of one image: phase 50      *)
(* (dhcp_all, wifi_config, ntp_sync, setup_ssh of init-net.sh and          *)
(* init-embedded.sh), the shell phase 60 ends in, and the user there, over *)
(* reboots and power cuts.  A netinstall image runs from RAM and starts    *)
(* anew each time; an embedded sysroot may lie on a disk.                  *)
(***************************************************************************)
EXTENDS WifiTools, FiniteSets, Progress

CONSTANTS
  Images,      \* the images booted and the machines they boot on, as in Image
  Wired,       \* wired interfaces
  DhcpTries,   \* requests of dhcp_all's udhcpc (-t 3)
  MaxBoots     \* bound on the boots of one image

VARIABLES
  image,       \* the image; no step changes it
  flag,        \* netinstall=1 is on the command line of this boot
  boots,       \* boots so far
  (* the script *)
  step, mode, at, last, pid1, libs,
  todo,        \* interfaces dhcp_all has yet to try
  tries,       \* requests the running udhcpc has sent
  (* the kernel *)
  leased,      \* those with an address
  (* the files, and what a power cut may leave of each *)
  etc,         \* /etc/passwd, /etc/shadow
  etcDisk,
  key,         \* dropbear's host keys; 0 is no file
  keyDisk,
  made,        \* keys that exist so far
  served,      \* the keys the running dropbear has loaded
  sshd,        \* dropbear runs
  (* history *)
  prints,      \* the keys clients were shown
  lost,        \* files a power cut did not leave as they were
  chosen,      \* the user has set a password
  overridden   \* setup_ssh of the net profile ran on this image

machine == <<image, flag, boots>>
script  == <<step, mode, at, last, pid1, libs>>
wired   == <<todo, tries, leased>>
files   == <<etc, etcDisk, key, keyDisk, made>>
ssh     == <<served, sshd, prints>>
history == <<lost, chosen, overridden>>
vars    == <<machine, script, wired, files, ssh, history, wifiVars>>

Accounts == {"passwd", "shadow"}
KeyTypes == {"ed25519", "rsa"}

(* passwd is told apart by its root entry, shadow by root's password in it: *)
(* none, the empty hash, the one of "neonatox", the user's own.  "other" is *)
(* a file with other entries only, which whoever completes a sysroot may    *)
(* have put there.                                                          *)
PasswdStates == {"absent", "empty", "other", "root"}
ShadowStates == {"absent", "empty", "other", "blank", "neonatox", "own"}

Image ==
  [profile  : {"netinstall", "embedded"},
   store    : {"ram", "disk"},
   applets  : BOOLEAN,     \* cryptpw and ntpd: the static list of embedded has neither
   wificonf : BOOLEAN,     \* /wifi-config.sh
   iw       : BOOLEAN,
   wlan     : BOOLEAN,     \* the machine has a WiFi interface
   passwd   : PasswdStates,
   shadow   : ShadowStates,
   baked    : BOOLEAN]     \* host keys from hook 55

ASSUME ImagesAssumption ==
  /\ Images \subseteq Image
  /\ \A i \in Images : i.profile = "netinstall" => i.store = "ram" /\ i.applets
ASSUME BoundsAssumption == IsFiniteSet(Wired) /\ DhcpTries \in Nat /\ MaxBoots \in Nat

Keys == 0 .. 2 * (MaxBoots + 1)

Steps == {"mode", "libs", "loop", "early", "dhcp_all", "udhcpc", "wifi", "child", "ntp",
          "ntpd", "passwd", "shadow", "ed25519", "rsa", "dropbear", "60", "over"}

TypeOK ==
  /\ WifiTypeOK
  /\ image \in Images /\ flag \in BOOLEAN /\ boots \in 1..MaxBoots
  /\ step \in Steps /\ mode \in {"live", "netinstall", "embedded"}
  /\ at \in 0..6 /\ last \in {"none", "zero"} /\ pid1 \in {"init", "shell"}
  /\ libs \in SUBSET {"live", "net", "embedded"}
  /\ todo \subseteq Wired /\ leased \subseteq Wired
  /\ tries \in 0..DhcpTries
  /\ etc.passwd \in PasswdStates /\ etc.shadow \in ShadowStates
  /\ key \in [KeyTypes -> Keys] /\ made \in Keys
  /\ served \in [KeyTypes -> Keys] /\ sshd \in BOOLEAN
  /\ lost \subseteq Accounts \cup KeyTypes
  /\ chosen \in BOOLEAN /\ overridden \in BOOLEAN

BakedEtc == [passwd |-> image.passwd, shadow |-> image.shadow]
BakedKey == IF image.baked THEN [ed25519 |-> 1, rsa |-> 2] ELSE [t \in KeyTypes |-> 0]

(* A file none of whose writes is under way. *)
Settled(contents) == [f \in DOMAIN contents |-> {contents[f]}]

Init ==
  /\ image \in Images
  /\ boots = 1
  /\ flag \in IF image.profile = "netinstall" THEN {TRUE} ELSE BOOLEAN
  /\ step = "mode" /\ mode = "live" /\ at = 0 /\ last = "zero" /\ pid1 = "init" /\ libs = {}
  /\ todo = {} /\ tries = 0 /\ leased = {}
  /\ served = [t \in KeyTypes |-> 0] /\ sshd = FALSE
  /\ WifiInit
  /\ etc = BakedEtc /\ etcDisk = Settled(BakedEtc)
  /\ key = BakedKey /\ keyDisk = Settled(BakedKey) /\ made = 2
  /\ prints = [t \in KeyTypes |-> {}]
  /\ lost = {} /\ chosen = FALSE /\ overridden = FALSE

-----------------------------------------------------------------------------
Continue(next) == step' = next /\ UNCHANGED <<mode, at, last, pid1, libs>>

(* init, and the phases before the network. *)

ResolveMode ==
  /\ step = "mode"
  /\ mode' = IF flag THEN "netinstall" ELSE "embedded"
  /\ step' = "libs"
  /\ UNCHANGED <<machine, at, last, pid1, libs, wired, files, ssh, history, wifiVars>>

(* Faulty variant: the net library without the live one it builds on. *)
SourceLibsAlone ==
  /\ step = "libs"
  /\ libs' = IF mode = "netinstall" THEN {"net"} ELSE {"embedded"}
  /\ step' = "loop"
  /\ UNCHANGED <<machine, mode, at, last, pid1, wired, files, ssh, history, wifiVars>>

SourceLibs ==
  /\ step = "libs"
  /\ libs' = IF mode = "netinstall" THEN {"live", "net"} ELSE {"embedded"}
  /\ step' = "loop"
  /\ UNCHANGED <<machine, mode, at, last, pid1, wired, files, ssh, history, wifiVars>>

(* Phases 10 to 40 return at once or only prepare; 50 starts with the list *)
(* of the interfaces there are, which is made once: one the kernel finds   *)
(* later is not tried.                                                     *)
EnterPhase ==
  /\ step = "loop"
  /\ at' = at + 1 /\ last' = "none"
  /\ step' = IF at' = 5 THEN "dhcp_all" ELSE IF at' = 6 THEN "60" ELSE "early"
  /\ IF at' = 5 THEN todo' \in SUBSET Wired ELSE UNCHANGED todo
  /\ UNCHANGED <<machine, mode, pid1, libs, tries, leased, files, ssh, history, wifiVars>>

EarlyPhase ==
  /\ step = "early"
  /\ last' = "zero" /\ step' = "loop"
  /\ UNCHANGED <<machine, mode, at, pid1, libs, wired, files, ssh, history, wifiVars>>

-----------------------------------------------------------------------------
(* dhcp_all: an interface after the other. *)

TryNext ==
  /\ step = "dhcp_all" /\ todo # {}
  /\ tries' = 0
  /\ Continue("udhcpc")
  /\ UNCHANGED <<machine, todo, leased, files, ssh, history, wifiVars>>

NoneLeft ==
  /\ step = "dhcp_all" /\ todo = {}
  /\ Continue("wifi")
  /\ UNCHANGED <<machine, wired, files, ssh, history, wifiVars>>

(* Faulty variant: no -n, so that udhcpc starts over. *)
UdhcpcPersistent ==
  /\ step = "udhcpc"
  /\ \E n \in todo :
       \/ todo' = todo \ {n} /\ leased' = leased \cup {n} /\ tries' = 0 /\ Continue("dhcp_all")
       \/ /\ tries' = IF tries < DhcpTries THEN tries + 1 ELSE 0
          /\ UNCHANGED <<todo, leased, script>>
  /\ UNCHANGED <<machine, files, ssh, history, wifiVars>>

(* udhcpc -n -q -t 3: a lease, or the end after the last request. *)
Udhcpc ==
  /\ step = "udhcpc"
  /\ \E n \in todo :
       \/ todo' = todo \ {n} /\ leased' = leased \cup {n} /\ tries' = 0 /\ Continue("dhcp_all")
       \/ tries < DhcpTries /\ tries' = tries + 1 /\ UNCHANGED <<todo, leased, script>>
       \/ /\ tries = DhcpTries /\ tries' = 0
          /\ todo' = todo \ {n} /\ Continue("dhcp_all") /\ UNCHANGED leased
  /\ UNCHANGED <<machine, files, ssh, history, wifiVars>>

HasIp == leased # {} \/ ip # NoNet

(* Only without any address, and as a child that is waited for. *)
WifiConfig ==
  /\ step = "wifi"
  /\ IF ~HasIp /\ image.wificonf
       THEN Starts("config", "none", "find") /\ Continue("child")
       ELSE Continue("ntp") /\ UNCHANGED wifiVars
  /\ UNCHANGED <<machine, wired, files, ssh, history>>

ChildEnds ==
  /\ step = "child" /\ tool = "none"
  /\ Continue("ntp")
  /\ UNCHANGED <<machine, wired, files, ssh, history, wifiVars>>

NtpSync ==
  /\ step = "ntp"
  /\ IF HasIp /\ image.applets THEN Continue("ntpd") ELSE Continue("passwd")
  /\ UNCHANGED <<machine, wired, files, ssh, history, wifiVars>>

(* `ntpd -n -q` quits once the clock is set; that takes an answer. *)
NtpAnswers ==
  /\ step = "ntpd"
  /\ Continue("passwd")
  /\ UNCHANGED <<machine, wired, files, ssh, history, wifiVars>>

-----------------------------------------------------------------------------
(* setup_ssh.  A file written with > may be found old, empty or new after  *)
(* a power cut; one that is appended to, old or new.                       *)

Truncate(f, contents) ==
  /\ etc' = [etc EXCEPT ![f] = contents]
  /\ etcDisk' = [etcDisk EXCEPT ![f] = @ \cup {"empty", contents}]

AppendEntry(f, contents) ==
  /\ etc' = [etc EXCEPT ![f] = contents]
  /\ etcDisk' = [etcDisk EXCEPT ![f] = @ \cup {contents}]

(* The net profile writes the file over; the embedded one completes it.    *)
(* [ -s ] is false of an absent and of an empty file.                      *)
Ensure(f, rootEntry, hasRoot) ==
  IF mode = "netinstall" \/ etc[f] \in {"absent", "empty"} THEN Truncate(f, rootEntry)
  ELSE IF hasRoot THEN UNCHANGED <<etc, etcDisk>>
  ELSE AppendEntry(f, rootEntry)

(* Faulty variants: the file is taken as it is once it exists; the line of *)
(* the embedded profile is that of the net profile.                        *)
SetupPasswdIfMissing ==
  /\ step = "passwd"
  /\ IF etc.passwd = "absent" THEN Truncate("passwd", "root")
     ELSE UNCHANGED <<etc, etcDisk>>
  /\ overridden' = (overridden \/ mode = "netinstall")
  /\ Continue("shadow")
  /\ UNCHANGED <<machine, wired, key, keyDisk, made, ssh, lost, chosen, wifiVars>>

SetupPasswd ==
  /\ step = "passwd"
  /\ Ensure("passwd", "root", etc.passwd = "root")
  /\ overridden' = (overridden \/ mode = "netinstall")
  /\ Continue("shadow")
  /\ UNCHANGED <<machine, wired, key, keyDisk, made, ssh, lost, chosen, wifiVars>>

SetupShadowAlways ==
  /\ step = "shadow"
  /\ Truncate("shadow", IF image.applets THEN "neonatox" ELSE "blank")
  /\ Continue("ed25519")
  /\ UNCHANGED <<machine, wired, key, keyDisk, made, ssh, history, wifiVars>>

(* Without cryptpw the hash of the entry is the empty string. *)
SetupShadow ==
  /\ step = "shadow"
  /\ Ensure("shadow", IF image.applets THEN "neonatox" ELSE "blank",
            etc.shadow \in {"blank", "neonatox", "own"})
  /\ Continue("ed25519")
  /\ UNCHANGED <<machine, wired, key, keyDisk, made, ssh, history, wifiVars>>

(* A faulty variant: the test for the key is forgotten. *)
HostKeyAlways ==
  /\ step \in KeyTypes
  /\ Continue(IF step = "ed25519" THEN "rsa" ELSE "dropbear")
  /\ made' = made + 1
  /\ key' = [key EXCEPT ![step] = made']
  /\ keyDisk' = [keyDisk EXCEPT ![step] = @ \cup {made'}]
  /\ UNCHANGED <<machine, wired, etc, etcDisk, ssh, history, wifiVars>>

(* dropbearkey writes a file of its own and links it to the name, so a     *)
(* power cut leaves a whole key or none.  It may fail.                     *)
HostKey ==
  /\ step \in KeyTypes
  /\ Continue(IF step = "ed25519" THEN "rsa" ELSE "dropbear")
  /\ \/ /\ key[step] = 0
        /\ made' = made + 1
        /\ key' = [key EXCEPT ![step] = made']
        /\ keyDisk' = [keyDisk EXCEPT ![step] = @ \cup {made'}]
     \/ UNCHANGED <<key, keyDisk, made>>
  /\ UNCHANGED <<machine, wired, etc, etcDisk, ssh, history, wifiVars>>

(* dropbear needs one key; whether it runs is only reported. *)
Dropbear ==
  /\ step = "dropbear"
  /\ \/ /\ \E t \in KeyTypes : key[t] # 0
        /\ sshd' = TRUE /\ served' = key
        /\ prints' = [t \in KeyTypes |-> prints[t] \cup ({key[t]} \ {0})]
     \/ UNCHANGED ssh
  /\ last' = "zero" /\ step' = "loop"
  /\ UNCHANGED <<machine, mode, at, pid1, libs, wired, files, history, wifiVars>>

(* Phase 60: show_ip, show_guide, run_shell. *)
RunShell ==
  /\ step = "60"
  /\ pid1' = "shell" /\ step' = "over"
  /\ UNCHANGED <<machine, mode, at, last, libs, wired, files, ssh, history, wifiVars>>

-----------------------------------------------------------------------------
(* The user, the hardware, the power. *)

(* ^C reaches the child as well; the trap then execs the shell. *)
Interrupt ==
  /\ pid1 = "init"
  /\ pid1' = "shell" /\ step' = "over"
  /\ IF tool = "none" THEN UNCHANGED wifiVars ELSE Ends("none") /\ UNCHANGED link
  /\ UNCHANGED <<machine, mode, at, last, libs, wired, files, ssh, history>>

(* passwd(1) renames a new file over the old one. *)
SetPassword ==
  /\ pid1 = "shell" /\ etc.shadow \in {"blank", "neonatox"}
  /\ AppendEntry("shadow", "own")
  /\ chosen' = TRUE
  /\ UNCHANGED <<machine, script, wired, key, keyDisk, made, ssh, lost, overridden, wifiVars>>

(* Without an interface the wizard ends before it does anything. *)
RunWizard ==
  /\ pid1 = "shell" /\ image.wlan
  /\ \E j \in Jobs \ {"none"} : Starts("wizard", j, "stop")
  /\ UNCHANGED <<machine, script, wired, files, ssh, history>>

StopWizard ==
  /\ pid1 = "shell" /\ tool = "wizard"
  /\ Ends("none")
  /\ UNCHANGED <<machine, script, wired, files, ssh, history, link>>

(* The next boot finds what the store kept: on a disk everything after a   *)
(* reboot, which syncs, and after a power cut any of what each file may    *)
(* have become; in RAM the image.                                          *)
Restart ==
  /\ boots < MaxBoots
  /\ boots' = boots + 1
  /\ flag' \in IF image.profile = "netinstall" THEN {TRUE} ELSE BOOLEAN
  /\ step' = "mode" /\ mode' = "live" /\ at' = 0 /\ last' = "zero" /\ pid1' = "init" /\ libs' = {}
  /\ todo' = {} /\ tries' = 0 /\ leased' = {}
  /\ served' = [t \in KeyTypes |-> 0] /\ sshd' = FALSE
  /\ WifiReset
  /\ etcDisk' = Settled(etc') /\ keyDisk' = Settled(key')
  /\ UNCHANGED <<image, made, prints, chosen, overridden>>

Reboot ==
  /\ pid1 = "shell" /\ tool = "none"
  /\ etc' = (IF image.store = "disk" THEN etc ELSE BakedEtc)
  /\ key' = (IF image.store = "disk" THEN key ELSE BakedKey)
  /\ Restart
  /\ UNCHANGED lost

PowerCut ==
  /\ IF image.store = "disk"
       THEN /\ \E p \in etcDisk.passwd, s \in etcDisk.shadow :
                 etc' = [passwd |-> p, shadow |-> s]
            /\ \E e \in keyDisk.ed25519, r \in keyDisk.rsa :
                 key' = [ed25519 |-> e, rsa |-> r]
       ELSE etc' = BakedEtc /\ key' = BakedKey
  /\ Restart
  /\ lost' = lost \cup {f \in Accounts : etc'[f] # etc[f]} \cup {t \in KeyTypes : key'[t] # key[t]}

-----------------------------------------------------------------------------
(* The steps PID 1 and its child take by themselves. *)
Step ==
  \/ ResolveMode \/ SourceLibs \/ EnterPhase \/ EarlyPhase
  \/ TryNext \/ NoneLeft \/ Udhcpc \/ WifiConfig \/ ChildEnds \/ NtpSync
  \/ SetupPasswd \/ SetupShadow \/ HostKey \/ Dropbear \/ RunShell

Tool ==
  /\ ScriptStep(image.iw /\ image.wlan)
  /\ UNCHANGED <<machine, script, wired, files, ssh, history>>

(* The steps that wait for somebody else. *)
Answered ==
  \/ NtpAnswers
  \/ AnsweredStep /\ UNCHANGED <<machine, script, wired, files, ssh, history>>

Radio ==
  /\ RadioStep
  /\ UNCHANGED <<machine, script, wired, files, ssh, history>>

User == Interrupt \/ SetPassword \/ RunWizard \/ StopWizard \/ Reboot

Next == Step \/ Tool \/ Answered \/ Radio \/ User \/ PowerCut

Spec == Init /\ [][Next]_vars

(* PID 1 and its child are scheduled, and every wait of theirs that has a  *)
(* limit ends.  Nothing is assumed of the user, the radio or any server.   *)
FairSpec == Spec /\ WF_vars(Step) /\ WF_vars(Tool)

-----------------------------------------------------------------------------
(* Properties *)

(* While dropbear runs, root is in both files and has a password, whatever *)
(* the image came with and whatever a power cut made of the files, except  *)
(* that an image without cryptpw replaces a lost hash by an empty one      *)
(* (init-net.sh:81-85, init-embedded.sh:75-90).                            *)
RootCanLogIn ==
  sshd => /\ etc.passwd = "root"
          /\ etc.shadow \in {"neonatox", "own"} \cup
                            (IF image.applets THEN {} ELSE {"blank"})

(* An embedded system on a disk keeps what others know of it: clients are  *)
(* shown one fingerprint for ever and the user's password stays, except    *)
(* for files a power cut took and, for the password, boots with            *)
(* netinstall=1 (init-embedded.sh:77-78 and 92-93 against init-net.sh:83). *)
KeepsIdentity ==
  image.store = "disk" =>
    /\ \A t \in KeyTypes \ lost : \A j, k \in prints[t] : j = k
    /\ chosen /\ ~overridden /\ "shadow" \notin lost => etc.shadow = "own"

(* When a WiFi script reports a connection the interface has an address of *)
(* the network it asked for, unless the wizard found an address there when *)
(* it began (wifi-wizard.sh:172-179, 281-288).                             *)
ClaimIsBacked ==
  claim = "connected" => ip # NoNet /\ (ip = conf \/ held)

(* Every boot gets to a shell unless it waits, for ever, for the user or a *)
(* DHCP server in wifi-config.sh or for an NTP server: the other waits of  *)
(* phase 50 all end, without a cable too.                                  *)
EndsOrWaits ==
  \/ []<>(pid1 = "shell")
  \/ <>[](step = "child" /\ ToolWaits)
  \/ <>[](step = "ntpd")

(* What a boot has left to do: phases, steps of the phase, interfaces,     *)
(* requests to the server asked, steps and seconds of a WiFi script.       *)
StepsLeft ==
  CASE step \in {"dhcp_all", "udhcpc"} -> 11 [] step = "wifi" -> 10 [] step = "child" -> 9
    [] step = "ntp" -> 8 [] step = "ntpd" -> 7 [] step = "passwd" -> 6 [] step = "shadow" -> 5
    [] step = "ed25519" -> 4 [] step \in {"rsa", "mode"} -> 3
    [] step \in {"dropbear", "libs", "early", "60"} -> 2 [] step = "loop" -> 1 [] OTHER -> 0

TriesLeft == IF step = "udhcpc" THEN DhcpTries - tries ELSE DhcpTries + 1

BootLeft ==
  << 6 - at, StepsLeft, Cardinality(todo), TriesLeft, ToolStepsLeft, WaitLimit - waited >>

(* Whoever answers or not, every step of a boot and of a WiFi script brings *)
(* it nearer to its end; only the radio, a new password and another start  *)
(* of the wizard do not (init-net.sh:47-58, wifi-config.sh:71-79,          *)
(* wifi-wizard.sh:172-181).                                                *)
BootAdvances ==
  [][ boots' = boots =>
        /\ IsMeasure(BootLeft')
        /\ \/ Precedes(BootLeft', BootLeft)
           \/ BootLeft' = BootLeft /\ (Radio \/ SetPassword)
           \/ RunWizard ]_vars

(* Every boot of the image is a run of MicroInit in one of its two shell   *)
(* modes, and a restart begins another.                                    *)
Orchestrator == INSTANCE MicroInit WITH
  Markers  <- {"embedded"},
  NoMarker <- "no marker",
  flags    <- IF flag THEN {"netinstall=1"} ELSE {},
  marker   <- IF image.profile = "embedded" THEN "embedded" ELSE "no marker",
  dbg      <- 0,
  hooks    <- "empty",
  target   <- TRUE,
  pc       <- IF step \in {"mode", "libs", "loop", "over"} THEN step ELSE "phase"
RunsAsMicroInit ==
  Orchestrator!Init /\ [][Orchestrator!Next \/ Orchestrator!Init']_(Orchestrator!vars)

=============================================================================
