----------------------------- MODULE WifiTools -----------------------------
(***************************************************************************)
(* The two scripts that bring a WiFi interface up, wifi-config.sh, which   *)
(* phase 50 runs as a child and waits for, and wifi-wizard.sh, which the   *)
(* user runs from the shell, against wpa_supplicant, the radio and the     *)
(* DHCP server.  NetBoot extends this module with the boot around them.    *)
(*                                                                         *)
(* An address is named by the network whose server leased it.  udhcpc -q   *)
(* quits after a lease, so nothing takes an address away when the network  *)
(* goes; the deconfig call of the next udhcpc does.                        *)
(***************************************************************************)
EXTENDS Naturals

CONSTANTS
  Nets,        \* names of the networks around
  Spoken,      \* names a user may type or a list may offer
  Words,       \* what `for s in $ssids` makes of a network's name
  NoNet,       \* no network
  WaitLimit    \* seconds the bounded waits last (20, 15 in the code)

ASSUME NetsAssumption ==
  /\ Nets \subseteq Spoken /\ NoNet \notin Spoken
  /\ Words \in [Nets -> SUBSET Spoken]
  /\ WaitLimit \in Nat

VARIABLES
  (* wpa_supplicant, the kernel *)
  conf,       \* the network wpa_supplicant is configured for, if it runs
  radio,      \* the network the interface is associated with
  ip,         \* the network the interface's address was leased on
  (* the script *)
  tool,       \* the script that runs
  job,        \* the wizard's mode
  tpc,        \* where it is
  ssid,       \* SSID, target_ssid
  waited,     \* waited
  claim,      \* what the last script reported
  (* history *)
  held        \* the interface had an address when the script began

link     == <<conf, radio, ip>>
wifiVars == <<conf, radio, ip, tool, job, tpc, ssid, waited, claim, held>>

Tools     == {"none", "config", "wizard"}
Jobs      == {"none", "scan", "connect", "interactive"}
Positions == {"idle", "find", "shell", "ask", "connect", "stop", "start", "scan",
              "choose", "await", "dhcp", "check"}

WifiTypeOK ==
  /\ conf \in Spoken \cup {NoNet} /\ radio \in Nets \cup {NoNet} /\ ip \in Nets \cup {NoNet}
  /\ tool \in Tools /\ job \in Jobs /\ tpc \in Positions
  /\ ssid \in Spoken \cup {NoNet}
  /\ waited \in 0..WaitLimit
  /\ claim \in {"none", "connected", "failed"}
  /\ held \in BOOLEAN

WifiInit ==
  /\ conf = NoNet /\ radio = NoNet /\ ip = NoNet
  /\ tool = "none" /\ job = "none" /\ tpc = "idle" /\ ssid = NoNet
  /\ waited = 0 /\ claim = "none" /\ held = FALSE

(* The machine restarts. *)
WifiReset ==
  /\ conf' = NoNet /\ radio' = NoNet /\ ip' = NoNet
  /\ tool' = "none" /\ job' = "none" /\ tpc' = "idle" /\ ssid' = NoNet
  /\ waited' = 0 /\ claim' = "none" /\ held' = FALSE

-----------------------------------------------------------------------------
Goto(p) == tpc' = p /\ UNCHANGED <<tool, job, claim, held>>

(* The script ends, having told the user how it went. *)
Ends(report) ==
  /\ tool' = "none" /\ job' = "none" /\ tpc' = "idle"
  /\ ssid' = NoNet /\ waited' = 0 /\ claim' = report
  /\ UNCHANGED held

(* wpa_cli terminate, killall: the supplicant is gone and the association  *)
(* with it; the address is not.                                            *)
WpaStop == conf' = NoNet /\ radio' = NoNet /\ UNCHANGED ip

(* wpa_supplicant -B: it may come up without a network, when wpa_passphrase *)
(* refused the password.                                                   *)
WpaFor(n) == conf' \in {n, NoNet} /\ radio' = NoNet /\ UNCHANGED ip

Starts(script, j, p) ==
  /\ tool = "none"
  /\ tool' = script /\ job' = j /\ tpc' = p
  /\ claim' = "none" /\ held' = (ip # NoNet)
  /\ UNCHANGED <<link, ssid, waited>>

-----------------------------------------------------------------------------
(* wifi-config.sh *)

(* find_wifi_iface needs iw, which no profile requires, and an interface,  *)
(* which may be late; the child execs a shell if it finds none.            *)
FindIface(found) ==
  /\ tool = "config" /\ tpc = "find"
  /\ Goto("shell") \/ (found /\ Goto("ask"))
  /\ UNCHANGED <<link, ssid, waited>>

(* The user leaves that shell. *)
LeaveShell ==
  /\ tool = "config" /\ tpc = "shell"
  /\ Ends("failed")
  /\ UNCHANGED link

(* An empty SSID is an error. *)
AskSsid ==
  /\ tool = "config" /\ tpc = "ask"
  /\ \/ \E n \in Spoken : ssid' = n /\ Goto("connect") /\ UNCHANGED waited
     \/ Ends("failed")
  /\ UNCHANGED link

(* The status of wpa_supplicant is not looked at. *)
ConnectWpa ==
  /\ tool = "config" /\ tpc = "connect"
  /\ WpaFor(ssid)
  /\ Goto("await")
  /\ UNCHANGED <<ssid, waited>>

(* Lines 71-79: at most 20 s for the association, then DHCP regardless;    *)
(* udhcpc begins by flushing the interface.                                *)
AwaitAssociation ==
  /\ tool = "config" /\ tpc = "await"
  /\ IF radio # NoNet \/ waited = WaitLimit
       THEN Goto("dhcp") /\ ip' = NoNet /\ UNCHANGED waited
       ELSE waited' = waited + 1 /\ Goto("await") /\ UNCHANGED ip
  /\ UNCHANGED <<conf, radio, ssid>>

-----------------------------------------------------------------------------
(* wifi-wizard.sh *)

StopSupplicant ==
  /\ tool = "wizard" /\ tpc = "stop"
  /\ WpaStop
  /\ IF job = "connect"
       THEN \E n \in Spoken : ssid' = n /\ Goto("connect")
       ELSE Goto("start") /\ UNCHANGED ssid
  /\ UNCHANGED waited

(* wpa_start, with no network configured; it may not come up. *)
StartSupplicant ==
  /\ tool = "wizard" /\ tpc = "start"
  /\ \/ Goto("scan") /\ UNCHANGED <<ssid, waited>>
     \/ Ends("failed")
  /\ UNCHANGED link

(* --scan prints what it finds and stops the supplicant. *)
Scan ==
  /\ tool = "wizard" /\ tpc = "scan"
  /\ WpaStop
  /\ IF job = "scan" THEN Ends("none")
     ELSE \/ Goto("choose") /\ UNCHANGED <<ssid, waited>>
          \/ Ends("failed")

(* The list is split into words, so the choice is a word of a name; no     *)
(* answer and no password end the script.                                  *)
Choose ==
  /\ tool = "wizard" /\ tpc = "choose"
  /\ \/ \E n \in Nets : \E w \in Words[n] : ssid' = w /\ Goto("connect") /\ UNCHANGED waited
     \/ Ends("failed")
  /\ WpaStop

WizardConnect ==
  /\ tool = "wizard" /\ tpc = "connect"
  /\ \/ WpaFor(ssid) /\ Goto("await") /\ UNCHANGED <<ssid, waited>>
     \/ Ends("failed") /\ UNCHANGED link

(* Faulty variant: the association is taken for the connection. *)
AwaitAddressByRadio ==
  /\ tool = "wizard" /\ tpc = "await"
  /\ IF radio # NoNet THEN Ends("connected") /\ UNCHANGED ip
     ELSE IF waited = WaitLimit
       THEN Goto("dhcp") /\ ip' = NoNet /\ UNCHANGED <<ssid, waited>>
       ELSE waited' = waited + 1 /\ Goto("await") /\ UNCHANGED <<ip, ssid>>
  /\ UNCHANGED <<conf, radio>>

(* Lines 172-181 and 281-291: the wait is for any address, and before DHCP *)
(* is run the only one there can be is an old one.                         *)
AwaitAddress ==
  /\ tool = "wizard" /\ tpc = "await"
  /\ IF ip # NoNet THEN Ends("connected") /\ UNCHANGED ip
     ELSE IF waited = WaitLimit
       THEN Goto("dhcp") /\ ip' = NoNet /\ UNCHANGED <<ssid, waited>>
       ELSE waited' = waited + 1 /\ Goto("await") /\ UNCHANGED <<ip, ssid>>
  /\ UNCHANGED <<conf, radio>>

-----------------------------------------------------------------------------
(* Both scripts: `udhcpc -q -t 10 -T 2`, which without -n starts over      *)
(* after its ten tries and ends with a lease only; then the interface is   *)
(* looked at.                                                              *)

Lease ==
  /\ tpc = "dhcp" /\ radio # NoNet
  /\ ip' = radio
  /\ Goto("check")
  /\ UNCHANGED <<conf, radio, ssid, waited>>

CheckAddress ==
  /\ tpc = "check"
  /\ Ends(IF ip # NoNet THEN "connected" ELSE "failed")
  /\ UNCHANGED link

-----------------------------------------------------------------------------
(* The radio: the supplicant associates with its network, if that is there *)
(* and the password is right, and may lose it again.                       *)
Associate ==
  /\ conf \in Nets /\ radio = NoNet
  /\ radio' = conf
  /\ UNCHANGED <<conf, ip, tool, job, tpc, ssid, waited, claim, held>>

LoseSignal ==
  /\ radio # NoNet
  /\ radio' = NoNet
  /\ UNCHANGED <<conf, ip, tool, job, tpc, ssid, waited, claim, held>>

(* What the scripts do by themselves; LeaveShell, AskSsid and Choose wait  *)
(* for the user and Lease for a server.                                    *)
ScriptStep(found) ==
  \/ FindIface(found) \/ ConnectWpa \/ AwaitAssociation
  \/ StopSupplicant \/ StartSupplicant \/ Scan \/ WizardConnect \/ AwaitAddress
  \/ CheckAddress

AnsweredStep == LeaveShell \/ AskSsid \/ Choose \/ Lease

RadioStep == Associate \/ LoseSignal

(* How far a script is from its end. *)
ToolStepsLeft ==
  CASE tpc = "stop" -> 10 [] tpc = "start" -> 9 [] tpc = "scan" -> 8 [] tpc = "find" -> 7
    [] tpc \in {"choose", "ask", "shell"} -> 6 [] tpc = "connect" -> 5 [] tpc = "await" -> 4
    [] tpc = "dhcp" -> 3 [] tpc = "check" -> 2 [] OTHER -> 0

(* The script is at a wait that nothing bounds: for the user, or for a     *)
(* server to answer udhcpc.                                                *)
ToolWaits == tpc \in {"ask", "shell", "choose", "dhcp"}

=============================================================================
