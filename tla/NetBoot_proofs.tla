--------------------------- MODULE NetBoot_proofs ---------------------------
(***************************************************************************)
(* Theorems about NetBoot, for any images, networks, names, interfaces and *)
(* numbers of boots: what phase 50 leaves in the files whatever reboots    *)
(* and power cuts did to them, and what the WiFi scripts report.           *)
(***************************************************************************)
EXTENDS NetBoot, FiniteSetTheorems, TLAPS

-----------------------------------------------------------------------------
(* The shapes of the files, which is all of TypeOK the proofs need. *)
Entries == PasswdStates \cup ShadowStates

Shapes ==
  /\ image \in Images
  /\ etc \in [passwd : Entries, shadow : Entries]
  /\ etcDisk \in [passwd : SUBSET Entries, shadow : SUBSET Entries]
  /\ key \in [KeyTypes -> Nat] /\ keyDisk \in [KeyTypes -> SUBSET Nat] /\ made \in Nat
  /\ prints \in [KeyTypes -> SUBSET Nat]

(* The accounts: where the script is tells what is in the files, and with  *)
(* dropbear running it is past every step that writes them.                *)
NoBlank == image.applets => etc.shadow # "blank" /\ "blank" \notin etcDisk.shadow

SetUp ==
  /\ step \in {"dhcp_all", "udhcpc", "wifi", "child", "ntp", "ntpd", "passwd", "shadow",
               "ed25519", "rsa", "dropbear"} => at = 5
  /\ step \in {"shadow", "ed25519", "rsa", "dropbear"} => etc.passwd = "root"
  /\ step \in {"ed25519", "rsa", "dropbear"} => etc.shadow \in {"neonatox", "own", "blank"}
  /\ sshd => /\ (step = "loop" /\ at = 5) \/ step \in {"60", "over"}
             /\ etc.passwd = "root" /\ etc.shadow \in {"neonatox", "own", "blank"}

(* The identity: a client that was shown a key was shown the one there is. *)
KeyShown(t) == t \notin lost => prints[t] \subseteq {key[t]} \ {0}

Identity ==
  image.store = "disk" =>
    /\ \A t \in KeyTypes : KeyShown(t)
    /\ step = "shadow" /\ mode = "netinstall" => overridden
    /\ chosen /\ ~overridden /\ "shadow" \notin lost => etc.shadow = "own"

(* WiFi: without an address at its beginning a script has none until       *)
(* udhcpc got one, which is of the network the supplicant is configured    *)
(* for.                                                                    *)
Associated == radio \in {NoNet, conf}

Address ==
  /\ tool = "none" => tpc = "idle"
  /\ tool # "none" => claim # "connected" /\ tpc # "idle"
  /\ tool # "none" /\ tpc # "check" => held \/ ip = NoNet
  /\ tpc = "check" => ip # NoNet /\ ip = conf
  /\ claim = "connected" => ip # NoNet /\ (ip = conf \/ held)

-----------------------------------------------------------------------------
(* The WiFi scripts. *)

LEMMA WifiStep ==
  ASSUME Associated, Address,
         \/ ScriptStep(image.iw /\ image.wlan) \/ AnsweredStep \/ RadioStep
  PROVE  Associated' /\ Address'
<1> USE DEF Associated, Address, Goto, Ends, WpaStop, WpaFor, link
<1>1. CASE FindIface(image.iw /\ image.wlan)
  BY <1>1 DEF FindIface
<1>2. CASE ConnectWpa
  BY <1>2 DEF ConnectWpa
<1>3. CASE AwaitAssociation
  BY <1>3 DEF AwaitAssociation
<1>4. CASE StopSupplicant
  BY <1>4 DEF StopSupplicant
<1>5. CASE StartSupplicant
  BY <1>5 DEF StartSupplicant
<1>6. CASE Scan
  BY <1>6 DEF Scan
<1>7. CASE WizardConnect
  BY <1>7 DEF WizardConnect
<1>8. CASE AwaitAddress
  BY <1>8 DEF AwaitAddress
<1>9. CASE CheckAddress
  BY <1>9 DEF CheckAddress
<1>10. CASE LeaveShell
  BY <1>10 DEF LeaveShell
<1>11. CASE AskSsid
  BY <1>11 DEF AskSsid
<1>12. CASE Choose
  BY <1>12 DEF Choose
<1>13. CASE Lease
  BY <1>13 DEF Lease
<1>14. CASE Associate
  BY <1>14 DEF Associate
<1>15. CASE LoseSignal
  BY <1>15 DEF LoseSignal
<1> QED
  BY <1>1, <1>2, <1>3, <1>4, <1>5, <1>6, <1>7, <1>8, <1>9, <1>10, <1>11, <1>12, <1>13, <1>14,
     <1>15 DEF ScriptStep, AnsweredStep, RadioStep

LEMMA WifiKept ==
  ASSUME Associated, Address, [Next]_vars
  PROVE  Associated' /\ Address'
<1>1. CASE UNCHANGED wifiVars
  BY <1>1 DEF wifiVars, Associated, Address
<1>2. CASE Tool \/ Answered \/ Radio
  <2>1. CASE NtpAnswers
    BY <1>1, <2>1 DEF NtpAnswers
  <2> QED BY <1>2, <2>1, WifiStep DEF Tool, Answered, Radio
<1>3. CASE WifiConfig \/ RunWizard
  <2>1. CASE UNCHANGED wifiVars
    BY <1>1, <2>1
  <2>2. CASE \E s \in {"config", "wizard"}, j \in Jobs, p \in {"find", "stop"} : Starts(s, j, p)
    BY <2>2 DEF Starts, link, Associated, Address
  <2> QED BY <1>3, <2>1, <2>2 DEF WifiConfig, RunWizard, Jobs
<1>4. CASE Interrupt \/ StopWizard
  <2>1. CASE Ends("none") /\ UNCHANGED link
    BY <2>1 DEF Ends, link, Associated, Address
  <2> QED BY <1>1, <1>4, <2>1 DEF Interrupt, StopWizard
<1>5. CASE Reboot \/ PowerCut
  BY <1>5 DEF Reboot, PowerCut, Restart, WifiReset, Associated, Address
<1> QED
  BY <1>1, <1>2, <1>3, <1>4, <1>5
  DEF Next, Step, User, vars, ResolveMode, SourceLibs, EnterPhase, EarlyPhase, TryNext, NoneLeft,
      Udhcpc, ChildEnds, NtpSync, SetupPasswd, SetupShadow, HostKey, Dropbear, RunShell,
      SetPassword

-----------------------------------------------------------------------------
(* The files. *)

(* What the steps that write no file have in common. *)
Elsewhere == UNCHANGED <<image, files, prints, lost, chosen, overridden>>

LEMMA SettledEtc ==
  ASSUME NEW c \in [passwd : Entries, shadow : Entries]
  PROVE  /\ Settled(c) \in [passwd : SUBSET Entries, shadow : SUBSET Entries]
         /\ Settled(c).shadow = {c.shadow}
<1>1. Settled(c) = [passwd |-> {c.passwd}, shadow |-> {c.shadow}]
  BY DEF Settled
<1> QED BY <1>1

LEMMA SettledKey ==
  ASSUME NEW k \in [KeyTypes -> Nat]
  PROVE  Settled(k) \in [KeyTypes -> SUBSET Nat]
BY DEF Settled

LEMMA BakedShapes ==
  ASSUME image \in Images
  PROVE  /\ BakedEtc \in [passwd : Entries, shadow : Entries]
         /\ BakedKey \in [KeyTypes -> Nat]
<1>1. image.passwd \in PasswdStates /\ image.shadow \in ShadowStates
  BY ImagesAssumption DEF Image
<1>2. BakedEtc \in [passwd : Entries, shadow : Entries]
  BY <1>1 DEF BakedEtc, Entries
<1>3. BakedKey \in [KeyTypes -> Nat]
  BY DEF BakedKey, KeyTypes
<1> QED BY <1>2, <1>3

(* A write of either kind, to passwd and to shadow. *)
Writes(f, entry) == Truncate(f, entry) \/ AppendEntry(f, entry)

LEMMA WritesPasswd ==
  ASSUME Shapes, NEW entry \in Entries, Writes("passwd", entry)
  PROVE  /\ etc' \in [passwd : Entries, shadow : Entries]
         /\ etcDisk' \in [passwd : SUBSET Entries, shadow : SUBSET Entries]
         /\ etc'.passwd = entry /\ etc'.shadow = etc.shadow
         /\ etcDisk'.shadow = etcDisk.shadow
<1>1. "empty" \in Entries
  BY DEF Entries, PasswdStates
<1> QED BY <1>1 DEF Shapes, Writes, Truncate, AppendEntry

LEMMA WritesShadow ==
  ASSUME Shapes, NEW entry \in Entries, Writes("shadow", entry)
  PROVE  /\ etc' \in [passwd : Entries, shadow : Entries]
         /\ etcDisk' \in [passwd : SUBSET Entries, shadow : SUBSET Entries]
         /\ etc'.shadow = entry /\ etc'.passwd = etc.passwd
         /\ etcDisk'.shadow \subseteq etcDisk.shadow \cup {"empty", entry}
<1>1. "empty" \in Entries
  BY DEF Entries, PasswdStates
<1> QED BY <1>1 DEF Shapes, Writes, Truncate, AppendEntry

(* setup_passwd and setup_shadow: the entry is there afterwards, and a     *)
(* password of the user's stays but in the net profile.                    *)
LEMMA PasswdSet ==
  ASSUME Shapes, SetupPasswd
  PROVE  /\ etc' \in [passwd : Entries, shadow : Entries]
         /\ etcDisk' \in [passwd : SUBSET Entries, shadow : SUBSET Entries]
         /\ etc'.passwd = "root" /\ etc'.shadow = etc.shadow
         /\ etcDisk'.shadow = etcDisk.shadow
<1>1. "root" \in Entries
  BY DEF Entries, PasswdStates
<1>2. CASE Writes("passwd", "root")
  BY <1>1, <1>2, WritesPasswd
<1>3. CASE UNCHANGED <<etc, etcDisk>> /\ etc.passwd = "root"
  BY <1>3 DEF Shapes
<1> QED BY <1>2, <1>3 DEF SetupPasswd, Ensure, Writes

FirstPassword == IF image.applets THEN "neonatox" ELSE "blank"

LEMMA ShadowSet ==
  ASSUME Shapes, SetupShadow
  PROVE  /\ etc' \in [passwd : Entries, shadow : Entries]
         /\ etcDisk' \in [passwd : SUBSET Entries, shadow : SUBSET Entries]
         /\ etc'.passwd = etc.passwd
         /\ etc'.shadow \in {"neonatox", "own", "blank"}
         /\ etc'.shadow \in {FirstPassword, etc.shadow}
         /\ etcDisk'.shadow \subseteq etcDisk.shadow \cup {"empty", FirstPassword}
         /\ mode # "netinstall" /\ etc.shadow = "own" => etc'.shadow = "own"
<1>1. FirstPassword \in Entries /\ FirstPassword \in {"neonatox", "blank"}
  BY DEF Entries, ShadowStates, FirstPassword
<1>2. CASE /\ Writes("shadow", FirstPassword)
           /\ mode = "netinstall" \/ etc.shadow # "own"
  BY <1>1, <1>2, WritesShadow
<1>3. CASE UNCHANGED <<etc, etcDisk>> /\ etc.shadow \in {"blank", "neonatox", "own"}
  BY <1>3 DEF Shapes
<1>4. CASE mode = "netinstall" \/ etc.shadow \in {"absent", "empty"}
  <2>1. Truncate("shadow", FirstPassword)
    BY <1>4 DEF SetupShadow, Ensure, FirstPassword
  <2> QED BY <1>2, <1>4, <2>1 DEF Writes
<1>5. CASE ~(mode = "netinstall" \/ etc.shadow \in {"absent", "empty"})
  <2>1. CASE etc.shadow \in {"blank", "neonatox", "own"}
    BY <1>3, <1>5, <2>1 DEF SetupShadow, Ensure
  <2>2. CASE etc.shadow \notin {"blank", "neonatox", "own"}
    <3>1. AppendEntry("shadow", FirstPassword)
      BY <1>5, <2>2 DEF SetupShadow, Ensure, FirstPassword
    <3> QED BY <1>2, <2>2, <3>1 DEF Writes
  <2> QED BY <2>1, <2>2
<1> QED BY <1>4, <1>5

LEMMA KeySet ==
  ASSUME Shapes, HostKey
  PROVE  /\ key' \in [KeyTypes -> Nat] /\ keyDisk' \in [KeyTypes -> SUBSET Nat] /\ made' \in Nat
         /\ \A t \in KeyTypes : key[t] # 0 => key'[t] = key[t]
<1>1. CASE UNCHANGED <<key, keyDisk, made>>
  BY <1>1 DEF Shapes
<1>2. CASE /\ key[step] = 0 /\ made' = made + 1
           /\ key' = [key EXCEPT ![step] = made']
           /\ keyDisk' = [keyDisk EXCEPT ![step] = @ \cup {made'}]
  <2>1. made' \in Nat /\ step \in KeyTypes
    BY <1>2 DEF Shapes, HostKey
  <2> QED BY <1>2, <2>1 DEF Shapes
<1> QED BY <1>1, <1>2 DEF HostKey

(* What the next boot finds. *)
LEMMA Restarted ==
  ASSUME Shapes, Reboot \/ PowerCut
  PROVE  /\ Restart /\ image' = image
         /\ etc' \in [passwd : Entries, shadow : Entries]
         /\ key' \in [KeyTypes -> Nat]
         /\ etc'.shadow \in {etc.shadow, image.shadow} \cup etcDisk.shadow
         /\ lost \subseteq lost'
         /\ image.store = "disk" =>
              /\ \A t \in KeyTypes \ lost' : key'[t] = key[t]
              /\ "shadow" \notin lost' => etc'.shadow = etc.shadow
<1>1. Restart /\ image' = image
  BY DEF Reboot, PowerCut, Restart
<1>2. /\ BakedEtc \in [passwd : Entries, shadow : Entries] /\ BakedKey \in [KeyTypes -> Nat]
      /\ BakedEtc.shadow = image.shadow
  BY BakedShapes DEF Shapes, BakedEtc
<1>3. CASE Reboot
  BY <1>1, <1>2, <1>3 DEF Reboot, Shapes
<1>4. CASE PowerCut
  <2>1. CASE image.store = "disk"
    <3>1. PICK p \in etcDisk.passwd, s \in etcDisk.shadow : etc' = [passwd |-> p, shadow |-> s]
      BY <1>4, <2>1 DEF PowerCut
    <3>2. PICK e \in keyDisk.ed25519, r \in keyDisk.rsa : key' = [ed25519 |-> e, rsa |-> r]
      BY <1>4, <2>1 DEF PowerCut
    <3>3. etc' \in [passwd : Entries, shadow : Entries] /\ etc'.shadow \in etcDisk.shadow
      BY <3>1 DEF Shapes
    <3>4. key' \in [KeyTypes -> Nat]
      <4>1. e \in Nat /\ r \in Nat
        BY DEF Shapes, KeyTypes
      <4> QED BY <3>2, <4>1 DEF KeyTypes
    <3>5. lost' = lost \cup {f \in Accounts : etc'[f] # etc[f]} \cup {t \in KeyTypes : key'[t] # key[t]}
      BY <1>4 DEF PowerCut
    <3> QED BY <1>1, <3>3, <3>4, <3>5 DEF Accounts
  <2>2. CASE image.store # "disk"
    <3>1. /\ etc' = BakedEtc /\ key' = BakedKey /\ lost \subseteq lost'
      BY <1>4, <2>2 DEF PowerCut
    <3> QED BY <1>1, <1>2, <2>2, <3>1
  <2> QED BY <2>1, <2>2
<1> QED BY <1>3, <1>4

(* The kinds of steps, by what they write. *)
LEMMA StepKinds ==
  ASSUME [Next]_vars
  PROVE  \/ Elsewhere
         \/ SetupPasswd \/ SetupShadow \/ HostKey \/ Dropbear \/ SetPassword
         \/ Reboot \/ PowerCut
BY DEF Next, Step, Tool, Answered, Radio, User, vars, machine, script, wired, files, ssh, history,
       Elsewhere, ResolveMode, SourceLibs, EnterPhase, EarlyPhase, TryNext, NoneLeft, Udhcpc,
       WifiConfig, ChildEnds, NtpSync, RunShell, NtpAnswers, Interrupt, RunWizard, StopWizard

LEMMA ShapesKept == ASSUME Shapes, [Next]_vars PROVE Shapes'
<1>1. CASE Elsewhere
  BY <1>1 DEF Elsewhere, files, Shapes
<1>2. CASE SetupPasswd
  BY <1>2, PasswdSet DEF SetupPasswd, machine, ssh, Shapes
<1>3. CASE SetupShadow
  BY <1>3, ShadowSet DEF SetupShadow, machine, ssh, Shapes
<1>4. CASE HostKey
  BY <1>4, KeySet DEF HostKey, machine, ssh, Shapes
<1>5. CASE Dropbear
  <2>1. prints' \in [KeyTypes -> SUBSET Nat]
    BY <1>5 DEF Dropbear, ssh, Shapes
  <2> QED BY <1>5, <2>1 DEF Dropbear, machine, files, Shapes
<1>6. CASE SetPassword
  <2>1. "own" \in Entries
    BY DEF Entries, ShadowStates
  <2> QED BY <1>6, <2>1, WritesShadow DEF SetPassword, Writes, machine, ssh, Shapes
<1>7. CASE Reboot \/ PowerCut
  <2>1. /\ etcDisk' \in [passwd : SUBSET Entries, shadow : SUBSET Entries]
        /\ keyDisk' \in [KeyTypes -> SUBSET Nat]
    BY <1>7, Restarted, SettledEtc, SettledKey DEF Restart
  <2> QED BY <1>7, <2>1, Restarted DEF Restart, Shapes
<1> QED BY <1>1, <1>2, <1>3, <1>4, <1>5, <1>6, <1>7, StepKinds

-----------------------------------------------------------------------------
(* The accounts. *)

NoBlankImages == \A i \in Images : i.applets => i.shadow # "blank"

LEMMA NoBlankKept == ASSUME NoBlankImages, Shapes, NoBlank, [Next]_vars PROVE NoBlank'
<1>1. CASE UNCHANGED <<image, etc, etcDisk>>
  BY <1>1 DEF NoBlank
<1>2. CASE SetupPasswd
  BY <1>2, PasswdSet DEF SetupPasswd, machine, NoBlank
<1>3. CASE SetupShadow
  BY <1>3, ShadowSet DEF SetupShadow, machine, NoBlank, FirstPassword
<1>4. CASE SetPassword
  <2>1. "own" \in Entries
    BY DEF Entries, ShadowStates
  <2> QED BY <1>4, <2>1, WritesShadow DEF SetPassword, Writes, machine, NoBlank
<1>5. CASE Reboot \/ PowerCut
  <2>1. image.applets => image.shadow # "blank"
    BY DEF Shapes, NoBlankImages
  <2>2. etcDisk'.shadow = {etc'.shadow}
    BY <1>5, Restarted, SettledEtc DEF Restart
  <2> QED BY <1>5, <2>1, <2>2, Restarted DEF NoBlank
<1> QED
  BY <1>1, <1>2, <1>3, <1>4, <1>5, StepKinds DEF Elsewhere, HostKey, Dropbear, machine, files

LEMMA SetUpKept == ASSUME Shapes, SetUp, [Next]_vars PROVE SetUp'
<1> USE DEF SetUp
<1>1. CASE UNCHANGED <<step, at, sshd, etc>>
  BY <1>1
<1>2. CASE EnterPhase
  BY <1>2 DEF EnterPhase, ssh, files
<1>3. CASE NoneLeft \/ TryNext \/ Udhcpc \/ ChildEnds \/ NtpSync \/ NtpAnswers \/ WifiConfig
  BY <1>3 DEF NoneLeft, TryNext, Udhcpc, ChildEnds, NtpSync, NtpAnswers, WifiConfig, Continue,
              ssh, files, script
<1>4. CASE ResolveMode \/ SourceLibs \/ EarlyPhase \/ RunShell \/ Interrupt
  BY <1>4 DEF ResolveMode, SourceLibs, EarlyPhase, RunShell, Interrupt, ssh, files
<1>5. CASE SetupPasswd
  BY <1>5, PasswdSet DEF SetupPasswd, Continue, ssh
<1>6. CASE SetupShadow
  BY <1>6, ShadowSet DEF SetupShadow, Continue, ssh
<1>7. CASE HostKey
  BY <1>7 DEF HostKey, Continue, ssh, KeyTypes
<1>8. CASE Dropbear
  BY <1>8 DEF Dropbear, ssh, files
<1>9. CASE SetPassword
  <2>1. "own" \in Entries
    BY DEF Entries, ShadowStates
  <2>2. etc'.shadow = "own" /\ etc'.passwd = etc.passwd
    BY <1>9, <2>1, WritesShadow DEF SetPassword, Writes
  <2> QED BY <1>9, <2>2 DEF SetPassword, script, ssh
<1>10. CASE Reboot \/ PowerCut
  BY <1>10, Restarted DEF Restart
<1> QED
  BY <1>1, <1>2, <1>3, <1>4, <1>5, <1>6, <1>7, <1>8, <1>9, <1>10
  DEF Next, Step, Tool, Answered, Radio, User, vars, script, files, ssh, RunWizard, StopWizard

-----------------------------------------------------------------------------
(* The identity. *)

LEMMA IdentityKept == ASSUME Shapes, Identity, [Next]_vars PROVE Identity'
<1> SUFFICES ASSUME image'.store = "disk" PROVE Identity'
  BY DEF Identity
<1>i. image' = image
  BY Restarted, StepKinds DEF Elsewhere, SetupPasswd, SetupShadow, HostKey, Dropbear, SetPassword, machine
<1>d. /\ \A t \in KeyTypes : KeyShown(t)
      /\ step = "shadow" /\ mode = "netinstall" => overridden
      /\ chosen /\ ~overridden /\ "shadow" \notin lost => etc.shadow = "own"
  BY <1>i DEF Identity
<1>k. ASSUME NEW t \in KeyTypes PROVE KeyShown(t)'
  <2>t. key[t] \in Nat /\ KeyShown(t)
    BY <1>d DEF Shapes
  <2>1. CASE UNCHANGED <<lost, prints, key>>
    BY <2>t, <2>1 DEF KeyShown
  <2>2. CASE HostKey
    <3>1. key[t] # 0 => key'[t] = key[t]
      BY <2>2, KeySet
    <3>2. key[t] = 0 /\ t \notin lost => prints[t] = {}
      BY <2>t DEF KeyShown
    <3> QED BY <2>2, <2>t, <3>1, <3>2 DEF HostKey, ssh, history, KeyShown
  <2>3. CASE Dropbear
    <3>1. UNCHANGED prints \/ prints'[t] = prints[t] \cup ({key[t]} \ {0})
      BY <2>3 DEF Dropbear, ssh
    <3> QED BY <2>3, <2>t, <3>1 DEF Dropbear, files, history, KeyShown
  <2>4. CASE Reboot \/ PowerCut
    BY <2>4, <2>t, <1>i, Restarted DEF Restart, KeyShown
  <2> QED
    BY <2>1, <2>2, <2>3, <2>4, StepKinds DEF Elsewhere, files, SetupPasswd, SetupShadow, SetPassword, ssh, history
<1>o. (step = "shadow" /\ mode = "netinstall" => overridden)'
  <2>1. CASE SetupPasswd
    BY <2>1 DEF SetupPasswd, Continue
  <2>2. CASE UNCHANGED <<step, mode, overridden>>
    BY <2>2, <1>d
  <2>3. CASE step' # "shadow"
    BY <2>3
  <2> QED
    BY <2>1, <2>2, <2>3, Restarted
    DEF Next, Step, Tool, Answered, Radio, User, vars, script, history, Continue,
        ResolveMode, SourceLibs, EnterPhase, EarlyPhase, TryNext, NoneLeft, Udhcpc, WifiConfig,
        ChildEnds, NtpSync, SetupShadow, HostKey, Dropbear, RunShell, NtpAnswers, Interrupt,
        SetPassword, RunWizard, StopWizard, Restart
<1>p. (chosen /\ ~overridden /\ "shadow" \notin lost => etc.shadow = "own")'
  <2>1. CASE UNCHANGED <<chosen, overridden, lost, etc>>
    BY <2>1, <1>d
  <2>2. CASE SetupPasswd
    BY <2>2, <1>d, PasswdSet DEF SetupPasswd
  <2>3. CASE SetupShadow
    BY <2>3, <1>d, ShadowSet DEF SetupShadow, history
  <2>4. CASE SetPassword
    <3>1. "own" \in Entries
      BY DEF Entries, ShadowStates
    <3> QED BY <2>4, <3>1, WritesShadow DEF SetPassword, Writes
  <2>5. CASE Reboot \/ PowerCut
    BY <2>5, <1>d, <1>i, Restarted DEF Restart
  <2> QED
    BY <2>1, <2>2, <2>3, <2>4, <2>5, StepKinds DEF Elsewhere, files, HostKey, Dropbear, history
<1> QED BY <1>k, <1>o, <1>p DEF Identity

-----------------------------------------------------------------------------
(* What holds at the first boot. *)
LEMMA Begins ==
  ASSUME Init
  PROVE  Shapes /\ SetUp /\ Identity /\ Associated /\ Address /\ (NoBlankImages => NoBlank)
<1>1. BakedEtc \in [passwd : Entries, shadow : Entries] /\ BakedKey \in [KeyTypes -> Nat]
  BY BakedShapes DEF Init
<1>2. Shapes
  BY <1>1, SettledEtc, SettledKey DEF Init, Shapes
<1>3. NoBlankImages => NoBlank
  <2>1. BakedEtc.shadow = image.shadow
    BY DEF BakedEtc
  <2> QED BY <1>1, <2>1, SettledEtc DEF Init, NoBlank, NoBlankImages
<1>4. SetUp /\ Identity
  BY DEF Init, SetUp, Identity, KeyShown
<1>5. Associated /\ Address
  BY DEF Init, WifiInit, Associated, Address
<1> QED BY <1>2, <1>3, <1>4, <1>5

(* No image comes with an empty root password: hook 20 writes a hash or no *)
(* shadow (20-passwd-shadow:20-25).  Then none that has cryptpw has one    *)
(* while dropbear runs, and root is in both files, whatever accounts the   *)
(* image came with and whatever the user, reboots and power cuts did to    *)
(* the files (init-net.sh:81-85, init-embedded.sh:75-90).                  *)
THEOREM RootAlwaysCanLogIn ==
  ASSUME NoBlankImages PROVE Spec => []RootCanLogIn
<1> DEFINE I == Shapes /\ NoBlank /\ SetUp
<1>1. Init => I
  BY Begins
<1>2. I /\ [Next]_vars => I'
  BY ShapesKept, NoBlankKept, SetUpKept
<1>3. I => RootCanLogIn
  BY DEF NoBlank, SetUp, RootCanLogIn
<1> QED BY <1>1, <1>2, <1>3, PTL DEF Spec

(* A sysroot on a disk shows its clients one fingerprint and keeps its     *)
(* user's password for any number of boots, up to what a power cut took or *)
(* a boot with netinstall=1 wrote over (init-embedded.sh:77-78 and 92-93,  *)
(* init-net.sh:83).                                                        *)
THEOREM IdentityIsKept == Spec => []KeepsIdentity
<1> DEFINE I == Shapes /\ Identity
<1>1. Init => I
  BY Begins
<1>2. I /\ [Next]_vars => I'
  BY ShapesKept, IdentityKept
<1>3. I => KeepsIdentity
  BY DEF Identity, KeyShown, KeepsIdentity
<1> QED BY <1>1, <1>2, <1>3, PTL DEF Spec

(* However the radio, the servers and the user act between the scripts'    *)
(* steps, a connection that is reported is an address of the network asked *)
(* for, or one the interface already had (wifi-wizard.sh:172-179).         *)
THEOREM ClaimsAreBacked == Spec => []ClaimIsBacked
<1> DEFINE I == Associated /\ Address
<1>1. Init => I
  BY Begins
<1>2. I /\ [Next]_vars => I'
  BY WifiKept
<1>3. I => ClaimIsBacked
  BY DEF Address, ClaimIsBacked
<1> QED BY <1>1, <1>2, <1>3, PTL DEF Spec

-----------------------------------------------------------------------------
(* Every boot runs as MicroInit says: which phase is entered when. *)
Fifty == {"dhcp_all", "udhcpc", "wifi", "child", "ntp", "ntpd", "passwd", "shadow",
          "ed25519", "rsa", "dropbear"}

Track ==
  /\ flag \in BOOLEAN /\ image.profile \in {"netinstall", "embedded"}
  /\ flag \/ image.profile = "embedded"
  /\ pid1 = "init" => step # "over"
  /\ step \notin {"mode", "over"} => mode \in {"netinstall", "embedded"}
  /\ step = "loop" => at \in 0..5 /\ last = "zero"
  /\ step \in {"mode", "libs"} => at = 0 /\ last = "zero"
  /\ step = "early" => at \in 1..4
  /\ step \in Fifty => at = 5
  /\ step = "60" => at = 6

LEMMA TrackInit == Init => Track
<1> SUFFICES ASSUME Init PROVE Track
  OBVIOUS
<1>1. image.profile \in {"netinstall", "embedded"} /\ flag \in BOOLEAN
      /\ (flag \/ image.profile = "embedded")
  BY ImagesAssumption DEF Init, Image
<1>2. step = "mode" /\ at = 0 /\ last = "zero"
  BY DEF Init
<1> QED BY <1>1, <1>2 DEF Track, Fifty

(* A restart begins the script again. *)
LEMMA Restarts ==
  ASSUME Track, Reboot \/ PowerCut
  PROVE  Track' /\ Orchestrator!Init'
<1>1. Restart
  BY DEF Reboot, PowerCut
<1>2. /\ image' = image /\ flag' \in BOOLEAN /\ (flag' \/ image.profile = "embedded")
      /\ step' = "mode" /\ mode' = "live" /\ at' = 0 /\ last' = "zero" /\ pid1' = "init"
      /\ libs' = {}
  BY <1>1 DEF Restart, Track
<1> QED BY <1>2 DEF Track, Fifty, Orchestrator!Init

(* Steps within phase 50, of the WiFi scripts and of the user's in the     *)
(* shell leave the orchestrator where it is.                               *)
Inside ==
  \/ TryNext \/ NoneLeft \/ Udhcpc \/ WifiConfig \/ ChildEnds \/ NtpSync \/ NtpAnswers
  \/ SetupPasswd \/ SetupShadow \/ HostKey

Beside ==
  \/ Tool \/ (AnsweredStep /\ UNCHANGED <<machine, script, wired, files, ssh, history>>)
  \/ Radio \/ SetPassword \/ RunWizard \/ StopWizard \/ UNCHANGED vars

LEMMA InsideStays ==
  ASSUME Inside
  PROVE  step \in Fifty /\ step' \in Fifty /\ UNCHANGED <<image, flag, mode, at, last, pid1, libs>>
BY DEF Inside, TryNext, NoneLeft, Udhcpc, WifiConfig, ChildEnds, NtpSync, NtpAnswers, SetupPasswd,
       SetupShadow, HostKey, Continue, Fifty, KeyTypes, machine, script

LEMMA BesideStays ==
  ASSUME Beside
  PROVE  UNCHANGED <<image, flag, step, mode, at, last, pid1, libs>>
BY DEF Beside, Tool, Radio, SetPassword, RunWizard, StopWizard, machine, script, vars

LEMMA StepsOf ==
  ASSUME [Next]_vars
  PROVE  \/ Inside \/ Beside \/ ResolveMode \/ SourceLibs \/ EnterPhase \/ EarlyPhase \/ Dropbear
         \/ RunShell \/ Interrupt \/ Reboot \/ PowerCut
BY DEF Next, Step, Answered, User, Inside, Beside

LEMMA TrackNext == Track /\ [Next]_vars => Track'
<1> SUFFICES ASSUME Track, [Next]_vars PROVE Track'
  OBVIOUS
<1>1. CASE Inside
  BY <1>1, InsideStays DEF Track, Fifty
<1>2. CASE Beside
  BY <1>2, BesideStays DEF Track
<1>3. CASE Reboot \/ PowerCut
  BY <1>3, Restarts
<1>4. CASE ResolveMode \/ SourceLibs \/ EarlyPhase \/ Dropbear
  BY <1>4 DEF ResolveMode, SourceLibs, EarlyPhase, Dropbear, machine, Track, Fifty
<1>5. CASE EnterPhase
  BY <1>5 DEF EnterPhase, machine, Track, Fifty
<1>6. CASE RunShell \/ Interrupt
  <2>1. step' = "over" /\ pid1' = "shell" /\ UNCHANGED <<image, flag>>
    BY <1>6 DEF RunShell, Interrupt, machine
  <2> QED BY <2>1 DEF Track, Fifty
<1> QED BY <1>1, <1>2, <1>3, <1>4, <1>5, <1>6, StepsOf

LEMMA PhaseNames ==
  /\ Len(Orchestrator!LibExec) = 7
  /\ \A n \in 1..7 :
       Orchestrator!LibExec[n] =
         CASE n = 1 -> "10-mount-basic" [] n = 2 -> "20-load-modules" [] n = 3 -> "30-scan-devices"
           [] n = 4 -> "40-overlay" [] n = 5 -> "50-network" [] n = 6 -> "60-switch-root"
           [] n = 7 -> "99-hooks"
BY DEF Orchestrator!LibExec

LEMMA OrchestratorStep ==
  Track /\ [Next]_vars =>
    [Orchestrator!Next \/ Orchestrator!Init']_(Orchestrator!vars)
<1> SUFFICES ASSUME Track, [Next]_vars
             PROVE  [Orchestrator!Next \/ Orchestrator!Init']_(Orchestrator!vars)
  OBVIOUS
<1> USE DEF machine, Orchestrator!inputs, Orchestrator!vars, Orchestrator!Becomes,
            Orchestrator!Returns
<1>1. CASE Inside
  BY <1>1, InsideStays DEF Fifty
<1>2. CASE Beside
  BY <1>2, BesideStays
<1>3. CASE Reboot \/ PowerCut
  BY <1>3, Restarts
<1>4. CASE ResolveMode
  BY <1>4 DEF ResolveMode, Track, Orchestrator!ResolveMode, Orchestrator!ResolvedMode,
              Orchestrator!Next, Orchestrator!Step
<1>5. CASE SourceLibs
  BY <1>5 DEF SourceLibs, Track, Orchestrator!SourceLibs, Orchestrator!Next, Orchestrator!Step
<1>6. CASE EnterPhase
  <2>1. at \in 0..5 /\ last = "zero" /\ step = "loop" /\ step' \in {"early", "dhcp_all", "60"}
        /\ at' = at + 1 /\ last' = "none" /\ UNCHANGED <<image, flag, mode, pid1, libs>>
    BY <1>6 DEF EnterPhase, Track
  <2>2. Orchestrator!EnterPhase
    BY <2>1, PhaseNames DEF Orchestrator!EnterPhase
  <2> QED BY <2>2 DEF Orchestrator!Next, Orchestrator!Step
<1>7. CASE EarlyPhase
  <2>1. \/ Orchestrator!Running("10-mount-basic") \/ Orchestrator!Running("20-load-modules")
        \/ Orchestrator!Running("30-scan-devices") \/ Orchestrator!Running("40-overlay")
    <3>1. at \in {1, 2, 3, 4} /\ step = "early"
      BY <1>7 DEF EarlyPhase, Track
    <3> QED BY <3>1, PhaseNames DEF Orchestrator!Running, Orchestrator!Phase
  <2>2. Orchestrator!Returns("zero") /\ mode # "live"
    BY <1>7 DEF EarlyPhase, Track
  <2> QED BY <2>1, <2>2 DEF Orchestrator!MountBasic, Orchestrator!LoadModules,
                            Orchestrator!ScanDevices, Orchestrator!Overlay,
                            Orchestrator!Next, Orchestrator!Step
<1>8. CASE Dropbear
  <2>1. Orchestrator!Running("50-network")
    BY <1>8, PhaseNames DEF Dropbear, Track, Fifty, Orchestrator!Running, Orchestrator!Phase
  <2>2. Orchestrator!Returns("zero")
    BY <1>8 DEF Dropbear
  <2> QED BY <2>1, <2>2 DEF Orchestrator!Network, Orchestrator!Next, Orchestrator!Step
<1>9. CASE RunShell
  <2>1. Orchestrator!Running("60-switch-root") /\ mode \in {"netinstall", "embedded"}
    BY <1>9, PhaseNames DEF RunShell, Track, Orchestrator!Running, Orchestrator!Phase
  <2>2. Orchestrator!Becomes("shell")
    BY <1>9 DEF RunShell
  <2> QED BY <2>1, <2>2 DEF Orchestrator!EndInShell, Orchestrator!ShellModes,
                            Orchestrator!SwitchRootPhase, Orchestrator!Next, Orchestrator!Step
<1>10. CASE Interrupt
  BY <1>10 DEF Interrupt, Track, Orchestrator!Interrupt, Orchestrator!Next
<1> QED BY <1>1, <1>2, <1>3, <1>4, <1>5, <1>6, <1>7, <1>8, <1>9, <1>10, StepsOf

(* In both profiles, over any number of boots, with the user, the servers  *)
(* and the power doing as they please: each boot is a run of the           *)
(* orchestrator, and only a restart begins another (initramfs/init:41-46). *)
THEOREM ImplementsMicroInit == Spec => RunsAsMicroInit
<1>1. Init => Orchestrator!Init
  BY TrackInit DEF Init, Track, Orchestrator!Init
<1> QED
  BY <1>1, TrackInit, TrackNext, OrchestratorStep, PTL DEF Spec, RunsAsMicroInit

-----------------------------------------------------------------------------
(* What is proved of the orchestrator holds of each of the boots: MicroInit *)
(* with its theorems, over the state of this module, as Orchestrator is.   *)
Pid1 == INSTANCE MicroInit_proofs WITH
  Markers  <- {"embedded"},
  NoMarker <- "no marker",
  flags    <- IF flag THEN {"netinstall=1"} ELSE {},
  marker   <- IF image.profile = "embedded" THEN "embedded" ELSE "no marker",
  dbg      <- 0,
  hooks    <- "empty",
  target   <- TRUE,
  pc       <- IF step \in {"mode", "libs", "loop", "over"} THEN step ELSE "phase"

LEMMA SameEndings ==
  /\ \A s : Orchestrator!Returns(s) <=> Pid1!Returns(s)
  /\ \A s : Orchestrator!Becomes(s) <=> Pid1!Becomes(s)
  /\ \A p : Orchestrator!Running(p) <=> Pid1!Running(p)
BY DEF Orchestrator!Returns, Pid1!Returns, Orchestrator!Becomes, Pid1!Becomes,
       Orchestrator!Running, Pid1!Running, Orchestrator!inputs, Pid1!inputs,
       Orchestrator!LibExec, Pid1!LibExec, Orchestrator!Phase, Pid1!Phase

LEMMA SameSteps == Orchestrator!Next <=> Pid1!Next
<1>1. /\ Orchestrator!ResolveMode <=> Pid1!ResolveMode
      /\ Orchestrator!SourceLibs <=> Pid1!SourceLibs
  BY SMT
     DEF Orchestrator!ResolveMode, Pid1!ResolveMode, Orchestrator!ResolvedMode,
         Pid1!ResolvedMode, Orchestrator!SourceLibs, Pid1!SourceLibs, Orchestrator!inputs,
         Pid1!inputs
<1>2. /\ Orchestrator!EnterPhase <=> Pid1!EnterPhase
      /\ Orchestrator!PhaseFailed <=> Pid1!PhaseFailed
      /\ Orchestrator!LoopEnds <=> Pid1!LoopEnds
      /\ Orchestrator!Interrupt <=> Pid1!Interrupt
  BY SameEndings, Zenon
     DEF Orchestrator!EnterPhase, Pid1!EnterPhase, Orchestrator!PhaseFailed,
         Pid1!PhaseFailed, Orchestrator!LoopEnds, Pid1!LoopEnds, Orchestrator!Interrupt,
         Pid1!Interrupt, Orchestrator!LibExec, Pid1!LibExec, Orchestrator!inputs,
         Pid1!inputs
<1>3. /\ Orchestrator!MountBasic <=> Pid1!MountBasic
      /\ Orchestrator!LoadModules <=> Pid1!LoadModules
      /\ Orchestrator!Network <=> Pid1!Network
      /\ Orchestrator!UserHooks <=> Pid1!UserHooks
  BY SameEndings, Zenon
     DEF Orchestrator!MountBasic, Pid1!MountBasic, Orchestrator!LoadModules,
         Pid1!LoadModules, Orchestrator!Network, Pid1!Network, Orchestrator!UserHooks,
         Pid1!UserHooks
<1>4. /\ Orchestrator!ScanDevices <=> Pid1!ScanDevices
      /\ Orchestrator!Overlay <=> Pid1!Overlay
  BY SameEndings, Zenon
     DEF Orchestrator!ScanDevices, Pid1!ScanDevices, Orchestrator!Overlay, Pid1!Overlay
<1>5. /\ Orchestrator!SwitchLive <=> Pid1!SwitchLive
      /\ Orchestrator!EndInShell <=> Pid1!EndInShell
      /\ Orchestrator!SwitchDisk <=> Pid1!SwitchDisk
      /\ Orchestrator!NoBranch <=> Pid1!NoBranch
  BY SameEndings, Zenon
     DEF Orchestrator!SwitchLive, Pid1!SwitchLive, Orchestrator!EndInShell, Pid1!EndInShell,
         Orchestrator!SwitchDisk, Pid1!SwitchDisk, Orchestrator!NoBranch, Pid1!NoBranch,
         Orchestrator!ShellModes, Pid1!ShellModes, Orchestrator!KnownModes, Pid1!KnownModes
<1>6. Orchestrator!SwitchRootPhase <=> Pid1!SwitchRootPhase
  BY SameEndings, <1>5, Zenon
     DEF Orchestrator!SwitchRootPhase, Pid1!SwitchRootPhase
<1> QED
  BY <1>1, <1>2, <1>3, <1>4, <1>6, Zenon
     DEF Orchestrator!Next, Pid1!Next, Orchestrator!Step, Pid1!Step

LEMMA RunsAsPid1 ==
  Spec => Pid1!Init /\ [][Pid1!Next \/ Pid1!Init']_(Pid1!vars)
<1>1. Orchestrator!Init <=> Pid1!Init
  BY DEF Orchestrator!Init, Pid1!Init
<1>2. [Orchestrator!Next \/ Orchestrator!Init']_(Orchestrator!vars)
        => [Pid1!Next \/ Pid1!Init']_(Pid1!vars)
  <2>1. UNCHANGED Orchestrator!vars => UNCHANGED Pid1!vars
    BY DEF Orchestrator!vars, Pid1!vars
  <2>2. Orchestrator!Init' <=> Pid1!Init'
    BY <1>1, PTL
  <2> QED BY <2>1, <2>2, SameSteps
<1> QED BY <1>1, <1>2, ImplementsMicroInit, PTL DEF RunsAsMicroInit

LEMMA MarkersDiffer == Pid1!MarkersAssumption
BY DEF Pid1!MarkersAssumption, Pid1!KnownModes, Pid1!ShellModes

(* Each boot keeps the runtime contract of the phases, and a reboot or a   *)
(* power cut, at whatever moment, only begins the contract anew            *)
(* (HOOKS-AND-PHASES.md; 50-network:3-6, 60-switch-root:10-16).            *)
THEOREM EveryBootHonoursContract ==
  Spec => /\ Pid1!Contract!Init
          /\ [][Pid1!Contract!Next \/ Pid1!Contract!Init']_(Pid1!Contract!vars)
<1>1. Pid1!Init => Pid1!IInv /\ Pid1!Contract!Init
  BY MarkersDiffer, Pid1!IInvInit, Pid1!ContractInit
<1>2. Pid1!IInv /\ [Pid1!Next]_(Pid1!vars)
        => Pid1!IInv' /\ [Pid1!Contract!Next]_(Pid1!Contract!vars)
  BY MarkersDiffer, Pid1!IInvStep, Pid1!ContractStep
<1>3. Pid1!Init' => Pid1!IInv' /\ Pid1!Contract!Init'
  BY <1>1, PTL
<1>4. Pid1!IInv /\ [Pid1!Next \/ Pid1!Init']_(Pid1!vars)
        => /\ Pid1!IInv'
           /\ [Pid1!Contract!Next \/ Pid1!Contract!Init']_(Pid1!Contract!vars)
  BY <1>2, <1>3
<1> QED BY <1>1, <1>4, RunsAsPid1, PTL

-----------------------------------------------------------------------------
(* A boot gets to its end: each step lowers BootLeft. *)
Left ==
  /\ at \in 0..6 /\ step \in Steps /\ boots \in Nat
  /\ todo \subseteq Wired /\ tries \in 0..DhcpTries
  /\ tpc \in Positions /\ waited \in 0..WaitLimit

LEMMA LimitsInNat == DhcpTries \in Nat /\ WaitLimit \in Nat
BY BoundsAssumption, NetsAssumption

LEMMA LeftInit == Init => Left
BY LimitsInNat DEF Init, WifiInit, Left, Steps, Positions

LEMMA ToolLeftKept ==
  ASSUME Left,
         \/ ScriptStep(image.iw /\ image.wlan) \/ AnsweredStep \/ RadioStep
  PROVE  tpc' \in Positions /\ waited' \in 0..WaitLimit
<1> USE LimitsInNat DEF Left, Goto, Ends, Positions
<1>1. CASE FindIface(image.iw /\ image.wlan) \/ ConnectWpa
  BY <1>1 DEF FindIface, ConnectWpa
<1>2. CASE AwaitAssociation
  BY <1>2 DEF AwaitAssociation
<1>3. CASE StopSupplicant \/ StartSupplicant \/ Scan \/ WizardConnect
  BY <1>3 DEF StopSupplicant, StartSupplicant, Scan, WizardConnect
<1>4. CASE AwaitAddress
  BY <1>4 DEF AwaitAddress
<1>5. CASE CheckAddress \/ LeaveShell \/ AskSsid \/ Choose \/ Lease
  BY <1>5 DEF CheckAddress, LeaveShell, AskSsid, Choose, Lease
<1>6. CASE Associate \/ LoseSignal
  BY <1>6 DEF Associate, LoseSignal
<1> QED BY <1>1, <1>2, <1>3, <1>4, <1>5, <1>6 DEF ScriptStep, AnsweredStep, RadioStep

LEMMA LeftKept == Track /\ Left /\ [Next]_vars => Left'
<1> SUFFICES ASSUME Track, Left, [Next]_vars PROVE Left'
  OBVIOUS
<1> USE LimitsInNat DEF machine, script, wired, wifiVars
<1>1. CASE Reboot \/ PowerCut
  <2>1. Restart
    BY <1>1 DEF Reboot, PowerCut
  <2>2. /\ step' = "mode" /\ at' = 0 /\ boots' = boots + 1 /\ todo' = {} /\ tries' = 0
        /\ tpc' = "idle" /\ waited' = 0
    BY <2>1 DEF Restart, WifiReset
  <2> QED BY <2>2 DEF Left, Steps, Positions
<1>2. CASE Tool \/ (AnsweredStep /\ UNCHANGED <<machine, script, wired, files, ssh, history>>)
           \/ Radio
  BY <1>2, ToolLeftKept DEF Tool, Radio, Left
<1>3. CASE TryNext \/ NoneLeft \/ Udhcpc
  BY <1>3 DEF TryNext, NoneLeft, Udhcpc, Continue, Left, Steps
<1>4. CASE WifiConfig \/ RunWizard
  BY <1>4 DEF WifiConfig, RunWizard, Starts, Continue, Left, Steps, Positions
<1>5. CASE ChildEnds \/ NtpSync \/ NtpAnswers \/ SetupPasswd \/ SetupShadow \/ HostKey
  BY <1>5 DEF ChildEnds, NtpSync, NtpAnswers, SetupPasswd, SetupShadow, HostKey, Continue, Left,
              Steps
<1>6. CASE ResolveMode \/ SourceLibs \/ EarlyPhase \/ Dropbear \/ RunShell
  BY <1>6 DEF ResolveMode, SourceLibs, EarlyPhase, Dropbear, RunShell, Left, Steps
<1>7. CASE EnterPhase
  BY <1>7 DEF EnterPhase, Track, Left, Steps
<1>8. CASE Interrupt \/ StopWizard
  BY <1>8 DEF Interrupt, StopWizard, Ends, Left, Steps, Positions
<1>9. CASE SetPassword \/ UNCHANGED vars
  BY <1>9 DEF SetPassword, vars, Left
<1> QED
  BY <1>1, <1>2, <1>3, <1>4, <1>5, <1>6, <1>7, <1>8, <1>9, StepsOf DEF Inside, Beside

LEMMA LeftCounts ==
  ASSUME Left
  PROVE  /\ 6 - at \in Nat /\ StepsLeft \in Nat /\ Cardinality(todo) \in Nat
         /\ TriesLeft \in Nat /\ ToolStepsLeft \in Nat /\ WaitLimit - waited \in Nat
<1>1. Cardinality(todo) \in Nat
  BY BoundsAssumption, FS_Subset, FS_CardinalityType DEF Left
<1>2. 6 - at \in Nat /\ TriesLeft \in Nat /\ WaitLimit - waited \in Nat
  <2>1. at \in 0..6 /\ tries \in 0..DhcpTries /\ waited \in 0..WaitLimit
    BY DEF Left
  <2> QED BY <2>1, LimitsInNat DEF TriesLeft
<1>3. StepsLeft \in Nat
  BY DEF StepsLeft
<1>4. ToolStepsLeft \in Nat
  BY DEF ToolStepsLeft
<1> QED BY <1>1, <1>2, <1>3, <1>4

LEMMA BootLeftType == Left => IsMeasure(BootLeft)
BY LeftCounts DEF BootLeft, IsMeasure

(* Which changes lower a tuple of six. *)
LEMMA Lexicographic ==
  ASSUME NEW a, NEW b, NEW c, NEW d, NEW e, NEW f, NEW k, NEW l, NEW m, NEW n, NEW o, NEW p,
         \/ k < a
         \/ k = a /\ l < b
         \/ k = a /\ l = b /\ m < c
         \/ k = a /\ l = b /\ m = c /\ n < d
         \/ k = a /\ l = b /\ m = c /\ n = d /\ o < e
         \/ k = a /\ l = b /\ m = c /\ n = d /\ o = e /\ p < f
  PROVE  Precedes(<<k, l, m, n, o, p>>, <<a, b, c, d, e, f>>)
<1> DEFINE S == <<k, l, m, n, o, p>>
           T == <<a, b, c, d, e, f>>
<1>1. /\ Len(T) = 6
      /\ S[1] = k /\ S[2] = l /\ S[3] = m /\ S[4] = n /\ S[5] = o /\ S[6] = p
      /\ T[1] = a /\ T[2] = b /\ T[3] = c /\ T[4] = d /\ T[5] = e /\ T[6] = f
  OBVIOUS
<1> HIDE DEF S, T
<1>2. \E i \in 1..6 : S[i] < T[i] /\ \A j \in 1..(i - 1) : S[j] = T[j]
  BY <1>1
<1>3. Precedes(S, T)
  BY <1>1, <1>2 DEF Precedes
<1> QED BY <1>3 DEF S, T

LEMMA BootLeftLowered ==
  ASSUME Left, Left',
         \/ at' > at
         \/ at' = at /\ StepsLeft' < StepsLeft
         \/ at' = at /\ StepsLeft' = StepsLeft /\ Cardinality(todo') < Cardinality(todo)
         \/ at' = at /\ StepsLeft' = StepsLeft /\ todo' = todo /\ TriesLeft' < TriesLeft
         \/ /\ at' = at /\ StepsLeft' = StepsLeft /\ todo' = todo /\ TriesLeft' = TriesLeft
            /\ \/ ToolStepsLeft' < ToolStepsLeft
               \/ ToolStepsLeft' = ToolStepsLeft /\ waited' = waited + 1
  PROVE  Precedes(BootLeft', BootLeft)
<1>1. at' > at => 6 - at' < 6 - at
  <2>1. at \in 0..6 /\ at' \in 0..6
    BY DEF Left
  <2>2. \A i, j \in 0..6 : i > j => 6 - i < 6 - j
    OBVIOUS
  <2> QED BY <2>1, <2>2
<1>2. waited' = waited + 1 => WaitLimit - waited' < WaitLimit - waited
  <2>1. waited \in 0..WaitLimit
    BY DEF Left
  <2>2. \A i \in 0..WaitLimit : WaitLimit - (i + 1) < WaitLimit - i
    BY LimitsInNat
  <2> QED BY <2>1, <2>2
<1>3. todo' = todo => Cardinality(todo') = Cardinality(todo)
  OBVIOUS
<1>4. \/ 6 - at' < 6 - at
      \/ 6 - at' = 6 - at /\ StepsLeft' < StepsLeft
      \/ /\ 6 - at' = 6 - at /\ StepsLeft' = StepsLeft
         /\ Cardinality(todo') < Cardinality(todo)
      \/ /\ 6 - at' = 6 - at /\ StepsLeft' = StepsLeft
         /\ Cardinality(todo') = Cardinality(todo) /\ TriesLeft' < TriesLeft
      \/ /\ 6 - at' = 6 - at /\ StepsLeft' = StepsLeft
         /\ Cardinality(todo') = Cardinality(todo) /\ TriesLeft' = TriesLeft
         /\ ToolStepsLeft' < ToolStepsLeft
      \/ /\ 6 - at' = 6 - at /\ StepsLeft' = StepsLeft
         /\ Cardinality(todo') = Cardinality(todo) /\ TriesLeft' = TriesLeft
         /\ ToolStepsLeft' = ToolStepsLeft /\ WaitLimit - waited' < WaitLimit - waited
  BY <1>1, <1>2, <1>3, Zenon
<1> QED BY <1>4, Lexicographic DEF BootLeft

(* The WiFi scripts go forward. *)
LEMMA ToolAdvances ==
  ASSUME Left, ScriptStep(image.iw /\ image.wlan) \/ AnsweredStep
  PROVE  \/ ToolStepsLeft' < ToolStepsLeft
         \/ ToolStepsLeft' = ToolStepsLeft /\ waited' = waited + 1
<1> USE DEF Goto, Ends, ToolStepsLeft
<1>1. CASE FindIface(image.iw /\ image.wlan)
  <2>1. tpc = "find" /\ tpc' \in {"shell", "ask"}
    BY <1>1 DEF FindIface
  <2> QED BY <2>1
<1>2. CASE ConnectWpa
  <2>1. tpc = "connect" /\ tpc' = "await"
    BY <1>2 DEF ConnectWpa
  <2> QED BY <2>1
<1>3. CASE AwaitAssociation \/ AwaitAddress
  <2>1. /\ tpc = "await"
        /\ tpc' \in {"dhcp", "idle"} \/ (tpc' = "await" /\ waited' = waited + 1)
    BY <1>3 DEF AwaitAssociation, AwaitAddress
  <2> QED BY <2>1
<1>4. CASE StopSupplicant \/ StartSupplicant
  <2>1. \/ tpc = "stop" /\ tpc' \in {"start", "connect"}
        \/ tpc = "start" /\ tpc' \in {"scan", "idle"}
    BY <1>4 DEF StopSupplicant, StartSupplicant
  <2> QED BY <2>1
<1>5. CASE Scan \/ WizardConnect
  <2>1. \/ tpc = "scan" /\ tpc' \in {"choose", "idle"}
        \/ tpc = "connect" /\ tpc' \in {"await", "idle"}
    BY <1>5 DEF Scan, WizardConnect
  <2> QED BY <2>1
<1>6. CASE CheckAddress \/ LeaveShell
  <2>1. tpc \in {"check", "shell"} /\ tpc' = "idle"
    BY <1>6 DEF CheckAddress, LeaveShell
  <2> QED BY <2>1
<1>7. CASE AskSsid \/ Choose
  <2>1. tpc \in {"ask", "choose"} /\ tpc' \in {"connect", "idle"}
    BY <1>7 DEF AskSsid, Choose
  <2> QED BY <2>1
<1>8. CASE Lease
  <2>1. tpc = "dhcp" /\ tpc' = "check"
    BY <1>8 DEF Lease
  <2> QED BY <2>1
<1> QED
  BY <1>1, <1>2, <1>3, <1>4, <1>5, <1>6, <1>7, <1>8 DEF ScriptStep, AnsweredStep

(* So does the script that runs them. *)
LEMMA ScriptAdvances ==
  ASSUME Track, Left,
         \/ ResolveMode \/ SourceLibs \/ EarlyPhase \/ NoneLeft \/ WifiConfig \/ ChildEnds
         \/ NtpSync \/ NtpAnswers \/ SetupPasswd \/ SetupShadow \/ HostKey \/ Dropbear
         \/ RunShell \/ Interrupt
  PROVE  at' = at /\ StepsLeft' < StepsLeft
<1> USE DEF Continue
<1>1. at' = at
  BY DEF ResolveMode, SourceLibs, EarlyPhase, NoneLeft, WifiConfig, ChildEnds, NtpSync, NtpAnswers,
         SetupPasswd, SetupShadow, HostKey, Dropbear, RunShell, Interrupt
<1>2. CASE ResolveMode \/ SourceLibs \/ EarlyPhase \/ NoneLeft \/ WifiConfig
  <2>1. \/ step = "mode" /\ step' = "libs"
        \/ step \in {"libs", "early"} /\ step' = "loop"
        \/ step = "dhcp_all" /\ step' = "wifi"
        \/ step = "wifi" /\ step' \in {"child", "ntp"}
    BY <1>2 DEF ResolveMode, SourceLibs, EarlyPhase, NoneLeft, WifiConfig
  <2> QED BY <1>1, <2>1 DEF StepsLeft
<1>3. CASE ChildEnds \/ NtpSync \/ NtpAnswers \/ SetupPasswd
  <2>1. \/ step = "child" /\ step' = "ntp"
        \/ step = "ntp" /\ step' \in {"ntpd", "passwd"}
        \/ step = "ntpd" /\ step' = "passwd"
        \/ step = "passwd" /\ step' = "shadow"
    BY <1>3 DEF ChildEnds, NtpSync, NtpAnswers, SetupPasswd
  <2> QED BY <1>1, <2>1 DEF StepsLeft
<1>4. CASE SetupShadow \/ HostKey \/ Dropbear \/ RunShell
  <2>1. \/ step = "shadow" /\ step' = "ed25519"
        \/ step = "ed25519" /\ step' = "rsa"
        \/ step = "rsa" /\ step' = "dropbear"
        \/ step = "dropbear" /\ step' = "loop"
        \/ step = "60" /\ step' = "over"
    BY <1>4 DEF SetupShadow, HostKey, Dropbear, RunShell, KeyTypes
  <2> QED BY <1>1, <2>1 DEF StepsLeft
<1>5. CASE Interrupt
  <2>1. step \in Steps \ {"over"} /\ step' = "over"
    BY <1>5 DEF Interrupt, Track, Left
  <2> QED BY <1>1, <2>1 DEF StepsLeft, Steps
<1> QED BY <1>2, <1>3, <1>4, <1>5

LEMMA DhcpAdvances ==
  ASSUME Left, TryNext \/ Udhcpc
  PROVE  /\ at' = at /\ StepsLeft' = StepsLeft
         /\ \/ Cardinality(todo') < Cardinality(todo)
            \/ todo' = todo /\ TriesLeft' < TriesLeft
<1>1. at' = at /\ step \in {"dhcp_all", "udhcpc"} /\ step' \in {"dhcp_all", "udhcpc"}
  BY DEF TryNext, Udhcpc, Continue, script
<1>2. StepsLeft' = StepsLeft
  BY <1>1 DEF StepsLeft
<1>3. tries \in 0..DhcpTries
  BY DEF Left
<1>4. CASE TryNext
  <2>1. todo' = todo /\ step = "dhcp_all" /\ step' = "udhcpc" /\ tries' = 0
    BY <1>4 DEF TryNext, Continue
  <2> QED BY <1>1, <1>2, <2>1, LimitsInNat DEF TriesLeft
<1>5. CASE Udhcpc
  <2>1. \/ \E n \in todo : todo' = todo \ {n}
        \/ todo' = todo /\ step = "udhcpc" /\ step' = step /\ tries' = tries + 1
    BY <1>5 DEF Udhcpc, script
  <2>2. ASSUME NEW n \in todo, todo' = todo \ {n}
        PROVE  Cardinality(todo') < Cardinality(todo)
    <3>1. IsFiniteSet(todo) /\ Cardinality(todo) \in Nat
      BY BoundsAssumption, FS_Subset, FS_CardinalityType DEF Left
    <3>2. Cardinality(todo \ {n}) = Cardinality(todo) - 1
      BY <2>2, <3>1, FS_RemoveElement
    <3> QED BY <2>2, <3>1, <3>2
  <2>3. CASE todo' = todo /\ step = "udhcpc" /\ step' = step /\ tries' = tries + 1
    BY <1>1, <1>2, <1>3, <2>3, LimitsInNat DEF TriesLeft
  <2> QED BY <1>1, <1>2, <2>1, <2>2, <2>3
<1> QED BY <1>4, <1>5

LEMMA BootStepAdvances ==
  ASSUME Track, Left, Left', Address, Next, boots' = boots
  PROVE  \/ Precedes(BootLeft', BootLeft)
         \/ BootLeft' = BootLeft /\ (Radio \/ SetPassword)
         \/ RunWizard
<1> USE DEF script, wired
<1>1. CASE \/ ResolveMode \/ SourceLibs \/ EarlyPhase \/ NoneLeft \/ WifiConfig \/ ChildEnds
           \/ NtpSync \/ NtpAnswers \/ SetupPasswd \/ SetupShadow \/ HostKey \/ Dropbear
           \/ RunShell \/ Interrupt
  BY <1>1, ScriptAdvances, BootLeftLowered
<1>2. CASE TryNext \/ Udhcpc
  BY <1>2, DhcpAdvances, BootLeftLowered
<1>3. CASE EnterPhase
  <2>1. at' > at
    BY <1>3 DEF EnterPhase, Left
  <2> QED BY <2>1, BootLeftLowered
<1>4. CASE \/ Tool
           \/ AnsweredStep /\ UNCHANGED <<machine, script, wired, files, ssh, history>>
  <2>1. at' = at /\ StepsLeft' = StepsLeft /\ todo' = todo /\ TriesLeft' = TriesLeft
    BY <1>4 DEF Tool, StepsLeft, TriesLeft
  <2> QED BY <1>4, <2>1, ToolAdvances, BootLeftLowered DEF Tool
<1>5. CASE StopWizard
  <2>1. at' = at /\ StepsLeft' = StepsLeft /\ todo' = todo /\ TriesLeft' = TriesLeft
    BY <1>5 DEF StopWizard, StepsLeft, TriesLeft
  <2>2. tpc \in Positions \ {"idle"} /\ tpc' = "idle"
    BY <1>5 DEF StopWizard, Ends, Address, Left
  <2>3. ToolStepsLeft' < ToolStepsLeft
    BY <2>2 DEF ToolStepsLeft, Positions
  <2> QED BY <2>1, <2>3, BootLeftLowered
<1>6. CASE Radio \/ SetPassword
  <2>1. UNCHANGED <<at, step, todo, tries, tpc, waited>>
    BY <1>6 DEF Radio, RadioStep, Associate, LoseSignal, SetPassword, wifiVars
  <2>2. BootLeft' = BootLeft
    BY <2>1 DEF BootLeft, StepsLeft, TriesLeft, ToolStepsLeft
  <2> QED BY <1>6, <2>2
<1>7. CASE Reboot \/ PowerCut
  <2>1. boots' = boots + 1 /\ boots \in Nat
    BY <1>7 DEF Reboot, PowerCut, Restart, Left
  <2> QED BY <2>1
<1> QED
  BY <1>1, <1>2, <1>3, <1>4, <1>5, <1>6, <1>7 DEF Next, Step, Answered, User

(* Every boot of either profile gets to its shell or waits for somebody,   *)
(* for any interfaces, networks and limits: each step of the boot and of   *)
(* the WiFi scripts lowers a tuple of naturals, and only the radio, a new  *)
(* password and another start of the wizard do not (init-net.sh:47-58,     *)
(* wifi-config.sh:71-79, wifi-wizard.sh:172-181).                          *)
THEOREM BootTerminates == Spec => BootAdvances
<1>1. Init => Associated /\ Address
  BY DEF Init, WifiInit, Associated, Address
<1>2. Associated /\ Address /\ [Next]_vars => (Associated /\ Address)'
  BY WifiKept
<1>3. Track /\ Left /\ Left' /\ Address /\ [Next]_vars =>
        [ boots' = boots =>
            /\ IsMeasure(BootLeft')
            /\ \/ Precedes(BootLeft', BootLeft)
               \/ BootLeft' = BootLeft /\ (Radio \/ SetPassword)
               \/ RunWizard ]_vars
  <2> SUFFICES ASSUME Track, Left, Left', Address, Next, boots' = boots
               PROVE  /\ IsMeasure(BootLeft')
                      /\ \/ Precedes(BootLeft', BootLeft)
                         \/ BootLeft' = BootLeft /\ (Radio \/ SetPassword)
                         \/ RunWizard
    OBVIOUS
  <2>1. IsMeasure(BootLeft)'
    BY BootLeftType, PTL
  <2> QED BY <2>1, BootStepAdvances
<1> QED
  BY <1>1, <1>2, <1>3, TrackInit, TrackNext, LeftInit, LeftKept, PTL DEF Spec, BootAdvances

=============================================================================
