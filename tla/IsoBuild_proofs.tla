--------------------------- MODULE IsoBuild_proofs ---------------------------
(***************************************************************************)
(* Theorems about IsoBuild, for every number of runs and of failures, any  *)
(* work directories and whatever a stopped `rm -rf` leaves.                *)
(***************************************************************************)
EXTENDS IsoBuild, TLAPS

-----------------------------------------------------------------------------
(* The inductive invariant, in five parts. *)

(* 1. mkinitramfs.  At every place of the script the parts that should be  *)
(* in the tree by then are there or are known to have failed, or belong to *)
(* a hook that has yet to run; once packed, the same of the image.         *)

Pending   == {left[i] : i \in DOMAIN left}
Accounted == wdir \cup missed

EarlyHooks == {"10-reboot-poweroff", "20-passwd-shadow", "30-devices"}
LateHooks  == {"40-wifi-wizard", "50-live-config", "55-ssh-hostkeys",
               "60-netinstall-config", "62-embedded-etc", "70-bootstrap"}

Early == {h \in EarlyHooks : profile \in Serves(h)}
Late  == {h \in LateHooks : profile \in Serves(h)}

Staged == {"pre-binaries", "busybox", "applets", "tools", "libs", "modules", "pre-pack", "pack"}

TreeAccounts ==
  /\ mk \in Staged => "init" \in Accounted
  /\ mk = "pre-binaries" => Early \subseteq Accounted \cup Pending
  /\ mk \in Staged \ {"pre-binaries"} => Early \subseteq Accounted
  /\ mk \in {"tools", "libs", "modules", "pre-pack", "pack"} => "applets" \in Accounted
  /\ mk \in {"libs", "modules", "pre-pack", "pack"} => "tools" \in Accounted
  /\ mk \in {"modules", "pre-pack", "pack"} /\ profile = "disk" => "libs" \in Accounted
  /\ mk \in {"pre-pack", "pack"} /\ profile # "embedded" => "modules" \in Accounted
  /\ mk = "pre-pack" => Late \subseteq Accounted \cup Pending
  /\ mk = "pack" => Late \subseteq Accounted

Lacks(image, parts) == Needed(profile) \ image.parts \subseteq parts

ImageAccounts ==
  /\ mk \in {"microcode", "cat"} => Lacks(packed, missed)
  /\ mk = "cat" => packed.parts \ {"whole"} \subseteq img.parts
  /\ mk = "exit 0" => Lacks(img, missed)

(* 2. The sum in the initramfs is the one of EXTRA_DIR unless hook 50      *)
(* failed.                                                                 *)
Bakes(sum, failed) == sum = extra \/ (sum = 0 /\ "50-live-config" \in failed)

SumTravels ==
  /\ baked \in {0, extra}
  /\ profile = "live" =>
       /\ mk = "pre-pack" => Bakes(baked, missed \cup Pending)
       /\ mk = "pack" => Bakes(baked, missed)
       /\ mk \in {"microcode", "cat"} => Bakes(packed.baked, missed)
       /\ mk \in {"cat", "exit 0"} => Bakes(img.baked, missed)

(* 3. How build.sh and mkinitramfs go together. *)
Coupled ==
  /\ at \notin {"mk", "verify", "report"} => mk = "off" /\ baked = 0
  /\ at \in {"mk", "verify", "report"} =>
       profile = IF kind \in Makes THEN kind ELSE IF kind = "disk" THEN "disk" ELSE "embedded"
  /\ at \in {"verify", "report"} => kind = "embedded" /\ mk = "exit 0"
  /\ at = "report" => {"init", "55-ssh-hostkeys"} \subseteq img.parts
  /\ at # "idle" => run > 0
  /\ at \in {"squashfs", "sum"} => kind = "live"
  /\ at \in {"kernel", "menu", "efi", "bios"} => kind \in Makes
  /\ at = "wipe" => kind \in Makes \cup {"clean"}
  /\ at = "iso" => kind \in Makes \cup {"make iso"}
  /\ at = "check" => kind = "make iso"

(* 4. The directory a run builds in, by how far it is. *)
Building == kind \in Makes /\ at \notin {"idle", "wipe", "check"}

SumOf(t, g, failed) == t.sum = g \/ (t.sum = 0 /\ (g \in failed \/ t.by["sum"] = 0))
BakedOf(t, g, failed) ==
  t.image.baked = g \/ (t.image.baked = 0 /\ (g \in failed \/ "50-live-config" \in t.missed))

Packed(t, failed) ==
  /\ Needed(t.profile) \ t.image.parts \subseteq t.missed
  /\ t.by["squashfs"] # 0 => BakedOf(t, t.by["squashfs"], failed)

OwnTree ==
  Building =>
    LET t == tree[dir]
    IN /\ emptied = run /\ home = dir
       /\ t.cut = {}
       /\ \A a \in Artifacts : t.by[a] \in {0, run}
       /\ at # "iso" => t.by["bios"] = 0
       /\ at = "iso" => t.by["bios"] = run
       /\ at \in {"squashfs", "sum"} => t.sum = 0
       /\ kind = "netinstall" => t.by["squashfs"] = 0
       /\ at \notin {"squashfs"} /\ kind = "live" => t.by["squashfs"] = run
       /\ at \notin {"squashfs", "sum"} /\ kind = "live" => t.sum = run \/ (t.sum = 0 /\ run \in unsummed)
       /\ at = "mk" /\ kind = "live" => extra = t.sum
       /\ at \in {"squashfs", "sum", "kernel", "extra", "mk"} /\ kind = "live" => t.profile = "live"
       /\ at \in {"menu", "efi", "bios", "iso"} =>
            t.profile = kind /\ t.by["initramfs"] = run /\ Packed(t, unsummed)

(* 5. What lies in the work directories: one run's work in each, whole up  *)
(* to eltorito.img once that is there, and in the last one that was        *)
(* emptied the work of the run that emptied it.                            *)
Kept(t, failed) ==
  /\ \A a, b \in Artifacts : 0 \in {t.by[a], t.by[b]} \/ t.by[a] = t.by[b]
  /\ t.by["squashfs"] # 0 => t.profile = "live"
  /\ t.by["bios"] # 0 =>
       /\ t.cut \subseteq {"bios"}
       /\ Packed(t, failed)
       /\ t.by["squashfs"] # 0 => SumOf(t, t.by["squashfs"], failed)

Trees ==
  /\ \A w \in WorkDirs : Kept(tree[w], unsummed)
  /\ \A a \in Artifacts : tree[home].by[a] \in {0, emptied}

(* --make-iso goes on with a directory that has all it asks for. *)
Checked ==
  at = "iso" /\ kind = "make iso" =>
    \A a \in {"squashfs", "initramfs", "menu", "efi", "bios"} : tree[dir].by[a] # 0

IsoKept ==
  iso.state = "ready" =>
    /\ Kept(iso.tree, unsummed) /\ iso.tree.by["bios"] # 0
    /\ iso.tree.profile = iso.name
    /\ iso.name = "live" => iso.tree.by["squashfs"] # 0
    /\ iso.tree.by["initramfs"] = iso.emptied \/ iso.moved

IInv ==
  /\ TypeOK
  /\ TreeAccounts /\ ImageAccounts /\ SumTravels
  /\ Coupled /\ OwnTree /\ Trees /\ Checked /\ IsoKept

-----------------------------------------------------------------------------
(* Helpers of MkInitramfs. *)

LEMMA HookNames ==
  /\ {PreBinaries[i] : i \in DOMAIN PreBinaries} = EarlyHooks
  /\ {PrePack[i] : i \in DOMAIN PrePack} = LateHooks
  /\ Hooks = EarlyHooks \cup LateHooks
<1>1. DOMAIN PreBinaries = 1..3 /\ DOMAIN PrePack = 1..6
  BY DEF PreBinaries, PrePack
<1>2. /\ PreBinaries[1] = "10-reboot-poweroff" /\ PreBinaries[2] = "20-passwd-shadow"
      /\ PreBinaries[3] = "30-devices"
  BY DEF PreBinaries
<1>3. /\ PrePack[1] = "40-wifi-wizard" /\ PrePack[2] = "50-live-config"
      /\ PrePack[3] = "55-ssh-hostkeys" /\ PrePack[4] = "60-netinstall-config"
      /\ PrePack[5] = "62-embedded-etc" /\ PrePack[6] = "70-bootstrap"
  BY DEF PrePack
<1>4. 1..3 = {1, 2, 3} /\ 1..6 = {1, 2, 3, 4, 5, 6}
  OBVIOUS
<1>5. {PreBinaries[i] : i \in DOMAIN PreBinaries} = EarlyHooks
  BY <1>1, <1>2, <1>4 DEF EarlyHooks
<1>6. {PrePack[i] : i \in DOMAIN PrePack} = LateHooks
  BY <1>1, <1>3, <1>4 DEF LateHooks
<1> QED
  BY <1>5, <1>6 DEF Hooks

LEMMA HookSequences == PreBinaries \in Seq(Hooks) /\ PrePack \in Seq(Hooks)
<1>1. EarlyHooks \subseteq Hooks /\ LateHooks \subseteq Hooks
  BY HookNames
<1>2. PreBinaries \in Seq(EarlyHooks) /\ PrePack \in Seq(LateHooks)
  BY DEF PreBinaries, PrePack, EarlyHooks, LateHooks
<1>3. PreBinaries \in Seq(Hooks)
  BY <1>1, <1>2
<1>4. PrePack \in Seq(Hooks)
  BY <1>1, <1>2
<1> QED BY <1>3, <1>4

LEMMA HeadOrTail ==
  ASSUME NEW S, NEW s \in Seq(S), s # << >>
  PROVE  /\ Head(s) \in S /\ Tail(s) \in Seq(S)
         /\ {s[i] : i \in DOMAIN s} = {Head(s)} \cup {Tail(s)[i] : i \in DOMAIN Tail(s)}
<1>1. /\ Head(s) = s[1] /\ Head(s) \in S /\ Tail(s) \in Seq(S)
      /\ DOMAIN s = 1..Len(s) /\ Len(s) \in Nat /\ Len(s) >= 1
      /\ DOMAIN Tail(s) = 1..(Len(s) - 1)
      /\ \A i \in 1..(Len(s) - 1) : Tail(s)[i] = s[i + 1]
  OBVIOUS
<1>2. ASSUME NEW x \in {s[i] : i \in DOMAIN s}
      PROVE  x \in {Head(s)} \cup {Tail(s)[i] : i \in DOMAIN Tail(s)}
  <2>1. PICK i \in 1..Len(s) : x = s[i]
    BY <1>1
  <2>2. CASE i = 1
    BY <1>1, <2>1, <2>2
  <2>3. CASE i # 1
    <3>1. i - 1 \in 1..(Len(s) - 1) /\ (i - 1) + 1 = i
      BY <1>1, <2>1, <2>3
    <3>2. Tail(s)[i - 1] = x
      BY <1>1, <2>1, <3>1
    <3> QED BY <1>1, <3>1, <3>2
  <2> QED BY <2>2, <2>3
<1>3. ASSUME NEW x \in {Head(s)} \cup {Tail(s)[i] : i \in DOMAIN Tail(s)}
      PROVE  x \in {s[i] : i \in DOMAIN s}
  <2>1. CASE x = Head(s)
    BY <1>1, <2>1
  <2>2. CASE x # Head(s)
    <3>1. PICK i \in 1..(Len(s) - 1) : x = Tail(s)[i]
      BY <1>1, <2>2
    <3>2. i + 1 \in 1..Len(s) /\ x = s[i + 1]
      BY <1>1, <3>1
    <3> QED BY <1>1, <3>2
  <2> QED BY <2>1, <2>2
<1> QED BY <1>1, <1>2, <1>3

LEMMA Elements ==
  ASSUME NEW S, NEW s \in Seq(S)
  PROVE  {s[i] : i \in DOMAIN s} \subseteq S
<1>1. \A i \in DOMAIN s : s[i] \in S
  OBVIOUS
<1> QED BY <1>1

LEMMA NonePending == ASSUME left = << >> PROVE Pending = {}
<1>1. DOMAIN left = {}
  OBVIOUS
<1> QED BY <1>1 DEF Pending

LEMMA EmptySequence == ASSUME NEW S PROVE << >> \in Seq(S)
OBVIOUS

LEMMA PartNames ==
  Hooks \subseteq Parts /\ {"init", "applets", "tools", "libs", "modules", "whole"} \subseteq Parts
BY DEF Parts, Hooks

LEMMA FaultTypes ==
  ASSUME Fault, faults \in 0..MaxFaults
  PROVE  faults' \in 0..MaxFaults
BY MaxFaultsAssumption DEF Fault

(* A copy or its failure touches these three variables only as follows. *)
LEMMA CopyTypes ==
  ASSUME NEW p \in Parts, Copies(p),
         wdir \subseteq Parts, missed \subseteq Parts, faults \in 0..MaxFaults
  PROVE  wdir' \subseteq Parts /\ missed' \subseteq Parts /\ faults' \in 0..MaxFaults
<1>1. CASE Lands(p)
  BY <1>1 DEF Lands
<1>2. CASE Misses(p)
  <2>1. faults' \in 0..MaxFaults
    BY <1>2, FaultTypes DEF Misses
  <2> QED BY <1>2, <2>1 DEF Misses
<1> QED BY <1>1, <1>2 DEF Copies

(* What a complete image of a profile is made of, by the scripts' stages. *)
LEMMA NeededParts ==
  Needed(profile) =
    {"init", "applets", "tools", "whole"} \cup Early \cup Late
      \cup (IF profile = "disk" THEN {"libs"} ELSE {})
      \cup (IF profile = "embedded" THEN {} ELSE {"modules"})
<1>1. {h \in Hooks : profile \in Serves(h)} = Early \cup Late
  BY HookNames DEF Early, Late
<1> QED BY <1>1 DEF Needed

-----------------------------------------------------------------------------
(* A step of mkinitramfs. *)

LEMMA MkTypes == MkTypeOK /\ MkStep => MkTypeOK'
<1> SUFFICES ASSUME MkTypeOK, MkStep PROVE MkTypeOK'
  OBVIOUS
<1> USE MaxFaultsAssumption, PartNames DEF MkTypeOK, MkPlaces, Image, MkGoto
<1>1. CASE CheckArguments
  BY <1>1 DEF CheckArguments
<1>2. CASE Stage
  BY <1>2, CopyTypes, HookSequences DEF Stage
<1>3. CASE RunHook
  <2>1. left # << >> /\ Head(left) \in Hooks /\ Tail(left) \in Seq(Hooks)
    BY <1>3, HeadOrTail DEF RunHook
  <2>2. {left[i] : i \in DOMAIN left} \subseteq Hooks
    BY Elements
  <2>3. << >> \in Seq(Hooks)
    BY EmptySequence
  <2>4. CASE /\ left' = Tail(left) /\ Runs(Head(left))
             /\ baked' = IF Head(left) = "50-live-config" /\ Head(left) \in wdir' THEN extra ELSE baked
             /\ UNCHANGED refused
    <3>1. wdir' \subseteq Parts /\ missed' \subseteq Parts /\ faults' \in 0..MaxFaults
      BY <2>1, <2>4, CopyTypes DEF Runs
    <3> QED BY <1>3, <2>1, <2>4, <3>1 DEF RunHook
  <2>5. CASE /\ Fault /\ left' = << >>
             /\ missed' = missed \cup {left[i] : i \in DOMAIN left}
             /\ refused' = TRUE /\ UNCHANGED <<wdir, baked>>
    <3>1. missed' \subseteq Parts
      BY <2>2, <2>5
    <3>2. faults' \in 0..MaxFaults
      BY <2>5, FaultTypes
    <3> QED BY <1>3, <2>3, <2>5, <3>1, <3>2 DEF RunHook
  <2> QED BY <1>3, <2>4, <2>5 DEF RunHook
<1>4. CASE HooksOver
  BY <1>4 DEF HooksOver
<1>5. CASE SelectBusybox
  <2>1. CASE mk' = "applets" /\ UNCHANGED <<wdir, baked>>
    BY <1>5, <2>1 DEF SelectBusybox
  <2>2. CASE mk' = "exit 1" /\ wdir' = {} /\ baked' = 0
    BY <1>5, <2>2 DEF SelectBusybox
  <2> QED BY <1>5, <2>1, <2>2 DEF SelectBusybox
<1>6. CASE LinkApplets
  BY <1>6, CopyTypes DEF LinkApplets
<1>7. CASE InstallRequires
  BY <1>7, CopyTypes DEF InstallRequires
<1>8. CASE CopyLibraries
  BY <1>8 DEF CopyLibraries, Lands, Fault
<1>9. CASE CopyModules
  BY <1>9, CopyTypes, HookSequences DEF CopyModules
<1>10. CASE Pack
  <2>1. wdir' \subseteq Parts /\ missed' \subseteq Parts /\ faults' \in 0..MaxFaults
    BY <1>10, CopyTypes DEF Pack
  <2>2. [parts |-> wdir', baked |-> baked] \in Image
    BY <2>1
  <2>3. CASE profile = "embedded"
    BY <1>10, <2>1, <2>2, <2>3 DEF Pack
  <2>4. CASE profile # "embedded"
    BY <1>10, <2>1, <2>2, <2>4 DEF Pack
  <2> QED BY <2>3, <2>4
<1>11. CASE AddMicrocode
  BY <1>11 DEF AddMicrocode
<1>12. CASE CatMicrocode
  <2>1. CASE img' = packed /\ UNCHANGED <<missed, faults>>
    BY <1>12, <2>1 DEF CatMicrocode
  <2>2. CASE Misses("whole") /\ UNCHANGED img
    <3>1. wdir' \subseteq Parts /\ missed' \subseteq Parts /\ faults' \in 0..MaxFaults
      BY <2>2, CopyTypes DEF Copies
    <3> QED BY <1>12, <2>2, <3>1 DEF CatMicrocode
  <2> QED BY <1>12, <2>1, <2>2 DEF CatMicrocode
<1> QED
  BY <1>1, <1>2, <1>3, <1>4, <1>5, <1>6, <1>7, <1>8, <1>9, <1>10, <1>11, <1>12 DEF MkStep

(* Whatever happens to a part, it is accounted for, and so is all that was. *)
LEMMA CopyAccounts ==
  ASSUME NEW p, Copies(p)
  PROVE  Accounted \cup {p} \subseteq Accounted' /\ missed \subseteq missed'
BY DEF Copies, Lands, Misses, Accounted

LEMMA AccountsKept ==
  ASSUME MkTypeOK, TreeAccounts, ImageAccounts, MkStep
  PROVE  TreeAccounts' /\ ImageAccounts'
<1> USE DEF TreeAccounts, ImageAccounts, Staged, MkGoto
<1>1. CASE CheckArguments
  BY <1>1 DEF CheckArguments
<1>2. CASE Stage
  <2>1. Pending' = EarlyHooks
    BY <1>2, HookNames DEF Stage, Pending
  <2>2. Early' \subseteq Pending'
    BY <2>1 DEF Early
  <2>3. "init" \in Accounted' /\ mk' = "pre-binaries"
    BY <1>2, CopyAccounts DEF Stage
  <2> QED BY <2>2, <2>3
<1>3. CASE RunHook
  <2> DEFINE h == Head(left)
  <2>1. left # << >> /\ mk' = mk /\ profile' = profile /\ mk \in {"pre-binaries", "pre-pack"}
    BY <1>3 DEF RunHook
  <2>2. Early' = Early /\ Late' = Late
    BY <2>1 DEF Early, Late
  <2>3. /\ Accounted \subseteq Accounted'
        /\ \A q \in Accounted \cup Pending : profile \in Serves(q) => q \in Accounted' \cup Pending'
    <3>1. CASE /\ left' = Tail(left) /\ Runs(h)
      <4>1. Pending = {h} \cup Pending'
        <5>1. left \in Seq(Hooks) /\ left # << >>
          BY <2>1 DEF MkTypeOK
        <5>2. {left[i] : i \in DOMAIN left} = {h} \cup {Tail(left)[i] : i \in DOMAIN Tail(left)}
          BY <5>1, HeadOrTail
        <5> QED BY <3>1, <5>2 DEF Pending
      <4>2. Accounted \subseteq Accounted'
        BY <3>1, CopyAccounts DEF Runs, Accounted
      <4>3. profile \in Serves(h) => h \in Accounted'
        BY <3>1, CopyAccounts DEF Runs, Accounted
      <4> QED BY <4>1, <4>2, <4>3
    <3>2. CASE missed' = missed \cup {left[i] : i \in DOMAIN left} /\ UNCHANGED wdir
      BY <3>2 DEF Accounted, Pending
    <3> QED BY <1>3, <3>1, <3>2 DEF RunHook
  <2>4. Early \subseteq Accounted \cup Pending => Early \subseteq Accounted' \cup Pending'
    BY <2>3 DEF Early
  <2>5. Late \subseteq Accounted \cup Pending => Late \subseteq Accounted' \cup Pending'
    BY <2>3 DEF Late
  <2>6. CASE mk = "pre-binaries"
    BY <2>1, <2>2, <2>3, <2>4, <2>6
  <2>7. CASE mk = "pre-pack"
    BY <2>1, <2>2, <2>3, <2>5, <2>7
  <2> QED BY <2>1, <2>6, <2>7
<1>4. CASE HooksOver
  <2>0. left = << >>
    BY <1>4 DEF HooksOver
  <2>1. Pending = {}
    BY <2>0, NonePending
  <2>2. /\ Early' = Early /\ Late' = Late /\ Accounted' = Accounted
        /\ UNCHANGED <<profile, missed, img, packed>>
    BY <1>4 DEF HooksOver, Early, Late, Accounted
  <2>3. CASE mk = "pre-binaries"
    BY <1>4, <2>1, <2>2, <2>3 DEF HooksOver
  <2>4. CASE mk = "pre-pack"
    BY <1>4, <2>1, <2>2, <2>4 DEF HooksOver
  <2> QED BY <1>4, <2>3, <2>4 DEF HooksOver
<1>5. CASE SelectBusybox
  <2>1. CASE mk' = "applets" /\ UNCHANGED <<wdir, baked>>
    <3>1. Early' = Early /\ Accounted' = Accounted
      BY <1>5, <2>1 DEF SelectBusybox, Early, Accounted
    <3> QED BY <1>5, <2>1, <3>1 DEF SelectBusybox
  <2>2. CASE mk' = "exit 1"
    BY <2>2
  <2> QED BY <1>5, <2>1, <2>2 DEF SelectBusybox
<1>6. CASE LinkApplets
  <2>1. Accounted \cup {"applets"} \subseteq Accounted' /\ Early' = Early
    BY <1>6, CopyAccounts DEF LinkApplets, Early
  <2> QED BY <1>6, <2>1 DEF LinkApplets
<1>7. CASE InstallRequires
  <2>1. Accounted \cup {"tools"} \subseteq Accounted' /\ Early' = Early
    BY <1>7, CopyAccounts DEF InstallRequires, Early
  <2> QED BY <1>7, <2>1 DEF InstallRequires
<1>8. CASE CopyLibraries
  <2>1. Accounted \subseteq Accounted' /\ (profile = "disk" => "libs" \in Accounted')
    BY <1>8 DEF CopyLibraries, Lands, Accounted
  <2>2. Early' = Early /\ profile' = profile
    BY <1>8 DEF CopyLibraries, Early
  <2> QED BY <1>8, <2>1, <2>2 DEF CopyLibraries
<1>9. CASE CopyModules
  <2>1. Pending' = LateHooks
    BY <1>9, HookNames DEF CopyModules, Pending
  <2>2. Late' \subseteq Pending' /\ Early' = Early /\ profile' = profile
    BY <1>9, <2>1 DEF Late, Early, CopyModules
  <2>3. Accounted \subseteq Accounted' /\ (profile # "embedded" => "modules" \in Accounted')
    BY <1>9, CopyAccounts DEF CopyModules, Accounted
  <2> QED BY <1>9, <2>2, <2>3 DEF CopyModules
<1>10. CASE Pack
  <2>1. Accounted \cup {"whole"} \subseteq Accounted' /\ profile' = profile /\ mk = "pack"
    BY <1>10, CopyAccounts DEF Pack
  <2>2. Needed(profile) \subseteq Accounted'
    BY <2>1, NeededParts
  <2>3. Needed(profile) \ wdir' \subseteq missed'
    BY <2>2 DEF Accounted
  <2>4. CASE profile = "embedded"
    <3>0. img' = [parts |-> wdir', baked |-> baked] /\ mk' = "exit 0"
      BY <1>10, <2>4 DEF Pack
    <3>1. img'.parts = wdir' /\ mk' = "exit 0"
      BY <3>0
    <3> QED BY <2>1, <2>3, <3>1 DEF Lacks
  <2>5. CASE profile # "embedded"
    <3>1. packed'.parts = wdir' /\ mk' = "microcode"
      BY <1>10, <2>5 DEF Pack
    <3> QED BY <2>1, <2>3, <3>1 DEF Lacks
  <2> QED BY <2>4, <2>5
<1>11. CASE AddMicrocode
  <2>1. /\ Lacks(packed, missed)
        /\ UNCHANGED <<packed, missed, profile>>
    BY <1>11 DEF AddMicrocode
  <2>2. CASE mk' = "exit 0" /\ img' = packed
    BY <2>1, <2>2 DEF Lacks
  <2>3. CASE mk' = "cat" /\ img' = [packed EXCEPT !.parts = @ \ {"whole"}]
    <3>1. img'.parts = packed.parts \ {"whole"}
      BY <2>3 DEF MkTypeOK, Image
    <3> QED BY <2>1, <2>3, <3>1 DEF Lacks
  <2> QED BY <1>11, <2>2, <2>3 DEF AddMicrocode
<1>12. CASE CatMicrocode
  <2>1. mk' = "exit 0" /\ UNCHANGED <<packed, profile>> /\ Lacks(packed, missed)
    BY <1>12 DEF CatMicrocode
  <2>2. CASE img' = packed /\ UNCHANGED <<missed, faults>>
    BY <2>1, <2>2 DEF Lacks
  <2>3. CASE Misses("whole") /\ UNCHANGED img
    BY <1>12, <2>1, <2>3 DEF Lacks, Misses, CatMicrocode
  <2> QED BY <1>12, <2>2, <2>3 DEF CatMicrocode
<1> QED
  BY <1>1, <1>2, <1>3, <1>4, <1>5, <1>6, <1>7, <1>8, <1>9, <1>10, <1>11, <1>12 DEF MkStep

LEMMA SumKept ==
  ASSUME MkTypeOK, SumTravels, MkStep
  PROVE  SumTravels' /\ extra' = extra /\ profile' = profile
<1> USE DEF SumTravels, MkGoto
<1>1. CASE CheckArguments
  BY <1>1 DEF CheckArguments
<1>2. CASE Stage
  BY <1>2 DEF Stage
<1>3. CASE RunHook
  <2> DEFINE h == Head(left)
  <2>1. /\ left # << >> /\ mk \in {"pre-binaries", "pre-pack"}
        /\ UNCHANGED <<mk, profile, extra, packed, img>>
    BY <1>3 DEF RunHook
  <2>2. CASE /\ left' = Tail(left) /\ Runs(h)
             /\ baked' = IF h = "50-live-config" /\ h \in wdir' THEN extra ELSE baked
    <3>1. Pending = {h} \cup Pending'
      <4>1. left \in Seq(Hooks)
        BY DEF MkTypeOK
      <4>2. {left[i] : i \in DOMAIN left} = {h} \cup {Tail(left)[i] : i \in DOMAIN Tail(left)}
        BY <2>1, <4>1, HeadOrTail
      <4> QED BY <2>2, <4>2 DEF Pending
    <3>2. missed \subseteq missed' /\ (profile \in Serves(h) => h \in wdir' \cup missed')
      BY <2>2, CopyAccounts DEF Runs, Accounted
    <3>3. profile = "live" => profile \in Serves("50-live-config")
      BY DEF Serves
    <3>4. profile = "live" /\ Bakes(baked, missed \cup Pending) => Bakes(baked, missed \cup Pending)'
      BY <2>1, <2>2, <3>1, <3>2, <3>3 DEF Bakes
    <3> QED BY <2>1, <2>2, <3>4
  <2>3. CASE /\ missed' = missed \cup {left[i] : i \in DOMAIN left}
             /\ UNCHANGED <<wdir, baked>>
    <3>1. missed \cup Pending \subseteq missed' \cup Pending'
      BY <2>3 DEF Pending
    <3>2. Bakes(baked, missed \cup Pending) => Bakes(baked, missed \cup Pending)'
      BY <2>1, <2>3, <3>1 DEF Bakes
    <3> QED BY <2>1, <2>3, <3>2
  <2> QED BY <1>3, <2>2, <2>3 DEF RunHook
<1>4. CASE HooksOver
  <2>0. left = << >>
    BY <1>4 DEF HooksOver
  <2>1. Pending = {}
    BY <2>0, NonePending
  <2> QED BY <1>4, <2>1 DEF HooksOver, Bakes
<1>5. CASE SelectBusybox
  <2>1. UNCHANGED <<extra, profile>> /\ mk' \in {"applets", "exit 1"} /\ baked' \in {baked, 0}
    BY <1>5 DEF SelectBusybox
  <2> QED BY <2>1
<1>6. CASE LinkApplets
  BY <1>6 DEF LinkApplets
<1>7. CASE InstallRequires
  BY <1>7 DEF InstallRequires
<1>8. CASE CopyLibraries
  <2>1. UNCHANGED <<extra, profile>> /\ mk' = "modules" /\ baked' \in {baked, 0}
    BY <1>8 DEF CopyLibraries
  <2> QED BY <2>1
<1>9. CASE CopyModules
  <2>1. Pending' = LateHooks /\ UNCHANGED <<extra, profile>>
    BY <1>9, HookNames DEF CopyModules, Pending
  <2>2. "50-live-config" \in LateHooks
    BY DEF LateHooks
  <2>3. (mk' = "pre-pack" /\ baked' = baked)
    BY <1>9 DEF CopyModules
  <2> QED BY <2>1, <2>2, <2>3 DEF Bakes
<1>10. CASE Pack
  <2>1. missed \subseteq missed' /\ mk = "pack" /\ UNCHANGED <<profile, extra, baked>>
    BY <1>10, CopyAccounts DEF Pack
  <2>2. profile = "live" => Bakes(baked, missed')
    BY <2>1 DEF Bakes
  <2>3. CASE profile = "embedded"
    <3>1. mk' = "exit 0"
      BY <1>10, <2>3 DEF Pack
    <3> QED BY <2>1, <2>3, <3>1
  <2>4. CASE profile # "embedded"
    <3>1. packed' = [parts |-> wdir', baked |-> baked] /\ mk' = "microcode"
      BY <1>10, <2>4 DEF Pack
    <3>2. packed'.baked = baked
      BY <3>1
    <3> QED BY <2>1, <2>2, <3>1, <3>2 DEF Bakes
  <2> QED BY <2>3, <2>4
<1>11. CASE AddMicrocode
  <2>1. mk = "microcode" /\ UNCHANGED <<profile, extra, baked, packed, missed>>
    BY <1>11 DEF AddMicrocode
  <2>2. mk' \in {"cat", "exit 0"} /\ img'.baked = packed.baked
    BY <1>11 DEF AddMicrocode, MkTypeOK, Image
  <2> QED BY <2>1, <2>2 DEF Bakes
<1>12. CASE CatMicrocode
  <2>1. /\ mk = "cat" /\ mk' = "exit 0" /\ missed \subseteq missed' /\ img' \in {img, packed}
        /\ UNCHANGED <<profile, extra, baked, packed>>
    BY <1>12 DEF CatMicrocode, Misses
  <2> QED BY <2>1 DEF Bakes
<1> QED
  BY <1>1, <1>2, <1>3, <1>4, <1>5, <1>6, <1>7, <1>8, <1>9, <1>10, <1>11, <1>12 DEF MkStep

-----------------------------------------------------------------------------
(* Types. *)

LEMMA EmptyTypes == NoImage \in Image /\ NoTree \in Tree
<1>1. NoImage \in Image
  BY DEF NoImage, Image
<1> QED BY <1>1 DEF NoTree, Tree, Profiles

LEMMA ResetTypes == ASSUME MkTypeOK, MkReset PROVE MkTypeOK'
BY EmptyTypes, EmptySequence DEF MkTypeOK, MkReset, MkPlaces, Profiles

(* What a tree is after an artifact was written into the directory. *)
LEMMA WrittenTree ==
  ASSUME TypeOK, NEW a \in Artifacts
  PROVE  /\ Written(a) \in [WorkDirs -> Tree]
         /\ \A w \in WorkDirs \ {dir} : Written(a)[w] = tree[w]
         /\ Written(a)[dir].by[a] = run
         /\ \A b \in Artifacts \ {a} : Written(a)[dir].by[b] = tree[dir].by[b]
         /\ Written(a)[dir].cut = tree[dir].cut
         /\ Written(a)[dir].sum = tree[dir].sum
         /\ Written(a)[dir].profile = tree[dir].profile
         /\ Written(a)[dir].image = tree[dir].image
         /\ Written(a)[dir].missed = tree[dir].missed
<1> DEFINE t == tree[dir]
           by == [t.by EXCEPT ![a] = run]
           u == [t EXCEPT !.by = by]
<1>1. t \in Tree /\ dir \in WorkDirs /\ tree \in [WorkDirs -> Tree] /\ run \in Nat
  BY RunsAssumption DEF TypeOK
<1>2. /\ by \in [Artifacts -> Nat] /\ by[a] = run
      /\ \A b \in Artifacts \ {a} : by[b] = t.by[b]
  BY <1>1 DEF Tree
<1>3. /\ u \in Tree /\ u.by = by
      /\ u.cut = t.cut /\ u.sum = t.sum /\ u.profile = t.profile
      /\ u.image = t.image /\ u.missed = t.missed
  BY <1>1, <1>2 DEF Tree
<1>4. Written(a) = [tree EXCEPT ![dir] = u]
  BY DEF Written
<1>5. /\ Written(a) \in [WorkDirs -> Tree] /\ Written(a)[dir] = u
      /\ \A w \in WorkDirs \ {dir} : Written(a)[w] = tree[w]
  BY <1>1, <1>3, <1>4
<1> QED BY <1>2, <1>3, <1>5

(* The same for initramfs.img. *)
LEMMA WithImageTree ==
  ASSUME TypeOK
  PROVE  /\ WithImage \in [WorkDirs -> Tree]
         /\ \A w \in WorkDirs \ {dir} : WithImage[w] = tree[w]
         /\ WithImage[dir].by["initramfs"] = run
         /\ \A b \in Artifacts \ {"initramfs"} : WithImage[dir].by[b] = tree[dir].by[b]
         /\ WithImage[dir].cut = tree[dir].cut
         /\ WithImage[dir].sum = tree[dir].sum
         /\ WithImage[dir].profile = profile
         /\ WithImage[dir].image = img
         /\ WithImage[dir].missed = missed
<1> DEFINE t == tree[dir]
           by == [t.by EXCEPT !["initramfs"] = run]
           u == [t EXCEPT !.by = by, !.profile = profile, !.image = img, !.missed = missed]
<1>1. /\ t \in Tree /\ dir \in WorkDirs /\ tree \in [WorkDirs -> Tree] /\ run \in Nat
      /\ profile \in Profiles /\ img \in Image /\ missed \subseteq Parts
  BY RunsAssumption DEF TypeOK, MkTypeOK
<1>2. /\ by \in [Artifacts -> Nat] /\ by["initramfs"] = run
      /\ \A b \in Artifacts \ {"initramfs"} : by[b] = t.by[b]
  BY <1>1 DEF Tree, Artifacts
<1>3. /\ u \in Tree /\ u.by = by
      /\ u.cut = t.cut /\ u.sum = t.sum /\ u.profile = profile
      /\ u.image = img /\ u.missed = missed
  BY <1>1, <1>2 DEF Tree
<1>4. WithImage = [tree EXCEPT ![dir] = u]
  BY <1>1, <1>3 DEF WithImage
<1>5. /\ WithImage \in [WorkDirs -> Tree] /\ WithImage[dir] = u
      /\ \A w \in WorkDirs \ {dir} : WithImage[w] = tree[w]
  BY <1>1, <1>3, <1>4
<1> QED BY <1>2, <1>3, <1>5

(* The same for one whose command was stopped. *)
TornAt(a) == [Written(a) EXCEPT ![dir].cut = @ \cup {a}]

LEMMA TornTree ==
  ASSUME TypeOK, NEW a \in Artifacts
  PROVE  /\ TornAt(a) \in [WorkDirs -> Tree]
         /\ \A w \in WorkDirs \ {dir} : TornAt(a)[w] = tree[w]
         /\ TornAt(a)[dir].by[a] = run
         /\ \A b \in Artifacts \ {a} : TornAt(a)[dir].by[b] = tree[dir].by[b]
         /\ TornAt(a)[dir].cut = tree[dir].cut \cup {a}
         /\ TornAt(a)[dir].sum = tree[dir].sum
         /\ TornAt(a)[dir].profile = tree[dir].profile
         /\ TornAt(a)[dir].image = tree[dir].image
         /\ TornAt(a)[dir].missed = tree[dir].missed
<1> DEFINE t == Written(a)[dir]
           u == [t EXCEPT !.cut = t.cut \cup {a}]
<1>1. Written(a) \in [WorkDirs -> Tree] /\ t \in Tree /\ dir \in WorkDirs
  BY WrittenTree DEF TypeOK
<1>2. /\ u \in Tree /\ u.cut = t.cut \cup {a} /\ u.by = t.by /\ u.sum = t.sum
      /\ u.profile = t.profile /\ u.image = t.image /\ u.missed = t.missed
  BY <1>1 DEF Tree
<1>3. TornAt(a) = [Written(a) EXCEPT ![dir] = u]
  BY DEF TornAt
<1>4. /\ TornAt(a) \in [WorkDirs -> Tree] /\ TornAt(a)[dir] = u
      /\ \A w \in WorkDirs \ {dir} : TornAt(a)[w] = Written(a)[w]
  BY <1>1, <1>2, <1>3
<1> QED BY <1>2, <1>4, WrittenTree

(* The same for an `rm -rf` that was stopped. *)
LEMMA GoneTree ==
  ASSUME TypeOK, NEW gone,
         NEW after, after = [tree EXCEPT ![dir].by = [a \in Artifacts |-> IF a \in gone THEN 0 ELSE @[a]]]
  PROVE  /\ after \in [WorkDirs -> Tree]
         /\ \A w \in WorkDirs \ {dir} : after[w] = tree[w]
         /\ \A b \in Artifacts : after[dir].by[b] \in {0, tree[dir].by[b]}
         /\ after[dir].cut = tree[dir].cut
         /\ after[dir].sum = tree[dir].sum
         /\ after[dir].profile = tree[dir].profile
         /\ after[dir].image = tree[dir].image
         /\ after[dir].missed = tree[dir].missed
<1> DEFINE t == tree[dir]
           by == [a \in Artifacts |-> IF a \in gone THEN 0 ELSE t.by[a]]
           u == [t EXCEPT !.by = by]
<1>1. tree \in [WorkDirs -> Tree] /\ t \in Tree /\ dir \in WorkDirs
  BY DEF TypeOK
<1>2. by \in [Artifacts -> Nat] /\ \A b \in Artifacts : by[b] \in {0, t.by[b]}
  BY <1>1 DEF Tree
<1>3. /\ u \in Tree /\ u.by = by /\ u.cut = t.cut /\ u.sum = t.sum
      /\ u.profile = t.profile /\ u.image = t.image /\ u.missed = t.missed
  BY <1>1, <1>2 DEF Tree
<1>4. after = [tree EXCEPT ![dir] = u]
  OBVIOUS
<1>5. /\ after \in [WorkDirs -> Tree] /\ after[dir] = u
      /\ \A w \in WorkDirs \ {dir} : after[w] = tree[w]
  BY <1>1, <1>3, <1>4
<1> QED BY <1>2, <1>3, <1>5

LEMMA RemainsTypes == ASSUME TypeOK, NEW after \in Remains PROVE after \in [WorkDirs -> Tree]
<1>1. CASE at = "wipe"
  <2>1. PICK gone \in Removals :
          after = [tree EXCEPT ![dir].by = [a \in Artifacts |-> IF a \in gone THEN 0 ELSE @[a]]]
    BY <1>1 DEF Remains, Artifacts
  <2> QED BY <2>1, GoneTree
<1>2. CASE at \in Artifacts
  <2>1. at # "wipe" /\ at # "mk"
    BY <1>2 DEF Artifacts
  <2>2. after = tree \/ after = TornAt(at)
    BY <1>2, <2>1 DEF Remains, Torn, TornAt
  <2> QED BY <1>2, <2>2, TornTree DEF TypeOK
<1>3. CASE at = "mk" /\ at \notin Artifacts
  <2>1. after = tree \/ after = WithImage
    BY <1>3 DEF Remains
  <2> QED BY <2>1, WithImageTree DEF TypeOK
<1>4. CASE at \notin {"wipe", "mk"} /\ at \notin Artifacts
  <2>1. after = tree
    BY <1>4 DEF Remains
  <2> QED BY <2>1 DEF TypeOK
<1> QED BY <1>1, <1>2, <1>3, <1>4

LEMMA TypesKept == TypeOK /\ [Next]_vars => TypeOK'
<1> SUFFICES ASSUME TypeOK, [Next]_vars PROVE TypeOK'
  OBVIOUS
<1>t. /\ MkTypeOK /\ run \in 0..MaxRuns /\ kind \in Kinds /\ at \in Places /\ dir \in WorkDirs
      /\ tree \in [WorkDirs -> Tree]
      /\ iso \in [state : IsoStates, name : Makes, emptied : Nat, moved : BOOLEAN, tree : Tree]
      /\ emptied \in 0..MaxRuns /\ home \in WorkDirs /\ unsummed \subseteq 0..MaxRuns
  BY DEF TypeOK
<1>n. MaxRuns \in Nat /\ run \in Nat
  BY <1>t, RunsAssumption
<1>u. ASSUME UNCHANGED mkVars PROVE MkTypeOK'
  BY <1>t, <1>u DEF mkVars, mkRun, MkTypeOK
<1>g. ASSUME NEW place \in Places, Goto(place)
      PROVE  run' \in 0..MaxRuns /\ kind' \in Kinds /\ at' \in Places /\ dir' \in WorkDirs
  BY <1>t, <1>g DEF Goto, Kinds
<1>w. \A a \in Artifacts : Written(a) \in [WorkDirs -> Tree]
  BY WrittenTree
<1>p. {"idle", "check", "wipe", "squashfs", "sum", "kernel", "extra", "mk", "menu", "efi",
        "bios", "verify", "report", "iso"} \subseteq Places
  BY DEF Places
<1>a. {"squashfs", "sum", "kernel", "initramfs", "menu", "efi", "bios"} \subseteq Artifacts
  BY DEF Artifacts
<1>1. CASE Begin
  <2>1. run' \in 0..MaxRuns
    <3>1. run < MaxRuns /\ run' = run + 1
      BY <1>1 DEF Begin
    <3> QED BY <1>n, <3>1
  <2>2. kind' \in Kinds /\ dir' \in WorkDirs /\ UNCHANGED <<tree, iso, history, mkVars>>
    BY <1>1, <1>t DEF Begin
  <2>3. at' \in Places
    BY <1>1, <1>p DEF Begin
  <2> QED BY <1>t, <1>u, <2>1, <2>2, <2>3 DEF TypeOK, history
<1>2. CASE Wipe
  <2>1. tree' \in [WorkDirs -> Tree]
    BY <1>2, <1>t, EmptyTypes DEF Wipe
  <2>2. emptied' \in 0..MaxRuns /\ home' \in WorkDirs /\ UNCHANGED <<iso, unsummed, mkVars>>
    BY <1>2, <1>t DEF Wipe
  <2>3. run' \in 0..MaxRuns /\ kind' \in Kinds /\ at' \in Places /\ dir' \in WorkDirs
    BY <1>2, <1>g, <1>p DEF Wipe
  <2> QED BY <1>t, <1>u, <2>1, <2>2, <2>3 DEF TypeOK
<1>3. CASE MakeSquashfs
  BY <1>3, <1>t, <1>u, <1>g, <1>w, <1>p, <1>a DEF MakeSquashfs, TypeOK, history
<1>4. CASE SumSquashfs
  <2>1. Written("sum") \in [WorkDirs -> Tree] /\ Written("sum")[dir] \in Tree
    BY <1>w, <1>a, <1>t
  <2>2. tree[dir].by["squashfs"] \in Nat
    BY <1>t, <1>a DEF Tree
  <2>3. tree' \in [WorkDirs -> Tree]
    <3>1. CASE tree' = Written("sum")
      BY <2>1, <3>1
    <3>2. CASE tree' = [Written("sum") EXCEPT ![dir].sum = tree[dir].by["squashfs"]]
      <4> DEFINE u == [Written("sum")[dir] EXCEPT !.sum = tree[dir].by["squashfs"]]
      <4>1. u \in Tree
        BY <2>1, <2>2 DEF Tree
      <4>2. tree' = [Written("sum") EXCEPT ![dir] = u]
        BY <3>2
      <4> QED BY <2>1, <4>1, <4>2
    <3> QED BY <1>4, <3>1, <3>2 DEF SumSquashfs
  <2>4. unsummed' \subseteq 0..MaxRuns /\ UNCHANGED <<iso, emptied, home, mkRun>>
    BY <1>4, <1>t DEF SumSquashfs
  <2>5. faults' \in 0..MaxFaults
    BY <1>4, <1>t, FaultTypes DEF SumSquashfs, MkTypeOK
  <2>6. MkTypeOK'
    BY <1>t, <2>4, <2>5 DEF mkRun, MkTypeOK
  <2>7. run' \in 0..MaxRuns /\ kind' \in Kinds /\ at' \in Places /\ dir' \in WorkDirs
    BY <1>4, <1>g, <1>p DEF SumSquashfs
  <2> QED BY <1>t, <2>3, <2>4, <2>6, <2>7 DEF TypeOK
<1>5. CASE CopyKernel
  BY <1>5, <1>t, <1>u, <1>g, <1>w, <1>p, <1>a DEF CopyKernel, TypeOK, history
<1>6. CASE PopulateExtra
  <2>1. tree[dir].sum \in Nat
    BY <1>t DEF Tree
  <2>2. extra' \in Nat /\ profile' \in Profiles /\ mk' \in MkPlaces
    BY <1>6, <2>1 DEF PopulateExtra, Profiles, MkPlaces, Makes
  <2>3. MkTypeOK'
    BY <1>6, <1>t, <2>2 DEF PopulateExtra, MkTypeOK
  <2> QED BY <1>6, <1>t, <1>g, <1>p, <2>3 DEF PopulateExtra, TypeOK, history
<1>7. CASE Mkinitramfs
  BY <1>7, <1>t, MkTypes DEF Mkinitramfs, buildVars, TypeOK
<1>8. CASE MkinitramfsDone
  <2>1. tree' \in [WorkDirs -> Tree]
    BY <1>8, <1>t, WithImageTree DEF MkinitramfsDone
  <2>2. MkTypeOK'
    BY <1>8, <1>t, <1>u, ResetTypes DEF MkinitramfsDone
  <2>3. run' \in 0..MaxRuns /\ kind' \in Kinds /\ at' \in Places /\ dir' \in WorkDirs
    BY <1>8, <1>g, <1>p DEF MkinitramfsDone
  <2> QED BY <1>8, <1>t, <2>1, <2>2, <2>3 DEF MkinitramfsDone, TypeOK, history
<1>9. CASE WriteMenu
  BY <1>9, <1>t, <1>u, <1>g, <1>w, <1>p, <1>a DEF WriteMenu, TypeOK, history
<1>10. CASE MakeEfi
  BY <1>10, <1>t, <1>u, <1>g, <1>w, <1>p, <1>a DEF MakeEfi, TypeOK, history
<1>11. CASE MakeBios
  BY <1>11, <1>t, <1>u, <1>g, <1>w, <1>p, <1>a DEF MakeBios, TypeOK, history
<1>12. CASE CheckArtifacts
  BY <1>12, <1>t, <1>u, <1>g, <1>p DEF CheckArtifacts, TypeOK, history
<1>13. CASE MakeIso
  <2>1. Packaged \in [state : IsoStates, name : Makes, emptied : Nat, moved : BOOLEAN, tree : Tree]
    BY <1>t, <1>n DEF Packaged, IsoStates, Makes
  <2> QED BY <1>13, <1>t, <1>u, <1>g, <1>p, <2>1 DEF MakeIso, TypeOK, history
<1>14. CASE VerifySysroot
  BY <1>14, <1>t, <1>u, <1>g, <1>p DEF VerifySysroot, TypeOK, history
<1>15. CASE ReportSysroot
  BY <1>15, <1>t, <1>g, <1>p, ResetTypes DEF ReportSysroot, TypeOK, history
<1>16. CASE Stop
  <2>1. TornIso \in [state : IsoStates, name : Makes, emptied : Nat, moved : BOOLEAN, tree : Tree]
    BY EmptyTypes DEF TornIso, NoIso, IsoStates, Makes
  <2>2. tree' \in [WorkDirs -> Tree]
    BY <1>16, RemainsTypes DEF Stop
  <2> QED BY <1>16, <1>t, <1>g, <1>p, <2>1, <2>2, ResetTypes DEF Stop, TypeOK, history
<1>17. CASE UNCHANGED vars
  BY <1>17, <1>t, <1>u DEF vars, buildVars, TypeOK
<1> QED
  BY <1>1, <1>2, <1>3, <1>4, <1>5, <1>6, <1>7, <1>8, <1>9, <1>10, <1>11, <1>12, <1>13, <1>14,
     <1>15, <1>16, <1>17 DEF Next, Step

-----------------------------------------------------------------------------
(* mkinitramfs within build.sh. *)

LEMMA MkUntouched ==
  ASSUME TreeAccounts, ImageAccounts, SumTravels, UNCHANGED mkRun
  PROVE  TreeAccounts' /\ ImageAccounts' /\ SumTravels'
<1>1. /\ UNCHANGED <<mk, profile, left, wdir, baked, extra, packed, img, missed>>
      /\ Pending' = Pending /\ Accounted' = Accounted /\ Early' = Early /\ Late' = Late
  BY DEF mkRun, Pending, Accounted, Early, Late
<1>2. TreeAccounts'
  BY <1>1 DEF TreeAccounts
<1>3. ImageAccounts'
  BY <1>1 DEF ImageAccounts, Lacks
<1>4. SumTravels'
  BY <1>1 DEF SumTravels, Bakes
<1> QED BY <1>2, <1>3, <1>4

LEMMA MkOver == ASSUME MkReset PROVE TreeAccounts' /\ ImageAccounts' /\ SumTravels'
BY DEF MkReset, TreeAccounts, ImageAccounts, SumTravels, Staged

LEMMA MkKept ==
  ASSUME TypeOK, TreeAccounts, ImageAccounts, SumTravels, Coupled, [Next]_vars
  PROVE  TreeAccounts' /\ ImageAccounts' /\ SumTravels'
<1>1. CASE UNCHANGED mkRun
  BY <1>1, MkUntouched
<1>2. CASE MkReset
  BY <1>2, MkOver
<1>3. CASE MkStep
  BY <1>3, AccountsKept, SumKept DEF TypeOK
<1>4. CASE PopulateExtra
  <2>1. mk' = "checks" /\ baked' = 0
    BY <1>4 DEF PopulateExtra, Coupled
  <2> QED BY <2>1 DEF TreeAccounts, ImageAccounts, SumTravels, Staged
<1> QED
  BY <1>1, <1>2, <1>3, <1>4
  DEF Next, Step, vars, mkVars, Begin, Wipe, MakeSquashfs, SumSquashfs, CopyKernel, Mkinitramfs,
      MkinitramfsDone, WriteMenu, MakeEfi, MakeBios, CheckArtifacts, MakeIso, VerifySysroot,
      ReportSysroot, Stop

(* No step of mkinitramfs is taken when it is over. *)
LEMMA MkEnds == ASSUME MkStep PROVE mk \notin {"off", "exit 0", "exit 1"}
BY DEF MkStep, CheckArguments, Stage, RunHook, HooksOver, SelectBusybox, LinkApplets,
       InstallRequires, CopyLibraries, CopyModules, Pack, AddMicrocode, CatMicrocode

LEMMA RunsCount == ASSUME TypeOK, run' = run + 1 PROVE run' > 0
<1>1. run \in Nat
  BY RunsAssumption DEF TypeOK
<1> QED BY <1>1

LEMMA CoupledKept ==
  ASSUME TypeOK, SumTravels, Coupled, [Next]_vars
  PROVE  Coupled'
<1> USE DEF Coupled, Goto, Makes
<1>1. CASE Begin
  <2>1. run' > 0
    BY <1>1, RunsCount DEF Begin
  <2>2. mk' = "off" /\ baked' = 0
    BY <1>1 DEF Begin, mkVars, mkRun
  <2>3. CASE kind' = "make iso" /\ at' = "check"
    BY <2>1, <2>2, <2>3
  <2>4. CASE kind' \in {"live", "netinstall", "clean"} /\ at' = "wipe"
    BY <2>1, <2>2, <2>4
  <2>5. CASE kind' \in {"embedded", "disk"} /\ at' = "extra"
    BY <2>1, <2>2, <2>5
  <2> QED BY <1>1, <2>3, <2>4, <2>5 DEF Begin, Kinds
<1>2. CASE Wipe
  BY <1>2 DEF Wipe, mkVars, mkRun
<1>3. CASE MakeSquashfs
  BY <1>3 DEF MakeSquashfs, mkVars, mkRun
<1>4. CASE SumSquashfs
  BY <1>4 DEF SumSquashfs, mkRun
<1>5. CASE CopyKernel
  BY <1>5 DEF CopyKernel, mkVars, mkRun
<1>6. CASE PopulateExtra
  BY <1>6 DEF PopulateExtra
<1>7. CASE Mkinitramfs
  <2>1. UNCHANGED <<run, kind, at, profile>> /\ at = "mk"
    BY <1>7, SumKept DEF Mkinitramfs, buildVars, TypeOK
  <2> QED BY <2>1
<1>8. CASE MkinitramfsDone
  <2>1. CASE kind = "embedded"
    BY <1>8, <2>1 DEF MkinitramfsDone, mkVars, mkRun
  <2>2. CASE kind # "embedded"
    BY <1>8, <2>2 DEF MkinitramfsDone, MkReset
  <2> QED BY <2>1, <2>2
<1>9. CASE WriteMenu
  BY <1>9 DEF WriteMenu, mkVars, mkRun
<1>10. CASE MakeEfi
  BY <1>10 DEF MakeEfi, mkVars, mkRun
<1>11. CASE MakeBios
  BY <1>11 DEF MakeBios, mkVars, mkRun
<1>12. CASE CheckArtifacts
  BY <1>12 DEF CheckArtifacts, mkVars, mkRun
<1>13. CASE MakeIso
  BY <1>13 DEF MakeIso, mkVars, mkRun
<1>14. CASE VerifySysroot
  BY <1>14 DEF VerifySysroot, mkVars, mkRun
<1>15. CASE ReportSysroot
  BY <1>15 DEF ReportSysroot, MkReset
<1>16. CASE Stop
  BY <1>16 DEF Stop, MkReset
<1>17. CASE UNCHANGED vars
  BY <1>17 DEF vars, buildVars, mkVars, mkRun
<1> QED
  BY <1>1, <1>2, <1>3, <1>4, <1>5, <1>6, <1>7, <1>8, <1>9, <1>10, <1>11, <1>12, <1>13, <1>14,
     <1>15, <1>16, <1>17 DEF Next, Step

-----------------------------------------------------------------------------
(* The work directories and the ISO. *)

(* A tree stays good when sums are known to have failed that were not. *)
LEMMA KeptLonger ==
  ASSUME NEW t, NEW failed, NEW more, failed \subseteq more, Kept(t, failed)
  PROVE  Kept(t, more)
BY DEF Kept, Packed, SumOf, BakedOf

Dirs == OwnTree /\ Trees /\ Checked

(* Steps that touch neither build.sh's place nor the trees. *)
LEMMA DirsUntouched ==
  ASSUME Dirs,
         UNCHANGED <<run, kind, at, dir, tree, emptied, home, unsummed>>, extra' = extra
  PROVE  Dirs'
<1>1. OwnTree'
  BY DEF Dirs, OwnTree, Building, Packed, BakedOf
<1>2. ASSUME NEW w \in WorkDirs PROVE Kept(tree[w], unsummed)'
  <2>1. Kept(tree[w], unsummed)
    BY DEF Dirs, Trees
  <2> QED BY <2>1 DEF Kept, Packed, SumOf, BakedOf
<1>3. (\A a \in Artifacts : tree[home].by[a] \in {0, emptied})'
  BY DEF Dirs, Trees
<1>4. Checked'
  BY DEF Dirs, Checked
<1> QED BY <1>1, <1>2, <1>3, <1>4 DEF Dirs, Trees

(* A directory another run will look at. *)
LEMMA DirsLeft ==
  ASSUME TypeOK, Dirs, ~Building', at' # "iso", UNCHANGED <<emptied, home, unsummed>>,
         tree' \in [WorkDirs -> Tree],
         \A w \in WorkDirs \ {dir} : tree'[w] = tree[w],
         Kept(tree'[dir], unsummed),
         home = dir => \A a \in Artifacts : tree'[dir].by[a] \in {0, emptied}
  PROVE  Dirs'
<1>1. OwnTree' /\ Checked'
  BY DEF OwnTree, Checked
<1>2. ASSUME NEW w \in WorkDirs PROVE Kept(tree[w], unsummed)'
  <2>1. Kept(tree'[w], unsummed)
    BY DEF Dirs, Trees
  <2> QED BY <2>1 DEF Kept, Packed, SumOf, BakedOf
<1>3. ASSUME NEW a \in Artifacts PROVE tree'[home].by[a] \in {0, emptied}
  BY <1>3 DEF Dirs, Trees, TypeOK
<1> QED BY <1>1, <1>2, <1>3 DEF Dirs, Trees

(* A step of a run in the directory it builds in. *)
LEMMA DirsBuilt ==
  ASSUME TypeOK, Dirs, Building, at \in Places, OwnTree',
         UNCHANGED <<run, kind, dir, emptied, home>>, unsummed \subseteq unsummed',
         kind \in Makes,
         tree' \in [WorkDirs -> Tree],
         \A w \in WorkDirs \ {dir} : tree'[w] = tree[w],
         \A a \in Artifacts : tree'[dir].by[a] \in {0, run},
         Kept(tree'[dir], unsummed')
  PROVE  Dirs'
<1>1. Checked'
  BY DEF Checked, Makes
<1>2. emptied = run /\ home = dir
  BY DEF Dirs, OwnTree
<1>3. ASSUME NEW w \in WorkDirs PROVE Kept(tree'[w], unsummed')
  <2>1. CASE w = dir
    BY <2>1
  <2>2. CASE w # dir
    <3>1. Kept(tree[w], unsummed)
      BY DEF Dirs, Trees
    <3> QED BY <2>2, <3>1, KeptLonger
  <2> QED BY <2>1, <2>2
<1>4. ASSUME NEW w \in WorkDirs PROVE Kept(tree[w], unsummed)'
  <2>1. Kept(tree'[w], unsummed')
    BY <1>3
  <2> QED BY <2>1 DEF Kept, Packed, SumOf, BakedOf
<1> QED BY <1>1, <1>2, <1>4 DEF Dirs, Trees

(* What a run that is stopped leaves. *)
LEMMA DirsStopped ==
  ASSUME TypeOK, Coupled, Dirs, Kept(tree[dir], unsummed),
         at' = "idle", UNCHANGED <<emptied, home, unsummed>>, tree' \in Remains
  PROVE  Dirs'
<1> DEFINE t == tree[dir]
           u == tree'[dir]
<1>a. Artifacts = {"squashfs", "sum", "kernel", "initramfs", "menu", "efi", "bios"}
  BY DEF Artifacts
<1>s. at \in Artifacts => at \in {"squashfs", "sum", "kernel", "menu", "efi", "bios"}
  BY <1>a DEF TypeOK, Places
<1>i. ~Building' /\ at' # "iso"
  BY DEF Building
<1>t. tree' \in [WorkDirs -> Tree]
  BY RemainsTypes
<1>1. CASE tree' = tree
  BY <1>1, <1>i, <1>t, DirsLeft DEF Dirs, Trees
<1>2. CASE at = "wipe"
  <2>1. PICK gone \in Removals :
          tree' = [tree EXCEPT ![dir].by = [a \in Artifacts |-> IF a \in gone THEN 0 ELSE @[a]]]
    BY <1>2 DEF Remains, Artifacts
  <2>2. /\ \A w \in WorkDirs \ {dir} : tree'[w] = tree[w]
        /\ \A b \in Artifacts : u.by[b] \in {0, t.by[b]}
        /\ u.cut = t.cut /\ u.sum = t.sum /\ u.profile = t.profile
        /\ u.image = t.image /\ u.missed = t.missed
    BY <2>1, GoneTree
  <2>3. Kept(u, unsummed)
    <3> HIDE DEF t, u
    <3>1. \A a, b \in Artifacts : 0 \in {u.by[a], u.by[b]} \/ u.by[a] = u.by[b]
      BY <2>2, SMTT(30) DEF Kept, t
    <3>2. u.by["squashfs"] # 0 => u.profile = "live"
      BY <1>a, <2>2 DEF Kept, t
    <3>3. ASSUME u.by["bios"] # 0
          PROVE  /\ u.cut \subseteq {"bios"} /\ Packed(u, unsummed)
                 /\ u.by["squashfs"] # 0 => SumOf(u, u.by["squashfs"], unsummed)
      <4>1. /\ t.cut \subseteq {"bios"} /\ Packed(t, unsummed)
            /\ t.by["squashfs"] # 0 => SumOf(t, t.by["squashfs"], unsummed)
        BY <1>a, <2>2, <3>3 DEF Kept, t
      <4>2. u.by["squashfs"] # 0 => u.by["squashfs"] = t.by["squashfs"]
        BY <1>a, <2>2
      <4>3. t.by["sum"] = 0 => u.by["sum"] = 0
        BY <1>a, <2>2
      <4> QED BY <2>2, <4>1, <4>2, <4>3, SMTT(30) DEF Packed, SumOf, BakedOf
    <3> QED BY <3>1, <3>2, <3>3 DEF Kept
  <2>4. home = dir => \A a \in Artifacts : u.by[a] \in {0, emptied}
    BY <2>2 DEF Dirs, Trees
  <2> QED BY <1>i, <1>t, <2>2, <2>3, <2>4, DirsLeft
<1>3. CASE at \in Artifacts /\ tree' = TornAt(at)
  <2>1. Building /\ kind \in Makes
    BY <1>s, <1>3 DEF Coupled, Building, Makes
  <2>2. /\ \A w \in WorkDirs \ {dir} : tree'[w] = tree[w]
        /\ u.by[at] = run /\ \A b \in Artifacts \ {at} : u.by[b] = t.by[b]
        /\ u.cut = t.cut \cup {at} /\ u.sum = t.sum /\ u.profile = t.profile
        /\ u.image = t.image /\ u.missed = t.missed
    BY <1>3, TornTree
  <2>3. \A a \in Artifacts : u.by[a] \in {0, run}
    BY <2>1, <2>2 DEF Dirs, OwnTree
  <2>4. emptied = run
    BY <2>1 DEF Dirs, OwnTree
  <2>5. CASE at = "bios"
    <3>1. Packed(t, unsummed)
      BY <2>1, <2>5 DEF Dirs, OwnTree
    <3>2. Packed(u, unsummed)
      BY <1>a, <2>2, <2>5, <3>1 DEF Packed, BakedOf
    <3> HIDE DEF t, u
    <3>3. /\ u.by["squashfs"] # 0 => u.profile = "live" /\ SumOf(u, u.by["squashfs"], unsummed)
          /\ u.cut \subseteq {"bios"}
      BY <1>a, <2>1, <2>2, <2>5 DEF Dirs, OwnTree, SumOf, Makes, t
    <3> QED BY <1>i, <1>t, <2>2, <2>3, <2>4, <3>2, <3>3, DirsLeft DEF Kept, u, t
  <2>6. CASE at # "bios"
    <3>1. u.by["bios"] = 0
      BY <1>a, <1>3, <2>1, <2>2, <2>6 DEF Dirs, OwnTree
    <3>2. u.by["squashfs"] # 0 => u.profile = "live"
      <4>1. kind = "netinstall" => u.by["squashfs"] = 0
        BY <1>a, <1>s, <1>3, <2>1, <2>2 DEF Dirs, OwnTree, Coupled
      <4>2. kind = "live" => t.profile = "live" \/ at \in {"menu", "efi"}
        BY <1>s, <1>3, <2>1, <2>6 DEF Dirs, OwnTree
      <4>3. at \in {"menu", "efi"} => t.profile = kind
        BY <2>1 DEF Dirs, OwnTree
      <4> QED BY <2>1, <2>2, <4>1, <4>2, <4>3 DEF Makes
    <3>3. Kept(u, unsummed)
      BY <2>3, <3>1, <3>2 DEF Kept
    <3> QED BY <1>i, <1>t, <2>2, <2>3, <2>4, <3>3, DirsLeft
  <2> QED BY <2>5, <2>6
<1>4. CASE at = "mk" /\ kind \in Makes /\ tree' = WithImage
  <2>1. Building /\ profile = kind
    BY <1>4 DEF Coupled, Building, Makes
  <2>2. /\ u.by["initramfs"] = run /\ \A b \in Artifacts \ {"initramfs"} : u.by[b] = t.by[b]
        /\ u.profile = profile
        /\ \A w \in WorkDirs \ {dir} : tree'[w] = tree[w]
    BY <1>a, <1>4, WithImageTree
  <2>3. \A a \in Artifacts : u.by[a] \in {0, run}
    BY <2>1, <2>2 DEF Dirs, OwnTree
  <2>4. emptied = run
    BY <2>1 DEF Dirs, OwnTree
  <2>5. u.by["bios"] = 0
    BY <1>a, <1>4, <2>1, <2>2 DEF Dirs, OwnTree
  <2>6. u.by["squashfs"] # 0 => u.profile = "live"
    BY <1>a, <1>4, <2>1, <2>2 DEF Dirs, OwnTree, Makes
  <2>7. Kept(u, unsummed)
    BY <2>3, <2>5, <2>6 DEF Kept
  <2> QED BY <1>i, <1>t, <2>2, <2>3, <2>4, <2>7, DirsLeft
<1> QED
  <2>1. CASE at = "wipe"
    BY <1>2, <2>1
  <2>2. CASE at \in Artifacts
    <3>1. at # "wipe" /\ at # "mk"
      BY <1>a, <2>2
    <3>2. tree' = tree \/ tree' = TornAt(at)
      BY <2>2, <3>1 DEF Remains, Torn, TornAt
    <3> QED BY <1>1, <1>3, <2>2, <3>2
  <2>3. CASE at = "mk" /\ at \notin Artifacts
    <3>1. tree' = tree \/ (kind \in Makes /\ tree' = WithImage)
      BY <2>3 DEF Remains
    <3> QED BY <1>1, <1>4, <2>3, <3>1
  <2>4. CASE at \notin {"wipe", "mk"} /\ at \notin Artifacts
    <3>1. tree' = tree
      BY <2>4 DEF Remains
    <3> QED BY <1>1, <3>1
  <2> QED BY <2>1, <2>2, <2>3, <2>4

LEMMA DirsKept ==
  ASSUME TypeOK, ImageAccounts, SumTravels, Coupled, Dirs, [Next]_vars
  PROVE  Dirs'
<1> DEFINE t == tree[dir]
           u == tree'[dir]
<1>t. /\ run \in Nat /\ dir \in WorkDirs /\ tree \in [WorkDirs -> Tree] /\ t \in Tree
      /\ \A a \in Artifacts : t.by[a] \in Nat
  BY RunsAssumption DEF TypeOK, Tree
<1>a. Artifacts = {"squashfs", "sum", "kernel", "initramfs", "menu", "efi", "bios"}
  BY DEF Artifacts
<1>k. Kept(t, unsummed)
  BY <1>t DEF Dirs, Trees
<1>l. TypeOK'
  BY TypesKept
<1>1. CASE Begin
  <2>1. ~Building' /\ at' # "iso" /\ UNCHANGED <<tree, emptied, home, unsummed>>
    <3>1. CASE kind' = "make iso" /\ at' = "check"
      BY <1>1, <3>1 DEF Begin, Building, history
    <3>2. CASE kind' \in {"live", "netinstall", "clean"} /\ at' = "wipe"
      BY <1>1, <3>2 DEF Begin, Building, history
    <3>3. CASE kind' \in {"embedded", "disk"} /\ at' = "extra"
      BY <1>1, <3>3 DEF Begin, Building, history, Makes
    <3> QED BY <1>1, <3>1, <3>2, <3>3 DEF Begin, Kinds, Makes
  <2> QED BY <1>t, <1>k, <2>1, DirsLeft DEF Dirs, Trees
<1>2. CASE Wipe
  <2>1. /\ tree' = [tree EXCEPT ![dir] = NoTree] /\ emptied' = run /\ home' = dir
        /\ UNCHANGED <<run, dir, unsummed, iso>> /\ at = "wipe"
        /\ at' = IF kind = "live" THEN "squashfs" ELSE IF kind = "netinstall" THEN "kernel" ELSE "idle"
    BY <1>2 DEF Wipe, Goto
  <2>2. u = NoTree /\ \A w \in WorkDirs \ {dir} : tree'[w] = tree[w]
    BY <1>t, <2>1
  <2>3. /\ \A a \in Artifacts : u.by[a] = 0
        /\ u.cut = {} /\ u.profile = "live" /\ u.sum = 0
    BY <2>2 DEF NoTree
  <2>4. at' \in {"squashfs", "kernel"} => kind' = kind
    BY <1>2, <2>1 DEF Wipe, Goto
  <2>5. at' = "idle" => kind' = "clean"
    BY <1>2, <2>1 DEF Wipe, Goto
  <2>6. OwnTree'
    BY <1>a, <2>1, <2>2, <2>3, <2>4, <2>5 DEF OwnTree, Building, Makes
  <2>7. Kept(u, unsummed)
    BY <1>a, <2>3 DEF Kept
  <2>8. ASSUME NEW w \in WorkDirs PROVE Kept(tree[w], unsummed)'
    <3>1. Kept(tree'[w], unsummed)
      BY <2>2, <2>7 DEF Dirs, Trees
    <3> QED BY <2>1, <3>1 DEF Kept, Packed, SumOf, BakedOf
  <2>9. (\A a \in Artifacts : tree[home].by[a] \in {0, emptied})'
    BY <2>1, <2>3
  <2>10. Checked'
    BY <2>1 DEF Checked
  <2> QED BY <2>6, <2>8, <2>9, <2>10 DEF Dirs, Trees
<1>3. CASE MakeSquashfs
  <2>1. /\ tree' = Written("squashfs") /\ at = "squashfs" /\ at' = "sum" /\ kind = "live"
        /\ UNCHANGED <<run, kind, dir, emptied, home, unsummed>>
    BY <1>3 DEF MakeSquashfs, Goto, Coupled, history
  <2>2. Building /\ run > 0
    BY <2>1 DEF Building, Makes, Coupled
  <2>3. /\ u.by["squashfs"] = run /\ \A b \in Artifacts \ {"squashfs"} : u.by[b] = t.by[b]
        /\ u.cut = t.cut /\ u.profile = t.profile /\ u.sum = t.sum
        /\ \A w \in WorkDirs \ {dir} : tree'[w] = tree[w]
    BY <1>a, <2>1, WrittenTree
  <2>4. OwnTree'
    BY <1>a, <2>1, <2>2, <2>3 DEF Dirs, OwnTree, Building
  <2>5. Kept(u, unsummed')
    BY <1>a, <2>1, <2>2, <2>3 DEF Dirs, OwnTree, Kept
  <2>6. \A a \in Artifacts : u.by[a] \in {0, run}
    BY <2>1, <2>2, <2>3 DEF Dirs, OwnTree
  <2> QED BY <1>l, <2>1, <2>2, <2>3, <2>4, <2>5, <2>6, DirsBuilt DEF TypeOK, Makes
<1>4. CASE SumSquashfs
  <2>1. /\ at = "sum" /\ at' = "kernel" /\ kind = "live"
        /\ UNCHANGED <<run, kind, dir, emptied, home>> /\ unsummed \subseteq unsummed'
    BY <1>4 DEF SumSquashfs, Goto, Coupled
  <2>2. Building /\ run > 0
    BY <2>1 DEF Building, Makes, Coupled
  <2> DEFINE v == Written("sum")[dir]
  <2>3. /\ Written("sum") \in [WorkDirs -> Tree] /\ v \in Tree
        /\ v.by["sum"] = run /\ \A b \in Artifacts \ {"sum"} : v.by[b] = t.by[b]
        /\ v.cut = t.cut /\ v.profile = t.profile /\ v.sum = t.sum
        /\ \A w \in WorkDirs \ {dir} : Written("sum")[w] = tree[w]
    BY <1>a, <1>t, WrittenTree
  <2>4. t.sum = 0
    BY <2>1, <2>2 DEF Dirs, OwnTree
  <2>5. /\ u.by = v.by /\ u.cut = v.cut /\ u.profile = v.profile
        /\ u.sum = run \/ (u.sum = 0 /\ run \in unsummed')
        /\ \A w \in WorkDirs \ {dir} : tree'[w] = tree[w]
    <3>1. CASE tree' = Written("sum") /\ unsummed' = unsummed \cup {run}
      BY <2>3, <2>4, <3>1
    <3>2. CASE tree' = [Written("sum") EXCEPT ![dir].sum = t.by["squashfs"]]
      <4> DEFINE x == [v EXCEPT !.sum = t.by["squashfs"]]
      <4>1. x.by = v.by /\ x.cut = v.cut /\ x.profile = v.profile /\ x.sum = t.by["squashfs"]
        BY <2>3 DEF Tree
      <4>2. tree' = [Written("sum") EXCEPT ![dir] = x]
        BY <3>2
      <4>3. u = x /\ \A w \in WorkDirs \ {dir} : tree'[w] = Written("sum")[w]
        BY <1>t, <2>3, <4>2
      <4>4. t.by["squashfs"] = run
        BY <2>1, <2>2 DEF Dirs, OwnTree
      <4> QED BY <2>3, <4>1, <4>3, <4>4
    <3> QED BY <1>4, <3>1, <3>2 DEF SumSquashfs
  <2>6. OwnTree'
    BY <1>a, <2>1, <2>2, <2>3, <2>5 DEF Dirs, OwnTree, Building
  <2>7. Kept(u, unsummed')
    BY <1>a, <2>1, <2>2, <2>3, <2>5 DEF Dirs, OwnTree, Kept
  <2>8. \A a \in Artifacts : u.by[a] \in {0, run}
    BY <2>1, <2>2, <2>3, <2>5 DEF Dirs, OwnTree
  <2> QED BY <1>l, <2>1, <2>2, <2>5, <2>6, <2>7, <2>8, DirsBuilt DEF TypeOK, Makes
<1>5. CASE CopyKernel
  <2>1. /\ tree' = Written("kernel") /\ at = "kernel" /\ at' = "extra" /\ kind \in Makes
        /\ UNCHANGED <<run, kind, dir, emptied, home, unsummed>>
    BY <1>5 DEF CopyKernel, Goto, Coupled, history
  <2>2. Building
    BY <2>1 DEF Building
  <2>3. /\ u.by["kernel"] = run /\ \A b \in Artifacts \ {"kernel"} : u.by[b] = t.by[b]
        /\ u.cut = t.cut /\ u.profile = t.profile /\ u.sum = t.sum
        /\ \A w \in WorkDirs \ {dir} : tree'[w] = tree[w]
    BY <1>a, <2>1, WrittenTree
  <2>4. OwnTree'
    BY <1>a, <2>1, <2>2, <2>3 DEF Dirs, OwnTree, Building
  <2>5. Kept(u, unsummed')
    BY <1>a, <2>1, <2>2, <2>3 DEF Dirs, OwnTree, Kept, Makes
  <2>6. \A a \in Artifacts : u.by[a] \in {0, run}
    BY <2>1, <2>2, <2>3 DEF Dirs, OwnTree
  <2> QED BY <1>l, <2>1, <2>2, <2>3, <2>4, <2>5, <2>6, DirsBuilt DEF TypeOK
<1>6. CASE PopulateExtra
  <2>1. /\ at = "extra" /\ at' = "mk" /\ (kind = "live" => extra' = t.sum)
        /\ UNCHANGED <<run, kind, dir, tree, emptied, home, unsummed>>
    BY <1>6 DEF PopulateExtra, Goto, history
  <2>2. CASE Building
    <3>1. OwnTree'
      BY <2>1, <2>2 DEF Dirs, OwnTree, Building
    <3>2. \A a \in Artifacts : u.by[a] \in {0, run}
      BY <2>1, <2>2 DEF Dirs, OwnTree
    <3>3. kind \in Makes
      BY <2>2 DEF Building
    <3> QED BY <1>k, <1>l, <2>1, <2>2, <3>1, <3>2, <3>3, DirsBuilt DEF TypeOK
  <2>3. CASE ~Building
    <3>1. ~Building' /\ at' # "iso"
      BY <2>1, <2>3 DEF Building
    <3> QED BY <1>t, <1>k, <2>1, <3>1, DirsLeft DEF Dirs, Trees
  <2> QED BY <2>2, <2>3
<1>7. CASE Mkinitramfs
  BY <1>7, SumKept, DirsUntouched DEF Mkinitramfs, buildVars, TypeOK
<1>8. CASE MkinitramfsDone
  <2>1. /\ at = "mk" /\ mk = "exit 0" /\ UNCHANGED <<run, dir, emptied, home, unsummed>>
        /\ IF kind \in Makes THEN tree' = WithImage ELSE UNCHANGED tree
    BY <1>8 DEF MkinitramfsDone, Goto, history
  <2>2. CASE kind \in Makes
    <3>1. Building /\ at' = "menu" /\ kind' = kind /\ profile = kind /\ tree' = WithImage
      BY <1>8, <2>1, <2>2 DEF MkinitramfsDone, Goto, Building, Makes, Coupled
    <3>2. /\ u.by["initramfs"] = run /\ \A b \in Artifacts \ {"initramfs"} : u.by[b] = t.by[b]
          /\ u.cut = t.cut /\ u.sum = t.sum
          /\ u.profile = profile /\ u.image = img /\ u.missed = missed
          /\ \A w \in WorkDirs \ {dir} : tree'[w] = tree[w]
      BY <1>a, <3>1, WithImageTree
    <3>3. Needed(u.profile) \ u.image.parts \subseteq u.missed
      BY <2>1, <3>2 DEF ImageAccounts, Lacks
    <3>4. ASSUME kind = "live" PROVE BakedOf(u, run, unsummed)
      <4>1. Bakes(img.baked, missed)
        BY <2>1, <3>1, <3>4 DEF SumTravels
      <4>2. extra = t.sum /\ (t.sum = run \/ (t.sum = 0 /\ run \in unsummed))
        BY <2>1, <3>1, <3>4 DEF Dirs, OwnTree
      <4> QED BY <3>2, <4>1, <4>2 DEF Bakes, BakedOf
    <3>5. u.by["squashfs"] # 0 => u.by["squashfs"] = run /\ kind = "live"
      BY <1>a, <2>1, <2>2, <3>1, <3>2 DEF Dirs, OwnTree, Makes
    <3>6. Packed(u, unsummed)
      BY <3>3, <3>4, <3>5 DEF Packed
    <3>7. (Packed(tree[dir], unsummed))'
      BY <2>1, <3>6 DEF Packed, BakedOf
    <3>8. OwnTree'
      BY <1>a, <2>1, <3>1, <3>2, <3>7 DEF Dirs, OwnTree, Building
    <3>9. \A a \in Artifacts : u.by[a] \in {0, run}
      BY <3>1, <3>2 DEF Dirs, OwnTree
    <3>10. u.by["bios"] = 0
      BY <1>a, <2>1, <3>1, <3>2 DEF Dirs, OwnTree
    <3>11. Kept(u, unsummed')
      BY <3>1, <3>2, <3>5, <3>9, <3>10 DEF Kept
    <3> QED BY <1>l, <2>1, <2>2, <3>1, <3>2, <3>8, <3>9, <3>11, DirsBuilt DEF TypeOK
  <2>3. CASE kind \notin Makes
    <3>1. ~Building' /\ at' # "iso"
      BY <1>8, <2>3 DEF MkinitramfsDone, Goto, Building, Makes
    <3> QED BY <1>t, <1>k, <2>1, <2>3, <3>1, DirsLeft DEF Dirs, Trees
  <2> QED BY <2>2, <2>3
<1>9. CASE WriteMenu
  <2>1. /\ tree' = Written("menu") /\ at = "menu" /\ at' = "efi" /\ kind' = kind /\ kind \in Makes
        /\ UNCHANGED <<run, dir, emptied, home, unsummed>>
    BY <1>9 DEF WriteMenu, Goto, Coupled, history
  <2>2. Building
    BY <2>1 DEF Building
  <2>3. /\ u.by["menu"] = run /\ \A b \in Artifacts \ {"menu"} : u.by[b] = t.by[b]
        /\ u.cut = t.cut /\ u.profile = t.profile /\ u.sum = t.sum
        /\ u.image = t.image /\ u.missed = t.missed
        /\ \A w \in WorkDirs \ {dir} : tree'[w] = tree[w]
    BY <1>a, <2>1, WrittenTree
  <2>4. Packed(t, unsummed)
    BY <2>1, <2>2 DEF Dirs, OwnTree
  <2>5. (Packed(tree[dir], unsummed))'
    BY <1>a, <2>1, <2>3, <2>4 DEF Packed, BakedOf
  <2>6. OwnTree'
    BY <1>a, <2>1, <2>2, <2>3, <2>5 DEF Dirs, OwnTree, Building
  <2>7. \A a \in Artifacts : u.by[a] \in {0, run}
    BY <2>1, <2>2, <2>3 DEF Dirs, OwnTree
  <2>8. u.by["bios"] = 0 /\ (u.by["squashfs"] # 0 => u.profile = "live")
    BY <1>a, <2>1, <2>2, <2>3 DEF Dirs, OwnTree, Makes
  <2>9. Kept(u, unsummed')
    BY <2>7, <2>8 DEF Kept
  <2> QED BY <1>l, <2>1, <2>2, <2>3, <2>6, <2>7, <2>9, DirsBuilt DEF TypeOK
<1>10. CASE MakeEfi
  <2>1. /\ tree' = Written("efi") /\ at = "efi" /\ at' = "bios" /\ kind' = kind /\ kind \in Makes
        /\ UNCHANGED <<run, dir, emptied, home, unsummed>>
    BY <1>10 DEF MakeEfi, Goto, Coupled, history
  <2>2. Building
    BY <2>1 DEF Building
  <2>3. /\ u.by["efi"] = run /\ \A b \in Artifacts \ {"efi"} : u.by[b] = t.by[b]
        /\ u.cut = t.cut /\ u.profile = t.profile /\ u.sum = t.sum
        /\ u.image = t.image /\ u.missed = t.missed
        /\ \A w \in WorkDirs \ {dir} : tree'[w] = tree[w]
    BY <1>a, <2>1, WrittenTree
  <2>4. Packed(t, unsummed)
    BY <2>1, <2>2 DEF Dirs, OwnTree
  <2>5. (Packed(tree[dir], unsummed))'
    BY <1>a, <2>1, <2>3, <2>4 DEF Packed, BakedOf
  <2>6. OwnTree'
    BY <1>a, <2>1, <2>2, <2>3, <2>5 DEF Dirs, OwnTree, Building
  <2>7. \A a \in Artifacts : u.by[a] \in {0, run}
    BY <2>1, <2>2, <2>3 DEF Dirs, OwnTree
  <2>8. u.by["bios"] = 0 /\ (u.by["squashfs"] # 0 => u.profile = "live")
    BY <1>a, <2>1, <2>2, <2>3 DEF Dirs, OwnTree, Makes
  <2>9. Kept(u, unsummed')
    BY <2>7, <2>8 DEF Kept
  <2> QED BY <1>l, <2>1, <2>2, <2>3, <2>6, <2>7, <2>9, DirsBuilt DEF TypeOK
<1>11. CASE MakeBios
  <2>1. /\ tree' = Written("bios") /\ at = "bios" /\ at' \in {"iso", "idle"} /\ kind \in Makes
        /\ (at' = "iso" => kind' = kind) /\ (at' = "idle" => kind' = "clean")
        /\ UNCHANGED <<run, dir, emptied, home, unsummed>>
    BY <1>11 DEF MakeBios, Goto, Coupled, history
  <2>2. Building
    BY <2>1 DEF Building
  <2>3. /\ u.by["bios"] = run /\ \A b \in Artifacts \ {"bios"} : u.by[b] = t.by[b]
        /\ u.cut = t.cut /\ u.profile = t.profile /\ u.sum = t.sum
        /\ u.image = t.image /\ u.missed = t.missed
        /\ \A w \in WorkDirs \ {dir} : tree'[w] = tree[w]
    BY <1>a, <2>1, WrittenTree
  <2>4. Packed(t, unsummed)
    BY <2>1, <2>2 DEF Dirs, OwnTree
  <2>5. Packed(u, unsummed)
    BY <1>a, <2>1, <2>3, <2>4 DEF Packed, BakedOf
  <2>6. \A a \in Artifacts : u.by[a] \in {0, run}
    BY <2>1, <2>2, <2>3 DEF Dirs, OwnTree
  <2>7. Kept(u, unsummed)
    BY <1>a, <2>1, <2>2, <2>3, <2>5, <2>6 DEF Dirs, OwnTree, Kept, SumOf, Makes
  <2>8. CASE at' = "iso"
    <3>1. (Packed(tree[dir], unsummed))'
      BY <2>1, <2>5 DEF Packed, BakedOf
    <3>2. OwnTree'
      BY <1>a, <2>1, <2>2, <2>3, <2>8, <3>1 DEF Dirs, OwnTree, Building
    <3> QED BY <1>l, <2>1, <2>2, <2>3, <2>6, <2>7, <2>8, <3>2, DirsBuilt DEF TypeOK
  <2>9. CASE at' = "idle"
    <3>1. ~Building'
      BY <2>9 DEF Building
    <3>2. emptied = run
      BY <2>1, <2>2 DEF Dirs, OwnTree
    <3> QED BY <1>l, <2>1, <2>3, <2>6, <2>7, <2>9, <3>1, <3>2, DirsLeft DEF TypeOK
  <2> QED BY <2>1, <2>8, <2>9
<1>12. CASE CheckArtifacts
  <2>1. /\ at = "check" /\ kind = "make iso"
        /\ UNCHANGED <<run, dir, tree, emptied, home, unsummed>>
    BY <1>12 DEF CheckArtifacts, Goto, Coupled, history
  <2>2. CASE at' = "iso"
    <3>1. kind' = "make iso" /\ Checked'
      BY <1>12, <2>1, <2>2 DEF CheckArtifacts, Goto, Checked, There
    <3>2. OwnTree'
      BY <3>1 DEF OwnTree, Building, Makes
    <3>3. ASSUME NEW w \in WorkDirs PROVE Kept(tree[w], unsummed)'
      <4>1. Kept(tree[w], unsummed)
        BY DEF Dirs, Trees
      <4> QED BY <2>1, <4>1 DEF Kept, Packed, SumOf, BakedOf
    <3>4. (\A a \in Artifacts : tree[home].by[a] \in {0, emptied})'
      BY <2>1 DEF Dirs, Trees
    <3> QED BY <3>1, <3>2, <3>3, <3>4 DEF Dirs, Trees
  <2>3. CASE at' = "idle"
    <3>1. ~Building'
      BY <2>3 DEF Building
    <3> QED BY <1>t, <1>k, <2>1, <2>3, <3>1, DirsLeft DEF Dirs, Trees
  <2> QED BY <1>12, <2>2, <2>3 DEF CheckArtifacts, Goto
<1>13. CASE MakeIso
  <2>1. at' = "idle" /\ ~Building' /\ UNCHANGED <<tree, emptied, home, unsummed>>
    BY <1>13 DEF MakeIso, Goto, Building, history
  <2> QED BY <1>t, <1>k, <2>1, DirsLeft DEF Dirs, Trees
<1>14. CASE VerifySysroot
  <2>1. ~Building' /\ at' # "iso" /\ UNCHANGED <<tree, emptied, home, unsummed>>
    BY <1>14 DEF VerifySysroot, Goto, Building, Coupled, history, Makes
  <2> QED BY <1>t, <1>k, <2>1, DirsLeft DEF Dirs, Trees
<1>15. CASE ReportSysroot
  <2>1. at' = "idle" /\ ~Building' /\ UNCHANGED <<tree, emptied, home, unsummed>>
    BY <1>15 DEF ReportSysroot, Goto, Building, history
  <2> QED BY <1>t, <1>k, <2>1, DirsLeft DEF Dirs, Trees
<1>16. CASE Stop
  <2>1. /\ at' = "idle" /\ ~Building' /\ UNCHANGED <<emptied, home, unsummed>>
        /\ tree' \in Remains
    BY <1>16 DEF Stop, Goto, Building, history
  <2> QED BY <2>1, <1>k, DirsStopped
<1>17. CASE UNCHANGED vars
  BY <1>17, DirsUntouched DEF vars, buildVars, mkVars, mkRun
<1> QED
  BY <1>1, <1>2, <1>3, <1>4, <1>5, <1>6, <1>7, <1>8, <1>9, <1>10, <1>11, <1>12, <1>13, <1>14,
     <1>15, <1>16, <1>17 DEF Next, Step

(* What a run packs: the tree it built, or one that --make-iso has looked  *)
(* at.                                                                     *)
LEMMA PackagedKept ==
  ASSUME TypeOK, Coupled, Dirs, at = "iso"
  PROVE  LET t == tree[dir]
         IN /\ Kept(t, unsummed) /\ t.by["bios"] # 0
            /\ kind = "netinstall" => t.profile = "netinstall"
            /\ kind # "netinstall" => t.by["squashfs"] # 0 /\ t.profile = "live"
            /\ t.by["initramfs"] = emptied \/ dir # home
<1> DEFINE t == tree[dir]
<1>t. t \in Tree /\ \A a \in Artifacts : t.by[a] \in Nat
  BY DEF TypeOK, Tree
<1>a. Artifacts = {"squashfs", "sum", "kernel", "initramfs", "menu", "efi", "bios"}
  BY DEF Artifacts
<1>r. run \in Nat /\ run # 0
  <2>1. run \in Nat
    BY RunsAssumption DEF TypeOK
  <2>2. run > 0
    BY DEF Coupled
  <2> QED BY <2>1, <2>2
<1>k. Kept(t, unsummed)
  BY DEF Dirs, Trees, TypeOK
<1>1. CASE kind \in Makes
  <2>1. Building
    BY <1>1 DEF Building
  <2>2. t.by["bios"] = run /\ t.profile = kind /\ t.by["initramfs"] = run /\ emptied = run
    BY <2>1 DEF Dirs, OwnTree
  <2>3. kind = "live" => t.by["squashfs"] = run
    BY <2>1 DEF Dirs, OwnTree
  <2> QED BY <1>1, <1>k, <1>r, <2>2, <2>3 DEF Makes
<1>2. CASE kind = "make iso"
  <2>1. \A a \in {"squashfs", "initramfs", "menu", "efi", "bios"} : t.by[a] # 0
    BY <1>2 DEF Dirs, Checked
  <2>2. t.profile = "live"
    BY <1>k, <2>1 DEF Kept
  <2>3. dir = home => t.by["initramfs"] \in {0, emptied}
    BY <1>a DEF Dirs, Trees
  <2> QED BY <1>2, <1>k, <2>1, <2>2, <2>3
<1> QED BY <1>1, <1>2 DEF Coupled

LEMMA IsoLeft ==
  ASSUME IsoKept, iso' = iso, unsummed \subseteq unsummed'
  PROVE  IsoKept'
<1>1. CASE iso.state = "ready"
  <2>1. Kept(iso.tree, unsummed')
    BY <1>1, KeptLonger DEF IsoKept
  <2>2. Kept(iso.tree, unsummed)'
    BY <2>1 DEF Kept, Packed, SumOf, BakedOf
  <2> QED BY <1>1, <2>2 DEF IsoKept
<1>2. CASE iso.state # "ready"
  BY <1>2 DEF IsoKept
<1> QED BY <1>1, <1>2

LEMMA IsoStep ==
  ASSUME TypeOK, Coupled, Dirs, IsoKept, [Next]_vars
  PROVE  IsoKept'
<1>1. CASE iso' = iso /\ unsummed \subseteq unsummed'
  BY <1>1, IsoLeft
<1>2. CASE MakeIso
  <2>1. at = "iso" /\ iso' = Packaged /\ unsummed' = unsummed
    BY <1>2 DEF MakeIso, history
  <2>2. /\ Packaged.name = IF kind = "netinstall" THEN "netinstall" ELSE "live"
        /\ Packaged.emptied = emptied /\ Packaged.moved = (dir # home)
        /\ Packaged.tree = tree[dir]
    BY DEF Packaged
  <2>3. /\ Kept(iso'.tree, unsummed') /\ iso'.tree.by["bios"] # 0
        /\ iso'.tree.profile = iso'.name
        /\ iso'.name = "live" => iso'.tree.by["squashfs"] # 0
        /\ iso'.tree.by["initramfs"] = iso'.emptied \/ iso'.moved
    BY <2>1, <2>2, PackagedKept
  <2>4. Kept(iso.tree, unsummed)'
    BY <2>3 DEF Kept, Packed, SumOf, BakedOf
  <2> QED BY <2>3, <2>4 DEF IsoKept
<1>3. CASE Stop
  <2>1. CASE at = "iso"
    BY <1>3, <2>1 DEF Stop, TornIso, NoIso, IsoKept
  <2>2. CASE at # "iso"
    BY <1>3, <2>2, IsoLeft DEF Stop, history
  <2> QED BY <2>1, <2>2
<1> QED
  BY <1>1, <1>2, <1>3
  DEF Next, Step, vars, buildVars, history, Begin, Wipe, MakeSquashfs, SumSquashfs, CopyKernel,
      PopulateExtra, Mkinitramfs, MkinitramfsDone, WriteMenu, MakeEfi, MakeBios, CheckArtifacts,
      VerifySysroot, ReportSysroot

-----------------------------------------------------------------------------
(* The invariant. *)

LEMMA IInvInit == Init => IInv
<1> SUFFICES ASSUME Init PROVE IInv
  OBVIOUS
<1>1. /\ NoImage \in Image /\ NoTree \in Tree /\ << >> \in Seq(Hooks)
      /\ \A a \in Artifacts : NoTree.by[a] = 0
  BY EmptyTypes, EmptySequence DEF NoTree
<1>2. NoIso \in [state : IsoStates, name : Makes, emptied : Nat, moved : BOOLEAN, tree : Tree]
  BY <1>1 DEF NoIso, IsoStates, Makes
<1>3. MkTypeOK
  <2>1. 0 \in 0..MaxFaults
    BY MaxFaultsAssumption
  <2>2. left \in Seq(Hooks)
    BY <1>1 DEF Init
  <2> QED BY <1>1, <2>1, <2>2 DEF Init, MkTypeOK, MkPlaces, Profiles
<1>4. TypeOK
  BY <1>1, <1>2, <1>3, RunsAssumption DEF Init, TypeOK, Kinds, Places
<1>5. TreeAccounts /\ ImageAccounts /\ SumTravels /\ Coupled /\ OwnTree /\ Checked
  BY DEF Init, TreeAccounts, ImageAccounts, SumTravels, Coupled, OwnTree, Checked, Staged,
         Building
<1>6. Kept(NoTree, unsummed)
  BY <1>1 DEF Kept, Artifacts
<1>7. Trees
  BY <1>1, <1>6 DEF Init, Trees
<1>8. IsoKept
  BY DEF Init, NoIso, IsoKept
<1> QED BY <1>4, <1>5, <1>7, <1>8 DEF IInv

LEMMA IInvStep == IInv /\ [Next]_vars => IInv'
<1> SUFFICES ASSUME IInv, [Next]_vars PROVE IInv'
  OBVIOUS
<1>1. TypeOK'
  BY TypesKept DEF IInv
<1>2. TreeAccounts' /\ ImageAccounts' /\ SumTravels'
  BY MkKept DEF IInv
<1>3. Coupled'
  BY CoupledKept DEF IInv
<1>4. OwnTree' /\ Trees' /\ Checked'
  BY DirsKept DEF IInv, Dirs
<1>5. IsoKept'
  BY IsoStep DEF IInv, Dirs
<1> QED BY <1>1, <1>2, <1>3, <1>4, <1>5 DEF IInv

LEMMA IInvAlways == Spec => []IInv
BY IInvInit, IInvStep, PTL DEF Spec

-----------------------------------------------------------------------------
(* Type correctness: build.sh and mkinitramfs are always at one of their   *)
(* places, with a tree, an image and an ISO of the shapes the model gives  *)
(* them.                                                                   *)
THEOREM TypeCorrect == Spec => []TypeOK
<1>1. IInv => TypeOK
  BY DEF IInv
<1> QED BY <1>1, IInvAlways, PTL

(* Whatever runs are stopped where, and in whichever directory they work,  *)
(* an ISO that is finished holds the files of one run, whole up to         *)
(* eltorito.img, of the profile it is named for (build.sh:217-228,         *)
(* 503-509).                                                               *)
THEOREM IsoOfOneRun == Spec => []OneGeneration
<1>1. IInv => OneGeneration
  BY DEF IInv, IsoKept, Kept, OneGeneration
<1> QED BY <1>1, IInvAlways, PTL

(* The sum that travels in the initramfs and the one on the medium are of  *)
(* the squashfs beside them, or a failed command that nobody looked at     *)
(* left them empty (build.sh:618, 841-842; 50-live-config:7-8).            *)
THEOREM SumIsOfTheSquashfs == Spec => []SumChain
<1>1. IInv => SumChain
  BY DEF IInv, IsoKept, Kept, Packed, SumOf, BakedOf, SumChain
<1> QED BY <1>1, IInvAlways, PTL

(* Only what failed is missing: the order of the steps of mkinitramfs, its *)
(* early exits and the tree it loses in copy() never cost an image a part  *)
(* that did not fail (mkinitramfs:202-216, 501-539).                       *)
THEOREM OnlyFailuresAreMissing == Spec => []LacksOnlyMissed
<1> SUFFICES ASSUME IInv PROVE LacksOnlyMissed
  BY IInvAlways, PTL
<1>1. iso.state = "ready" => Needed(iso.tree.profile) \ iso.tree.image.parts \subseteq iso.tree.missed
  BY DEF IInv, IsoKept, Kept, Packed
<1>2. mk = "exit 0" => Needed(profile) \ img.parts \subseteq missed
  BY DEF IInv, ImageAccounts, Lacks
<1>3. at = "report" => profile = "embedded" /\ mk = "exit 0" /\ {"init", "55-ssh-hostkeys"} \subseteq img.parts
  BY DEF IInv, Coupled, Makes
<1> QED BY <1>1, <1>2, <1>3 DEF LacksOnlyMissed

(* An ISO holds the last image that was begun, unless the work directory   *)
(* was chosen elsewhere in between (build.sh:69-93, 217-228, 501-509).     *)
THEOREM IsoIsTheLatest == Spec => []LatestUnlessMoved
<1>1. IInv => LatestUnlessMoved
  BY DEF IInv, IsoKept, LatestUnlessMoved
<1> QED BY <1>1, IInvAlways, PTL

=============================================================================
