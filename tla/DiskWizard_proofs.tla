-------------------------- MODULE DiskWizard_proofs --------------------------
(***************************************************************************)
(* Theorems about DiskWizard, for any number of runs of the wizard.        *)
(***************************************************************************)
EXTENDS DiskWizard, SequenceTheorems, TLAPS

AfterWrite == {"detect", "confirm", "format", "mkswap", "mount", "swapon", "result"}

(* What was asked and confirmed, at every stage of a run.                  *)
Consent ==
  /\ pc \in {"start", "ask", "write"} => ~written
  /\ pc \in {"start", "ask", "write", "detect", "confirm", "format"} => formatted = {}
  /\ pc = "write" => Single \/ confirmed
  /\ pc = "detect" => Single
  /\ pc = "confirm" /\ written => Single
  /\ pc \in {"format", "mkswap", "mount", "swapon", "result"} => confirmed
  /\ ConsentFirst

(* What has become of root.                                                *)
RootMade ==
  /\ content = [n \in Numbers |-> content[n]]
  /\ pc \in {"mkswap", "mount", "swapon", "result"} =>
       root_part \in Name /\ root_part.n \in formatted
  /\ pc = "mkswap" => content[root_part.n] = "fs"
  /\ pc \in {"swapon", "result"} =>
       root_part.n \in mounts /\ content[root_part.n] \in {"fs", "both"}
  /\ pc = "mount" => content[root_part.n] \in {"fs", "both", "swap"}

(* Which table the kernel has.                                             *)
Known ==
  pc \in AfterWrite /\ written => known = tables \/ InUse \ formatted # {}

Parts ==
  /\ root_part \in Name \cup {NoPart} /\ swap_part \in Name \cup {NoPart}
  /\ pc = "detect" => root_part \in Name

WizardInv == Consent /\ RootMade /\ Known /\ Parts

LEMMA NumberOfName == ASSUME NEW x \in Name PROVE x.n \in Numbers
BY DEF Name

LEMMA NamedIsName == ASSUME NEW n \in Numbers PROVE Named(n) \in Name
BY DEF Named, Name

LEMMA LastRequest ==
  LET s == Requests("rest", << >>)
  IN s # << >> /\ s[Len(s)] = "rest"
<1> DEFINE front == (IF efi THEN << "sized" >> ELSE << >>) \o << "rest" >>
<1>1. front \in Seq({"sized", "rest"}) /\ Len(front) > 0 /\ front[Len(front)] = "rest"
  <2>1. CASE efi BY <2>1
  <2>2. CASE ~efi BY <2>2
  <2>3. QED BY <2>1, <2>2
<1>2. front \o << >> = front
  BY <1>1, ConcatEmptySeq
<1>3. Requests("rest", << >>) = front
  BY <1>2 DEF Requests
<1>4. QED BY <1>1, <1>3

LEMMA SameQuestions ==
  ASSUME UNCHANGED asked PROVE Single' <=> Single
BY DEF asked, Single

LEMMA WizardInvInit == Init => WizardInv
BY DEF Init, FreshShell, WizardInv, Consent, ConsentFirst, RootMade, Known, Parts, AfterWrite

-----------------------------------------------------------------------------
LEMMA AskManualKeeps == ASSUME WizardInv, AskManual PROVE WizardInv'
<1>1. PICK root \in {"sized", "rest"}, size \in {"sized", "rest"} :
        /\ swap' \in BOOLEAN
        /\ script' = Requests(root, IF swap' THEN << size >> ELSE << >>)
        /\ pc' = IF ~swap' /\ root = "rest" THEN "write" ELSE "confirm"
  BY DEF AskManual
<1>2. ~written' /\ formatted' = {}
  BY DEF AskManual, past, WizardInv, Consent
<1>3. ASSUME pc' = "write" PROVE Single'
  <2>1. ~swap' /\ root = "rest" BY <1>1, <1>3
  <2>2. script' = Requests("rest", << >>) BY <1>1, <2>1
  <2>3. script' # << >> /\ script'[Len(script')] = "rest" BY <2>2, LastRequest
  <2>4. QED BY <2>1, <2>3 DEF Single, AskManual
<1>4. pc' \in {"write", "confirm"} BY <1>1
<1>5. Consent' BY <1>2, <1>3, <1>4 DEF Consent, ConsentFirst
<1>6. RootMade' BY <1>4 DEF WizardInv, RootMade, AskManual, kernel
<1>7. Known' BY <1>2 DEF Known
<1>8. Parts' BY <1>4 DEF WizardInv, Parts, AskManual, names
<1>9. QED BY <1>5, <1>6, <1>7, <1>8 DEF WizardInv

LEMMA RunFdiskKeeps == ASSUME WizardInv, RunFdisk PROVE WizardInv'
<1>1. Single' <=> Single
  BY SameQuestions DEF RunFdisk
<1>2. formatted' = {} /\ confirmed' = confirmed /\ (Single \/ confirmed)
  BY DEF RunFdisk, WizardInv, Consent
<1>3. pc' = IF Single THEN "detect" ELSE "format"
  BY DEF RunFdisk
<1>4. Consent'
  BY <1>1, <1>2, <1>3 DEF Consent, ConsentFirst
<1>5. content' = [n \in Numbers |-> content'[n]]
  BY DEF RunFdisk, Reread, WizardInv, RootMade
<1>6. RootMade'
  BY <1>3, <1>5 DEF RootMade
<1>7. ASSUME written' PROVE known' = tables' \/ InUse' \ formatted' # {}
  <2>1. InUse' = InUse BY DEF RunFdisk, InUse
  <2>2. ~written BY DEF RunFdisk, WizardInv, Consent
  <2>3. CASE InUse = {} BY <1>7, <2>2, <2>3 DEF RunFdisk, Reread
  <2>4. CASE InUse # {} BY <1>2, <2>1, <2>4
  <2>5. QED BY <2>3, <2>4
<1>8. Known' BY <1>7 DEF Known
<1>9. Parts'
  <2>1. RootNumber \in Numbers /\ RootNumber + 1 \in Numbers BY DEF RootNumber, Numbers
  <2>2. QED BY <2>1, NamedIsName DEF RunFdisk, SetParts, Parts
<1>10. QED BY <1>4, <1>6, <1>8, <1>9 DEF WizardInv

LEMMA DetectKeeps == ASSUME WizardInv, Detect PROVE WizardInv'
<1>1. Single' <=> Single
  BY SameQuestions DEF Detect
<1>2. pc' \in {"confirm", "detect", "dead"} /\ UNCHANGED past
  BY DEF Detect
<1>3. Consent' BY <1>1, <1>2 DEF Consent, ConsentFirst, WizardInv, Detect, past
<1>4. RootMade' BY <1>2 DEF RootMade, WizardInv, Detect, kernel
<1>5. Known' BY <1>2 DEF Known, WizardInv, Detect, kernel, past, AfterWrite, InUse
<1>6. Parts'
  <2>1. root_part \in Name BY DEF Detect, WizardInv, Parts
  <2>2. [root_part EXCEPT !.p = TRUE] \in Name BY <2>1 DEF Name
  <2>3. root_part' \in Name BY <2>1, <2>2 DEF Detect
  <2>4. QED BY <2>3 DEF Detect, WizardInv, Parts
<1>7. QED BY <1>3, <1>4, <1>5, <1>6 DEF WizardInv

LEMMA ConfirmKeeps == ASSUME WizardInv, Confirm PROVE WizardInv'
<1>1. confirmed' /\ UNCHANGED <<written, formatted, kernel, names>>
  BY DEF Confirm
<1>2. pc' \in {"format", "write"} /\ (pc' = "write" => ~Single)
  BY DEF Confirm
<1>3. Single' <=> Single
  BY SameQuestions DEF Confirm
<1>4. UNCHANGED <<content, mounts, known, tables, root_part, swap_part>> /\ InUse' = InUse
  BY <1>1 DEF kernel, names, InUse
<1>5. formatted' = {} /\ (written => Single)
  BY <1>1 DEF Confirm, WizardInv, Consent
<1>6. Consent' BY <1>1, <1>2, <1>3, <1>5 DEF Consent, ConsentFirst, Confirm, WizardInv
<1>7. RootMade' BY <1>2, <1>4 DEF RootMade, WizardInv
<1>8. Known' BY <1>1, <1>2, <1>4 DEF Known, WizardInv, AfterWrite, Confirm
<1>9. Parts' BY <1>4, <1>2 DEF Parts, WizardInv, Confirm
<1>10. QED BY <1>6, <1>7, <1>8, <1>9 DEF WizardInv

LEMMA FormatRootKeeps == ASSUME WizardInv, FormatRoot PROVE WizardInv'
<1>2. Single' <=> Single
  BY SameQuestions DEF FormatRoot
<1>3. CASE pc' = "dead" /\ UNCHANGED <<content, formatted>>
  BY <1>2, <1>3 DEF FormatRoot, WizardInv, Consent, ConsentFirst, RootMade, Known, Parts,
     AfterWrite, names
<1>4. CASE /\ IsBlock(root_part) /\ root_part.n \notin InUse
           /\ content' = [content EXCEPT ![root_part.n] = "fs"]
           /\ formatted' = formatted \cup {root_part.n}
           /\ pc' = "mkswap"
  <2>0. root_part \in Name /\ root_part.n \in Numbers
    BY <1>4, NumberOfName DEF WizardInv, Parts, IsBlock
  <2>1. Consent' BY <1>2, <1>4 DEF FormatRoot, WizardInv, Consent, ConsentFirst
  <2>2. RootMade' BY <2>0, <1>4 DEF FormatRoot, WizardInv, RootMade, names
  <2>3. InUse' \ formatted' = InUse \ formatted BY <1>4 DEF FormatRoot, InUse
  <2>4. Known' BY <1>4, <2>3 DEF FormatRoot, WizardInv, Known, AfterWrite
  <2>5. Parts' BY <1>4 DEF FormatRoot, WizardInv, Parts, names
  <2>6. QED BY <2>1, <2>2, <2>4, <2>5 DEF WizardInv
<1>5. QED BY <1>3, <1>4 DEF FormatRoot

LEMMA FormatSwapKeeps == ASSUME WizardInv, FormatSwap PROVE WizardInv'
<1>1. root_part \in Name /\ root_part.n \in Numbers /\ content[root_part.n] = "fs"
  BY NumberOfName DEF FormatSwap, WizardInv, RootMade
<1>2. Single' <=> Single
  BY SameQuestions DEF FormatSwap
<1>3. pc' = "mount" /\ UNCHANGED names
  BY DEF FormatSwap
<1>4. CASE UNCHANGED <<content, formatted>>
  BY <1>1, <1>2, <1>4 DEF FormatSwap, WizardInv, Consent, ConsentFirst, RootMade, Known, Parts,
     AfterWrite, names, InUse
<1>5. CASE ~UNCHANGED <<content, formatted>>
  <2>1. PICK c \in {"swap", "both"} :
          /\ swap_part.n \notin InUse
          /\ content' = [content EXCEPT ![swap_part.n] = c]
          /\ formatted' = formatted \cup {swap_part.n}
    BY <1>5 DEF FormatSwap
  <2>2. Consent' BY <1>2, <2>1 DEF FormatSwap, WizardInv, Consent, ConsentFirst
  <2>3. content' = [n \in Numbers |-> content'[n]] BY <2>1 DEF WizardInv, RootMade
  <2>4. content'[root_part.n] \in {"fs", "swap", "both"}
    BY <1>1, <2>1 DEF WizardInv, RootMade
  <2>5. RootMade' BY <1>1, <1>3, <2>1, <2>3, <2>4 DEF WizardInv, RootMade, FormatSwap, names
  <2>6. InUse' \ formatted' = InUse \ formatted BY <2>1 DEF FormatSwap, InUse
  <2>7. Known' BY <2>6 DEF FormatSwap, WizardInv, Known, AfterWrite
  <2>8. Parts' BY <1>3 DEF WizardInv, Parts, names
  <2>9. QED BY <2>2, <2>5, <2>7, <2>8 DEF WizardInv
<1>6. QED BY <1>4, <1>5

LEMMA MountRootKeeps == ASSUME WizardInv, MountRoot PROVE WizardInv'
<1>1. Single' <=> Single
  BY SameQuestions DEF MountRoot
<1>2. UNCHANGED <<content, known, tables, names, past>> /\ pc' \in {"swapon", "dead"}
  BY DEF MountRoot
<1>3. InUse \subseteq InUse'
  BY DEF MountRoot, InUse
<1>4. Consent' BY <1>1, <1>2 DEF MountRoot, WizardInv, Consent, ConsentFirst, past
<1>5. RootMade' BY <1>2 DEF MountRoot, WizardInv, RootMade, names, past
<1>6. Known' BY <1>2, <1>3 DEF MountRoot, WizardInv, Known, AfterWrite, past
<1>7. Parts' BY <1>2 DEF WizardInv, Parts, names
<1>8. QED BY <1>4, <1>5, <1>6, <1>7 DEF WizardInv

LEMMA SwapOnKeeps == ASSUME WizardInv, SwapOn PROVE WizardInv'
<1>1. Single' <=> Single
  BY SameQuestions DEF SwapOn
<1>2. UNCHANGED <<content, mounts, known, tables, names, past>> /\ pc' = "result"
  BY DEF SwapOn
<1>3. InUse \subseteq InUse'
  BY DEF SwapOn, InUse
<1>4. Consent' BY <1>1, <1>2 DEF SwapOn, WizardInv, Consent, ConsentFirst, past
<1>5. RootMade' BY <1>2 DEF SwapOn, WizardInv, RootMade, names, past
<1>6. Known' BY <1>2, <1>3 DEF SwapOn, WizardInv, Known, AfterWrite, past
<1>7. Parts' BY <1>2 DEF WizardInv, Parts, names
<1>8. QED BY <1>4, <1>5, <1>6, <1>7 DEF WizardInv

LEMMA EndKeeps ==
  ASSUME WizardInv, Leave \/ Quit \/ Umount \/ Reboot PROVE WizardInv'
<1>1. UNCHANGED <<asked, names, past>> /\ pc' \in {"done", "dead"}
  BY DEF Leave, Quit, Umount, Reboot
<1>2. Single' <=> Single
  BY <1>1, SameQuestions
<1>3. content' = [n \in Numbers |-> content'[n]]
  BY DEF Leave, Quit, Umount, Reboot, Reread, kernel, WizardInv, RootMade
<1>4. QED
  BY <1>1, <1>2, <1>3
  DEF WizardInv, Consent, ConsentFirst, RootMade, Known, Parts, AfterWrite, names, past

LEMMA WizardInvKept == ASSUME WizardInv, [Next]_vars PROVE WizardInv'
<1>1. CASE Run
  BY <1>1 DEF Run, kernel, WizardInv, Consent, ConsentFirst, RootMade, Known, Parts, AfterWrite
<1>2. CASE Choose
  BY <1>2 DEF Choose, kernel, names, past, WizardInv, Consent, ConsentFirst, RootMade, Known,
     Parts, AfterWrite
<1>3. CASE AskAuto
  BY <1>3 DEF AskAuto, kernel, names, past, WizardInv, Consent, ConsentFirst, RootMade, Known,
     Parts, AfterWrite
<1>4. CASE AskManual BY <1>4, AskManualKeeps
<1>5. CASE Confirm BY <1>5, ConfirmKeeps
<1>6. CASE RunFdisk BY <1>6, RunFdiskKeeps
<1>7. CASE Detect BY <1>7, DetectKeeps
<1>8. CASE FormatRoot BY <1>8, FormatRootKeeps
<1>9. CASE FormatSwap BY <1>9, FormatSwapKeeps
<1>10. CASE MountRoot BY <1>10, MountRootKeeps
<1>11. CASE SwapOn BY <1>11, SwapOnKeeps
<1>12. CASE Leave \/ Quit \/ Umount \/ Reboot BY <1>12, EndKeeps
<1>13. CASE NodesAppear \/ UNCHANGED vars
  <2>1. UNCHANGED <<content, mounts, swaps, known, tables, pc, asked, names, past>>
    BY <1>13 DEF NodesAppear, vars, kernel
  <2>2. Single' <=> Single BY <2>1, SameQuestions
  <2>3. QED
    BY <2>1, <2>2 DEF WizardInv, Consent, ConsentFirst, RootMade, Known, Parts, AfterWrite,
       InUse, names, past
<1>14. QED
  BY <1>1, <1>2, <1>3, <1>4, <1>5, <1>6, <1>7, <1>8, <1>9, <1>10, <1>11, <1>12, <1>13
  DEF Next, Wizard

LEMMA WizardInvHolds == Spec => []WizardInv
BY WizardInvInit, WizardInvKept, PTL DEF Spec

-----------------------------------------------------------------------------
(* disk-wizard.sh:146-161: whatever is answered, and however often the     *)
(* wizard is run, nothing is formatted before YES.                         *)
THEOREM AsksBeforeFormatting == Spec => []ConsentFirst
<1>1. WizardInv => ConsentFirst BY DEF WizardInv, Consent
<1>2. QED BY <1>1, WizardInvHolds, PTL

(* disk-wizard.sh:374-420: the result is shown only of a root that this    *)
(* run formatted and mounted.                                              *)
THEOREM ResultsAreUsable == Spec => []ResultIsUsable
<1>1. WizardInv => ResultIsUsable BY DEF WizardInv, RootMade, ResultIsUsable
<1>2. QED BY <1>1, WizardInvHolds, PTL

(* disk-wizard.sh:163-167: a result lies on a table the kernel no longer   *)
(* has only when something else of the disk was in use.                    *)
THEOREM ResultsAreOnNewTable == Spec => []ResultOnNewTable
<1>1. WizardInv => ResultOnNewTable BY DEF WizardInv, Known, ResultOnNewTable, AfterWrite
<1>2. QED BY <1>1, WizardInvHolds, PTL

=============================================================================
