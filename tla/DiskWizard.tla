----------------------------- MODULE DiskWizard -----------------------------
(***************************************************************************)
(* initramfs/disk-wizard.sh: a partition table is written, partitions are  *)
(* formatted, root is mounted for the installer.  The wizard looks at the  *)
(* status of mkfs and of mount and at nothing else, so most of what is     *)
(* here is how far the kernel's idea of the disk, the disk, and the names  *)
(* the wizard computes may come apart, over several runs and reboots.      *)
(*                                                                         *)
(* Of fdisk, mkfs, mkswap, mount and swapon the model knows what the       *)
(* wizard relies on: they may fail, and they refuse what is in use.        *)
(***************************************************************************)
EXTENDS Naturals, Sequences, FiniteSets

CONSTANTS
  MaxRuns,     \* times the wizard is started
  NoPart       \* an empty SWAP_PART

Numbers  == 1..3
Contents == {"junk", "oldfs", "fs", "swap", "both"}   \* both: a file system under
                                                      \* the header of a swap
(* A name: the disk's with a number, or with a p and a number.             *)
Name == [n : Numbers, p : BOOLEAN]

ASSUME WizardAssumption == MaxRuns \in Nat /\ NoPart \notin Name

VARIABLES
  (* the disk chosen, and the kernel *)
  prefixed,    \* its partitions carry a p: NVMe, SD cards
  table,       \* the partitions of the table on the disk
  tables,      \* how many tables were written
  known,       \* the table the kernel last read
  nodes,       \* the partitions it made nodes for
  content,     \* what they hold
  mounts, swaps,
  (* the wizard *)
  pc, runs, scheme, efi, swap,
  script,      \* the sizes of the partitions fdisk is asked for
  root_part, swap_part,
  (* history of this run *)
  confirmed, written, formatted

kernel == <<prefixed, table, tables, known, nodes, content, mounts, swaps>>
asked  == <<runs, scheme, efi, swap, script>>
names  == <<root_part, swap_part>>
past   == <<confirmed, written, formatted>>
vars   == <<kernel, pc, asked, names, past>>

TypeOK ==
  /\ prefixed \in BOOLEAN
  /\ table \subseteq Numbers /\ nodes \subseteq Numbers
  /\ tables \in 0..MaxRuns /\ known \in 0..tables
  /\ content \in [Numbers -> Contents]
  /\ mounts \subseteq Numbers /\ swaps \subseteq Numbers
  /\ pc \in {"start", "ask", "confirm", "write", "detect", "format", "mkswap",
             "mount", "swapon", "result", "done", "dead"}
  /\ runs \in 0..MaxRuns /\ scheme \in {"auto", "manual"}
  /\ efi \in BOOLEAN /\ swap \in BOOLEAN
  /\ script \in Seq({"sized", "rest"}) /\ Len(script) <= 3
  /\ root_part \in Name \cup {NoPart} /\ swap_part \in Name \cup {NoPart}
  /\ confirmed \in BOOLEAN /\ written \in BOOLEAN /\ formatted \subseteq Numbers

FreshShell ==
  /\ scheme = "auto" /\ efi = FALSE /\ swap = FALSE /\ script = << >>
  /\ root_part = NoPart /\ swap_part = NoPart
  /\ confirmed = FALSE /\ written = FALSE /\ formatted = {}

Init ==
  /\ prefixed \in BOOLEAN
  /\ table \in {1..k : k \in 0..3}
  /\ tables = 0 /\ known = 0 /\ nodes = table
  /\ content \in [Numbers -> {"junk", "oldfs"}]
  /\ mounts = {} /\ swaps = {}
  /\ pc = "done" /\ runs = 0
  /\ FreshShell

-----------------------------------------------------------------------------
IsBlock(part) == part # NoPart /\ part.p = prefixed /\ part.n \in nodes

InUse == mounts \cup swaps

Named(n) == [n |-> n, p |-> FALSE]

RootNumber == IF efi THEN 2 ELSE 1

(* The branch of lines 295-319: root takes the whole disk.                 *)
Single == scheme = "manual" /\ ~swap /\ script # << >> /\ script[Len(script)] = "rest"

(* fdisk makes one partition after another until one has taken the rest.   *)
Made(s) == {k \in DOMAIN s : \A j \in 1..(k - 1) : s[j] = "sized"}

(* A table read anew: its partitions may begin where old ones did.         *)
Reread ==
  /\ known' = tables'
  /\ content' \in [Numbers -> {"junk", "oldfs"}]

-----------------------------------------------------------------------------
(* main, up to the scheme: nothing is changed by it.                       *)
Run ==
  /\ pc \in {"done", "dead"} /\ runs < MaxRuns
  /\ runs' = runs + 1
  /\ scheme' = "auto" /\ efi' = FALSE /\ swap' = FALSE /\ script' = << >>
  /\ root_part' = NoPart /\ swap_part' = NoPart
  /\ confirmed' = FALSE /\ written' = FALSE /\ formatted' = {}
  /\ pc' = "start"
  /\ UNCHANGED kernel

Choose ==
  /\ pc = "start"
  /\ efi' \in BOOLEAN /\ scheme' \in {"auto", "manual"}
  /\ pc' = "ask"
  /\ UNCHANGED <<kernel, runs, swap, script, names, past>>

Requests(root, more) == (IF efi THEN << "sized" >> ELSE << >>) \o << root >> \o more

(* ROOT_SIZE is never asked for: root takes the rest, with a swap or not.  *)
AskAuto ==
  /\ pc = "ask" /\ scheme = "auto"
  /\ swap' \in BOOLEAN
  /\ script' = Requests("rest", IF swap' THEN << "sized" >> ELSE << >>)
  /\ pc' = "confirm"
  /\ UNCHANGED <<kernel, runs, scheme, efi, names, past>>

AskManual ==
  /\ pc = "ask" /\ scheme = "manual"
  /\ \E root \in {"sized", "rest"}, size \in {"sized", "rest"} :
       /\ swap' \in BOOLEAN
       /\ script' = Requests(root, IF swap' THEN << size >> ELSE << >>)
       /\ pc' = IF ~swap' /\ root = "rest" THEN "write" ELSE "confirm"
  /\ UNCHANGED <<kernel, runs, scheme, efi, names, past>>

(* Anything but YES ends the wizard, which Quit does.                      *)
Confirm ==
  /\ pc = "confirm"
  /\ confirmed' = TRUE
  /\ pc' = IF Single THEN "format" ELSE "write"
  /\ UNCHANGED <<kernel, asked, names, written, formatted>>

SetParts ==
  /\ root_part' = Named(RootNumber)
  /\ swap_part' = IF ~swap THEN NoPart
                  ELSE Named(IF scheme = "auto" THEN RootNumber + 1 ELSE RootNumber)

(* A faulty variant: the kernel is not told of the table.                  *)
RunFdiskQuietly ==
  /\ pc = "write"
  /\ \/ /\ tables' = tables + 1 /\ written' = TRUE
        /\ \E k \in 0..Len(script) : table' = Made(script) \cap 1..k
     \/ UNCHANGED <<tables, table, written>>
  /\ SetParts
  /\ pc' = IF Single THEN "detect" ELSE "format"
  /\ UNCHANGED <<prefixed, known, nodes, content, mounts, swaps, asked, confirmed, formatted>>

(* fdisk fails, or writes as many partitions as there is room for; the     *)
(* kernel reads the new table unless a partition is in use.  In the other  *)
(* schemes than the single one the wait for the nodes ends by itself, and  *)
(* what lines 265 and 272 store is read by nobody.                         *)
RunFdisk ==
  /\ pc = "write"
  /\ \/ /\ tables' = tables + 1 /\ written' = TRUE
        /\ \E k \in 0..Len(script) : table' = Made(script) \cap 1..k
        /\ IF InUse = {} THEN Reread /\ nodes' = {}
           ELSE UNCHANGED <<known, content, nodes>>
     \/ UNCHANGED <<tables, table, known, content, nodes, written>>
  /\ SetParts
  /\ pc' = IF Single THEN "detect" ELSE "format"
  /\ UNCHANGED <<prefixed, mounts, swaps, asked, confirmed, formatted>>

(* A faulty variant: without lines 311-317.                                *)
DetectThenFormat ==
  /\ pc = "detect"
  /\ \/ /\ IsBlock(root_part)
        /\ pc' = "format" /\ UNCHANGED root_part
     \/ /\ ~IsBlock(root_part)
        /\ root_part' = [root_part EXCEPT !.p = TRUE] /\ UNCHANGED pc
  /\ UNCHANGED <<kernel, asked, swap_part, past>>

(* wait_for_part in the single scheme, which does store the other name.    *)
Detect ==
  /\ pc = "detect"
  /\ \/ /\ IsBlock(root_part)
        /\ pc' = "confirm" /\ UNCHANGED root_part
     \/ /\ ~IsBlock(root_part) /\ prefixed /\ ~root_part.p
        /\ root_part' = [root_part EXCEPT !.p = TRUE] /\ UNCHANGED pc
     \/ /\ ~IsBlock(root_part) /\ (~prefixed \/ root_part.p)
        /\ pc' = "dead" /\ UNCHANGED root_part
  /\ UNCHANGED <<kernel, asked, swap_part, past>>

(* A faulty variant: the status of mkfs is not looked at.                  *)
FormatRootUnchecked ==
  /\ pc = "format"
  /\ \/ /\ IsBlock(root_part) /\ root_part.n \notin InUse
        /\ content' = [content EXCEPT ![root_part.n] = "fs"]
        /\ formatted' = formatted \cup {root_part.n}
     \/ UNCHANGED <<content, formatted>>
  /\ pc' = "mkswap"
  /\ UNCHANGED <<prefixed, table, tables, known, nodes, mounts, swaps, asked, names,
                 confirmed, written>>

FormatRoot ==
  /\ pc = "format"
  /\ \/ /\ IsBlock(root_part) /\ root_part.n \notin InUse
        /\ content' = [content EXCEPT ![root_part.n] = "fs"]
        /\ formatted' = formatted \cup {root_part.n}
        /\ pc' = "mkswap"
     \/ pc' = "dead" /\ UNCHANGED <<content, formatted>>
  /\ UNCHANGED <<prefixed, table, tables, known, nodes, mounts, swaps, asked, names,
                 confirmed, written>>

(* A failing mkswap is a warning.  Over root, as the manual scheme has it, *)
(* it destroys the file system or, where that begins further in, only      *)
(* writes its header before it.                                            *)
FormatSwap ==
  /\ pc = "mkswap"
  /\ \/ /\ IsBlock(swap_part) /\ swap_part.n \notin InUse
        /\ \E c \in {"swap", "both"} :
             /\ c = "both" => content[swap_part.n] \in {"fs", "both"}
             /\ content' = [content EXCEPT ![swap_part.n] = c]
        /\ formatted' = formatted \cup {swap_part.n}
     \/ UNCHANGED <<content, formatted>>
  /\ pc' = "mount"
  /\ UNCHANGED <<prefixed, table, tables, known, nodes, mounts, swaps, asked, names,
                 confirmed, written>>

MountRoot ==
  /\ pc = "mount"
  /\ \/ /\ IsBlock(root_part) /\ content[root_part.n] \in {"oldfs", "fs", "both"}
        /\ mounts' = mounts \cup {root_part.n}
        /\ pc' = "swapon"
     \/ pc' = "dead" /\ UNCHANGED mounts
  /\ UNCHANGED <<prefixed, table, tables, known, nodes, content, swaps, asked, names, past>>

SwapOn ==
  /\ pc = "swapon"
  /\ \/ /\ IsBlock(swap_part) /\ swap_part.n \notin InUse
        /\ content[swap_part.n] \in {"swap", "both"}
        /\ swaps' = swaps \cup {swap_part.n}
     \/ UNCHANGED swaps
  /\ pc' = "result"
  /\ UNCHANGED <<prefixed, table, tables, known, nodes, content, mounts, asked, names, past>>

(* `reboot -f` is declined.                                                *)
Leave ==
  /\ pc = "result"
  /\ pc' = "done"
  /\ UNCHANGED <<kernel, asked, names, past>>

(* die at a question, a closed terminal, ^C.                               *)
Quit ==
  /\ pc \notin {"done", "dead"}
  /\ pc' = "dead"
  /\ UNCHANGED <<kernel, asked, names, past>>

-----------------------------------------------------------------------------
(* The kernel and the user.                                                *)

NodesAppear ==
  /\ known = tables /\ nodes # table
  /\ nodes' = table
  /\ UNCHANGED <<prefixed, table, tables, known, content, mounts, swaps, pc, asked, names, past>>

Umount ==
  /\ pc \in {"done", "dead"} /\ InUse # {}
  /\ mounts' = {} /\ swaps' = {}
  /\ UNCHANGED <<prefixed, table, tables, known, nodes, content, pc, asked, names, past>>

Reboot ==
  /\ pc \in {"result", "done", "dead"}
  /\ mounts' = {} /\ swaps' = {} /\ nodes' = {}
  /\ UNCHANGED tables
  /\ IF known = tables THEN UNCHANGED <<known, content>> ELSE Reread
  /\ pc' = "done"
  /\ UNCHANGED <<prefixed, table, asked, names, past>>

Wizard ==
  \/ Run \/ Choose \/ AskAuto \/ AskManual \/ Confirm \/ RunFdisk \/ Detect
  \/ FormatRoot \/ FormatSwap \/ MountRoot \/ SwapOn \/ Leave \/ Quit

Next == Wizard \/ NodesAppear \/ Umount \/ Reboot

Spec == Init /\ [][Next]_vars

-----------------------------------------------------------------------------
(* Properties *)

(* Nothing is formatted before YES was typed in this run, and but for the  *)
(* single partition of the manual scheme no table is written before it.    *)
ConsentFirst ==
  formatted # {} \/ (written /\ ~Single) => confirmed

(* "Ready for nhopkg installation!" is said only with the file system this *)
(* run made mounted, although the table, the nodes, the swap and its       *)
(* number are taken on trust and the disk may be full of older systems.    *)
ResultIsUsable ==
  pc = "result" =>
    /\ root_part.n \in mounts \cap formatted
    /\ content[root_part.n] \in {"fs", "both"}

(* What was formatted lies on the table that this run wrote, unless some   *)
(* other partition of the disk was in use: then the kernel keeps the old   *)
(* one, the wizard does not notice, and what it made is gone with the next *)
(* boot.                                                                   *)
ResultOnNewTable ==
  pc = "result" /\ written =>
    known = tables \/ InUse \ formatted # {}

(* What disk-wizard.sh:156-157 says before it waits for YES: "This will    *)
(* ERASE $DISK and create a new partition table", so it has not yet.       *)
WritesOnlyAfterYes == written => confirmed

=============================================================================
