---------------------------- MODULE MCLiveScan ----------------------------
(***************************************************************************)
(* LiveScan with an optical drive, a USB stick (the Ventoy candidate, with *)
(* two ISO files) and an SD card partition, which the globs list twice.    *)
(* There are just enough loop devices for the first visit to the stick.    *)
(***************************************************************************)
EXTENDS LiveScan

(* They suffice by the measure the theorems assume.                        *)
ASSUME LoopsAreEnough == EnoughLoops

MCDevices == {"sr0", "sda1", "mmcblk0p1"}
MCGlob    == <<"sr0", "sda1", "mmcblk0p1", "mmcblk0p1">>
MCIsos    == {"a.iso", "b.iso"}

Blank   == [fs |-> FALSE, squash |-> "absent",  sum |-> "absent"]
Data    == [fs |-> TRUE,  squash |-> "absent",  sum |-> "absent"]
Boot    == [fs |-> TRUE,  squash |-> "intact",  sum |-> "match"]
Corrupt == [fs |-> TRUE,  squash |-> "altered", sum |-> "match"]
Foreign == [fs |-> TRUE,  squash |-> "altered", sum |-> "other"]
NoSum   == [fs |-> TRUE,  squash |-> "intact",  sum |-> "absent"]
Stale   == [fs |-> TRUE,  squash |-> "intact",  sum |-> "other"]

(* A card with the good ISO file is looked at after a stick with a bad one. *)
MCTwoSticks ==
  { [on    |-> [x \in MCDevices \cup MCIsos |->
                  CASE x = "sr0" -> Blank [] x = "a.iso" -> a [] x = "b.iso" -> Boot
                    [] OTHER -> Data],
     files |-> [d \in MCDevices |->
                  CASE d = "sda1" -> <<"a.iso">> [] d = "mmcblk0p1" -> <<"b.iso">>
                    [] OTHER -> << >>],
     ungreppable |-> {}] :
    a \in {Corrupt, Foreign} }

(* a and b on the stick, one of them perhaps under a name grep misreads. *)
MCArrangements ==
  { [on    |-> [x \in MCDevices \cup MCIsos |->
                  CASE x = "sr0" -> r [] x = "sda1" -> s [] x = "mmcblk0p1" -> m
                    [] x = "a.iso" -> a [] x = "b.iso" -> b],
     files |-> [d \in MCDevices |->
                  IF d = "sda1" THEN <<"a.iso", "b.iso">> ELSE << >>],
     ungreppable |-> u] :
    r \in {Blank, NoSum}, s \in {Data, Stale}, m \in {Blank, Corrupt},
    a \in {Blank, Data, Boot, Corrupt}, b \in {Boot, Foreign},
    u \in SUBSET {"a.iso"} }
  \cup MCTwoSticks

=============================================================================
