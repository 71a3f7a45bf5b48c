---------------------------- MODULE MCLiveBoot ----------------------------
(***************************************************************************)
(* LiveBoot with an optical drive and a stick that may hold a system or an *)
(* ISO file of one; two passes.                                            *)
(***************************************************************************)
EXTENDS LiveBoot

ASSUME LoopsAreEnough == EnoughLoops

MCDevices == {"sr0", "sda1"}
MCGlob    == <<"sr0", "sda1">>
MCIsos    == {"a.iso"}

(* The default entry of the boot menu, each option switched on its own, and *)
(* zram on the boundaries of its sizing.                                    *)
Default == [zram |-> FALSE, neoconfig |-> FALSE, dbg |-> 0, hashfile |-> TRUE,
            mem |-> 1000000, init |-> "systemd"]

MCBoots ==
  {[Default EXCEPT !.init = i] : i \in {"systemd", "sysvinit", "none"}}
  \cup {[Default EXCEPT !.hashfile = FALSE]}
  \cup {[Default EXCEPT !.dbg = n, !.neoconfig = TRUE, !.zram = TRUE] : n \in 0..3}
  \cup {[Default EXCEPT !.zram = TRUE, !.mem = m] :
           m \in {262143, 262144, 4194303, 4194304, 8388608}}

Blank   == [fs |-> FALSE, squash |-> "absent",  sum |-> "absent"]
Data    == [fs |-> TRUE,  squash |-> "absent",  sum |-> "absent"]
Boot    == [fs |-> TRUE,  squash |-> "intact",  sum |-> "match"]
Corrupt == [fs |-> TRUE,  squash |-> "altered", sum |-> "match"]

MCArrangements ==
  { [on    |-> [x \in MCDevices \cup MCIsos |->
                  CASE x = "sr0" -> r [] x = "sda1" -> s [] x = "a.iso" -> a],
     files |-> [d \in MCDevices |-> IF d = "sda1" THEN <<"a.iso">> ELSE << >>],
     ungreppable |-> {}] :
    r \in {Blank, Corrupt}, s \in {Data, Boot}, a \in {Boot, Corrupt} }

=============================================================================
