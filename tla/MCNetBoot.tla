----------------------------- MODULE MCNetBoot -----------------------------
(* NetBoot with the images build.sh makes: a netinstall one on a machine   *)
(* with WiFi, between two networks one of whose names has the other's as   *)
(* its first word, and embedded sysroots of either applet list on wired    *)
(* boards, one completed with accounts of its own.                         *)
EXTENDS NetBoot

MCNets   == {"cafe", "cafe guest"}
MCSpoken == MCNets
MCWords  == [n \in MCNets |-> {"cafe"}]
MCWired  == {"eth0"}

Netinstall == [profile |-> "netinstall", store |-> "ram", applets |-> TRUE,
               wificonf |-> TRUE, iw |-> TRUE, wlan |-> TRUE,
               passwd |-> "root", shadow |-> "neonatox", baked |-> FALSE]
Embedded   == [profile |-> "embedded", store |-> "disk", applets |-> TRUE,
               wificonf |-> TRUE, iw |-> FALSE, wlan |-> FALSE,
               passwd |-> "absent", shadow |-> "neonatox", baked |-> TRUE]

MCImages ==
  {Netinstall,
   Embedded,
   [Embedded EXCEPT !.applets = FALSE, !.shadow = "absent", !.wificonf = FALSE],
   [Embedded EXCEPT !.passwd = "other", !.shadow = "other", !.baked = FALSE]}

=============================================================================
