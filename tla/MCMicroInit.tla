---------------------------- MODULE MCMicroInit ----------------------------
(* MicroInit with every marker an image can carry: the one build.sh bakes, *)
(* an empty file, the names of the other profiles and one no profile has.  *)
EXTENDS MicroInit

MCMarkers == {"", "live", "netinstall", "disk", "embedded", "rescue"}
MCNoMarker == "no marker"

=============================================================================
