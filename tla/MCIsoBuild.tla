---------------------------- MODULE MCIsoBuild ----------------------------
(* Three runs in either of two work directories, with one unnoticed        *)
(* failure in all of them.                                                 *)
EXTENDS IsoBuild, TLC

CONSTANTS tmp, varTmp

MCWorkDirs == {tmp, varTmp}

(* The checks of --make-iso do not see the first two. *)
MCRemovals == {{}, {"sum", "kernel"}, {"bios"}}

MCSymmetry == Permutations(MCWorkDirs)

=============================================================================
