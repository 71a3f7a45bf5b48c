---------------------------- MODULE MCToolStore ----------------------------
(* A tool of two binaries, alone or followed by a tool of one. *)
EXTENDS ToolStore

OneTool  == << "dropbear" >>
TwoTools == << "dropbear", "zstd" >>

MCBinsOf == [dropbear |-> << "dropbear", "dropbearkey" >>, zstd |-> << "zstd" >>]

=============================================================================
