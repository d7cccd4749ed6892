---------------------------- MODULE MCToolServer ----------------------------
(***************************************************************************)
(* ToolServer for TLC.  Calls of one kind are interchangeable; only the    *)
(* safety runs use that.                                                   *)
(***************************************************************************)
EXTENDS ToolServer, TLC

KindSymmetry == Permutations(CliCalls) \cup Permutations(Calls \ CliCalls)
=============================================================================
