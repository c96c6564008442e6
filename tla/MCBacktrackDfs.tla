---------------------------- MODULE MCBacktrackDfs ----------------------------
(* BacktrackDfs on the small programs of MCPrograms. *)
EXTENDS BacktrackDfs, MCPrograms
=============================================================================
