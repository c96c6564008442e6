--------------------------- MODULE MCSequentialDfs ---------------------------
(* SequentialDfs on the small programs of MCPrograms. *)
EXTENDS SequentialDfs, MCPrograms
=============================================================================
