--------------------------- MODULE PathExploration ---------------------------
(***************************************************************************)
(* What a path explorer promises, whatever its search strategy: it runs    *)
(* complete paths of the program, none of them twice, and it says that     *)
(* there is no further path only when every path it must not miss has been *)
(* run.  The explorer is then reset and given another program.             *)
(***************************************************************************)
VARIABLES
  paths,      \* the program's complete paths
  required,   \* those that may not be missed
  explored,   \* those that have been run
  done        \* find_next_path() returned false

vars == <<paths, required, explored, done>>

Init ==
  /\ required \subseteq paths
  /\ explored = {}
  /\ done = FALSE

Explore ==
  /\ ~done
  /\ \E p \in paths \ explored : explored' = explored \union {p}
  /\ UNCHANGED <<paths, required, done>>

Finish ==
  /\ ~done
  /\ required \subseteq explored
  /\ done' = TRUE
  /\ UNCHANGED <<paths, required, explored>>

Restart ==
  /\ done
  /\ required' \subseteq paths'
  /\ explored' = {}
  /\ done' = FALSE

Next == Explore \/ Finish \/ Restart

Spec == Init /\ [][Next]_vars
=============================================================================
