--------------------------- MODULE AssertionStack ---------------------------
(***************************************************************************)
(* What a solver promises to its client, whatever memory it manages and    *)
(* whichever back end decides: it keeps a stack of levels of assertions,   *)
(* and it answers for the conjunction of those that are on it, now.  It    *)
(* may answer that it does not know, but never wrongly.  Asking does not   *)
(* change the assertions.                                                  *)
(***************************************************************************)
EXTENDS Formulas

CONSTANTS
  Formula,          \* what may be asserted
  MaxAssumptions    \* how many assumptions one query has

VARIABLES
  levels,           \* the assertions of each level, lowest level first
  answer            \* the last query and its answer, if that was the last call

vars == <<levels, answer>>

None == [verdict |-> "none", core |-> <<>>, assumed |-> <<>>, room |-> 0]

Asserted == UNION {ToSet(levels[l]) : l \in DOMAIN levels}

Init ==
  /\ levels = << <<>> >>
  /\ answer = None

Push ==
  /\ levels' = Append(levels, <<>>)
  /\ answer' = None

Pop ==
  /\ Len(levels) > 1
  /\ levels' = Front(levels)
  /\ answer' = None

Add ==
  /\ Len(levels') = Len(levels)
  /\ Len(Last(levels')) = Len(Last(levels)) + 1
  /\ \E f \in Formula : levels' = [levels EXCEPT ![Len(levels)] = Append(@, f)]
  /\ answer' = None

Reset ==
  /\ answer' = None
  /\ levels' = << <<>> >>

(* A query under assumptions, with room for so many of those that an       *)
(* unsatisfiability is due to.  The core is told by positions, in the      *)
(* order of the assumptions, and it is a core if there is room for all.    *)
CoreIsRight(core, assumed, room) ==
  /\ Len(core) <= room
  /\ \A i \in DOMAIN core : core[i] \in DOMAIN assumed
  /\ \A i, j \in DOMAIN core : i < j => core[i] < core[j]
  /\ room >= Len(assumed) =>
       ~Consistent(Asserted \union {assumed[core[i]] : i \in DOMAIN core})

Ask ==
  /\ answer'.verdict \in {"sat", "unsat", "unknown"}
  /\ UNCHANGED levels
  /\ Len(answer'.assumed) <= MaxAssumptions
  /\ ToSet(answer'.assumed) \subseteq Formula
  /\ LET satisfiable == Consistent(Asserted \union ToSet(answer'.assumed))
     IN  /\ answer'.verdict = "sat" => satisfiable
         /\ answer'.verdict = "unsat" =>
              ~satisfiable /\ CoreIsRight(answer'.core, answer'.assumed, answer'.room)
         /\ answer'.verdict # "unsat" => answer'.core = <<>>

GoOn ==
  /\ answer' = None
  /\ UNCHANGED levels

Next == Push \/ Pop \/ Add \/ Reset \/ Ask \/ GoOn

Spec == Init /\ [][Next]_vars
=============================================================================
