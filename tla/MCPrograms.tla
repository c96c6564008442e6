------------------------------ MODULE MCPrograms ------------------------------
(***************************************************************************)
(* Small programs for the path explorers.  A program branches at most      *)
(* MaxDepth times, on the same condition at every node of a level, as      *)
(* straight-line code with if-statements does; a "loop" program leaves on  *)
(* the first false result, as while (branch(c)) does.                      *)
(* Programs with MaxDepth - 1 levels may also make an assertion and add an *)
(* error, each at one node; direction hints alternate between levels.      *)
(***************************************************************************)
EXTENDS ExecutionTree, FiniteSets

CONSTANTS
  MaxDepth,    \* branches on a path
  MaxForced,   \* at most so many levels call force_branch, not branch
  Asserted,    \* conditions an assertion may have
  AssertedAt,  \* and where it may be: {"root", "inner", "exit"}
  Failing,     \* conditions an error may have
  FailingAt    \* and where it may be

MCTree == UNION {[1 .. n -> BOOLEAN] : n \in 0 .. MaxDepth}

(* The node p of a program with so many levels ends the run. *)
Leaves(p, depth, loop) ==
  Len(p) >= depth \/ (loop /\ p # << >> /\ ~p[Len(p)])

Position(p, depth, loop) ==
  IF p = << >> THEN "root" ELSE IF Leaves(p, depth, loop) THEN "exit" ELSE "inner"

Nowhere == [used |-> FALSE, node |-> << >>, cond |-> {}]

Places(conds, where, depth, loop) ==
  {Nowhere} \union
  {pl \in [used : {TRUE}, node : MCTree, cond : conds] :
     Len(pl.node) <= depth /\ Position(pl.node, depth, loop) \in where}

(* The body of node p when an optional call of op is placed at a node. *)
Placed(op, place, p) ==
  IF place.used /\ place.node = p THEN <<[op |-> op, cond |-> place.cond]>>
                                  ELSE << >>

Program(conds, forced, depth, loop, asserted, failing) ==
  [p \in MCTree |->
     [body |-> Placed("assertion", asserted, p) \o Placed("error", failing, p)
                 \o IF p = << >> THEN <<[op |-> "literal", cond |-> {}]>>
                                 ELSE << >>,
      kind |-> IF Leaves(p, depth, loop) THEN "exit"
               ELSE IF Len(p) + 1 \in forced THEN "force_branch" ELSE "branch",
      cond |-> IF Leaves(p, depth, loop) THEN {} ELSE conds[Len(p) + 1],
      hint |-> Len(p) % 2 = 0]]

Forced(depth) == {f \in SUBSET (1 .. depth) : Cardinality(f) <= MaxForced}

WideProgramsLooping(depth, loop) ==
  {Program(conds, forced, depth, loop, asserted, failing) :
     conds \in [1 .. depth -> SUBSET Inputs],
     forced \in Forced(depth),
     asserted \in Places(Asserted, AssertedAt, depth, loop),
     failing \in Places(Failing, FailingAt, depth, loop)}

(* Only the first branch may go the same way for all inputs. *)
DeepConditions ==
  {conds \in [1 .. MaxDepth -> (SUBSET Inputs) \ {{}}] :
     \A i \in 2 .. MaxDepth : conds[i] # Inputs}

DeepPrograms ==
  {Program(conds, forced, MaxDepth, FALSE, Nowhere, Nowhere) :
     conds \in DeepConditions, forced \in Forced(MaxDepth)}

WidePrograms == UNION {WideProgramsLooping(MaxDepth - 1, l) : l \in BOOLEAN}

AllPrograms == WidePrograms \union DeepPrograms
=============================================================================
