---------------------------- MODULE SequentialDfs ----------------------------
(***************************************************************************)
(* class SequentialDfsChecker (include/nse_sequential.h,                   *)
(* src/nse_sequential.cpp) driving a program as its tests and the README's *)
(* native symbolic execution do:                                           *)
(*                                                                         *)
(*   checker.reset();                                                      *)
(*   do { <the program>; checker.check(); }                                *)
(*   while (checker.find_next_path());                                     *)
(*                                                                         *)
(* Conjunctions of terms are represented by the set of inputs satisfying   *)
(* them.  Statistics and timers are left out.                              *)
(***************************************************************************)
EXTENDS ExecutionTree, Dfs

VARIABLES
  prog,         \* the program under analysis
  path,         \* results of branch and force_branch in the current run
  pos,          \* statements of the current node's body already executed
  phase,        \* "run" inside the program, "checked" after its final
                \* check(), "done" once find_next_path() returned false
  guards,       \* m_guards: inputs satisfying their conjunction
  errors,       \* m_errors: the meanings of its disjuncts
  solver,       \* inputs satisfying the assertions left in m_solver
  is_feasible,  \* m_is_feasible
  gives_up,     \* may the SMT solver answer smt::unknown in this analysis?
  explored,     \* history: complete paths that have been run
  reported,     \* history: paths on which check() returned smt::sat
  made          \* history: for each flip the path on which branch or
                \* force_branch appended it, and m_is_feasible at that time

vars == <<dfs_vars, prog, gives_up, path, pos, phase, guards, errors, solver,
          is_feasible, explored, reported, made>>

node == prog[path]
InBody == phase = "run" /\ pos < Len(node.body)
stmt == node.body[pos + 1]
AtEndOfBody == phase = "run" /\ pos = Len(node.body)

TypeOK ==
  /\ DfsTypeOK
  /\ prog \in Programs
  /\ path \in Tree
  /\ pos \in 0 .. Len(node.body)
  /\ phase \in {"run", "checked", "done"}
  /\ guards \in Condition
  /\ errors \in SUBSET Condition
  /\ solver \in Condition
  /\ is_feasible \in BOOLEAN
  /\ gives_up \in BOOLEAN
  /\ explored \in SUBSET Tree
  /\ reported \in SUBSET Tree
  /\ made \in Seq([at : Tree, feasible : BOOLEAN])
  /\ Len(made) = Len(flips)

(* SequentialDfsChecker() and reset(), for a program of the user's choice. *)
Init ==
  /\ DfsInit
  /\ prog \in Programs
  /\ path = << >>
  /\ pos = 0
  /\ phase = "run"
  /\ guards = Inputs
  /\ errors = {}
  /\ solver = Inputs
  /\ is_feasible = TRUE
  /\ gives_up \in BOOLEAN
  /\ explored = {}
  /\ reported = {}
  /\ made = << >>

(* Fault: the assertions of the previous path are left in m_solver. *)
ResetSolverForgotten == UNCHANGED solver

ResetSolver == solver' = Inputs

(* Fault: the next path starts under the guards of the previous one. *)
ResetGuardsForgotten == UNCHANGED guards

ResetGuards == guards' = Inputs

(* Fault: the errors of one path are checked on the next one as well. *)
ResetErrorsForgotten == UNCHANGED errors

ResetErrors == errors' = {}

(* A next analysis starts in an initial state, whatever its program is;    *)
(* every program has an initial state, so the same one is kept here.       *)
Reset ==
  /\ phase = "done"
  /\ DfsReset
  /\ UNCHANGED <<prog, gives_up>>
  /\ path' = << >>
  /\ pos' = 0
  /\ phase' = "run"
  /\ ResetGuards
  /\ ResetErrors
  /\ ResetSolver
  /\ is_feasible' = TRUE
  /\ explored' = {}
  /\ reported' = {}
  /\ made' = << >>

-----------------------------------------------------------------------------
(* Calls in the body of a node.                                            *)

Step == pos' = pos + 1 /\ UNCHANGED <<prog, gives_up, path, phase>>

(* branch and force_branch return a literal condition as it is.  A literal *)
(* error changes nothing either if it is false or the run infeasible; a    *)
(* true one in a feasible run aborts the program and is no statement here. *)
BranchLiteral ==
  /\ InBody
  /\ stmt.op = "literal"
  /\ Step
  /\ UNCHANGED <<dfs_vars, guards, errors, solver, is_feasible, explored,
                 reported, made>>

AddAssertion ==
  /\ InBody
  /\ stmt.op = "assertion"
  /\ guards' = guards \intersect stmt.cond
  /\ Step
  /\ UNCHANGED <<dfs_vars, errors, solver, is_feasible, explored, reported,
                 made>>

AddError ==
  /\ InBody
  /\ stmt.op = "error"
  /\ errors' = errors \union {stmt.cond}
  /\ Step
  /\ UNCHANGED <<dfs_vars, guards, solver, is_feasible, explored, reported,
                 made>>

-----------------------------------------------------------------------------
(* Branches on a term.                                                     *)

Return(direction) ==
  /\ path' = Append(path, direction)
  /\ pos' = 0
  /\ UNCHANGED <<prog, gives_up, phase, errors, solver, explored, reported>>

(* A flip is appended by the call the run is at. *)
AppendFlipHere(direction, is_frozen) ==
  /\ AppendFlip(direction, is_frozen)
  /\ made' = Append(made, [at |-> path, feasible |-> is_feasible])

Side(direction) == IF direction THEN node.cond ELSE Inputs \ node.cond

AddGuard(direction) == guards' = guards \intersect Side(direction)

(* check(condition): m_solver.check() under m_guards and one direction.    *)
(* It is compared with smt::unsat only, so smt::unknown counts as feasible.*)
MayBeUnsat(direction) == solver \intersect guards \intersect Side(direction) = {}

MayNotBeUnsat(direction) == gives_up \/ ~MayBeUnsat(direction)

AtBranch == AtEndOfBody /\ node.kind = "branch"

(* Both branch() wrappers, once m_is_feasible is false *)
BranchWhenInfeasible ==
  /\ AtBranch
  /\ ~is_feasible
  /\ Return(FALSE)
  /\ UNCHANGED <<dfs_vars, guards, is_feasible, made>>

BranchReplay ==
  /\ AtBranch
  /\ is_feasible
  /\ HasNext
  /\ AddGuard(NextDirection)
  /\ Return(NextDirection)
  /\ TakeNext
  /\ UNCHANGED <<is_feasible, made>>

AtNewBranch == AtBranch /\ is_feasible /\ ~HasNext

(* Fault: the flags of the two append_flip calls are exchanged. *)
BranchAsHintedForGood ==
  /\ AtNewBranch
  /\ MayNotBeUnsat(node.hint)
  /\ AddGuard(node.hint)
  /\ AppendFlipHere(node.hint, node.hint)
  /\ Return(node.hint)
  /\ UNCHANGED is_feasible

(* The hinted direction is tried first and leaves the other one open. *)
BranchAsHinted ==
  /\ AtNewBranch
  /\ MayNotBeUnsat(node.hint)
  /\ AddGuard(node.hint)
  /\ AppendFlipHere(node.hint, FALSE)
  /\ Return(node.hint)
  /\ UNCHANGED is_feasible

(* The other direction is followed when the hinted one is infeasible. *)
BranchAgainstHint ==
  /\ AtNewBranch
  /\ MayBeUnsat(node.hint)
  /\ MayNotBeUnsat(~node.hint)
  /\ AddGuard(~node.hint)
  /\ AppendFlipHere(~node.hint, TRUE)
  /\ Return(~node.hint)
  /\ UNCHANGED is_feasible

(* NO_BRANCH *)
BranchNowhere ==
  /\ AtNewBranch
  /\ MayBeUnsat(node.hint)
  /\ MayBeUnsat(~node.hint)
  /\ is_feasible' = FALSE
  /\ Return(FALSE)
  /\ UNCHANGED <<dfs_vars, guards, made>>

ForceBranch ==
  /\ AtEndOfBody
  /\ node.kind = "force_branch"
  /\ \/ /\ HasNext
        /\ TakeNext
        /\ AddGuard(NextDirection)
        /\ Return(NextDirection)
        /\ UNCHANGED made
     \/ /\ ~HasNext
        /\ AppendFlipHere(FALSE, FALSE)
        /\ AddGuard(FALSE)
        /\ Return(FALSE)
  /\ UNCHANGED is_feasible

-----------------------------------------------------------------------------
(* check() returns at once without errors; otherwise its two assertions    *)
(* stay in m_solver.                                                       *)
CheckErrors ==
  IF errors = {}
  THEN UNCHANGED <<solver, reported>>
  ELSE /\ solver' = solver \intersect guards \intersect UNION errors
       /\ \/ solver' # {} /\ reported' = reported \union {path}
          \/ (solver' = {} \/ gives_up) /\ UNCHANGED reported

Check ==
  /\ AtEndOfBody
  /\ node.kind = "exit"
  /\ CheckErrors
  /\ phase' = "checked"
  /\ explored' = explored \union {path}
  /\ UNCHANGED <<dfs_vars, prog, gives_up, path, pos, guards, errors,
                 is_feasible, made>>

(* Nothing keeps the program itself from calling check() as well. *)
CheckInsideProgram ==
  /\ AtEndOfBody
  /\ node.kind # "exit"
  /\ CheckErrors
  /\ UNCHANGED <<dfs_vars, prog, gives_up, path, pos, phase, guards, errors,
                 is_feasible, explored, made>>

(* find_next_path() *)
FindNextPath ==
  /\ phase = "checked"
  /\ is_feasible' = TRUE
  /\ DfsFindsPath(flips)
  /\ made' = SubSeq(made, 1, Len(flips'))
  /\ ResetSolver
  /\ ResetGuards
  /\ ResetErrors
  /\ phase' = "run"
  /\ path' = << >>
  /\ pos' = 0
  /\ UNCHANGED <<prog, gives_up, explored, reported>>

FindNoNextPath ==
  /\ phase = "checked"
  /\ is_feasible' = TRUE
  /\ DfsFindsNoPath(flips)
  /\ made' = << >>
  /\ phase' = "done"
  /\ UNCHANGED <<prog, gives_up, path, pos, guards, errors, solver, explored,
                 reported>>

-----------------------------------------------------------------------------
ProgramStep ==
  \/ BranchLiteral \/ AddAssertion \/ AddError
  \/ BranchWhenInfeasible \/ BranchReplay
  \/ BranchAsHinted \/ BranchAgainstHint \/ BranchNowhere \/ ForceBranch

Analyse == ProgramStep \/ Check \/ FindNextPath \/ FindNoNextPath

Next == Analyse \/ Reset

Spec == Init /\ [][Next]_vars

(* The analysis is an ordinary sequential program, so it keeps running. *)
FairSpec == Spec /\ WF_vars(Analyse)

(* Programs that call check() at branches, too *)
CheckingSpec == Init /\ [][Next \/ CheckInsideProgram]_vars
-----------------------------------------------------------------------------
(* Correctness.                                                            *)

(* Input v satisfies the assertions the current run has made so far. *)
AdmitsSoFar(v) ==
  /\ \A k \in 0 .. Len(path) - 1 : \A i \in 1 .. Len(At(prog, path, k).body) :
        At(prog, path, k).body[i].op = "assertion"
          => v \in At(prog, path, k).body[i].cond
  /\ \A i \in 1 .. pos :
        node.body[i].op = "assertion" => v \in node.body[i].cond

(* The path condition is exact: m_guards holds for just those inputs that  *)
(* drive the program to where it is, through replay, new branches and      *)
(* assertions; a run is declared infeasible only when no input is left.    *)
GuardsCharacteriseRun ==
  /\ guards = {v \in Inputs : Follows(prog, path, v) /\ AdmitsSoFar(v)}
  /\ ~is_feasible => guards = {}

(* While a run is feasible, branch() has returned the directions of the    *)
(* flips replayed or appended so far, one flip per call, and a flip that   *)
(* was appended in a feasible run is taken by the very call that appended  *)
(* it.  Not so a flip that force_branch() appended after branch() had      *)
(* declared its run infeasible: see ForceBranchFollowsBoth.                *)
ReplayFollowsFlips ==
  is_feasible /\ phase # "done" =>
    /\ path = SubSeq(Directions(flips), 1, flip_index)
    /\ \A k \in 1 .. flip_index :
          made[k].feasible => made[k].at = SubSeq(path, 1, k - 1)

(* Every path some input takes is explored, no path is explored twice, and *)
(* find_next_path() returns false only then.                               *)
Abstract == INSTANCE PathExploration
              WITH paths <- Paths(prog), required <- FeasiblePaths(prog),
                   explored <- explored, done <- (phase = "done")

ExploresEveryFeasiblePathOnce == Abstract!Spec

(* When the exploration is over, check() returned sat on the path of every *)
(* input that violates the program's error conditions, unless it said      *)
(* unknown.                                                                *)
ReportsEveryError ==
  phase = "done" /\ ~gives_up =>
    \A p \in Paths(prog), v \in Inputs :
       Runs(prog, p, v) /\ Fails(prog, p, v) => p \in reported

(* check() returns sat only where some input gets and has failed by then,  *)
(* even though infeasible paths are run as well and m_solver is reused.    *)
NoFalseAlarm ==
  \A p \in reported : \E v \in Inputs :
     Follows(prog, p, v) /\ Admits(prog, p, v) /\ Fails(prog, p, v)

(* "Follow a feasible control flow direction, i.e. prunes infeasible       *)
(* branches": a direction that is skipped for good is one no input takes.  *)
PrunesOnlyInfeasible ==
  [][ /\ BranchAgainstHint => guards \intersect Side(node.hint) = {}
      /\ BranchNowhere => guards = {} ]_vars

(* "Follow both control flow directions regardless of their feasibility":  *)
(* when the exploration is over, a force_branch() that returned one        *)
(* direction has returned the other one after the same results, too.       *)
ForceBranchFollowsBoth ==
  phase = "done" =>
    \A p \in explored : \A k \in 1 .. Len(p) :
       At(prog, p, k - 1).kind = "force_branch" =>
         \E q \in explored :
            Len(q) >= k /\ SubSeq(q, 1, k) = Append(SubSeq(p, 1, k - 1), ~p[k])

(* "Symbolic execution of only feasible paths": some input takes each      *)
(* complete path that is run.                                              *)
OnlyFeasiblePaths == explored \subseteq FeasiblePaths(prog)

(* The alternation of flips makes progress: every exploration ends.        *)
Terminates == []<>(phase = "done")
=============================================================================
