----------------------------- MODULE BacktrackDfs -----------------------------
(***************************************************************************)
(* class BacktrackDfsChecker (include/nse_sequential.h) with its base      *)
(* class Checker, driven as its tests do:                                  *)
(*                                                                         *)
(*   checker.reset();                                                      *)
(*   do { <the program>; [checker.check();] }                              *)
(*   while (checker.find_next_path());                                     *)
(*                                                                         *)
(* A branch never asks the solver.  Instead, a path condition found to be  *)
(* unsatisfiable is cut back to the last guard of an unsat core, and the   *)
(* alternatives below that guard are pruned with it.                       *)
(*                                                                         *)
(* Conjunctions of terms are represented by the set of inputs satisfying   *)
(* them; m_guards is kept guard by guard, in order, because backtracking   *)
(* works on its elements.  Statistics are left out.                        *)
(***************************************************************************)
EXTENDS ExecutionTree, Dfs

VARIABLES
  prog,         \* the program under analysis
  path,         \* results of branch in the current run
  pos,          \* statements of the current node's body already executed
  phase,        \* "run" inside the program, "checked" after it, "done" once
                \* find_next_path() returned false; "backtrack" inside the
                \* loop of backtrack_check(), "backtracked" after it
  caller,       \* who called backtrack_check(): "check" or "find_next_path"
  assertions,   \* m_assertions: inputs satisfying their conjunction
  errors,       \* m_errors: the meanings of its disjuncts
  guards,       \* m_guards
  precise,      \* does Z3 decide every query of this analysis with minimal
                \* unsat cores, or may it give up and return larger ones?
  solver,       \* inputs satisfying the assertions left in m_solver
  allow,        \* m_allow_backtrack_check
  found_path,   \* m_found_path
  replaying,    \* m_replay_timer.is_active()
  explored,     \* history: complete paths that have been run
  reported,     \* history: paths on which check() returned smt::sat
  unchecked     \* history: paths with errors for which it was not called

checker_vars == <<assertions, errors, guards>>
control_vars == <<prog, path, pos>>
history_vars == <<explored, reported, unchecked>>
vars == <<dfs_vars, checker_vars, precise, control_vars, history_vars, phase,
          caller, solver, allow, found_path, replaying>>

node == prog[path]
InBody == phase = "run" /\ pos < Len(node.body)
stmt == node.body[pos + 1]
AtEndOfBody == phase = "run" /\ pos = Len(node.body)

(* The meaning of the conjunction of a set of guards *)
Meet(gs, I) == {v \in Inputs : \A i \in I : v \in gs[i]}

TypeOK ==
  /\ DfsTypeOK
  /\ prog \in Programs
  /\ path \in Tree
  /\ pos \in 0 .. Len(node.body)
  /\ phase \in {"run", "backtrack", "backtracked", "checked", "done"}
  /\ caller \in {"check", "find_next_path"}
  /\ assertions \in Condition
  /\ errors \in SUBSET Condition
  /\ guards \in Seq(Condition)
  /\ precise \in BOOLEAN
  /\ solver \in Condition
  /\ allow \in BOOLEAN
  /\ found_path \in BOOLEAN
  /\ replaying \in BOOLEAN
  /\ explored \in SUBSET Tree
  /\ reported \in SUBSET Tree
  /\ unchecked \in SUBSET Tree

(* Fault: the guards of the previous path are kept. *)
ResetCheckerButGuards ==
  /\ assertions' = Inputs
  /\ errors' = {}
  /\ UNCHANGED guards

(* Checker::reset() *)
ResetChecker ==
  /\ assertions' = Inputs
  /\ errors' = {}
  /\ guards' = << >>

(* BacktrackDfsChecker(), for a program of the user's choice *)
Init ==
  /\ DfsInit
  /\ prog \in Programs
  /\ path = << >>
  /\ pos = 0
  /\ phase = "run"
  /\ caller = "check"
  /\ assertions = Inputs
  /\ errors = {}
  /\ guards = << >>
  /\ precise \in BOOLEAN
  /\ solver = Inputs
  /\ allow = TRUE
  /\ found_path = TRUE
  /\ replaying = FALSE
  /\ explored = {}
  /\ reported = {}
  /\ unchecked = {}

(* reset() keeps m_found_path, which find_next_path() left false.  The next *)
(* program is any; the same one stands for all, each has an initial state. *)
Reset ==
  /\ phase = "done"
  /\ DfsReset
  /\ solver' = Inputs
  /\ replaying' = FALSE
  /\ allow' = TRUE
  /\ ResetChecker
  /\ path' = << >>
  /\ pos' = 0
  /\ phase' = "run"
  /\ caller' = "check"
  /\ explored' = {}
  /\ reported' = {}
  /\ unchecked' = {}
  /\ UNCHANGED <<precise, prog, found_path>>

-----------------------------------------------------------------------------
(* Calls in the body of a node.                                            *)

Step ==
  /\ pos' = pos + 1
  /\ UNCHANGED <<dfs_vars, precise, prog, path, history_vars, phase, caller,
                 solver, allow, found_path, replaying>>

BranchLiteral ==
  /\ InBody
  /\ stmt.op = "literal"
  /\ Step
  /\ UNCHANGED checker_vars

AddAssertion ==
  /\ InBody
  /\ stmt.op = "assertion"
  /\ assertions' = assertions \intersect stmt.cond
  /\ Step
  /\ UNCHANGED <<errors, guards>>

(* Fault: an error is recorded without the guards it was reached under. *)
UnguardedError == errors' = errors \union {stmt.cond}

GuardedError ==
  errors' = errors \union {stmt.cond \intersect Meet(guards, DOMAIN guards)}

AddError ==
  /\ InBody
  /\ stmt.op = "error"
  /\ GuardedError
  /\ Step
  /\ UNCHANGED <<assertions, guards>>

-----------------------------------------------------------------------------
(* Branches on a term; force_branch is branch.                             *)

AtBranch == AtEndOfBody /\ node.kind # "exit"

Return(direction) ==
  /\ path' = Append(path, direction)
  /\ pos' = 0
  /\ UNCHANGED <<precise, prog, history_vars, phase, caller, assertions, errors,
                 solver, allow, found_path>>

AddGuard(direction) ==
  guards' = Append(guards, IF direction THEN node.cond ELSE Inputs \ node.cond)

BranchReplay ==
  /\ AtBranch
  /\ HasNext
  /\ allow
  /\ replaying
  /\ AddGuard(NextDirection)
  /\ Return(NextDirection)
  /\ TakeNext
  /\ UNCHANGED replaying

BranchNew ==
  /\ AtBranch
  /\ ~HasNext
  /\ allow
  /\ replaying' = FALSE
  /\ AppendFlip(FALSE, FALSE)
  /\ AddGuard(FALSE)
  /\ Return(FALSE)

(* After a check() inside the program found the path to be infeasible *)
BranchOffPath ==
  /\ AtBranch
  /\ ~HasNext
  /\ ~allow
  /\ replaying' = FALSE
  /\ Return(FALSE)
  /\ UNCHANGED <<dfs_vars, guards>>

-----------------------------------------------------------------------------
(* backtrack_check()                                                       *)

(* Fault: the first guard of an unsat core is taken for its last one. *)
IsCoreBottom(k) ==
  \E C \in SUBSET (k + 1 .. Len(guards)) :
     LET s == solver \intersect Meet(guards, C)
     IN  s # {} /\ s \intersect guards[k] = {}

(* The guards of some unsat core end with guard k. *)
IsCoreTop(k) ==
  IF precise
  THEN \E C \in SUBSET (1 .. k - 1) :
          LET s == solver \intersect Meet(guards, C)
          IN  s # {} /\ s \intersect guards[k] = {}
  ELSE solver \intersect Meet(guards, 1 .. k) = {}

(* check_assumptions returns no core: the guards are satisfiable, or the   *)
(* solver gave up, or m_solver is inconsistent without them.               *)
HasNoCore ==
  \/ solver \intersect Meet(guards, DOMAIN guards) # {}
  \/ ~precise
  \/ solver = {}

EnterBacktrackCheck(who) ==
  /\ allow
  /\ caller' = who
  /\ solver' = solver \intersect assertions
  /\ phase' = IF guards = << >> THEN "backtracked" ELSE "backtrack"
  /\ UNCHANGED <<dfs_vars, precise, checker_vars, control_vars, history_vars,
                 allow, found_path, replaying>>

(* The checker's state after leaving the loop *)
LeaveLoop ==
  /\ phase' = "backtracked"
  /\ UNCHANGED <<precise, control_vars, history_vars, caller, assertions, errors,
                 solver, replaying>>

BacktrackNoCore ==
  /\ phase = "backtrack"
  /\ HasNoCore
  /\ LeaveLoop
  /\ UNCHANGED <<dfs_vars, guards, allow, found_path>>

(* Guards after the core's last one are popped together with their flips.  *)
BacktrackExhausted ==
  /\ phase = "backtrack"
  /\ \E k \in 1 .. Len(guards) :
        /\ IsCoreTop(k)
        /\ DfsFindsNoPath(SubSeq(flips, 1, k))
        /\ guards' = SubSeq(guards, 1, k)
  /\ allow' = FALSE
  /\ found_path' = FALSE
  /\ LeaveLoop

(* Fault: the guards below the core are cut one too many. *)
PoppedBelow(k) == SubSeq(flips, 1, k - 1)

Popped(k) == SubSeq(flips, 1, k)

(* ... the deepest open flip among those kept is alternated, its guard is  *)
(* negated, and the new path condition is checked in turn.                 *)
BacktrackFlip ==
  /\ phase = "backtrack"
  /\ \E k \in 1 .. Len(guards) :
        /\ IsCoreTop(k)
        /\ DfsFindsPath(Popped(k))
  /\ LET n == Len(flips')
     IN  guards' = Append(SubSeq(guards, 1, n - 1), Inputs \ guards[n])
  /\ allow' = FALSE
  /\ found_path' = TRUE
  /\ UNCHANGED <<precise, control_vars, history_vars, phase, caller, assertions,
                 errors, solver, replaying>>

-----------------------------------------------------------------------------
(* check()                                                                 *)

AtExit == AtEndOfBody /\ node.kind = "exit"

(* The program goes on, or the run is over. *)
Resume ==
  IF node.kind = "exit"
  THEN phase' = "checked" /\ explored' = explored \union {path}
  ELSE phase' = "run" /\ UNCHANGED explored

Check ==
  /\ AtExit
  /\ errors # {}
  /\ EnterBacktrackCheck("check")

(* Nothing keeps the program itself from calling check() on a new branch.  *)
CheckInsideProgram ==
  /\ AtBranch
  /\ ~HasNext
  /\ errors # {}
  /\ EnterBacktrackCheck("check")

(* Without errors, or off the path, check() returns at once ... *)
CheckNothing ==
  /\ AtExit
  /\ errors = {} \/ ~allow
  /\ Resume
  /\ UNCHANGED <<dfs_vars, precise, checker_vars, control_vars, caller,
                 solver, allow, found_path, replaying, reported, unchecked>>

(* ... and the user need not call it. *)
SkipCheck ==
  /\ AtExit
  /\ errors # {}
  /\ Resume
  /\ unchecked' = unchecked \union {path}
  /\ UNCHANGED <<dfs_vars, precise, checker_vars, control_vars, caller,
                 solver, allow, found_path, replaying, reported>>

CheckPathInfeasible ==
  /\ phase = "backtracked"
  /\ caller = "check"
  /\ ~allow
  /\ Resume
  /\ UNCHANGED <<dfs_vars, precise, checker_vars, control_vars, caller,
                 solver, allow, found_path, replaying, reported, unchecked>>

CheckErrors ==
  /\ phase = "backtracked"
  /\ caller = "check"
  /\ allow
  /\ Resume
  /\ solver' = solver \intersect UNION errors
  /\ \/ solver' # {} /\ reported' = reported \union {path}
     \/ (solver' = {} \/ ~precise) /\ UNCHANGED reported
  /\ UNCHANGED <<dfs_vars, precise, checker_vars, control_vars, caller, allow,
                 found_path, replaying, unchecked>>

-----------------------------------------------------------------------------
(* find_next_path()                                                        *)

FindNextPathBacktracks ==
  /\ phase = "checked"
  /\ EnterBacktrackCheck("find_next_path")

(* A check() already backtracked, or find_next_path()'s own call has. *)
ReadyToMove ==
  \/ phase = "checked" /\ ~allow
  \/ phase = "backtracked" /\ caller = "find_next_path"

(* m_dfs.find_next_path() is only called when backtracking has not. *)
Move(found) ==
  IF allow
  THEN IF found THEN DfsFindsPath(flips) ELSE DfsFindsNoPath(flips)
  ELSE found_path = found /\ UNCHANGED dfs_vars

FindNextPath ==
  /\ ReadyToMove
  /\ Move(TRUE)
  /\ found_path' = TRUE
  /\ solver' = Inputs
  /\ ResetChecker
  /\ replaying' = TRUE
  /\ allow' = TRUE
  /\ phase' = "run"
  /\ path' = << >>
  /\ pos' = 0
  /\ UNCHANGED <<precise, prog, history_vars, caller>>

FindNoNextPath ==
  /\ ReadyToMove
  /\ Move(FALSE)
  /\ found_path' = FALSE
  /\ allow' = TRUE
  /\ phase' = "done"
  /\ UNCHANGED <<precise, checker_vars, control_vars, history_vars, caller,
                 solver, replaying>>

-----------------------------------------------------------------------------
ProgramStep ==
  \/ BranchLiteral \/ AddAssertion \/ AddError
  \/ BranchReplay \/ BranchNew

Checking ==
  \/ Check \/ CheckNothing \/ SkipCheck \/ CheckPathInfeasible \/ CheckErrors
  \/ BacktrackNoCore \/ BacktrackExhausted \/ BacktrackFlip

Analyse ==
  \/ ProgramStep \/ Checking
  \/ FindNextPathBacktracks \/ FindNextPath \/ FindNoNextPath

Next == Analyse \/ Reset

Spec == Init /\ [][Next]_vars

(* The analysis is an ordinary sequential program, so it keeps running. *)
FairSpec == Spec /\ WF_vars(Analyse)

(* Programs that call check() at branches, too *)
CheckingNext == Next \/ CheckInsideProgram \/ BranchOffPath

CheckingSpec == Init /\ [][CheckingNext]_vars
-----------------------------------------------------------------------------
(* Correctness.                                                            *)

(* The assertions in the code: backtrack_check() starts with one guard per *)
(* flip, branch() replays only while backtracking is allowed and the       *)
(* replay timer runs, and the backtracking loop never has more flips than  *)
(* guards.                                                                 *)
CodeAssertions ==
  /\ phase = "checked" /\ allow => Len(guards) = Len(flips)
  /\ AtExit /\ allow => Len(guards) = Len(flips)
  /\ AtBranch /\ HasNext => allow /\ replaying
  /\ phase = "backtrack" => Len(flips) = Len(guards)

(* "this function must not be called until symbolic execution has followed *)
(* the path given by m_dfs.flips()": outside backtracking, the results     *)
(* branch() has returned are the directions of the flips replayed so far.  *)
ReplayFollowsFlips ==
  phase = "run" /\ allow => path = SubSeq(Directions(flips), 1, flip_index)

(* The paths that may not be missed.  Once check() has added the errors to *)
(* m_solver, and they are unsatisfiable, find_next_path() depends on the   *)
(* solver blaming no guard for it: only then its core is empty.            *)
AddsErrors ==
  \E p \in Tree : \E i \in 1 .. Len(prog[p].body) : prog[p].body[i].op = "error"

Required == IF ~precise /\ AddsErrors THEN {} ELSE FeasiblePaths(prog)

(* Every path some input takes is explored although whole subtrees are cut *)
(* off, no path is explored twice, and find_next_path() returns false only *)
(* then.                                                                   *)
Abstract == INSTANCE PathExploration
              WITH paths <- Paths(prog), required <- Required,
                   explored <- explored, done <- (phase = "done")

ExploresEveryFeasiblePathOnce == Abstract!Spec

(* find_next_path(), "to find an unexplored path, if any", returns false   *)
(* only when every path that some input takes has been run: if all cores   *)
(* are minimal, or there is no error that check() adds to m_solver.        *)
MissesNoFeasiblePath ==
  phase = "done" /\ (precise \/ ~AddsErrors) => FeasiblePaths(prog) \subseteq explored

(* When the exploration is over, check() has returned sat on the path of   *)
(* every input that violates the program's error conditions, if it was     *)
(* called there and the solver decided every query with minimal cores,     *)
(* although backtracking cuts off paths and check() answers unsat at once  *)
(* on those it gave up.                                                    *)
ReportsEveryError ==
  phase = "done" /\ precise =>
    \A p \in FeasiblePaths(prog), v \in Inputs :
       Runs(prog, p, v) /\ Fails(prog, p, v) => p \in reported \union unchecked

(* check() returns sat only where some input gets and has failed by then.  *)
NoFalseAlarm ==
  \A p \in reported : \E v \in Inputs :
     Follows(prog, p, v) /\ Admits(prog, p, v) /\ Fails(prog, p, v)

(* Backtracking and alternation make progress: every exploration ends. *)
Terminates == []<>(phase = "done")
=============================================================================
