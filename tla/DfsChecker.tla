------------------------------ MODULE DfsChecker ------------------------------
(***************************************************************************)
(* class DfsChecker (include/crv.h, src/crv.cpp) with its base class       *)
(* Checker and its Tracer, driven as the tests of CRV do:                  *)
(*                                                                         *)
(*   tracer().reset(); checker.reset();                                    *)
(*   do { <the program>; [encoder.check(tracer(), checker);] }             *)
(*   while (checker.find_next_path());                                     *)
(*                                                                         *)
(* The program starts threads (class Thread runs each to its end before    *)
(* its parent goes on), nests symbolic scopes in each of them, branches,   *)
(* and adds errors.  What it does is decided when it does it, and kept in  *)
(* script: running again, it makes the same calls up to a branch that      *)
(* returns another result.                                                 *)
(***************************************************************************)
EXTENDS Tracer, Dfs, Dominators

CONSTANTS
  Conditions,   \* Conditions[op]: conditions the program passes to op
  Hints,        \* direction hints it passes to branch
  Statements,   \* kinds of the events its other statements append
  MaxCalls,     \* bound: its calls, those that only close something aside
  MaxBranches,  \* bound: calls of branch on a path
  MaxThreads,   \* bound: threads it starts on a path
  MaxNesting,   \* bound: scopes around a statement
  LateScopes    \* may it open a scope after another thread has branched?

ASSUME DfsCheckerAssumption ==
  /\ Hints \subseteq BOOLEAN
  /\ Statements \subseteq {"write", "send"}
  /\ \A op \in {"then", "branch", "error"} : Conditions[op] \subseteq Condition

VARIABLES
  guards,           \* m_guards: inputs satisfying their conjunction
  errors,           \* m_errors: the meaning of each, and its history below
  number_of_paths,  \* m_stats.number_of_paths
  phase,            \* "run" inside the program, "checked" after it, "done"
                    \* once find_next_path() returned false
  script,           \* calls the program makes, by the results of branch
  path,             \* results of branch in the current run
  pos,              \* calls made since the last of them
  nest,             \* threads and scopes the program is inside of
  joinable,         \* threads it has not joined after their end
  branched,         \* history: threads that branched in this run
  path_condition,   \* history: inputs for which branch returns these results
  truth,            \* history: for each of events, what it really is
  explored          \* history: complete paths that have been run

checker_vars == <<guards, errors, number_of_paths>>
program_vars == <<script, path, pos, nest, joinable>>
history_vars == <<branched, path_condition, truth, explored>>
vars == <<tracer_vars, dfs_vars, checker_vars, phase, program_vars, history_vars>>

(* An error and the inputs for which the program makes it. *)
Error == [meaning : Condition, reach : Condition]

(* What encloses a statement of a thread: cond is the side of the scope's  *)
(* condition it is on, site the call that opened the scope or the thread.  *)
Frame == [kind : {"thread", "then", "else"}, cond : Condition, thread : Nat,
          site : (DOMAIN script) \X Nat]

TypeOK ==
  /\ TracerTypeOK
  /\ DfsTypeOK
  /\ guards \in Condition
  /\ errors \in SUBSET Error
  /\ number_of_paths \in Nat
  /\ phase \in {"run", "checked", "done"}
  /\ path \in DOMAIN script
  /\ pos \in 0 .. Len(script[path])
  /\ nest \in Seq(Frame)
  /\ joinable \subseteq 2 .. thread_id_cnt - 1
  /\ branched \subseteq 1 .. thread_id_cnt - 1
  /\ path_condition \in Condition
  /\ Len(truth) = Len(events)
  /\ explored \subseteq DOMAIN script

-----------------------------------------------------------------------------
(* The program.                                                            *)

Call(op) == [op |-> op, cond |-> Inputs, thread |-> 0, hint |-> FALSE]

(* Closing calls are not counted, so every run can come to its end. *)
Closing == {"else", "endif", "end", "exit"}

CallsMade ==
  SumFunction([p \in DOMAIN script |->
                 Len(SelectSeq(script[p], LAMBDA c : c.op \notin Closing))])

(* The next call is c: one that was made before, or a new one. *)
IsNextCall(c) ==
  /\ phase = "run"
  /\ IF pos < Len(script[path])
     THEN c = script[path][pos + 1]
     ELSE c.op \in Closing \/ CallsMade < MaxCalls

ScriptWith(c) ==
  IF pos < Len(script[path]) THEN script
                             ELSE [script EXCEPT ![path] = Append(@, c)]

Calls(c) ==
  /\ IsNextCall(c)
  /\ script' = ScriptWith(c)
  /\ pos' = pos + 1

(* Programs branch outside scopes: the code has a TODO for that. *)
InScope == nest # << >> /\ Last(nest).kind # "thread"

Thread == IF nest = << >> THEN 1 ELSE Last(nest).thread

(* The scopes of the running thread that enclose its next statement *)
Enclosing ==
  LET k == Max({0} \union {i \in DOMAIN nest : nest[i].kind = "thread"})
  IN  SubSeq(nest, k + 1, Len(nest))

Within(kind, cond, thread) ==
  Append(nest, [kind |-> kind, cond |-> cond, thread |-> thread,
                site |-> <<path, pos>>])

(* The inputs for which the program makes the next call, on this path *)
Reach == {v \in path_condition : \A i \in DOMAIN nest : v \in nest[i].cond}

(* An event stands for a synchronisation: the start or the end of a thread *)
(* or a barrier, or else for a step of its thread alone.                   *)
Truth(thread, enclosing, reach, sync) ==
  [thread |-> thread, enclosing |-> enclosing, reach |-> reach, sync |-> sync]

Happens(sync) == Truth(Thread, Enclosing, Reach, sync)

Syncs(what) == {e \in ToSet(truth) : e.sync[1] = what}

NextThread == 2 + Cardinality({e.sync : e \in Syncs("start")})

NextBarrier == 1 + Cardinality({e.sync : e \in {f \in Syncs("barrier") : f.thread = Thread}})

-----------------------------------------------------------------------------
Init ==
  /\ TracerInit
  /\ DfsInit
  /\ guards = Inputs
  /\ errors = {}
  /\ number_of_paths = 0
  /\ phase = "run"
  /\ script = [p \in {<< >>} |-> << >>]
  /\ path = << >>
  /\ pos = 0
  /\ nest = << >>
  /\ joinable = {}
  /\ branched = {}
  /\ path_condition = Inputs
  /\ truth = << >>
  /\ explored = {}

-----------------------------------------------------------------------------
(* Threads and their events.                                               *)

KeepsChecking == UNCHANGED <<dfs_vars, number_of_paths, phase, path,
                             branched, path_condition, explored>>

Statement(kind) ==
  /\ Calls(Call(kind))
  /\ AppendEvent(kind)
  /\ truth' = Append(truth, Happens(<<"alone", Len(truth)>>))
  /\ UNCHANGED <<nest, joinable, guards, errors>>
  /\ KeepsChecking

(* Thread(f, args) up to the call of f *)
BeginThread ==
  /\ NextThread - 1 <= MaxThreads
  /\ Calls(Call("begin"))
  /\ AppendThreadBegin
  /\ nest' = Within("thread", Inputs, NextThread)
  /\ truth' = truth \o
       << Happens(<<"start", NextThread>>),
          Truth(NextThread, << >>, Reach, <<"start", NextThread>>) >>
  /\ UNCHANGED <<joinable, guards, errors>>
  /\ KeepsChecking

(* Outside the scopes of its parent, and inside *)
ThreadBegin == ~InScope /\ BeginThread

ThreadBeginInScope == InScope /\ BeginThread

(* ... and after f has returned *)
ThreadEnd ==
  /\ nest # << >>
  /\ ~InScope
  /\ Calls(Call("end"))
  /\ AppendThreadEnd
  /\ nest' = Front(nest)
  /\ joinable' = joinable \union {current_thread_id}
  /\ truth' = Append(truth, Happens(<<"end", Thread>>))
  /\ UNCHANGED <<guards, errors>>
  /\ KeepsChecking

Join ==
  /\ \E t \in joinable :
        /\ Calls([Call("join") EXCEPT !.thread = t])
        /\ AppendJoin(t)
        /\ joinable' = joinable \ {t}
        /\ truth' = Append(truth, Happens(<<"end", t>>))
  /\ UNCHANGED <<nest, guards, errors>>
  /\ KeepsChecking

CallBarrier ==
  /\ Calls(Call("barrier"))
  /\ Barrier
  /\ truth' = Append(truth, Happens(<<"barrier", NextBarrier>>))
  /\ UNCHANGED <<nest, joinable, guards, errors>>
  /\ KeepsChecking

-----------------------------------------------------------------------------
(* Symbolic scopes: set_guards drops what m_guards held before.            *)

(* Fault: the guards stay as they are. *)
KeepGuards(g) == UNCHANGED guards

SetGuards(g) == guards' = g

ScopeOnly == UNCHANGED <<truth, joinable, errors>> /\ KeepsChecking

CallScopeThen ==
  /\ Len(Enclosing) < MaxNesting
  /\ LateScopes \/ branched \subseteq {1, Thread}
  /\ \E g \in Conditions["then"] :
        /\ Calls([Call("then") EXCEPT !.cond = g])
        /\ ScopeThen(g)
        /\ nest' = Within("then", g, Thread)
  /\ SetGuards(guard')
  /\ ScopeOnly

CallScopeElse ==
  /\ nest # << >>
  /\ Last(nest).kind = "then"
  /\ Calls(Call("else"))
  /\ ScopeElse
  /\ nest' = Append(Front(nest), [Last(nest) EXCEPT !.kind = "else",
                                                   !.cond = Inputs \ @])
  /\ SetGuards(guard')
  /\ ScopeOnly

CallScopeEnd ==
  /\ InScope
  /\ Calls(Call("endif"))
  /\ ScopeEnd
  /\ nest' = Front(nest)
  /\ SetGuards(guard')
  /\ ScopeOnly

-----------------------------------------------------------------------------
(* Checker::add_error conjoins the guards made so far.                     *)
AddError ==
  /\ \E c \in Conditions["error"] :
        /\ Calls([Call("error") EXCEPT !.cond = c])
        /\ errors' = errors \union {[meaning |-> guards \intersect c,
                                    reach |-> Reach \intersect c]}
  /\ UNCHANGED <<tracer_vars, nest, joinable, truth, guards>>
  /\ KeepsChecking

Side(g, direction) == IF direction THEN g ELSE Inputs \ g

(* force_branch, and the program goes where branch tells it. *)
Follow(c, direction) ==
  LET next == Append(path, direction)
      made == ScriptWith(c)
  IN  /\ IsNextCall(c)
      /\ TracerAddGuard(Side(c.cond, direction))
      /\ guards' = guards \intersect Side(c.cond, direction)
      /\ path_condition' = path_condition \intersect Side(c.cond, direction)
      /\ path' = next
      /\ pos' = 0
      /\ script' = [p \in DOMAIN made \union {next} |->
                      IF p \in DOMAIN made THEN made[p] ELSE << >>]
      /\ branched' = branched \union {Thread}

Branch ==
  /\ ~InScope
  /\ Len(path) < MaxBranches
  /\ \E g \in Conditions["branch"], hint \in Hints :
        LET c == [Call("branch") EXCEPT !.cond = g, !.hint = hint]
        IN  \/ HasNext  /\ TakeNext                /\ Follow(c, NextDirection)
            \/ ~HasNext /\ AppendFlip(hint, FALSE) /\ Follow(c, hint)
  /\ UNCHANGED <<errors, number_of_paths, phase, nest, joinable, truth, explored>>

-----------------------------------------------------------------------------
(* From one path to the next.                                              *)

Exit ==
  /\ nest = << >>
  /\ Calls(Call("exit"))
  /\ phase' = "checked"
  /\ explored' = explored \union {path}
  /\ UNCHANGED <<tracer_vars, dfs_vars, checker_vars, path, nest, joinable,
                 branched, path_condition, truth>>

(* Checker::reset *)
CheckerReset ==
  /\ guards' = Inputs
  /\ errors' = {}

ProgramStarts ==
  /\ phase' = "run"
  /\ path' = << >>
  /\ pos' = 0
  /\ nest' = << >>
  /\ joinable' = {}
  /\ branched' = {}
  /\ path_condition' = Inputs
  /\ truth' = << >>

(* find_next_path() *)
FindNextPath ==
  /\ phase = "checked"
  /\ number_of_paths' = number_of_paths + 1
  /\ DfsFindsPath(flips)
  /\ CheckerReset
  /\ ResetEvents
  /\ ResetBarrier
  /\ ProgramStarts
  /\ UNCHANGED <<event_id_cnt, script, explored>>

FindNoNextPath ==
  /\ phase = "checked"
  /\ number_of_paths' = number_of_paths + 1
  /\ DfsFindsNoPath(flips)
  /\ phase' = "done"
  /\ UNCHANGED <<tracer_vars, guards, errors, program_vars, history_vars>>

(* reset(), and another program *)
Reset ==
  /\ phase = "done"
  /\ DfsReset
  /\ TracerReset
  /\ number_of_paths' = 0
  /\ CheckerReset
  /\ ProgramStarts
  /\ script' = [p \in {<< >>} |-> << >>]
  /\ explored' = {}

-----------------------------------------------------------------------------
Next ==
  \/ \E kind \in Statements : Statement(kind)
  \/ ThreadBegin \/ ThreadEnd \/ Join \/ CallBarrier
  \/ CallScopeThen \/ CallScopeElse \/ CallScopeEnd
  \/ AddError \/ Branch
  \/ Exit \/ FindNextPath \/ FindNoNextPath \/ Reset

Spec == Init /\ [][Next]_vars

(* Programs that start threads inside of scopes, too *)
ScopedSpec == Init /\ [][Next \/ ThreadBeginInScope]_vars

-----------------------------------------------------------------------------
(* Correctness.                                                            *)

(* On the path that was taken, the guard of every event says for which     *)
(* inputs the program makes it: scopes are entered, left and negated in    *)
(* step with the program, and no guard leaks from a thread to another one. *)
EventGuardsExact ==
  \A i \in DOMAIN events :
     events[i].guard \intersect path_condition = truth[i].reach \intersect path_condition

(* What the encoder asserts of a path, tracer.guard(), is its condition as *)
(* long as only the main thread branches; no path is ruled out by it.      *)
PathGuardExact ==
  phase = "checked" =>
    /\ path_condition \subseteq guard
    /\ branched \subseteq {1} => guard = path_condition

(* "Add conjunction of guards() and given Boolean term to errors()": each  *)
(* error, under tracer.guard(), holds for inputs that make it and for all  *)
(* of them that take this path.                                            *)
ErrorsExact ==
  phase = "checked" =>
    \A e \in errors :
       /\ e.meaning \intersect guard \subseteq e.reach
       /\ e.reach \intersect path_condition \subseteq e.meaning \intersect guard

(* Events with the same identifier, that is with the same time variable,   *)
(* are those of one synchronisation: of the same start or end of a thread, *)
(* or the n-th barrier of several threads, and each is on its own thread.  *)
SharedIdentifiers ==
  \A i, j \in DOMAIN events :
     /\ events[i].thread_id = truth[i].thread
     /\ events[i].event_id = events[j].event_id <=> truth[i].sync = truth[j].sync

(* Positions of the events of thread t among all events *)
PositionsOf(t) == SelectSeq([i \in DOMAIN events |-> i],
                            LAMBDA i : events[i].thread_id = t)

(* is_any_event and is_communication_event *)
AnyEvent == Kind
CommunicationEvent == {"send"}

(* An event dominates another one of its thread if it precedes it and is   *)
(* in each scope, on the same side, that it is in itself.                  *)
Dominates(d, k) == d < k /\ IsPrefix(truth[d].enclosing, truth[k].enclosing)

IsSound(kinds) ==
  \A t \in 1 .. thread_id_cnt - 1 :
     LET positions == PositionsOf(t)
     IN  \A pair \in ImmediateDominatorMap(ThreadEvents(t), kinds) :
            Dominates(positions[pair[2]], positions[pair[1]])

EventsByThread == [t \in 1 .. thread_id_cnt - 1 |-> ThreadEvents(t)]

(* Each event is mapped to one that must come before it, both when all     *)
(* events count and when only communication does.  There is such a map     *)
(* only if the assertion on the worklist lets the program go on.           *)
DominatorsDominate ==
  phase = "checked" =>
    \A kinds \in {AnyEvent, CommunicationEvent} :
       WorklistAssertionHolds(EventsByThread, kinds) => IsSound(kinds)

(* "assert(worklist.empty())": no event of a thread is left over when      *)
(* another one is looked at.  The threads are visited in no certain order, *)
(* so one thread that leaves something may be the last, but not two.       *)
WorklistIsEmpty ==
  phase = "checked" =>
    Cardinality(LeavingWork(EventsByThread, CommunicationEvent)) <= 1

(* Both directions of every branch are explored, each path once, and       *)
(* find_next_path() has counted them.                                      *)
ExploresEveryPathOnce ==
  /\ number_of_paths = Cardinality(explored) - (IF phase = "checked" THEN 1 ELSE 0)
  /\ phase = "done" =>
       \A p \in explored : \A k \in DOMAIN p : \E q \in explored :
          IsPrefix(Append(SubSeq(p, 1, k - 1), ~p[k]), q)
=============================================================================
