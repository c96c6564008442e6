# Verification of smt-kit and CRV

smt-kit is a C++11 library for building quantifier-free SMT formulas; CRV, built
on it, is a symbolic executor: a C++ program is run natively on symbolic values,
once per control-flow path, and a solver decides whether an error can happen on
the path. A third library, in `cka.h`, computes with partial strings and looks for
data races. This directory holds TLA+ modules of the parts that decide *which paths
are run and what is concluded from them*, TLC configurations for small
instances, and proofs that TLAPS checks for all instances.

## 1. The system

| Part | Code | State | Operations |
|------|------|-------|------------|
| Path stack | `Dfs`, `Flip` (`include/nse_sequential.h`) | list of flips (direction, frozen), replay index | `append_flip`, `has_next`, `next`, `find_next_path`, `reset` |
| `SequentialDfsChecker` | `include/nse_sequential.h`, `src/nse_sequential.cpp` | a `Dfs`, a Z3 solver, guards, errors, feasibility flag | `branch`, `force_branch`, `add_assertion`, `add_error`, `check`, `find_next_path`, `reset` |
| `Checker`, `BacktrackDfsChecker` | same | the same with a list of guards, "backtracking allowed" and "path found" flags | the same; `backtrack_check` cuts a path back to an unsat core |
| `Internal<T>` | same | a literal or a term, operands not yet merged | arithmetic with constant propagation |
| `Tracer`, `Event` | `include/crv.h`, `src/crv.cpp` | event list and its indexes, thread stack, scope stack, guard, barriers | append an event, begin/end/join a thread, open/close a scope, `barrier`, `reset` |
| `Encoder` | `include/crv.h` | Z3 solver, cached clock variables | `check`, `check_deadlock`: partial-order axioms for memory, stacks, arrays, channels, messages |
| `DfsChecker` | `include/crv.h`, `src/crv.cpp` | a `Dfs`, the tracer, guards | `branch`, scopes, `find_next_path` |
| `Thread`, `Chord`, `Mutex`, `Channel`, `Message`, `Stack` | `include/crv.h` | identifiers and addresses | front ends of the tracer |
| `Solver` | `include/smt.h`, `src/smt.cpp` | assertion stack, statistics | `push`, `pop`, `add`, `check`, `check_assumptions` |
| Expressions | `include/smt.h` | reference-counted DAG of terms | construction, copy, move, release |
| Back ends | `smt_z3.h`, `smt_msat.h`, `smt_cvc4.h`, `smt_stp.h` | cached third-party terms | one method per operator |
| Deduction solver | `include/smt_deduce.h` | facts about terms | deduction rules, `check` |
| Concurrent Kleene algebra | `include/cka.h`, `src/cka.cpp` | partial strings, programs, the index vector of a lazy program | compositions, refinement checks, least fixed points |
| Data race detector | same | symbolic programs: a string and its guards | composition, `if_then`, `is_racy` |
| BDD | `src/bdd.cpp` | - | its header is not in the repository |

**Interactions.** Everything runs in one thread. A program under analysis calls a
path explorer at each branch, assertion and error; the explorer calls the solver
and its `Dfs`, and returns the direction in which native execution goes on. The
driver loop alternates runs of the program, `check()` and `find_next_path()`. For
concurrent programs the tracer records the events of every (symbolic) thread one
after the other; the encoder turns the record into one formula whose solutions
ought to be the interleavings of the threads.

**What is hard here.** There is no concurrency in the C++ code; what is hard is
*protocol*. A search over paths is correct only if the replay of recorded flips
stays in step with a program that is run again from its start, if what one run
left in the solver never reaches a query of another, and if a direction is given
up only when no input takes it. The calls come from the program being analysed,
in any order the API admits: `check()` in the middle of a run, assertions on one
side of a branch only, literals mixed with terms, `force_branch` on an infeasible
path, a solver that answers "unknown", an unsat core of any shape. The second
hard thing is *encoding*: a set of axioms over integer clocks has to
describe exactly the runs of an interleaving machine.

**What makes each part correct.**

- *Path stack*: replay follows the recorded flips; alternation ends.
- *Explorers*: each feasible path is run once, `find_next_path()` returns false only
  when none is left; the guards are the path condition; `check()` answers sat
  exactly on the paths of failing inputs; the assertions in the code hold.
- *Tracer*: an event's guard is the condition under which control reaches it; equal
  identifiers denote one synchronisation; the dominator map is that of the unrolled
  control-flow graph.
- *Encoder*: a solution exists exactly for the runs of a sequentially consistent
  memory, of LIFO stacks and of rendezvous channels; `check_deadlock` answers sat
  exactly when a thread can be stuck; `push`/`pop` leave the solver as it was.
- *Solver and terms*: the assertions in force are those of the open levels; a term
  lives as long as it is referenced.
- *CKA*: refinement is what the algebra's laws say, also where a program is
  enumerated lazily; strings carry the order they stand for and no more.
- *Data races*: `is_racy` has a model whenever an execution races, and only then as
  far as its assumptions follow the memory.

## 2. Modules

| Module | Models | EXTENDS |
|--------|--------|---------|
| `ExecutionTree` | programs under analysis: a decision tree with assertions, errors and literal branches; which inputs take which path | |
| `Dfs` | class `Dfs` | |
| `PathExploration` | the promise of every explorer, as an abstract specification | |
| `SequentialDfs` | class `SequentialDfsChecker` with its driver loop | `ExecutionTree`, `Dfs` |
| `SequentialDfsProofs` | its theorems on types, path conditions, the search, replay and the errors reported | `SequentialDfs` |
| `DfsProofs` | lemmas about the stack of flips | `Dfs` |
| `BacktrackDfs` | `Checker` and `BacktrackDfsChecker` with their driver loop | `ExecutionTree`, `Dfs` |
| `BacktrackDfsProofs` | its theorems | `BacktrackDfs`, `DfsProofs` |
| `Tracer` | class `Tracer`: events, threads, scopes, barriers | |
| `Dominators` | `Encoder::immediate_dominator_map` for each thread, and the assertion on its worklist | |
| `DfsChecker` | `DfsChecker`, `Thread` and the tracer with their driver loop | `Tracer`, `Dfs`, `Dominators` |
| `DfsCheckerProofs` | its theorems, and those about the tracer | `DfsChecker`, `DfsProofs` |
| `MCPrograms` | the small programs the first two explorers run on | `ExecutionTree` |
| `EventPrograms` | the record of events the tracer hands to the encoder | |
| `Interleaving` | a sequentially consistent machine with LIFO stacks, arrays and rendezvous, as an abstract specification | `EventPrograms` |
| `Encoding` | the formula of class `Encoder`, one definition per member function | `EventPrograms`, `Dominators` |
| `Encoder` | a solver that finds a solution, and its replay as a run of `Interleaving` | `Encoding` |
| `EncoderProofs` | its theorems: the encodings of memory, mutual exclusion, every solution is a run, deadlocks are real | `Encoder` |
| `EncoderRuns` | a run of `Interleaving`, turned into a solution | `Interleaving`, `Encoding` |
| `EncoderRunsProofs` | its theorems: every run is a solution, deadlocks are found | `EncoderRuns` |
| `FrontEnd` | the events that `External`, `Thread`, `Chord`, `Mutex`, `Channel`, `Message`, `Stack` append | |
| `Formulas` | propositional formulas by their models; the terms of a theory solver | |
| `AssertionStack` | what a solver promises, as an abstract specification | `Formulas` |
| `Expressions` | `SharedExpr`, reference counts, hash consing, deletion | `Formulas` |
| `Solver` | class `Solver` with five back ends, the unit propagation of `DeduceSolver`, and the client's expressions | `Expressions` |
| `SolverProofs` | its theorems on expressions, references, caches, the back end's stack and the answers | `Solver` |
| `Containment` | the algebra and what a client of it is promised, as an abstract specification | `MemoryLabels` |
| `PartialStrings` | partial strings and programs, their compositions | |
| `MemoryLabels` | the labels of memory accesses, bit by bit | |
| `ReleaseAcquire` | the axioms of the memory model, with guards | `PartialStrings`, `MemoryLabels` |
| `KleeneChecker` | the checks of one string against another, the loops of the program and fixed-point checks, and a client that composes programs and asks | `ReleaseAcquire` |
| `DataRaceDetector` | `SymbolicProgram`, its compositions and `if_then`; `is_racy` and executions of symbolic programs | `ReleaseAcquire` |
| `DataRaceProofs` | its theorems, and those about symbolic programs | `DataRaceDetector` |
| `MCSequentialDfs`, `MCBacktrackDfs`, `MCDfsChecker`, `MCEventPrograms`, `MCEncoder`, `MCEncoderRuns`, `MCSolver`, `MCKleeneChecker`, `MCDataRaceDetector` | instances for TLC | |

**Terms.** The explorers never look into a term; all that matters is which inputs
satisfy it. A term is therefore the set of inputs that make it true, a conjunction
is an intersection, and a query is satisfiable when its set is not empty. This
loses nothing the explorers can tell apart: logically equivalent terms are treated
alike by the code except where `BacktrackDfs` compares guards with members of an
unsat core by address; there the core is any subset of guard *positions*.

**Programs.** `ExecutionTree` takes a set of programs as a constant. A node of the
tree is what happens between two branches on terms. Programs are deterministic in
the results of `branch`, which is what native execution gives.

**SequentialDfs.** One action per outcome of a call: `branch` on a literal, on an
infeasible path, replayed, in the hinted direction, against the hint, or nowhere;
`force_branch`; `add_assertion`; `add_error`; `check`; `find_next_path` with and
without success; `reset`. `gives_up` says whether the solver may answer
`smt::unknown` in this analysis, to any of the queries. `solver` is what has been
asserted for good: `check()` leaves its two assertions behind (the temporary
assertions of the direction queries are popped at once and do not appear). `made` is a
history variable: for each flip, the path on which it was appended, and `m_is_feasible` at
that moment. `ReplayFollowsFlips` compares it with the calls that take the flips again.

**BacktrackDfs.** `backtrack_check()` is a loop around solver calls; its iterations
are the steps `BacktrackNoCore`, `BacktrackExhausted` and `BacktrackFlip`, so that
a core may be chosen anew each time. `precise` says whether the solver decides every
query with minimal cores or may give up and return larger ones. A call of `branch()`
that would fail an assertion in the code has no step; the invariant
`CodeAssertions` says that no such call is made. `check()` is optional in the
driver loop of `BacktrackDfs` (`SkipCheck`), as in the tests.

**Tracer.** One action per member function that changes its state; `DfsChecker`
conjoins each with the call that leads to it. The stack of thread
identifiers, the stack of scopes and the guard are kept as in the code, because
restoring the one from the other when a thread or a scope ends is what can go
wrong. An event has its kind, identifiers, scope level and guard; addresses, terms
and the indexes by address are left out (they matter to the encoder, not here),
and `write` and `send` stand for the events the dominator map does not and does
count as communication.

**DfsChecker.** There is no set of programs: what a program does is chosen at the
moment it does it and written into `script`, a function from the results of
`branch` to the calls made after them; running again, the program makes the calls of
the script until it gets to a new place. A behaviour thus visits all paths of one
program, and TLC visits all programs. Beside its calls a program has a control
stack of its own (`nest`) from which `truth` records what really happens at each
event: the thread, the scopes around it, the inputs that reach it and the
synchronisation it stands for. The properties compare the tracer's records with it.
Programs do what the code supports: threads are started and branches made outside
scopes (`include/crv.h` has a TODO for branches inside); `ScopedSpec` has threads started in scopes, too. `LateScopes` says whether a
scope may follow a branch made by another thread that is not the main one.

**Dominators.** The loop over a thread's events, backwards, as a fold whose accumulator
is the loop's state: the map so far, the worklist and the current event. The code has one worklist for
all threads and asserts that it is empty whenever it comes to a thread of two events or more.
So the fold may begin with an empty one for each thread, as long as that assertion holds:
`WorklistAssertionHolds` says when, from the threads that leave something on it (`LeavingWork`). Properties of
the map suppose it, and without it there is no formula.

**Encoding.** The formula is a predicate on a record of its variables: the clock of each
event, the variables `rf!`, `pf!`, `ldf!` and the terms that are read. Of clocks only
the order matters, so the width of `TimeSort` and the epoch are left out; a match
variable is forced by the formula to be the equality of two clocks and is defined as
that. The formula is false where the encoder does not get to one (`FormulaIsMade`): the assertion on
the worklist fails, or a use of `at()` does not find an entry and throws, as for the end of a thread without
communication. That the programs of the passing runs have a formula is checked by TLC for each of them
(an assumption of `MCEncoder`, and `Encodable` in `MCEncoderRuns`). `Encoder` chooses a solution in three steps (input, clocks in ascending order,
everything else) and then replays its events in the order of the clocks; the replay
implements `Interleaving` if every solution is a run. `EncoderRuns` goes the other way:
the number of its step is an event's clock, and the record that results has to satisfy
the formula. For `check_deadlock`, events that never happen get the last clocks.
Events are made by `FrontEnd`, as the classes of `crv.h` make them, and a
program's conditions are conjunctions of equations over what it has read. The value of an
uninitialised `External` (`append_nondet_write_event`) is the program's input.
In the replay events are ordered by their clocks. The axioms allow events of one clock, and
then the order is what the axioms mean: writes come before reads, pops and loads before pushes and stores,
and of pushes on one stack the one popped first comes last (`Rank`, `PoppedAt`).
`DataFlowAssumption` is what the tracer's records have in common: an event that reads has a variable
of its own, and the variables in a term, an offset or a guard are of events that come before it
on every path that leads to it (`InScope`). A program that assigns to an `Internal` in one
scope and uses it outside of the scope is not covered; there the variable of a read that
was skipped is in force, and means nothing.

**Solver and expressions.** One client holds a few handles and makes, copies, moves, drops
and resets expressions while it calls the solver. What a destructor has still to do is a
list of steps (`todo`), because deleting one expression releases others and
notifies the solver in between. The address of a deleted expression may be used again: this
is what caches keyed by address have to survive. `leaked` and `meant` are history
variables: references that `reset()` of a handle has lost, and the meanings of the
assertions. A back end's term is a formula over the variables it has made. The libraries
behind the back ends may answer unknown, and never wrongly. The unsat core of a library is a set of
assumptions; the code allows for duplicates (`smt_z3.h:977`, `smt_msat.h:1227`), which it would
skip like positions of one proposition.

**Algebra.** A program is a sequence of partial strings; a string is a record of its
labels, reduced order, incomparable pairs, extremal events and label counts, which are
redundant and have to agree. `Carried`, `Advanced` and `IsEnd` are the odometer of
the lazy programs; `seen` (the compositions an iterator has made) and `left`, `right` (the
pomsets the operands mean) are history variables. The solver of a refinement check is a
quantifier over orders and event functions. `uint_pow` wraps at `UIntWrap`. In `Containment` the
truth about least fixed points is that each string of the one refines some power of the other (`InSomePower`). A yes has
to be true; a no has to be given only in doubt: if one power serves all strings (`InOnePower`, `Certain`)
the answer must be yes. `FixedPointsRefine` is the promise of `cka.h:1083`, that the answer is the truth,
and it fails (§3).

**Data races.** `DataRaceDetector` runs a symbolic program on a memory, event by event;
events that are not ordered may be executed at one moment if they conflict. Alternatively
a solution of `is_racy`'s formula is chosen first and the execution follows it. Time is
the total order that `_CKA_REAL_` selects, and `cka.h:17` defines `_CKA_REAL_`. A build without it encodes a
partial order; the two are equally satisfiable, because the modification order relates the stores and a
partial order that leaves two events unordered extends to a time line on which only
these two tie.

Each module ends with its properties. Operators commented *Fault* are plausible
mistakes in the definition that follows them; they are used by no action, and
substituting one for that definition makes a property fail.

## 3. Model checking

The programs of `MCPrograms` make one to three branches on arbitrary conditions
over two or three inputs, straight-line or as a loop, with direction hints of both
kinds, a literal branch, and optionally a `force_branch`, an assertion and an error
at chosen places. Two inputs make all four meanings of a condition; three
make assertions, errors and branches vary independently. Three branches
on a path are the least that let a core cut off two flips and alternate an
earlier one, and let replay pass a flip that was itself alternated.
CHECK_DEADLOCK is on in every run but those of the encoder and of the data race
detector: a formula may have no solution, a program stops at its end or where it is
stuck, and a load may wait for ever.

| Run | Shows |
|-----|-------|
| `sequential` | Replay gives each flip a feasible run has made to the call that made it, the path condition is exact, each feasible path is run once and none is missed (even if the solver gives up), all errors and only errors are reported, and the search ends. |
| `sequential_pollution` | *Violation.* After a `check()` inside the program, a branch is decided under the error disjunction, and feasible directions are pruned. |
| `backtrack` | The same for the backtracking explorer on programs that assert at the root only and add errors at the end of a run, with every unsat core, and the assertions in the code. |
| `backtrack_assertion_lost` | *Violation.* An assertion on one side of a branch prunes the other side. |
| `tracer` | Over all paths of every small multi-threaded program: event guards, the path's guard and errors hold for just the inputs they should; equal identifiers mean one synchronisation; a dominator dominates, if the assertion on the worklist lets the program go on and scopes are not nested; both sides of each branch are run, each path once. |
| `encoder_solutions` | Every solution of the formula is a run: each read, pop, load and receive gets what it gets in the interleaving machine; a deadlock reported is one; critical sections exclude one another; the quadratic and the cubic encoding of memory agree. |
| `encoder_runs` | Every run of all threads to their ends satisfies the formula, and so does every deadlock after a first match. |
| `encoder_deadlock` | *Violation.* A deadlock before any two events have met is not found. |
| `solver` | Reference counts, the expression store, caches and the stacks of client, solver and back end agree at each step, and `Solver` implements `AssertionStack`. |
| `solver_assumptions` | *Violation.* What MathSAT's `check_assumptions` asserted for one query makes a later one unsatisfiable. |
| `cka` | The redundant parts of strings agree, a lazy program yields what the eager product has, and each check answers as the algebra does (`Containment`), fixed points in doubt with no. |
| `races` | Guards follow the nesting; a race that happens is found, and one that is found happens, unless the solution contradicts an assumption the memory satisfies. |

The programs of `tracer` make up to five calls (over all their paths;
closing calls are free, so every run can end), with two branches on a path, two
threads beside the main one and scopes that are not nested
(nesting is where the dominator map goes wrong, as the table below shows). The inputs are two bits: branches test
one, scopes the other, errors either. Five calls are enough for two threads and
a barrier in each, for an event before, in both sides of and after a scope, and for a
branch in a thread before a branch of its parent. Branches pass one direction
hint only: whatever it is, the other direction is left open.

The encoder runs on fifteen programs of up to ten events on two or three threads beside the main
one, and `encoder_runs` on four more: store buffering, lost updates, a chord, barriers, three
critical sections on two threads, guarded pushes, arrays with an offset that is the input,
receives with several senders, messages, and two that can get stuck.
In `solver` there are three addresses, two handles, two assertions and one level: the
least with which an address is used again while its first expression is cached, and
an assertion outlives the client's handle. To keep the instance small each back end's client
uses some of the connectives only. Addresses and handles are interchangeable
(`SYMMETRY`; the run has no liveness property). In `cka` the strings of a program have up to four events in all, of two
labels, enough for programs of two strings and fixed-point checks over two powers, in which one
iterator stops early and the next starts from what it left. In `races` two of eight threads run, after
an initialisation or not.

The passing run of `BacktrackDfs` leaves out exactly the programs for which the
violations above occur: assertions below the root, errors before the last
branch, and calls of `check()` at a branch (`CheckingSpec` has these).

**What fails outside these bounds.** The configurations leave out programs on which the
code does not keep a property, and the runs leave out a few properties it does not keep at all. Each row is a constant,
a set of programs or an invariant to add; changing it shows the counterexample.

| Where | With | Fails |
|-------|------|-------|
| `SequentialDfs` | `MCSequentialDfs_explore` as it is | `OnlyFeasiblePaths`: the alternated last flip is followed without a query, against "only feasible paths" (`nse_sequential.h:1928`). |
| `SequentialDfs` | `MCSequentialDfs_explore` and the invariant `ForceBranchFollowsBoth` | `ForceBranchFollowsBoth`, against "follow both control flow directions regardless of their feasibility" (`nse_sequential.h:1812`): in a run F, F, F the second `branch()` finds no feasible direction and makes no flip, but the `force_branch()` behind it does; in the next run the second `branch()` takes this flip, and F, F, T is never run. |
| `BacktrackDfs` | `FailingAt = {"root", "inner", "exit"}` | `NoFalseAlarm`: an error is reported on a path whose later guards exclude it; `MissesNoFeasiblePath`: `find_next_path()` after `check()` takes a core that contains the errors. |
| `BacktrackDfs` | `CheckingSpec` | `CodeAssertions`: after a `check()` inside the program the next `branch()` fails its assertion. |
| `DfsChecker` | `MaxNesting = 2`, `Conditions <- NestedBits`, four calls | `DominatorsDominate`, against "note: scope level may have decreased by more than one" (`crv.h:2138`): in `if (*) { a } else { if (*) { x } }` the event `a` is taken to dominate `x`. |
| `DfsChecker` | `MCDfsChecker_explore` and the invariant `WorklistIsEmpty` | `WorklistIsEmpty`: `assert(worklist.empty())` (`crv.h:2097`) fails when the last communication of two threads is before a scope or inside of one. |
| `DfsChecker` | `ScopedSpec` | `EventGuardsExact`: the first event of a thread started in a scope has no guard, though it is made only if the scope is entered. |
| `DfsChecker` | `LateScopes = TRUE` | `ErrorsExact`: `set_guards` drops the branches of threads that have ended. |
| `Encoder` | `WildcardPrograms` | `EverySolutionIsARun`: a wildcard receive takes a message sent to another thread. |
| `Encoder` | `check_deadlock` of threads with a barrier (or a join) before a communication | `DeadlockIsReal`: matches look back at communication only, so a send behind a barrier that is not passed meets a receive all the same. The four threads `barrier; send(C)`, `recv(D); barrier`, `recv(C); recv(F); recv(C)` and `send(C); send(D); send(F)` always end, but `check_deadlock` answers sat: the first send takes the first receive, and the fourth thread is stuck. |
| `Encoder` | `check_deadlock` of threads that communicate in a scope | `DeadlockIsReal`: with `if (x = 0) { recv(D) } send(C)` the thread waits in the scope, and yet its send, which nothing dominates, meets a receive that another send could have met. |
| `Encoder` | a pop, or a load of zero, in a scope | `EveryRunIsASolution`: the axioms force its guard, so the other path is lost. |
| `Solver` | `NegatesConjunctions = TRUE`, three assertions, `Symbol = {a, b}` and more addresses | `AnswersAreRight`: `DeduceSolver` answers unsat to `¬a`, `¬(a ∧ b)`, `b`, which a = false, b = true satisfies: below a negation it takes b to be false because a is. |
| `KleeneChecker` | `MCKleeneChecker_promise` and the invariant `FixedPointsRefine` | `FixedPointsRefine`, against "does the first least fixed point refine the second least fixed point?" (`cka.h:1083`): with X = {(a ∥ a), a} and Y = {a} under ∥ the one string needs two factors and the other needs one, no k serves both (`cka.h:685`), and the answer is no, although each string of the first fixed point is one of the second. |

`Encoder` also leaves out programs for which there is no formula, such as those in which a thread does not communicate when
`check_deadlock` is called (`cidom_map.at` throws), and those in which the main thread communicates.

**Fairness.** `FairSpec` is weak fairness of the analysis as a whole, without
`Reset`: it is a sequential program on one thread that has a next step in every
state, so it keeps running. Nothing is assumed about which outcome a nondeterministic
solver call has. `Terminates` says each analysis ends, and after a `Reset`
the next one does too.

## 4. Proofs

`SequentialDfsProofs` proves, for every set of inputs, every tree and every set of
programs that satisfy `TreeAssumption` (nodes are well formed and a node that
branches has both successors):

- `TypeCorrect`: `Spec => []TypeOK`.
- `PathConditionExact`: `Spec => []GuardsCharacteriseRun`. One step per action;
  the lemma `SameNodes` says that extending a path does not change the nodes before its
  end. That every query is about a solver without leftovers is `SolverIsClean`.
- `SearchInvariant`: `Spec => []IInv`. `ExploresEveryFeasiblePathOnce` is far from
  inductive: it says nothing about the flips. `IInv` adds
  - `Shape`: the run and the replay of all flips stay on branching nodes; a run that
    is still feasible has consumed one flip per branch, a run declared infeasible
    has consumed all and goes on with `false`; a finished run has consumed all;
  - `Complete`: every feasible path has been run, or agrees with the
    current run and all its flips (`Underway`), or lies on the other side of a flip
    that is not frozen (`Pending`);
  - `Economical`: every path that has been run is on the other side of a frozen
    flip (`Behind`), or is the one just finished.

  A new branch keeps `Complete` because a flip is frozen only when the other direction
  was refuted by the solver, and an exact path condition makes that a fact about
  inputs (`UnderwayGoesOn`); alternation turns `Pending` at the deepest open
  flip into `Underway`, and freezing it puts the path just run `Behind`.
- `ExploresOnce`: `Spec => ExploresEveryFeasiblePathOnce`, the refinement of
  `PathExploration`. `Check` maps to `Explore`, `FindNoNextPath` to
  `Finish`, `Reset` to `Restart`, every other action to a stutter.

On replay and the errors reported it proves, under the same assumption:

- `ReplayInStep`: `Spec => []ReplayFollowsFlips`. While a run is feasible (`m_is_feasible`), the program takes the
  directions of the flips, and each flip that was made in a feasible run is taken where it was made (`made`). It follows
  from `Shape` and from what `made` says of the path. Flips of `force_branch()` in an
  infeasible run are excepted; `ForceBranchFollowsBoth` in §3 shows what becomes of them.
- `ReportsOnlyErrors`: `Spec => []NoFalseAlarm`, and `ReportsAllErrors`: `Spec =>
  []ReportsEveryError`. Beside `IInv` they need `ErrorsCharacteriseRun`: `m_errors`
  holds, as a disjunction, for just the inputs the current run has seen fail. With it
  `WhatCheckDecides` says that the query of `check()` is about the inputs
  that take the path, pass its assertions and fail on it. `AllReported` (no path already
  run that has a failing input is unreported) and `Complete` then give the second theorem.

`BacktrackDfsProofs` proves, for every set of inputs and programs, for every unsat core the
solver may return, for a driver that calls `check()` after a run or not at all (not for calls inside
the program, `CheckingSpec`; §3 has what fails there):

- `ShapeInvariant`: `Spec => [](TypeOK /\ Shape)`. `Shape` says how the parts of the analysis
  fit together: run and flips stay on the program's tree (`RunOnTree`, `FlipsOnTree`), the run has
  made the decisions of the flips it has replayed (`Followed`), and the `i`-th guard is the
  condition of the `i`-th flip (`GuardsMatch`), in the middle of backtracking, too. Its
  consequences are `TypeCorrect`, `AssertionsHold` (the `assert`s of the code) and `ReplayIsFaithful`.
- `ReportsWhatItRuns`: `Spec => []NoneOverlooked`, where `NoneOverlooked` says that a path run to
  its end has been reported if an input takes it, passes its assertions and fails. The invariant is
  `VInv`: `Exact` (guards, assertions and errors stand for what the run has made so far),
  `ChecksAssertions` and `CutsInfeasible` (a run is only given up, and the rest of a path only
  dropped, where no input is left).
- `AlarmsAreReal`: `Spec /\ ErrorsLast => []NoFalseAlarm`. `ErrorsLast` says that errors are added
  after the last branch of a path only. §3 has what happens otherwise.
- `NoPathTwice`: `Spec => Once!Spec`. `Once` is `PathExploration` with nothing required: no path is
  explored twice, for any program. The invariant is `EInv`; its part `Economical` puts every
  explored path behind a frozen flip, and dropping flips keeps it there, as what is dropped is
  behind the flip that is alternated (`CutKeepsBehind`, `CutLeavesBehind`).
- `ExploresOnce`, `MissesNothing` and `ReportsAll`: under `ErrorsLast` and `AssertionsFirst` (all
  assertions are made before the first branch) every path that some input takes is explored, just
  once, and reported if it fails. Of `MissesNothing` there is a third hypothesis in the formula: unsat cores are minimal
  and every query is decided (`precise`), or the program adds no errors; of `ReportsAll`, `precise`, as part of the
  property; and `ExploresOnce` requires no path (`Required`) if neither holds. `Complete` is like that of `SequentialDfs`, but flips are dropped
  before they have been tried. `LeavesBeforeCore` is the argument: the guards up to the last one of
  the unsat core contradict the assertions, so no path that some input takes goes beyond it. `Lossless`
  says that backtracking asks about the assertions alone, or has no core to go by: with `ErrorsLast`
  no guard contradicts the errors (`NoGuardToBlame`). `AssertionsFirst` is needed because
  a later assertion holds for one path only, but may be in a core that rules out others.

`DfsCheckerProofs` proves, for every set of inputs, every program and however many threads, scopes,
branches and calls it has (the bounds of the model are never used):

- `TypeCorrect`: `Spec => []TypeOK`. That `Last(scope_stack)` is never read from an empty stack, and that
  a thread's number of barriers is in the list, depends on how threads and scopes nest. The invariant is
  `Core`; beside types it has `ScriptOK` (a run ends at a branch or at the exit only), `Shape`, `Numbered`
  and `Ident`. `Shape` says that the tracer's two stacks are the program's: `ThreadsMatch` gives, for each
  frame the program is inside of, how many threads have been started around it, and `ScopesMatch` pairs
  scope `i + 1` with frame `i`.
- `Identifiers`: `Spec => []SharedIdentifiers`. Events have the same identifier exactly if they are of one
  synchronisation: the start of a thread, its end with the joins that wait for it, a barrier of several
  threads. The code looks the end of a thread up as the last event of the thread, and a barrier by the
  number of barriers the thread has had. `Joinable` (the last event of a thread that has ended is its end)
  and `BarrierIds` (identifiers of barriers are in the list, no others are) say why this finds the
  right one.
- `EventGuards`: `Spec => []EventGuardsExact`. On the path taken, the guard of an event says for which
  inputs the program makes it, if threads are started and branches made outside of scopes, as in
  `Spec` (with `ScopedSpec` it fails, §3). `ScopesExact`, a part of `Shape`, has to say so for scopes that are still
  open, as the guard is set from them when an else-branch begins or a scope or thread ends.
- `PathGuard`: `Spec => []PathGuardExact` (no input of the path is ruled out by `tracer.guard()`), and
  `Errors`: `Spec => []ErrorsExact` if `~LateScopes`. They rest on `Guarded`: `CheckerGuards` relates the guards of `DfsChecker` to what reaches the next
  call. If only the main thread and the thread around a scope have branched, the scope's guard has
  all of the path condition that the main thread's guard has not (`BranchesKnown`). With `LateScopes` this
  is false, and `ErrorsExact` fails (§3).
- `ExploresOnce`: `Spec => []ExploresEveryPathOnce`. `Economical` puts every path already run behind a
  frozen flip. `BothSides` says that the other direction of each branch of each explored path has been
  explored too or is open (`WillTurn`); as this is about any explored path, not about the flips, it
  needs `FrozenExplored`.

`SolverProofs` proves, for every finite set of addresses (`ExpressionsAssumption`) and of the client's
variables, every set of symbols and back ends, and every bound on assertions and levels:

- `ReferencesCounted`: `Spec => []RefCountsExact`, the count in each expression is the number of pointers
  to it. A pointer is a variable of the client, an operand, an assertion, one of those that a destructor
  has still to give up (`todo`), or one that `reset()` of a variable has lost. The property does not say
  enough about the steps of a destructor to be inductive; `Memory` adds, as `OnItsWayOut`, that
  what nothing points to is free or about to be deleted, and what is about to be deleted is pointed to by
  nothing (so `~Expr()` never runs twice for what is in use, and the operands of an expression that
  is being deleted are counted in `todo` and no longer as operands). Each step moves pointers from one
  place to another: `MemoryKept` is the argument for steps that make and delete nothing, `MadeNew`,
  `MemoryDecLast` and `MemoryDelete` are for the rest. They rest on how
  occurrences in a sequence add up (`OccursInParts`, `OccursReversed`) and on `OperandsApart`, which
  counts the operands of one expression apart from all others.
- `OneOfEach`: `Spec => []EqualsAreOne`. `StoreOK` says that with hash consing the store has
  just the expressions in use, no two alike. `delete_from_store` erases whatever `is_equal()`, so
  it needs this to erase no other; and the count has to be exact for what it erases to be out of use.
- `TypeCorrect`: `Spec => []TypeOK`. That `pop()` finds as many assertions as the level
  on top has (`LevelsFit`) needs to say where each level begins (`Ordered`).

`SolverInvariant` is the inductive invariant of all three. `SolverAssumption` says which connectives the
client uses and that the bounds are natural numbers. On what terms mean, it also proves the following, if MathSAT
is asked to assume symbols only (`OnlySymbols`; `solver_assumptions` shows what happens otherwise):

- `CachesCoherent`: `Spec => []CacheCoherent`, and `BackEndsInStep`: `Spec => []BackEndInStep`. The inductive
  invariant is `StackInStep`:
  - `WellFormed`: each expression has the operands of its kind, and a rank above theirs. Meanings and terms are
    recursive functions along the operands; the ranks say that they are well defined (`MeaningsAre`,
    `TermsAre`), and give induction (`ExpressionInduction`).
  - `CacheOK`: the term in the cache means what the expression at its key means, and the expression is there
    or about to be deleted. The second case is needed as `notify_delete()` is called only after
    the reference count has become zero; `ShapesKept` says that until then nothing else is made at its address.
  - `InLevels`: the assertions, cut into levels, are what the client means, and the back end has their terms, level by
    level. In the middle of `pop()` the back end has one level more, and in the middle of `reset()` anything: so the
    invariant speaks of what destructors have still to do (`Due`).
  - `SettledAt`: every part of an assertion that the back end remembers has been encoded. Without this the term
    of an assertion could change later, when CVC4 makes a new variable for a symbol whose expression was made anew.
- `SolverPromise`: `Spec => SolverKeepsPromise`, the refinement of `AssertionStack`, if also `DeduceSolver` gets no
  negated conjunction (`NoNegatedConjunctions`; §3 has what it answers otherwise). A call maps to the operation of
  the same name, a query to `Ask`, and expressions, destructors and constructor to stutters. What has to be shown of queries:
  - *Libraries.* They are asked about terms, the promise is about meanings, and a meaning is the term with its variables
    renamed to symbols (`MeaningOfTerm`). That keeps consistency only if no two variables in use are of one symbol
    (`VariablesApart`), a fact about CVC4, which may make many. `PlainCache` is the additional invariant for the others.
  - *Assumptions.* Z3 gets `z3_prop!i => assumption`, for a new variable each. A set of these propositions
    contradicts the assertions exactly if the assumptions they stand for do (`AssumesAssumptions`), and equal
    propositions stand for equal assumptions (`PropsApart`). So the core stored, of each proposition the first position
    in ascending order (`StoredCoreIs`), is one if there is room for all assumptions (`PromiseAnswers`).
  - *Deductions.* `PropagateRight`: all facts propagated from what is true are true. By induction along the
    operands, for both signs; only below a negation does a conjunction force an operand that it should
    not. `RoundsRight` carries it along assertions and rounds. Nothing is said of how much `DeduceSolver` finds out.

`ExpressionsAssumption` has two more parts here: names are not addresses, which CVC4's cache has both of as keys, and
`Null` is neither.

`DataRaceProofs` proves, for all symbolic programs that can be built, of any size and however conditions
and compositions are nested. `Constructed` says what can be built: what comes last in a list
whose members are single accesses, or `SymbolicConcurrent`, `SymbolicSequential` or `if_then` of members
before them. It is the only hypothesis of the theorems about `Spec`; the programs of the run satisfy it.

- `ConstructedIsWellFormed`: what can be built is `WellFormed`, which is what `SymbolicProgram` documents
  as its invariants (`cka.h:1618`), with what `guard()` relies on beside them: assumptions are loads and
  sequenced before what they guard, the order ascends, the minimal events are those that no pair of the order leads
  to. One theorem per constructor (`OneAccess`, `ConcurrentPrograms`, `SequentialPrograms`,
  `ConditionalPrograms`) shows that it keeps all this: events and guards of the second operand move
  together, and the condition of `if_then` comes before every event, as it comes before the
  minimal ones (`FirstIsBefore`). `ConditionalPrograms` also says what becomes of each guard: only the condition is left
  unguarded, what had no guard gets the condition, and every other guard is the one it was, one position further. The first member of a list that were not well-formed would then be one after all.
- `GuardsAreNested`: `Spec => []GuardsFollowNesting`.
- `NoRaceIsMissed`: `Spec => []EveryRaceIsFound`. The property speaks of finished executions only;
  `ExecutionInvariant` says of every moment that only races coincide (`OnlyRacesCoincide`), that the memory has
  the last store that took place (`MemoryHasLast`), and that each load has read the last store
  before it (`ReadsFit`). What is already decided has to stay: an event starts when all its
  assumptions are done (`AssumptionsDone`), so whether it takes place is settled. From the
  invariant the axioms follow one by one (`ExecutionObeysAxioms`), and two accesses at one moment are a
  disjunct of the formula (`CoincidencesAreRaces`).
- `ReportedRacesHappen`: `Spec => []RacesAreReal`. `ReplayInvariant` adds that the replay is in the order of the plan's
  moments and that what has been executed went as planned. Whether an event takes place is
  then as planned (`GuardsAsPlanned`: the assumptions above it are nested, so the outermost that
  fails is planned to fail), and the memory has the store the plan reads from, or none that
  satisfies the assumption the plan contradicts (`MemoryAsPlanned`). The condition
  `ContradictsMemoryOnly` is part of the property: the formula also has solutions that contradict an
  assumption which the memory would satisfy (`cka.h:1490`), and of these it says nothing.

The assumptions above an event and "sequenced before" are least sets in the model, defined
as the intersection of the sets closed under guards or under the order. So no induction along the guards
is needed: to show that assumptions have a property, one shows that the events with this property are closed.

`EncoderProofs` proves, for every set of programs that satisfies `ProgramsAssumption` (each
thread is a sequence of different events, all of them in the table by identifier;
identifiers are positive) and `SectionsAssumption`:

- `TypeCorrect`: `Spec => []TypeOK`, which includes that no event has a clock before all
  events that come before it in its threads have one. `TickAlongThreads` is why:
  `ThreadOrder` is only about neighbours, so the inductive invariant `Clocks` says of any two
  events of a thread that their clocks ascend.
- `EncodingsAlwaysAgree`: `Spec => []EncodingsAgree`. The quadratic encoding of memory with one
  bound per read (`_SUP_READ_FROM_`) and the cubic one with "from-read" admit the
  same flows and values, for every program, if clocks differ. `SupremumIsLastWrite` is
  the argument for one read: if it reads from a write its bound is the clock of that
  write, otherwise its own clock will do.
- `MutualExclusion`: `Spec => []CriticalSectionsExclusive`. `NothingLocksInBetween`: what
  `unlock()` reads is the identifier of its thread, so the write it reads from is
  the one of `lock()` or an earlier one of this thread; the bound of the read then
  leaves no clock between the two for a write of another thread. Two sections of two
  threads that overlap would contradict this for one of them. `SectionsAssumption` says what a
  section is: lock and unlock in this order, in one thread and outside of scopes, no write of
  the thread's identifier to the mutex by anyone else or in between, sections of
  one mutex one after the other in each thread. Of all this the code itself asserts only that the
  thread that unlocks is the one that has locked (`crv.h:2400`).

`SolutionInvariant` is the inductive invariant of all three: the shape of a solution,
`Clocks`, and for a solution that has been found the axioms and the assertions.

It also proves, under `DataFlowAssumption` as well:

- `SolutionsAreRuns`: `Spec => EverySolutionIsARun`, the refinement of `Interleaving`, for every set of
  programs in which wildcards are unambiguous (`UnambiguousWildcards`; see §3 for one in which they
  are not) and in which `check_deadlock()` is called only where no memory is read
  (`ReadsNothingForDeadlock`). Choosing a solution maps to stutters, each step of the replay to one step of the
  machine, a receive and its send together to `Communicate`. That all programs of `MCEncoder` satisfy the two
  conditions is checked there by TLC. The second one is needed because `check_deadlock()` gives clocks to
  events behind a wait that never ends, too, and a read may take its value from one of them.
- `ReplayInvariant`: `Spec => []ReplayInv`. What has been replayed is closed under the order of
  threads and under meeting, nothing in it waits for ever (`ClosedUnder`), and it came in the order
  `Precedes`, with nothing left out that should have been before (`InOrder`). For the latter
  some event of the least clock has to be ready whenever events remain: its
  predecessors have lesser clocks, and the one it meets has the same clock (`FirstAreReady`,
  `RemainingAreLater`). So at the turn of an event all that precede it have happened and none that follow.

  From the order follow, kind by kind, `ReadsLastWrite`, `PopsTop` and `LoadsLastStore`: each axiom is about
  clocks, and the lemma turns it into a fact about the machine's trace. `PopsTop` is the hardest: the lifo axiom
  leaves pushes of one clock unordered, and only the order in which they are popped says
  which one is on top. `SameGuard` says that an event happens in the machine just if its guard holds in the
  solution, because all variables in it have been read by then (`InScopeIsReplayed`).
  `MeetingMeets` is where a wildcard must be unambiguous.
- `DeadlocksAreReal`: `Spec => []DeadlockIsReal`. When nothing more can be replayed of a solution of
  `check_deadlock()`, the machine has a deadlock. `StuckInvariant` keeps what the formula says, that the
  last communication of some thread is not matched. The axiom of matches is about immediate dominators only;
  `MatchedAfterMatched` carries it along a thread, by the least clock: all communication before one that
  is matched is matched, too. `MatchedIsReplayed` is the other half: when nothing is ready, all that is matched
  has been replayed. So if a receive and a send could still meet, all communication before them would be matched
  and they would not, against the axiom that matches are maximal.

  The hypothesis is `JustCommunicates`, for the programs of `check_deadlock()` only: communication is in no scope,
  what a thread waits for before it needs no communication, and the dominator map leads from a communication, and
  from the end of the thread, to the communication before. The last part is computed by a fold, so
  TLC checks it of each program of `MCEncoder`; the other parts are needed, as the two rows on `check_deadlock` in
  §3 show.

`EncoderRunsProofs` proves the other direction, under `ProgramsAssumption` and `DataFlowAssumption`. Together with
`SolutionsAreRuns` it says that the formula is exact for programs that satisfy the hypotheses of both: `Encodable`,
`UnambiguousWildcards` and `ReadsNothingForDeadlock`.

- `RunInvariant`: `Spec => []IInv`. A run gives an event the number of its step as clock, and `IInv`
  says that these clocks alone tell what has been read: `ReadInv` that there is no write
  between a read and its source, `PopInv` that each push between a pop and its source has been popped
  before the pop, `LoadInv` that there is no store at the same offset between a load and its source,
  `MeetingInv` that just the events that met share a clock, and that each send has met one receive.
  The machine speaks of its trace, and a trace may contain two events of one clock; `ClockInv` is what
  relates the two (`LastByClock`). That a source stays the source is why all this is stated of clocks: what
  happens later has a later clock (`NewIsLater`), and an event is on the path then if it is now
  (`EffectStep`), as every variable of its guard has been read before it. `PopInv` is the
  strengthening that makes the order of stacks inductive: "on top" is said in the machine of the
  trace at the moment of the pop, in the axiom of all pops there will ever be.
- `RunsAreSolutions`: `Spec => []EveryRunIsASolution`. One lemma per axiom (`RunsKeepThreadOrder`, `RunsReadFrom`,
  `RunsAreSerial`, `RunsPop`, `RunsLoad`, `RunsMatch`, `RunsStart`). The hypothesis `Encodable` is what
  the axioms suppose of a program: the ones for pop and load force the guard of the event
  (`crv.h:1396`, `crv.h:1530`), a load of zero has to come before each store at its offset whether the
  store is on the path or not (`crv.h:1516`), and the one for initial matches forces some first receive
  of the program to meet (`crv.h:1926`). So these events have to be outside of scopes, of the first receives one;
  runs on which they do not take place are lost by the formula. `DominatorsComeFirst` says that the dominator map leads to
  earlier communication in no other branch, which is what `RunsMatch` needs; the map is computed by a fold, so TLC checks this
  condition, of each program of the runs, as it checks `DominatorsDominate` of what programs make on the fly. Nested scopes may violate it
  (§3). `FormulaIsMade` is the last part: the worklist is empty where the code asserts it, and nothing throws;
  and terms and offsets are integers (`IntegerTerms`).
- `DeadlocksAreFound`: `Spec => []EveryLaterDeadlockIsFound`. A thread in a deadlock waits at its next
  event, and this event is communication (`WaitingIsNext`), since what threads wait for otherwise needs no communication and
  has happened (`StartsAreDone`). What waits has not met anything, so its thread cannot have
  finished (`DeadlocksDoNotFinish`); that matches are maximal holds because a receive and a send whose dominators have matched
  are both next in their threads, and the machine could take them (`DeadlocksMatch`).
  The hypothesis `DeadlockEncodable` is `JustCommunicates` and `UnambiguousWildcards` again, that the main thread does not
  communicate (the finalizers ignore it, `crv.h:1907`) and no thread ends with communication (which the code
  asserts, `crv.h:1912`), that there is a formula
  (`FormulaIsMade`), and no assumption or assertion, which a deadlock may precede.
  That two events must have met before cannot be dropped: `encoder_deadlock` is the counterexample.

All programs of `MCEncoderRuns` satisfy both hypotheses (`ProgramsAreEncodable` there). The two proof modules of the
encoder have a few lemmas on clocks and threads in common, since what they extend declares the same variables
and definitions with different bodies, so that no module can extend both.

The induction theorems of the library take an operator as parameter, which the provers cannot instantiate. Where a
proof is by induction (over steps of a replay, levels, operands, rounds), it goes by the least number of a set, with the
induction hypothesis as a set: `NumberInduction`, `LevelInduction` and `ExpressionInduction` of `SolverProofs`
are stated like this. That a recursive definition has a solution is proved the same way (`Recursion`).

Only model-checked: `KleeneChecker`, whose unions and repetitions of strings are computed by recursion over what a
program holds (`StringsExact`, `LazyIsEager`); of `DfsChecker`, what is said of the dominator map
(`DominatorsDominate`), which is computed by a fold and holds without nested scopes only; and termination (liveness is out of the
prover's reach).

## 5. Not modelled

- `Internal<T>`: constant propagation and lazily merged operands simplify terms, one
  template per operator; there is no state beside the term. In the explorers a
  condition is a literal or a set of inputs, which is what is left of it.
- The translation of the back ends, operator by operator, and sorts, bit vectors, n-ary
  operators and functions: three Boolean operators stand for them.
  CVC4's cache of functions by the address of the application (with hash consing) is left out, too.
- `Encoder::check` of one condition and the cache of clocks across `push` and `pop`.
- `more_precise_shortcut` is an operator of `KleeneChecker` that no check uses, as in the code.
- Printing and statistics; `src/bdd.cpp`, whose header is missing and which the build does
  not compile; the vendored test framework.
