--------------------------- MODULE DataRaceDetector ---------------------------
(***************************************************************************)
(* DataRaceDetector::is_racy against the executions it reasons about.  A   *)
(* solver model places the events of a symbolic program on a time line     *)
(* (TotalOrderModel) and chooses what the loads read; is_racy reports a    *)
(* race when two conflicting accesses may share a moment.                  *)
(*                                                                         *)
(* The module executes programs one event after another on a memory.  With *)
(* no plan, executions are free, and two accesses that race are executed   *)
(* at one moment.  With a plan, the moments and the reads of a solver      *)
(* model are chosen first and the execution follows the moments.           *)
(***************************************************************************)
EXTENDS ReleaseAcquire, FiniteSetsExt

(***************************************************************************)
(* Programs with control flow: a partial string p of memory accesses, the  *)
(* map from each event to the assumption that guards it (or to itself),    *)
(* and the events no assumption guards.                                    *)
(***************************************************************************)
SymbolicProgram(label) ==
    [assume_map |-> <<1>>, unguarded_events |-> {1}, p |-> PartialString(label)]

(***************************************************************************)
(* Two boxes beside one another in one box, where p composes their strings.*)
(***************************************************************************)
NestUnshifted(X, Y, p) ==
    [assume_map |-> X.assume_map \o Y.assume_map,
     unguarded_events |-> X.unguarded_events \cup {length(X.p) + e : e \in Y.unguarded_events},
     p |-> p]

Nest(X, Y, p) ==
    [assume_map |-> X.assume_map \o [e \in EventsIn(Y.p) |-> length(X.p) + Y.assume_map[e]],
     unguarded_events |-> X.unguarded_events \cup {length(X.p) + e : e \in Y.unguarded_events},
     p |-> p]

SymbolicConcurrent(X, Y) == Nest(X, Y, Concurrent(X.p, Y.p))

SymbolicSequential(X, Y) == Nest(X, Y, Sequential(X.p, Y.p))

(***************************************************************************)
(* If an acquire load of a reads b, then P, else nothing: the assumption   *)
(* becomes the guard of what was unguarded in P.                           *)
(***************************************************************************)
if_then(a, b, P) ==
    LET Assume == SymbolicProgram(assume_acquire_eq_label(a, b))
        Q == Nest(Assume, P, Sequential(Assume.p, P.p))
    IN  [Q EXCEPT
            !.unguarded_events = {1},
            !.assume_map = [e \in DOMAIN @ |->
                               IF e - 1 \in P.unguarded_events THEN 1 ELSE @[e]]]

CONSTANT Programs       \* symbolic programs under analysis

NoByte == 256           \* the value of an access that did not take place

VARIABLES
    program,    \* the symbolic program
    mode,       \* "run", or "order", "solve" and "replay" of a plan
    plan,       \* the solver's model: time, rf and value of each event
    time,       \* the moment at which each event was executed, 0 before
    memory,     \* the store each address was last written by
    rf,         \* the store each load has read
    value       \* the byte each access has written or read

vars == <<program, mode, plan, time, memory, rf, value>>

x == program.p
Events == EventsIn(x)
Map == program.assume_map

Label(e) == x.labels[e]
Loads == {e \in Events : is_acquire_load(Label(e))}

(***************************************************************************)
(* TotalOrderModel: an event happens before another when its time is less, *)
(* and the pairs of the reduction must be in that order.                   *)
(***************************************************************************)
HappensBefore(t) == {pair \in Events \X Events : t[pair[1]] < t[pair[2]]}

sequenced(t) == \A pair \in x.order : t[pair[1]] < t[pair[2]]

Solution(t, r, v) == [before |-> HappensBefore(t), rf |-> r, value |-> v]

(***************************************************************************)
(* The disjuncts dr of is_racy: a store and a load, or two stores, that    *)
(* are no atomics, with their guards, neither before the other.            *)
(***************************************************************************)
ConflictingPairs ==
    UNION {(NoneStores(x, a) \X NoneLoads(x, a))
           \cup {pair \in NoneStores(x, a) \X NoneStores(x, a) : pair[1] < pair[2]} :
           a \in Addresses(x)}

Races(s) ==
    {pair \in ConflictingPairs :
        /\ guard(Map, x, pair[1], s)
        /\ guard(Map, x, pair[2], s)
        /\ ~Before(s, pair[1], pair[2])
        /\ ~Before(s, pair[2], pair[1])}

is_racy(s) == release_acquire(Map, x, s) /\ Races(s) # {}

(***************************************************************************)
(* Execution.  An event waits for those sequenced before it.  It takes     *)
(* place if the assumptions above it hold; a load waits for a store to     *)
(* read from, except for an assumption, which fails without one.           *)
(***************************************************************************)
Init ==
    /\ program \in Programs
    /\ mode \in {"run", "order"}
    /\ plan = [time |-> [e \in Events |-> 0], rf |-> <<>>, value |-> <<>>]
    /\ time = [e \in Events |-> 0]
    /\ memory = [a \in Addresses(x) |-> Nowhere]
    /\ rf = [e \in Loads |-> Nowhere]
    /\ value = [e \in Events |-> NoByte]

Now == Max({time[e] : e \in Events})

Done(e) == time[e] # 0
ReadyIn(t, e) == t[e] = 0 /\ \A pair \in x.order : pair[2] = e => t[pair[1]] # 0

TakesPlace(e) ==
    \A assumption \in Assumptions(Map, e) : Expected(x, assumption, value[assumption])

Planned(e) ==
    mode = "replay" => \A f \in Events : ~Done(f) => plan.time[e] <= plan.time[f]

Store(e) ==
    /\ is_release_store(Label(e))
    /\ memory' = [memory EXCEPT ![address(Label(e))] = e]
    /\ value' = [value EXCEPT ![e] = byte(Label(e))]
    /\ UNCHANGED rf

Load(e) ==
    LET store == memory[address(Label(e))]
    IN  /\ e \in Loads
        /\ store # Nowhere
        /\ rf' = [rf EXCEPT ![e] = store]
        /\ value' = [value EXCEPT ![e] = byte(Label(store))]
        /\ UNCHANGED memory

AssumeNothing(e) ==
    /\ e \in Loads
    /\ is_assume_acquire_eq(Label(e))
    /\ memory[address(Label(e))] = Nowhere
    /\ UNCHANGED <<memory, rf, value>>

Plain(e) ==
    /\ is_none_store(Label(e)) \/ is_none_load(Label(e))
    /\ UNCHANGED <<memory, rf, value>>

Skip(e) ==
    /\ ~TakesPlace(e)
    /\ value' = [value EXCEPT ![e] = IF is_store(Label(e)) THEN byte(Label(e)) ELSE NoByte]
    /\ UNCHANGED <<memory, rf>>

Execute(e) ==
    /\ mode \in {"run", "replay"}
    /\ ReadyIn(time, e)
    /\ Planned(e)
    /\ \/ TakesPlace(e) /\ (Store(e) \/ Load(e) \/ AssumeNothing(e) \/ Plain(e))
       \/ Skip(e)
    /\ time' = [time EXCEPT ![e] = Now + 1]
    /\ UNCHANGED <<program, mode, plan>>

Race(e, f) ==
    /\ mode = "run"
    /\ <<e, f>> \in ConflictingPairs
    /\ ReadyIn(time, e) /\ ReadyIn(time, f)
    /\ TakesPlace(e) /\ TakesPlace(f)
    /\ time' = [time EXCEPT ![e] = Now + 1, ![f] = Now + 1]
    /\ UNCHANGED <<program, mode, plan, memory, rf, value>>

(***************************************************************************)
(* The choice of a model: the moments, then reads and values that satisfy  *)
(* the formula of is_racy.                                                 *)
(***************************************************************************)
Place(S) ==
    /\ mode = "order"
    /\ S # {}
    /\ \A e \in S : ReadyIn(plan.time, e)
    /\ plan' = [plan EXCEPT !.time =
                  [e \in Events |->
                      IF e \in S THEN Max({plan.time[f] : f \in Events}) + 1 ELSE plan.time[e]]]
    /\ mode' = IF \A e \in Events : plan'.time[e] # 0 THEN "solve" ELSE "order"
    /\ UNCHANGED <<program, time, memory, rf, value>>

Bytes == {byte(Label(e)) : e \in Events} \cup {NoByte}

Valuations(r) ==
    LET free == {e \in Loads : is_assume(Label(e)) /\ r[e] = Nowhere}
    IN  {[e \in Events |->
             IF is_store(Label(e)) THEN byte(Label(e))
             ELSE IF e \in free THEN v[e]
             ELSE IF e \in Loads /\ r[e] # Nowhere THEN byte(Label(r[e]))
             ELSE NoByte] : v \in [free -> Bytes]}

Solve ==
    /\ mode = "solve"
    /\ \E r \in [Loads -> Events \cup {Nowhere}] :
          /\ \A load \in Loads : r[load] \in Sources(x, load) \cup {Nowhere}
          /\ \E v \in Valuations(r) :
                /\ is_racy(Solution(plan.time, r, v))
                /\ plan' = [plan EXCEPT !.rf = r, !.value = v]
    /\ mode' = "replay"
    /\ UNCHANGED <<program, time, memory, rf, value>>

Next ==
    \/ \E e \in Events : Execute(e)
    \/ \E e, f \in Events : Race(e, f)
    \/ \E S \in SUBSET Events : Place(S)
    \/ Solve

Spec == Init /\ [][Next]_vars

(***************************************************************************)
(* The invariants (i) to (iv) of SymbolicProgram (cka.h:1618-1627) for     *)
(* every nesting of if_then and compositions, and what guard() relies on:  *)
(* going from guard to guard, each is sequenced before what it guards.     *)
(***************************************************************************)
SequencedBefore(p, e, f) ==
    \A S \in SUBSET EventsIn(p) :
        (\A pair \in p.order : pair[2] \in S \cup {f} => pair[1] \in S) => e \in S

GuardsFollowNesting ==
    /\ Len(Map) = length(x)
    /\ \A e \in Events :
          /\ (Map[e] = e) <=> (e \in program.unguarded_events)
          /\ Map[e] # e => is_assume(Label(Map[e])) /\ SequencedBefore(x, Map[e], e)
    /\ program.unguarded_events \subseteq Events
    /\ (program.unguarded_events = {}) <=> (Events = {})

(***************************************************************************)
(* No data race is missed: the moments, reads and values of an execution   *)
(* that comes to its end satisfy the axioms, and two accesses that were    *)
(* executed at one moment satisfy the formula of is_racy, however the      *)
(* threads interleaved and whichever branches they took.                   *)
(***************************************************************************)
Finished == \A e \in Events : Done(e)

EveryRaceIsFound ==
    mode = "run" /\ Finished =>
        LET s == Solution(time, rf, value)
        IN  /\ sequenced(time)
            /\ release_acquire(Map, x, s)
            /\ \A pair \in ConflictingPairs : time[pair[1]] = time[pair[2]] => pair \in Races(s)

(***************************************************************************)
(* A race is real when the model contradicts an assumption only where the  *)
(* memory does: "if the load is an assumption and there is no store from   *)
(* which it can read to be satisfied" (cka.h:1492-1493).  The execution    *)
(* that follows the moments of such a model takes the model's branches,    *)
(* reads what it says and never waits for a store, so both racing accesses *)
(* take place, unordered.                                                  *)
(***************************************************************************)
PlanSolution == Solution(plan.time, plan.rf, plan.value)

LatestStores(e) ==
    {store \in ReleaseStores(x, address(Label(e))) :
        /\ guard(Map, x, store, PlanSolution)
        /\ plan.time[store] < plan.time[e]
        /\ \A other \in ReleaseStores(x, address(Label(e))) :
              guard(Map, x, other, PlanSolution) /\ plan.time[other] < plan.time[e]
                  => plan.time[other] <= plan.time[store]}

TiedStores(e) ==
    {store \in ReleaseStores(x, address(Label(e))) : plan.time[store] = plan.time[e]}

ContradictsMemoryOnly ==
    \A e \in Loads : Contradicted(Map, x, e, PlanSolution) =>
        \A store \in LatestStores(e) \cup TiedStores(e) : ~Expected(x, e, byte(Label(store)))

AsPlanned(e) ==
    /\ TakesPlace(e) <=> guard(Map, x, e, PlanSolution)
    /\ e \in Loads /\ TakesPlace(e) =>
          IF is_assume(Label(e))
          THEN Expected(x, e, value[e]) <=> Expected(x, e, plan.value[e])
          ELSE value[e] = plan.value[e]

CanProceed(e) ==
    TakesPlace(e) /\ e \in Loads =>
        memory[address(Label(e))] # Nowhere \/ is_assume(Label(e))

RacesAreReal ==
    mode = "replay" /\ ContradictsMemoryOnly =>
        \A e \in Events :
            /\ Done(e) => AsPlanned(e)
            /\ ReadyIn(time, e) /\ Planned(e) => CanProceed(e)
=============================================================================
