------------------------------- MODULE Encoder -------------------------------
(***************************************************************************)
(* The solutions of the formula of class Encoder (include/crv.h), and what *)
(* they stand for.  A solver picks the input, then the clocks of events in *)
(* ascending order, several events at a time, then the variables of events *)
(* that read, such that the formula holds.  The events are then replayed   *)
(* in the order of their clocks, which ought to be a run of Interleaving   *)
(* in which each event reads what the solution says.                       *)
(***************************************************************************)
EXTENDS Encoding

VARIABLES
  query,     \* "check" or "check_deadlock": the method that is called
  phase,     \* "clocks", or "replay" once there is a solution
  solution,  \* the formula's variables, as far as they have been chosen
  replayed   \* events that have been replayed, in this order

vars == <<program, query, phase, solution, replayed>>

Reads == IdsOf({"read", "pop", "load"})

TypeOK ==
  /\ program \in Programs
  /\ query \in program.queries
  /\ phase \in {"clocks", "replay"}
  /\ DOMAIN solution.time \subseteq Ids
  /\ \A id \in DOMAIN solution.time : Predecessors(id) \subseteq DOMAIN solution.time
  /\ DOMAIN solution.flow \in {{}, Reads}
  /\ DOMAIN solution.val \subseteq Variables
  /\ phase = "replay" => DOMAIN solution.time = Ids /\ DOMAIN solution.flow = Reads
  /\ ToSet(replayed) \subseteq Ids

Formula(m) == IF query = "check" THEN check(m) ELSE check_deadlock(m)

Init ==
  /\ program \in Programs
  /\ query \in program.queries
  /\ phase = "clocks"
  /\ \E v \in program.inputs :
        solution = [time |-> << >>, flow |-> << >>, val |-> [x \in {Input} |-> v]]
  /\ replayed = << >>

(* The events in ids have the next clock. *)
Ticked(ids) ==
  [id \in ids \union DOMAIN solution.time |->
     IF id \in ids THEN Cardinality(Range(solution.time)) + 1 ELSE solution.time[id]]

Tick(ids) ==
  LET time == Ticked(ids)
  IN  /\ phase = "clocks"
      /\ ThreadOrder(time)
      /\ solution' = [solution EXCEPT !.time = time]
      /\ UNCHANGED <<program, query, phase, replayed>>

(* What an event reads from.                                               *)
SourceKind(kind) ==
  CASE kind = "read" -> "write" [] kind = "pop" -> "push" [] kind = "load" -> "store"

(* The events a variable of flow is compared with; 0 stands for any other. *)
Sources(id) == {0} \union At(SourceKind(Event(id).kind), Event(id).address)

Flows == {f \in [Reads -> UNION {Sources(id) : id \in Reads} \union {0}] :
            \A id \in Reads : f[id] \in Sources(id)}

Chosen(flow, val) ==
  [solution EXCEPT !.flow = flow,
                   !.val = [x \in Variables |-> IF x = Input THEN @[x] ELSE val[x]]]

Solve ==
  /\ phase = "clocks"
  /\ DOMAIN solution.time = Ids
  /\ \E flow \in Flows, val \in [IdsOf(Reading) -> program.values] :
        Formula(Chosen(flow, val)) /\ solution' = Chosen(flow, val)
  /\ phase' = "replay"
  /\ UNCHANGED <<program, query, replayed>>

-----------------------------------------------------------------------------
(* Replay.                                                                 *)

Matched(id) == communication_match_disjunction(id, solution)

(* A thread that communicates waits there for ever if it meets no other.   *)
Waits(id) ==
  Event(id).kind \in Communication /\ Guard(id, solution) /\ ~Matched(id)

(* Events that a wait does not keep from happening, to be replayed next *)
Pending ==
  {id \in Ids \ ToSet(replayed) :
     Predecessors(id) \subseteq ToSet(replayed) /\ ~Waits(id)}

(* Events at the same time: "read-from" orders a write before a read, the  *)
(* other axioms order a pop before a push and a load before a store.       *)
Rank(id) ==
  CASE Event(id).kind = "write" -> 0
    [] Event(id).kind \in {"push", "store"} -> 2
    [] OTHER -> 1

PopsOf(push) == {pop \in At("pop", Event(push).address) : solution.flow[pop] = push}

(* The first of two pushes at the same time is the one that is not popped, *)
(* or popped last.                                                         *)
PoppedAt(id) ==
  IF Event(id).kind # "push" \/ PopsOf(id) = {} THEN <<0, 0, id>>
  ELSE LET pop == CHOOSE p \in PopsOf(id) : TRUE IN <<1, -solution.time[pop], -pop>>

Lexicographic(x, y) ==
  \/ x[1] < y[1]
  \/ x[1] = y[1] /\ x[2] < y[2]
  \/ x[1] = y[1] /\ x[2] = y[2] /\ x[3] < y[3]

Earlier(x, y) ==
  \/ happens_before(x, y, solution)
  \/ /\ simultaneous(x, y, solution)
     /\ \/ Rank(x) < Rank(y)
        \/ Rank(x) = Rank(y) /\ Lexicographic(PoppedAt(x), PoppedAt(y))

Partners(id) ==
  {x \in Ids \ {id} : \E p \in Matchables : {p[1], p[2]} = {x, id} /\ Match(p, solution)}

Partner(id) == CHOOSE x \in Partners(id) : TRUE

(* A receive is replayed together with the send that it meets. *)
Together(id) ==
  IF Event(id).kind \in Communication /\ Guard(id, solution)
  THEN IF Event(id).kind \in Send THEN <<id, Partner(id)>> ELSE <<Partner(id), id>>
  ELSE <<id>>

Ready == {id \in Pending : ToSet(Together(id)) \subseteq Pending}

(* If the program deadlocks, "receive events are permitted to take on      *)
(* nondeterministic values": check promises nothing then.                  *)
IsPromised ==
  query = "check_deadlock" \/ \A id \in IdsOf(Communication) : ~Waits(id)

Replay ==
  /\ phase = "replay"
  /\ IsPromised
  /\ \E id \in Ready :
        /\ \A x \in Ready \ {id} : Earlier(id, x) \/ x \in ToSet(Together(id))
        /\ replayed' = replayed \o Together(id)
  /\ UNCHANGED <<program, query, phase, solution>>

Next ==
  \/ \E ids \in (SUBSET (Ids \ DOMAIN solution.time)) \ {{}} : Tick(ids)
  \/ Solve
  \/ Replay

Spec == Init /\ [][Next]_vars

-----------------------------------------------------------------------------
(* What critical sections look like: a thread writes its identifier to the *)
(* mutex and later asserts that it reads it back, both on every path; only *)
(* a thread itself writes its identifier to the mutex, never inside of a   *)
(* section, and its sections do not overlap.                               *)
LocksWithOwnIdentifier(p, c) ==
  LET lock == p.event[c.lock]
      unlock == p.event[c.unlock]
  IN  /\ {c.lock, c.unlock} \subseteq DOMAIN p.event
      /\ lock.kind = "write" /\ unlock.kind = "read"
      /\ unlock.address = lock.address /\ unlock.thread_id = lock.thread_id
      /\ Before(p, lock.thread_id, c.lock, c.unlock)
      /\ lock.guard = {} /\ unlock.guard = {}
      /\ lock.term = [var |-> -1, const |-> lock.thread_id]
      /\ unlock.term = [var |-> c.unlock, const |-> 0]
      /\ <<c.unlock, lock.thread_id>> \in p.assertions

SectionsApart(p, c, d) ==
  LET t == p.event[c.lock].thread_id
  IN  /\ p.event[d.lock].address = p.event[c.lock].address
      /\ p.event[d.lock].thread_id = t =>
           Before(p, t, c.unlock, d.lock) \/ Before(p, t, d.unlock, c.lock)

WritesOwnIdentifierOnly(p, c, w) ==
  LET write == p.event[w]
      t == p.event[c.lock].thread_id
  IN  /\ write.term.var = -1
      /\ write.term.const = t =>
           /\ write.thread_id = t
           /\ w = c.lock \/ Before(p, t, w, c.lock) \/ Before(p, t, c.unlock, w)

SectionsWellFormed(p) ==
  \A c \in p.sections :
     /\ LocksWithOwnIdentifier(p, c)
     /\ \A d \in p.sections \ {c} : SectionsApart(p, c, d)
     /\ \A w \in DOMAIN p.event :
          /\ p.event[w].kind = "write"
          /\ p.event[w].address = p.event[c.lock].address
          => WritesOwnIdentifierOnly(p, c, w)

ASSUME SectionsAssumption == \A p \in Programs : SectionsWellFormed(p)

-----------------------------------------------------------------------------
(* Correctness.                                                            *)

HaveRead(ids) == {id \in ids \intersect ToSet(replayed) : Guard(id, solution)}

ReplayedVal == [x \in HaveRead(IdsOf(Reading)) \union {Input} |-> solution.val[x]]

ReplayedFlow ==
  [x \in HaveRead(IdsOf(Reading)) |->
     IF x \in Reads THEN solution.flow[x] ELSE Partner(x)]

Machine == INSTANCE Interleaving
  WITH trace <- replayed, val <- ReplayedVal, flow <- ReplayedFlow

(* Every solution of the formula is a run of the threads: each read        *)
(* returns the last write before it, each pop the top of its stack, each   *)
(* load the last store at its offset or zero, and a receive gets what the  *)
(* send it meets has sent.  So an error that check() finds is no false     *)
(* alarm of the encoding.                                                  *)
EverySolutionIsARun == Machine!InterleavingSpec

(* This is promised of a program whose wildcards are unambiguous, and of a *)
(* program to check for deadlocks if it does not read memory, because a    *)
(* read may take its value from an event behind the point where a thread   *)
(* waits for ever.                                                         *)
ReadsNothingForDeadlock(p) ==
  "check_deadlock" \in p.queries =>
    \A id \in DOMAIN p.event : p.event[id].kind \notin {"read", "pop", "load"}

(* If check_deadlock() answers sat, some thread really gets stuck in a     *)
(* communication with none that could meet it.                             *)
DeadlockIsReal ==
  phase = "replay" /\ query = "check_deadlock" /\ Ready = {} => Machine!Deadlock

(* The assertion that Mutex::unlock() makes, that the mutex still holds    *)
(* its thread's identifier, leaves only solutions where no thread enters   *)
(* its critical section while another one is in it.                        *)
CriticalSectionsExclusive ==
  phase = "replay" =>
    \A c, d \in program.sections :
       \/ c = d
       \/ happens_before(c.unlock, d.lock, solution)
       \/ happens_before(d.unlock, c.lock, solution)

DistinctClocks == IsInjective(solution.time)

(* The quadratic encoding of memory admits the same orders, values and     *)
(* flows as the cubic one of CAV'13 it replaces.                           *)
EncodingsAgree ==
  DOMAIN solution.time = Ids /\ DistinctClocks /\ phase = "clocks" =>
    \A flow \in Flows, val \in [IdsOf(Reading) -> program.values] :
       LET m == Chosen(flow, val)
       IN  encode_read_from(m) <=> encode_read_from_cubic(m) /\ encode_from_read(m)
=============================================================================
