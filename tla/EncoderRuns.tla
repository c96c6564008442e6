------------------------------ MODULE EncoderRuns ------------------------------
(***************************************************************************)
(* The other direction: a run of the threads of a program, as Interleaving *)
(* has them, is a solution of the formula of class Encoder (include/crv.h).*)
(* Each event gets as its clock the number of the step in which it happens.*)
(* When the program deadlocks the events that never happen get later       *)
(* clocks, one by one and in the order of their threads.                   *)
(***************************************************************************)
EXTENDS Interleaving, Encoding

VARIABLES
  clock,   \* clocks of the events
  steps    \* steps so far

vars == <<machine_vars, clock, steps>>

Init ==
  /\ InterleavingInit
  /\ clock = << >>
  /\ steps = 0

Clocked(ids) ==
  /\ clock' = [id \in ids \union DOMAIN clock |->
                IF id \in ids THEN steps + 1 ELSE clock[id]]
  /\ steps' = steps + 1

Happen(id) == Skip(id) \/ Synchronise(id) \/ Modify(id) \/ Read(id) \/ Pop(id) \/ Load(id)

Step ==
  \/ \E id \in Ids : Happen(id) /\ Clocked({id})
  \/ \E r \in IdsOf(Receive), s \in IdsOf(Send) : Communicate(r, s) /\ Clocked({r, s})

CommunicatesOnly == IdsOf(Sync \union Communication) = Ids

NeverHappens ==
  /\ CommunicatesOnly /\ Deadlock
  /\ \E id \in Ids \ DOMAIN clock :
        /\ Predecessors(id) \subseteq DOMAIN clock
        /\ Clocked({id})
  /\ UNCHANGED machine_vars

Next == Step \/ NeverHappens

Spec == Init /\ [][Next]_vars

-----------------------------------------------------------------------------
(* Events that have not read leave their variables open. *)
Completed(f) ==
  [id \in IdsOf(Reading) \union DOMAIN f |-> IF id \in DOMAIN f THEN f[id] ELSE 0]

Solution == [time |-> clock, flow |-> Completed(flow), val |-> Completed(val)]

(* First in its thread to communicate on the way to it *)
FirstReceives(p) ==
  {id \in DOMAIN p.event :
     /\ p.event[id].kind \in Receive
     /\ LET es == p.threads[p.event[id].thread_id]
        IN  \A pair \in ImmediateDominatorMap(es, Communication) : es[pair[1]].event_id # id}

(* Each pair of the map is of an earlier event and of no other branch.     *)
DominatorsComeFirst(p) ==
  \A t \in DOMAIN p.threads :
     \A pair \in ImmediateDominatorMap(p.threads[t], Communication) :
        LET e == p.event[p.threads[t][pair[1]].event_id]
            d == p.event[p.threads[t][pair[2]].event_id]
        IN  /\ pair[1] \in DOMAIN p.threads[t] /\ pair[2] \in 1 .. pair[1] - 1
            /\ e.kind \in Communication =>
                 d.kind \in Communication /\ d.guard \subseteq e.guard

IntegerTerms(p) ==
  \A id \in DOMAIN p.event :
     p.event[id].term.const \in Int /\ p.event[id].offset.const \in Int

(* What the axioms suppose of a program: they force the guards of stacks'  *)
(* and arrays' events, and one of the first receives to meet a send.  And  *)
(* there is a formula: no assertion fails and nothing throws on the way.   *)
Encodable(p) ==
  /\ IntegerTerms(p)
  /\ FormulaIsMade(p, FALSE)
  /\ \A id \in DOMAIN p.event :
        p.event[id].kind \in {"pop", "load", "store"} => p.event[id].guard = {}
  /\ DominatorsComeFirst(p)
  /\ FirstReceives(p) # {} => \E r \in FirstReceives(p) : p.event[r].guard = {}

(* The encoder misses no behaviour: a run of all threads to their ends     *)
(* that takes this path and keeps the program's assertions satisfies the   *)
(* formula, so check() finds each error such a run makes.                  *)
EveryRunIsASolution ==
  /\ Happened = Ids
  /\ Holds(program.guard \union program.assertions, val)
  => encode(Solution, FALSE)

(* Threads that end with something else than communication, the main one   *)
(* without any, and no assumption or assertion: what encoding a deadlock   *)
(* supposes of a program that communicates only.                           *)
DeadlockEncodable(p) ==
  (\A id \in DOMAIN p.event : p.event[id].kind \in Sync \union Communication) =>
    /\ JustCommunicates(p) /\ UnambiguousWildcards(p)
    /\ \A t \in DOMAIN p.threads : \A k \in DOMAIN p.threads[t] :
          KindAt(p, t, k) \in Communication => t # 1 /\ k # Len(p.threads[t])
    /\ FormulaIsMade(p, TRUE)
    /\ p.guard = {} /\ p.assertions = {}

(* Once two events have met, a deadlock is found by check_deadlock().      *)
EveryLaterDeadlockIsFound ==
  CommunicatesOnly /\ Deadlock /\ DOMAIN clock = Ids /\ DOMAIN flow # {}
  => check_deadlock(Solution)

(* "Checks only whether there is a communication deadlock": of any kind.   *)
EveryDeadlockIsFound ==
  CommunicatesOnly /\ Deadlock /\ DOMAIN clock = Ids => check_deadlock(Solution)
=============================================================================
