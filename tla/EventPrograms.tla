---------------------------- MODULE EventPrograms ----------------------------
(***************************************************************************)
(* What the tracer hands to the encoder (class Event in include/crv.h):    *)
(* for each thread of a symbolic program the sequence of its events.  An   *)
(* event that synchronises threads, the start or the end of one or a       *)
(* barrier, is in the sequence of each of them, with the same event_id.    *)
(*                                                                         *)
(* A term is a constant, or the variable of an event that reads plus a     *)
(* constant; variable 0 is the symbolic input.  A condition is a set of    *)
(* equations <<variable, value>> and stands for their conjunction.         *)
(***************************************************************************)
EXTENDS Integers, Sequences, FiniteSets, SequencesExt, FiniteSetsExt

CONSTANT Programs   \* a set of programs

VARIABLE program    \* one of them

(* What the tracer keeps of a program: in each thread the identifiers of   *)
(* events differ, and the table "event" has all events by identifier; of a *)
(* synchronisation it has one of the occurrences.                          *)
ASSUME ProgramsAssumption ==
  \A p \in Programs :
     /\ \A t \in DOMAIN p.threads :
          LET events == p.threads[t]
          IN  /\ events \in Seq(ToSet(events))
              /\ \A j, k \in DOMAIN events :
                   /\ events[j].event_id \in DOMAIN p.event
                   /\ events[j].event_id = events[k].event_id => j = k
     /\ DOMAIN p.threads \subseteq Nat
     /\ DOMAIN p.event \subseteq Nat \ {0}
     /\ \A id \in DOMAIN p.event :
          /\ p.event[id].event_id = id
          /\ p.event[id].thread_id \in DOMAIN p.threads
          /\ \E t \in DOMAIN p.threads : p.event[id] \in ToSet(p.threads[t])

(* Event x is before y in thread t. *)
Before(p, t, x, y) ==
  \E j, k \in DOMAIN p.threads[t] :
     /\ j < k
     /\ p.threads[t][j].event_id = x
     /\ p.threads[t][k].event_id = y

Sync == {"thread_begin", "thread_end", "barrier"}
Receive == {"channel_recv", "message_recv"}
Send == {"channel_send", "message_send"}
Communication == Receive \union Send
Reading == {"read", "pop", "load"} \union Receive
Kind == Sync \union Reading \union {"write", "push", "store"} \union Send

Input == 0

(* The address of a message is a thread: to whom it goes, or who sends it. *)
s_wildcard_address == 0

Threads == DOMAIN program.threads

Ids == DOMAIN program.event

Event(id) == program.event[id]

ThreadsOf(id) == {t \in Threads : \E e \in ToSet(program.threads[t]) : e.event_id = id}

IdsOf(kinds) == {id \in Ids : Event(id).kind \in kinds}

At(kind, address) ==
  {id \in Ids : Event(id).kind = kind /\ Event(id).address = address}

Position(t, id) ==
  CHOOSE k \in DOMAIN program.threads[t] : program.threads[t][k].event_id = id

(* Events that come before id in one of its threads *)
Predecessors(id) ==
  UNION {{program.threads[t][k].event_id : k \in 1 .. Position(t, id) - 1} :
           t \in ThreadsOf(id)}

Variables == IdsOf(Reading) \union {Input}

(* Meaning of terms and conditions in a valuation of the variables.  The   *)
(* variable of an event that a thread skipped is not in its domain; what   *)
(* depends on it is guarded by the guard of that event.                    *)
Eval(term, val) ==
  IF term.var = -1 THEN term.const ELSE val[term.var] + term.const

Holds(condition, val) ==
  \A eq \in condition : eq[1] \in DOMAIN val /\ val[eq[1]] = eq[2]

Enabled(id, val) == Holds(Event(id).guard, val)
-----------------------------------------------------------------------------
(* With an event of a set, all events before it in its threads are in it.  *)
ClosedDownwards(p, ids) ==
  \A t \in DOMAIN p.threads, x \in DOMAIN p.event, y \in ids :
     Before(p, t, x, y) => x \in ids

(* Whenever y has happened so has x, by the order of the threads.          *)
ComesBefore(p, x, y) ==
  \/ \E t \in DOMAIN p.threads : Before(p, t, x, y)
  \/ /\ x # y
     /\ \A ids \in SUBSET DOMAIN p.event :
          ClosedDownwards(p, ids) /\ y \in ids => x \in ids

(* An event y may use what x has read if x has been before it, on each of  *)
(* the paths on which y is.                                                *)
InScope(p, x, y) ==
  /\ x \in DOMAIN p.event
  /\ p.event[x].kind \in Reading
  /\ p.event[x].guard \subseteq p.event[y].guard
  /\ ComesBefore(p, x, y)

TermInScope(p, term, y) == term.var \in {-1, Input} \/ InScope(p, term.var, y)

(* What the tracer records of an event e that does not synchronise threads:*)
(* it is of one thread, its term is its own variable if it reads, and all  *)
(* other variables it uses have been read before.                          *)
OwnDataOnly(p, id, e) ==
  /\ \A t \in DOMAIN p.threads : e \in ToSet(p.threads[t]) => t = e.thread_id
  /\ \A eq \in e.guard : eq[1] = Input \/ InScope(p, eq[1], id)
  /\ IF e.kind \in Reading THEN e.term = [var |-> id, const |-> 0]
                          ELSE TermInScope(p, e.term, id)
  /\ e.kind \in {"load", "store"} => TermInScope(p, e.offset, id)

ASSUME DataFlowAssumption ==
  \A p \in Programs :
     /\ p.inputs \union p.values \subseteq Int
     /\ \A id \in DOMAIN p.event :
          /\ p.event[id].kind \in Kind
          /\ p.event[id].kind \notin Sync => OwnDataOnly(p, id, p.event[id])
=============================================================================
