-------------------------------- MODULE Tracer --------------------------------
(***************************************************************************)
(* class Tracer (include/crv.h, src/crv.cpp): the recorder of the events   *)
(* of a run of a symbolic multi-threaded program.  Threads run one after   *)
(* the other; the tracer stamps each event with its thread, its block and  *)
(* scope level, and the guard under which control reaches it.              *)
(*                                                                         *)
(* A guard is represented by the set of inputs that satisfy it.  Addresses,*)
(* terms and the indexes of the event list by kind are left out; the index *)
(* by thread is ThreadEvents.                                              *)
(***************************************************************************)
EXTENDS Integers, Sequences, SequencesExt

CONSTANT Inputs   \* valuations of the program's symbolic inputs

Condition == SUBSET Inputs

VARIABLES
  event_id_cnt,     \* m_event_id_cnt
  thread_id_cnt,    \* m_thread_id_cnt
  block_id_cnt,     \* m_block_id_cnt
  events,           \* m_events
  thread_id_stack,  \* m_thread_id_stack, top last
  scope_stack,      \* m_scope_stack, top last
  guard,            \* m_guard
  barrier_list,     \* m_barrier_list
  barrier_map       \* m_barrier_map: index of a thread's latest barrier

tracer_vars == <<event_id_cnt, thread_id_cnt, block_id_cnt, events,
                 thread_id_stack, scope_stack, guard, barrier_list, barrier_map>>

Kind == {"thread_begin", "thread_end", "barrier", "write", "send"}

Event == [kind : Kind, event_id : Nat, thread_id : Nat, block_id : Nat,
          scope_level : Nat, guard : Condition]

(* At level zero, where guard_prime is null, it is Inputs here.            *)
ThreadLocalScope == [guard : Condition, guard_prime : Condition, level : Nat]

TracerTypeOK ==
  /\ event_id_cnt \in Nat
  /\ thread_id_cnt \in Nat \ {0}
  /\ block_id_cnt \in Nat
  /\ events \in Seq(Event)
  /\ thread_id_stack \in Seq(1 .. thread_id_cnt - 1) \ {<< >>}
  /\ scope_stack \in Seq(ThreadLocalScope) \ {<< >>}
  /\ guard \in Condition
  /\ barrier_list \in Seq(Nat)
  /\ barrier_map \in [DOMAIN barrier_map -> 1 .. Len(barrier_list)]

current_thread_id == Last(thread_id_stack)

ThreadEvents(t) == SelectSeq(events, LAMBDA e : e.thread_id = t)

OutermostScope(g) == [guard |-> g, guard_prime |-> Inputs, level |-> 0]

TracerInit ==
  /\ event_id_cnt = 0
  /\ thread_id_cnt = 2
  /\ block_id_cnt = 0
  /\ events = << >>
  /\ thread_id_stack = <<1>>
  /\ scope_stack = <<OutermostScope(Inputs)>>
  /\ guard = Inputs
  /\ barrier_list = << >>
  /\ barrier_map = << >>

ResetEvents ==
  /\ events' = << >>
  /\ thread_id_stack' = <<1>>
  /\ thread_id_cnt' = 2
  /\ block_id_cnt' = 0
  /\ scope_stack' = <<OutermostScope(Inputs)>>
  /\ guard' = Inputs

(* Fault: a thread's latest barrier may be one of an earlier path. *)
ResetBarrierList ==
  /\ barrier_list' = << >>
  /\ UNCHANGED barrier_map

ResetBarrier ==
  /\ barrier_list' = << >>
  /\ barrier_map' = << >>

TracerReset ==
  /\ event_id_cnt' = 0
  /\ ResetEvents
  /\ ResetBarrier

-----------------------------------------------------------------------------
(* append_event                                                            *)
NewEvent(kind, id) ==
  [kind |-> kind, event_id |-> id, thread_id |-> current_thread_id,
   block_id |-> block_id_cnt, scope_level |-> Last(scope_stack).level,
   guard |-> guard]

AppendEvent(kind) ==
  /\ events' = Append(events, NewEvent(kind, event_id_cnt))
  /\ event_id_cnt' = event_id_cnt + 1
  /\ UNCHANGED <<thread_id_cnt, block_id_cnt, thread_id_stack, scope_stack, guard,
                 barrier_list, barrier_map>>

(* A parent and its child share the event that begins the child. *)
AppendThreadBegin ==
  LET child_scope == OutermostScope(Inputs)
      child_event == [kind |-> "thread_begin", event_id |-> event_id_cnt,
                      thread_id |-> thread_id_cnt, block_id |-> block_id_cnt,
                      scope_level |-> 0, guard |-> Inputs]
  IN  /\ events' = events \o <<NewEvent("thread_begin", event_id_cnt), child_event>>
      /\ event_id_cnt' = event_id_cnt + 1
      /\ thread_id_stack' = Append(thread_id_stack, thread_id_cnt)
      /\ thread_id_cnt' = thread_id_cnt + 1
      /\ guard' = Inputs
      /\ scope_stack' = Append(scope_stack, child_scope)
      /\ UNCHANGED <<block_id_cnt, barrier_list, barrier_map>>

(* Fault: the parent goes on under the guard of its child. *)
GuardOfChild(scope) == guard

GuardOfScope(scope) == scope.guard \intersect scope.guard_prime

AppendThreadEnd ==
  /\ events' = Append(events, NewEvent("thread_end", event_id_cnt))
  /\ event_id_cnt' = event_id_cnt + 1
  /\ thread_id_stack' = Front(thread_id_stack)
  /\ scope_stack' = Front(scope_stack)
  /\ guard' = GuardOfScope(Last(Front(scope_stack)))
  /\ UNCHANGED <<thread_id_cnt, block_id_cnt, barrier_list, barrier_map>>

(* Fault: the join is identified with the thread's first event. *)
FirstEventOf(t) == ThreadEvents(t)[1]

LastEventOf(t) ==
  events[CHOOSE i \in DOMAIN events :
           /\ events[i].thread_id = t
           /\ \A j \in DOMAIN events : events[j].thread_id = t => j <= i]

(* A join is the same event as the end of the thread that is joined. *)
AppendJoin(t) ==
  /\ events' = Append(events, NewEvent("thread_end", LastEventOf(t).event_id))
  /\ UNCHANGED <<event_id_cnt, thread_id_cnt, block_id_cnt, thread_id_stack,
                 scope_stack, guard, barrier_list, barrier_map>>

(* The n-th barrier of every thread is the same event. *)
Barrier ==
  LET t == current_thread_id
      n == IF t \in DOMAIN barrier_map THEN barrier_map[t] + 1 ELSE 1
  IN  /\ barrier_map' = [u \in DOMAIN barrier_map \union {t} |->
                            IF u = t THEN n ELSE barrier_map[u]]
      /\ IF n <= Len(barrier_list)
         THEN /\ events' = Append(events, NewEvent("barrier", barrier_list[n]))
              /\ UNCHANGED <<event_id_cnt, barrier_list>>
         ELSE /\ events' = Append(events, NewEvent("barrier", event_id_cnt))
              /\ barrier_list' = Append(barrier_list, event_id_cnt)
              /\ event_id_cnt' = event_id_cnt + 1
      /\ UNCHANGED <<thread_id_cnt, block_id_cnt, thread_id_stack, scope_stack,
                     guard>>

-----------------------------------------------------------------------------
(* Guards.                                                                 *)
ScopeThen(g) ==
  /\ block_id_cnt' = block_id_cnt + 1
  /\ scope_stack' = Append(scope_stack, [guard |-> guard, guard_prime |-> g,
                                         level |-> Last(scope_stack).level + 1])
  /\ guard' = guard \intersect g
  /\ UNCHANGED <<event_id_cnt, thread_id_cnt, events, thread_id_stack,
                 barrier_list, barrier_map>>

(* Fault: the guard is not negated. *)
SameSide(g) == g

OtherSide(g) == Inputs \ g

ScopeElse ==
  LET scope == [Last(scope_stack) EXCEPT !.guard_prime = OtherSide(@)]
  IN  /\ block_id_cnt' = block_id_cnt + 1
      /\ scope_stack' = Append(Front(scope_stack), scope)
      /\ guard' = scope.guard \intersect scope.guard_prime
      /\ UNCHANGED <<event_id_cnt, thread_id_cnt, events, thread_id_stack,
                     barrier_list, barrier_map>>

ScopeEnd ==
  /\ guard' = Last(scope_stack).guard
  /\ scope_stack' = Front(scope_stack)
  /\ UNCHANGED <<event_id_cnt, thread_id_cnt, block_id_cnt, events,
                 thread_id_stack, barrier_list, barrier_map>>

TracerAddGuard(g) ==
  /\ guard' = guard \intersect g
  /\ scope_stack' = Append(Front(scope_stack),
                           [Last(scope_stack) EXCEPT !.guard = guard \intersect g])
  /\ UNCHANGED <<event_id_cnt, thread_id_cnt, block_id_cnt, events,
                 thread_id_stack, barrier_list, barrier_map>>
=============================================================================
