------------------------------- MODULE FrontEnd -------------------------------
(***************************************************************************)
(* From statements of a program under analysis to the events of a thread:  *)
(* the append functions of class Tracer and the classes whose members call *)
(* them (External, Thread, Chord, Mutex, Channel, Message and Stack in     *)
(* include/crv.h).  Addresses are numbers.                                 *)
(*                                                                         *)
(* In a list of events that a statement appends, the term Result denotes   *)
(* what the event before it has read.                                      *)
(***************************************************************************)
EXTENDS Integers, Sequences, SequencesExt, Functions

Const(n) == [var |-> -1, const |-> n]
VarPlus(id, n) == [var |-> id, const |-> n]
Var(id) == VarPlus(id, 0)
ResultPlus(n) == [var |-> -2, const |-> n]
Result == ResultPlus(0)

(* append_event leaves identifiers, block and guard to Recorded.           *)
AppendEvent(kind, address, term, offset) ==
  [kind |-> kind, event_id |-> 0, thread_id |-> 0, block_id |-> 0,
   scope_level |-> 0, address |-> address, guard |-> {}, term |-> term,
   offset |-> offset]

NoOffset == Const(0)

(* What reads gets a variable of its own as term, see Recorded.            *)
append_read_event(x) == <<AppendEvent("read", x, Const(0), NoOffset)>>
append_write_event(x, term) == <<AppendEvent("write", x, term, NoOffset)>>
append_pop_event(x) == <<AppendEvent("pop", x, Const(0), NoOffset)>>
append_push_event(x, term) == <<AppendEvent("push", x, term, NoOffset)>>
append_load_event(x, offset) == <<AppendEvent("load", x, Const(0), offset)>>
append_store_event(x, offset, term) == <<AppendEvent("store", x, term, offset)>>
append_channel_recv_event(x) == <<AppendEvent("channel_recv", x, Const(0), NoOffset)>>
append_channel_send_event(x, term) == <<AppendEvent("channel_send", x, term, NoOffset)>>
append_message_recv_event(x) == <<AppendEvent("message_recv", x, Const(0), NoOffset)>>
append_message_send_event(x, term) == <<AppendEvent("message_send", x, term, NoOffset)>>

-----------------------------------------------------------------------------
(* class External: a shared variable at address x.                         *)
Get(x) == append_read_event(x)
Set(x, n) == append_write_event(x, Const(n))
SetTo(x, term) == append_write_event(x, term)
CopyFrom(x, y) == append_read_event(y) \o append_write_event(x, Result)

(* operator++, and its postfix form, which returns a new variable y        *)
Increment(x) == append_read_event(x) \o append_write_event(x, ResultPlus(1))
PostIncrement(x, y, id) ==
  append_read_event(x) \o Increment(x) \o append_write_event(y, Var(id))

(* operator[]                                                              *)
GetElement(x, offset) == append_load_event(x, offset)
SetElement(x, offset, n) == append_store_event(x, offset, Const(n))

(* class Mutex: m holds the identifier of the thread that has locked it    *)
(* last, and unlock() asserts that this is still the one that does.        *)
Lock(m, thread) == append_write_event(m, Const(thread))
Unlock(m) == append_read_event(m)

(* class Channel                                                           *)
Send(c, n) == append_channel_send_event(c, Const(n))
SendExternal(c, x) == append_read_event(x) \o append_channel_send_event(c, Result)
SendTerm(c, term) == append_channel_send_event(c, term)
Recv(c) == append_channel_recv_event(c)

(* class Message: the address of a message is a thread, 0 the wildcard.    *)
SendTo(thread, n) == append_message_send_event(thread, Const(n))
RecvFrom(thread) == append_message_recv_event(thread)
RecvAny == append_message_recv_event(0)

(* class Stack                                                             *)
Push(s, n) == append_push_event(s, Const(n))
PushExternal(s, x) == append_read_event(x) \o append_push_event(s, Result)
PopOff(s) == append_pop_event(s)

(* scope_then and scope_else with the condition they leave in force, and   *)
(* scope_end; not events, but statements all the same                      *)
Then(condition) == <<[AppendEvent("then", 0, Const(0), NoOffset) EXCEPT !.guard = condition]>>
Else(condition) == <<[AppendEvent("else", 0, Const(0), NoOffset) EXCEPT !.guard = condition]>>
EndIf == <<AppendEvent("endif", 0, Const(0), NoOffset)>>

(* Synchronisation shares its identifier between threads: here 10 * t for  *)
(* the start of thread t, 10 * t + 9 for its end and 1, 2, ... for barriers*)
Synchronise(kind, id) ==
  <<[AppendEvent(kind, 0, Const(0), NoOffset) EXCEPT !.event_id = id]>>
append_thread_begin_event(t) == Synchronise("thread_begin", 10 * t)
append_thread_end_event(t) == Synchronise("thread_end", 10 * t + 9)
append_join_event(t) == Synchronise("thread_end", 10 * t + 9)
barrier(n) == Synchronise("barrier", n)

-----------------------------------------------------------------------------
(* The events of thread t.  Their identifiers are 10 * t + 1, ...          *)
Recorded(t, statements) ==
  LET Resolved(term, id) == IF term.var = -2 THEN [term EXCEPT !.var = id - 1] ELSE term
      NewEvent(e, acc) ==
        LET id == 10 * t + Len(acc.events) + 1
        IN  [e EXCEPT !.thread_id = t,
                      !.event_id = IF @ = 0 THEN id ELSE @,
                      !.block_id = acc.block,
                      !.scope_level = Len(acc.guards) - 1,
                      !.guard = Last(acc.guards),
                      !.term = IF e.kind \in {"read", "pop", "load", "channel_recv",
                                              "message_recv"}
                               THEN Var(id) ELSE Resolved(@, id)]
      Record(acc, e) ==
        CASE e.kind = "then" ->
               [acc EXCEPT !.block = @ + 1, !.guards = Append(@, Last(@) \union e.guard)]
          [] e.kind = "else" ->
               [acc EXCEPT !.block = @ + 1,
                           !.guards = Append(Front(@), Last(Front(@)) \union e.guard)]
          [] e.kind = "endif" -> [acc EXCEPT !.guards = Front(@)]
          [] OTHER -> [acc EXCEPT !.events = Append(@, NewEvent(e, acc))]
  IN  FoldLeft(Record, [events |-> << >>, block |-> 0, guards |-> << {} >>],
               statements).events

(* Thread(f): the start of thread t, what f does, and its end.  The start  *)
(* is not counted by Recorded, so the first event of f is 10 * t + 1.      *)
Child(t, statements) ==
  LET own == Recorded(t, statements \o append_thread_end_event(t))
  IN  Recorded(t, append_thread_begin_event(t)) \o own

(* Chord::run: thread t first waits for the one before it.                 *)
NextInChord(t, statements) == Child(t, append_join_event(t - 1) \o statements)

-----------------------------------------------------------------------------
EventsOf(threads) == UNION {ToSet(threads[t]) : t \in DOMAIN threads}

(* Events by their identifiers; a synchronisation is represented by one   *)
(* of its occurrences.                                                     *)
EventTable(threads) ==
  [id \in {e.event_id : e \in EventsOf(threads)} |->
     CHOOSE e \in EventsOf(threads) : e.event_id = id]
=============================================================================
