----------------------------- MODULE Interleaving -----------------------------
(***************************************************************************)
(* What the encoder's formula ought to describe: a sequentially consistent *)
(* machine that runs the threads of a program event by event.  A read      *)
(* returns the last value written, a pop takes the top of its stack, a     *)
(* load the last value stored at its offset, or zero, and a receive meets  *)
(* a send.  All of memory is determined by the trace of the events so far. *)
(***************************************************************************)
EXTENDS EventPrograms

VARIABLES
  trace,   \* event identifiers in the order they happen
  val,     \* values read so far, and the input
  flow     \* for each event that has read: the event it reads from

machine_vars == <<program, trace, val, flow>>

Happened == ToSet(trace)

(* All threads that take part in the event id have come to it. *)
IsNext(id) == id \notin Happened /\ Predecessors(id) \subseteq Happened

Effective(ids) == {id \in ids \intersect Happened : Enabled(id, val)}

(* The one of ids that has happened last, or none *)
LastOf(ids) ==
  LET times == {k \in DOMAIN trace : trace[k] \in ids}
  IN  IF times = {} THEN 0 ELSE trace[Max(times)]

LastWrite(address) == LastOf(Effective(At("write", address)))

LastStore(address, offset) ==
  LastOf({id \in Effective(At("store", address)) : Eval(Event(id).offset, val) = offset})

(* The pushes on a stack that have not been popped *)
StackAt(address) ==
  {id \in Effective(At("push", address)) : \A pop \in DOMAIN flow : flow[pop] # id}

-----------------------------------------------------------------------------
InterleavingInit ==
  /\ program \in Programs
  /\ trace = << >>
  /\ \E v \in program.inputs : val = [x \in {Input} |-> v]
  /\ flow = << >>

Happens(ids) == trace' = trace \o ids

(* The function f with the value v for x as well *)
With(f, x, v) == [y \in {x} \union DOMAIN f |-> IF y = x THEN v ELSE f[y]]

Skip(id) ==
  /\ IsNext(id)
  /\ Event(id).kind \notin Sync
  /\ ~Enabled(id, val)
  /\ Happens(<<id>>)
  /\ UNCHANGED <<program, val, flow>>

Synchronise(id) ==
  /\ IsNext(id)
  /\ Event(id).kind \in Sync
  /\ Happens(<<id>>)
  /\ UNCHANGED <<program, val, flow>>

Modify(id) ==
  /\ IsNext(id)
  /\ Event(id).kind \in {"write", "push", "store"}
  /\ Enabled(id, val)
  /\ Happens(<<id>>)
  /\ UNCHANGED <<program, val, flow>>

(* id reads the value v from the event source, which is 0 for a load from  *)
(* an array where nothing has been stored.                                 *)
Reads(id, kind, source, v) ==
  /\ IsNext(id)
  /\ Event(id).kind = kind
  /\ Enabled(id, val)
  /\ Happens(<<id>>)
  /\ val' = With(val, id, v)
  /\ flow' = With(flow, id, source)
  /\ UNCHANGED program

ValueOf(id) == Eval(Event(id).term, val)

Read(id) ==
  LET w == LastWrite(Event(id).address)
  IN  w # 0 /\ Reads(id, "read", w, ValueOf(w))

Pop(id) ==
  LET push == LastOf(StackAt(Event(id).address))
  IN  push # 0 /\ Reads(id, "pop", push, ValueOf(push))

Load(id) ==
  LET s == LastStore(Event(id).address, Eval(Event(id).offset, val))
  IN  Reads(id, "load", s, IF s = 0 THEN 0 ELSE ValueOf(s))

(* May the receive r meet the send s?  A wildcard takes a message of any   *)
(* thread, but only one that is sent to the thread of the receive.         *)
Meets(r, s) ==
  LET e == Event(r)
      f == Event(s)
  IN  /\ e.thread_id # f.thread_id
      /\ \/ /\ e.kind = "channel_recv" /\ f.kind = "channel_send"
            /\ e.address = f.address
         \/ /\ e.kind = "message_recv" /\ f.kind = "message_send"
            /\ f.address = e.thread_id
            /\ e.address \in {f.thread_id, s_wildcard_address}

CanMeet(r, s) ==
  /\ IsNext(r) /\ IsNext(s)
  /\ Meets(r, s)
  /\ Enabled(r, val) /\ Enabled(s, val)

Communicate(r, s) ==
  /\ CanMeet(r, s)
  /\ Happens(<<s, r>>)
  /\ val' = With(val, r, ValueOf(s))
  /\ flow' = With(flow, r, s)
  /\ UNCHANGED program

InterleavingNext ==
  \/ \E id \in Ids :
        \/ Skip(id) \/ Synchronise(id) \/ Modify(id)
        \/ Read(id) \/ Pop(id) \/ Load(id)
  \/ \E r \in IdsOf(Receive), s \in IdsOf(Send) : Communicate(r, s)

InterleavingSpec == InterleavingInit /\ [][InterleavingNext]_machine_vars

-----------------------------------------------------------------------------
(* A thread other than the main one waits to communicate and will forever: *)
(* nothing can happen any more.  (Only for programs that communicate and   *)
(* synchronise but do nothing else.)                                       *)
Deadlock ==
  /\ \E t \in Threads \ {1} : ~ \A e \in ToSet(program.threads[t]) : e.event_id \in Happened
  /\ ~ \E id \in IdsOf(Sync) : IsNext(id)
  /\ ~ \E id \in IdsOf(Communication) : IsNext(id) /\ ~Enabled(id, val)
  /\ ~ \E r \in IdsOf(Receive), s \in IdsOf(Send) : CanMeet(r, s)
=============================================================================
