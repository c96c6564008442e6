-------------------------- MODULE EncoderRunsProofs --------------------------
(***************************************************************************)
(* Every run of the threads is a solution of the formula of class Encoder, *)
(* and so is every deadlock after a first meeting, for every set of        *)
(* programs that ProgramsAssumption and DataFlowAssumption allow and whose *)
(* events the axioms can speak of.                                         *)
(***************************************************************************)
EXTENDS EncoderRuns, FiniteSetTheorems, WellFoundedInduction, TLAPS

-----------------------------------------------------------------------------
(* What has been read: each event that reads, has happened and is on the   *)
(* path that is taken has a source and an integer value, and no other has. *)
TypeInv ==
  /\ program \in Programs
  /\ trace \in Seq(Ids)
  /\ steps \in Nat
  /\ DOMAIN flow = {x \in IdsOf(Reading) \intersect Happened : Enabled(x, val)}
  /\ DOMAIN val = {Input} \union DOMAIN flow
  /\ \A x \in DOMAIN val : val[x] \in Int

(* Threads execute in order: with an event all before it.                  *)
Closed(ids) == \A x \in ids : Predecessors(x) \subseteq ids

(* Clocks are integers that ascend along every thread, and along the trace *)
(* of what has happened.                                                   *)
ClockInv ==
  /\ Happened \subseteq DOMAIN clock /\ DOMAIN clock \subseteq Ids
  /\ Closed(Happened) /\ Closed(DOMAIN clock)
  /\ \A x \in DOMAIN clock : clock[x] \in Nat /\ clock[x] <= steps
  /\ \A x \in DOMAIN clock : \A y \in Predecessors(x) : clock[y] < clock[x]
  /\ \A j, k \in DOMAIN trace : j < k => clock[trace[j]] <= clock[trace[k]]

(* Only what happens gets a clock, until nothing can happen any more.      *)
AllHappened == DOMAIN clock = Happened

Stuck == CommunicatesOnly /\ Deadlock

(* The receive r has met the send s.                                       *)
Met(r, s) ==
  /\ r \in DOMAIN flow /\ r \in IdsOf(Receive) /\ s \in IdsOf(Send) /\ flow[r] = s

(* The event x has happened, on the path that is taken.                    *)
Effect(x) == x \in Happened /\ Enabled(x, val)

(* Two events have the same clock only if they have met; each receive has  *)
(* met one send, which is its source, and each send a receive.             *)
MeetingInv ==
  /\ \A x, y \in DOMAIN clock : x # y /\ clock[x] = clock[y] => Met(x, y) \/ Met(y, x)
  /\ \A r \in DOMAIN flow : Event(r).kind \in Receive =>
       \E s \in IdsOf(Send) :
          /\ Met(r, s) /\ Effect(s) /\ Meets(r, s)
          /\ clock[r] = clock[s] /\ val[r] = ValueOf(s)
  /\ \A s \in IdsOf(Send) : Effect(s) => \E r \in DOMAIN flow : Met(r, s)

(* A read has the last write before it for source.                         *)
ReadInv ==
  \A x \in DOMAIN flow : Event(x).kind = "read" =>
    \E w \in At("write", Event(x).address) :
       /\ flow[x] = w /\ Effect(w)
       /\ clock[w] < clock[x] /\ val[x] = ValueOf(w)
       /\ \A v \in At("write", Event(x).address) :
            Effect(v) /\ clock[v] < clock[x] => clock[v] <= clock[w]

(* A pop has for source a push that no other pop takes, and each later     *)
(* push before the pop has itself been popped before it.                   *)
PopInv ==
  \A x \in DOMAIN flow : Event(x).kind = "pop" =>
    \E push \in At("push", Event(x).address) :
       /\ flow[x] = push /\ Effect(push)
       /\ clock[push] < clock[x] /\ val[x] = ValueOf(push)
       /\ \A y \in DOMAIN flow : flow[y] = push => y = x
       /\ \A v \in At("push", Event(x).address) :
            Effect(v) /\ clock[push] < clock[v] /\ clock[v] < clock[x]
            => \E y \in DOMAIN flow : flow[y] = v /\ clock[y] < clock[x]

(* Where in its array the event x loads or stores.                         *)
Offset(x) == Eval(Event(x).offset, val)

(* The stores at the offset of the load x.                                 *)
StoredAt(x) == {v \in At("store", Event(x).address) : Effect(v) /\ Offset(v) = Offset(x)}

(* A load has the last store before it at its offset for source, or reads  *)
(* zero if there is none.                                                  *)
LoadInv ==
  \A x \in DOMAIN flow : Event(x).kind = "load" =>
    \/ flow[x] = 0 /\ val[x] = 0 /\ \A v \in StoredAt(x) : clock[x] < clock[v]
    \/ \E s \in StoredAt(x) :
         /\ flow[x] = s /\ clock[s] < clock[x] /\ val[x] = ValueOf(s)
         /\ \A v \in StoredAt(x) : clock[v] < clock[x] => clock[v] <= clock[s]

(* The inductive invariant.                                                *)
IInv ==
  /\ TypeInv /\ ClockInv /\ (AllHappened \/ Stuck)
  /\ MeetingInv /\ ReadInv /\ PopInv /\ LoadInv

-----------------------------------------------------------------------------
(* Threads and clocks.                                                     *)

(* Events are numbered along a thread.                                     *)
LEMMA ThreadsAreSequences ==
  ASSUME program \in Programs, NEW t \in Threads
  PROVE  /\ Len(program.threads[t]) \in Nat
         /\ DOMAIN program.threads[t] = 1 .. Len(program.threads[t])
BY ProgramsAssumption DEF Threads

(* What is before an event in a thread is among its predecessors.          *)
LEMMA BeforeIsPredecessor ==
  ASSUME program \in Programs, NEW t \in Threads, NEW x, NEW y, Before(program, t, x, y)
  PROVE  x \in Predecessors(y)
<1>1. PICK j, k \in DOMAIN program.threads[t] :
        /\ j < k
        /\ program.threads[t][j].event_id = x
        /\ program.threads[t][k].event_id = y
  BY DEF Before
<1>2. /\ DOMAIN program.threads[t] = 1 .. Len(program.threads[t])
      /\ Len(program.threads[t]) \in Nat
  BY ThreadsAreSequences
<1>3. t \in ThreadsOf(y)
  BY <1>1 DEF ThreadsOf, ToSet
<1>4. Position(t, y) = k
  <2>1. \A i \in DOMAIN program.threads[t] : program.threads[t][i].event_id = y => i = k
    BY <1>1, ProgramsAssumption DEF Threads
  <2>2. \A i : i \in DOMAIN program.threads[t] /\ program.threads[t][i].event_id = y <=> i = k
    BY <1>1, <2>1
  <2> QED
    BY <2>2 DEF Position
<1>5. j \in 1 .. Position(t, y) - 1
  BY <1>1, <1>2, <1>4
<1> QED
  BY <1>1, <1>3, <1>5 DEF Predecessors

(* Of a set of events with clocks one is the first.                        *)
LEMMA FirstClock ==
  ASSUME NEW S, NEW T \in SUBSET S, T # {}, NEW time, \A x \in S : time[x] \in Nat
  PROVE  \E first \in T : \A x \in T : time[first] <= time[x]
<1>1. {time[x] : x \in T} \in SUBSET Nat /\ {time[x] : x \in T} # {}
  OBVIOUS
<1>2. IsWellFoundedOn(OpToRel(<, Nat), Nat)
  BY NatLessThanWellFounded
<1>3. PICK m \in {time[x] : x \in T} :
        \A k \in {time[x] : x \in T} : <<k, m>> \notin OpToRel(<, Nat)
  BY <1>1, <1>2, WFMin
<1>4. \A k \in {time[x] : x \in T} : ~(k < m)
  BY <1>1, <1>3 DEF OpToRel
<1>5. PICK first \in T : m = time[first]
  BY <1>3
<1>6. \A x \in T : time[x] \in Nat /\ ~(time[x] < time[first])
  BY <1>4, <1>5
<1>7. \A x \in T : time[first] <= time[x]
  BY <1>5, <1>6
<1> QED
  BY <1>7

-----------------------------------------------------------------------------
(* The last of some events, by their clocks.                               *)
LEMMA LastByClock ==
  ASSUME TypeInv, ClockInv, NEW ids
  PROVE  \/ LastOf(ids) = 0 /\ ids \intersect Happened = {}
         \/ /\ LastOf(ids) # 0 /\ LastOf(ids) \in ids \intersect Happened
            /\ \A x \in ids \intersect Happened : clock[x] <= clock[LastOf(ids)]
<1> DEFINE times == {k \in DOMAIN trace : trace[k] \in ids}
<1>1. /\ DOMAIN trace = 1 .. Len(trace) /\ Len(trace) \in Nat
      /\ \A k \in DOMAIN trace : trace[k] \in Ids
  BY DEF TypeInv
<1>2. Happened = {trace[k] : k \in DOMAIN trace}
  BY DEF Happened, ToSet
<1>3. LastOf(ids) = IF times = {} THEN 0 ELSE trace[Max(times)]
  BY DEF LastOf
<1>4. CASE times = {}
  BY <1>2, <1>3, <1>4
<1>5. CASE times # {}
  <2>1. PICK k \in times : \A j \in times : j <= k
    <3>1. \A j \in times : Len(trace) - j \in Nat
      BY <1>1
    <3>2. PICK k \in times : \A j \in times : [i \in times |-> Len(trace) - i][k]
                                               <= [i \in times |-> Len(trace) - i][j]
      BY <1>5, <3>1, FirstClock
    <3>3. \A j \in times : Len(trace) - k <= Len(trace) - j
      BY <3>2
    <3> QED
      BY <1>1, <3>3
  <2>2. Max(times) = k
    <3>1. times \subseteq Int
      BY <1>1
    <3> HIDE DEF times
    <3>2. \A x \in times : (\A y \in times : x >= y) <=> x = k
      BY <2>1, <3>1
    <3> QED
      BY <2>1, <3>2 DEF Max
  <2>3. LastOf(ids) = trace[k]
    BY <1>3, <1>5, <2>2
  <2>4. trace[k] # 0
    <3>1. trace[k] \in Ids
      BY <1>1, <2>1
    <3> QED
      BY <3>1, ProgramsAssumption DEF TypeInv, Ids
  <2>5. ASSUME NEW x \in ids \intersect Happened PROVE clock[x] <= clock[trace[k]]
    <3>1. PICK j \in times : x = trace[j]
      BY <1>2
    <3>2. j = k \/ j < k
      BY <1>1, <2>1
    <3>3. clock[trace[k]] \in Nat
      BY <1>2, <2>1 DEF ClockInv
    <3> QED
      BY <2>1, <3>1, <3>2, <3>3 DEF ClockInv
  <2> QED
    BY <1>2, <2>1, <2>3, <2>4, <2>5
<1> QED
  BY <1>4, <1>5

(* What an event is guarded by, or uses, has happened before it.           *)
LEMMA InScopeHappened ==
  ASSUME TypeInv, ClockInv, NEW id \in Ids, Predecessors(id) \subseteq Happened,
         NEW x, InScope(program, x, id)
  PROVE  /\ x \in IdsOf(Reading) /\ x \in Happened
         /\ Enabled(id, val) => x \in DOMAIN flow
<1>1. /\ x \in IdsOf(Reading) /\ Event(x).guard \subseteq Event(id).guard
      /\ ComesBefore(program, x, id)
  BY DEF InScope, IdsOf, Ids, Event
<1>2. Happened \subseteq Ids
  BY DEF ClockInv
<1>3. \A t \in Threads : \A y, z : Before(program, t, y, z) => y \in Predecessors(z)
  BY BeforeIsPredecessor DEF TypeInv
<1>4. x \in Happened
  <2>1. CASE \E t \in DOMAIN program.threads : Before(program, t, x, id)
    BY <1>3, <2>1 DEF Threads
  <2>2. CASE /\ x # id
             /\ \A ids \in SUBSET DOMAIN program.event :
                  ClosedDownwards(program, ids) /\ id \in ids => x \in ids
    <3>1. Happened \union {id} \in SUBSET DOMAIN program.event
      BY <1>2 DEF Ids
    <3>2. ClosedDownwards(program, Happened \union {id})
      BY <1>3 DEF ClosedDownwards, ClockInv, Closed, Threads
    <3> QED
      BY <2>2, <3>1, <3>2
  <2> QED
    BY <1>1, <2>1, <2>2 DEF ComesBefore
<1>5. Enabled(id, val) => Enabled(x, val)
  BY <1>1 DEF Enabled, Holds
<1> QED
  BY <1>1, <1>4, <1>5 DEF TypeInv

(* Events that have happened, or are next, do not depend on what is read   *)
(* later.                                                                  *)
Later(v) ==
  /\ \A x \in DOMAIN val : x \in DOMAIN v /\ v[x] = val[x]
  /\ \A x \in DOMAIN v \ DOMAIN val : x \notin Happened

(* The guard and the terms of an event that has happened, or is next, are  *)
(* the same in a later state.                                              *)
LEMMA SameLater ==
  ASSUME TypeInv, ClockInv, NEW v, Later(v),
         NEW id \in Ids, Predecessors(id) \subseteq Happened, Event(id).kind \notin Sync
  PROVE  /\ Enabled(id, v) <=> Enabled(id, val)
         /\ \A term : TermInScope(program, term, id) /\ Enabled(id, val)
                       => Eval(term, v) = Eval(term, val)
<1>1. /\ OwnDataOnly(program, id, Event(id))
      /\ Input \in DOMAIN val
  BY DataFlowAssumption DEF TypeInv, Ids, Event
<1>2. ASSUME Enabled(id, v) PROVE Enabled(id, val)
  <2>1. ASSUME NEW eq \in Event(id).guard PROVE eq[1] \in DOMAIN val
    <3>1. eq[1] = Input \/ InScope(program, eq[1], id)
      BY <1>1 DEF OwnDataOnly
    <3>2. eq[1] = Input \/ eq[1] \in Happened
      BY <3>1, InScopeHappened
    <3>3. eq[1] \in DOMAIN v
      BY <1>2 DEF Enabled, Holds
    <3> QED
      BY <1>1, <3>2, <3>3 DEF Later
  <2> QED
    BY <1>2, <2>1 DEF Later, Enabled, Holds
<1>3. ASSUME Enabled(id, val) PROVE Enabled(id, v)
  BY <1>3 DEF Later, Enabled, Holds
<1>4. ASSUME NEW term, TermInScope(program, term, id), Enabled(id, val)
      PROVE  Eval(term, v) = Eval(term, val)
  <2>1. term.var = -1 \/ term.var \in DOMAIN val
    BY <1>1, <1>4, InScopeHappened DEF TermInScope, TypeInv
  <2> QED
    BY <2>1 DEF Later, Eval
<1> QED
  BY <1>2, <1>3, <1>4

(* The events in N happen in one step of the machine.                      *)
Acts(N) ==
  \/ \E id \in Ids : N = {id} /\ Happen(id)
  \/ \E r \in IdsOf(Receive), s \in IdsOf(Send) : N = {r, s} /\ Communicate(r, s)

(* A step is that of one event, or of two that meet, which get their       *)
(* clock.                                                                  *)
LEMMA StepActs == Step <=> \E N : Acts(N) /\ Clocked(N)
BY DEF Step, Acts

(* In a deadlock nothing can happen.                                       *)
LEMMA NothingWhenStuck ==
  ASSUME NEW N, Acts(N), Stuck
  PROVE  FALSE
<1>1. \A id \in Ids : Event(id).kind \in Sync \union Communication
  BY DEF Stuck, CommunicatesOnly, IdsOf
<1>2. CASE \E r \in IdsOf(Receive), s \in IdsOf(Send) : Communicate(r, s)
  BY <1>2 DEF Communicate, Stuck, Deadlock
<1>3. CASE \E id \in Ids : Happen(id)
  <2>1. PICK id \in Ids : Happen(id)
    BY <1>3
  <2>2. Event(id).kind \notin {"write", "push", "store", "read", "pop", "load"}
    BY <1>1 DEF Sync, Communication, Receive, Send
  <2>3. CASE Skip(id)
    <3>1. id \in IdsOf(Communication) /\ IsNext(id) /\ ~Enabled(id, val)
      BY <1>1, <2>3 DEF Skip, IdsOf
    <3> QED
      BY <3>1 DEF Stuck, Deadlock
  <2>4. CASE Synchronise(id)
    BY <2>4 DEF Synchronise, Stuck, Deadlock, IdsOf
  <2>5. CASE Modify(id) \/ Read(id) \/ Pop(id) \/ Load(id)
    BY <2>2, <2>5 DEF Modify, Read, Pop, Load, Reads
  <2> QED
    BY <2>1, <2>3, <2>4, <2>5 DEF Happen
<1> QED
  BY <1>2, <1>3 DEF Acts

(* What all steps have in common.                                          *)
Grown(N) ==
  /\ UNCHANGED program
  /\ N \subseteq Ids /\ N \intersect Happened = {}
  /\ \A x \in N : Predecessors(x) \subseteq Happened
  /\ Happened' = Happened \union N
  /\ steps' = steps + 1
  /\ DOMAIN clock' = N \union DOMAIN clock
  /\ \A x \in N : clock'[x] = steps + 1
  /\ \A x \in DOMAIN clock \ N : clock'[x] = clock[x]
  /\ DOMAIN flow' = DOMAIN flow \union {x \in N \intersect IdsOf(Reading) : Enabled(x, val)}
  /\ DOMAIN val' = {Input} \union DOMAIN flow'
  /\ \A x \in DOMAIN val : val'[x] = val[x]
  /\ \A x \in DOMAIN flow : flow'[x] = flow[x]

(* Events that happen are at the end of the trace.                         *)
LEMMA HappensTogether ==
  ASSUME TypeInv, NEW ids \in Seq(Ids), Happens(ids)
  PROVE  /\ Happened' = Happened \union ToSet(ids) /\ trace' \in Seq(Ids)
         /\ DOMAIN trace' = 1 .. Len(trace) + Len(ids)
         /\ \A k \in DOMAIN trace : trace'[k] = trace[k]
         /\ \A k \in DOMAIN trace' \ DOMAIN trace : trace'[k] \in ToSet(ids)
<1>1. /\ DOMAIN trace = 1 .. Len(trace) /\ Len(trace) \in Nat
      /\ DOMAIN ids = 1 .. Len(ids) /\ Len(ids) \in Nat
      /\ trace' = trace \o ids
  BY DEF TypeInv, Happens
<1>2. trace' \in Seq(Ids) /\ DOMAIN trace' = 1 .. Len(trace) + Len(ids)
  BY <1>1 DEF TypeInv
<1>3. \A k \in DOMAIN trace : trace'[k] = trace[k]
  BY <1>1 DEF TypeInv
<1>4. \A k \in DOMAIN ids : trace'[Len(trace) + k] = ids[k]
  BY <1>1 DEF TypeInv
<1>5. ASSUME NEW k \in DOMAIN trace' \ DOMAIN trace PROVE trace'[k] \in ToSet(ids)
  <2>1. k - Len(trace) \in DOMAIN ids /\ k = Len(trace) + (k - Len(trace))
    BY <1>1, <1>2
  <2> QED
    BY <1>4, <2>1 DEF ToSet
<1>6. \A k \in DOMAIN ids : Len(trace) + k \in DOMAIN trace'
  BY <1>1, <1>2
<1>7. DOMAIN trace \subseteq DOMAIN trace'
  BY <1>1, <1>2
<1>8. Happened' = Happened \union ToSet(ids)
  <2>1. Happened' = {trace'[k] : k \in DOMAIN trace'}
    BY DEF Happened, ToSet
  <2>2. Happened = {trace[k] : k \in DOMAIN trace} /\ ToSet(ids) = {ids[k] : k \in DOMAIN ids}
    BY DEF Happened, ToSet
  <2> QED
    BY <1>3, <1>4, <1>5, <1>6, <1>7, <2>1, <2>2
<1> QED
  BY <1>2, <1>3, <1>5, <1>8

(* The three kinds of steps of one event, and of two that meet.            *)
LEMMA ActsAre ==
  ASSUME TypeInv, NEW N, Acts(N)
  PROVE  \/ \E id \in Ids :
              /\ N = {id} /\ IsNext(id) /\ Happens(<<id>>)
              /\ UNCHANGED <<program, val, flow>>
              /\ Event(id).kind \in {"write", "push", "store"} \/ ~Enabled(id, val) \/ Event(id).kind \in Sync
         \/ \E id \in Ids : \E source, v :
              /\ N = {id} /\ Event(id).kind \in {"read", "pop", "load"}
              /\ Reads(id, Event(id).kind, source, v)
         \/ \E r \in IdsOf(Receive), s \in IdsOf(Send) : N = {r, s} /\ Communicate(r, s)
<1>1. ASSUME NEW id \in Ids, N = {id}, Happen(id)
      PROVE  \/ /\ N = {id} /\ IsNext(id) /\ Happens(<<id>>)
                /\ UNCHANGED <<program, val, flow>>
                /\ Event(id).kind \in {"write", "push", "store"} \/ ~Enabled(id, val) \/ Event(id).kind \in Sync
             \/ \E source, v :
                  /\ N = {id} /\ Event(id).kind \in {"read", "pop", "load"}
                  /\ Reads(id, Event(id).kind, source, v)
  <2>1. CASE Skip(id) \/ Synchronise(id) \/ Modify(id)
    BY <1>1, <2>1 DEF Skip, Synchronise, Modify
  <2>2. CASE Read(id)
    <3>1. \E source, v : Reads(id, "read", source, v)
      BY <2>2 DEF Read
    <3>2. PICK source, v : Reads(id, "read", source, v)
      BY <3>1
    <3>3. Event(id).kind = "read"
      BY <3>2 DEF Reads
    <3> QED
      BY <1>1, <3>2, <3>3
  <2>3. CASE Pop(id)
    <3>1. \E source, v : Reads(id, "pop", source, v)
      BY <2>3 DEF Pop
    <3>2. PICK source, v : Reads(id, "pop", source, v)
      BY <3>1
    <3>3. Event(id).kind = "pop"
      BY <3>2 DEF Reads
    <3> QED
      BY <1>1, <3>2, <3>3
  <2>4. CASE Load(id)
    <3>1. \E source, v : Reads(id, "load", source, v)
      BY <2>4 DEF Load
    <3>2. PICK source, v : Reads(id, "load", source, v)
      BY <3>1
    <3>3. Event(id).kind = "load"
      BY <3>2 DEF Reads
    <3> QED
      BY <1>1, <3>2, <3>3
  <2> QED
    BY <1>1, <2>1, <2>2, <2>3, <2>4 DEF Happen
<1> QED
  BY <1>1 DEF Acts

(* What a step adds to the events that happened and to what was read.      *)
LEMMA ActsGrow ==
  ASSUME TypeInv, ClockInv, AllHappened, NEW N, Acts(N), Clocked(N)
  PROVE  Grown(N)
<1>1. /\ steps' = steps + 1 /\ DOMAIN clock' = N \union DOMAIN clock
      /\ \A x \in N : clock'[x] = steps + 1
      /\ \A x \in DOMAIN clock \ N : clock'[x] = clock[x]
  BY DEF Clocked
<1>2. CASE \E id \in Ids :
              /\ N = {id} /\ IsNext(id) /\ Happens(<<id>>)
              /\ UNCHANGED <<program, val, flow>>
              /\ Event(id).kind \in {"write", "push", "store"} \/ ~Enabled(id, val) \/ Event(id).kind \in Sync
  <2>1. PICK id \in Ids :
              /\ N = {id} /\ IsNext(id) /\ Happens(<<id>>)
              /\ UNCHANGED <<program, val, flow>>
              /\ Event(id).kind \in {"write", "push", "store"} \/ ~Enabled(id, val) \/ Event(id).kind \in Sync
    BY <1>2
  <2>2. ToSet(<<id>>) = N /\ <<id>> \in Seq(Ids)
    BY <2>1 DEF ToSet
  <2>3. Happened' = Happened \union N
    BY <2>1, <2>2, HappensTogether
  <2>4. {x \in N \intersect IdsOf(Reading) : Enabled(x, val)} = {}
    BY <2>1 DEF IdsOf, Reading, Sync, Receive
  <2>5. DOMAIN flow' = DOMAIN flow /\ DOMAIN val' = {Input} \union DOMAIN flow'
    BY <2>1 DEF TypeInv
  <2> QED
    BY <1>1, <2>1, <2>3, <2>4, <2>5 DEF Grown, IsNext
<1>3. CASE \E id \in Ids : \E source, v :
              /\ N = {id} /\ Event(id).kind \in {"read", "pop", "load"}
              /\ Reads(id, Event(id).kind, source, v)
  <2>1. PICK id \in Ids : \E source, v :
              /\ N = {id} /\ Event(id).kind \in {"read", "pop", "load"}
              /\ Reads(id, Event(id).kind, source, v)
    BY <1>3
  <2>2. ToSet(<<id>>) = N /\ <<id>> \in Seq(Ids)
    BY <2>1 DEF ToSet
  <2>3. Happened' = Happened \union N /\ UNCHANGED program /\ IsNext(id)
    BY <2>1, <2>2, HappensTogether DEF Reads
  <2>4. {x \in N \intersect IdsOf(Reading) : Enabled(x, val)} = {id}
    BY <2>1 DEF IdsOf, Reading, Reads
  <2>5. /\ DOMAIN flow' = DOMAIN flow \union {id} /\ DOMAIN val' = DOMAIN val \union {id}
        /\ \A x \in DOMAIN val \ {id} : val'[x] = val[x]
        /\ \A x \in DOMAIN flow \ {id} : flow'[x] = flow[x]
    BY <2>1 DEF Reads, With
  <2>6. id \notin DOMAIN flow /\ id \notin DOMAIN val
    BY <2>3, ProgramsAssumption DEF IsNext, TypeInv, Ids, Input
  <2> QED
    BY <1>1, <2>1, <2>3, <2>4, <2>5, <2>6 DEF Grown, IsNext, TypeInv
<1>4. CASE \E r \in IdsOf(Receive), s \in IdsOf(Send) : N = {r, s} /\ Communicate(r, s)
  <2>1. PICK r \in IdsOf(Receive), s \in IdsOf(Send) : N = {r, s} /\ Communicate(r, s)
    BY <1>4
  <2>2. ToSet(<<s, r>>) = N /\ <<s, r>> \in Seq(Ids) /\ N \subseteq Ids
    BY <2>1 DEF ToSet, IdsOf
  <2>3. Happened' = Happened \union N /\ UNCHANGED program /\ IsNext(r) /\ IsNext(s)
    BY <2>1, <2>2, HappensTogether DEF Communicate, CanMeet
  <2>4. {x \in N \intersect IdsOf(Reading) : Enabled(x, val)} = {r}
    BY <2>1 DEF IdsOf, Reading, Communicate, CanMeet, Receive, Send
  <2>5. /\ DOMAIN flow' = DOMAIN flow \union {r} /\ DOMAIN val' = DOMAIN val \union {r}
        /\ \A x \in DOMAIN val \ {r} : val'[x] = val[x]
        /\ \A x \in DOMAIN flow \ {r} : flow'[x] = flow[x]
    BY <2>1 DEF Communicate, With
  <2>6. r \notin DOMAIN flow /\ r \notin DOMAIN val
    BY <2>2, <2>3, ProgramsAssumption DEF IsNext, TypeInv, Ids, Input, IdsOf
  <2> QED
    BY <1>1, <2>1, <2>2, <2>3, <2>4, <2>5, <2>6 DEF Grown, IsNext, TypeInv
<1> QED
  BY <1>2, <1>3, <1>4, ActsAre

(* The program never changes, so neither does what is said of it alone.    *)
LEMMA SameProgram ==
  ASSUME UNCHANGED program
  PROVE  /\ Ids' = Ids /\ Threads' = Threads
         /\ \A id : Event(id)' = Event(id)
         /\ \A kinds : IdsOf(kinds)' = IdsOf(kinds)
         /\ \A kind, a : At(kind, a)' = At(kind, a)
         /\ \A id : Predecessors(id)' = Predecessors(id)
         /\ \A r, s : Meets(r, s)' <=> Meets(r, s)
         /\ \A id : Enabled(id, val)' <=> Enabled(id, val')
<1>1. Ids' = Ids /\ Threads' = Threads /\ \A id : Event(id)' = Event(id)
  BY DEF Ids, Threads, Event
<1>2. \A id : Predecessors(id)' = Predecessors(id)
  <2>1. \A id : ThreadsOf(id)' = ThreadsOf(id)
    BY <1>1 DEF ThreadsOf
  <2>2. \A t, id : Position(t, id)' = Position(t, id)
    BY DEF Position
  <2> QED
    BY <2>1, <2>2 DEF Predecessors
<1> QED
  BY <1>1, <1>2 DEF IdsOf, At, Meets, Enabled

(* A step keeps what has happened, and what is next, as it is.             *)
LEMMA Kept ==
  ASSUME TypeInv, ClockInv, AllHappened, NEW N, Grown(N),
         NEW x \in Happened \union N, Event(x).kind \notin Sync
  PROVE  /\ x \in Ids
         /\ Enabled(x, val)' <=> Enabled(x, val)
         /\ Enabled(x, val) =>
              /\ Event(x).kind \notin Reading => ValueOf(x)' = ValueOf(x)
              /\ Event(x).kind \in {"load", "store"} => Offset(x)' = Offset(x)
<1>1. x \in Ids /\ Predecessors(x) \subseteq Happened
  BY DEF Grown, ClockInv, Closed
<1>2. Later(val')
  BY DEF Grown, Later, TypeInv
<1>3. Enabled(x, val') <=> Enabled(x, val)
  BY <1>1, <1>2, SameLater
<1>4. Enabled(x, val)' <=> Enabled(x, val')
  BY SameProgram DEF Grown
<1>5. \A term : TermInScope(program, term, x) /\ Enabled(x, val)
                   => Eval(term, val') = Eval(term, val)
  BY <1>1, <1>2, SameLater
<1>6. OwnDataOnly(program, x, Event(x))
  BY <1>1, DataFlowAssumption DEF TypeInv, Ids, Event
<1>7. Event(x)' = Event(x)
  BY SameProgram DEF Grown
<1>8. ASSUME Enabled(x, val), Event(x).kind \notin Reading PROVE ValueOf(x)' = ValueOf(x)
  <2>1. TermInScope(program, Event(x).term, x)
    BY <1>6, <1>8 DEF OwnDataOnly
  <2>2. Eval(Event(x).term, val') = Eval(Event(x).term, val)
    BY <1>5, <1>8, <2>1
  <2>3. ValueOf(x)' = Eval(Event(x).term, val')
    BY <1>7 DEF ValueOf, Eval
  <2> QED
    BY <2>2, <2>3 DEF ValueOf
<1>9. ASSUME Enabled(x, val), Event(x).kind \in {"load", "store"} PROVE Offset(x)' = Offset(x)
  <2>1. TermInScope(program, Event(x).offset, x)
    BY <1>6, <1>9 DEF OwnDataOnly
  <2>2. Eval(Event(x).offset, val') = Eval(Event(x).offset, val)
    BY <1>5, <1>9, <2>1
  <2>3. Offset(x)' = Eval(Event(x).offset, val')
    BY <1>7 DEF Offset, Eval
  <2> QED
    BY <2>2, <2>3 DEF Offset
<1> QED
  BY <1>1, <1>3, <1>4, <1>8, <1>9

(* Values are integers.                                                    *)
LEMMA ValuesAreIntegers ==
  ASSUME TypeInv, ClockInv, IntegerTerms(program),
         NEW x \in Ids, Predecessors(x) \subseteq Happened, Enabled(x, val),
         Event(x).kind \notin Sync, Event(x).kind \notin Reading
  PROVE  ValueOf(x) \in Int
<1>1. OwnDataOnly(program, x, Event(x))
  BY DataFlowAssumption DEF TypeInv, Ids, Event
<1>2. TermInScope(program, Event(x).term, x)
  BY <1>1 DEF OwnDataOnly
<1>3. Event(x).term.var = -1 \/ Event(x).term.var \in DOMAIN val
  BY <1>2, InScopeHappened DEF TermInScope, TypeInv
<1>4. Event(x).term.const \in Int
  BY DEF IntegerTerms, Ids, Event
<1> QED
  BY <1>3, <1>4 DEF ValueOf, Eval, TypeInv

-----------------------------------------------------------------------------
(* A step keeps types and clocks.                                          *)

(* Each step keeps the type invariant.                                     *)
LEMMA TypeStep ==
  ASSUME TypeInv, ClockInv, AllHappened, NEW N, Grown(N),
         trace' \in Seq(Ids), \A x \in DOMAIN val' \ DOMAIN val : val'[x] \in Int
  PROVE  TypeInv'
<1>1. program' \in Programs /\ trace' \in Seq(Ids') /\ steps' \in Nat
  BY SameProgram DEF TypeInv, Grown
<1>2. DOMAIN val' = {Input} \union DOMAIN flow'
  BY DEF Grown
<1>3. \A x \in DOMAIN val' : val'[x] \in Int
  BY DEF Grown, TypeInv
<1>4. DOMAIN flow' = {x \in IdsOf(Reading)' \intersect Happened' : Enabled(x, val)'}
  <2>1. IdsOf(Reading)' = IdsOf(Reading) /\ Happened' = Happened \union N
    BY SameProgram DEF Grown
  <2>2. \A x \in IdsOf(Reading) \intersect (Happened \union N) : Enabled(x, val)' <=> Enabled(x, val)
    BY Kept DEF IdsOf, Reading, Sync, Receive
  <2>3. DOMAIN flow' = {x \in IdsOf(Reading) \intersect (Happened \union N) : Enabled(x, val)}
    BY DEF Grown, TypeInv
  <2> QED
    BY <2>1, <2>2, <2>3
<1> QED
  BY <1>1, <1>2, <1>3, <1>4 DEF TypeInv

(* Each step keeps the clocks ascending, as the new one is the greatest.   *)
LEMMA ClockStep ==
  ASSUME TypeInv, ClockInv, AllHappened, NEW N, Grown(N),
         trace' \in Seq(Ids),
         \A k \in DOMAIN trace : k \in DOMAIN trace' /\ trace'[k] = trace[k],
         \A k \in DOMAIN trace' \ DOMAIN trace : trace'[k] \in N
  PROVE  ClockInv' /\ AllHappened'
<1>1. /\ Happened' = Happened \union N /\ DOMAIN clock' = Happened \union N
      /\ DOMAIN clock' \subseteq Ids'
  BY SameProgram DEF Grown, AllHappened, ClockInv
<1>2. \A x \in Happened : clock'[x] = clock[x] /\ clock[x] \in Nat /\ clock[x] <= steps
  BY DEF Grown, AllHappened, ClockInv
<1>3. \A x \in N : clock'[x] = steps + 1
  BY DEF Grown
<1>4. steps \in Nat /\ steps' = steps + 1
  BY DEF TypeInv, Grown
<1>5. \A x : Predecessors(x)' = Predecessors(x)
  BY SameProgram DEF Grown
<1>6. \A x \in Happened \union N : Predecessors(x) \subseteq Happened
  BY DEF Grown, ClockInv, Closed
<1>7. Closed(Happened)' /\ Closed(DOMAIN clock)'
  BY <1>1, <1>5, <1>6 DEF Closed
<1>8. \A x \in DOMAIN clock' : clock'[x] \in Nat /\ clock'[x] <= steps'
  BY <1>1, <1>2, <1>3, <1>4
<1>9. ASSUME NEW x \in DOMAIN clock', NEW y \in Predecessors(x)' PROVE clock'[y] < clock'[x]
  <2>1. y \in Predecessors(x) /\ y \in Happened
    BY <1>1, <1>5, <1>6, <1>9
  <2>2. CASE x \in N
    BY <1>2, <1>3, <1>4, <2>1, <2>2
  <2>3. CASE x \in Happened
    BY <1>2, <2>1, <2>3 DEF ClockInv
  <2> QED
    BY <1>1, <2>2, <2>3
<1>10. ASSUME NEW j \in DOMAIN trace', NEW k \in DOMAIN trace', j < k
       PROVE  clock'[trace'[j]] <= clock'[trace'[k]]
  <2>1. \A i \in DOMAIN trace : trace[i] \in Happened
    BY DEF Happened, ToSet
  <2>2. CASE k \in DOMAIN trace
    <3>1. j \in DOMAIN trace
      BY <1>10, <2>2 DEF TypeInv
    <3>2. clock[trace[j]] <= clock[trace[k]]
      BY <1>10, <2>2, <3>1 DEF ClockInv
    <3> QED
      BY <1>2, <2>1, <2>2, <3>1, <3>2
  <2>3. CASE k \notin DOMAIN trace
    <3>1. clock'[trace'[k]] = steps + 1
      BY <1>3, <2>3
    <3>2. trace'[j] \in Happened \union N
      BY <2>1
    <3>3. clock'[trace'[j]] \in Nat /\ clock'[trace'[j]] <= steps + 1
      BY <1>1, <1>4, <1>8, <3>2
    <3> QED
      BY <3>1, <3>3
  <2> QED
    BY <2>2, <2>3
<1> QED
  BY <1>1, <1>7, <1>8, <1>9, <1>10 DEF ClockInv, AllHappened

-----------------------------------------------------------------------------
(* Each kind of reading finds its source, and keeps it.                    *)

(* What an event that reads gets.                                          *)
LEMMA NewRead ==
  ASSUME TypeInv, NEW N, Acts(N), Grown(N), NEW x \in DOMAIN flow' \ DOMAIN flow
  PROVE  /\ x \in N /\ x \in IdsOf(Reading) /\ Enabled(x, val)
         /\ Event(x).kind = "read" =>
              /\ N = {x} /\ flow'[x] = LastWrite(Event(x).address) /\ flow'[x] # 0
              /\ val'[x] = ValueOf(flow'[x])
         /\ Event(x).kind = "pop" =>
              /\ N = {x} /\ flow'[x] = LastOf(StackAt(Event(x).address)) /\ flow'[x] # 0
              /\ val'[x] = ValueOf(flow'[x])
         /\ Event(x).kind = "load" =>
              /\ N = {x} /\ flow'[x] = LastStore(Event(x).address, Offset(x))
              /\ val'[x] = IF flow'[x] = 0 THEN 0 ELSE ValueOf(flow'[x])
         /\ Event(x).kind \in Receive =>
              \E s \in IdsOf(Send) :
                 /\ N = {x, s} /\ Communicate(x, s)
                 /\ flow'[x] = s /\ val'[x] = ValueOf(s)
<1>1. x \in N /\ x \in IdsOf(Reading) /\ Enabled(x, val) /\ DOMAIN flow # DOMAIN flow'
  BY DEF Grown
<1>2. ASSUME NEW kind, NEW source, NEW v, N = {x}, Reads(x, kind, source, v)
      PROVE  Event(x).kind = kind /\ flow'[x] = source /\ val'[x] = v
  BY <1>2 DEF Reads, With
<1>3. CASE \E id \in Ids : N = {id} /\ Happen(id)
  <2>1. N = {x} /\ Happen(x)
    BY <1>1, <1>3
  <2>2. ~Skip(x) /\ ~Synchronise(x) /\ ~Modify(x)
    BY <1>1 DEF Skip, Synchronise, Modify
  <2>3. CASE Read(x)
    <3>1. /\ Reads(x, "read", LastWrite(Event(x).address), ValueOf(LastWrite(Event(x).address)))
          /\ LastWrite(Event(x).address) # 0
      BY <2>3 DEF Read
    <3>2. Event(x).kind = "read" /\ flow'[x] = LastWrite(Event(x).address) /\ val'[x] = ValueOf(flow'[x])
      BY <1>2, <2>1, <3>1
    <3> QED
      BY <1>1, <2>1, <3>1, <3>2 DEF Receive
  <2>4. CASE Pop(x)
    <3> DEFINE push == LastOf(StackAt(Event(x).address))
    <3>1. Reads(x, "pop", push, ValueOf(push)) /\ push # 0
      BY <2>4 DEF Pop
    <3>2. Event(x).kind = "pop" /\ flow'[x] = push /\ val'[x] = ValueOf(push)
      BY <1>2, <2>1, <3>1
    <3> QED
      BY <1>1, <2>1, <3>1, <3>2 DEF Receive
  <2>5. CASE Load(x)
    <3> DEFINE s == LastStore(Event(x).address, Offset(x))
    <3>1. Reads(x, "load", s, IF s = 0 THEN 0 ELSE ValueOf(s))
      BY <2>5 DEF Load, Offset
    <3>2. Event(x).kind = "load" /\ flow'[x] = s /\ val'[x] = IF s = 0 THEN 0 ELSE ValueOf(s)
      BY <1>2, <2>1, <3>1
    <3> QED
      BY <1>1, <2>1, <3>1, <3>2 DEF Receive
  <2> QED
    BY <2>1, <2>2, <2>3, <2>4, <2>5 DEF Happen
<1>4. CASE \E r \in IdsOf(Receive), s \in IdsOf(Send) : N = {r, s} /\ Communicate(r, s)
  <2>1. PICK r \in IdsOf(Receive), s \in IdsOf(Send) : N = {r, s} /\ Communicate(r, s)
    BY <1>4
  <2>2. r = x /\ Event(x).kind \in Receive
    BY <1>1, <2>1 DEF IdsOf, Reading, Receive, Send
  <2>3. flow'[r] = s /\ val'[r] = ValueOf(s)
    BY <2>1 DEF Communicate, With
  <2>4. Event(x).kind \notin {"read", "pop", "load"}
    BY <2>2 DEF Receive
  <2> QED
    BY <1>1, <2>1, <2>2, <2>3, <2>4
<1> QED
  BY <1>3, <1>4 DEF Acts

(* New events come later than all before.                                  *)
LEMMA NewIsLater ==
  ASSUME TypeInv, ClockInv, AllHappened, NEW N, Grown(N)
  PROVE  /\ \A x \in Happened : /\ clock'[x] = clock[x] /\ clock[x] \in Nat /\ x \notin N
                                /\ clock[x] < steps + 1
         /\ \A x \in N : clock'[x] = steps + 1 /\ x \notin Happened
         /\ steps \in Nat /\ Happened \subseteq Ids /\ N \subseteq Ids
BY DEF Grown, TypeInv, ClockInv, AllHappened

(* What has been read stays as it is.                                      *)
LEMMA OldRead ==
  ASSUME TypeInv, ClockInv, AllHappened, NEW N, Grown(N), NEW x \in DOMAIN flow
  PROVE  /\ x \in Happened /\ x \in Ids /\ flow'[x] = flow[x] /\ val'[x] = val[x]
         /\ Event(x)' = Event(x) /\ Event(x).kind \in Reading /\ Effect(x)
BY SameProgram DEF Grown, TypeInv, ClockInv, IdsOf, Effect

(* Effects of a step.                                                      *)
LEMMA EffectStep ==
  ASSUME TypeInv, ClockInv, AllHappened, NEW N, Grown(N), NEW x, Event(x).kind \notin Sync
  PROVE  /\ x \in Happened => (Effect(x)' <=> Effect(x))
         /\ x \in N => (Effect(x)' <=> Enabled(x, val))
         /\ Effect(x)' => x \in Happened \union N
<1>1. Happened' = Happened \union N /\ N \intersect Happened = {}
  BY DEF Grown
<1> QED
  BY <1>1, Kept DEF Effect

(* Events at an address are the same ones, whatever the state.             *)
LEMMA SameAt ==
  ASSUME UNCHANGED program
  PROVE  \A kind, x : At(kind, Event(x).address)' = At(kind, Event(x).address)
<1>1. \A kind, a : At(kind, a)' = At(kind, a)
  BY SameProgram
<1>2. \A x : Event(x)' = Event(x)
  BY SameProgram
<1> QED
  BY <1>1, <1>2, SameProgram DEF At

(* Each step keeps reads consistent: a new read has the last write for its *)
(* source, and a new write is later than each read.                        *)
LEMMA ReadStep ==
  ASSUME TypeInv, ClockInv, AllHappened, ReadInv, NEW N, Acts(N), Grown(N)
  PROVE  ReadInv'
<1> SUFFICES ASSUME NEW x \in DOMAIN flow', Event(x).kind = "read"
             PROVE  \E w \in At("write", Event(x).address) :
                      /\ flow'[x] = w /\ Effect(w)'
                      /\ clock'[w] < clock'[x] /\ val'[x] = ValueOf(w)'
                      /\ \A v \in At("write", Event(x).address) :
                           Effect(v)' /\ clock'[v] < clock'[x] => clock'[v] <= clock'[w]
  <2>1. \A x : Event(x)' = Event(x) /\ At("write", Event(x).address)' = At("write", Event(x).address)
    BY SameProgram, SameAt DEF Grown
  <2> QED
    BY <2>1 DEF ReadInv
<1> DEFINE writes == At("write", Event(x).address)
<1>1. \A v \in writes : v \in Ids /\ Event(v).kind = "write" /\ Event(v).kind \notin Sync \union Reading
  BY DEF At, Sync, Reading, Receive
<1>2. ASSUME NEW v \in writes, Effect(v)', clock'[v] < clock'[x]
      PROVE  v \in Happened /\ Effect(v) /\ clock'[v] = clock[v]
  <2>1. v \in Happened \union N
    BY <1>1, <1>2, EffectStep
  <2>2. x \in Happened \union N
    BY OldRead, NewRead
  <2>3. v \in Happened
    BY <1>2, <2>1, <2>2, NewIsLater
  <2> QED
    BY <1>1, <1>2, <2>3, EffectStep, NewIsLater
<1>3. CASE x \in DOMAIN flow
  <2>1. PICK w \in writes :
          /\ flow[x] = w /\ Effect(w) /\ clock[w] < clock[x] /\ val[x] = ValueOf(w)
          /\ \A v \in writes : Effect(v) /\ clock[v] < clock[x] => clock[v] <= clock[w]
    BY <1>3 DEF ReadInv
  <2>2. x \in Happened /\ w \in Happened /\ flow'[x] = w /\ val'[x] = val[x]
    BY <1>3, <2>1, OldRead DEF Effect
  <2>3. Effect(w)' /\ ValueOf(w)' = ValueOf(w)
    BY <1>1, <2>1, <2>2, EffectStep, Kept DEF Effect
  <2>4. \A v \in writes : Effect(v)' /\ clock'[v] < clock'[x] => clock'[v] <= clock'[w]
    BY <1>2, <2>1, <2>2, NewIsLater
  <2> QED
    BY <2>1, <2>2, <2>3, <2>4, NewIsLater
<1>4. CASE x \notin DOMAIN flow
  <2>1. PICK w : w = flow'[x]
    OBVIOUS
  <2>2. /\ N = {x} /\ w = LastWrite(Event(x).address) /\ w # 0 /\ val'[x] = ValueOf(w)
    BY <1>4, <2>1, NewRead
  <2>3. /\ w \in Effective(writes) \intersect Happened
        /\ \A v \in Effective(writes) \intersect Happened : clock[v] <= clock[w]
    BY <2>2, LastByClock DEF LastWrite
  <2>4. w \in writes /\ Effect(w) /\ w \in Happened
    BY <2>3 DEF Effective, Effect
  <2>5. Effect(w)' /\ ValueOf(w)' = ValueOf(w)
    BY <1>1, <2>4, EffectStep, Kept DEF Effect
  <2>6. \A v \in writes : Effect(v)' /\ clock'[v] < clock'[x] => clock'[v] <= clock'[w]
    BY <1>2, <2>3, <2>4, NewIsLater DEF Effective, Effect
  <2> QED
    BY <2>1, <2>2, <2>4, <2>5, <2>6, NewIsLater
<1> QED
  BY <1>3, <1>4

(* Only a pop takes a push from a stack.                                   *)
LEMMA SourceOfNew ==
  ASSUME TypeInv, ClockInv, NEW N, Acts(N), Grown(N), NEW y \in DOMAIN flow' \ DOMAIN flow,
         NEW push \in IdsOf({"push"}), flow'[y] = push
  PROVE  /\ N = {y} /\ Event(y).kind = "pop"
         /\ push \in StackAt(Event(y).address)
<1>1. push # 0 /\ Event(push).kind = "push"
  BY ProgramsAssumption DEF TypeInv, IdsOf, Ids
<1>2. Event(y).kind \in Reading
  BY NewRead DEF IdsOf
<1>3. ASSUME NEW ids, push = LastOf(ids) PROVE push \in ids
  BY <1>1, <1>3, LastByClock
<1>4. Event(y).kind # "read"
  <2> SUFFICES ASSUME Event(y).kind = "read" PROVE FALSE
    OBVIOUS
  <2>1. push = LastOf(Effective(At("write", Event(y).address)))
    BY NewRead DEF LastWrite
  <2>2. push \in Effective(At("write", Event(y).address))
    BY <1>3, <2>1
  <2> QED
    BY <1>1, <2>2 DEF Effective, At
<1>5. Event(y).kind # "load"
  <2> SUFFICES ASSUME Event(y).kind = "load" PROVE FALSE
    OBVIOUS
  <2> DEFINE ids == {id \in Effective(At("store", Event(y).address)) :
                        Eval(Event(id).offset, val) = Offset(y)}
  <2>1. push = LastOf(ids)
    BY NewRead DEF LastStore
  <2>2. push \in ids
    BY <1>3, <2>1
  <2> QED
    BY <1>1, <2>2 DEF Effective, At
<1>6. Event(y).kind \notin Receive
  BY <1>1, NewRead DEF IdsOf, Send
<1>7. Event(y).kind = "pop"
  BY <1>2, <1>4, <1>5, <1>6 DEF Reading
<1>8. N = {y} /\ push = LastOf(StackAt(Event(y).address))
  BY <1>7, NewRead
<1> QED
  BY <1>3, <1>7, <1>8

(* Each step keeps stacks consistent: a new pop takes the last push that   *)
(* is left, and what is pushed later is not before an old pop.             *)
LEMMA PopStep ==
  ASSUME TypeInv, ClockInv, AllHappened, PopInv, NEW N, Acts(N), Grown(N)
  PROVE  PopInv'
<1> SUFFICES ASSUME NEW x \in DOMAIN flow', Event(x).kind = "pop"
             PROVE  \E push \in At("push", Event(x).address) :
                      /\ flow'[x] = push /\ Effect(push)'
                      /\ clock'[push] < clock'[x] /\ val'[x] = ValueOf(push)'
                      /\ \A y \in DOMAIN flow' : flow'[y] = push => y = x
                      /\ \A v \in At("push", Event(x).address) :
                           Effect(v)' /\ clock'[push] < clock'[v] /\ clock'[v] < clock'[x]
                           => \E y \in DOMAIN flow' : flow'[y] = v /\ clock'[y] < clock'[x]
  <2>1. \A x : Event(x)' = Event(x) /\ At("push", Event(x).address)' = At("push", Event(x).address)
    BY SameProgram, SameAt DEF Grown
  <2> QED
    BY <2>1 DEF PopInv
<1> DEFINE pushes == At("push", Event(x).address)
<1>1. \A v \in pushes : /\ v \in Ids /\ Event(v).kind = "push" /\ v \in IdsOf({"push"})
                        /\ Event(v).kind \notin Sync \union Reading
  BY DEF At, Sync, Reading, Receive, IdsOf
<1>2. ASSUME NEW v \in pushes, Effect(v)', clock'[v] < clock'[x]
      PROVE  v \in Happened /\ Effect(v) /\ clock'[v] = clock[v]
  <2>1. v \in Happened \union N
    BY <1>1, <1>2, EffectStep
  <2>2. x \in Happened \union N
    BY OldRead, NewRead
  <2>3. v \in Happened
    BY <1>2, <2>1, <2>2, NewIsLater
  <2> QED
    BY <1>1, <1>2, <2>3, EffectStep, NewIsLater
<1>3. CASE x \in DOMAIN flow
  <2>1. PICK push \in pushes :
          /\ flow[x] = push /\ Effect(push) /\ clock[push] < clock[x] /\ val[x] = ValueOf(push)
          /\ \A y \in DOMAIN flow : flow[y] = push => y = x
          /\ \A v \in pushes :
               Effect(v) /\ clock[push] < clock[v] /\ clock[v] < clock[x]
               => \E y \in DOMAIN flow : flow[y] = v /\ clock[y] < clock[x]
    BY <1>3 DEF PopInv
  <2>2. x \in Happened /\ push \in Happened /\ flow'[x] = push /\ val'[x] = val[x]
    BY <1>3, <2>1, OldRead DEF Effect
  <2>3. Effect(push)' /\ ValueOf(push)' = ValueOf(push)
    BY <1>1, <2>1, <2>2, EffectStep, Kept DEF Effect
  <2>4. ASSUME NEW y \in DOMAIN flow', flow'[y] = push PROVE y = x
    <3>1. CASE y \in DOMAIN flow
      BY <2>1, <2>4, <3>1, OldRead
    <3>2. CASE y \notin DOMAIN flow
      <4>1. push \in StackAt(Event(y).address)
        BY <1>1, <2>4, <3>2, SourceOfNew
      <4> QED
        BY <1>3, <2>1, <4>1 DEF StackAt
    <3> QED
      BY <3>1, <3>2
  <2>5. ASSUME NEW v \in pushes, Effect(v)', clock'[push] < clock'[v], clock'[v] < clock'[x]
        PROVE  \E y \in DOMAIN flow' : flow'[y] = v /\ clock'[y] < clock'[x]
    <3>1. Effect(v) /\ clock[push] < clock[v] /\ clock[v] < clock[x]
      BY <1>2, <2>2, <2>5, NewIsLater
    <3>2. PICK y \in DOMAIN flow : flow[y] = v /\ clock[y] < clock[x]
      BY <2>1, <3>1
    <3>3. flow'[y] = v /\ clock'[y] < clock'[x]
      BY <2>2, <3>2, OldRead, NewIsLater
    <3> QED
      BY <3>3 DEF Grown
  <2> QED
    BY <2>1, <2>2, <2>3, <2>4, <2>5, NewIsLater
<1>4. CASE x \notin DOMAIN flow
  <2>1. PICK push : push = flow'[x]
    OBVIOUS
  <2>2. /\ N = {x} /\ push = LastOf(StackAt(Event(x).address)) /\ push # 0
        /\ val'[x] = ValueOf(push)
    BY <1>4, <2>1, NewRead
  <2>3. /\ push \in StackAt(Event(x).address) \intersect Happened
        /\ \A v \in StackAt(Event(x).address) \intersect Happened : clock[v] <= clock[push]
    BY <2>2, LastByClock
  <2>4. push \in pushes /\ Effect(push) /\ push \in Happened
    BY <2>3 DEF StackAt, Effective, Effect
  <2>5. Effect(push)' /\ ValueOf(push)' = ValueOf(push)
    BY <1>1, <2>4, EffectStep, Kept DEF Effect
  <2>6. ASSUME NEW y \in DOMAIN flow', flow'[y] = push PROVE y = x
    <3>1. CASE y \in DOMAIN flow
      <4>1. flow[y] = push
        BY <2>6, <3>1, OldRead
      <4> QED
        BY <2>3, <3>1, <4>1 DEF StackAt
    <3>2. CASE y \notin DOMAIN flow
      BY <2>2, <3>2, NewRead
    <3> QED
      BY <3>1, <3>2
  <2>7. ASSUME NEW v \in pushes, Effect(v)', clock'[push] < clock'[v], clock'[v] < clock'[x]
        PROVE  \E y \in DOMAIN flow' : flow'[y] = v /\ clock'[y] < clock'[x]
    <3>1. Effect(v) /\ v \in Happened /\ clock[push] < clock[v]
      BY <1>2, <2>4, <2>7, NewIsLater
    <3>2. v \notin StackAt(Event(x).address)
      <4>1. clock[v] \in Nat /\ clock[push] \in Nat
        BY <2>4, <3>1, NewIsLater
      <4> QED
        BY <2>3, <3>1, <4>1
    <3>3. PICK y \in DOMAIN flow : flow[y] = v
      BY <3>1, <3>2 DEF StackAt, Effective, Effect
    <3>4. y \in Happened /\ flow'[y] = v
      BY <3>3, OldRead
    <3>5. clock'[y] < clock'[x]
      BY <2>2, <3>4, NewIsLater
    <3> QED
      BY <3>3, <3>4, <3>5 DEF Grown
  <2> QED
    BY <2>1, <2>2, <2>4, <2>5, <2>6, <2>7, NewIsLater
<1> QED
  BY <1>3, <1>4

(* Each step keeps arrays consistent.                                      *)
LEMMA LoadStep ==
  ASSUME TypeInv, ClockInv, AllHappened, LoadInv, NEW N, Acts(N), Grown(N)
  PROVE  LoadInv'
<1> SUFFICES ASSUME NEW x \in DOMAIN flow', Event(x).kind = "load"
             PROVE  \/ /\ flow'[x] = 0 /\ val'[x] = 0
                       /\ \A v \in StoredAt(x)' : clock'[x] < clock'[v]
                    \/ \E s \in StoredAt(x)' :
                         /\ flow'[x] = s /\ clock'[s] < clock'[x] /\ val'[x] = ValueOf(s)'
                         /\ \A v \in StoredAt(x)' : clock'[v] < clock'[x] => clock'[v] <= clock'[s]
  <2>1. \A x : Event(x)' = Event(x)
    BY SameProgram DEF Grown
  <2> QED
    BY <2>1 DEF LoadInv
<1>1. \A v \in At("store", Event(x).address) :
         v \in Ids /\ Event(v).kind = "store" /\ Event(v).kind \notin Sync \union Reading
  BY DEF At, Sync, Reading, Receive
<1>2. x \in Happened \union N /\ Enabled(x, val) /\ Event(x).kind \notin Sync
  BY OldRead, NewRead DEF Effect, Sync
<1>3. Offset(x)' = Offset(x)
  BY <1>2, Kept
<1>4. At("store", Event(x).address)' = At("store", Event(x).address)
  BY SameAt DEF Grown
<1>5. ASSUME NEW v \in Happened
      PROVE  v \in StoredAt(x)' <=> v \in StoredAt(x)
  <2>1. CASE v \notin At("store", Event(x).address)
    BY <1>4, <2>1 DEF StoredAt
  <2>2. CASE v \in At("store", Event(x).address)
    <3>1. Effect(v)' <=> Effect(v)
      BY <1>1, <2>2, EffectStep
    <3>2. Effect(v) => Offset(v)' = Offset(v)
      BY <1>1, <2>2, Kept DEF Effect
    <3> QED
      BY <1>3, <1>4, <2>2, <3>1, <3>2 DEF StoredAt
  <2> QED
    BY <2>1, <2>2
<1>6. ASSUME NEW v \in StoredAt(x)' PROVE v \in Happened \union N /\ Event(v).kind = "store"
  BY <1>1, <1>4, <1>6, EffectStep DEF StoredAt
<1>7. ASSUME NEW v \in StoredAt(x)', clock'[v] < clock'[x]
      PROVE  v \in Happened
  BY <1>2, <1>6, <1>7, NewIsLater
<1>8. \A s \in StoredAt(x) : /\ s \in Happened /\ s \in StoredAt(x)' /\ ValueOf(s)' = ValueOf(s)
  BY <1>1, <1>5, Kept DEF StoredAt, Effect
<1>9. CASE x \in DOMAIN flow
  <2>1. x \in Happened /\ flow'[x] = flow[x] /\ val'[x] = val[x]
    BY <1>9, OldRead
  <2>2. CASE flow[x] = 0 /\ val[x] = 0 /\ \A v \in StoredAt(x) : clock[x] < clock[v]
    <3>1. ASSUME NEW v \in StoredAt(x)' PROVE clock'[x] < clock'[v]
      <4>1. CASE v \in Happened
        BY <1>5, <2>1, <2>2, <3>1, <4>1, NewIsLater
      <4>2. CASE v \in N
        BY <2>1, <4>2, NewIsLater
      <4> QED
        BY <1>6, <3>1, <4>1, <4>2
    <3> QED
      BY <2>1, <2>2, <3>1
  <2>3. CASE \E s \in StoredAt(x) :
               /\ flow[x] = s /\ clock[s] < clock[x] /\ val[x] = ValueOf(s)
               /\ \A v \in StoredAt(x) : clock[v] < clock[x] => clock[v] <= clock[s]
    <3>1. PICK s \in StoredAt(x) :
               /\ flow[x] = s /\ clock[s] < clock[x] /\ val[x] = ValueOf(s)
               /\ \A v \in StoredAt(x) : clock[v] < clock[x] => clock[v] <= clock[s]
      BY <2>3
    <3>2. ASSUME NEW v \in StoredAt(x)', clock'[v] < clock'[x] PROVE clock'[v] <= clock'[s]
      BY <1>5, <1>7, <1>8, <2>1, <3>1, <3>2, NewIsLater
    <3> QED
      BY <1>8, <2>1, <3>1, <3>2, NewIsLater
  <2> QED
    BY <1>9, <2>2, <2>3 DEF LoadInv
<1>10. CASE x \notin DOMAIN flow
  <2> DEFINE ids == {id \in Effective(At("store", Event(x).address)) :
                       Eval(Event(id).offset, val) = Offset(x)}
  <2>1. PICK s : s = flow'[x]
    OBVIOUS
  <2>2. /\ N = {x} /\ s = LastOf(ids)
        /\ val'[x] = IF s = 0 THEN 0 ELSE ValueOf(s)
    BY <1>10, <2>1, NewRead DEF LastStore
  <2>3. ids \intersect Happened = StoredAt(x)
    BY DEF Effective, StoredAt, Effect, Offset
  <2>4. CASE s = 0
    <3>1. StoredAt(x) = {}
      BY <2>2, <2>3, <2>4, LastByClock
    <3>2. StoredAt(x)' = {}
      BY <1>5, <1>6, <2>2, <3>1
    <3> QED
      BY <2>1, <2>2, <2>4, <3>2
  <2>5. CASE s # 0
    <3>1. s \in StoredAt(x) /\ \A v \in StoredAt(x) : clock[v] <= clock[s]
      BY <2>2, <2>3, <2>5, LastByClock
    <3>2. ASSUME NEW v \in StoredAt(x)', clock'[v] < clock'[x] PROVE clock'[v] <= clock'[s]
      BY <1>5, <1>7, <1>8, <3>1, <3>2, NewIsLater
    <3>3. clock'[s] < clock'[x]
      BY <1>8, <2>2, <3>1, NewIsLater
    <3> QED
      BY <1>8, <2>1, <2>2, <2>5, <3>1, <3>2, <3>3
  <2> QED
    BY <2>4, <2>5
<1> QED
  BY <1>9, <1>10

(* Each step keeps the clocks of two events distinct unless they meet, and *)
(* a receive and a send meet in the same step.                             *)
LEMMA MeetingStep ==
  ASSUME TypeInv, ClockInv, AllHappened, MeetingInv, NEW N, Acts(N), Grown(N)
  PROVE  MeetingInv'
<1>1. /\ \A kinds : IdsOf(kinds)' = IdsOf(kinds)
      /\ \A id : Event(id)' = Event(id)
      /\ \A r, s : Meets(r, s)' <=> Meets(r, s)
      /\ DOMAIN clock' = Happened \union N
  BY SameProgram DEF Grown, AllHappened
<1>2. \A r, s : Met(r, s)' <=> /\ r \in DOMAIN flow' /\ r \in IdsOf(Receive)
                               /\ s \in IdsOf(Send) /\ flow'[r] = s
  BY <1>1 DEF Met
<1>3. \A r, s : Met(r, s) => Met(r, s)'
  BY <1>2, OldRead DEF Met, Grown
<1>4. \A s \in IdsOf(Send) : s \in Ids /\ Event(s).kind \notin Sync \union Reading
  BY DEF IdsOf, Send, Sync, Reading, Receive
<1>5. ASSUME NEW x \in DOMAIN clock', NEW y \in DOMAIN clock', x # y, clock'[x] = clock'[y]
      PROVE  Met(x, y)' \/ Met(y, x)'
  <2>1. CASE x \in Happened /\ y \in Happened
    BY <1>3, <1>5, <2>1, NewIsLater DEF MeetingInv, AllHappened
  <2>2. CASE x \in N /\ y \in N
    <3>1. PICK r \in IdsOf(Receive), s \in IdsOf(Send) : N = {r, s} /\ Communicate(r, s)
      BY <1>5, <2>2 DEF Acts
    <3>2. r \in DOMAIN flow' /\ flow'[r] = s
      BY <3>1 DEF Communicate, With
    <3> QED
      BY <1>2, <1>5, <2>2, <3>1, <3>2
  <2> QED
    BY <1>1, <1>5, <2>1, <2>2, NewIsLater
<1>6. ASSUME NEW r \in DOMAIN flow', Event(r).kind \in Receive
      PROVE  \E s \in IdsOf(Send) :
                /\ Met(r, s)' /\ Effect(s)' /\ Meets(r, s)
                /\ clock'[r] = clock'[s] /\ val'[r] = ValueOf(s)'
  <2>1. CASE r \in DOMAIN flow
    <3>1. PICK s \in IdsOf(Send) :
            /\ Met(r, s) /\ Effect(s) /\ Meets(r, s)
            /\ clock[r] = clock[s] /\ val[r] = ValueOf(s)
      BY <1>6, <2>1 DEF MeetingInv
    <3>2. r \in Happened /\ s \in Happened /\ val'[r] = val[r]
      BY <2>1, <3>1, OldRead DEF Effect
    <3>3. Effect(s)' /\ ValueOf(s)' = ValueOf(s)
      BY <1>4, <3>1, <3>2, EffectStep, Kept DEF Effect
    <3> QED
      BY <1>3, <3>1, <3>2, <3>3, NewIsLater
  <2>2. CASE r \notin DOMAIN flow
    <3>1. PICK s \in IdsOf(Send) :
            /\ N = {r, s} /\ Communicate(r, s)
            /\ flow'[r] = s /\ val'[r] = ValueOf(s)
      BY <1>6, <2>2, NewRead
    <3>2. Enabled(s, val) /\ Meets(r, s) /\ r \in IdsOf(Receive)
      BY <2>2, <3>1, <1>6, NewRead DEF Communicate, CanMeet, IdsOf
    <3>3. Effect(s)' /\ ValueOf(s)' = ValueOf(s)
      BY <1>4, <3>1, <3>2, EffectStep, Kept
    <3>4. clock'[r] = clock'[s]
      BY <3>1, NewIsLater
    <3> QED
      BY <1>2, <3>1, <3>2, <3>3, <3>4
  <2> QED
    BY <2>1, <2>2
<1>7. ASSUME NEW s \in IdsOf(Send), Effect(s)' PROVE \E r \in DOMAIN flow' : Met(r, s)'
  <2>1. CASE s \in Happened
    <3>1. Effect(s)
      BY <1>4, <1>7, <2>1, EffectStep
    <3> QED
      BY <1>3, <3>1 DEF MeetingInv, Grown
  <2>2. CASE s \in N
    <3>1. Enabled(s, val)
      BY <1>4, <1>7, <2>2, EffectStep
    <3>2. ASSUME NEW id \in Ids, N = {id}, Happen(id) PROVE FALSE
      <4>1. Happen(s) /\ Event(s).kind \in Send
        BY <2>2, <3>2 DEF IdsOf
      <4> QED
        BY <3>1, <4>1 DEF Happen, Skip, Synchronise, Modify, Read, Pop, Load, Reads, Send, Sync
    <3>3. PICK r \in IdsOf(Receive), q \in IdsOf(Send) : N = {r, q} /\ Communicate(r, q)
      BY <3>2 DEF Acts
    <3>4. q = s
      BY <2>2, <3>3 DEF IdsOf, Receive, Send
    <3>5. r \in DOMAIN flow' /\ flow'[r] = s
      BY <3>3, <3>4 DEF Communicate, With
    <3> QED
      BY <1>2, <3>3, <3>5
  <2> QED
    BY <1>4, <1>7, <2>1, <2>2, EffectStep
<1> QED
  BY <1>1, <1>5, <1>6, <1>7 DEF MeetingInv

(* A step extends the trace by its events.                                 *)
LEMMA ActsExtendTrace ==
  ASSUME TypeInv, NEW N, Acts(N)
  PROVE  /\ trace' \in Seq(Ids)
         /\ \A k \in DOMAIN trace : k \in DOMAIN trace' /\ trace'[k] = trace[k]
         /\ \A k \in DOMAIN trace' \ DOMAIN trace : trace'[k] \in N
<1>1. ASSUME NEW ids \in Seq(Ids), Happens(ids), ToSet(ids) = N
      PROVE  /\ trace' \in Seq(Ids)
             /\ \A k \in DOMAIN trace : k \in DOMAIN trace' /\ trace'[k] = trace[k]
             /\ \A k \in DOMAIN trace' \ DOMAIN trace : trace'[k] \in N
  <2>1. DOMAIN trace = 1 .. Len(trace) /\ Len(trace) \in Nat /\ Len(ids) \in Nat
    BY DEF TypeInv
  <2>2. DOMAIN trace \subseteq 1 .. Len(trace) + Len(ids)
    BY <2>1
  <2> QED
    BY <1>1, <2>2, HappensTogether
<1>2. ASSUME NEW id \in Ids, N = {id}, Happens(<<id>>)
      PROVE  <<id>> \in Seq(Ids) /\ ToSet(<<id>>) = N
  BY <1>2 DEF ToSet
<1>3. CASE \E id \in Ids : N = {id} /\ Happens(<<id>>)
  BY <1>1, <1>2, <1>3
<1>4. CASE \E r \in IdsOf(Receive), s \in IdsOf(Send) : N = {r, s} /\ Communicate(r, s)
  <2>1. PICK r \in IdsOf(Receive), s \in IdsOf(Send) : N = {r, s} /\ Communicate(r, s)
    BY <1>4
  <2>2. ToSet(<<s, r>>) = N /\ <<s, r>> \in Seq(Ids)
    BY <2>1 DEF ToSet, IdsOf
  <2> QED
    BY <1>1, <2>1, <2>2 DEF Communicate
<1> QED
  BY <1>3, <1>4, ActsAre DEF Reads

(* A value read is an integer, as it is zero or that of a term.            *)
LEMMA NewValuesAreIntegers ==
  ASSUME TypeInv, ClockInv, AllHappened, IntegerTerms(program), NEW N, Acts(N), Grown(N),
         NEW x \in DOMAIN val' \ DOMAIN val
  PROVE  val'[x] \in Int
<1>1. x \in DOMAIN flow' \ DOMAIN flow
  BY DEF Grown, TypeInv
<1>2. ASSUME NEW w \in Effective({id \in Ids : Event(id).kind \in {"write", "push", "store"}})
      PROVE  ValueOf(w) \in Int
  <2>1. w \in Happened /\ w \in Ids /\ Predecessors(w) \subseteq Happened /\ Enabled(w, val)
    BY <1>2 DEF Effective, ClockInv, Closed
  <2>2. Event(w).kind \notin Sync /\ Event(w).kind \notin Reading
    BY <1>2 DEF Effective, Sync, Reading, Receive
  <2> QED
    BY <2>1, <2>2, ValuesAreIntegers
<1>3. CASE Event(x).kind = "read"
  <2>1. PICK w : w = flow'[x]
    OBVIOUS
  <2>2. w = LastOf(Effective(At("write", Event(x).address))) /\ w # 0 /\ val'[x] = ValueOf(w)
    BY <1>1, <1>3, <2>1, NewRead DEF LastWrite
  <2>3. w \in Effective(At("write", Event(x).address))
    BY <2>2, LastByClock
  <2> QED
    BY <1>2, <2>2, <2>3 DEF Effective, At
<1>4. CASE Event(x).kind = "pop"
  <2>1. PICK w : w = flow'[x]
    OBVIOUS
  <2>2. w = LastOf(StackAt(Event(x).address)) /\ w # 0 /\ val'[x] = ValueOf(w)
    BY <1>1, <1>4, <2>1, NewRead
  <2>3. w \in StackAt(Event(x).address)
    BY <2>2, LastByClock
  <2> QED
    BY <1>2, <2>2, <2>3 DEF StackAt, Effective, At
<1>5. CASE Event(x).kind = "load"
  <2>1. PICK w : w = flow'[x]
    OBVIOUS
  <2> DEFINE ids == {id \in Effective(At("store", Event(x).address)) :
                       Eval(Event(id).offset, val) = Offset(x)}
  <2>2. w = LastOf(ids) /\ val'[x] = IF w = 0 THEN 0 ELSE ValueOf(w)
    BY <1>1, <1>5, <2>1, NewRead DEF LastStore
  <2>3. CASE w # 0
    <3>1. w \in ids
      BY <2>2, <2>3, LastByClock
    <3> QED
      BY <1>2, <2>2, <2>3, <3>1 DEF Effective, At
  <2> QED
    BY <2>2, <2>3
<1>6. CASE Event(x).kind \in Receive
  <2>1. PICK s \in IdsOf(Send) : N = {x, s} /\ Communicate(x, s) /\ val'[x] = ValueOf(s)
    BY <1>1, <1>6, NewRead
  <2>2. /\ s \in Ids /\ Predecessors(s) \subseteq Happened /\ Enabled(s, val)
        /\ Event(s).kind \notin Sync /\ Event(s).kind \notin Reading
    BY <2>1 DEF Communicate, CanMeet, IsNext, IdsOf, Send, Sync, Reading, Receive
  <2> QED
    BY <2>1, <2>2, ValuesAreIntegers
<1> QED
  BY <1>1, <1>3, <1>4, <1>5, <1>6, NewRead DEF IdsOf, Reading

(* Each step of the threads keeps the inductive invariant.                 *)
LEMMA StepIInv ==
  ASSUME IInv, Step, IntegerTerms(program)
  PROVE  IInv'
<1>1. PICK N : Acts(N) /\ Clocked(N)
  BY StepActs
<1>2. TypeInv /\ ClockInv /\ AllHappened /\ MeetingInv /\ ReadInv /\ PopInv /\ LoadInv
  BY <1>1, NothingWhenStuck DEF IInv
<1>3. Grown(N)
  BY <1>1, <1>2, ActsGrow
<1>4. TypeInv'
  BY <1>1, <1>2, <1>3, TypeStep, ActsExtendTrace, NewValuesAreIntegers
<1>5. ClockInv' /\ AllHappened'
  BY <1>1, <1>2, <1>3, ClockStep, ActsExtendTrace
<1> QED
  BY <1>1, <1>2, <1>3, <1>4, <1>5, MeetingStep, ReadStep, PopStep, LoadStep DEF IInv

(* What does not change when only clocks are added                         *)
LEMMA SameMachine ==
  ASSUME UNCHANGED machine_vars, IInv, \A x \in Happened : clock'[x] = clock[x]
  PROVE  /\ Happened' = Happened
         /\ ReadInv' /\ PopInv' /\ LoadInv'
         /\ \A x \in DOMAIN flow : x \in Happened
<1>1. UNCHANGED <<program, trace, val, flow>>
  BY DEF machine_vars
<1>2. /\ Ids' = Ids /\ Happened' = Happened /\ \A x : Event(x)' = Event(x)
      /\ \A kind, x : At(kind, Event(x).address)' = At(kind, Event(x).address)
      /\ \A x : Effect(x)' <=> Effect(x)
      /\ \A x : ValueOf(x)' = ValueOf(x)
      /\ \A x : Offset(x)' = Offset(x)
  <2>1. Happened' = Happened
    BY <1>1 DEF Happened, ToSet
  <2>2. \A x : Event(x)' = Event(x)
    BY <1>1, SameProgram
  <2>3. \A x : Enabled(x, val)' <=> Enabled(x, val)
    BY <1>1, <2>2 DEF Enabled, Holds
  <2>4. \A x : ValueOf(x)' = ValueOf(x) /\ Offset(x)' = Offset(x)
    BY <1>1, <2>2 DEF ValueOf, Offset, Eval
  <2> QED
    BY <1>1, <2>1, <2>2, <2>3, <2>4, SameProgram, SameAt DEF Effect
<1>3. \A x \in DOMAIN flow : x \in Happened
  BY DEF IInv, TypeInv
<1>4. \A x : Effect(x) => x \in Happened
  BY DEF Effect
<1>5. \A x : StoredAt(x)' = StoredAt(x) /\ StoredAt(x) \subseteq Happened
  <2>1. ASSUME NEW x PROVE StoredAt(x)' = StoredAt(x)
    BY <1>2 DEF StoredAt
  <2>2. ASSUME NEW x PROVE StoredAt(x) \subseteq Happened
    BY <1>4 DEF StoredAt
  <2> QED
    BY <2>1, <2>2
<1>6. ReadInv'
  <2> SUFFICES ASSUME NEW x \in DOMAIN flow, Event(x).kind = "read"
               PROVE  \E w \in At("write", Event(x).address) :
                        /\ flow[x] = w /\ Effect(w)
                        /\ clock'[w] < clock'[x] /\ val[x] = ValueOf(w)
                        /\ \A v \in At("write", Event(x).address) :
                             Effect(v) /\ clock'[v] < clock'[x] => clock'[v] <= clock'[w]
    <3>1. \A x : At("write", Event(x).address)' = At("write", Event(x).address)
      BY <1>2
    <3>2. /\ \A x : Event(x)' = Event(x)
          /\ \A x : Effect(x)' <=> Effect(x)
          /\ \A x : ValueOf(x)' = ValueOf(x)
      BY <1>2
    <3> QED
      BY <1>1, <3>1, <3>2 DEF ReadInv
  <2> QED
    BY <1>3, <1>4 DEF IInv, ReadInv
<1>7. PopInv'
  <2> SUFFICES ASSUME NEW x \in DOMAIN flow, Event(x).kind = "pop"
               PROVE  \E push \in At("push", Event(x).address) :
                        /\ flow[x] = push /\ Effect(push)
                        /\ clock'[push] < clock'[x] /\ val[x] = ValueOf(push)
                        /\ \A y \in DOMAIN flow : flow[y] = push => y = x
                        /\ \A v \in At("push", Event(x).address) :
                             Effect(v) /\ clock'[push] < clock'[v] /\ clock'[v] < clock'[x]
                             => \E y \in DOMAIN flow : flow[y] = v /\ clock'[y] < clock'[x]
    <3>1. \A x : At("push", Event(x).address)' = At("push", Event(x).address)
      BY <1>2
    <3>2. /\ \A x : Event(x)' = Event(x)
          /\ \A x : Effect(x)' <=> Effect(x)
          /\ \A x : ValueOf(x)' = ValueOf(x)
      BY <1>2
    <3> QED
      BY <1>1, <3>1, <3>2 DEF PopInv
  <2> QED
    BY <1>3, <1>4 DEF IInv, PopInv
<1>8. LoadInv'
  <2> SUFFICES ASSUME NEW x \in DOMAIN flow, Event(x).kind = "load"
               PROVE  \/ flow[x] = 0 /\ val[x] = 0 /\ \A v \in StoredAt(x) : clock'[x] < clock'[v]
                      \/ \E s \in StoredAt(x) :
                           /\ flow[x] = s /\ clock'[s] < clock'[x] /\ val[x] = ValueOf(s)
                           /\ \A v \in StoredAt(x) : clock'[v] < clock'[x] => clock'[v] <= clock'[s]
    BY <1>1, <1>2, <1>5 DEF LoadInv
  <2>1. \A v \in StoredAt(x) \union {x} : clock'[v] = clock[v]
    BY <1>3, <1>5
  <2>2. \/ flow[x] = 0 /\ val[x] = 0 /\ \A v \in StoredAt(x) : clock[x] < clock[v]
        \/ \E s \in StoredAt(x) :
             /\ flow[x] = s /\ clock[s] < clock[x] /\ val[x] = ValueOf(s)
             /\ \A v \in StoredAt(x) : clock[v] < clock[x] => clock[v] <= clock[s]
    BY DEF IInv, LoadInv
  <2> QED
    BY <2>1, <2>2
<1> QED
  BY <1>2, <1>3, <1>6, <1>7, <1>8

(* The events that never happen get clocks of their own.                   *)
LEMMA ClocksIInv ==
  ASSUME IInv, UNCHANGED machine_vars,
         \/ UNCHANGED <<clock, steps>>
         \/ Stuck /\ \E id \in Ids \ DOMAIN clock :
                        Predecessors(id) \subseteq DOMAIN clock /\ Clocked({id})
  PROVE  IInv'
<1>1. UNCHANGED <<program, trace, val, flow>>
  BY DEF machine_vars
<1>2. PICK N : /\ N \subseteq Ids \ DOMAIN clock
               /\ \A x, y \in N : x = y
               /\ \A x \in N : Predecessors(x) \subseteq DOMAIN clock
               /\ N # {} => Stuck
               /\ steps' \in Nat /\ steps <= steps' /\ (N # {} => steps < steps')
               /\ DOMAIN clock' = N \union DOMAIN clock
               /\ \A x \in N : clock'[x] = steps'
               /\ \A x \in DOMAIN clock : clock'[x] = clock[x]
  <2>1. steps \in Nat
    BY DEF IInv, TypeInv
  <2>2. CASE UNCHANGED <<clock, steps>>
    <3> DEFINE N == {}
    <3>1. /\ N \subseteq Ids \ DOMAIN clock
          /\ \A x, y \in N : x = y
          /\ \A x \in N : Predecessors(x) \subseteq DOMAIN clock
          /\ N # {} => Stuck
          /\ steps' \in Nat /\ steps <= steps' /\ (N # {} => steps < steps')
          /\ DOMAIN clock' = N \union DOMAIN clock
          /\ \A x \in N : clock'[x] = steps'
          /\ \A x \in DOMAIN clock : clock'[x] = clock[x]
      BY <2>1, <2>2
    <3> HIDE DEF N
    <3> QED
      BY <3>1
  <2>3. CASE Stuck /\ \E id \in Ids \ DOMAIN clock :
                        Predecessors(id) \subseteq DOMAIN clock /\ Clocked({id})
    <3>1. PICK id \in Ids \ DOMAIN clock :
                        Predecessors(id) \subseteq DOMAIN clock /\ Clocked({id})
      BY <2>3
    <3>2. /\ steps' = steps + 1
          /\ DOMAIN clock' = {id} \union DOMAIN clock
          /\ clock'[id] = steps + 1
          /\ \A x \in DOMAIN clock : clock'[x] = clock[x]
      BY <3>1 DEF Clocked
    <3>3. /\ {id} \subseteq Ids \ DOMAIN clock
          /\ \A x, y \in {id} : x = y
          /\ \A x \in {id} : Predecessors(x) \subseteq DOMAIN clock
          /\ Stuck
          /\ steps' \in Nat /\ steps <= steps' /\ steps < steps'
          /\ DOMAIN clock' = {id} \union DOMAIN clock
          /\ \A x \in {id} : clock'[x] = steps'
          /\ \A x \in DOMAIN clock : clock'[x] = clock[x]
      BY <2>1, <2>3, <3>1, <3>2
    <3> QED
      BY <3>3
  <2> QED
    BY <2>2, <2>3
<1>3. /\ Happened \subseteq DOMAIN clock /\ DOMAIN clock \subseteq Ids
      /\ \A x \in DOMAIN clock : clock[x] \in Nat /\ clock[x] <= steps
      /\ steps \in Nat
  BY DEF IInv, ClockInv, TypeInv
<1>4. Happened' = Happened /\ ReadInv' /\ PopInv' /\ LoadInv'
      /\ \A x \in DOMAIN flow : x \in Happened
  BY <1>2, <1>3, SameMachine
<1>5. /\ Ids' = Ids /\ \A kinds : IdsOf(kinds)' = IdsOf(kinds)
      /\ \A x : Event(x)' = Event(x) /\ Predecessors(x)' = Predecessors(x)
      /\ \A x : Enabled(x, val)' <=> Enabled(x, val)
      /\ \A r, s : Meets(r, s)' <=> Meets(r, s)
  <2>1. \A x : Event(x)' = Event(x)
    BY <1>1, SameProgram
  <2>2. \A x : Enabled(x, val)' <=> Enabled(x, val)
    BY <1>1, <2>1 DEF Enabled, Holds
  <2> QED
    BY <1>1, <2>2, SameProgram
<1>6. TypeInv'
  BY <1>1, <1>2, <1>4, <1>5 DEF IInv, TypeInv
<1>7. ClockInv'
  <2>1. Happened' \subseteq DOMAIN clock' /\ DOMAIN clock' \subseteq Ids'
    BY <1>2, <1>3, <1>4, <1>5
  <2>2. Closed(Happened)' /\ Closed(DOMAIN clock)'
    BY <1>2, <1>4, <1>5 DEF Closed, IInv, ClockInv
  <2>3. \A x \in DOMAIN clock' : clock'[x] \in Nat /\ clock'[x] <= steps'
    BY <1>2, <1>3
  <2>4. ASSUME NEW x \in DOMAIN clock', NEW y \in Predecessors(x)' PROVE clock'[y] < clock'[x]
    <3>1. y \in Predecessors(x) /\ y \in DOMAIN clock
      BY <1>2, <1>5, <2>4 DEF IInv, ClockInv, Closed
    <3>2. CASE x \in DOMAIN clock
      BY <1>2, <3>1, <3>2 DEF IInv, ClockInv
    <3>3. CASE x \in N
      BY <1>2, <1>3, <3>1, <3>3
    <3> QED
      BY <1>2, <3>2, <3>3
  <2>5. \A j, k \in DOMAIN trace' : j < k => clock'[trace'[j]] <= clock'[trace'[k]]
    <3>1. \A k \in DOMAIN trace : trace[k] \in Happened
      BY DEF Happened, ToSet
    <3> QED
      BY <1>1, <1>2, <1>3, <3>1 DEF IInv, ClockInv
  <2> QED
    BY <2>1, <2>2, <2>3, <2>4, <2>5 DEF ClockInv
<1>8. (AllHappened \/ Stuck)'
  <2>1. Stuck => Stuck'
    <3>1. \A x : IsNext(x)' <=> IsNext(x)
      BY <1>4, <1>5 DEF IsNext
    <3>2. \A r, s : CanMeet(r, s)' <=> CanMeet(r, s)
      BY <1>5, <3>1 DEF CanMeet
    <3>3. Threads' = Threads /\ program' = program
      BY <1>1, SameProgram
    <3>4. CommunicatesOnly' <=> CommunicatesOnly
      BY <1>5 DEF CommunicatesOnly
    <3>5. Deadlock => Deadlock'
      <4>1. (\E t \in Threads \ {1} : ~ \A e \in ToSet(program.threads[t]) : e.event_id \in Happened)
            => (\E t \in Threads \ {1} : ~ \A e \in ToSet(program.threads[t]) : e.event_id \in Happened)'
        BY <1>4, <3>3 DEF ToSet
      <4>2. (~ \E id \in IdsOf(Sync) : IsNext(id)) => (~ \E id \in IdsOf(Sync) : IsNext(id))'
        BY <1>5, <3>1
      <4>3. (~ \E id \in IdsOf(Communication) : IsNext(id) /\ ~Enabled(id, val))
            => (~ \E id \in IdsOf(Communication) : IsNext(id) /\ ~Enabled(id, val))'
        BY <1>5, <3>1
      <4>4. (~ \E r \in IdsOf(Receive), s \in IdsOf(Send) : CanMeet(r, s))
            => (~ \E r \in IdsOf(Receive), s \in IdsOf(Send) : CanMeet(r, s))'
        BY <1>5, <3>2
      <4> QED
        BY <4>1, <4>2, <4>3, <4>4 DEF Deadlock
    <3> QED
      BY <3>4, <3>5 DEF Stuck
  <2>2. N = {} /\ AllHappened => AllHappened'
    BY <1>2, <1>4 DEF AllHappened
  <2> QED
    BY <1>2, <2>1, <2>2 DEF IInv
<1>9. MeetingInv'
  <2>1. \A r, s : Met(r, s)' <=> Met(r, s)
    BY <1>1, <1>5 DEF Met
  <2>2. \A x : Effect(x)' <=> Effect(x)
    BY <1>4, <1>5 DEF Effect
  <2>3. \A x : ValueOf(x)' = ValueOf(x)
    BY <1>1, <1>5 DEF ValueOf, Eval
  <2>4. ASSUME NEW x \in DOMAIN clock', NEW y \in DOMAIN clock', x # y, clock'[x] = clock'[y]
        PROVE  Met(x, y) \/ Met(y, x)
    <3>1. x \in DOMAIN clock /\ y \in DOMAIN clock
      BY <1>2, <1>3, <2>4
    <3> QED
      BY <1>2, <2>4, <3>1 DEF IInv, MeetingInv
  <2>5. ASSUME NEW r \in DOMAIN flow, Event(r).kind \in Receive
        PROVE  \E s \in IdsOf(Send) :
                  /\ Met(r, s) /\ Effect(s) /\ Meets(r, s)
                  /\ clock'[r] = clock'[s] /\ val[r] = ValueOf(s)
    <3>1. PICK s \in IdsOf(Send) :
                  /\ Met(r, s) /\ Effect(s) /\ Meets(r, s)
                  /\ clock[r] = clock[s] /\ val[r] = ValueOf(s)
      BY <2>5 DEF IInv, MeetingInv
    <3>2. clock'[r] = clock[r] /\ clock'[s] = clock[s]
      BY <1>2, <1>3, <1>4, <3>1 DEF Effect
    <3> QED
      BY <3>1, <3>2
  <2>6. \A s \in IdsOf(Send) : Effect(s) => \E r \in DOMAIN flow : Met(r, s)
    BY DEF IInv, MeetingInv
  <2> QED
    BY <1>1, <1>5, <2>1, <2>2, <2>3, <2>4, <2>5, <2>6 DEF MeetingInv
<1> QED
  BY <1>4, <1>6, <1>7, <1>8, <1>9 DEF IInv

(* The inductive invariant holds before anything has happened.             *)
LEMMA InitIInv == Init => IInv
<1> SUFFICES ASSUME Init PROVE IInv
  OBVIOUS
<1>1. PICK v \in program.inputs : val = [x \in {Input} |-> v]
  BY DEF Init, InterleavingInit
<1>2. program \in Programs /\ trace = << >> /\ flow = << >> /\ clock = << >> /\ steps = 0
  BY DEF Init, InterleavingInit
<1>3. Happened = {} /\ DOMAIN flow = {} /\ DOMAIN clock = {} /\ DOMAIN trace = {}
  BY <1>2 DEF Happened, ToSet
<1>4. v \in Int
  BY <1>1, <1>2, DataFlowAssumption
<1>5. TypeInv
  BY <1>1, <1>2, <1>3, <1>4 DEF TypeInv
<1>6. ClockInv /\ AllHappened
  BY <1>3 DEF ClockInv, AllHappened, Closed
<1>7. MeetingInv /\ ReadInv /\ PopInv /\ LoadInv
  BY <1>3 DEF MeetingInv, ReadInv, PopInv, LoadInv, Effect
<1> QED
  BY <1>5, <1>6, <1>7 DEF IInv

(* In every state of every run the clocks are ones of the machine: the     *)
(* source of each read, pop, load and receive is the one that the clocks   *)
(* single out.                                                             *)
THEOREM RunInvariant ==
  ASSUME \A p \in Programs : IntegerTerms(p)
  PROVE  Spec => []IInv
<1>1. IInv /\ [Next]_vars => IInv'
  <2> SUFFICES ASSUME IInv, [Next]_vars PROVE IInv'
    OBVIOUS
  <2>1. IntegerTerms(program)
    BY DEF IInv, TypeInv
  <2>2. CASE Step
    BY <2>1, <2>2, StepIInv
  <2>3. CASE NeverHappens \/ UNCHANGED vars
    BY <2>3, ClocksIInv DEF NeverHappens, vars, Stuck
  <2> QED
    BY <2>2, <2>3 DEF Next
<1> QED
  BY <1>1, InitIInv, PTL DEF Spec

-----------------------------------------------------------------------------
(* The axioms, one by one, of a run to the end.                            *)

(* A run has come to the ends of all threads.                              *)
Ran == IInv /\ Happened = Ids /\ Encodable(program)

(* The solution is the run, with zeros for what has not been read.         *)
LEMMA SolutionIs ==
  ASSUME TypeInv
  PROVE  /\ Solution.time = clock
         /\ DOMAIN Solution.flow = IdsOf(Reading)
         /\ \A x \in DOMAIN flow : Solution.flow[x] = flow[x]
         /\ \A x \in IdsOf(Reading) \ DOMAIN flow : Solution.flow[x] = 0
         /\ DOMAIN Solution.val = IdsOf(Reading) \union {Input}
         /\ \A x \in DOMAIN val : x \in DOMAIN Solution.val /\ Solution.val[x] = val[x]
  BY DEF Solution, Completed, TypeInv

(* What is known at the ends of all threads.                               *)
LEMMA RanFacts ==
  ASSUME Ran
  PROVE  /\ IInv /\ Happened = Ids /\ DOMAIN clock = Ids /\ TypeInv /\ ClockInv
         /\ MeetingInv /\ ReadInv /\ PopInv /\ LoadInv
         /\ Ids \subseteq Nat \ {0} /\ Encodable(program)
         /\ \A x \in Ids : /\ clock[x] \in Nat /\ Predecessors(x) \subseteq Happened
                           /\ Effect(x) <=> Enabled(x, val)
         /\ \A x \in IdsOf(Reading) : x \in DOMAIN flow <=> Enabled(x, val)
<1>1. DOMAIN clock = Ids /\ TypeInv /\ ClockInv
  BY DEF Ran, IInv, ClockInv
<1>2. Ids \subseteq Nat \ {0}
  BY <1>1, ProgramsAssumption DEF TypeInv, Ids
<1>3. \A x \in IdsOf(Reading) : x \in DOMAIN flow <=> Enabled(x, val)
  BY <1>1 DEF TypeInv, Ran, IdsOf
<1> QED
  BY <1>1, <1>2, <1>3 DEF Ran, IInv, ClockInv, Closed, Effect

(* What always comes before an event has an earlier clock.                 *)
LEMMA ComesBeforeByClock ==
  ASSUME Ran, NEW x \in Ids, NEW y \in Ids, ComesBefore(program, x, y)
  PROVE  clock[x] < clock[y]
<1>1. ASSUME NEW t \in Threads, NEW a, NEW b \in Ids, Before(program, t, a, b)
      PROVE  clock[a] < clock[b]
  BY <1>1, BeforeIsPredecessor, RanFacts DEF TypeInv, ClockInv
<1>2. CASE \E t \in DOMAIN program.threads : Before(program, t, x, y)
  BY <1>1, <1>2 DEF Threads
<1>3. CASE /\ x # y
           /\ \A ids \in SUBSET DOMAIN program.event :
                ClosedDownwards(program, ids) /\ y \in ids => x \in ids
  <2> DEFINE ids == {z \in Ids : clock[z] < clock[y]} \union {y}
  <2>1. ids \in SUBSET DOMAIN program.event
    BY DEF Ids
  <2>2. ASSUME NEW t \in DOMAIN program.threads, NEW a \in DOMAIN program.event, NEW b \in ids,
               Before(program, t, a, b)
        PROVE  a \in ids
    <3>1. clock[a] < clock[b] /\ b \in Ids /\ a \in Ids
      BY <1>1, <2>2 DEF Threads, Ids
    <3>2. clock[a] \in Nat /\ clock[b] \in Nat /\ clock[y] \in Nat
      BY <3>1, RanFacts
    <3>3. clock[b] <= clock[y]
      BY <3>2
    <3> QED
      BY <3>1, <3>2, <3>3
  <2>3. x \in ids
    BY <1>3, <2>1, <2>2 DEF ClosedDownwards
  <2> QED
    BY <1>3, <2>3
<1> QED
  BY <1>2, <1>3 DEF ComesBefore

(* A path that is not taken is not one of the solution's, either: the      *)
(* zeros never satisfy a guard, since the guard of what would have been    *)
(* read is part of it.                                                     *)
LEMMA SameGuards ==
  ASSUME Ran, NEW id \in Ids, Event(id).kind \notin Sync
  PROVE  Guard(id, Solution) <=> Enabled(id, val)
<1> DEFINE B == {y \in Ids : /\ Event(y).kind \notin Sync
                             /\ Enabled(y, Solution.val) /\ ~Enabled(y, val)}
<1>1. B = {}
  <2> SUFFICES ASSUME B # {} PROVE FALSE
    OBVIOUS
  <2>1. \A z \in Ids : clock[z] \in Nat
    BY RanFacts
  <2>2. PICK y \in B : \A z \in B : clock[y] <= clock[z]
    <3> HIDE DEF B
    <3>1. B \in SUBSET Ids
      BY DEF B
    <3> QED
      BY <2>1, <3>1, FirstClock
  <2>3. PICK eq \in Event(y).guard : ~(eq[1] \in DOMAIN val /\ val[eq[1]] = eq[2])
    BY <2>2 DEF Enabled, Holds
  <2>4. eq[1] \in DOMAIN Solution.val /\ Solution.val[eq[1]] = eq[2]
    BY <2>2, <2>3 DEF Enabled, Holds
  <2>5. eq[1] \notin DOMAIN val
    BY <2>3, <2>4, SolutionIs, RanFacts
  <2>6. InScope(program, eq[1], y)
    <3>1. OwnDataOnly(program, y, Event(y))
      BY <2>2, RanFacts, DataFlowAssumption DEF TypeInv, Ids, Event
    <3> QED
      BY <2>3, <2>5, <3>1, RanFacts DEF OwnDataOnly, TypeInv
  <2> DEFINE x == eq[1]
  <2>7. /\ x \in Ids /\ x \in IdsOf(Reading) /\ Event(x).guard \subseteq Event(y).guard
        /\ ComesBefore(program, x, y)
    BY <2>6 DEF InScope, Ids, IdsOf, Event
  <2>8. Enabled(x, Solution.val) /\ Event(x).kind \notin Sync
    BY <2>2, <2>7 DEF Enabled, Holds, IdsOf, Reading, Receive, Sync
  <2>9. ~Enabled(x, val)
    BY <2>5, <2>7, RanFacts DEF TypeInv
  <2>10. clock[x] < clock[y] /\ clock[x] \in Nat /\ clock[y] \in Nat
    BY <2>1, <2>2, <2>7, ComesBeforeByClock
  <2>11. x \in B
    BY <2>7, <2>8, <2>9
  <2> QED
    BY <2>2, <2>10, <2>11
<1>2. Enabled(id, val) => Enabled(id, Solution.val)
  BY SolutionIs, RanFacts DEF Enabled, Holds
<1> QED
  BY <1>1, <1>2 DEF Guard

(* The terms of events on the path that is taken have the values of the    *)
(* run.                                                                    *)
LEMMA SameTerms ==
  ASSUME IInv, NEW id \in Happened, Event(id).kind \notin Sync, Enabled(id, val)
  PROVE  /\ Guard(id, Solution)
         /\ Event(id).kind \notin Reading => TermOf(id, Solution) = ValueOf(id)
         /\ Event(id).kind \in Reading => TermOf(id, Solution) = val[id]
         /\ Event(id).kind \in {"load", "store"} => OffsetOf(id, Solution) = Offset(id)
<1>1. /\ TypeInv /\ ClockInv /\ Predecessors(id) \subseteq Happened /\ id \in Ids
  BY DEF IInv, ClockInv, Closed
<1>2. OwnDataOnly(program, id, Event(id))
  BY <1>1, DataFlowAssumption DEF TypeInv, Ids, Event
<1>3. ASSUME NEW term, TermInScope(program, term, id)
      PROVE  Eval(term, Solution.val) = Eval(term, val)
  <2>1. term.var = -1 \/ term.var \in DOMAIN val
    BY <1>1, <1>3, InScopeHappened DEF TermInScope, TypeInv
  <2> QED
    BY <1>1, <2>1, SolutionIs DEF Eval
<1>4. Event(id).kind \notin Reading => TermOf(id, Solution) = ValueOf(id)
  BY <1>2, <1>3 DEF TermOf, ValueOf, OwnDataOnly
<1>5. Event(id).kind \in {"load", "store"} => OffsetOf(id, Solution) = Offset(id)
  BY <1>2, <1>3 DEF OffsetOf, Offset, OwnDataOnly
<1>6. ASSUME Event(id).kind \in Reading PROVE TermOf(id, Solution) = val[id]
  <2>1. Event(id).term = [var |-> id, const |-> 0]
    BY <1>2, <1>6 DEF OwnDataOnly
  <2>2. id \in DOMAIN val /\ val[id] \in Int /\ id # -1
    BY <1>1, <1>6, ProgramsAssumption DEF TypeInv, IdsOf, Ids
  <2>3. Solution.val[id] = val[id]
    BY <1>1, <2>2, SolutionIs
  <2> QED
    BY <2>1, <2>2, <2>3 DEF TermOf, Eval
<1>7. Guard(id, Solution)
  BY <1>1, SolutionIs DEF Guard, Enabled, Holds
<1> QED
  BY <1>4, <1>5, <1>6, <1>7

(* An event that does not communicate has a clock of its own.              *)
LEMMA DistinctClocksOfOthers ==
  ASSUME IInv, DOMAIN clock = Ids, NEW x \in Ids, NEW y \in Ids, x # y, Event(x).kind \notin Communication
  PROVE  clock[x] # clock[y]
  BY DEF IInv, MeetingInv, Met, IdsOf, Communication

(* The clocks satisfy encode_thread_order.                                 *)
LEMMA RunsKeepThreadOrder ==
  ASSUME IInv, DOMAIN clock = Ids
  PROVE  encode_thread_order(Solution)
<1>1. Solution.time = clock
  BY SolutionIs DEF IInv
<1> SUFFICES ASSUME NEW t \in Threads, NEW k \in 2 .. Len(program.threads[t]),
                    program.threads[t][k].event_id \in DOMAIN clock
             PROVE  /\ program.threads[t][k - 1].event_id \in DOMAIN clock
                    /\ clock[program.threads[t][k - 1].event_id]
                         < clock[program.threads[t][k].event_id]
  BY <1>1 DEF encode_thread_order, ThreadOrder
<1>2. TypeInv /\ ClockInv
  BY DEF IInv
<1>3. /\ Len(program.threads[t]) \in Nat
      /\ DOMAIN program.threads[t] = 1 .. Len(program.threads[t])
  BY <1>2, ThreadsAreSequences DEF TypeInv
<1>4. Before(program, t, program.threads[t][k - 1].event_id, program.threads[t][k].event_id)
  <2>1. k - 1 \in DOMAIN program.threads[t] /\ k \in DOMAIN program.threads[t] /\ k - 1 < k
    BY <1>3
  <2> QED
    BY <2>1 DEF Before
<1>5. program.threads[t][k - 1].event_id \in Predecessors(program.threads[t][k].event_id)
  BY <1>2, <1>4, BeforeIsPredecessor DEF TypeInv
<1> QED
  BY <1>2, <1>5 DEF ClockInv, Closed

(* The run satisfies encode_read_from: for the supremum of a read choose   *)
(* the clock of its write, or its own if it is on no path taken.           *)
LEMMA RunsReadFrom ==
  ASSUME Ran
  PROVE  encode_read_from(Solution)
<1> SUFFICES ASSUME NEW r \in IdsOf({"read"})
             PROVE  /\ Guard(r, Solution) =>
                         \E w \in At("write", Event(r).address) : FlowBool(w, r, Solution)
                    /\ \E sup \in ClockValues(Solution) : SupTime(r, sup, Solution)
  BY DEF encode_read_from
<1>1. /\ r \in Ids /\ Event(r).kind = "read" /\ r \in IdsOf(Reading) /\ Event(r).kind \in Reading
      /\ Event(r).kind \notin Sync /\ Event(r).kind \notin Communication
  BY DEF IdsOf, Reading, Sync, Communication, Receive, Send
<1>2. /\ Solution.time = clock /\ DOMAIN clock = Ids
      /\ \A x \in Ids : clock[x] \in Nat
      /\ 0 \notin Ids
      /\ \A x \in Ids : Effect(x) <=> Enabled(x, val)
  BY RanFacts, SolutionIs
<1>3. \A w \in At("write", Event(r).address) :
         /\ w \in Ids /\ w # r /\ clock[w] # clock[r]
         /\ Guard(w, Solution) <=> Effect(w)
         /\ Effect(w) => TermOf(w, Solution) = ValueOf(w)
  <2> SUFFICES ASSUME NEW w \in At("write", Event(r).address)
               PROVE  /\ w \in Ids /\ w # r /\ clock[w] # clock[r]
                      /\ Guard(w, Solution) <=> Effect(w)
                      /\ Effect(w) => TermOf(w, Solution) = ValueOf(w)
    OBVIOUS
  <2>1. w \in Ids /\ Event(w).kind = "write" /\ w # r
    BY <1>1 DEF At
  <2>2. Event(w).kind \notin Sync /\ Event(w).kind \notin Reading
    BY <2>1 DEF Sync, Reading, Receive
  <2> QED
    BY <1>1, <1>2, <2>1, <2>2, SameGuards, SameTerms, RanFacts, DistinctClocksOfOthers
<1>4. Guard(r, Solution) <=> r \in DOMAIN flow
  BY <1>1, SameGuards, RanFacts
<1>5. CASE r \in DOMAIN flow
  <2>1. PICK w \in At("write", Event(r).address) :
           /\ flow[r] = w /\ Effect(w)
           /\ clock[w] < clock[r] /\ val[r] = ValueOf(w)
           /\ \A v \in At("write", Event(r).address) :
                Effect(v) /\ clock[v] < clock[r] => clock[v] <= clock[w]
    BY <1>1, <1>5, RanFacts DEF ReadInv
  <2>2. Solution.flow[r] = w
    BY <1>5, <2>1, SolutionIs, RanFacts
  <2>3. TermOf(r, Solution) = val[r]
    BY <1>1, <1>4, <1>5, SameTerms, SameGuards, RanFacts
  <2>4. clock[w] \in ClockValues(Solution)
    BY <1>2, <1>3 DEF ClockValues
  <2>5. SupTime(r, clock[w], Solution)
    <3> SUFFICES ASSUME NEW v \in At("write", Event(r).address)
                 PROVE  /\ FlowBool(v, r, Solution) =>
                             /\ Guard(r, Solution) /\ Guard(v, Solution)
                             /\ simultaneous_or_happens_before(v, r, Solution)
                             /\ TermOf(v, Solution) = TermOf(r, Solution)
                             /\ clock[w] = clock[v]
                        /\ simultaneous_or_happens_before(v, r, Solution) /\ Guard(v, Solution)
                             => clock[v] <= clock[w]
      BY <1>2 DEF SupTime
    <3>1. FlowBool(v, r, Solution) => v = w
      BY <2>2 DEF FlowBool
    <3>2. clock[v] \in Nat /\ clock[w] \in Nat /\ clock[r] \in Nat /\ clock[v] # clock[r]
      BY <1>1, <1>2, <1>3
    <3>3. Guard(v, Solution) <=> Effect(v)
      BY <1>3
    <3>4. clock[v] <= clock[r] /\ Effect(v) => clock[v] <= clock[w]
      BY <2>1, <3>2
    <3>5. Guard(w, Solution) /\ TermOf(w, Solution) = TermOf(r, Solution)
      BY <1>3, <2>1, <2>3
    <3>6. clock[w] <= clock[r]
      BY <2>1, <3>2
    <3> QED
      BY <1>2, <1>4, <1>5, <3>1, <3>3, <3>4, <3>5, <3>6 DEF simultaneous_or_happens_before
  <2> QED
    BY <2>1, <2>2, <2>4, <2>5 DEF FlowBool
<1>6. CASE r \notin DOMAIN flow
  <2>1. Solution.flow[r] = 0
    BY <1>1, <1>6, SolutionIs, RanFacts
  <2>2. clock[r] \in ClockValues(Solution)
    BY <1>1, <1>2 DEF ClockValues
  <2>3. SupTime(r, clock[r], Solution)
    BY <1>2, <1>3, <2>1 DEF SupTime, FlowBool, simultaneous_or_happens_before
  <2> QED
    BY <1>4, <1>6, <2>2, <2>3
<1> QED
  BY <1>5, <1>6

(* No two writes, or stores, have the same clock.                          *)
LEMMA RunsAreSerial ==
  ASSUME Ran
  PROVE  encode_write_serialization(Solution) /\ encode_store_serialization(Solution)
<1>1. Solution.time = clock
  BY RanFacts, SolutionIs
<1>2. ASSUME NEW kind \in {"write", "store"}, NEW a
      PROVE  IsInjective([w \in At(kind, a) |-> clock[w]])
  <2>1. ASSUME NEW x \in At(kind, a), NEW y \in At(kind, a), clock[x] = clock[y]
        PROVE  x = y
    <3>1. x \in Ids /\ y \in Ids /\ Event(x).kind \notin Communication
      BY DEF At, Communication, Receive, Send
    <3> QED
      BY <2>1, <3>1, RanFacts, DistinctClocksOfOthers
  <2> QED
    BY <2>1 DEF IsInjective
<1> QED
  BY <1>1, <1>2 DEF encode_write_serialization, encode_store_serialization

(* The run satisfies the axioms for stacks.                                *)
LEMMA RunsPop ==
  ASSUME Ran
  PROVE  encode_stack_api(Solution)
<1>1. /\ Solution.time = clock /\ 0 \notin Ids
      /\ \A x \in Ids : clock[x] \in Nat
      /\ \A x \in Ids : Effect(x) <=> Enabled(x, val)
  BY RanFacts, SolutionIs
<1>2. \A a : \A pop \in At("pop", a) :
        /\ pop \in Ids /\ Event(pop).kind = "pop" /\ Event(pop).address = a
        /\ pop \in DOMAIN flow /\ Solution.flow[pop] = flow[pop]
        /\ Guard(pop, Solution) /\ TermOf(pop, Solution) = val[pop]
  <2> SUFFICES ASSUME NEW a, NEW pop \in At("pop", a)
               PROVE  /\ pop \in DOMAIN flow /\ Solution.flow[pop] = flow[pop]
                      /\ Guard(pop, Solution) /\ TermOf(pop, Solution) = val[pop]
    BY DEF At
  <2>1. /\ pop \in Ids /\ Event(pop).kind = "pop" /\ pop \in IdsOf(Reading)
        /\ Event(pop).kind \in Reading /\ Event(pop).kind \notin Sync
    BY DEF At, IdsOf, Reading, Sync
  <2>2. Event(pop).guard = {}
    BY <2>1, RanFacts DEF Encodable, Ids, Event
  <2>3. Enabled(pop, val)
    BY <2>2 DEF Enabled, Holds
  <2> QED
    BY <2>1, <2>3, RanFacts, SolutionIs, SameGuards, SameTerms, RanFacts
<1>3. \A a : \A push \in At("push", a) :
        /\ push \in Ids /\ Event(push).kind = "push" /\ Event(push).address = a
        /\ Guard(push, Solution) <=> Effect(push)
        /\ Effect(push) => TermOf(push, Solution) = ValueOf(push)
  <2> SUFFICES ASSUME NEW a, NEW push \in At("push", a)
               PROVE  /\ Guard(push, Solution) <=> Effect(push)
                      /\ Effect(push) => TermOf(push, Solution) = ValueOf(push)
    BY DEF At
  <2>1. /\ push \in Ids /\ Event(push).kind \notin Sync /\ Event(push).kind \notin Reading
    BY DEF At, Reading, Sync, Receive
  <2> QED
    BY <1>1, <2>1, SameGuards, SameTerms, RanFacts
<1>4. \A pop \in DOMAIN flow : Event(pop).kind = "pop" =>
        /\ flow[pop] \in At("push", Event(pop).address) /\ Effect(flow[pop])
        /\ clock[flow[pop]] < clock[pop] /\ val[pop] = ValueOf(flow[pop])
        /\ \A y \in DOMAIN flow : flow[y] = flow[pop] => y = pop
        /\ \A v \in At("push", Event(pop).address) :
             Effect(v) /\ clock[flow[pop]] < clock[v] /\ clock[v] < clock[pop]
             => \E y \in DOMAIN flow : flow[y] = v /\ clock[y] < clock[pop]
  BY RanFacts DEF PopInv
<1>5. \A a : \A v \in At("push", a), y \in DOMAIN flow : flow[y] = v => y \in At("pop", a)
  <2> SUFFICES ASSUME NEW a, NEW v \in At("push", a), NEW y \in DOMAIN flow, flow[y] = v
               PROVE  y \in At("pop", a)
    OBVIOUS
  <2>1. v \in Ids /\ Event(v).kind = "push" /\ Event(v).address = a /\ v # 0
    BY <1>1 DEF At
  <2>2. y \in Ids /\ Event(y).kind \in Reading
    BY RanFacts DEF TypeInv, IdsOf
  <2>3. Event(y).kind # "read"
    BY <2>1, RanFacts DEF ReadInv, At
  <2>4. Event(y).kind \notin Receive
    BY <2>1, RanFacts DEF MeetingInv, Met, IdsOf, Send
  <2>5. Event(y).kind # "load"
    BY <2>1, RanFacts DEF LoadInv, StoredAt, At
  <2>6. Event(y).kind = "pop"
    BY <2>2, <2>3, <2>4, <2>5 DEF Reading
  <2> QED
    BY <1>4, <2>1, <2>2, <2>6 DEF At
<1>6. encode_pop_from(Solution)
  <2> SUFFICES ASSUME NEW pop \in IdsOf({"pop"})
               PROVE  /\ \E push \in At("push", Event(pop).address) : FlowBool(push, pop, Solution)
                      /\ \A push \in At("push", Event(pop).address) :
                           FlowBool(push, pop, Solution) =>
                              /\ happens_before(push, pop, Solution)
                              /\ Guard(pop, Solution) /\ Guard(push, Solution)
                              /\ TermOf(push, Solution) = TermOf(pop, Solution)
    BY DEF encode_pop_from
  <2>1. pop \in At("pop", Event(pop).address)
    BY DEF At, IdsOf
  <2>2. /\ pop \in DOMAIN flow /\ Event(pop).kind = "pop" /\ Solution.flow[pop] = flow[pop]
        /\ Guard(pop, Solution) /\ TermOf(pop, Solution) = val[pop]
    BY <1>2, <2>1
  <2>3. /\ flow[pop] \in At("push", Event(pop).address) /\ Effect(flow[pop])
        /\ clock[flow[pop]] < clock[pop] /\ val[pop] = ValueOf(flow[pop])
    BY <1>4, <2>2
  <2>4. Guard(flow[pop], Solution) /\ TermOf(flow[pop], Solution) = ValueOf(flow[pop])
    BY <1>3, <2>3
  <2> QED
    BY <1>1, <2>2, <2>3, <2>4 DEF FlowBool, happens_before
<1>7. encode_pop_from_injectivity(Solution)
  <2> SUFFICES ASSUME NEW a, NEW x \in At("pop", a), NEW y \in At("pop", a),
                      Solution.flow[x] = Solution.flow[y]
               PROVE  x = y
    BY DEF encode_pop_from_injectivity, IsInjective
  <2> QED
    BY <1>2, <1>4
<1>8. encode_stack_lifo_order(Solution)
  <2> SUFFICES ASSUME NEW a, NEW push \in At("push", a), NEW push_prime \in At("push", a),
                      NEW pop \in At("pop", a),
                      FlowBool(push, pop, Solution),
                      happens_before(push, push_prime, Solution),
                      happens_before(push_prime, pop, Solution)
               PROVE  /\ \A pop_prime \in At("pop", a) :
                           FlowBool(push_prime, pop_prime, Solution)
                             => happens_before(pop_prime, pop, Solution)
                      /\ Guard(push_prime, Solution) =>
                           \E pop_prime \in At("pop", a) : FlowBool(push_prime, pop_prime, Solution)
    BY DEF encode_stack_lifo_order
  <2>1. /\ pop \in DOMAIN flow /\ flow[pop] = push /\ Event(pop).address = a
        /\ Event(pop).kind = "pop"
        /\ clock[push] < clock[push_prime] /\ clock[push_prime] < clock[pop]
    BY <1>1, <1>2 DEF FlowBool, happens_before
  <2>2. Effect(push_prime) =>
          \E y \in DOMAIN flow : flow[y] = push_prime /\ clock[y] < clock[pop]
    BY <1>4, <2>1
  <2>3. ASSUME NEW pop_prime \in At("pop", a), FlowBool(push_prime, pop_prime, Solution)
        PROVE  happens_before(pop_prime, pop, Solution)
    <3>1. pop_prime \in DOMAIN flow /\ flow[pop_prime] = push_prime
          /\ Event(pop_prime).kind = "pop"
      BY <1>2, <2>3 DEF FlowBool
    <3>2. Effect(push_prime) /\ \A y \in DOMAIN flow : flow[y] = push_prime => y = pop_prime
      BY <1>4, <3>1
    <3> QED
      BY <1>1, <2>2, <3>2 DEF happens_before
  <2>4. ASSUME Guard(push_prime, Solution)
        PROVE  \E pop_prime \in At("pop", a) : FlowBool(push_prime, pop_prime, Solution)
    <3>1. PICK y \in DOMAIN flow : flow[y] = push_prime
      BY <1>3, <2>2, <2>4
    <3>2. y \in At("pop", a)
      BY <1>5, <3>1
    <3> QED
      BY <1>2, <3>1, <3>2 DEF FlowBool
  <2> QED
    BY <2>3, <2>4
<1> QED
  BY <1>6, <1>7, <1>8 DEF encode_stack_api

(* The run satisfies the axioms for arrays.                                *)
LEMMA RunsLoad ==
  ASSUME Ran
  PROVE  encode_array_api(Solution)
<1>1. /\ Solution.time = clock /\ 0 \notin Ids
      /\ \A x \in Ids : clock[x] \in Nat
      /\ \A x \in Ids : Effect(x) <=> Enabled(x, val)
  BY RanFacts, SolutionIs
<1>2. \A a : \A s \in At("store", a) :
        /\ s \in Ids /\ Event(s).kind = "store" /\ Event(s).address = a
        /\ Effect(s) /\ Guard(s, Solution)
        /\ TermOf(s, Solution) = ValueOf(s) /\ OffsetOf(s, Solution) = Offset(s)
  <2> SUFFICES ASSUME NEW a, NEW s \in At("store", a)
               PROVE  /\ Effect(s) /\ Guard(s, Solution)
                      /\ TermOf(s, Solution) = ValueOf(s) /\ OffsetOf(s, Solution) = Offset(s)
    BY DEF At
  <2>1. /\ s \in Ids /\ Event(s).kind = "store"
        /\ Event(s).kind \notin Sync /\ Event(s).kind \notin Reading
    BY DEF At, Reading, Sync, Receive
  <2>2. Event(s).guard = {}
    BY <2>1, RanFacts DEF Encodable, Ids, Event
  <2>3. Enabled(s, val)
    BY <2>2 DEF Enabled, Holds
  <2> QED
    BY <1>1, <2>1, <2>3, SameGuards, SameTerms, RanFacts
<1>3. \A ld \in IdsOf({"load"}) :
        /\ ld \in Ids /\ Event(ld).kind = "load" /\ Event(ld).kind \notin Communication
        /\ ld \in DOMAIN flow /\ Solution.flow[ld] = flow[ld]
        /\ Guard(ld, Solution)
        /\ TermOf(ld, Solution) = val[ld] /\ OffsetOf(ld, Solution) = Offset(ld)
  <2> SUFFICES ASSUME NEW ld \in IdsOf({"load"})
               PROVE  /\ Event(ld).kind \notin Communication
                      /\ ld \in DOMAIN flow /\ Solution.flow[ld] = flow[ld]
                      /\ Guard(ld, Solution)
                      /\ TermOf(ld, Solution) = val[ld] /\ OffsetOf(ld, Solution) = Offset(ld)
    BY DEF IdsOf
  <2>1. /\ ld \in Ids /\ Event(ld).kind = "load" /\ ld \in IdsOf(Reading)
        /\ Event(ld).kind \in Reading /\ Event(ld).kind \notin Sync /\ Event(ld).kind \notin Communication
    BY DEF IdsOf, Reading, Sync, Communication, Receive, Send
  <2>2. Event(ld).guard = {}
    BY <2>1, RanFacts DEF Encodable, Ids, Event
  <2>3. Enabled(ld, val)
    BY <2>2 DEF Enabled, Holds
  <2> QED
    BY <2>1, <2>3, RanFacts, SolutionIs, SameGuards, SameTerms, RanFacts
<1>4. \A ld \in IdsOf({"load"}) :
        StoredAt(ld) = {s \in At("store", Event(ld).address) : SameOffset(s, ld, Solution)}
  BY <1>2, <1>3 DEF StoredAt, SameOffset
<1>5. \A ld \in IdsOf({"load"}) :
        \/ flow[ld] = 0 /\ val[ld] = 0 /\ \A v \in StoredAt(ld) : clock[ld] < clock[v]
        \/ \E s \in StoredAt(ld) :
             /\ flow[ld] = s /\ clock[s] < clock[ld] /\ val[ld] = ValueOf(s)
             /\ \A v \in StoredAt(ld) : clock[v] < clock[ld] => clock[v] <= clock[s]
  BY <1>3, RanFacts DEF LoadInv
<1>6. encode_load_from(Solution)
  <2> SUFFICES ASSUME NEW ld \in IdsOf({"load"})
               PROVE  /\ \A s \in At("store", Event(ld).address) :
                           FlowBool(s, ld, Solution) =>
                              /\ Guard(s, Solution) /\ Guard(ld, Solution)
                              /\ happens_before(s, ld, Solution)
                              /\ TermOf(s, Solution) = TermOf(ld, Solution)
                              /\ SameOffset(s, ld, Solution)
                      /\ ~(\E s \in At("store", Event(ld).address) : FlowBool(s, ld, Solution)) =>
                           /\ Guard(ld, Solution)
                           /\ \A s \in At("store", Event(ld).address) :
                                SameOffset(s, ld, Solution) => happens_before(ld, s, Solution)
                           /\ TermOf(ld, Solution) = 0
    BY DEF encode_load_from
  <2>1. CASE flow[ld] = 0 /\ val[ld] = 0 /\ \A v \in StoredAt(ld) : clock[ld] < clock[v]
    <3>1. \A s \in At("store", Event(ld).address) : ~FlowBool(s, ld, Solution)
      BY <1>1, <1>2, <1>3, <2>1 DEF FlowBool
    <3> QED
      BY <1>1, <1>3, <1>4, <2>1, <3>1 DEF happens_before
  <2>2. CASE \E s \in StoredAt(ld) :
               /\ flow[ld] = s /\ clock[s] < clock[ld] /\ val[ld] = ValueOf(s)
               /\ \A v \in StoredAt(ld) : clock[v] < clock[ld] => clock[v] <= clock[s]
    <3>1. PICK s \in StoredAt(ld) : flow[ld] = s /\ clock[s] < clock[ld] /\ val[ld] = ValueOf(s)
      BY <2>2
    <3>2. s \in At("store", Event(ld).address) /\ SameOffset(s, ld, Solution)
      BY <1>4
    <3>3. Solution.flow[ld] = s
      BY <1>3, <3>1
    <3> QED
      BY <1>1, <1>2, <1>3, <3>1, <3>2, <3>3 DEF FlowBool, happens_before
  <2> QED
    BY <1>5, <2>1, <2>2
<1>7. encode_from_load(Solution)
  <2> SUFFICES ASSUME NEW ld \in IdsOf({"load"}),
                      NEW s \in At("store", Event(ld).address),
                      NEW s_prime \in At("store", Event(ld).address),
                      FlowBool(s, ld, Solution), happens_before(s, s_prime, Solution),
                      SameOffset(s, s_prime, Solution)
               PROVE  happens_before(ld, s_prime, Solution)
    BY DEF encode_from_load
  <2>1. flow[ld] = s /\ s # 0 /\ clock[s] < clock[s_prime]
    BY <1>1, <1>2, <1>3 DEF FlowBool, happens_before
  <2>2. /\ s \in StoredAt(ld)
        /\ \A v \in StoredAt(ld) : clock[v] < clock[ld] => clock[v] <= clock[s]
    BY <1>5, <2>1
  <2>3. s_prime \in StoredAt(ld)
    BY <1>4, <2>2 DEF SameOffset
  <2>4. clock[s_prime] # clock[ld]
    <3>1. ld # s_prime
      BY <1>2, <1>3
    <3> QED
      BY <1>2, <1>3, <3>1, RanFacts, DistinctClocksOfOthers
  <2>5. clock[s] \in Nat /\ clock[s_prime] \in Nat /\ clock[ld] \in Nat
    BY <1>1, <1>2, <1>3
  <2> QED
    BY <1>1, <2>1, <2>2, <2>3, <2>4, <2>5 DEF happens_before
<1> QED
  BY <1>6, <1>7, RunsAreSerial DEF encode_array_api

(* Receives and sends that take effect meet, and two of them meet if and   *)
(* only if they have the same clock.                                       *)
LEMMA RunsMeet ==
  ASSUME IInv, DOMAIN clock = Ids
  PROVE  /\ \A r \in IdsOf(Receive), s \in IdsOf(Send) :
              clock[r] = clock[s] => /\ r \in DOMAIN flow /\ Effect(r) /\ Effect(s)
                                     /\ flow[r] = s /\ val[r] = ValueOf(s)
         /\ \A x \in IdsOf(Receive) :
              Effect(x) =>
                \E s \in IdsOf(Send) : <<x, s>> \in Matchables /\ clock[x] = clock[s]
         /\ \A x \in IdsOf(Send) :
              Effect(x) =>
                \E r \in IdsOf(Receive) : <<r, x>> \in Matchables /\ clock[r] = clock[x]
<1>1. \A r \in DOMAIN flow : Event(r).kind \in Receive =>
        \E s \in IdsOf(Send) :
          /\ Met(r, s) /\ Effect(s) /\ Meets(r, s)
          /\ clock[r] = clock[s] /\ val[r] = ValueOf(s)
  BY DEF IInv, MeetingInv
<1>2. \A r \in IdsOf(Receive) : /\ r \in Ids /\ Event(r).kind \in Receive /\ r \notin IdsOf(Send)
                                /\ r \in DOMAIN flow <=> Effect(r)
  <2>1. ASSUME NEW r \in IdsOf(Receive)
        PROVE  r \in Ids /\ Event(r).kind \in Receive /\ r \in IdsOf(Reading) /\ r \notin IdsOf(Send)
    BY DEF IdsOf, Reading, Receive, Send
  <2> QED
    BY <2>1 DEF IInv, TypeInv, Effect
<1>3. \A s \in IdsOf(Send) : s \in Ids /\ s \notin IdsOf(Receive)
  BY DEF IdsOf, Receive, Send
<1>4. ASSUME NEW r \in IdsOf(Receive), NEW s \in IdsOf(Send), Meets(r, s)
      PROVE  <<r, s>> \in Matchables
  BY <1>4 DEF Matchables, MatchableOnChannel, MatchableMessages, Meets
<1>5. ASSUME NEW r \in IdsOf(Receive), NEW s \in IdsOf(Send), clock[r] = clock[s]
      PROVE  /\ r \in DOMAIN flow /\ Effect(r) /\ Effect(s)
             /\ flow[r] = s /\ val[r] = ValueOf(s)
  <2>1. Met(r, s)
    <3>1. r # s /\ r \in DOMAIN clock /\ s \in DOMAIN clock
      BY <1>2, <1>3
    <3>2. Met(r, s) \/ Met(s, r)
      BY <1>5, <3>1 DEF IInv, MeetingInv
    <3> QED
      BY <1>3, <3>2 DEF Met
  <2> QED
    BY <1>1, <1>2, <2>1 DEF Met
<1>6. ASSUME NEW x \in IdsOf(Receive), Effect(x)
      PROVE  \E s \in IdsOf(Send) : <<x, s>> \in Matchables /\ clock[x] = clock[s]
  BY <1>1, <1>2, <1>4, <1>6
<1>7. ASSUME NEW x \in IdsOf(Send), Effect(x)
      PROVE  \E r \in IdsOf(Receive) : <<r, x>> \in Matchables /\ clock[r] = clock[x]
  <2>1. PICK r \in DOMAIN flow : Met(r, x)
    BY <1>7 DEF IInv, MeetingInv
  <2>2. r \in IdsOf(Receive) /\ flow[r] = x
    BY <2>1 DEF Met
  <2>3. PICK s \in IdsOf(Send) : Met(r, s) /\ Meets(r, s) /\ clock[r] = clock[s]
    BY <1>1, <1>2, <2>1, <2>2
  <2>4. s = x
    BY <2>2, <2>3 DEF Met
  <2>5. <<r, s>> \in Matchables
    BY <1>4, <2>2, <2>3
  <2> QED
    BY <2>2, <2>3, <2>4, <2>5
<1>8. \A r \in IdsOf(Receive), s \in IdsOf(Send) :
         clock[r] = clock[s] => /\ r \in DOMAIN flow /\ Effect(r) /\ Effect(s)
                                /\ flow[r] = s /\ val[r] = ValueOf(s)
  BY <1>5
<1>9. \A x \in IdsOf(Receive) :
        Effect(x) =>
          \E s \in IdsOf(Send) : <<x, s>> \in Matchables /\ clock[x] = clock[s]
  BY <1>6
<1>10. \A x \in IdsOf(Send) :
         Effect(x) =>
           \E r \in IdsOf(Receive) : <<r, x>> \in Matchables /\ clock[r] = clock[x]
  BY <1>7
<1> QED
  BY <1>8, <1>9, <1>10

(* The same, in terms of the variables of the formula.                     *)
LEMMA EffectMatches ==
  ASSUME IInv, DOMAIN clock = Ids, NEW x \in IdsOf(Communication)
  PROVE  communication_match_disjunction(x, Solution) <=> Effect(x)
<1>1. Solution.time = clock
  BY SolutionIs DEF IInv
<1>2. x \in IdsOf(Receive) \/ x \in IdsOf(Send)
  BY DEF IdsOf, Communication
<1>3. communication_match_disjunction(x, Solution)
        <=> \E p \in Matchables : x \in {p[1], p[2]} /\ clock[p[1]] = clock[p[2]]
  BY <1>1 DEF communication_match_disjunction, Match, simultaneous
<1>4. ASSUME NEW p \in Matchables, x \in {p[1], p[2]}, clock[p[1]] = clock[p[2]]
      PROVE  Effect(x)
  <2>1. p[1] \in IdsOf(Receive) /\ p[2] \in IdsOf(Send)
    BY DEF Matchables
  <2>2. Effect(p[1]) /\ Effect(p[2])
    BY <1>4, <2>1, RunsMeet
  <2> QED
    BY <1>4, <2>2
<1>5. ASSUME Effect(x)
      PROVE  \E p \in Matchables : x \in {p[1], p[2]} /\ clock[p[1]] = clock[p[2]]
  <2>1. CASE x \in IdsOf(Receive)
    <3>1. PICK s \in IdsOf(Send) : <<x, s>> \in Matchables /\ clock[x] = clock[s]
      BY <1>5, <2>1, RunsMeet
    <3> QED
      BY <3>1
  <2>2. CASE x \in IdsOf(Send)
    <3>1. PICK r \in IdsOf(Receive) : <<r, x>> \in Matchables /\ clock[r] = clock[x]
      BY <1>5, <2>2, RunsMeet
    <3> QED
      BY <3>1
  <2> QED
    BY <1>2, <2>1, <2>2
<1> QED
  BY <1>3, <1>4, <1>5

(* Two that match take effect, meet no others and send what is received.   *)
LEMMA MatchIsMeeting ==
  ASSUME IInv, DOMAIN clock = Ids, NEW p \in Matchables, Match(p, Solution)
  PROVE  /\ p[1] \in IdsOf(Communication) /\ p[2] \in IdsOf(Communication)
         /\ Effect(p[1]) /\ Effect(p[2])
         /\ communication_excl(p, Solution)
         /\ Guard(p[1], Solution) /\ Guard(p[2], Solution)
         /\ TermOf(p[1], Solution) = TermOf(p[2], Solution)
<1> DEFINE r == p[1]
           s == p[2]
<1>1. Solution.time = clock
  BY SolutionIs DEF IInv
<1>2. \A q \in Matchables :
        /\ q[1] \in IdsOf(Receive) /\ q[2] \in IdsOf(Send) /\ q = <<q[1], q[2]>>
        /\ Match(q, Solution) <=> clock[q[1]] = clock[q[2]]
  BY <1>1 DEF Matchables, Match, simultaneous
<1>3. r \in IdsOf(Receive) /\ s \in IdsOf(Send) /\ p = <<r, s>> /\ clock[r] = clock[s]
  BY <1>2
<1>4. Effect(r) /\ Effect(s) /\ flow[r] = s /\ val[r] = ValueOf(s)
  BY <1>3, RunsMeet
<1>5. /\ r \in IdsOf(Communication) /\ Event(r).kind \in Reading /\ Event(r).kind \notin Sync
      /\ s \in IdsOf(Communication) /\ Event(s).kind \notin Reading /\ Event(s).kind \notin Sync
  BY <1>3 DEF IdsOf, Communication, Reading, Sync, Receive, Send
<1>6. communication_excl(p, Solution)
  <2> SUFFICES ASSUME NEW q \in Matchables, q # p, q[1] = r \/ q[2] = s, Match(q, Solution)
               PROVE  FALSE
    BY DEF communication_excl
  <2>1. /\ q[1] \in IdsOf(Receive) /\ q[2] \in IdsOf(Send) /\ q = <<q[1], q[2]>>
        /\ clock[q[1]] = clock[q[2]]
    BY <1>2
  <2>2. CASE q[1] = r
    <3>1. flow[r] = q[2]
      BY <2>1, <2>2, RunsMeet
    <3> QED
      BY <1>3, <1>4, <2>1, <2>2, <3>1
  <2>3. CASE q[2] = s
    <3>1. clock[r] = clock[q[1]] /\ q[1] # r
      BY <1>3, <2>1, <2>3
    <3>2. r \in DOMAIN clock /\ q[1] \in DOMAIN clock
      BY <1>3, <2>1 DEF IdsOf
    <3>3. Met(r, q[1]) \/ Met(q[1], r)
      BY <3>1, <3>2 DEF IInv, MeetingInv
    <3>4. r \notin IdsOf(Send) /\ q[1] \notin IdsOf(Send)
      BY <1>3, <2>1 DEF IdsOf, Receive, Send
    <3> QED
      BY <3>3, <3>4 DEF Met
  <2> QED
    BY <2>2, <2>3
<1>7. /\ Guard(r, Solution) /\ Guard(s, Solution)
      /\ TermOf(r, Solution) = val[r] /\ TermOf(s, Solution) = ValueOf(s)
  BY <1>4, <1>5, SameTerms DEF Effect
<1> QED
  BY <1>4, <1>5, <1>6, <1>7

(* An event has its place in its thread.                                   *)
LEMMA PlaceInThread ==
  ASSUME program \in Programs, NEW id \in Ids, Event(id).kind \notin Sync
  PROVE  LET t == Event(id).thread_id
         IN  /\ t \in Threads
             /\ Position(t, id) \in DOMAIN program.threads[t]
             /\ program.threads[t][Position(t, id)].event_id = id
             /\ \A k \in DOMAIN program.threads[t] :
                  program.threads[t][k].event_id = id => k = Position(t, id)
<1> DEFINE t == Event(id).thread_id
<1>1. PICK u \in Threads : Event(id) \in ToSet(program.threads[u])
  BY ProgramsAssumption DEF Ids, Event, Threads
<1>2. u = t
  BY <1>1, DataFlowAssumption DEF OwnDataOnly, Ids, Event, Threads
<1>3. Event(id).event_id = id
  BY ProgramsAssumption DEF Ids, Event
<1>4. \E k \in DOMAIN program.threads[t] : program.threads[t][k].event_id = id
  BY <1>1, <1>2, <1>3 DEF ToSet
<1>5. /\ Position(t, id) \in DOMAIN program.threads[t]
      /\ program.threads[t][Position(t, id)].event_id = id
  BY <1>4 DEF Position
<1>6. \A j, k \in DOMAIN program.threads[t] :
        program.threads[t][j].event_id = program.threads[t][k].event_id => j = k
  BY <1>1, <1>2, ProgramsAssumption DEF Threads
<1> QED
  BY <1>1, <1>2, <1>5, <1>6

(* The dominators of an event that takes effect take effect, too.          *)
LEMMA DominatorsEnabled ==
  ASSUME Ran, NEW y \in IdsOf(Communication), Enabled(y, val), NEW z \in Cidom(y)
  PROVE  z \in IdsOf(Communication) /\ Enabled(z, val)
<1> DEFINE t == Event(y).thread_id
           k == Position(t, y)
           es == program.threads[t]
<1>1. y \in Ids /\ Event(y).kind \in Communication /\ Event(y).kind \notin Sync
  BY DEF IdsOf, Communication, Receive, Send, Sync
<1>2. program \in Programs
  BY RanFacts DEF TypeInv
<1>3. t \in Threads /\ k \in DOMAIN es /\ es[k].event_id = y
  BY <1>1, <1>2, PlaceInThread
<1>4. PICK pair \in ImmediateDominatorMap(es, Communication) :
        pair[1] = k /\ z = es[pair[2]].event_id
  BY DEF Cidom, CidomOf
<1> DEFINE e == program.event[es[pair[1]].event_id]
           d == program.event[es[pair[2]].event_id]
<1>5. /\ pair[2] \in 1 .. pair[1] - 1
      /\ e.kind \in Communication => d.kind \in Communication /\ d.guard \subseteq e.guard
  BY <1>3, <1>4, RanFacts DEF Encodable, DominatorsComeFirst, Threads
<1>6. e = Event(y) /\ d = Event(z)
  BY <1>3, <1>4 DEF Event
<1>7. z \in Ids
  <2>1. DOMAIN es = 1 .. Len(es) /\ Len(es) \in Nat
    BY <1>2, <1>3, ThreadsAreSequences
  <2>2. pair[2] \in DOMAIN es
    <3>1. pair[2] \in 1 .. k - 1 /\ k \in 1 .. Len(es)
      BY <1>3, <1>4, <1>5, <2>1
    <3> HIDE DEF k
    <3> QED
      BY <2>1, <3>1
  <2> QED
    BY <1>2, <1>3, <1>4, <2>2, ProgramsAssumption DEF Threads, Ids
<1> QED
  BY <1>1, <1>5, <1>6, <1>7 DEF IdsOf, Enabled, Holds

(* The run satisfies the axiom of maximal matches: what could meet has, as *)
(* all events of the threads have happened.                                *)
LEMMA RunsMatch ==
  ASSUME Ran
  PROVE  ExtMatch(Solution)
<1>1. IInv /\ DOMAIN clock = Ids
  BY RanFacts
<1>2. \A x \in IdsOf(Communication) :
        /\ x \in Ids /\ Event(x).kind \notin Sync
        /\ Guard(x, Solution) <=> Effect(x)
        /\ communication_match_disjunction(x, Solution) <=> Effect(x)
  <2>1. ASSUME NEW x \in IdsOf(Communication)
        PROVE  x \in Ids /\ Event(x).kind \notin Sync
    BY DEF IdsOf, Communication, Receive, Send, Sync
  <2> QED
    BY <1>1, <2>1, SameGuards, EffectMatches, RanFacts
<1>3. ASSUME NEW p \in Matchables, Match(p, Solution)
      PROVE  communication_match_conjunction(Cidom(p[1]) \union Cidom(p[2]), Solution)
  <2> SUFFICES ASSUME NEW z \in Cidom(p[1]) \union Cidom(p[2])
               PROVE  communication_match_disjunction(z, Solution)
    BY DEF communication_match_conjunction
  <2>1. /\ p[1] \in IdsOf(Communication) /\ p[2] \in IdsOf(Communication)
        /\ Effect(p[1]) /\ Effect(p[2])
    BY <1>1, <1>3, MatchIsMeeting
  <2>2. z \in IdsOf(Communication) /\ Enabled(z, val)
    BY <2>1, DominatorsEnabled DEF Effect
  <2> QED
    BY <1>2, <2>2, RanFacts
<1>4. ASSUME NEW p \in Matchables, communication_excl(p, Solution), Guard(p[1], Solution)
      PROVE  Match(p, Solution)
  <2>1. p[1] \in IdsOf(Receive) /\ p[1] \in IdsOf(Communication) /\ p = <<p[1], p[2]>>
    BY DEF Matchables, IdsOf, Communication
  <2>2. Effect(p[1])
    BY <1>2, <1>4, <2>1
  <2>3. PICK s \in IdsOf(Send) : <<p[1], s>> \in Matchables /\ clock[p[1]] = clock[s]
    BY <1>1, <2>1, <2>2, RunsMeet
  <2> DEFINE q == <<p[1], s>>
  <2>4. q \in Matchables /\ q[1] = p[1] /\ Match(q, Solution)
    BY <2>3, RanFacts, SolutionIs DEF Match, simultaneous
  <2>5. q = p
    BY <1>4, <2>4 DEF communication_excl
  <2> QED
    BY <2>4, <2>5
<1>5. ASSUME NEW p \in Matchables
      PROVE  /\ Match(p, Solution) <=>
                   /\ communication_match_conjunction(Cidom(p[1]) \union Cidom(p[2]), Solution)
                   /\ communication_excl(p, Solution)
                   /\ Guard(p[1], Solution) /\ Guard(p[2], Solution)
             /\ Match(p, Solution) => TermOf(p[1], Solution) = TermOf(p[2], Solution)
  BY <1>1, <1>3, <1>4, MatchIsMeeting
<1> QED
  BY <1>5 DEF ExtMatch

(* The run satisfies the axiom of an initial match: one of the first       *)
(* receives has happened on every path, and so met a send.                 *)
LEMMA RunsStart ==
  ASSUME Ran
  PROVE  InitMatch(Solution)
<1> SUFFICES ASSUME NEW p \in Matchables, Cidom(p[1]) = {}
             PROVE  \E q \in Matchables : Cidom(q[1]) = {} /\ Match(q, Solution)
  BY DEF InitMatch
<1>1. program \in Programs
  BY RanFacts DEF TypeInv
<1>2. ASSUME NEW r \in IdsOf(Receive) PROVE Cidom(r) = {} <=> r \in FirstReceives(program)
  <2> DEFINE t == Event(r).thread_id
             k == Position(t, r)
             es == program.threads[t]
             map == ImmediateDominatorMap(es, Communication)
  <2>1. r \in Ids /\ Event(r).kind \in Receive /\ Event(r).kind \notin Sync
    BY DEF IdsOf, Receive, Sync
  <2>2. /\ t \in Threads /\ es[k].event_id = r
        /\ \A j \in DOMAIN es : es[j].event_id = r => j = k
    BY <1>1, <2>1, PlaceInThread
  <2>3. \A pair \in map : pair[1] \in DOMAIN es
    BY <2>2, RanFacts DEF Encodable, DominatorsComeFirst, Threads
  <2>4. \A pair \in map : pair[1] = k <=> es[pair[1]].event_id = r
    BY <2>2, <2>3
  <2>5. Cidom(r) = {} <=> \A pair \in map : pair[1] # k
    BY DEF Cidom, CidomOf
  <2>6. r \in FirstReceives(program) <=> \A pair \in map : es[pair[1]].event_id # r
    BY <2>1 DEF FirstReceives, Ids, Event
  <2> QED
    BY <2>4, <2>5, <2>6
<1>3. p[1] \in IdsOf(Receive)
  BY DEF Matchables
<1>4. PICK r \in FirstReceives(program) : program.event[r].guard = {}
  BY <1>2, <1>3, RanFacts DEF Encodable
<1>5. r \in IdsOf(Receive) /\ Enabled(r, val)
  BY <1>4 DEF FirstReceives, IdsOf, Ids, Event, Enabled, Holds
<1>6. PICK s \in IdsOf(Send) : <<r, s>> \in Matchables /\ clock[r] = clock[s]
  BY <1>5, RunsMeet, RanFacts DEF IdsOf
<1>7. Match(<<r, s>>, Solution)
  BY <1>6, SolutionIs, RanFacts DEF Match, simultaneous
<1> QED
  BY <1>2, <1>4, <1>5, <1>6, <1>7

(* Every run of all threads to their ends that takes the program's path    *)
(* and keeps its assertions is a solution of the formula: check() misses   *)
(* no behaviour of an encodable program.  Encodable programs have integer  *)
(* terms, pops, loads and stores outside of scopes, dominators that do     *)
(* come first (nested scopes may have others), some first receive without  *)
(* a guard, and a formula: nothing aborts or throws while it is made.      *)
THEOREM RunsAreSolutions ==
  ASSUME \A p \in Programs : Encodable(p)
  PROVE  Spec => []EveryRunIsASolution
<1>1. IInv => EveryRunIsASolution
  <2> SUFFICES ASSUME IInv, Happened = Ids, Holds(program.guard \union program.assertions, val)
               PROVE  encode(Solution, FALSE)
    BY DEF EveryRunIsASolution
  <2>1. Ran
    BY DEF Ran, IInv, TypeInv
  <2>2. Holds(program.guard, Solution.val)
    BY <2>1, SolutionIs, RanFacts DEF Holds
  <2>3. encode_memory_concurrency(Solution)
    BY <2>1, RunsReadFrom, RunsAreSerial DEF encode_memory_concurrency
  <2>4. encode_communication_concurrency(Solution, FALSE)
    <3>1. FormulaIsMade(program, FALSE)
      BY <2>1, RanFacts DEF Encodable
    <3> QED
      BY <2>1, <3>1, RunsMatch, RunsStart DEF encode_communication_concurrency
  <2> QED
    BY <2>1, <2>2, <2>3, <2>4, RunsKeepThreadOrder, RunsPop, RunsLoad, RanFacts DEF encode
<1>2. \A p \in Programs : IntegerTerms(p)
  BY DEF Encodable, IntegerTerms
<1>3. Spec => []IInv
  BY <1>2, RunInvariant
<1> QED
  BY <1>1, <1>3, PTL

-----------------------------------------------------------------------------
(* Deadlocks.                                                              *)

(* Predecessors are the events before in a thread.                         *)
LEMMA PredecessorIsBefore ==
  ASSUME program \in Programs, NEW y, NEW x \in Predecessors(y)
  PROVE  \E t \in Threads : \E j, k \in DOMAIN program.threads[t] :
            /\ j < k
            /\ program.threads[t][j].event_id = x
            /\ program.threads[t][k].event_id = y
<1>1. PICK t \in ThreadsOf(y) : \E k \in 1 .. Position(t, y) - 1 :
         x = program.threads[t][k].event_id
  BY DEF Predecessors
<1>2. PICK j \in 1 .. Position(t, y) - 1 : x = program.threads[t][j].event_id
  BY <1>1
<1>3. /\ t \in Threads
      /\ DOMAIN program.threads[t] = 1 .. Len(program.threads[t])
      /\ Len(program.threads[t]) \in Nat
  BY ThreadsAreSequences DEF ThreadsOf
<1>4. \E i \in DOMAIN program.threads[t] : program.threads[t][i].event_id = y
  BY DEF ThreadsOf, ToSet
<1>5. /\ Position(t, y) \in DOMAIN program.threads[t]
      /\ program.threads[t][Position(t, y)].event_id = y
  BY <1>4 DEF Position
<1>6. j \in DOMAIN program.threads[t] /\ j < Position(t, y)
  BY <1>3, <1>5
<1> QED
  BY <1>2, <1>3, <1>5, <1>6

(* An event is once in a thread, and is what its entry there says.         *)
LEMMA Positions ==
  ASSUME program \in Programs, NEW t \in Threads, NEW k \in DOMAIN program.threads[t]
  PROVE  /\ program.threads[t][k].event_id \in Ids
         /\ Position(t, program.threads[t][k].event_id) = k
         /\ Event(program.threads[t][k].event_id).kind = KindAt(program, t, k)
<1> DEFINE id == program.threads[t][k].event_id
<1>1. /\ id \in Ids
      /\ \A j \in DOMAIN program.threads[t] : program.threads[t][j].event_id = id => j = k
  BY ProgramsAssumption DEF Ids, Threads
<1>2. Position(t, id) = k
  BY <1>1 DEF Position
<1> QED
  BY <1>1, <1>2 DEF KindAt, Event

(* The dominators of an event that communicates lead to all communication  *)
(* before it.                                                              *)
LEMMA DominatorsAreBefore ==
  ASSUME program \in Programs, JustCommunicates(program),
         NEW y \in IdsOf(Communication)
  PROVE  /\ Cidom(y) \subseteq Predecessors(y) \intersect IdsOf(Communication)
         /\ \A x \in Predecessors(y) \intersect IdsOf(Communication) :
              x \in Cidom(y) \/ \E z \in Cidom(y) : x \in Predecessors(z)
<1> DEFINE t == Event(y).thread_id
           es == program.threads[t]
<1>1. /\ y \in Ids /\ Event(y).kind \in Communication
      /\ \E u \in Threads : Event(y) \in ToSet(program.threads[u])
      /\ Event(y).event_id = y
  BY ProgramsAssumption DEF IdsOf, Ids, Event, Threads
<1>8. PICK u \in Threads :
        \E k \in DOMAIN program.threads[u] : program.threads[u][k].event_id = y
  BY <1>1 DEF ToSet
<1>2. PICK k \in DOMAIN program.threads[u] : program.threads[u][k].event_id = y
  BY <1>8
<1>3. u = t /\ k \in DOMAIN es /\ es[k].event_id = y /\ KindAt(program, t, k) \in Communication
      /\ t \in Threads /\ Position(t, y) = k
  <2>1. KindAt(program, u, k) \in Communication
    BY <1>1, <1>2, Positions
  <2>2. program.event[program.threads[u][k].event_id].thread_id = u
    BY <1>2, <2>1 DEF JustCommunicates, Threads
  <2>3. u = t
    BY <1>2, <2>2 DEF Event
  <2> QED
    BY <1>2, <2>1, <2>3, Positions
<1>4. /\ DOMAIN es = 1 .. Len(es) /\ Len(es) \in Nat
  BY <1>3, ThreadsAreSequences
<1>5. Cidom(y) = {es[j].event_id : j \in CommunicationBefore(program, t, k)}
  <2> DEFINE D == {q \in ImmediateDominatorMap(es, Communication) : q[1] = k}
  <2>1. {d[2] : d \in D} = CommunicationBefore(program, t, k)
    BY <1>3 DEF JustCommunicates, Threads
  <2>2. Cidom(y) = {es[d[2]].event_id : d \in D}
    BY <1>3 DEF Cidom, CidomOf
  <2> HIDE DEF D
  <2> QED
    BY <2>1, <2>2
<1>6. ASSUME NEW x \in Cidom(y)
      PROVE  x \in Predecessors(y) /\ x \in IdsOf(Communication)
  <2>1. PICK j \in 1 .. k - 1 : es[j].event_id = x /\ KindAt(program, t, j) \in Communication
    BY <1>5, <1>6 DEF CommunicationBefore
  <2>2. j \in DOMAIN es /\ j < k
    BY <1>3, <1>4, <2>1
  <2>3. Before(program, t, x, y)
    BY <1>3, <2>1, <2>2 DEF Before
  <2>4. x \in Ids /\ Event(x).kind \in Communication
    BY <1>3, <2>1, <2>2, Positions
  <2> QED
    BY <1>3, <2>3, <2>4, BeforeIsPredecessor DEF IdsOf
<1>7. ASSUME NEW x \in Predecessors(y), x \in IdsOf(Communication)
      PROVE  x \in Cidom(y) \/ \E z \in Cidom(y) : x \in Predecessors(z)
  <2>1. PICK v \in Threads : \E i, j \in DOMAIN program.threads[v] :
          i < j /\ program.threads[v][i].event_id = x /\ program.threads[v][j].event_id = y
    BY <1>7, PredecessorIsBefore
  <2>2. PICK i, j \in DOMAIN program.threads[v] :
          i < j /\ program.threads[v][i].event_id = x /\ program.threads[v][j].event_id = y
    BY <2>1
  <2>3. v = t /\ j = k
    <3>1. KindAt(program, v, j) \in Communication
      BY <1>1, <2>2, Positions
    <3>2. program.event[program.threads[v][j].event_id].thread_id = v
      BY <2>2, <3>1 DEF JustCommunicates, Threads
    <3> QED
      BY <1>3, <2>2, <3>2, Positions DEF Event
  <2>4. i \in DOMAIN es /\ i < k /\ es[i].event_id = x /\ KindAt(program, t, i) \in Communication
    BY <1>7, <2>2, <2>3, Positions DEF IdsOf
  <2> DEFINE J == {m \in i .. k - 1 : KindAt(program, t, m) \in Communication}
  <2>5. PICK m \in J : \A n \in J : n <= m
    <3>1. J # {} /\ \A n \in J : k - n \in Nat
      BY <1>3, <1>4, <2>4
    <3>2. PICK m \in J : \A n \in J : [l \in J |-> k - l][m] <= [l \in J |-> k - l][n]
      BY <3>1, FirstClock
    <3> QED
      BY <1>3, <1>4, <2>4, <3>2
  <2>6. m \in CommunicationBefore(program, t, k)
    BY <1>3, <1>4, <2>4, <2>5 DEF CommunicationBefore
  <2>7. CASE m = i
    BY <1>5, <2>4, <2>6, <2>7
  <2>8. CASE m # i
    <3>1. m \in DOMAIN es /\ i < m
      BY <1>3, <1>4, <2>4, <2>5, <2>8
    <3>2. Before(program, t, x, es[m].event_id)
      BY <2>4, <3>1 DEF Before
    <3> QED
      BY <1>3, <1>5, <2>6, <3>2, BeforeIsPredecessor
  <2> QED
    BY <2>7, <2>8
<1> QED
  BY <1>6, <1>7

(* What is known where no thread can go on.                                *)
Blocked ==
  /\ IInv /\ DOMAIN clock = Ids /\ Stuck
  /\ DeadlockEncodable(program)

(* What is known there.                                                    *)
LEMMA BlockedFacts ==
  ASSUME Blocked
  PROVE  /\ IInv /\ DOMAIN clock = Ids /\ TypeInv /\ ClockInv /\ program \in Programs
         /\ Deadlock /\ JustCommunicates(program) /\ UnambiguousWildcards(program)
         /\ \A t \in Threads : \A k \in DOMAIN program.threads[t] :
              KindAt(program, t, k) \in Communication => t # 1 /\ k # Len(program.threads[t])
         /\ program.guard = {} /\ program.assertions = {}
         /\ \A x \in Ids : /\ clock[x] \in Nat
                           /\ \A y \in Predecessors(x) : y \in Ids /\ clock[y] < clock[x]
                           /\ x \in IdsOf(Sync) \/ x \in IdsOf(Communication)
<1>1. IInv /\ DOMAIN clock = Ids /\ TypeInv /\ ClockInv /\ program \in Programs /\ Deadlock
  BY DEF Blocked, IInv, TypeInv, Stuck
<1>2. \A x \in Ids : Event(x).kind \in Sync \union Communication
  BY DEF Blocked, Stuck, CommunicatesOnly, IdsOf
<1>3. /\ JustCommunicates(program) /\ UnambiguousWildcards(program)
      /\ \A t \in Threads : \A k \in DOMAIN program.threads[t] :
           KindAt(program, t, k) \in Communication => t # 1 /\ k # Len(program.threads[t])
      /\ program.guard = {} /\ program.assertions = {}
  BY <1>2 DEF Blocked, DeadlockEncodable, Threads, Ids, Event
<1>4. \A x \in Ids : x \in IdsOf(Sync) \/ x \in IdsOf(Communication)
  BY <1>2 DEF IdsOf
<1>5. \A x \in Ids : /\ clock[x] \in Nat
                     /\ \A y \in Predecessors(x) : y \in Ids /\ clock[y] < clock[x]
  BY <1>1 DEF ClockInv, Closed
<1> QED
  BY <1>1, <1>3, <1>4, <1>5

(* Communication in no scope takes effect when it happens.                 *)
LEMMA CommunicationIsUnconditional ==
  ASSUME Blocked, NEW id \in IdsOf(Communication)
  PROVE  /\ Enabled(id, val) /\ (Effect(id) <=> id \in Happened)
         /\ Guard(id, Solution)
<1>1. id \in Ids /\ Event(id).kind \in Communication /\ Event(id).kind \notin Sync
  BY DEF IdsOf, Communication, Receive, Send, Sync
<1> DEFINE t == Event(id).thread_id
           k == Position(t, id)
<1>2. t \in Threads /\ k \in DOMAIN program.threads[t] /\ program.threads[t][k].event_id = id
  BY <1>1, PlaceInThread, BlockedFacts
<1>3. KindAt(program, t, k) \in Communication
  BY <1>1, <1>2 DEF KindAt, Event
<1> HIDE DEF t, k
<1>4. program.event[program.threads[t][k].event_id].guard = {}
  BY <1>2, <1>3, BlockedFacts DEF JustCommunicates, Threads
<1>5. Event(id).guard = {}
  BY <1>2, <1>4 DEF Event
<1> QED
  BY <1>5 DEF Effect, Enabled, Holds, Guard

(* Nothing that waits for no communication is left.                        *)
LEMMA StartsAreDone ==
  ASSUME Blocked, NEW x, NeedsNoCommunication(program, x)
  PROVE  x \in Happened
<1>1. PICK ids \in SUBSET Ids :
         x \in ids /\ ClosedDownwards(program, ids) /\ \A y \in ids : Event(y).kind \in Sync
  BY DEF NeedsNoCommunication, Ids, Event
<1> DEFINE T == ids \ Happened
<1>2. SUFFICES ASSUME T # {} PROVE FALSE
  BY <1>1
<1>3. PICK first \in T : \A z \in T : clock[first] <= clock[z]
  <2>1. T \in SUBSET Ids /\ \A z \in Ids : clock[z] \in Nat
    BY BlockedFacts
  <2> HIDE DEF T
  <2> QED
    BY <1>2, <2>1, FirstClock
<1>4. \A w \in Predecessors(first) : w \in Happened
  <2> SUFFICES ASSUME NEW w \in Predecessors(first) PROVE w \in Happened
    OBVIOUS
  <2>1. \E t \in Threads : Before(program, t, w, first)
    BY BlockedFacts, PredecessorIsBefore DEF Before
  <2>2. w \in Ids /\ clock[w] < clock[first] /\ clock[w] \in Nat /\ clock[first] \in Nat
    BY <1>3, BlockedFacts
  <2>3. w \in ids
    BY <1>1, <1>3, <2>1, <2>2 DEF ClosedDownwards, Threads, Ids
  <2>4. w \in T => clock[first] <= clock[w]
    BY <1>3
  <2> QED
    BY <2>2, <2>3, <2>4
<1>5. first \in IdsOf(Sync) /\ IsNext(first)
  BY <1>1, <1>3, <1>4 DEF IdsOf, IsNext
<1> QED
  BY <1>5, BlockedFacts DEF Deadlock

(* What has got through the communication before it is next.               *)
LEMMA WaitingIsNext ==
  ASSUME Blocked, NEW y \in IdsOf(Communication), y \notin Happened,
         \A z \in Cidom(y) : z \in Happened
  PROVE  IsNext(y)
<1> SUFFICES ASSUME NEW w \in Predecessors(y) PROVE w \in Happened
  BY DEF IsNext
<1>1. /\ program \in Programs /\ JustCommunicates(program) /\ ClockInv /\ w \in Ids
      /\ y \in Ids /\ Event(y).kind \in Communication
  BY BlockedFacts DEF IdsOf
<1>2. CASE w \in IdsOf(Communication)
  <2>1. w \in Cidom(y) \/ \E z \in Cidom(y) : w \in Predecessors(z)
    BY <1>1, <1>2, DominatorsAreBefore
  <2> QED
    BY <1>1, <2>1 DEF ClockInv, Closed
<1>3. CASE w \in IdsOf(Sync)
  <2>1. PICK t \in Threads : \E j, k \in DOMAIN program.threads[t] :
          j < k /\ program.threads[t][j].event_id = w /\ program.threads[t][k].event_id = y
    BY <1>1, PredecessorIsBefore
  <2>2. PICK j, k \in DOMAIN program.threads[t] :
          j < k /\ program.threads[t][j].event_id = w /\ program.threads[t][k].event_id = y
    BY <2>1
  <2>3. KindAt(program, t, k) \in Communication /\ KindAt(program, t, j) \in Sync
    BY <1>1, <1>3, <2>2, Positions DEF IdsOf
  <2>4. j \in 1 .. k - 1
    BY <1>1, <2>2, ThreadsAreSequences
  <2>5. NeedsNoCommunication(program, w)
    BY <1>1, <2>2, <2>3, <2>4 DEF JustCommunicates, Threads
  <2> QED
    BY <2>5, StartsAreDone
<1> QED
  BY <1>1, <1>2, <1>3, BlockedFacts

(* A deadlock satisfies the axiom of maximal matches: two that could meet, *)
(* by the axiom, would both be next and so could meet.                     *)
LEMMA DeadlocksMatch ==
  ASSUME Blocked
  PROVE  ExtMatch(Solution)
<1>1. IInv /\ DOMAIN clock = Ids /\ ClockInv /\ program \in Programs
  BY BlockedFacts
<1>2. \A x \in IdsOf(Communication) :
        /\ x \in Ids /\ Enabled(x, val) /\ Guard(x, Solution)
        /\ Effect(x) <=> x \in Happened
        /\ communication_match_disjunction(x, Solution) <=> Effect(x)
        /\ \A z \in Cidom(x) : z \in Predecessors(x) /\ z \in IdsOf(Communication)
  <2>1. \A x \in IdsOf(Communication) : x \in Ids
    BY DEF IdsOf
  <2> QED
    BY <1>1, <2>1, CommunicationIsUnconditional, EffectMatches, DominatorsAreBefore, BlockedFacts
<1>3. ASSUME NEW p \in Matchables, Match(p, Solution)
      PROVE  communication_match_conjunction(Cidom(p[1]) \union Cidom(p[2]), Solution)
  <2> SUFFICES ASSUME NEW x \in {p[1], p[2]}, NEW z \in Cidom(x)
               PROVE  communication_match_disjunction(z, Solution)
    BY DEF communication_match_conjunction
  <2>1. x \in IdsOf(Communication) /\ Effect(x)
    BY <1>1, <1>3, MatchIsMeeting
  <2>2. z \in IdsOf(Communication) /\ z \in Happened
    BY <1>1, <1>2, <2>1 DEF Effect, ClockInv, Closed
  <2> QED
    BY <1>2, <2>2
<1>4. ASSUME NEW p \in Matchables, communication_excl(p, Solution), ~Match(p, Solution),
             communication_match_conjunction(Cidom(p[1]) \union Cidom(p[2]), Solution)
      PROVE  FALSE
  <2> DEFINE r == p[1]
             s == p[2]
  <2>1. /\ r \in IdsOf(Receive) /\ r \in IdsOf(Communication)
        /\ s \in IdsOf(Send) /\ s \in IdsOf(Communication) /\ p = <<r, s>>
    BY DEF Matchables, IdsOf, Communication
  <2>2. r \notin Happened
    <3> SUFFICES ASSUME r \in Happened PROVE FALSE
      OBVIOUS
    <3>1. PICK s2 \in IdsOf(Send) : <<r, s2>> \in Matchables /\ clock[r] = clock[s2]
      BY <1>1, <1>2, <2>1, RunsMeet
    <3> DEFINE q == <<r, s2>>
    <3>2. q \in Matchables /\ q[1] = r /\ Match(q, Solution)
      BY <1>1, <3>1, SolutionIs DEF Match, simultaneous, IInv
    <3>3. q = p
      BY <1>4, <3>2 DEF communication_excl
    <3> QED
      BY <1>4, <3>2, <3>3
  <2>3. s \notin Happened
    <3> SUFFICES ASSUME s \in Happened PROVE FALSE
      OBVIOUS
    <3>1. PICK r2 \in IdsOf(Receive) : <<r2, s>> \in Matchables /\ clock[r2] = clock[s]
      BY <1>1, <1>2, <2>1, RunsMeet
    <3> DEFINE q == <<r2, s>>
    <3>2. q \in Matchables /\ q[2] = s /\ Match(q, Solution)
      BY <1>1, <3>1, SolutionIs DEF Match, simultaneous, IInv
    <3>3. q = p
      BY <1>4, <3>2 DEF communication_excl
    <3> QED
      BY <1>4, <3>2, <3>3
  <2>4. \A z \in Cidom(r) \union Cidom(s) : z \in Happened
    BY <1>2, <1>4, <2>1 DEF communication_match_conjunction
  <2>5. IsNext(r) /\ IsNext(s)
    BY <2>1, <2>2, <2>3, <2>4, WaitingIsNext
  <2>6. Event(r).thread_id # Event(s).thread_id
    <3> SUFFICES ASSUME Event(r).thread_id = Event(s).thread_id PROVE FALSE
      OBVIOUS
    <3> DEFINE t == Event(r).thread_id
               j == Position(t, r)
               k == Position(t, s)
    <3>1. /\ r \in Ids /\ Event(r).kind \notin Sync
          /\ s \in Ids /\ Event(s).kind \notin Sync /\ r # s
      BY <2>1 DEF IdsOf, Sync, Receive, Send
    <3>2. /\ t \in Threads
          /\ j \in DOMAIN program.threads[t] /\ program.threads[t][j].event_id = r
          /\ k \in DOMAIN program.threads[t] /\ program.threads[t][k].event_id = s
      BY <1>1, <3>1, PlaceInThread
    <3>3. DOMAIN program.threads[t] = 1 .. Len(program.threads[t])
          /\ Len(program.threads[t]) \in Nat
      BY <1>1, <3>2, ThreadsAreSequences
    <3> HIDE DEF t, j, k
    <3>4. j < k \/ k < j
      BY <3>1, <3>2, <3>3
    <3>5. Before(program, t, r, s) \/ Before(program, t, s, r)
      BY <3>2, <3>4 DEF Before
    <3>6. r \in Predecessors(s) \/ s \in Predecessors(r)
      BY <1>1, <3>2, <3>5, BeforeIsPredecessor
    <3> QED
      BY <2>2, <2>3, <2>5, <3>6 DEF IsNext
  <2>7. Meets(r, s)
    <3>1. MatchableOnChannel(Event(r), Event(s)) \/ MatchableMessages(Event(r), Event(s))
      BY DEF Matchables
    <3>2. CASE MatchableOnChannel(Event(r), Event(s))
      BY <3>2 DEF MatchableOnChannel, Meets
    <3>3. CASE MatchableMessages(Event(r), Event(s))
      <4>1. r \in Ids /\ s \in Ids /\ Event(r).kind = "message_recv" /\ Event(s).kind = "message_send"
        BY <2>1, <3>3 DEF MatchableMessages, IdsOf
      <4>2. Event(r).address = s_wildcard_address => Event(s).address = Event(r).thread_id
        BY <2>6, <4>1, BlockedFacts DEF UnambiguousWildcards, Ids, Event
      <4> QED
        BY <2>6, <3>3, <4>1, <4>2 DEF MatchableMessages, Meets
    <3> QED
      BY <3>1, <3>2, <3>3
  <2>8. CanMeet(r, s)
    BY <1>2, <2>1, <2>5, <2>7 DEF CanMeet
  <2> QED
    BY <2>1, <2>8, BlockedFacts DEF Deadlock
<1>5. ASSUME NEW p \in Matchables
      PROVE  /\ Match(p, Solution) <=>
                   /\ communication_match_conjunction(Cidom(p[1]) \union Cidom(p[2]), Solution)
                   /\ communication_excl(p, Solution)
                   /\ Guard(p[1], Solution) /\ Guard(p[2], Solution)
             /\ Match(p, Solution) => TermOf(p[1], Solution) = TermOf(p[2], Solution)
  BY <1>1, <1>3, <1>4, MatchIsMeeting
<1> QED
  BY <1>5 DEF ExtMatch

(* It satisfies the axiom of an initial match if any two have met: of      *)
(* these the first receive has no communication before it.                 *)
LEMMA DeadlocksStart ==
  ASSUME Blocked, DOMAIN flow # {}
  PROVE  InitMatch(Solution)
<1>1. IInv /\ DOMAIN clock = Ids /\ ClockInv /\ TypeInv /\ program \in Programs
      /\ JustCommunicates(program)
  BY BlockedFacts
<1>2. \A x \in DOMAIN flow : x \in IdsOf(Receive) /\ x \in Happened /\ x \in Ids
  <2> SUFFICES ASSUME NEW x \in DOMAIN flow
               PROVE  x \in IdsOf(Receive) /\ x \in Happened /\ x \in Ids
    OBVIOUS
  <2>1. x \in IdsOf(Reading) /\ x \in Happened /\ x \in Ids
    BY <1>1 DEF TypeInv, IdsOf
  <2>2. x \in IdsOf(Sync) \/ x \in IdsOf(Communication)
    BY <2>1, BlockedFacts
  <2> QED
    BY <2>1, <2>2 DEF IdsOf, Reading, Sync, Communication, Send, Receive
<1>3. PICK r \in DOMAIN flow : \A y \in DOMAIN flow : clock[r] <= clock[y]
  <2>1. DOMAIN flow \in SUBSET Ids /\ \A z \in Ids : clock[z] \in Nat
    BY <1>2, BlockedFacts
  <2> QED
    BY <2>1, FirstClock
<1>4. r \in IdsOf(Receive) /\ r \in IdsOf(Communication) /\ r \in Happened
  BY <1>2 DEF IdsOf, Communication
<1>5. Cidom(r) = {}
  <2> SUFFICES ASSUME NEW z \in Cidom(r) PROVE FALSE
    OBVIOUS
  <2>1. z \in Predecessors(r) /\ z \in IdsOf(Communication)
    BY <1>1, <1>4, DominatorsAreBefore
  <2>2. z \in Happened /\ clock[z] < clock[r] /\ clock[z] \in Nat /\ clock[r] \in Nat
    BY <1>1, <1>2, <2>1, BlockedFacts DEF ClockInv, Closed
  <2>3. Effect(z)
    BY <2>1, <2>2, CommunicationIsUnconditional
  <2>4. \E y \in DOMAIN flow : clock[y] = clock[z]
    <3>1. CASE z \in IdsOf(Receive)
      BY <1>1, <2>3, <3>1, RunsMeet
    <3>2. CASE z \in IdsOf(Send)
      BY <1>1, <2>3, <3>2, RunsMeet
    <3> QED
      BY <2>1, <3>1, <3>2 DEF IdsOf, Communication
  <2> QED
    BY <1>3, <2>2, <2>4
<1>6. PICK s \in IdsOf(Send) : <<r, s>> \in Matchables /\ clock[r] = clock[s]
  BY <1>1, <1>4, CommunicationIsUnconditional, RunsMeet
<1>7. Match(<<r, s>>, Solution)
  BY <1>1, <1>6, SolutionIs DEF Match, simultaneous
<1> QED
  BY <1>5, <1>6, <1>7 DEF InitMatch

(* It does not satisfy the finalizers: the first event that has not        *)
(* happened communicates, so the last communication of its thread has not  *)
(* met.                                                                    *)
LEMMA DeadlocksDoNotFinish ==
  ASSUME Blocked
  PROVE  ~Finalizers(Solution)
<1>1. IInv /\ DOMAIN clock = Ids /\ ClockInv /\ program \in Programs
      /\ JustCommunicates(program) /\ Happened \subseteq Ids
  BY BlockedFacts DEF ClockInv
<1> DEFINE U == Ids \ Happened
<1>2. U # {}
  <2>1. PICK t \in Threads : ~ \A e \in ToSet(program.threads[t]) : e.event_id \in Happened
    BY BlockedFacts DEF Deadlock
  <2>2. PICK k \in DOMAIN program.threads[t] : program.threads[t][k].event_id \notin Happened
    BY <2>1 DEF ToSet
  <2> QED
    BY <1>1, <2>2, Positions
<1>3. PICK u \in U : \A z \in U : clock[u] <= clock[z]
  <2>1. U \in SUBSET Ids /\ \A z \in Ids : clock[z] \in Nat
    BY BlockedFacts
  <2> HIDE DEF U
  <2> QED
    BY <1>2, <2>1, FirstClock
<1>4. IsNext(u)
  <2> SUFFICES ASSUME NEW w \in Predecessors(u) PROVE w \in Happened
    BY <1>3 DEF IsNext
  <2>1. w \in Ids /\ clock[w] < clock[u] /\ clock[w] \in Nat /\ clock[u] \in Nat
    BY <1>3, BlockedFacts
  <2>2. w \in U => clock[u] <= clock[w]
    BY <1>3
  <2> QED
    BY <2>1, <2>2
<1>5. u \in IdsOf(Communication)
  BY <1>3, <1>4, BlockedFacts DEF Deadlock
<1> DEFINE t == Event(u).thread_id
           k == Position(t, u)
           es == program.threads[t]
<1>6. /\ t \in Threads /\ k \in DOMAIN es /\ es[k].event_id = u
      /\ DOMAIN es = 1 .. Len(es) /\ Len(es) \in Nat
      /\ KindAt(program, t, k) \in Communication
  <2>1. u \in Ids /\ Event(u).kind \in Communication /\ Event(u).kind \notin Sync
    BY <1>5 DEF IdsOf, Communication, Receive, Send, Sync
  <2>2. t \in Threads /\ k \in DOMAIN es /\ es[k].event_id = u
    BY <1>1, <2>1, PlaceInThread
  <2>3. KindAt(program, t, k) \in Communication
    BY <2>1, <2>2 DEF KindAt, Event
  <2> QED
    BY <1>1, <2>2, <2>3, ThreadsAreSequences
<1>7. t # 1 /\ k < Len(es)
  <2>1. t # 1 /\ k # Len(es)
    BY <1>6, BlockedFacts
  <2> HIDE DEF t, k, es
  <2> QED
    BY <1>6, <2>1
<1> HIDE DEF t, k, es
<1> DEFINE J == {i \in k .. Len(es) - 1 : KindAt(program, t, i) \in Communication}
<1>8. PICK m \in J : \A i \in J : i <= m
  <2>1. k \in J /\ \A i \in J : Len(es) - i \in Nat
    BY <1>6, <1>7
  <2>2. PICK m \in J : \A i \in J : [l \in J |-> Len(es) - l][m] <= [l \in J |-> Len(es) - l][i]
    BY <2>1, FirstClock
  <2> QED
    BY <1>6, <1>7, <2>2
<1>9. m \in CommunicationBefore(program, t, Len(es)) /\ m \in DOMAIN es /\ k <= m
  BY <1>6, <1>7, <1>8 DEF CommunicationBefore
<1> DEFINE id == es[m].event_id
<1>10. id \in CidomOfEnd(t)
  <2> DEFINE D == {q \in ImmediateDominatorMap(es, Communication) : q[1] = Len(es)}
  <2>1. Len(es) \in DOMAIN es
    BY <1>6, <1>7
  <2>2. {d[2] : d \in D} = CommunicationBefore(program, t, Len(es))
    BY <1>6, <2>1, BlockedFacts DEF JustCommunicates, Threads, es
  <2>3. PICK d \in D : d[2] = m
    BY <1>9, <2>2
  <2> QED
    BY <2>3 DEF CidomOfEnd, CidomOf, es
<1>11. id \in IdsOf(Communication)
  BY <1>1, <1>6, <1>8, <1>9, Positions DEF IdsOf, es
<1>12. id \notin Happened
  <2>1. CASE m = k
    BY <1>3, <1>6, <2>1
  <2>2. CASE m # k
    <3>1. Before(program, t, u, id)
      BY <1>6, <1>9, <2>2 DEF Before, es
    <3>2. u \in Predecessors(id)
      BY <1>1, <1>6, <3>1, BeforeIsPredecessor
    <3> QED
      BY <1>1, <1>3, <3>2 DEF ClockInv, Closed
  <2> QED
    BY <2>1, <2>2
<1>13. ~communication_match_disjunction(id, Solution)
  BY <1>1, <1>11, <1>12, EffectMatches DEF Effect
<1> QED
  BY <1>6, <1>7, <1>10, <1>13 DEF Finalizers, communication_match_conjunction

(* Each deadlock in which two events have met before satisfies the formula *)
(* of check_deadlock(), so it is found, for all programs that communicate  *)
(* as DeadlockEncodable says.                                              *)
THEOREM DeadlocksAreFound ==
  ASSUME \A p \in Programs : IntegerTerms(p) /\ DeadlockEncodable(p)
  PROVE  Spec => []EveryLaterDeadlockIsFound
<1>1. IInv => EveryLaterDeadlockIsFound
  <2> SUFFICES ASSUME IInv, CommunicatesOnly, Deadlock, DOMAIN clock = Ids, DOMAIN flow # {}
               PROVE  check_deadlock(Solution)
    BY DEF EveryLaterDeadlockIsFound
  <2>1. Blocked
    BY DEF Blocked, Stuck, IInv, TypeInv
  <2>2. /\ Holds(program.guard, Solution.val) /\ Holds(program.assertions, Solution.val)
    BY <2>1, BlockedFacts DEF Holds
  <2>3. \A kind \in {"read", "write", "pop", "push", "load", "store"} : IdsOf({kind}) = {}
    <3>1. \A x \in Ids : Event(x).kind \in Sync \union Communication
      BY DEF CommunicatesOnly, IdsOf
    <3> QED
      BY <3>1 DEF IdsOf, Sync, Communication, Receive, Send
  <2>4. \A kind \in {"read", "write", "pop", "push", "load", "store"} : AddressesOf(kind) = {}
    BY <2>3 DEF AddressesOf
  <2>5. encode_memory_concurrency(Solution)
    BY <2>3, <2>4 DEF encode_memory_concurrency, encode_read_from, encode_write_serialization
  <2>6. encode_stack_api(Solution)
    BY <2>3, <2>4 DEF encode_stack_api, encode_pop_from, encode_pop_from_injectivity,
         encode_stack_lifo_order
  <2>7. encode_array_api(Solution)
    BY <2>3, <2>4 DEF encode_array_api, encode_load_from, encode_from_load,
         encode_store_serialization
  <2>8. encode_communication_concurrency(Solution, TRUE)
    <3>1. FormulaIsMade(program, TRUE)
      <4>1. program \in Programs
        BY DEF IInv, TypeInv
      <4>2. \A id \in DOMAIN program.event : program.event[id].kind \in Sync \union Communication
        BY DEF CommunicatesOnly, IdsOf, Ids, Event
      <4> QED
        BY <4>1, <4>2 DEF DeadlockEncodable
    <3> QED
      BY <2>1, <3>1, DeadlocksMatch, DeadlocksStart, DeadlocksDoNotFinish
         DEF encode_communication_concurrency
  <2>9. encode(Solution, TRUE)
    BY <2>2, <2>5, <2>6, <2>7, <2>8, RunsKeepThreadOrder DEF encode
  <2> QED
    BY <2>2, <2>9 DEF check_deadlock
<1>2. Spec => []IInv
  BY RunInvariant
<1> QED
  BY <1>1, <1>2, PTL
=============================================================================
