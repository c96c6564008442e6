--------------------------- MODULE DfsCheckerProofs ---------------------------
(***************************************************************************)
(* Proofs about DfsChecker and its Tracer, for every set of inputs, every  *)
(* program, however many threads, scopes, branches and calls it has.       *)
(***************************************************************************)
EXTENDS DfsChecker, DfsProofs, FiniteSetTheorems

-----------------------------------------------------------------------------
(* The program's script.                                                   *)

Ops == {"write", "send", "begin", "end", "join", "barrier", "then", "else", "endif",
        "error", "branch", "exit"}

CallType == [op : Ops, cond : Condition, thread : Nat, hint : BOOLEAN]

Ends(c) == c.op \in {"branch", "exit"}

(* A run ends at a branch or at the end of the program, and there only. *)
ScriptOK ==
  /\ script \in [DOMAIN script -> Seq(CallType)]
  /\ << >> \in DOMAIN script
  /\ DOMAIN script \subseteq Seq(BOOLEAN)
  /\ \A p \in DOMAIN script : \A i \in 1 .. Len(script[p]) - 1 : ~Ends(script[p][i])
  /\ phase = "run" => \A i \in 1 .. pos : ~Ends(script[path][i])

-----------------------------------------------------------------------------
(* Threads and scopes.                                                     *)

(* The program's threads are those of the tracer: depth[i] of them run     *)
(* inside the first i frames.                                              *)
InThreads(depth) ==
  /\ depth[0] = 1
  /\ depth[Len(nest)] = Len(thread_id_stack)
  /\ \A i, j \in 0 .. Len(nest) : i <= j => depth[i] <= depth[j]
  /\ \A i \in 1 .. Len(nest) :
       /\ depth[i] = depth[i - 1] + (IF nest[i].kind = "thread" THEN 1 ELSE 0)
       /\ nest[i].thread = thread_id_stack[depth[i]]

ThreadsMatch ==
  /\ thread_id_stack[1] = 1
  /\ \A i, j \in 1 .. Len(thread_id_stack) : i < j => thread_id_stack[i] < thread_id_stack[j]
  /\ \E depth \in [0 .. Len(nest) -> 1 .. Len(thread_id_stack)] : InThreads(depth)

(* Threads are started outside of scopes. *)
Nesting ==
  \A i \in 1 .. Len(nest) : nest[i].kind = "thread" =>
    /\ nest[i].cond = Inputs
    /\ nest[i].thread > 1
    /\ \A j \in 1 .. i - 1 : nest[j].kind = "thread" /\ nest[j].thread < nest[i].thread

(* The tracer's scope i + 1 is the program's frame i; scope 1 is that of   *)
(* the main thread.                                                        *)
ScopesMatch ==
  /\ Len(scope_stack) = Len(nest) + 1
  /\ scope_stack[1].guard_prime = Inputs
  /\ \A i \in 1 .. Len(nest) : scope_stack[i + 1].guard_prime = nest[i].cond
  /\ guard = GuardOfScope(Last(scope_stack))
  /\ \A i \in 1 .. Len(nest) : nest[i].kind # "thread" =>
       scope_stack[i + 1].guard = GuardOfScope(scope_stack[i])

(* On the path, a scope was entered under the conditions around it. *)
ScopesExact ==
  \A i \in 1 .. Len(scope_stack) :
    /\ \A j \in 1 .. i - 2 : scope_stack[i].guard \subseteq nest[j].cond
    /\ \A v \in path_condition :
         (\A j \in 1 .. i - 2 : v \in nest[j].cond) => v \in scope_stack[i].guard

-----------------------------------------------------------------------------
(* Guards.                                                                 *)

EventsExact ==
  \A i \in DOMAIN events, v \in path_condition : v \in events[i].guard <=> v \in truth[i].reach

ThreadAt(i) == IF i = 1 THEN 1 ELSE nest[i - 1].thread

(* Where only the main thread and its own have branched, a scope's guard   *)
(* has all of the path condition that the main thread's does not have.     *)
BranchesKnown ==
  \A i \in 1 .. Len(scope_stack) : branched \subseteq {1, ThreadAt(i)} =>
    scope_stack[i].guard \intersect scope_stack[1].guard \subseteq path_condition

(* The checker's own guards let through what reaches the next call, and,   *)
(* if no scope is opened late, nothing else within the tracer's guard.     *)
CheckerGuards ==
  /\ Reach \subseteq guards
  /\ ~LateScopes => /\ InScope => branched \subseteq {1, Thread}
                    /\ guards \intersect scope_stack[1].guard \subseteq Reach

ErrorsKept ==
  \A e \in errors :
    /\ e.reach \intersect path_condition \subseteq e.meaning
    /\ ~LateScopes => e.meaning \intersect scope_stack[1].guard \subseteq e.reach

-----------------------------------------------------------------------------
(* Identifiers.                                                            *)

SyncType == {"alone", "start", "end", "barrier"} \X Nat

TruthIn(S) == [thread : Nat, enclosing : S, reach : Condition, sync : SyncType]

TruthOK == \E S : truth \in Seq(TruthIn(S))

Starts == {e.sync : e \in Syncs("start")}

Barriers(t) == {e.sync : e \in {f \in Syncs("barrier") : f.thread = t}}

BarriersOf(t) == IF t \in DOMAIN barrier_map THEN barrier_map[t] ELSE 0

IsLast(i, t) ==
  /\ events[i].thread_id = t
  /\ \A j \in DOMAIN events : events[j].thread_id = t => j <= i

OnStack(t) == \E k \in 1 .. Len(thread_id_stack) : thread_id_stack[k] = t

(* Synchronisations are numbered as the tracer numbers threads and         *)
(* barriers.                                                               *)
Numbered ==
  /\ IsFiniteSet(Starts)
  /\ thread_id_cnt = 2 + Cardinality(Starts)
  /\ \A t \in Nat : /\ IsFiniteSet(Barriers(t))
                    /\ BarriersOf(t) = Cardinality(Barriers(t))
                    /\ \A s \in Barriers(t) : s[2] <= BarriersOf(t)
  /\ \A i \in DOMAIN events :
       /\ truth[i].sync[1] = "alone" => truth[i].sync[2] < Len(truth)
       /\ truth[i].sync[1] = "start" => truth[i].sync[2] < thread_id_cnt
       /\ truth[i].sync[1] = "end" => truth[i].sync[2] < thread_id_cnt /\ ~OnStack(truth[i].sync[2])

(* Barriers have the identifiers of the list, and nothing else has. *)
BarrierIds ==
  /\ \A n \in 1 .. Len(barrier_list) : barrier_list[n] < event_id_cnt
  /\ \A m, n \in 1 .. Len(barrier_list) : barrier_list[m] = barrier_list[n] => m = n
  /\ \A i \in DOMAIN events :
       IF truth[i].sync[1] = "barrier"
       THEN /\ truth[i].sync[2] \in 1 .. Len(barrier_list)
            /\ events[i].event_id = barrier_list[truth[i].sync[2]]
       ELSE \A n \in 1 .. Len(barrier_list) : events[i].event_id # barrier_list[n]

(* The last event of a thread that has ended is its end. *)
Joinable ==
  \A t \in joinable :
    /\ ~OnStack(t)
    /\ \E i \in DOMAIN events : IsLast(i, t) /\ truth[i].sync = <<"end", t>>

IdsInUse == \A i \in DOMAIN events : events[i].event_id < event_id_cnt

-----------------------------------------------------------------------------
(* The search.                                                             *)

Followed ==
  /\ Len(path) = flip_index
  /\ \A j \in 1 .. flip_index : path[j] = flips[j].direction

Branches(p) ==
  p \in DOMAIN script /\ Len(script[p]) > 0 /\ script[p][Len(script[p])].op = "branch"

FlipsOnScript == \A i \in 1 .. Len(flips) : Branches(SubSeq(Directions(flips), 1, i - 1))

(* The other side of a frozen flip has been explored. *)
FrozenExplored ==
  \A k \in 1 .. Len(flips) : flips[k].is_frozen => \E q \in explored : LeavesAt(q, k)

Economical == \A p \in explored : Behind(p) \/ (phase = "checked" /\ p = path)

(* Path q takes the other direction of the k-th branch of p. *)
Turns(q, p, k) ==
  k <= Len(q) /\ (\A j \in 1 .. k - 1 : q[j] = p[j]) /\ q[k] = ~p[k]

(* The flips lead to the other direction of the k-th branch of p, or will. *)
WillTurn(p, k) ==
  /\ phase # "done"
  /\ k <= Len(flips)
  /\ \A j \in 1 .. k - 1 : p[j] = flips[j].direction
  /\ p[k] = flips[k].direction => ~flips[k].is_frozen

BothSides ==
  \A p \in explored : \A k \in 1 .. Len(p) :
    (\E q \in explored : Turns(q, p, k)) \/ WillTurn(p, k)

Searching ==
  phase # "done" =>
    /\ Followed
    /\ FlipsOnScript
    /\ phase = "checked" => flip_index = Len(flips) /\ path \in explored
    /\ Economical
    /\ FrozenExplored

Counted ==
  /\ IsFiniteSet(explored)
  /\ number_of_paths = Cardinality(explored) - (IF phase = "checked" THEN 1 ELSE 0)

-----------------------------------------------------------------------------
(* Calls of the program.                                                   *)

LEMMA CallTypes ==
  ASSUME NEW op \in Ops, NEW g \in Condition, NEW t \in Nat, NEW b \in BOOLEAN
  PROVE  /\ Call(op) \in CallType
         /\ [Call(op) EXCEPT !.cond = g] \in CallType
         /\ [Call(op) EXCEPT !.thread = t] \in CallType
         /\ [Call(op) EXCEPT !.cond = g, !.hint = b] \in CallType
         /\ [Call(op) EXCEPT !.cond = g, !.hint = b].cond = g
         /\ [Call(op) EXCEPT !.cond = g, !.hint = b].op = op
         /\ [Call(op) EXCEPT !.cond = g].op = op
         /\ [Call(op) EXCEPT !.thread = t].op = op
         /\ Call(op).op = op
<1>1. Inputs \in Condition /\ 0 \in Nat
  BY DEF Condition
<1>2. ASSUME NEW f \in BOOLEAN
      PROVE  [op |-> op, cond |-> Inputs, thread |-> 0, hint |-> f] \in CallType
  BY <1>1 DEF CallType
<1>3. Call(op) \in CallType
  BY <1>2 DEF Call
<1> QED
  BY <1>3 DEF Call, CallType

LEMMA PlainCalls ==
  /\ Call("begin") \in CallType
  /\ Call("end") \in CallType
  /\ Call("barrier") \in CallType
  /\ Call("else") \in CallType
  /\ Call("endif") \in CallType
  /\ Call("exit") \in CallType
<1>1. ASSUME NEW op \in Ops
      PROVE  Call(op) \in CallType
  <2>1. Inputs \in Condition /\ 0 \in Nat /\ TRUE \in BOOLEAN
    BY DEF Condition
  <2> QED
    BY <2>1, CallTypes
<1>2. \A op \in {"begin", "end", "barrier", "else", "endif", "exit"} : op \in Ops
  BY DEF Ops
<1> QED
  BY <1>1, <1>2, Zenon

LEMMA CallsWith ==
  ASSUME NEW g \in Condition
  PROVE  [Call("then") EXCEPT !.cond = g] \in CallType /\ [Call("error") EXCEPT !.cond = g] \in CallType
<1>1. ASSUME NEW op \in Ops
      PROVE  [Call(op) EXCEPT !.cond = g] \in CallType
  <2>1. 0 \in Nat /\ TRUE \in BOOLEAN
    OBVIOUS
  <2> QED
    BY <2>1, CallTypes
<1>2. \A op \in {"then", "error"} : op \in Ops
  BY DEF Ops
<1> QED
  BY <1>1, <1>2, Zenon

(* The script of the current run after call c *)
LEMMA ScriptAfter ==
  ASSUME ScriptOK, path \in DOMAIN script, pos \in 0 .. Len(script[path]),
         NEW c \in CallType, IsNextCall(c), NEW made, made = ScriptWith(c)
  PROVE  /\ made \in [DOMAIN script -> Seq(CallType)]
         /\ DOMAIN made = DOMAIN script
         /\ \A p \in DOMAIN script : p # path => made[p] = script[p]
         /\ Len(made[path]) \in Nat /\ Len(script[path]) \in Nat /\ pos \in Nat
         /\ pos + 1 \in 1 .. Len(made[path])
         /\ made[path][pos + 1] = c
         /\ \A i \in 1 .. pos : made[path][i] = script[path][i]
         /\ \/ made = script
            \/ pos = Len(script[path]) /\ Len(made[path]) = pos + 1
         /\ \A p \in DOMAIN script : \A i \in 1 .. Len(made[p]) - 1 : ~Ends(made[p][i])
<1>1. script[path] \in Seq(CallType) /\ Len(script[path]) \in Nat /\ pos \in Nat /\ phase = "run"
  BY DEF ScriptOK, IsNextCall
<1>2. CASE pos < Len(script[path])
  <2>1. made = script /\ c = script[path][pos + 1]
    BY <1>2 DEF IsNextCall, ScriptWith
  <2> QED
    BY <1>1, <1>2, <2>1 DEF ScriptOK
<1>3. CASE pos = Len(script[path])
  <2>1. made = [script EXCEPT ![path] = Append(script[path], c)]
    BY <1>1, <1>3 DEF ScriptWith
  <2>2. /\ made \in [DOMAIN script -> Seq(CallType)]
        /\ made[path] = Append(script[path], c)
        /\ \A p \in DOMAIN script : p # path => made[p] = script[p]
    BY <1>1, <2>1 DEF ScriptOK
  <2>3. /\ Len(made[path]) = pos + 1
        /\ made[path][pos + 1] = c
        /\ \A i \in 1 .. pos : made[path][i] = script[path][i]
    BY <1>1, <1>3, <2>2
  <2>4. ASSUME NEW p \in DOMAIN script, NEW i \in 1 .. Len(made[p]) - 1
        PROVE  ~Ends(made[p][i])
    <3>1. CASE p = path
      <4>1. i \in 1 .. pos
        BY <1>1, <2>3, <3>1
      <4>2. ~Ends(script[path][i])
        BY <1>1, <4>1 DEF ScriptOK
      <4> QED
        BY <2>3, <3>1, <4>1, <4>2
    <3>2. CASE p # path
      BY <2>2, <3>2 DEF ScriptOK
    <3> QED
      BY <3>1, <3>2
  <2> QED
    BY <1>1, <1>3, <2>2, <2>3, <2>4
<1> QED
  BY <1>1, <1>2, <1>3

-----------------------------------------------------------------------------
(* Stacks.                                                                 *)

LEMMA LastAndFront ==
  ASSUME NEW S, NEW s \in Seq(S), s # << >>
  PROVE  /\ Len(s) \in Nat /\ Len(s) >= 1 /\ Len(s) \in 1 .. Len(s)
         /\ Last(s) = s[Len(s)]
         /\ Last(s) \in S
         /\ Front(s) \in Seq(S)
         /\ Len(Front(s)) = Len(s) - 1
         /\ \A i \in 1 .. Len(s) - 1 : Front(s)[i] = s[i]
<1>1. Len(s) \in Nat /\ Len(s) >= 1
  OBVIOUS
<1>2. Last(s) = s[Len(s)] /\ s[Len(s)] \in S
  BY <1>1 DEF Last
<1>3. ASSUME NEW n \in Nat, n = Len(s) - 1
      PROVE  /\ SubSeq(s, 1, n) \in Seq(S)
             /\ Len(SubSeq(s, 1, n)) = n
             /\ \A i \in 1 .. n : SubSeq(s, 1, n)[i] = s[i]
  <2>1. \A i \in 1 .. n : s[i] \in S
    BY <1>1, <1>3
  <2> QED
    BY <1>1, <1>3, <2>1
<1>4. Len(s) - 1 \in Nat /\ Len(s) \in 1 .. Len(s)
  BY <1>1
<1>5. Front(s) = SubSeq(s, 1, Len(s) - 1)
  BY DEF Front
<1> QED
  BY <1>1, <1>2, <1>3, <1>4, <1>5

LEMMA Appended ==
  ASSUME NEW S, NEW s \in Seq(S), NEW e \in S
  PROVE  /\ Append(s, e) \in Seq(S)
         /\ Len(s) \in Nat
         /\ Len(Append(s, e)) = Len(s) + 1
         /\ Append(s, e)[Len(s) + 1] = e
         /\ Last(Append(s, e)) = e
         /\ \A i \in 1 .. Len(s) : Append(s, e)[i] = s[i]
BY DEF Last

(* The frames the program is inside of *)
LEMMA NestType ==
  ASSUME TypeOK
  PROVE  /\ nest \in Seq(Frame)
         /\ Len(nest) \in Nat
         /\ \A i \in 1 .. Len(nest) : /\ nest[i] \in Frame
                                      /\ nest[i].kind \in {"thread", "then", "else"}
                                      /\ nest[i].cond \subseteq Inputs
                                      /\ nest[i].thread \in Nat
         /\ nest # << >> <=> Len(nest) >= 1
<1>1. nest \in Seq(Frame)
  BY DEF TypeOK
<1>2. \A i \in 1 .. Len(nest) : nest[i] \in Frame
  BY <1>1
<1> QED
  BY <1>1, <1>2 DEF Frame, Condition

(* The tracer's stacks *)
LEMMA TracerStacks ==
  ASSUME TypeOK
  PROVE  /\ scope_stack \in Seq(ThreadLocalScope) /\ scope_stack # << >>
         /\ Len(scope_stack) \in Nat /\ Len(scope_stack) >= 1
         /\ \A i \in 1 .. Len(scope_stack) :
              /\ scope_stack[i] \in ThreadLocalScope
              /\ scope_stack[i].guard \subseteq Inputs
              /\ scope_stack[i].guard_prime \subseteq Inputs
              /\ scope_stack[i].level \in Nat
         /\ thread_id_stack \in Seq(1 .. thread_id_cnt - 1) /\ thread_id_stack # << >>
         /\ Len(thread_id_stack) \in Nat /\ Len(thread_id_stack) >= 1
         /\ \A i \in 1 .. Len(thread_id_stack) :
              thread_id_stack[i] \in Nat /\ thread_id_stack[i] \in 1 .. thread_id_cnt - 1
         /\ thread_id_cnt \in Nat
<1>1. /\ scope_stack \in Seq(ThreadLocalScope) /\ scope_stack # << >>
      /\ thread_id_stack \in Seq(1 .. thread_id_cnt - 1) /\ thread_id_stack # << >>
      /\ thread_id_cnt \in Nat
  BY DEF TypeOK, TracerTypeOK
<1>2. \A i \in 1 .. Len(scope_stack) : scope_stack[i] \in ThreadLocalScope
  BY <1>1
<1>3. \A i \in 1 .. Len(thread_id_stack) : thread_id_stack[i] \in 1 .. thread_id_cnt - 1
  BY <1>1
<1> QED
  BY <1>1, <1>2, <1>3 DEF ThreadLocalScope, Condition

(* The scope that is closed last but one *)
LEMMA OuterScope ==
  ASSUME TypeOK, Len(scope_stack) >= 2
  PROVE  /\ Front(scope_stack) \in Seq(ThreadLocalScope) \ {<< >>}
         /\ Len(Front(scope_stack)) = Len(scope_stack) - 1
         /\ \A i \in 1 .. Len(scope_stack) - 1 : Front(scope_stack)[i] = scope_stack[i]
         /\ Last(Front(scope_stack)) = scope_stack[Len(scope_stack) - 1]
         /\ GuardOfScope(Last(Front(scope_stack))) \in Condition
         /\ Last(scope_stack).guard \in Condition
         /\ Last(scope_stack) = scope_stack[Len(scope_stack)]
<1>1. /\ Front(scope_stack) \in Seq(ThreadLocalScope)
      /\ Len(Front(scope_stack)) = Len(scope_stack) - 1
      /\ Last(scope_stack) = scope_stack[Len(scope_stack)]
      /\ Last(scope_stack) \in ThreadLocalScope
      /\ \A i \in 1 .. Len(scope_stack) - 1 : Front(scope_stack)[i] = scope_stack[i]
  BY TracerStacks, LastAndFront
<1>2. /\ Front(scope_stack) # << >> /\ Len(scope_stack) \in Nat
      /\ Len(scope_stack) - 1 \in 1 .. Len(scope_stack) - 1
  BY <1>1, TracerStacks
<1>3. /\ Last(Front(scope_stack)) = scope_stack[Len(scope_stack) - 1]
      /\ Last(Front(scope_stack)) \in ThreadLocalScope
  BY <1>1, <1>2, LastAndFront
<1>4. \A e \in ThreadLocalScope : e.guard \in Condition /\ GuardOfScope(e) \in Condition
  BY DEF ThreadLocalScope, GuardOfScope, Condition
<1> QED
  BY <1>1, <1>2, <1>3, <1>4

LEMMA CounterType ==
  ASSUME TypeOK
  PROVE  /\ thread_id_cnt \in Nat \ {0}
         /\ joinable \subseteq 2 .. thread_id_cnt - 1
         /\ branched \subseteq 1 .. thread_id_cnt - 1
         /\ Len(truth) = Len(events)
         /\ guards \in Condition /\ errors \in SUBSET Error
         /\ number_of_paths \in Nat /\ path_condition \in Condition
BY DEF TypeOK, TracerTypeOK

(* The running thread is on top of the tracer's stack. *)
LEMMA ThreadIsCurrent ==
  ASSUME TypeOK, ThreadsMatch
  PROVE  /\ Thread = current_thread_id
         /\ current_thread_id = thread_id_stack[Len(thread_id_stack)]
         /\ Thread \in Nat /\ Thread \in 1 .. thread_id_cnt - 1
         /\ OnStack(Thread)
         /\ nest # << >> /\ ~InScope => Thread > 1 /\ Len(thread_id_stack) >= 2
<1>1. PICK depth \in [0 .. Len(nest) -> 1 .. Len(thread_id_stack)] : InThreads(depth)
  BY DEF ThreadsMatch
<1>2. /\ current_thread_id = thread_id_stack[Len(thread_id_stack)]
      /\ Len(thread_id_stack) \in 1 .. Len(thread_id_stack)
  BY TracerStacks DEF current_thread_id, Last
<1>3. CASE nest = << >>
  <2>1. Thread = 1 /\ Len(nest) = 0
    BY <1>3 DEF Thread
  <2>2. Len(thread_id_stack) = 1
    BY <1>1, <2>1 DEF InThreads
  <2> QED
    BY <1>2, <1>3, <2>1, <2>2, TracerStacks DEF ThreadsMatch, OnStack
<1>4. CASE nest # << >>
  <2>1. Len(nest) \in 1 .. Len(nest) /\ Len(nest) - 1 \in 0 .. Len(nest)
    BY <1>4, NestType
  <2>2. Thread = nest[Len(nest)].thread /\ (~InScope => nest[Len(nest)].kind = "thread")
    BY <1>4 DEF Thread, Last, InScope
  <2>3. Thread = thread_id_stack[Len(thread_id_stack)]
    BY <1>1, <2>1, <2>2 DEF InThreads
  <2>4. ASSUME ~InScope
        PROVE  Len(thread_id_stack) >= 2
    BY <1>1, <2>1, <2>2, <2>4 DEF InThreads
  <2>5. ASSUME ~InScope
        PROVE  Thread > 1
    <3>1. 1 \in 1 .. Len(thread_id_stack) /\ 1 < Len(thread_id_stack)
      BY <2>4, <2>5, TracerStacks
    <3> QED
      BY <1>2, <2>3, <3>1 DEF ThreadsMatch
  <2> QED
    BY <1>2, <2>3, <2>4, <2>5, TracerStacks DEF OnStack
<1> QED
  BY <1>3, <1>4

LEMMA AppendedTwo ==
  ASSUME NEW S, NEW s \in Seq(S), NEW a \in S, NEW b \in S
  PROVE  /\ s \o <<a, b>> \in Seq(S)
         /\ Len(s) \in Nat
         /\ Len(s \o <<a, b>>) = Len(s) + 2
         /\ (s \o <<a, b>>)[Len(s) + 1] = a
         /\ (s \o <<a, b>>)[Len(s) + 2] = b
         /\ \A i \in 1 .. Len(s) : (s \o <<a, b>>)[i] = s[i]
OBVIOUS

-----------------------------------------------------------------------------
(* Type correctness.                                                       *)

LEMMA EventType ==
  ASSUME TypeOK, NEW kind \in Kind, NEW id \in Nat
  PROVE  /\ NewEvent(kind, id) \in Event
         /\ NewEvent(kind, id).event_id = id
         /\ NewEvent(kind, id).thread_id = current_thread_id
         /\ NewEvent(kind, id).guard = guard
<1>1. current_thread_id \in Nat /\ Last(scope_stack).level \in Nat
  BY TracerStacks, LastAndFront DEF current_thread_id, Last
<1>2. guard \in Condition /\ block_id_cnt \in Nat
  BY DEF TypeOK, TracerTypeOK
<1> QED
  BY <1>1, <1>2 DEF NewEvent, Event

LEMMA EventsTyped ==
  ASSUME TypeOK
  PROVE  /\ events \in Seq(Event) /\ Len(events) \in Nat /\ DOMAIN events = 1 .. Len(events)
         /\ \A i \in 1 .. Len(events) :
              /\ events[i] \in Event
              /\ events[i].event_id \in Nat /\ events[i].thread_id \in Nat
         /\ event_id_cnt \in Nat /\ block_id_cnt \in Nat /\ guard \in Condition
         /\ barrier_list \in Seq(Nat) /\ Len(barrier_list) \in Nat
         /\ \A n \in 1 .. Len(barrier_list) : barrier_list[n] \in Nat
<1>1. /\ events \in Seq(Event) /\ barrier_list \in Seq(Nat)
      /\ event_id_cnt \in Nat /\ block_id_cnt \in Nat /\ guard \in Condition
  BY DEF TypeOK, TracerTypeOK
<1>2. \A i \in 1 .. Len(events) : events[i] \in Event
  BY <1>1
<1> QED
  BY <1>1, <1>2, SMTT(40) DEF Event

(* The event that a join repeats *)
LEMMA JoinedEvent ==
  ASSUME TypeOK, Joinable, NEW t \in joinable
  PROVE  \E i \in 1 .. Len(events) :
            IsLast(i, t) /\ truth[i].sync = <<"end", t>> /\ LastEventOf(t) = events[i]
<1> DEFINE P(i) == /\ events[i].thread_id = t
                   /\ \A j \in DOMAIN events : events[j].thread_id = t => j <= i
<1> DEFINE n == CHOOSE i \in DOMAIN events : P(i)
<1>1. PICK i \in 1 .. Len(events) : IsLast(i, t) /\ truth[i].sync = <<"end", t>>
  BY EventsTyped DEF Joinable
<1>2. P(i) /\ i \in DOMAIN events /\ i \in Nat
  BY <1>1, EventsTyped DEF IsLast
<1>3. n \in DOMAIN events /\ P(n)
  BY <1>2
<1>4. n <= i /\ i <= n /\ n \in Nat
  BY <1>2, <1>3, EventsTyped, SMTT(40)
<1>5. n = i
  BY <1>2, <1>4
<1>6. LastEventOf(t) = events[n]
  BY DEF LastEventOf
<1> QED
  BY <1>1, <1>5, <1>6

BarrierNumber == BarriersOf(current_thread_id) + 1

(* What a barrier does to the list and to the map *)
LEMMA BarrierEffect ==
  ASSUME TypeOK, Barrier
  PROVE  /\ BarrierNumber \in 1 .. Len(barrier_list')
         /\ barrier_map' = [u \in DOMAIN barrier_map \union {current_thread_id} |->
                              IF u = current_thread_id THEN BarrierNumber ELSE barrier_map[u]]
         /\ barrier_map' \in [DOMAIN barrier_map' -> 1 .. Len(barrier_list')]
         /\ barrier_list' \in Seq(Nat)
         /\ events' = Append(events, NewEvent("barrier", barrier_list'[BarrierNumber]))
         /\ event_id_cnt' \in Nat /\ event_id_cnt <= event_id_cnt'
         /\ \/ UNCHANGED <<event_id_cnt, barrier_list>>
            \/ /\ BarrierNumber = Len(barrier_list) + 1
               /\ Len(barrier_list') = Len(barrier_list) + 1
               /\ barrier_list'[Len(barrier_list) + 1] = event_id_cnt
               /\ \A n \in 1 .. Len(barrier_list) : barrier_list'[n] = barrier_list[n]
               /\ event_id_cnt' = event_id_cnt + 1
<1> DEFINE t == current_thread_id
           n == IF t \in DOMAIN barrier_map THEN barrier_map[t] + 1 ELSE 1
<1>1. /\ barrier_map \in [DOMAIN barrier_map -> 1 .. Len(barrier_list)]
      /\ barrier_list \in Seq(Nat) /\ Len(barrier_list) \in Nat /\ event_id_cnt \in Nat
  BY EventsTyped DEF TypeOK, TracerTypeOK
<1>2. n = BarrierNumber
  BY <1>1 DEF BarrierNumber, BarriersOf
<1>3. BarrierNumber \in 1 .. Len(barrier_list) + 1
  BY <1>1 DEF BarrierNumber, BarriersOf
<1>4. /\ barrier_map' = [u \in DOMAIN barrier_map \union {t} |->
                           IF u = t THEN BarrierNumber ELSE barrier_map[u]]
      /\ IF BarrierNumber <= Len(barrier_list)
         THEN /\ events' = Append(events, NewEvent("barrier", barrier_list[BarrierNumber]))
              /\ UNCHANGED <<event_id_cnt, barrier_list>>
         ELSE /\ events' = Append(events, NewEvent("barrier", event_id_cnt))
              /\ barrier_list' = Append(barrier_list, event_id_cnt)
              /\ event_id_cnt' = event_id_cnt + 1
  BY <1>2 DEF Barrier
<1> HIDE DEF t, n
<1>5. CASE BarrierNumber <= Len(barrier_list)
  BY <1>1, <1>3, <1>4, <1>5 DEF t
<1>6. CASE ~(BarrierNumber <= Len(barrier_list))
  <2>1. BarrierNumber = Len(barrier_list) + 1
    BY <1>1, <1>3, <1>6
  <2>2. /\ barrier_list' = Append(barrier_list, event_id_cnt) /\ barrier_list' \in Seq(Nat)
        /\ Len(barrier_list') = Len(barrier_list) + 1
        /\ barrier_list'[Len(barrier_list) + 1] = event_id_cnt
        /\ \A m \in 1 .. Len(barrier_list) : barrier_list'[m] = barrier_list[m]
    BY <1>1, <1>4, <1>6, Appended, SMTT(40)
  <2>3. /\ event_id_cnt' = event_id_cnt + 1
        /\ events' = Append(events, NewEvent("barrier", barrier_list'[BarrierNumber]))
    BY <1>4, <1>6, <2>1, <2>2
  <2>4. barrier_map' \in [DOMAIN barrier_map' -> 1 .. Len(barrier_list')]
    BY <1>1, <1>3, <1>4, <2>2
  <2> QED
    BY <1>1, <1>3, <1>4, <2>1, <2>2, <2>3, <2>4 DEF t
<1> QED
  BY <1>5, <1>6

(* One more call in the script *)
LEMMA CallEffect ==
  ASSUME TypeOK, ScriptOK, NEW c \in CallType, Calls(c), path' = path
  PROVE  /\ phase = "run"
         /\ script' \in [DOMAIN script -> Seq(CallType)] /\ DOMAIN script' = DOMAIN script
         /\ pos' = pos + 1 /\ pos \in Nat
         /\ path' \in DOMAIN script' /\ pos' \in 0 .. Len(script'[path'])
         /\ explored \subseteq DOMAIN script'
         /\ Frame' = Frame
         /\ \A p \in DOMAIN script : Branches(p) => Branches(p)'
         /\ phase' # "run" \/ ~Ends(c) => ScriptOK'
<1>1. /\ path \in DOMAIN script /\ pos \in 0 .. Len(script[path]) /\ explored \subseteq DOMAIN script
      /\ IsNextCall(c) /\ script' = ScriptWith(c) /\ pos' = pos + 1 /\ phase = "run"
  BY DEF TypeOK, Calls, IsNextCall
<1>2. /\ script' \in [DOMAIN script -> Seq(CallType)] /\ DOMAIN script' = DOMAIN script
      /\ \A p \in DOMAIN script : p # path => script'[p] = script[p]
      /\ Len(script'[path]) \in Nat /\ Len(script[path]) \in Nat /\ pos \in Nat
      /\ pos + 1 \in 1 .. Len(script'[path])
      /\ script'[path][pos + 1] = c
      /\ \A i \in 1 .. pos : script'[path][i] = script[path][i]
      /\ \/ script' = script
         \/ pos = Len(script[path]) /\ Len(script'[path]) = pos + 1
      /\ \A p \in DOMAIN script : \A i \in 1 .. Len(script'[p]) - 1 : ~Ends(script'[p][i])
  BY <1>1, ScriptAfter
<1>3. Frame' = Frame
  BY <1>2 DEF Frame
<1>4. ASSUME NEW p \in DOMAIN script, Branches(p)
      PROVE  Branches(p)'
  <2>1. CASE script' = script
    BY <1>4, <2>1 DEF Branches
  <2>2. CASE p # path
    BY <1>2, <1>4, <2>2 DEF Branches
  <2>3. CASE p = path /\ pos = Len(script[path])
    <3>1. pos \in 1 .. pos /\ script[path][pos].op = "branch"
      BY <1>2, <1>4, <2>3 DEF Branches
    <3>2. ~Ends(script[path][pos])
      BY <1>1, <3>1 DEF ScriptOK
    <3> QED
      BY <3>1, <3>2 DEF Ends
  <2> QED
    BY <1>2, <2>1, <2>2, <2>3
<1>5. ASSUME phase' # "run" \/ ~Ends(c)
      PROVE  ScriptOK'
  <2>1. ASSUME phase' = "run", NEW i \in 1 .. pos'
        PROVE  ~Ends(script'[path'][i])
    <3>1. CASE i \in 1 .. pos
      BY <1>1, <1>2, <3>1 DEF ScriptOK
    <3>2. CASE i = pos + 1
      BY <1>2, <1>5, <2>1, <3>2
    <3> QED
      BY <1>1, <1>2, <3>1, <3>2
  <2> QED
    BY <1>2, <2>1 DEF ScriptOK
<1> QED
  BY <1>1, <1>2, <1>3, <1>4, <1>5

(* A branch, and the first call after it *)
LEMMA FollowEffect ==
  ASSUME TypeOK, ScriptOK, NEW c \in CallType, c.op = "branch", NEW d \in BOOLEAN, Follow(c, d),
         phase' = phase
  PROVE  /\ phase = "run"
         /\ script' \in [DOMAIN script' -> Seq(CallType)]
         /\ DOMAIN script' = DOMAIN script \union {path'}
         /\ path' = Append(path, d) /\ path \in Seq(BOOLEAN) /\ path' \in Seq(BOOLEAN)
         /\ path' \in DOMAIN script' /\ pos' \in 0 .. Len(script'[path'])
         /\ explored \subseteq DOMAIN script'
         /\ nest \in Seq(Frame')
         /\ \A p : p = path => Branches(p)'
         /\ \A p \in DOMAIN script : Branches(p) => Branches(p)'
         /\ pos < Len(script[path]) => script[path][pos + 1].op = "branch"
         /\ ScriptOK'
<1> DEFINE made == ScriptWith(c)
<1>1. /\ path \in DOMAIN script /\ pos \in 0 .. Len(script[path]) /\ explored \subseteq DOMAIN script
      /\ IsNextCall(c) /\ phase = "run" /\ path \in Seq(BOOLEAN)
      /\ path' = Append(path, d) /\ pos' = 0
      /\ script' = [p \in DOMAIN made \union {path'} |->
                      IF p \in DOMAIN made THEN made[p] ELSE << >>]
  BY DEF TypeOK, ScriptOK, Follow, IsNextCall
<1>2. /\ made \in [DOMAIN script -> Seq(CallType)] /\ DOMAIN made = DOMAIN script
      /\ \A p \in DOMAIN script : p # path => made[p] = script[p]
      /\ Len(made[path]) \in Nat /\ Len(script[path]) \in Nat /\ pos \in Nat
      /\ pos + 1 \in 1 .. Len(made[path])
      /\ made[path][pos + 1] = c
      /\ \/ made = script
         \/ pos = Len(script[path]) /\ Len(made[path]) = pos + 1
      /\ \A p \in DOMAIN script : \A i \in 1 .. Len(made[p]) - 1 : ~Ends(made[p][i])
  BY <1>1, ScriptAfter
<1> HIDE DEF made
<1>3. path' \in Seq(BOOLEAN)
  BY <1>1
<1>4. /\ DOMAIN script' = DOMAIN script \union {path'}
      /\ \A p \in DOMAIN script : script'[p] = made[p]
      /\ \A p \in DOMAIN script' : p \notin DOMAIN script => script'[p] = << >>
  BY <1>1, <1>2
<1>5. script' \in [DOMAIN script' -> Seq(CallType)]
  <2>1. << >> \in Seq(CallType)
    OBVIOUS
  <2>2. ASSUME NEW p \in DOMAIN script'
        PROVE  script'[p] \in Seq(CallType)
    BY <1>2, <1>4, <2>1
  <2> QED
    BY <1>1, <2>2
<1>6. pos' \in 0 .. Len(script'[path'])
  <2>1. script'[path'] \in Seq(CallType)
    BY <1>4, <1>5
  <2>2. Len(script'[path']) \in Nat
    BY <2>1
  <2> QED
    BY <1>1, <2>2
<1>7. nest \in Seq(Frame')
  <2>1. Frame \subseteq Frame'
    BY <1>4 DEF Frame
  <2>2. nest \in Seq(Frame)
    BY NestType
  <2> QED
    BY <2>1, <2>2
<1>8. Len(made[path]) = pos + 1
  <2>1. ~(pos + 1 \in 1 .. Len(made[path]) - 1)
    BY <1>1, <1>2 DEF Ends
  <2> QED
    BY <1>2, <2>1
<1>9. ASSUME NEW p, p = path
      PROVE  Branches(p)'
  <2>1. path \in DOMAIN script' /\ script'[path] = made[path]
    BY <1>1, <1>4
  <2>2. Len(script'[path]) > 0 /\ script'[path][Len(script'[path])].op = "branch"
    BY <1>2, <1>8, <2>1
  <2> QED
    BY <1>9, <2>1, <2>2 DEF Branches
<1>10. ASSUME NEW p \in DOMAIN script, Branches(p)
       PROVE  Branches(p)'
  <2>1. CASE p # path
    BY <1>2, <1>4, <1>10, <2>1 DEF Branches
  <2>2. CASE p = path
    <3>1. script'[p] = made[p] /\ p \in DOMAIN script' /\ Len(made[p]) > 0 /\ made[p][Len(made[p])].op = "branch"
      BY <1>2, <1>4, <1>8, <2>2
    <3> QED
      BY <3>1 DEF Branches
  <2> QED
    BY <2>1, <2>2
<1>11. ScriptOK'
  <2>1. ASSUME NEW p \in DOMAIN script', NEW i \in 1 .. Len(script'[p]) - 1
        PROVE  ~Ends(script'[p][i])
    <3>1. CASE p \in DOMAIN script
      BY <1>2, <1>4, <3>1
    <3>2. CASE p \notin DOMAIN script
      BY <1>4, <3>2
    <3> QED
      BY <3>1, <3>2
  <2>2. DOMAIN script' \subseteq Seq(BOOLEAN) /\ << >> \in DOMAIN script'
    BY <1>3, <1>4 DEF ScriptOK
  <2>3. 1 .. pos' = {}
    BY <1>1
  <2> QED
    BY <1>5, <2>1, <2>2, <2>3 DEF ScriptOK
<1>12. pos < Len(script[path]) => script[path][pos + 1].op = "branch"
  BY <1>1 DEF IsNextCall
<1> QED
  BY <1>1, <1>3, <1>4, <1>5, <1>6, <1>7, <1>9, <1>10, <1>11, <1>12

LEMMA TypeInit == Init => TypeOK
<1> SUFFICES ASSUME Init
             PROVE  TypeOK
  OBVIOUS
<1>1. Inputs \in Condition
  BY DEF Condition
<1>2. /\ DOMAIN script = {<< >>} /\ script[<< >>] = << >>
      /\ nest \in Seq(Frame) /\ events \in Seq(Event)
      /\ barrier_map \in [DOMAIN barrier_map -> 1 .. Len(barrier_list)]
  BY DEF Init, TracerInit
<1>3. <<OutermostScope(Inputs)>> \in Seq(ThreadLocalScope) \ {<< >>}
  BY <1>1 DEF OutermostScope, ThreadLocalScope
<1>4. TracerTypeOK
  BY <1>1, <1>2, <1>3 DEF Init, TracerInit, TracerTypeOK
<1>5. DfsTypeOK
  BY DEF Init, DfsInit, DfsTypeOK
<1> QED
  BY <1>1, <1>2, <1>4, <1>5 DEF Init, TracerInit, TypeOK

(* What no call but branch touches *)
LEMMA TypeStays ==
  ASSUME TypeOK, KeepsChecking
  PROVE  /\ DfsTypeOK'
         /\ number_of_paths' \in Nat
         /\ path' = path
         /\ phase' = phase /\ phase' \in {"run", "checked", "done"}
         /\ path_condition' \in Condition /\ path_condition' = path_condition
         /\ explored' = explored /\ branched' = branched
BY DEF TypeOK, DfsTypeOK, KeepsChecking, dfs_vars

LEMMA StatementKinds ==
  /\ \A kind \in Statements :
       kind \in Kind /\ kind \in {"write", "send"} /\ kind \in Ops
  /\ Inputs \in Condition
  /\ \A g \in Conditions["then"] : g \in Condition
  /\ \A g \in Conditions["branch"] : g \in Condition
  /\ \A g \in Conditions["error"] : g \in Condition
  /\ \A hint \in Hints : hint \in BOOLEAN
<1>1. ASSUME NEW kind \in Statements
      PROVE  kind \in Kind /\ kind \in {"write", "send"} /\ kind \in Ops
  <2>1. kind \in {"write", "send"}
    BY DfsCheckerAssumption
  <2> QED
    BY <2>1 DEF Kind, Ops
<1>2. \A op \in {"then", "branch", "error"} : Conditions[op] \subseteq Condition
  BY DfsCheckerAssumption
<1>3. Hints \subseteq BOOLEAN /\ Inputs \in Condition
  BY DfsCheckerAssumption DEF Condition
<1> QED
  BY <1>1, <1>2, <1>3

(* An event is appended under a new identifier or one that is in use. *)
LEMMA TypeEvent ==
  ASSUME TypeOK, NEW kind \in Kind, NEW id \in Nat,
         events' = Append(events, NewEvent(kind, id)), event_id_cnt' \in Nat,
         UNCHANGED <<thread_id_cnt, block_id_cnt, thread_id_stack, scope_stack, guard>>,
         barrier_list' \in Seq(Nat), barrier_map' \in [DOMAIN barrier_map' -> 1 .. Len(barrier_list')]
  PROVE  TracerTypeOK' /\ Len(events') = Len(events) + 1
<1>1. NewEvent(kind, id) \in Event
  BY EventType
<1>2. events' \in Seq(Event) /\ Len(events') = Len(events) + 1
  BY <1>1, Appended DEF TypeOK, TracerTypeOK
<1> QED
  BY <1>2 DEF TypeOK, TracerTypeOK

(* The barriers do not change. *)
LEMMA SameBarriers ==
  ASSUME TypeOK, UNCHANGED <<barrier_list, barrier_map>>
  PROVE  /\ barrier_list' \in Seq(Nat)
         /\ barrier_map' \in [DOMAIN barrier_map' -> 1 .. Len(barrier_list')]
BY DEF TypeOK, TracerTypeOK

LEMMA OneMoreTruth ==
  ASSUME TypeOK, TruthOK, NEW e, truth' = Append(truth, e)
  PROVE  /\ Len(truth') = Len(truth) + 1
         /\ Len(truth) \in Nat
         /\ truth'[Len(truth) + 1] = e
         /\ \A i \in 1 .. Len(truth) : truth'[i] = truth[i]
<1>1. PICK S : truth \in Seq(TruthIn(S))
  BY DEF TruthOK
<1> QED
  BY <1>1

LEMMA TypeStatement ==
  ASSUME TypeOK, ScriptOK, TruthOK, NEW kind \in Statements, Statement(kind)
  PROVE  TypeOK'
<1>1. /\ Call(kind) \in CallType /\ kind \in Kind
  BY StatementKinds, CallTypes DEF Condition
<1>2. /\ Calls(Call(kind)) /\ AppendEvent(kind) /\ KeepsChecking
      /\ truth' = Append(truth, Happens(<<"alone", Len(truth)>>))
      /\ UNCHANGED <<nest, joinable, guards, errors>>
  BY DEF Statement
<1>3. event_id_cnt \in Nat /\ event_id_cnt' \in Nat
  BY <1>2, EventsTyped DEF AppendEvent
<1>4. TracerTypeOK' /\ Len(events') = Len(events) + 1
  BY <1>1, <1>2, <1>3, SameBarriers, TypeEvent DEF AppendEvent
<1>5. Len(truth') = Len(events')
  BY <1>2, <1>4, OneMoreTruth DEF TypeOK
<1> QED
  BY <1>1, <1>2, <1>4, <1>5, CallEffect, TypeStays DEF TypeOK, AppendEvent

(* Numbers of threads and barriers are those of the tracer. *)
LEMMA NumbersMatch ==
  ASSUME TypeOK, ThreadsMatch, Numbered
  PROVE  /\ NextThread = thread_id_cnt
         /\ NextBarrier = BarrierNumber
<1>1. Cardinality(Starts) \in Nat /\ Thread \in Nat /\ Thread = current_thread_id
  BY FS_CardinalityType, ThreadIsCurrent DEF Numbered
<1>2. NextThread = thread_id_cnt
  BY <1>1 DEF NextThread, Starts, Numbered
<1>3. IsFiniteSet(Barriers(Thread)) /\ BarriersOf(Thread) = Cardinality(Barriers(Thread))
  BY <1>1 DEF Numbered
<1>4. NextBarrier = 1 + Cardinality(Barriers(Thread))
  BY DEF NextBarrier, Barriers
<1>5. Cardinality(Barriers(Thread)) \in Nat
  BY <1>3, FS_CardinalityType
<1> QED
  BY <1>1, <1>2, <1>3, <1>4, <1>5 DEF BarrierNumber

(* A frame for what encloses the program from the next call on *)
LEMMA FrameType ==
  ASSUME TypeOK, NEW kind \in {"thread", "then", "else"}, NEW g \in Condition, NEW t \in Nat
  PROVE  /\ Within(kind, g, t) \in Seq(Frame)
         /\ Len(Within(kind, g, t)) = Len(nest) + 1
         /\ Last(Within(kind, g, t)) = Within(kind, g, t)[Len(nest) + 1]
         /\ Within(kind, g, t)[Len(nest) + 1].kind = kind
         /\ Within(kind, g, t)[Len(nest) + 1].cond = g
         /\ Within(kind, g, t)[Len(nest) + 1].thread = t
         /\ \A i \in 1 .. Len(nest) : Within(kind, g, t)[i] = nest[i]
<1> DEFINE f == [kind |-> kind, cond |-> g, thread |-> t, site |-> <<path, pos>>]
<1>1. path \in DOMAIN script /\ pos \in 0 .. Len(script[path])
  BY DEF TypeOK
<1>2. pos \in Nat
  BY <1>1
<1>3. f \in Frame
  BY <1>1, <1>2 DEF Frame
<1>4. f.kind = kind /\ f.cond = g /\ f.thread = t
  OBVIOUS
<1>5. Within(kind, g, t) = Append(nest, f)
  BY DEF Within
<1> HIDE DEF f
<1>6. nest \in Seq(Frame)
  BY NestType
<1> QED
  BY <1>3, <1>4, <1>5, <1>6, Appended

LEMMA TypeThreadBegin ==
  ASSUME TypeOK, ScriptOK, ThreadsMatch, Numbered, ThreadBegin
  PROVE  TypeOK'
<1>1. /\ Call("begin") \in CallType /\ Calls(Call("begin")) /\ KeepsChecking
      /\ AppendThreadBegin /\ UNCHANGED <<joinable, guards, errors>>
      /\ nest' = Within("thread", Inputs, thread_id_cnt)
  <2>1. Call("begin") \in CallType
    BY PlainCalls
  <2> QED
    BY <2>1, NumbersMatch DEF ThreadBegin, BeginThread
<1>2. Inputs \in Condition /\ thread_id_cnt \in Nat /\ "thread" \in {"thread", "then", "else"}
  BY StatementKinds, TracerStacks
<1>3. nest' \in Seq(Frame)
  BY <1>1, <1>2, FrameType
<1>4. /\ events' \in Seq(Event)
      /\ Len(events') = Len(events) + 2
  <2> DEFINE e == NewEvent("thread_begin", event_id_cnt)
             c == [kind |-> "thread_begin", event_id |-> event_id_cnt,
                   thread_id |-> thread_id_cnt, block_id |-> block_id_cnt,
                   scope_level |-> 0, guard |-> Inputs]
  <2>1. "thread_begin" \in Kind /\ event_id_cnt \in Nat /\ block_id_cnt \in Nat
    BY EventsTyped DEF Kind, TypeOK, TracerTypeOK
  <2>2. e \in Event
    BY <2>1, EventType
  <2>3. c \in Event
    BY <1>2, <2>1 DEF Event
  <2>4. events' = events \o <<e, c>>
    BY <1>1 DEF AppendThreadBegin
  <2> HIDE DEF e, c
  <2> QED
    BY <2>2, <2>3, <2>4, EventsTyped, AppendedTwo
<1>5. Len(truth') = Len(truth) + 2
  BY DEF ThreadBegin, BeginThread, TypeOK
<1>6. scope_stack' \in Seq(ThreadLocalScope) \ {<< >>}
  <2>1. OutermostScope(Inputs) \in ThreadLocalScope
    BY <1>2 DEF OutermostScope, ThreadLocalScope
  <2>2. scope_stack' = Append(scope_stack, OutermostScope(Inputs))
    BY <1>1 DEF AppendThreadBegin
  <2> QED
    BY <2>1, <2>2, TracerStacks
<1>7. /\ thread_id_stack' \in Seq(1 .. thread_id_cnt' - 1) \ {<< >>}
      /\ thread_id_cnt' = thread_id_cnt + 1 /\ thread_id_cnt' \in Nat \ {0}
  <2>1. thread_id_cnt' = thread_id_cnt + 1 /\ thread_id_stack' = Append(thread_id_stack, thread_id_cnt)
    BY <1>1 DEF AppendThreadBegin
  <2>2. thread_id_cnt \in Nat /\ thread_id_cnt >= 1
    BY DEF TypeOK, TracerTypeOK
  <2>3. ASSUME NEW S, S = 1 .. thread_id_cnt' - 1
        PROVE  thread_id_cnt \in S /\ thread_id_stack \in Seq(S)
    <3>1. 1 .. thread_id_cnt - 1 \subseteq S /\ thread_id_cnt \in S
      BY <2>1, <2>2, <2>3
    <3> QED
      BY <3>1, TracerStacks, SMTT(40)
  <2>4. thread_id_stack' \in Seq(1 .. thread_id_cnt' - 1) /\ thread_id_stack' # << >>
    BY <2>1, <2>3
  <2> QED
    BY <2>1, <2>2, <2>4
<1>8. TracerTypeOK'
  <2>1. /\ guard' = Inputs /\ event_id_cnt' = event_id_cnt + 1 /\ block_id_cnt' = block_id_cnt
        /\ UNCHANGED <<barrier_list, barrier_map>>
    BY <1>1 DEF AppendThreadBegin
  <2>2. guard' \in Condition /\ event_id_cnt' \in Nat /\ block_id_cnt' \in Nat
    BY <1>2, <2>1, EventsTyped
  <2>3. /\ barrier_list' \in Seq(Nat)
        /\ barrier_map' \in [DOMAIN barrier_map' -> 1 .. Len(barrier_list')]
    BY <2>1, SameBarriers
  <2> QED
    BY <1>4, <1>6, <1>7, <2>2, <2>3 DEF TracerTypeOK
<1>9. joinable' \subseteq 2 .. thread_id_cnt' - 1 /\ branched' \subseteq 1 .. thread_id_cnt' - 1
  <2>1. joinable \subseteq 2 .. thread_id_cnt - 1 /\ branched \subseteq 1 .. thread_id_cnt - 1
    BY CounterType
  <2>2. joinable' = joinable /\ branched' = branched
    BY <1>1, TypeStays
  <2> QED
    BY <1>2, <1>7, <2>1, <2>2
<1>10. Len(truth') = Len(events')
  BY <1>4, <1>5 DEF TypeOK
<1> QED
  BY <1>1, <1>3, <1>8, <1>9, <1>10, CallEffect, TypeStays DEF TypeOK

LEMMA TypeThreadEnd ==
  ASSUME TypeOK, ScriptOK, ThreadsMatch, ScopesMatch, TruthOK, ThreadEnd
  PROVE  TypeOK'
<1>1. /\ Calls(Call("end")) /\ KeepsChecking /\ AppendThreadEnd
      /\ nest # << >> /\ ~InScope /\ nest' = Front(nest)
      /\ joinable' = joinable \union {current_thread_id}
      /\ truth' = Append(truth, Happens(<<"end", Thread>>))
      /\ UNCHANGED <<guards, errors>>
  BY DEF ThreadEnd
<1>2. Call("end") \in CallType /\ "thread_end" \in Kind
  BY PlainCalls DEF Kind
<1>3. nest' \in Seq(Frame)
  BY <1>1, NestType, LastAndFront
<1>4. /\ events' = Append(events, NewEvent("thread_end", event_id_cnt))
      /\ event_id_cnt' = event_id_cnt + 1
      /\ thread_id_stack' = Front(thread_id_stack)
      /\ scope_stack' = Front(scope_stack)
      /\ guard' = GuardOfScope(Last(Front(scope_stack)))
      /\ UNCHANGED <<thread_id_cnt, block_id_cnt, barrier_list, barrier_map>>
  BY <1>1 DEF AppendThreadEnd
<1>5. NewEvent("thread_end", event_id_cnt) \in Event
  BY <1>2, EventsTyped, EventType
<1>6. events' \in Seq(Event) /\ Len(events') = Len(events) + 1
  BY <1>4, <1>5, EventsTyped, Appended
<1>7. thread_id_stack' \in Seq(1 .. thread_id_cnt' - 1) \ {<< >>}
  <2>1. Len(thread_id_stack) >= 2 /\ thread_id_cnt' = thread_id_cnt
    BY <1>1, <1>4, ThreadIsCurrent
  <2>2. ASSUME NEW S, S = 1 .. thread_id_cnt - 1
        PROVE  Front(thread_id_stack) \in Seq(S) /\ Front(thread_id_stack) # << >>
    <3>1. thread_id_stack \in Seq(S) /\ thread_id_stack # << >>
      BY <2>2, TracerStacks
    <3>2. Front(thread_id_stack) \in Seq(S) /\ Len(Front(thread_id_stack)) = Len(thread_id_stack) - 1
      BY <3>1, LastAndFront
    <3> QED
      BY <2>1, <3>2, TracerStacks
  <2> QED
    BY <1>4, <2>1, <2>2
<1>8. scope_stack' \in Seq(ThreadLocalScope) \ {<< >>} /\ guard' \in Condition
  <2>1. Len(scope_stack) >= 2
    BY <1>1, NestType DEF ScopesMatch
  <2> QED
    BY <1>4, <2>1, OuterScope
<1>9. TracerTypeOK'
  <2>1. event_id_cnt' \in Nat /\ block_id_cnt' \in Nat /\ thread_id_cnt' \in Nat \ {0}
    BY <1>4, EventsTyped, CounterType
  <2> QED
    BY <1>4, <1>6, <1>7, <1>8, <2>1, SameBarriers DEF TracerTypeOK
<1>10. joinable' \subseteq 2 .. thread_id_cnt' - 1 /\ branched' \subseteq 1 .. thread_id_cnt' - 1
  <2>1. /\ joinable \subseteq 2 .. thread_id_cnt - 1 /\ branched \subseteq 1 .. thread_id_cnt - 1
        /\ current_thread_id \in 2 .. thread_id_cnt - 1
    BY <1>1, ThreadIsCurrent, CounterType
  <2>2. branched' = branched
    BY <1>1, TypeStays
  <2> QED
    BY <1>1, <1>4, <2>1, <2>2
<1>11. Len(truth') = Len(events')
  BY <1>1, <1>6, OneMoreTruth, CounterType
<1> QED
  BY <1>1, <1>2, <1>3, <1>9, <1>10, <1>11, CallEffect, TypeStays DEF TypeOK

LEMMA TypeJoin ==
  ASSUME TypeOK, ScriptOK, TruthOK, Joinable, Join
  PROVE  TypeOK'
<1>1. PICK t \in joinable :
        /\ Calls([Call("join") EXCEPT !.thread = t])
        /\ AppendJoin(t)
        /\ joinable' = joinable \ {t}
        /\ truth' = Append(truth, Happens(<<"end", t>>))
  BY DEF Join
<1>2. KeepsChecking /\ UNCHANGED <<nest, guards, errors>>
  BY DEF Join
<1>3. t \in Nat
  BY CounterType
<1>4. [Call("join") EXCEPT !.thread = t] \in CallType /\ "thread_end" \in Kind
  <2>1. "join" \in Ops /\ "thread_end" \in Kind /\ Inputs \in Condition
    BY StatementKinds DEF Ops, Kind
  <2> QED
    BY <1>3, <2>1, CallTypes
<1>5. LastEventOf(t).event_id \in Nat
  BY JoinedEvent, EventsTyped
<1>6. /\ events' = Append(events, NewEvent("thread_end", LastEventOf(t).event_id))
      /\ UNCHANGED <<event_id_cnt, thread_id_cnt, block_id_cnt, thread_id_stack, scope_stack,
                     guard, barrier_list, barrier_map>>
  BY <1>1 DEF AppendJoin
<1>7. TracerTypeOK' /\ Len(events') = Len(events) + 1
  BY <1>4, <1>5, <1>6, EventsTyped, SameBarriers, TypeEvent
<1>8. Len(truth') = Len(events')
  BY <1>1, <1>7, OneMoreTruth, CounterType
<1>9. joinable' \subseteq 2 .. thread_id_cnt' - 1 /\ branched' \subseteq 1 .. thread_id_cnt' - 1
  BY <1>1, <1>2, <1>6, TypeStays, CounterType
<1> QED
  BY <1>1, <1>2, <1>4, <1>7, <1>8, <1>9, CallEffect, TypeStays DEF TypeOK

LEMMA TypeBarrier ==
  ASSUME TypeOK, ScriptOK, TruthOK, CallBarrier
  PROVE  TypeOK'
<1>1. /\ Calls(Call("barrier")) /\ Barrier /\ KeepsChecking
      /\ truth' = Append(truth, Happens(<<"barrier", NextBarrier>>))
      /\ UNCHANGED <<nest, joinable, guards, errors>>
  BY DEF CallBarrier
<1>2. Call("barrier") \in CallType /\ "barrier" \in Kind
  BY PlainCalls DEF Kind
<1>3. /\ barrier_map' \in [DOMAIN barrier_map' -> 1 .. Len(barrier_list')]
      /\ barrier_list' \in Seq(Nat) /\ event_id_cnt' \in Nat
      /\ barrier_list'[BarrierNumber] \in Nat
      /\ events' = Append(events, NewEvent("barrier", barrier_list'[BarrierNumber]))
  BY <1>1, BarrierEffect
<1>4. UNCHANGED <<thread_id_cnt, block_id_cnt, thread_id_stack, scope_stack, guard>>
  BY <1>1 DEF Barrier
<1>5. TracerTypeOK' /\ Len(events') = Len(events) + 1
  BY <1>2, <1>3, <1>4, TypeEvent
<1>6. Len(truth') = Len(events')
  BY <1>1, <1>5, OneMoreTruth, CounterType
<1>7. joinable' \subseteq 2 .. thread_id_cnt' - 1 /\ branched' \subseteq 1 .. thread_id_cnt' - 1
  BY <1>1, <1>4, TypeStays, CounterType
<1> QED
  BY <1>1, <1>2, <1>5, <1>6, <1>7, CallEffect, TypeStays DEF TypeOK

(* Calls that move between scopes *)
LEMMA TypeScope ==
  ASSUME TypeOK, ScriptOK, NEW c \in CallType, Calls(c), ScopeOnly,
         nest' \in Seq(Frame), scope_stack' \in Seq(ThreadLocalScope) \ {<< >>},
         guard' \in Condition, guards' \in Condition, block_id_cnt' \in Nat,
         UNCHANGED <<event_id_cnt, thread_id_cnt, events, thread_id_stack, barrier_list,
                     barrier_map>>
  PROVE  TypeOK'
<1>1. KeepsChecking /\ UNCHANGED <<truth, joinable, errors>>
  BY DEF ScopeOnly
<1>2. TracerTypeOK'
  <2>1. TracerTypeOK
    BY DEF TypeOK
  <2> QED
    BY <2>1 DEF TracerTypeOK
<1>3. joinable' \subseteq 2 .. thread_id_cnt' - 1 /\ branched' \subseteq 1 .. thread_id_cnt' - 1
  BY <1>1, TypeStays, CounterType
<1>4. Len(truth') = Len(events') /\ errors' \in SUBSET Error
  BY <1>1, CounterType
<1> QED
  BY <1>1, <1>2, <1>3, <1>4, CallEffect, TypeStays DEF TypeOK

LEMMA ThreadType ==
  ASSUME TypeOK
  PROVE  Thread \in Nat
<1>1. CASE nest = << >>
  BY <1>1 DEF Thread
<1>2. CASE nest # << >>
  BY <1>2, NestType, LastAndFront DEF Thread
<1> QED
  BY <1>1, <1>2

LEMMA TypeScopeThen ==
  ASSUME TypeOK, ScriptOK, CallScopeThen
  PROVE  TypeOK'
<1>1. PICK g \in Conditions["then"] :
        /\ Calls([Call("then") EXCEPT !.cond = g])
        /\ ScopeThen(g)
        /\ nest' = Within("then", g, Thread)
  BY DEF CallScopeThen
<1>2. ScopeOnly /\ guards' = guard'
  BY DEF CallScopeThen, SetGuards
<1>3. g \in Condition /\ [Call("then") EXCEPT !.cond = g] \in CallType
  BY CallsWith, StatementKinds
<1>4. nest' \in Seq(Frame)
  BY <1>1, <1>3, ThreadType, FrameType
<1>5. /\ scope_stack' = Append(scope_stack, [guard |-> guard, guard_prime |-> g,
                                             level |-> Last(scope_stack).level + 1])
      /\ guard' = guard \intersect g
      /\ block_id_cnt' = block_id_cnt + 1
      /\ UNCHANGED <<event_id_cnt, thread_id_cnt, events, thread_id_stack, barrier_list,
                     barrier_map>>
  BY <1>1 DEF ScopeThen
<1>6. guard' \in Condition /\ block_id_cnt' \in Nat
  BY <1>3, <1>5, EventsTyped DEF Condition
<1>7. scope_stack' \in Seq(ThreadLocalScope) \ {<< >>}
  <2> DEFINE e == [guard |-> guard, guard_prime |-> g, level |-> Last(scope_stack).level + 1]
  <2>1. Last(scope_stack).level \in Nat
    BY TracerStacks, LastAndFront
  <2>2. e \in ThreadLocalScope
    BY <1>3, <2>1, EventsTyped DEF ThreadLocalScope
  <2>3. scope_stack' = Append(scope_stack, e)
    BY <1>5
  <2> HIDE DEF e
  <2> QED
    BY <2>2, <2>3, TracerStacks
<1> QED
  BY <1>1, <1>2, <1>3, <1>4, <1>5, <1>6, <1>7, TypeScope

(* The scope the program is on the then-side of *)
LEMMA ElseFrame ==
  ASSUME TypeOK, nest # << >>,
         nest' = Append(Front(nest), [Last(nest) EXCEPT !.kind = "else", !.cond = Inputs \ @])
  PROVE  /\ nest' \in Seq(Frame)
         /\ Len(nest') = Len(nest)
         /\ \A i \in 1 .. Len(nest) - 1 : nest'[i] = nest[i]
         /\ nest'[Len(nest)].kind = "else"
         /\ nest'[Len(nest)].cond = Inputs \ nest[Len(nest)].cond
         /\ nest'[Len(nest)].thread = nest[Len(nest)].thread
<1> DEFINE f == [Last(nest) EXCEPT !.kind = "else", !.cond = Inputs \ @]
<1>1. /\ nest \in Seq(Frame) /\ Len(nest) \in Nat /\ Len(nest) >= 1
      /\ Last(nest) \in Frame /\ Last(nest) = nest[Len(nest)]
      /\ Front(nest) \in Seq(Frame) /\ Len(Front(nest)) = Len(nest) - 1
      /\ \A i \in 1 .. Len(nest) - 1 : Front(nest)[i] = nest[i]
  BY NestType, LastAndFront
<1>2. /\ f \in Frame /\ f.kind = "else" /\ f.cond = Inputs \ Last(nest).cond
      /\ f.thread = Last(nest).thread
  BY <1>1 DEF Frame, Condition
<1>3. nest' = Append(Front(nest), f)
  OBVIOUS
<1> HIDE DEF f
<1>4. /\ nest' \in Seq(Frame)
      /\ Len(nest') = Len(Front(nest)) + 1
      /\ nest'[Len(Front(nest)) + 1] = f
      /\ \A i \in 1 .. Len(Front(nest)) : nest'[i] = Front(nest)[i]
  BY <1>1, <1>2, <1>3, Appended
<1>5. Len(Front(nest)) + 1 = Len(nest)
  BY <1>1
<1> QED
  BY <1>1, <1>2, <1>4, <1>5

(* The scope that the guard is set from in the else-branch *)
LEMMA ElseScope ==
  ASSUME TypeOK, ScopeElse
  PROVE  /\ scope_stack' \in Seq(ThreadLocalScope) \ {<< >>}
         /\ Len(scope_stack') = Len(scope_stack)
         /\ \A i \in 1 .. Len(scope_stack) - 1 : scope_stack'[i] = scope_stack[i]
         /\ scope_stack'[Len(scope_stack)].guard = scope_stack[Len(scope_stack)].guard
         /\ scope_stack'[Len(scope_stack)].guard_prime =
              Inputs \ scope_stack[Len(scope_stack)].guard_prime
         /\ guard' = GuardOfScope(scope_stack'[Len(scope_stack)])
         /\ guard' \in Condition
         /\ block_id_cnt' \in Nat
         /\ UNCHANGED <<event_id_cnt, thread_id_cnt, events, thread_id_stack, barrier_list,
                        barrier_map>>
<1> DEFINE scope == [Last(scope_stack) EXCEPT !.guard_prime = OtherSide(@)]
<1>1. /\ Len(scope_stack) \in Nat /\ Len(scope_stack) >= 1
      /\ Last(scope_stack) \in ThreadLocalScope /\ Last(scope_stack) = scope_stack[Len(scope_stack)]
      /\ Front(scope_stack) \in Seq(ThreadLocalScope) /\ Len(Front(scope_stack)) = Len(scope_stack) - 1
      /\ \A i \in 1 .. Len(scope_stack) - 1 : Front(scope_stack)[i] = scope_stack[i]
  BY TracerStacks, LastAndFront
<1>2. /\ scope \in ThreadLocalScope /\ scope.guard = Last(scope_stack).guard
      /\ scope.guard_prime = Inputs \ Last(scope_stack).guard_prime
      /\ GuardOfScope(scope) \in Condition
  BY <1>1 DEF ThreadLocalScope, Condition, OtherSide, GuardOfScope
<1>3. /\ scope_stack' = Append(Front(scope_stack), scope)
      /\ guard' = GuardOfScope(scope)
      /\ block_id_cnt' = block_id_cnt + 1
      /\ UNCHANGED <<event_id_cnt, thread_id_cnt, events, thread_id_stack, barrier_list,
                     barrier_map>>
  BY DEF ScopeElse, GuardOfScope
<1> HIDE DEF scope
<1>4. /\ scope_stack' \in Seq(ThreadLocalScope)
      /\ Len(scope_stack') = Len(Front(scope_stack)) + 1
      /\ scope_stack'[Len(Front(scope_stack)) + 1] = scope
      /\ \A i \in 1 .. Len(Front(scope_stack)) : scope_stack'[i] = Front(scope_stack)[i]
  BY <1>1, <1>2, <1>3, Appended
<1>5. Len(Front(scope_stack)) + 1 = Len(scope_stack) /\ scope_stack' # << >>
  BY <1>1, <1>4
<1> QED
  BY <1>1, <1>2, <1>3, <1>4, <1>5, EventsTyped, SMTT(40)

LEMMA TypeScopeElse ==
  ASSUME TypeOK, ScriptOK, CallScopeElse
  PROVE  TypeOK'
<1>1. /\ Calls(Call("else")) /\ ScopeElse /\ nest # << >>
      /\ nest' = Append(Front(nest), [Last(nest) EXCEPT !.kind = "else", !.cond = Inputs \ @])
      /\ guards' = guard' /\ ScopeOnly
  BY DEF CallScopeElse, SetGuards
<1>2. Call("else") \in CallType
  BY PlainCalls
<1> QED
  BY <1>1, <1>2, ElseFrame, ElseScope, TypeScope

LEMMA TypeScopeEnd ==
  ASSUME TypeOK, ScriptOK, ScopesMatch, CallScopeEnd
  PROVE  TypeOK'
<1>1. /\ Calls(Call("endif")) /\ ScopeEnd /\ nest # << >> /\ nest' = Front(nest)
      /\ guards' = guard' /\ ScopeOnly
  BY DEF CallScopeEnd, SetGuards, InScope
<1>2. Call("endif") \in CallType
  BY PlainCalls
<1>3. nest' \in Seq(Frame)
  BY <1>1, NestType, LastAndFront
<1>4. Len(scope_stack) >= 2
  BY <1>1, NestType DEF ScopesMatch
<1>5. /\ guard' = Last(scope_stack).guard /\ scope_stack' = Front(scope_stack)
      /\ UNCHANGED <<event_id_cnt, thread_id_cnt, block_id_cnt, events, thread_id_stack,
                     barrier_list, barrier_map>>
  BY <1>1 DEF ScopeEnd
<1> QED
  BY <1>1, <1>2, <1>3, <1>4, <1>5, OuterScope, EventsTyped, TypeScope

LEMMA ReachType ==
  ASSUME TypeOK
  PROVE  Reach \in Condition /\ Reach \subseteq path_condition
BY CounterType DEF Reach, Condition

LEMMA TypeAddError ==
  ASSUME TypeOK, ScriptOK, AddError
  PROVE  TypeOK'
<1>1. PICK g \in Conditions["error"] :
        /\ Calls([Call("error") EXCEPT !.cond = g])
        /\ errors' = errors \union {[meaning |-> guards \intersect g,
                                     reach |-> Reach \intersect g]}
  BY DEF AddError
<1>2. KeepsChecking /\ UNCHANGED <<tracer_vars, nest, joinable, truth, guards>>
  BY DEF AddError
<1>3. g \in Condition /\ [Call("error") EXCEPT !.cond = g] \in CallType
  BY CallsWith, StatementKinds
<1>4. errors' \in SUBSET Error
  <2>1. guards \intersect g \in Condition /\ Reach \intersect g \in Condition
    BY <1>3, ReachType, CounterType DEF Condition
  <2>2. [meaning |-> guards \intersect g, reach |-> Reach \intersect g] \in Error
    BY <2>1 DEF Error
  <2> QED
    BY <1>1, <2>2, CounterType
<1>5. TracerTypeOK' /\ Len(events') = Len(events)
  <2>1. TracerTypeOK
    BY DEF TypeOK
  <2> QED
    BY <1>2, <2>1 DEF TracerTypeOK, tracer_vars
<1>6. /\ joinable' \subseteq 2 .. thread_id_cnt' - 1 /\ branched' \subseteq 1 .. thread_id_cnt' - 1
      /\ Len(truth') = Len(events')
  BY <1>2, <1>5, TypeStays, CounterType DEF tracer_vars
<1> QED
  BY <1>1, <1>2, <1>3, <1>4, <1>5, <1>6, CallEffect, TypeStays DEF TypeOK

LEMMA SideType ==
  ASSUME NEW g \in Condition, NEW d \in BOOLEAN
  PROVE  Side(g, d) \in Condition
BY DEF Side, Condition

(* What add_guard does to the scope it is called in *)
LEMMA GuardAdded ==
  ASSUME TypeOK, NEW g \in Condition, TracerAddGuard(g)
  PROVE  /\ scope_stack' \in Seq(ThreadLocalScope) \ {<< >>}
         /\ Len(scope_stack') = Len(scope_stack)
         /\ \A i \in 1 .. Len(scope_stack) - 1 : scope_stack'[i] = scope_stack[i]
         /\ scope_stack'[Len(scope_stack)].guard = guard \intersect g
         /\ scope_stack'[Len(scope_stack)].guard_prime = scope_stack[Len(scope_stack)].guard_prime
         /\ guard' = guard \intersect g
         /\ TracerTypeOK'
         /\ UNCHANGED <<event_id_cnt, thread_id_cnt, block_id_cnt, events, thread_id_stack,
                        barrier_list, barrier_map>>
<1> DEFINE scope == [Last(scope_stack) EXCEPT !.guard = guard \intersect g]
<1>1. /\ Len(scope_stack) \in Nat /\ Len(scope_stack) >= 1
      /\ Last(scope_stack) \in ThreadLocalScope /\ Last(scope_stack) = scope_stack[Len(scope_stack)]
      /\ Front(scope_stack) \in Seq(ThreadLocalScope) /\ Len(Front(scope_stack)) = Len(scope_stack) - 1
      /\ \A i \in 1 .. Len(scope_stack) - 1 : Front(scope_stack)[i] = scope_stack[i]
  BY TracerStacks, LastAndFront
<1>2. guard \intersect g \in Condition
  BY EventsTyped DEF Condition
<1>3. /\ scope \in ThreadLocalScope /\ scope.guard = guard \intersect g
      /\ scope.guard_prime = Last(scope_stack).guard_prime
  BY <1>1, <1>2 DEF ThreadLocalScope
<1>4. /\ scope_stack' = Append(Front(scope_stack), scope)
      /\ guard' = guard \intersect g
      /\ UNCHANGED <<event_id_cnt, thread_id_cnt, block_id_cnt, events, thread_id_stack,
                     barrier_list, barrier_map>>
  BY DEF TracerAddGuard
<1> HIDE DEF scope
<1>5. /\ scope_stack' \in Seq(ThreadLocalScope)
      /\ Len(scope_stack') = Len(Front(scope_stack)) + 1
      /\ scope_stack'[Len(Front(scope_stack)) + 1] = scope
      /\ \A i \in 1 .. Len(Front(scope_stack)) : scope_stack'[i] = Front(scope_stack)[i]
  BY <1>1, <1>3, <1>4, Appended
<1>6. Len(Front(scope_stack)) + 1 = Len(scope_stack) /\ scope_stack' # << >>
  BY <1>1, <1>5
<1>7. TracerTypeOK'
  <2>1. TracerTypeOK
    BY DEF TypeOK
  <2> QED
    BY <1>2, <1>4, <1>5, <1>6, <2>1 DEF TracerTypeOK
<1> QED
  BY <1>1, <1>3, <1>4, <1>5, <1>6, <1>7

(* A branch, whatever its direction came from *)
LEMMA BranchCases ==
  ASSUME TypeOK, Branch
  PROVE  \E g \in Condition, d \in BOOLEAN, hint \in BOOLEAN :
           LET c == [Call("branch") EXCEPT !.cond = g, !.hint = hint]
           IN  /\ c \in CallType /\ c.op = "branch" /\ c.cond = g
               /\ Follow(c, d)
               /\ \/ HasNext /\ TakeNext /\ d = NextDirection
                  \/ /\ ~HasNext /\ flip_index = Len(flips)
                     /\ \E f \in BOOLEAN : f = FALSE /\ AppendFlip(d, f)
<1>1. PICK g \in Conditions["branch"], hint \in Hints :
        LET c == [Call("branch") EXCEPT !.cond = g, !.hint = hint]
        IN  \/ HasNext  /\ TakeNext                /\ Follow(c, NextDirection)
            \/ ~HasNext /\ AppendFlip(hint, FALSE) /\ Follow(c, hint)
  BY DEF Branch
<1> DEFINE c == [Call("branch") EXCEPT !.cond = g, !.hint = hint]
<1>2. g \in Condition /\ hint \in BOOLEAN /\ "branch" \in Ops /\ 0 \in Nat
  BY StatementKinds DEF Ops
<1>3. c \in CallType /\ c.op = "branch" /\ c.cond = g
  <2>1. Call("branch") \in CallType /\ Call("branch").op = "branch"
    BY <1>2, CallTypes
  <2>2. ASSUME NEW e \in CallType
        PROVE  /\ [e EXCEPT !.cond = g, !.hint = hint] \in CallType
               /\ [e EXCEPT !.cond = g, !.hint = hint].op = e.op
               /\ [e EXCEPT !.cond = g, !.hint = hint].cond = g
    BY <1>2 DEF CallType
  <2> QED
    BY <2>1, <2>2
<1>4. DfsTypeOK
  BY DEF TypeOK
<1>5. CASE HasNext /\ TakeNext /\ Follow(c, NextDirection)
  <2>1. NextDirection \in BOOLEAN
    BY <1>4, <1>5, DfsNext
  <2> QED
    BY <1>2, <1>3, <1>5, <2>1
<1>6. CASE ~HasNext /\ AppendFlip(hint, FALSE) /\ Follow(c, hint)
  <2>1. flip_index = Len(flips)
    BY <1>4, <1>6 DEF HasNext, DfsTypeOK
  <2>2. \E f \in BOOLEAN : f = FALSE /\ AppendFlip(hint, f)
    BY <1>6
  <2> QED
    BY <1>2, <1>3, <1>6, <2>1, <2>2
<1> QED
  BY <1>1, <1>5, <1>6

LEMMA TypeBranch ==
  ASSUME TypeOK, ScriptOK, ThreadsMatch, Branch
  PROVE  TypeOK'
<1>1. PICK g \in Condition, d \in BOOLEAN, hint \in BOOLEAN :
        LET c == [Call("branch") EXCEPT !.cond = g, !.hint = hint]
        IN  /\ c \in CallType /\ c.op = "branch" /\ c.cond = g
            /\ Follow(c, d)
            /\ \/ HasNext /\ TakeNext /\ d = NextDirection
               \/ /\ ~HasNext /\ flip_index = Len(flips)
                  /\ \E f \in BOOLEAN : f = FALSE /\ AppendFlip(d, f)
  BY BranchCases
<1>2. PICK c \in CallType : c.op = "branch" /\ c.cond = g /\ Follow(c, d)
  BY <1>1
<1>3. UNCHANGED <<errors, number_of_paths, phase, nest, joinable, truth, explored>>
  BY DEF Branch
<1>4. /\ path' \in DOMAIN script' /\ pos' \in 0 .. Len(script'[path'])
      /\ explored' \subseteq DOMAIN script' /\ nest' \in Seq(Frame') /\ phase' = "run"
  BY <1>2, <1>3, FollowEffect
<1>5. DfsTypeOK'
  <2>1. DfsTypeOK
    BY DEF TypeOK
  <2>2. CASE HasNext /\ TakeNext
    BY <2>1, <2>2, DfsNext
  <2>3. CASE flip_index = Len(flips) /\ \E f \in BOOLEAN : AppendFlip(d, f)
    BY <2>1, <2>3, DfsAppend
  <2> QED
    BY <1>1, <2>2, <2>3
<1>6. Side(g, d) \in Condition
  BY SideType
<1>7. /\ TracerAddGuard(Side(g, d))
      /\ guards' = guards \intersect Side(g, d)
      /\ path_condition' = path_condition \intersect Side(g, d)
      /\ branched' = branched \union {Thread}
  BY <1>2 DEF Follow
<1>8. TracerTypeOK' /\ events' = events /\ thread_id_cnt' = thread_id_cnt
  BY <1>6, <1>7, GuardAdded
<1>9. guards' \in Condition /\ path_condition' \in Condition
  BY <1>6, <1>7, CounterType DEF Condition
<1>10. /\ joinable' \subseteq 2 .. thread_id_cnt' - 1 /\ branched' \subseteq 1 .. thread_id_cnt' - 1
       /\ Len(truth') = Len(events') /\ number_of_paths' \in Nat
  BY <1>3, <1>7, <1>8, CounterType, ThreadIsCurrent
<1>11. errors' \in SUBSET Error
  BY <1>3, CounterType
<1> QED
  BY <1>4, <1>5, <1>8, <1>9, <1>10, <1>11 DEF TypeOK

LEMMA TypeExit ==
  ASSUME TypeOK, ScriptOK, Exit
  PROVE  TypeOK'
<1>1. /\ Calls(Call("exit")) /\ phase' = "checked" /\ explored' = explored \union {path}
      /\ UNCHANGED <<tracer_vars, dfs_vars, checker_vars, path, nest, joinable, branched,
                     path_condition, truth>>
  BY DEF Exit
<1>2. Call("exit") \in CallType
  BY PlainCalls
<1>3. /\ script' \in [DOMAIN script -> Seq(CallType)] /\ DOMAIN script' = DOMAIN script
      /\ path' \in DOMAIN script' /\ pos' \in 0 .. Len(script'[path']) /\ Frame' = Frame
      /\ explored \subseteq DOMAIN script'
  BY <1>1, <1>2, CallEffect
<1>4. TracerTypeOK' /\ DfsTypeOK'
  <2>1. TracerTypeOK /\ DfsTypeOK
    BY DEF TypeOK
  <2> QED
    BY <1>1, <2>1 DEF TracerTypeOK, DfsTypeOK, tracer_vars, dfs_vars
<1>5. /\ joinable' \subseteq 2 .. thread_id_cnt' - 1 /\ branched' \subseteq 1 .. thread_id_cnt' - 1
      /\ Len(truth') = Len(events') /\ number_of_paths' \in Nat
      /\ guards' \in Condition /\ path_condition' \in Condition /\ errors' \in SUBSET Error
  BY <1>1, CounterType DEF tracer_vars, checker_vars
<1>6. nest' \in Seq(Frame') /\ explored' \subseteq DOMAIN script'
  BY <1>1, <1>3, NestType
<1> QED
  BY <1>1, <1>3, <1>4, <1>5, <1>6 DEF TypeOK

(* The program starts anew. *)
LEMMA Restarts ==
  ASSUME TypeOK, ScriptOK, FindNextPath \/ Reset
  PROVE  /\ ResetEvents /\ ResetBarrier /\ ProgramStarts /\ CheckerReset
         /\ event_id_cnt' \in Nat
         /\ script' \in [DOMAIN script' -> Seq(CallType)] /\ path' \in DOMAIN script'
         /\ explored' \subseteq DOMAIN script'
         /\ DOMAIN script' \subseteq Seq(BOOLEAN)
         /\ \A p \in DOMAIN script' : \A i \in 1 .. Len(script'[p]) - 1 : ~Ends(script'[p][i])
         /\ DfsTypeOK'
         /\ number_of_paths' \in Nat
<1>1. CASE FindNextPath
  <2>1. /\ ResetEvents /\ ResetBarrier /\ ProgramStarts /\ CheckerReset
        /\ UNCHANGED <<event_id_cnt, script, explored>>
        /\ DfsFindsPath(flips) /\ number_of_paths' = number_of_paths + 1
    BY <1>1 DEF FindNextPath
  <2>2. DfsTypeOK'
    <3>1. DfsTypeOK /\ Len(flips) \in 0 .. Len(flips)
      BY DfsFlips DEF TypeOK
    <3> QED
      BY <2>1, <3>1, WholeStack, DfsCut
  <2>3. explored \subseteq DOMAIN script /\ path' = << >>
    BY <2>1 DEF TypeOK, ProgramStarts
  <2> QED
    BY <2>1, <2>2, <2>3, EventsTyped, CounterType DEF ScriptOK
<1>2. CASE Reset
  <2>1. /\ ResetEvents /\ ResetBarrier /\ ProgramStarts /\ CheckerReset
        /\ event_id_cnt' = 0 /\ script' = [p \in {<< >>} |-> << >>] /\ explored' = {}
        /\ number_of_paths' = 0 /\ DfsReset /\ path' = << >>
    BY <1>2 DEF Reset, TracerReset, ProgramStarts
  <2>2. DfsTypeOK'
    BY <2>1 DEF DfsReset, DfsTypeOK
  <2>3. DOMAIN script' = {<< >>} /\ script'[<< >>] = << >>
    BY <2>1
  <2> QED
    BY <2>1, <2>2, <2>3
<1> QED
  BY <1>1, <1>2

LEMMA TypeRestart ==
  ASSUME TypeOK, ScriptOK, FindNextPath \/ Reset
  PROVE  TypeOK'
<1>1. /\ ResetEvents /\ ResetBarrier /\ ProgramStarts /\ CheckerReset
      /\ event_id_cnt' \in Nat
      /\ script' \in [DOMAIN script' -> Seq(CallType)] /\ path' \in DOMAIN script'
      /\ explored' \subseteq DOMAIN script'
      /\ DfsTypeOK'
      /\ number_of_paths' \in Nat
  BY Restarts
<1>2. Inputs \in Condition
  BY StatementKinds
<1>3. TracerTypeOK'
  <2>1. <<OutermostScope(Inputs)>> \in Seq(ThreadLocalScope) \ {<< >>}
    BY <1>2 DEF OutermostScope, ThreadLocalScope
  <2>2. barrier_list' \in Seq(Nat) /\ barrier_map' \in [DOMAIN barrier_map' -> 1 .. Len(barrier_list')]
    BY <1>1 DEF ResetBarrier
  <2>3. events' \in Seq(Event)
    BY <1>1 DEF ResetEvents
  <2> QED
    BY <1>1, <1>2, <2>1, <2>2, <2>3 DEF ResetEvents, TracerTypeOK
<1>4. /\ pos' = 0 /\ nest' = << >> /\ joinable' = {} /\ branched' = {} /\ path_condition' = Inputs
      /\ truth' = << >> /\ phase' = "run" /\ guards' = Inputs /\ errors' = {}
      /\ Len(events') = 0
  BY <1>1 DEF ProgramStarts, CheckerReset, ResetEvents
<1>5. pos' \in 0 .. Len(script'[path'])
  <2>1. script'[path'] \in Seq(CallType)
    BY <1>1
  <2>2. Len(script'[path']) \in Nat
    BY <2>1
  <2> QED
    BY <1>4, <2>2
<1>6. nest' \in Seq(Frame')
  BY <1>4
<1> QED
  BY <1>1, <1>2, <1>3, <1>4, <1>5, <1>6 DEF TypeOK

LEMMA TypeStop ==
  ASSUME TypeOK, FindNoNextPath
  PROVE  TypeOK'
<1>1. /\ UNCHANGED <<tracer_vars, guards, errors, program_vars, history_vars>>
      /\ DfsReset /\ number_of_paths' = number_of_paths + 1 /\ phase' = "done"
  BY DEF FindNoNextPath, DfsFindsNoPath
<1>2. DfsTypeOK'
  BY <1>1 DEF DfsReset, DfsTypeOK
<1>3. TracerTypeOK' /\ nest' \in Seq(Frame')
  <2>1. TracerTypeOK /\ nest \in Seq(Frame) /\ Frame' = Frame
    BY <1>1 DEF TypeOK, Frame, program_vars
  <2> QED
    BY <1>1, <2>1 DEF TracerTypeOK, tracer_vars, program_vars
<1> QED
  BY <1>1, <1>2, <1>3 DEF TypeOK, tracer_vars, program_vars, history_vars

LEMMA TypeUnchanged ==
  ASSUME TypeOK, UNCHANGED vars
  PROVE  TypeOK'
<1>1. UNCHANGED <<tracer_vars, dfs_vars, checker_vars, phase, program_vars, history_vars>>
  BY DEF vars
<1>2. TracerTypeOK' /\ DfsTypeOK'
  BY <1>1 DEF TypeOK, TracerTypeOK, DfsTypeOK, tracer_vars, dfs_vars
<1>3. nest' \in Seq(Frame')
  BY <1>1 DEF TypeOK, Frame, program_vars
<1> QED
  BY <1>1, <1>2, <1>3 DEF TypeOK, tracer_vars, checker_vars, program_vars, history_vars

(* Types are kept if threads, scopes and synchronisations match those of   *)
(* the tracer.                                                             *)
LEMMA TypeNext ==
  ASSUME TypeOK, ScriptOK, ThreadsMatch, ScopesMatch, TruthOK, Numbered, Joinable, [Next]_vars
  PROVE  TypeOK'
<1>1. CASE UNCHANGED vars
  BY <1>1, TypeUnchanged
<1>2. CASE Next
  BY <1>2, TypeStatement, TypeThreadBegin, TypeThreadEnd, TypeJoin, TypeBarrier, TypeScopeThen,
     TypeScopeElse, TypeScopeEnd, TypeAddError, TypeBranch, TypeExit, TypeRestart, TypeStop
     DEF Next
<1> QED
  BY <1>1, <1>2

-----------------------------------------------------------------------------
(* Threads and scopes, step by step.                                       *)

Shape == ThreadsMatch /\ Nesting /\ ScopesMatch /\ ScopesExact

(* Outside of scopes the program is inside of threads only. *)
LEMMA OutsideScopes ==
  ASSUME TypeOK, Nesting, ThreadsMatch, ~InScope
  PROVE  \A i \in 1 .. Len(nest) :
           /\ nest[i].kind = "thread"
           /\ nest[i].cond = Inputs
           /\ nest[i].thread \in Nat /\ nest[i].thread < thread_id_cnt
<1> SUFFICES ASSUME NEW i \in 1 .. Len(nest)
             PROVE  /\ nest[i].kind = "thread"
                    /\ nest[i].cond = Inputs
                    /\ nest[i].thread \in Nat /\ nest[i].thread < thread_id_cnt
  OBVIOUS
<1>1. /\ Len(nest) \in Nat /\ nest # << >> /\ Len(nest) \in 1 .. Len(nest)
      /\ nest[Len(nest)].kind = "thread"
  <2>1. Len(nest) \in Nat /\ nest # << >>
    BY NestType
  <2> QED
    BY <2>1, NestType, LastAndFront DEF InScope
<1>2. nest[i].kind = "thread"
  BY <1>1 DEF Nesting
<1>3. nest[i].cond = Inputs
  BY <1>2 DEF Nesting
<1>4. PICK depth \in [0 .. Len(nest) -> 1 .. Len(thread_id_stack)] : InThreads(depth)
  BY DEF ThreadsMatch
<1>5. i \in 0 .. Len(nest)
  BY <1>1
<1>6. depth[i] \in 1 .. Len(thread_id_stack) /\ nest[i].thread = thread_id_stack[depth[i]]
  BY <1>4, <1>5 DEF InThreads
<1>7. nest[i].thread \in 1 .. thread_id_cnt - 1
  BY <1>6, TracerStacks
<1> QED
  BY <1>2, <1>3, <1>7, TracerStacks

(* Nothing is entered or left. *)
LEMMA ShapeStays ==
  ASSUME Shape,
         UNCHANGED <<nest, thread_id_stack, scope_stack, guard, path_condition>>
  PROVE  Shape'
<1>1. ThreadsMatch' /\ Nesting' /\ ScopesMatch'
  BY DEF Shape, ThreadsMatch, InThreads, Nesting, ScopesMatch
<1>2. ScopesExact'
  BY DEF Shape, ScopesExact
<1> QED
  BY <1>1, <1>2 DEF Shape

LEMMA ShapeRestart ==
  ASSUME ResetEvents, ProgramStarts
  PROVE  Shape'
<1>1. /\ nest' = << >> /\ Len(nest') = 0 /\ thread_id_stack' = <<1>> /\ Len(thread_id_stack') = 1
      /\ thread_id_stack'[1] = 1 /\ scope_stack' = <<OutermostScope(Inputs)>>
      /\ Len(scope_stack') = 1 /\ scope_stack'[1] = OutermostScope(Inputs)
      /\ Last(scope_stack') = OutermostScope(Inputs)
      /\ guard' = Inputs /\ path_condition' = Inputs
  BY DEF ResetEvents, ProgramStarts, Last
<1>2. ThreadsMatch'
  <2> DEFINE depth == [i \in 0 .. 0 |-> 1]
  <2>1. depth \in [0 .. Len(nest') -> 1 .. Len(thread_id_stack')]
    BY <1>1
  <2>2. InThreads(depth)'
    BY <1>1 DEF InThreads
  <2> QED
    BY <1>1, <2>1, <2>2 DEF ThreadsMatch
<1>3. Nesting' /\ ScopesMatch' /\ ScopesExact'
  BY <1>1 DEF Nesting, ScopesMatch, ScopesExact, OutermostScope, GuardOfScope
<1> QED
  BY <1>2, <1>3 DEF Shape

LEMMA ShapeInit == Init => Shape
<1> SUFFICES ASSUME Init
             PROVE  Shape
  OBVIOUS
<1>1. /\ nest = << >> /\ Len(nest) = 0 /\ thread_id_stack = <<1>> /\ Len(thread_id_stack) = 1
      /\ thread_id_stack[1] = 1 /\ scope_stack = <<OutermostScope(Inputs)>>
      /\ Len(scope_stack) = 1 /\ scope_stack[1] = OutermostScope(Inputs)
      /\ Last(scope_stack) = OutermostScope(Inputs)
      /\ guard = Inputs /\ path_condition = Inputs
  BY DEF Init, TracerInit, Last
<1>2. ThreadsMatch
  <2> DEFINE depth == [i \in 0 .. 0 |-> 1]
  <2>1. depth \in [0 .. Len(nest) -> 1 .. Len(thread_id_stack)]
    BY <1>1
  <2>2. InThreads(depth)
    BY <1>1 DEF InThreads
  <2> QED
    BY <1>1, <2>1, <2>2 DEF ThreadsMatch
<1>3. Nesting /\ ScopesMatch /\ ScopesExact
  BY <1>1 DEF Nesting, ScopesMatch, ScopesExact, OutermostScope, GuardOfScope
<1> QED
  BY <1>2, <1>3 DEF Shape

(* What has been entered when a thread begins *)
LEMMA ThreadBeginEffect ==
  ASSUME TypeOK, ThreadsMatch, Numbered, ThreadBegin
  PROVE  /\ Len(nest') = Len(nest) + 1
         /\ \A i \in 1 .. Len(nest) : nest'[i] = nest[i]
         /\ nest'[Len(nest) + 1].kind = "thread"
         /\ nest'[Len(nest) + 1].cond = Inputs
         /\ nest'[Len(nest) + 1].thread = thread_id_cnt
         /\ Len(scope_stack') = Len(scope_stack) + 1
         /\ \A i \in 1 .. Len(scope_stack) : scope_stack'[i] = scope_stack[i]
         /\ scope_stack'[Len(scope_stack) + 1].guard = Inputs
         /\ scope_stack'[Len(scope_stack) + 1].guard_prime = Inputs
         /\ Last(scope_stack') = scope_stack'[Len(scope_stack) + 1]
         /\ Len(thread_id_stack') = Len(thread_id_stack) + 1
         /\ \A i \in 1 .. Len(thread_id_stack) : thread_id_stack'[i] = thread_id_stack[i]
         /\ thread_id_stack'[Len(thread_id_stack) + 1] = thread_id_cnt
         /\ guard' = Inputs /\ path_condition' = path_condition /\ branched' = branched
         /\ guards' = guards /\ errors' = errors /\ phase' = phase
<1>1. /\ nest' = Within("thread", Inputs, thread_id_cnt)
      /\ AppendThreadBegin /\ KeepsChecking /\ UNCHANGED <<guards, errors>>
  BY NumbersMatch DEF ThreadBegin, BeginThread
<1>2. /\ scope_stack' = Append(scope_stack, OutermostScope(Inputs))
      /\ thread_id_stack' = Append(thread_id_stack, thread_id_cnt) /\ guard' = Inputs
  BY <1>1 DEF AppendThreadBegin
<1>3. /\ OutermostScope(Inputs) \in ThreadLocalScope
      /\ OutermostScope(Inputs).guard = Inputs /\ OutermostScope(Inputs).guard_prime = Inputs
  BY StatementKinds DEF OutermostScope, ThreadLocalScope
<1>4. thread_id_stack \in Seq(Nat) /\ thread_id_cnt \in Nat
  <2>1. 1 .. thread_id_cnt - 1 \subseteq Nat
    BY TracerStacks
  <2> QED
    BY <2>1, TracerStacks
<1>5. /\ Len(nest') = Len(nest) + 1
      /\ \A i \in 1 .. Len(nest) : nest'[i] = nest[i]
      /\ nest'[Len(nest) + 1].kind = "thread"
      /\ nest'[Len(nest) + 1].cond = Inputs
      /\ nest'[Len(nest) + 1].thread = thread_id_cnt
  BY <1>1, <1>4, StatementKinds, FrameType
<1>6. /\ Len(scope_stack') = Len(scope_stack) + 1
      /\ \A i \in 1 .. Len(scope_stack) : scope_stack'[i] = scope_stack[i]
      /\ scope_stack'[Len(scope_stack) + 1] = OutermostScope(Inputs)
      /\ Last(scope_stack') = OutermostScope(Inputs)
  BY <1>2, <1>3, TracerStacks, Appended
<1>7. /\ Len(thread_id_stack') = Len(thread_id_stack) + 1
      /\ \A i \in 1 .. Len(thread_id_stack) : thread_id_stack'[i] = thread_id_stack[i]
      /\ thread_id_stack'[Len(thread_id_stack) + 1] = thread_id_cnt
  BY <1>2, <1>4, Appended
<1> QED
  BY <1>1, <1>2, <1>3, <1>5, <1>6, <1>7, TypeStays

LEMMA ShapeThreadBegin ==
  ASSUME TypeOK, Shape, Numbered, ThreadBegin
  PROVE  Shape'
<1> DEFINE n == Len(nest)
           m == Len(thread_id_stack)
<1>1. /\ n \in Nat /\ m \in Nat /\ m >= 1 /\ ThreadsMatch /\ Nesting /\ ScopesMatch /\ ScopesExact
      /\ Len(scope_stack) = n + 1 /\ thread_id_cnt \in Nat
      /\ \A i \in 1 .. m : thread_id_stack[i] \in Nat /\ thread_id_stack[i] < thread_id_cnt
  BY NestType, TracerStacks DEF Shape, ScopesMatch
<1>2. /\ Len(nest') = n + 1
      /\ \A i \in 1 .. n : nest'[i] = nest[i]
      /\ nest'[n + 1].kind = "thread"
      /\ nest'[n + 1].cond = Inputs
      /\ nest'[n + 1].thread = thread_id_cnt
      /\ Len(scope_stack') = n + 2
      /\ \A i \in 1 .. n + 1 : scope_stack'[i] = scope_stack[i]
      /\ scope_stack'[n + 2].guard = Inputs
      /\ scope_stack'[n + 2].guard_prime = Inputs
      /\ Last(scope_stack') = scope_stack'[n + 2]
      /\ Len(thread_id_stack') = m + 1
      /\ \A i \in 1 .. m : thread_id_stack'[i] = thread_id_stack[i]
      /\ thread_id_stack'[m + 1] = thread_id_cnt
      /\ guard' = Inputs /\ path_condition' = path_condition
  BY <1>1, ThreadBeginEffect
<1>3. /\ \A i \in 1 .. n : /\ nest[i].kind = "thread" /\ nest[i].cond = Inputs
                           /\ nest[i].thread < thread_id_cnt
      /\ path_condition \subseteq Inputs
      /\ thread_id_cnt > 1
  <2>1. ~InScope
    BY DEF ThreadBegin, BeginThread
  <2>2. thread_id_stack[1] = 1 /\ 1 \in 1 .. m
    BY <1>1 DEF ThreadsMatch
  <2>3. thread_id_cnt > 1
    BY <1>1, <2>2
  <2> QED
    BY <1>1, <2>1, <2>3, OutsideScopes, CounterType DEF Condition
<1>4. ThreadsMatch'
  <2>1. PICK depth \in [0 .. n -> 1 .. m] : InThreads(depth)
    BY <1>1 DEF ThreadsMatch
  <2>0. PICK deeper : deeper = [i \in 0 .. n + 1 |-> IF i <= n THEN depth[i] ELSE m + 1]
    OBVIOUS
  <2> HIDE DEF n, m
  <2>2. deeper \in [0 .. n + 1 -> 1 .. m + 1]
    BY <1>1, <2>0, <2>1
  <2>3. /\ depth[0] = 1 /\ depth[n] = m
        /\ \A i, j \in 0 .. n : i <= j => depth[i] <= depth[j]
        /\ \A i \in 1 .. n : /\ depth[i] = depth[i - 1] + (IF nest[i].kind = "thread" THEN 1 ELSE 0)
                             /\ nest[i].thread = thread_id_stack[depth[i]]
    BY <2>1 DEF InThreads, n, m
  <2>4. \A i \in 0 .. n : deeper[i] = depth[i] /\ depth[i] \in 1 .. m
    BY <1>1, <2>0, <2>1
  <2>5. deeper[n + 1] = m + 1
    BY <1>1, <2>0
  <2>6. \A i, j \in 0 .. n + 1 : i <= j => deeper[i] <= deeper[j]
    BY <1>1, <2>3, <2>4, <2>5
  <2>7. ASSUME NEW i \in 1 .. n + 1
        PROVE  /\ deeper[i] = deeper[i - 1] + (IF nest'[i].kind = "thread" THEN 1 ELSE 0)
               /\ nest'[i].thread = thread_id_stack'[deeper[i]]
    <3>1. CASE i = n + 1
      <4>1. i - 1 = n /\ n \in 0 .. n
        BY <1>1, <3>1
      <4> QED
        BY <1>1, <1>2, <2>3, <2>4, <2>5, <3>1, <4>1
    <3>2. CASE i \in 1 .. n
      <4>1. i \in 0 .. n /\ i - 1 \in 0 .. n
        BY <1>1, <3>2
      <4> QED
        BY <1>2, <2>3, <2>4, <3>2, <4>1
    <3> QED
      BY <1>1, <3>1, <3>2
  <2>8. deeper[0] = 1
    BY <1>1, <2>3, <2>4
  <2>9. InThreads(deeper)'
    BY <1>2, <2>5, <2>6, <2>7, <2>8 DEF InThreads
  <2>10. thread_id_stack'[1] = 1
    BY <1>1, <1>2 DEF ThreadsMatch
  <2>11. \A i, j \in 1 .. m + 1 : i < j => thread_id_stack'[i] < thread_id_stack'[j]
    <3>1. \A i, j \in 1 .. m : i < j => thread_id_stack[i] < thread_id_stack[j]
      BY <1>1 DEF ThreadsMatch, m
    <3> QED
      BY <1>1, <1>2, <3>1, SMTT(40)
  <2>12. deeper \in [0 .. Len(nest') -> 1 .. Len(thread_id_stack')]
    BY <1>2, <2>2
  <2> QED
    BY <1>2, <2>9, <2>10, <2>11, <2>12 DEF ThreadsMatch
<1> HIDE DEF n, m
<1>5. Nesting'
  <2> SUFFICES ASSUME NEW i \in 1 .. n + 1, nest'[i].kind = "thread"
               PROVE  /\ nest'[i].cond = Inputs
                      /\ nest'[i].thread > 1
                      /\ \A j \in 1 .. i - 1 :
                           nest'[j].kind = "thread" /\ nest'[j].thread < nest'[i].thread
    BY <1>2 DEF Nesting
  <2>1. CASE i = n + 1
    BY <1>1, <1>2, <1>3, <2>1
  <2>2. CASE i \in 1 .. n
    <3>1. nest'[i] = nest[i] /\ \A j \in 1 .. i - 1 : nest'[j] = nest[j]
      BY <1>1, <1>2, <2>2
    <3> QED
      BY <1>1, <2>2, <3>1 DEF Nesting, n
  <2> QED
    BY <1>1, <2>1, <2>2
<1>6. ScopesMatch'
  <2>1. scope_stack'[1].guard_prime = Inputs
    BY <1>1, <1>2 DEF ScopesMatch
  <2>2. ASSUME NEW i \in 1 .. n + 1
        PROVE  /\ scope_stack'[i + 1].guard_prime = nest'[i].cond
               /\ nest'[i].kind # "thread" => scope_stack'[i + 1].guard = GuardOfScope(scope_stack'[i])
    <3>1. CASE i = n + 1
      BY <1>1, <1>2, <3>1
    <3>2. CASE i \in 1 .. n
      <4>1. i \in 1 .. n + 1 /\ i + 1 \in 1 .. n + 1
        BY <1>1, <3>2
      <4> QED
        BY <1>1, <1>2, <3>2, <4>1 DEF ScopesMatch, n
    <3> QED
      BY <1>1, <3>1, <3>2
  <2>3. guard' = GuardOfScope(Last(scope_stack'))
    BY <1>2 DEF GuardOfScope
  <2>4. Len(scope_stack') = Len(nest') + 1
    BY <1>1, <1>2
  <2> QED
    BY <1>2, <2>1, <2>2, <2>3, <2>4 DEF ScopesMatch
<1>7. ScopesExact'
  <2> SUFFICES ASSUME NEW i \in 1 .. n + 2
               PROVE  /\ \A j \in 1 .. i - 2 : scope_stack'[i].guard \subseteq nest'[j].cond
                      /\ \A v \in path_condition :
                           (\A j \in 1 .. i - 2 : v \in nest'[j].cond) => v \in scope_stack'[i].guard
    BY <1>2 DEF ScopesExact
  <2>1. CASE i = n + 2
    BY <1>1, <1>2, <1>3, <2>1
  <2>2. CASE i \in 1 .. n + 1
    <3>1. /\ scope_stack'[i] = scope_stack[i] /\ i \in 1 .. Len(scope_stack)
          /\ \A j \in 1 .. i - 2 : nest'[j] = nest[j]
      BY <1>1, <1>2, <2>2
    <3> QED
      BY <1>1, <3>1 DEF ScopesExact
  <2> QED
    BY <1>1, <2>1, <2>2
<1> QED
  BY <1>4, <1>5, <1>6, <1>7 DEF Shape

(* What is left when a frame is left: of n frames, the last one *)
LEMMA FrameLeft ==
  ASSUME TypeOK, ScopesMatch, nest # << >>, nest' = Front(nest), scope_stack' = Front(scope_stack)
  PROVE  /\ Len(nest) \in Nat /\ Len(nest) >= 1
         /\ Len(nest') = Len(nest) - 1
         /\ \A i \in 1 .. Len(nest) - 1 : nest'[i] = nest[i]
         /\ Last(nest) = nest[Len(nest)]
         /\ Len(scope_stack) = Len(nest) + 1
         /\ Len(scope_stack') = Len(nest)
         /\ \A i \in 1 .. Len(nest) : scope_stack'[i] = scope_stack[i]
         /\ Last(scope_stack') = scope_stack[Len(nest)]
         /\ Last(scope_stack) = scope_stack[Len(nest) + 1]
<1>1. Len(nest) \in Nat /\ Len(nest) >= 1 /\ Len(scope_stack) = Len(nest) + 1
  BY NestType DEF ScopesMatch
<1>2. Len(scope_stack) >= 2 /\ Len(scope_stack) - 1 = Len(nest)
  BY <1>1
<1> QED
  BY <1>1, <1>2, NestType, LastAndFront, OuterScope

(* Leaving a frame keeps what is said of those around it. *)
LEMMA ShapeLeaves ==
  ASSUME TypeOK, Shape, nest # << >>, nest' = Front(nest), scope_stack' = Front(scope_stack),
         guard' = GuardOfScope(scope_stack[Len(nest)]), path_condition' = path_condition
  PROVE  Nesting' /\ ScopesMatch' /\ ScopesExact'
<1> DEFINE n == Len(nest)
<1>1. /\ n \in Nat /\ n >= 1 /\ Nesting /\ ScopesMatch /\ ScopesExact
      /\ Len(nest') = n - 1
      /\ \A i \in 1 .. n - 1 : nest'[i] = nest[i]
      /\ Len(scope_stack) = n + 1 /\ Len(scope_stack') = n
      /\ \A i \in 1 .. n : scope_stack'[i] = scope_stack[i]
      /\ Last(scope_stack') = scope_stack[n]
  BY FrameLeft DEF Shape
<1> HIDE DEF n
<1>2. Nesting'
  <2> SUFFICES ASSUME NEW i \in 1 .. n - 1, nest'[i].kind = "thread"
               PROVE  /\ nest'[i].cond = Inputs
                      /\ nest'[i].thread > 1
                      /\ \A j \in 1 .. i - 1 :
                           nest'[j].kind = "thread" /\ nest'[j].thread < nest'[i].thread
    BY <1>1 DEF Nesting
  <2>1. nest'[i] = nest[i] /\ (\A j \in 1 .. i - 1 : nest'[j] = nest[j]) /\ i \in 1 .. n
    BY <1>1
  <2> QED
    BY <1>1, <2>1 DEF Nesting, n
<1>3. ScopesMatch'
  <2>1. scope_stack'[1].guard_prime = Inputs
    BY <1>1 DEF ScopesMatch
  <2>2. ASSUME NEW i \in 1 .. n - 1
        PROVE  /\ scope_stack'[i + 1].guard_prime = nest'[i].cond
               /\ nest'[i].kind # "thread" => scope_stack'[i + 1].guard = GuardOfScope(scope_stack'[i])
    <3>1. i \in 1 .. n /\ i + 1 \in 1 .. n
      BY <1>1
    <3> QED
      BY <1>1, <3>1 DEF ScopesMatch, n
  <2>3. guard' = GuardOfScope(Last(scope_stack'))
    BY <1>1 DEF GuardOfScope, n
  <2>4. Len(scope_stack') = Len(nest') + 1
    BY <1>1
  <2> QED
    BY <1>1, <2>1, <2>2, <2>3, <2>4 DEF ScopesMatch
<1>4. ScopesExact'
  <2> SUFFICES ASSUME NEW i \in 1 .. n
               PROVE  /\ \A j \in 1 .. i - 2 : scope_stack'[i].guard \subseteq nest'[j].cond
                      /\ \A v \in path_condition :
                           (\A j \in 1 .. i - 2 : v \in nest'[j].cond) => v \in scope_stack'[i].guard
    BY <1>1 DEF ScopesExact
  <2>1. /\ scope_stack'[i] = scope_stack[i] /\ i \in 1 .. Len(scope_stack)
        /\ \A j \in 1 .. i - 2 : nest'[j] = nest[j]
    BY <1>1
  <2> QED
    BY <1>1, <2>1 DEF ScopesExact
<1> QED
  BY <1>2, <1>3, <1>4

LEMMA ShapeThreadEnd ==
  ASSUME TypeOK, Shape, ThreadEnd
  PROVE  Shape'
<1> DEFINE n == Len(nest)
           m == Len(thread_id_stack)
<1>1. /\ nest # << >> /\ ~InScope /\ nest' = Front(nest)
      /\ AppendThreadEnd /\ KeepsChecking
  BY DEF ThreadEnd
<1>2. /\ thread_id_stack' = Front(thread_id_stack)
      /\ scope_stack' = Front(scope_stack)
      /\ guard' = GuardOfScope(Last(Front(scope_stack)))
      /\ path_condition' = path_condition
  BY <1>1, TypeStays DEF AppendThreadEnd
<1>3. /\ n \in Nat /\ n >= 1 /\ Len(nest') = n - 1
      /\ \A i \in 1 .. n - 1 : nest'[i] = nest[i]
      /\ Last(nest) = nest[n]
      /\ Last(scope_stack') = scope_stack[n]
  BY <1>1, <1>2, FrameLeft DEF Shape
<1>4. Nesting' /\ ScopesMatch' /\ ScopesExact'
  BY <1>1, <1>2, <1>3, ShapeLeaves
<1>5. /\ m \in Nat /\ Len(thread_id_stack') = m - 1
      /\ \A i \in 1 .. m - 1 : thread_id_stack'[i] = thread_id_stack[i]
      /\ m >= 2
  <2>1. thread_id_stack \in Seq(Nat)
    <3>1. 1 .. thread_id_cnt - 1 \subseteq Nat
      BY TracerStacks
    <3> QED
      BY <3>1, TracerStacks
  <2> QED
    BY <1>1, <1>2, <2>1, TracerStacks, ThreadIsCurrent, LastAndFront DEF Shape
<1>6. ThreadsMatch'
  <2>1. PICK depth \in [0 .. n -> 1 .. m] : InThreads(depth)
    BY DEF Shape, ThreadsMatch
  <2>2. PICK less : less = [i \in 0 .. n - 1 |-> depth[i]]
    OBVIOUS
  <2>3. nest[n].kind = "thread"
    BY <1>1, <1>3 DEF InScope
  <2> HIDE DEF n, m
  <2>4. /\ depth[0] = 1 /\ depth[n] = m
        /\ \A i, j \in 0 .. n : i <= j => depth[i] <= depth[j]
        /\ \A i \in 1 .. n : /\ depth[i] = depth[i - 1] + (IF nest[i].kind = "thread" THEN 1 ELSE 0)
                             /\ nest[i].thread = thread_id_stack[depth[i]]
    BY <2>1 DEF InThreads, n, m
  <2>5. depth[n - 1] = m - 1
    <3>1. n \in 1 .. n /\ n - 1 \in 0 .. n
      BY <1>3
    <3>2. depth[n - 1] \in 1 .. m
      BY <2>1, <3>1
    <3>3. depth[n] = depth[n - 1] + 1
      BY <2>3, <2>4, <3>1
    <3> QED
      BY <1>5, <2>4, <3>2, <3>3
  <2>6. \A i \in 0 .. n - 1 : less[i] = depth[i] /\ depth[i] \in 1 .. m - 1
    <3>1. ASSUME NEW i \in 0 .. n - 1
          PROVE  depth[i] \in 1 .. m /\ depth[i] <= depth[n - 1]
      BY <1>3, <2>1, <2>4
    <3> QED
      BY <1>5, <2>2, <2>5, <3>1
  <2>7. less \in [0 .. n - 1 -> 1 .. m - 1]
    BY <2>2, <2>6
  <2>8. \A i, j \in 0 .. n - 1 : i <= j => less[i] <= less[j]
    BY <1>3, <2>4, <2>6
  <2>9. ASSUME NEW i \in 1 .. n - 1
        PROVE  /\ less[i] = less[i - 1] + (IF nest'[i].kind = "thread" THEN 1 ELSE 0)
               /\ nest'[i].thread = thread_id_stack'[less[i]]
    <3>1. i \in 0 .. n - 1 /\ i - 1 \in 0 .. n - 1 /\ i \in 1 .. n
      BY <1>3
    <3>2. /\ less[i] = depth[i] /\ less[i - 1] = depth[i - 1] /\ depth[i] \in 1 .. m - 1
          /\ nest'[i] = nest[i]
      BY <1>3, <2>6, <3>1
    <3>3. thread_id_stack'[less[i]] = thread_id_stack[depth[i]]
      BY <1>5, <3>2
    <3> QED
      BY <2>4, <3>1, <3>2, <3>3
  <2>10. less[0] = 1 /\ less[n - 1] = m - 1
    BY <1>3, <2>4, <2>5, <2>6
  <2>11. InThreads(less)'
    BY <1>3, <1>5, <2>8, <2>9, <2>10 DEF InThreads
  <2>12. thread_id_stack'[1] = 1
    BY <1>5 DEF Shape, ThreadsMatch
  <2>13. \A i, j \in 1 .. m - 1 : i < j => thread_id_stack'[i] < thread_id_stack'[j]
    <3>1. \A i, j \in 1 .. m : i < j => thread_id_stack[i] < thread_id_stack[j]
      BY DEF Shape, ThreadsMatch, m
    <3> QED
      BY <1>5, <3>1
  <2> QED
    BY <1>3, <1>5, <2>7, <2>11, <2>12, <2>13 DEF ThreadsMatch
<1> QED
  BY <1>4, <1>6 DEF Shape

LEMMA ShapeScopeEnd ==
  ASSUME TypeOK, Shape, CallScopeEnd
  PROVE  Shape'
<1> DEFINE n == Len(nest)
           m == Len(thread_id_stack)
<1>1. /\ nest # << >> /\ Last(nest).kind # "thread" /\ nest' = Front(nest)
      /\ ScopeEnd /\ KeepsChecking
  BY DEF CallScopeEnd, InScope, ScopeOnly
<1>2. /\ thread_id_stack' = thread_id_stack
      /\ scope_stack' = Front(scope_stack)
      /\ guard' = Last(scope_stack).guard
      /\ path_condition' = path_condition
  BY <1>1, TypeStays DEF ScopeEnd
<1>3. /\ n \in Nat /\ n >= 1 /\ Len(nest') = n - 1
      /\ \A i \in 1 .. n - 1 : nest'[i] = nest[i]
      /\ Last(nest) = nest[n]
      /\ Last(scope_stack) = scope_stack[n + 1]
  BY <1>1, <1>2, FrameLeft DEF Shape
<1>4. scope_stack[n + 1].guard = GuardOfScope(scope_stack[n])
  BY <1>1, <1>3 DEF Shape, ScopesMatch
<1>5. Nesting' /\ ScopesMatch' /\ ScopesExact'
  BY <1>1, <1>2, <1>3, <1>4, ShapeLeaves
<1>6. ThreadsMatch'
  <2>1. PICK depth \in [0 .. n -> 1 .. m] : InThreads(depth)
    BY DEF Shape, ThreadsMatch
  <2>2. PICK less : less = [i \in 0 .. n - 1 |-> depth[i]]
    OBVIOUS
  <2> HIDE DEF n, m
  <2>4. /\ depth[0] = 1 /\ depth[n] = m
        /\ \A i, j \in 0 .. n : i <= j => depth[i] <= depth[j]
        /\ \A i \in 1 .. n : /\ depth[i] = depth[i - 1] + (IF nest[i].kind = "thread" THEN 1 ELSE 0)
                             /\ nest[i].thread = thread_id_stack[depth[i]]
    BY <2>1 DEF InThreads, n, m
  <2>5. depth[n - 1] = m
    <3>1. n \in 1 .. n /\ n - 1 \in 0 .. n
      BY <1>3
    <3>2. depth[n - 1] \in 1 .. m
      BY <2>1, <3>1
    <3>3. depth[n] = depth[n - 1] + 0
      BY <1>1, <1>3, <2>4, <3>1
    <3> QED
      BY <2>4, <3>2, <3>3
  <2>6. \A i \in 0 .. n - 1 : less[i] = depth[i] /\ depth[i] \in 1 .. m
    BY <1>3, <2>1, <2>2
  <2>7. less \in [0 .. n - 1 -> 1 .. m]
    BY <2>2, <2>6
  <2>8. \A i, j \in 0 .. n - 1 : i <= j => less[i] <= less[j]
    BY <1>3, <2>4, <2>6
  <2>9. ASSUME NEW i \in 1 .. n - 1
        PROVE  /\ less[i] = less[i - 1] + (IF nest'[i].kind = "thread" THEN 1 ELSE 0)
               /\ nest'[i].thread = thread_id_stack'[less[i]]
    <3>1. i \in 0 .. n - 1 /\ i - 1 \in 0 .. n - 1 /\ i \in 1 .. n
      BY <1>3
    <3> QED
      BY <1>2, <1>3, <2>4, <2>6, <3>1
  <2>10. less[0] = 1 /\ less[n - 1] = m
    BY <1>3, <2>4, <2>5, <2>6
  <2>11. InThreads(less)'
    BY <1>2, <1>3, <2>8, <2>9, <2>10 DEF InThreads, m
  <2> QED
    BY <1>2, <1>3, <2>7, <2>11 DEF Shape, ThreadsMatch, m
<1> QED
  BY <1>5, <1>6 DEF Shape

LEMMA ScopeThenEffect ==
  ASSUME TypeOK, CallScopeThen
  PROVE  \E g \in Condition :
           /\ Len(nest') = Len(nest) + 1
           /\ \A i \in 1 .. Len(nest) : nest'[i] = nest[i]
           /\ nest'[Len(nest) + 1].kind = "then"
           /\ nest'[Len(nest) + 1].cond = g
           /\ nest'[Len(nest) + 1].thread = Thread
           /\ Len(scope_stack') = Len(scope_stack) + 1
           /\ \A i \in 1 .. Len(scope_stack) : scope_stack'[i] = scope_stack[i]
           /\ scope_stack'[Len(scope_stack) + 1].guard = guard
           /\ scope_stack'[Len(scope_stack) + 1].guard_prime = g
           /\ Last(scope_stack') = scope_stack'[Len(scope_stack) + 1]
           /\ thread_id_stack' = thread_id_stack /\ guard' = guard \intersect g
<1>1. PICK g \in Conditions["then"] : ScopeThen(g) /\ nest' = Within("then", g, Thread)
  BY DEF CallScopeThen
<1>2. g \in Condition
  BY StatementKinds
<1>3. /\ Len(nest') = Len(nest) + 1
      /\ \A i \in 1 .. Len(nest) : nest'[i] = nest[i]
      /\ nest'[Len(nest) + 1].kind = "then"
      /\ nest'[Len(nest) + 1].cond = g
      /\ nest'[Len(nest) + 1].thread = Thread
  BY <1>1, <1>2, ThreadType, FrameType
<1>4. /\ scope_stack' = Append(scope_stack, [guard |-> guard, guard_prime |-> g,
                                             level |-> Last(scope_stack).level + 1])
      /\ thread_id_stack' = thread_id_stack /\ guard' = guard \intersect g
  BY <1>1 DEF ScopeThen
<1>5. /\ Len(scope_stack') = Len(scope_stack) + 1
      /\ \A i \in 1 .. Len(scope_stack) : scope_stack'[i] = scope_stack[i]
      /\ scope_stack'[Len(scope_stack) + 1].guard = guard
      /\ scope_stack'[Len(scope_stack) + 1].guard_prime = g
      /\ Last(scope_stack') = scope_stack'[Len(scope_stack) + 1]
  <2>1. PICK e : e = [guard |-> guard, guard_prime |-> g, level |-> Last(scope_stack).level + 1]
    OBVIOUS
  <2>2. Last(scope_stack).level \in Nat
    BY TracerStacks, LastAndFront
  <2>3. e \in ThreadLocalScope /\ e.guard = guard /\ e.guard_prime = g
    BY <1>2, <2>1, <2>2, EventsTyped DEF ThreadLocalScope
  <2> QED
    BY <1>4, <2>1, <2>3, TracerStacks, Appended
<1> QED
  BY <1>2, <1>3, <1>4, <1>5

LEMMA ShapeScopeThen ==
  ASSUME TypeOK, Shape, CallScopeThen
  PROVE  Shape'
<1> DEFINE n == Len(nest)
           m == Len(thread_id_stack)
<1>1. /\ n \in Nat /\ m \in Nat /\ m >= 1 /\ ThreadsMatch /\ Nesting /\ ScopesMatch /\ ScopesExact
      /\ Len(scope_stack) = n + 1
      /\ Thread = thread_id_stack[m]
      /\ Last(scope_stack) = scope_stack[n + 1]
      /\ path_condition' = path_condition
  BY NestType, TracerStacks, LastAndFront, ThreadIsCurrent, TypeStays
     DEF Shape, ScopesMatch, CallScopeThen, ScopeOnly
<1>2. PICK g \in Condition :
        /\ Len(nest') = n + 1
        /\ \A i \in 1 .. n : nest'[i] = nest[i]
        /\ nest'[n + 1].kind = "then"
        /\ nest'[n + 1].cond = g
        /\ nest'[n + 1].thread = Thread
        /\ Len(scope_stack') = n + 2
        /\ \A i \in 1 .. n + 1 : scope_stack'[i] = scope_stack[i]
        /\ scope_stack'[n + 2].guard = guard
        /\ scope_stack'[n + 2].guard_prime = g
        /\ Last(scope_stack') = scope_stack'[n + 2]
        /\ thread_id_stack' = thread_id_stack /\ guard' = guard \intersect g
  BY <1>1, ScopeThenEffect
<1>3. ThreadsMatch'
  <2>1. PICK depth \in [0 .. n -> 1 .. m] : InThreads(depth)
    BY <1>1 DEF ThreadsMatch
  <2>2. PICK deeper : deeper = [i \in 0 .. n + 1 |-> IF i <= n THEN depth[i] ELSE m]
    OBVIOUS
  <2> HIDE DEF n, m
  <2>3. /\ depth[0] = 1 /\ depth[n] = m
        /\ \A i, j \in 0 .. n : i <= j => depth[i] <= depth[j]
        /\ \A i \in 1 .. n : /\ depth[i] = depth[i - 1] + (IF nest[i].kind = "thread" THEN 1 ELSE 0)
                             /\ nest[i].thread = thread_id_stack[depth[i]]
    BY <2>1 DEF InThreads, n, m
  <2>4. \A i \in 0 .. n : deeper[i] = depth[i] /\ depth[i] \in 1 .. m
    BY <1>1, <2>1, <2>2
  <2>5. deeper[n + 1] = m /\ deeper \in [0 .. n + 1 -> 1 .. m]
    BY <1>1, <2>1, <2>2
  <2>6. \A i, j \in 0 .. n + 1 : i <= j => deeper[i] <= deeper[j]
    BY <1>1, <2>3, <2>4, <2>5
  <2>7. ASSUME NEW i \in 1 .. n + 1
        PROVE  /\ deeper[i] = deeper[i - 1] + (IF nest'[i].kind = "thread" THEN 1 ELSE 0)
               /\ nest'[i].thread = thread_id_stack'[deeper[i]]
    <3>1. CASE i = n + 1
      <4>1. i - 1 = n /\ n \in 0 .. n
        BY <1>1, <3>1
      <4> QED
        BY <1>1, <1>2, <2>3, <2>4, <2>5, <3>1, <4>1
    <3>2. CASE i \in 1 .. n
      <4>1. i \in 0 .. n /\ i - 1 \in 0 .. n
        BY <1>1, <3>2
      <4> QED
        BY <1>2, <2>3, <2>4, <3>2, <4>1
    <3> QED
      BY <1>1, <3>1, <3>2
  <2>8. deeper[0] = 1
    BY <1>1, <2>3, <2>4
  <2>9. InThreads(deeper)'
    BY <1>2, <2>5, <2>6, <2>7, <2>8 DEF InThreads, m
  <2> QED
    BY <1>1, <1>2, <2>5, <2>9 DEF ThreadsMatch, m
<1> HIDE DEF n, m
<1>4. Nesting'
  <2> SUFFICES ASSUME NEW i \in 1 .. n + 1, nest'[i].kind = "thread"
               PROVE  /\ nest'[i].cond = Inputs
                      /\ nest'[i].thread > 1
                      /\ \A j \in 1 .. i - 1 :
                           nest'[j].kind = "thread" /\ nest'[j].thread < nest'[i].thread
    BY <1>2 DEF Nesting
  <2>1. i \in 1 .. n
    BY <1>1, <1>2
  <2>2. nest'[i] = nest[i] /\ \A j \in 1 .. i - 1 : nest'[j] = nest[j]
    BY <1>1, <1>2, <2>1
  <2> QED
    BY <1>1, <2>1, <2>2 DEF Nesting, n
<1>5. ScopesMatch'
  <2>1. scope_stack'[1].guard_prime = Inputs
    BY <1>1, <1>2 DEF ScopesMatch
  <2>2. ASSUME NEW i \in 1 .. n + 1
        PROVE  /\ scope_stack'[i + 1].guard_prime = nest'[i].cond
               /\ nest'[i].kind # "thread" => scope_stack'[i + 1].guard = GuardOfScope(scope_stack'[i])
    <3>1. CASE i = n + 1
      <4>1. scope_stack'[i] = Last(scope_stack) /\ scope_stack'[i + 1] = scope_stack'[n + 2]
        BY <1>1, <1>2, <3>1
      <4>2. guard = GuardOfScope(Last(scope_stack))
        BY <1>1 DEF ScopesMatch
      <4> QED
        BY <1>1, <1>2, <3>1, <4>1, <4>2
    <3>2. CASE i \in 1 .. n
      <4>1. i \in 1 .. n + 1 /\ i + 1 \in 1 .. n + 1
        BY <1>1, <3>2
      <4> QED
        BY <1>1, <1>2, <3>2, <4>1 DEF ScopesMatch, n
    <3> QED
      BY <1>1, <3>1, <3>2
  <2>3. guard' = GuardOfScope(Last(scope_stack'))
    BY <1>2 DEF GuardOfScope
  <2>4. Len(scope_stack') = Len(nest') + 1
    BY <1>1, <1>2
  <2> QED
    BY <1>2, <2>1, <2>2, <2>3, <2>4 DEF ScopesMatch
<1>6. ScopesExact'
  <2> SUFFICES ASSUME NEW i \in 1 .. n + 2
               PROVE  /\ \A j \in 1 .. i - 2 : scope_stack'[i].guard \subseteq nest'[j].cond
                      /\ \A v \in path_condition :
                           (\A j \in 1 .. i - 2 : v \in nest'[j].cond) => v \in scope_stack'[i].guard
    BY <1>1, <1>2 DEF ScopesExact
  <2>1. CASE i = n + 2
    <3>1. /\ n + 1 \in 1 .. Len(scope_stack)
          /\ \A j \in 1 .. n - 1 : scope_stack[n + 1].guard \subseteq nest[j].cond
          /\ \A v \in path_condition :
               (\A j \in 1 .. n - 1 : v \in nest[j].cond) => v \in scope_stack[n + 1].guard
      BY <1>1 DEF ScopesExact
    <3>2. guard = scope_stack[n + 1].guard \intersect scope_stack[n + 1].guard_prime
      BY <1>1 DEF ScopesMatch, GuardOfScope
    <3>3. IF n = 0 THEN scope_stack[n + 1].guard_prime = Inputs
                   ELSE n \in 1 .. n /\ scope_stack[n + 1].guard_prime = nest[n].cond
      BY <1>1 DEF ScopesMatch, n
    <3>4. path_condition \subseteq Inputs
      BY CounterType DEF Condition
    <3>5. \A j \in 1 .. n : nest'[j] = nest[j] /\ (j \in 1 .. n - 1 \/ j = n)
      BY <1>1, <1>2
    <3>6. i - 2 = n /\ \A j \in 1 .. n - 1 : j \in 1 .. n
      BY <1>1, <2>1
    <3>7. scope_stack'[i].guard = guard /\ \A j \in 1 .. i - 2 : j \in 1 .. n /\ nest'[j] = nest[j]
      BY <1>2, <2>1, <3>5, <3>6
    <3>8. \A j \in 1 .. n : guard \subseteq nest[j].cond
      BY <3>1, <3>2, <3>3, <3>5
    <3>9. ASSUME NEW v \in path_condition, \A j \in 1 .. n : v \in nest[j].cond
          PROVE  v \in guard
      <4>1. v \in scope_stack[n + 1].guard
        BY <3>1, <3>6, <3>9
      <4>2. v \in scope_stack[n + 1].guard_prime
        BY <3>3, <3>4, <3>9
      <4> QED
        BY <3>2, <4>1, <4>2
    <3> QED
      BY <3>6, <3>7, <3>8, <3>9
  <2>2. CASE i \in 1 .. n + 1
    <3>1. /\ scope_stack'[i] = scope_stack[i] /\ i \in 1 .. Len(scope_stack)
          /\ \A j \in 1 .. i - 2 : nest'[j] = nest[j]
      BY <1>1, <1>2, <2>2
    <3> QED
      BY <1>1, <3>1 DEF ScopesExact
  <2> QED
    BY <1>1, <2>1, <2>2
<1> QED
  BY <1>3, <1>4, <1>5, <1>6 DEF Shape

LEMMA ShapeScopeElse ==
  ASSUME TypeOK, Shape, CallScopeElse
  PROVE  Shape'
<1> DEFINE n == Len(nest)
<1>1. /\ nest # << >> /\ Last(nest).kind = "then" /\ ScopeElse /\ KeepsChecking
      /\ nest' = Append(Front(nest), [Last(nest) EXCEPT !.kind = "else", !.cond = Inputs \ @])
  BY DEF CallScopeElse, ScopeOnly
<1>2. /\ n \in Nat /\ n >= 1 /\ ThreadsMatch /\ Nesting /\ ScopesMatch /\ ScopesExact
      /\ Len(scope_stack) = n + 1 /\ nest[n].kind = "then" /\ path_condition' = path_condition
  BY <1>1, NestType, LastAndFront, TypeStays DEF Shape, ScopesMatch
<1>3. /\ Len(nest') = n
      /\ \A i \in 1 .. n - 1 : nest'[i] = nest[i]
      /\ nest'[n].kind = "else"
      /\ nest'[n].cond = Inputs \ nest[n].cond
      /\ nest'[n].thread = nest[n].thread
  BY <1>1, ElseFrame
<1>4. /\ scope_stack' \in Seq(ThreadLocalScope) /\ scope_stack' # << >>
      /\ Len(scope_stack') = n + 1
      /\ \A i \in 1 .. n : scope_stack'[i] = scope_stack[i]
      /\ scope_stack'[n + 1].guard = scope_stack[n + 1].guard
      /\ scope_stack'[n + 1].guard_prime = Inputs \ scope_stack[n + 1].guard_prime
      /\ guard' = GuardOfScope(scope_stack'[n + 1])
      /\ thread_id_stack' = thread_id_stack
  BY <1>1, <1>2, ElseScope
<1>5. Last(scope_stack') = scope_stack'[n + 1]
  BY <1>4, LastAndFront
<1> HIDE DEF n
<1>6. ThreadsMatch'
  <2>1. PICK depth \in [0 .. n -> 1 .. Len(thread_id_stack)] : InThreads(depth)
    BY <1>2 DEF ThreadsMatch, n
  <2>2. /\ depth[0] = 1 /\ depth[n] = Len(thread_id_stack)
        /\ \A i, j \in 0 .. n : i <= j => depth[i] <= depth[j]
        /\ \A i \in 1 .. n : /\ depth[i] = depth[i - 1] + (IF nest[i].kind = "thread" THEN 1 ELSE 0)
                             /\ nest[i].thread = thread_id_stack[depth[i]]
    BY <2>1 DEF InThreads, n
  <2>3. \A i \in 1 .. n : /\ nest'[i].thread = nest[i].thread
                          /\ nest'[i].kind = "thread" <=> nest[i].kind = "thread"
    <3>1. ASSUME NEW i \in 1 .. n
          PROVE  i \in 1 .. n - 1 \/ i = n
      BY <1>2
    <3> QED
      BY <1>2, <1>3, <3>1
  <2>4. InThreads(depth)'
    BY <1>3, <1>4, <2>2, <2>3 DEF InThreads
  <2> QED
    BY <1>2, <1>3, <1>4, <2>1, <2>4 DEF ThreadsMatch
<1>7. Nesting'
  <2> SUFFICES ASSUME NEW i \in 1 .. n, nest'[i].kind = "thread"
               PROVE  /\ nest'[i].cond = Inputs
                      /\ nest'[i].thread > 1
                      /\ \A j \in 1 .. i - 1 :
                           nest'[j].kind = "thread" /\ nest'[j].thread < nest'[i].thread
    BY <1>3 DEF Nesting
  <2>1. i \in 1 .. n - 1
    BY <1>2, <1>3
  <2>2. nest'[i] = nest[i] /\ \A j \in 1 .. i - 1 : nest'[j] = nest[j]
    BY <1>2, <1>3, <2>1
  <2> QED
    BY <1>2, <2>1, <2>2 DEF Nesting, n
<1>8. ScopesMatch'
  <2>1. scope_stack'[1].guard_prime = Inputs
    BY <1>2, <1>4 DEF ScopesMatch
  <2>2. ASSUME NEW i \in 1 .. n
        PROVE  /\ scope_stack'[i + 1].guard_prime = nest'[i].cond
               /\ nest'[i].kind # "thread" => scope_stack'[i + 1].guard = GuardOfScope(scope_stack'[i])
    <3>1. CASE i = n
      <4>1. /\ scope_stack[n + 1].guard_prime = nest[n].cond
            /\ scope_stack[n + 1].guard = GuardOfScope(scope_stack[n])
            /\ scope_stack'[n] = scope_stack[n]
        BY <1>2, <1>4, <3>1 DEF ScopesMatch, n
      <4> QED
        BY <1>3, <1>4, <3>1, <4>1
    <3>2. CASE i \in 1 .. n - 1
      <4>1. i \in 1 .. n /\ i + 1 \in 1 .. n
        BY <1>2, <3>2
      <4> QED
        BY <1>2, <1>3, <1>4, <3>2, <4>1 DEF ScopesMatch, n
    <3> QED
      BY <1>2, <3>1, <3>2
  <2>3. guard' = GuardOfScope(Last(scope_stack'))
    BY <1>4, <1>5 DEF GuardOfScope
  <2> QED
    BY <1>3, <1>4, <2>1, <2>2, <2>3 DEF ScopesMatch
<1>9. ScopesExact'
  <2> SUFFICES ASSUME NEW i \in 1 .. n + 1
               PROVE  /\ \A j \in 1 .. i - 2 : scope_stack'[i].guard \subseteq nest'[j].cond
                      /\ \A v \in path_condition :
                           (\A j \in 1 .. i - 2 : v \in nest'[j].cond) => v \in scope_stack'[i].guard
    BY <1>2, <1>4 DEF ScopesExact
  <2>1. /\ scope_stack'[i].guard = scope_stack[i].guard /\ i \in 1 .. Len(scope_stack)
        /\ \A j \in 1 .. i - 2 : nest'[j] = nest[j]
    BY <1>2, <1>3, <1>4
  <2> QED
    BY <1>2, <2>1 DEF ScopesExact
<1> QED
  BY <1>6, <1>7, <1>8, <1>9 DEF Shape

LEMMA BranchEffect ==
  ASSUME TypeOK, Branch
  PROVE  \E g \in Condition :
           /\ Len(scope_stack') = Len(scope_stack)
           /\ \A i \in 1 .. Len(scope_stack) - 1 : scope_stack'[i] = scope_stack[i]
           /\ scope_stack'[Len(scope_stack)].guard = guard \intersect g
           /\ scope_stack'[Len(scope_stack)].guard_prime = scope_stack[Len(scope_stack)].guard_prime
           /\ Last(scope_stack') = scope_stack'[Len(scope_stack)]
           /\ guard' = guard \intersect g
           /\ guards' = guards \intersect g
           /\ path_condition' = path_condition \intersect g
           /\ branched' = branched \union {Thread}
           /\ UNCHANGED <<event_id_cnt, thread_id_cnt, block_id_cnt, events, thread_id_stack,
                          barrier_list, barrier_map, errors, number_of_paths, phase, nest,
                          joinable, truth, explored>>
           /\ ~InScope
<1>1. PICK g \in Condition, d \in BOOLEAN, hint \in BOOLEAN :
        LET c == [Call("branch") EXCEPT !.cond = g, !.hint = hint]
        IN  /\ c \in CallType /\ c.op = "branch" /\ c.cond = g
            /\ Follow(c, d)
            /\ \/ HasNext /\ TakeNext /\ d = NextDirection
               \/ /\ ~HasNext /\ flip_index = Len(flips)
                  /\ \E f \in BOOLEAN : f = FALSE /\ AppendFlip(d, f)
  BY BranchCases
<1>2. PICK c \in CallType : c.op = "branch" /\ c.cond = g /\ Follow(c, d)
  BY <1>1
<1>3. ~InScope /\ UNCHANGED <<errors, number_of_paths, phase, nest, joinable, truth, explored>>
  BY DEF Branch
<1>4. Side(g, d) \in Condition
  BY SideType
<1>5. /\ TracerAddGuard(Side(g, d))
      /\ guards' = guards \intersect Side(g, d)
      /\ path_condition' = path_condition \intersect Side(g, d)
      /\ branched' = branched \union {Thread}
  BY <1>2 DEF Follow
<1>6. /\ scope_stack' \in Seq(ThreadLocalScope) /\ scope_stack' # << >>
      /\ Len(scope_stack') = Len(scope_stack)
      /\ \A i \in 1 .. Len(scope_stack) - 1 : scope_stack'[i] = scope_stack[i]
      /\ scope_stack'[Len(scope_stack)].guard = guard \intersect Side(g, d)
      /\ scope_stack'[Len(scope_stack)].guard_prime = scope_stack[Len(scope_stack)].guard_prime
      /\ guard' = guard \intersect Side(g, d)
      /\ UNCHANGED <<event_id_cnt, thread_id_cnt, block_id_cnt, events, thread_id_stack,
                     barrier_list, barrier_map>>
  BY <1>4, <1>5, GuardAdded
<1>7. Last(scope_stack') = scope_stack'[Len(scope_stack)]
  BY <1>6, LastAndFront
<1> QED
  BY <1>3, <1>4, <1>5, <1>6, <1>7

LEMMA ShapeBranch ==
  ASSUME TypeOK, Shape, Branch
  PROVE  Shape'
<1> DEFINE n == Len(nest)
<1>1. PICK g \in Condition :
        /\ Len(scope_stack') = Len(scope_stack)
        /\ \A i \in 1 .. Len(scope_stack) - 1 : scope_stack'[i] = scope_stack[i]
        /\ scope_stack'[Len(scope_stack)].guard = guard \intersect g
        /\ scope_stack'[Len(scope_stack)].guard_prime = scope_stack[Len(scope_stack)].guard_prime
        /\ Last(scope_stack') = scope_stack'[Len(scope_stack)]
        /\ guard' = guard \intersect g
        /\ path_condition' = path_condition \intersect g
        /\ UNCHANGED <<thread_id_stack, nest>>
        /\ ~InScope
  BY BranchEffect
<1>2. /\ n \in Nat /\ ThreadsMatch /\ Nesting /\ ScopesMatch /\ ScopesExact
      /\ Len(scope_stack) = n + 1 /\ Last(scope_stack) = scope_stack[n + 1]
  BY NestType, TracerStacks, LastAndFront DEF Shape, ScopesMatch
<1>3. \A i \in 1 .. n : nest[i].kind = "thread" /\ nest[i].cond = Inputs
  BY <1>1, <1>2, OutsideScopes
<1>4. guard = scope_stack[n + 1].guard \intersect scope_stack[n + 1].guard_prime
  BY <1>2 DEF ScopesMatch, GuardOfScope
<1>5. scope_stack[n + 1].guard_prime = Inputs
  <2>1. CASE n = 0
    BY <1>2, <2>1 DEF ScopesMatch
  <2>2. CASE n > 0
    <3>1. n \in 1 .. n
      BY <1>2, <2>2
    <3> QED
      BY <1>2, <1>3, <3>1 DEF ScopesMatch, n
  <2> QED
    BY <1>2, <2>1, <2>2
<1>6. ThreadsMatch' /\ Nesting'
  BY <1>1, <1>2 DEF ThreadsMatch, InThreads, Nesting
<1> HIDE DEF n
<1>7. /\ Len(scope_stack') = n + 1
      /\ \A i \in 1 .. n : scope_stack'[i] = scope_stack[i]
      /\ scope_stack'[n + 1].guard = guard \intersect g
      /\ scope_stack'[n + 1].guard_prime = Inputs
      /\ Last(scope_stack') = scope_stack'[n + 1]
      /\ nest' = nest
  BY <1>1, <1>2, <1>5
<1>8. ScopesMatch'
  <2>1. scope_stack'[1].guard_prime = Inputs
    BY <1>2, <1>7 DEF ScopesMatch
  <2>2. ASSUME NEW i \in 1 .. n
        PROVE  scope_stack'[i + 1].guard_prime = nest'[i].cond /\ nest'[i].kind = "thread"
    <3>1. CASE i = n
      BY <1>3, <1>7, <3>1
    <3>2. CASE i \in 1 .. n - 1
      <4>1. i \in 1 .. n /\ i + 1 \in 1 .. n
        BY <1>2, <3>2
      <4> QED
        BY <1>2, <1>3, <1>7, <4>1 DEF ScopesMatch, n
    <3> QED
      BY <1>2, <3>1, <3>2
  <2>3. guard' = GuardOfScope(Last(scope_stack'))
    <3>1. g \subseteq Inputs /\ guard \subseteq Inputs
      BY EventsTyped DEF Condition
    <3> QED
      BY <1>1, <1>7, <3>1 DEF GuardOfScope
  <2>4. Len(nest') = n
    BY <1>7 DEF n
  <2> QED
    BY <1>7, <2>1, <2>2, <2>3, <2>4 DEF ScopesMatch
<1>9. ScopesExact'
  <2> SUFFICES ASSUME NEW i \in 1 .. n + 1
               PROVE  /\ \A j \in 1 .. i - 2 : scope_stack'[i].guard \subseteq nest[j].cond
                      /\ \A v \in path_condition' :
                           (\A j \in 1 .. i - 2 : v \in nest[j].cond) => v \in scope_stack'[i].guard
    BY <1>1, <1>2, <1>7 DEF ScopesExact
  <2>1. /\ i \in 1 .. Len(scope_stack) /\ path_condition' \subseteq path_condition
        /\ path_condition' \subseteq g /\ path_condition \subseteq Inputs
    BY <1>1, <1>2, CounterType DEF Condition
  <2>2. /\ \A j \in 1 .. i - 2 : scope_stack[i].guard \subseteq nest[j].cond
        /\ \A v \in path_condition :
             (\A j \in 1 .. i - 2 : v \in nest[j].cond) => v \in scope_stack[i].guard
    BY <1>2, <2>1 DEF ScopesExact
  <2>3. CASE i = n + 1
    BY <1>4, <1>5, <1>7, <2>1, <2>2, <2>3
  <2>4. CASE i \in 1 .. n
    BY <1>7, <2>1, <2>2, <2>4
  <2> QED
    BY <1>2, <2>3, <2>4
<1> QED
  BY <1>6, <1>8, <1>9 DEF Shape

LEMMA ShapeNext ==
  ASSUME TypeOK, ScriptOK, Shape, Numbered, [Next]_vars
  PROVE  Shape'
<1>1. CASE \/ \E kind \in Statements : Statement(kind)
           \/ Join \/ CallBarrier \/ AddError \/ Exit \/ FindNoNextPath \/ UNCHANGED vars
  <2>1. UNCHANGED <<nest, thread_id_stack, scope_stack, guard, path_condition>>
    BY <1>1 DEF Statement, Join, CallBarrier, AddError, Exit, FindNoNextPath, vars, AppendEvent,
       AppendJoin, Barrier, KeepsChecking, tracer_vars, program_vars, history_vars
  <2> QED
    BY <2>1, ShapeStays
<1>2. CASE FindNextPath \/ Reset
  BY <1>2, Restarts, ShapeRestart
<1>3. CASE ThreadBegin \/ ThreadEnd
  BY <1>3, ShapeThreadBegin, ShapeThreadEnd
<1>4. CASE CallScopeThen \/ CallScopeElse \/ CallScopeEnd \/ Branch
  BY <1>4, ShapeScopeThen, ShapeScopeElse, ShapeScopeEnd, ShapeBranch
<1> QED
  BY <1>1, <1>2, <1>3, <1>4 DEF Next

-----------------------------------------------------------------------------
(* The script, step by step.                                               *)

LEMMA ScriptInit == Init => ScriptOK
<1> SUFFICES ASSUME Init
             PROVE  ScriptOK
  OBVIOUS
<1>1. script = [p \in {<< >>} |-> << >>] /\ path = << >> /\ pos = 0
  BY DEF Init
<1>2. DOMAIN script = {<< >>} /\ script[<< >>] = << >>
  BY <1>1
<1> QED
  BY <1>1, <1>2 DEF ScriptOK

(* No other call ends a run. *)
LEMMA CallsThatGoOn ==
  ASSUME NEW c, c.op \in Ops \ {"branch", "exit"}
  PROVE  ~Ends(c)
BY DEF Ends, Ops

LEMMA ScriptNext ==
  ASSUME TypeOK, ScriptOK, [Next]_vars
  PROVE  ScriptOK'
<1>1. ASSUME NEW c \in CallType, Calls(c), path' = path, phase' # "run" \/ c.op \in Ops \ {"branch", "exit"}
      PROVE  ScriptOK'
  <2>1. phase' # "run" \/ ~Ends(c)
    BY <1>1, CallsThatGoOn
  <2> QED
    BY <1>1, <2>1, CallEffect
<1>2. KeepsChecking => path' = path
  BY DEF KeepsChecking
<1>3. ASSUME NEW op \in Ops, op \in Ops \ {"branch", "exit"}, Calls(Call(op)), KeepsChecking
      PROVE  ScriptOK'
  <2>1. Call(op) \in CallType /\ Call(op).op = op
    BY StatementKinds, CallTypes
  <2> QED
    BY <1>1, <1>2, <1>3, <2>1
<1>4. ASSUME NEW op \in Ops, op \in Ops \ {"branch", "exit"}, NEW g \in Condition,
             Calls([Call(op) EXCEPT !.cond = g]), KeepsChecking
      PROVE  ScriptOK'
  <2>1. [Call(op) EXCEPT !.cond = g] \in CallType /\ [Call(op) EXCEPT !.cond = g].op = op
    BY StatementKinds, CallTypes
  <2> QED
    BY <1>1, <1>2, <1>4, <2>1
<1>5. ASSUME NEW kind \in Statements, Statement(kind)
      PROVE  ScriptOK'
  <2>1. kind \in Ops /\ kind \in Ops \ {"branch", "exit"}
    BY StatementKinds DEF Ops
  <2> QED
    BY <1>3, <1>5, <2>1 DEF Statement
<1>6. CASE ThreadBegin
  <2>1. "begin" \in Ops /\ "begin" \in Ops \ {"branch", "exit"}
    BY DEF Ops
  <2> QED
    BY <1>3, <1>6, <2>1 DEF ThreadBegin, BeginThread
<1>7. CASE ThreadEnd
  <2>1. "end" \in Ops /\ "end" \in Ops \ {"branch", "exit"}
    BY DEF Ops
  <2> QED
    BY <1>3, <1>7, <2>1 DEF ThreadEnd
<1>8. CASE Join
  <2>1. PICK t \in joinable : Calls([Call("join") EXCEPT !.thread = t])
    BY <1>8 DEF Join
  <2>2. t \in Nat /\ "join" \in Ops /\ "join" \in Ops \ {"branch", "exit"} /\ Inputs \in Condition
    BY CounterType, StatementKinds DEF Ops
  <2>3. [Call("join") EXCEPT !.thread = t] \in CallType /\ [Call("join") EXCEPT !.thread = t].op = "join"
    BY <2>2, CallTypes
  <2> QED
    BY <1>1, <1>2, <1>8, <2>1, <2>2, <2>3 DEF Join
<1>9. CASE CallBarrier
  <2>1. "barrier" \in Ops /\ "barrier" \in Ops \ {"branch", "exit"}
    BY DEF Ops
  <2> QED
    BY <1>3, <1>9, <2>1 DEF CallBarrier
<1>10. CASE CallScopeThen
  <2>1. PICK g \in Conditions["then"] : Calls([Call("then") EXCEPT !.cond = g])
    BY <1>10 DEF CallScopeThen
  <2>2. "then" \in Ops /\ "then" \in Ops \ {"branch", "exit"} /\ g \in Condition
    BY StatementKinds DEF Ops
  <2> QED
    BY <1>4, <1>10, <2>1, <2>2 DEF CallScopeThen, ScopeOnly
<1>11. CASE CallScopeElse
  <2>1. "else" \in Ops /\ "else" \in Ops \ {"branch", "exit"}
    BY DEF Ops
  <2> QED
    BY <1>3, <1>11, <2>1 DEF CallScopeElse, ScopeOnly
<1>12. CASE CallScopeEnd
  <2>1. "endif" \in Ops /\ "endif" \in Ops \ {"branch", "exit"}
    BY DEF Ops
  <2> QED
    BY <1>3, <1>12, <2>1 DEF CallScopeEnd, ScopeOnly
<1>13. CASE AddError
  <2>1. PICK g \in Conditions["error"] : Calls([Call("error") EXCEPT !.cond = g])
    BY <1>13 DEF AddError
  <2>2. "error" \in Ops /\ "error" \in Ops \ {"branch", "exit"} /\ g \in Condition
    BY StatementKinds DEF Ops
  <2> QED
    BY <1>4, <1>13, <2>1, <2>2 DEF AddError
<1>14. CASE Branch
  <2>1. \E c \in CallType, d \in BOOLEAN : c.op = "branch" /\ Follow(c, d)
    BY <1>14, BranchCases
  <2>2. phase' = phase
    BY <1>14 DEF Branch
  <2> QED
    BY <2>1, <2>2, FollowEffect
<1>15. CASE Exit
  <2>1. Call("exit") \in CallType /\ Calls(Call("exit")) /\ path' = path /\ phase' # "run"
    BY <1>15, PlainCalls DEF Exit
  <2> QED
    BY <1>1, <2>1
<1>16. CASE FindNextPath \/ Reset
  <2>1. /\ script' \in [DOMAIN script' -> Seq(CallType)] /\ path' = << >> /\ path' \in DOMAIN script'
        /\ DOMAIN script' \subseteq Seq(BOOLEAN) /\ pos' = 0
        /\ \A p \in DOMAIN script' : \A i \in 1 .. Len(script'[p]) - 1 : ~Ends(script'[p][i])
    BY <1>16, Restarts DEF ProgramStarts
  <2>2. 1 .. pos' = {}
    BY <2>1
  <2> QED
    BY <2>1, <2>2 DEF ScriptOK
<1>17. CASE FindNoNextPath
  <2>1. UNCHANGED <<script, path, pos>> /\ phase' = "done"
    BY <1>17 DEF FindNoNextPath, program_vars
  <2> QED
    BY <2>1 DEF ScriptOK
<1>18. CASE UNCHANGED vars
  <2>1. UNCHANGED <<script, path, pos, phase>>
    BY <1>18 DEF vars, program_vars
  <2> QED
    BY <2>1 DEF ScriptOK
<1> QED
  BY <1>5, <1>6, <1>7, <1>8, <1>9, <1>10, <1>11, <1>12, <1>13, <1>14, <1>15, <1>16, <1>17, <1>18
     DEF Next

-----------------------------------------------------------------------------
(* What is recorded, step by step.                                         *)

Records(kind, id, sync) ==
  /\ events' = Append(events, NewEvent(kind, id))
  /\ truth' = Append(truth, Happens(sync))

LEMMA HappensType ==
  ASSUME TypeOK, NEW sync \in SyncType
  PROVE  /\ Happens(sync) \in TruthIn({Enclosing})
         /\ Happens(sync).thread = Thread
         /\ Happens(sync).sync = sync
         /\ Happens(sync).reach = Reach
BY ThreadType, ReachType DEF Happens, Truth, TruthIn

(* The history is well typed, whatever encloses the statements. *)
LEMMA TruthGrows ==
  ASSUME TruthOK, NEW T, NEW e \in TruthIn(T), truth' = Append(truth, e)
  PROVE  TruthOK'
<1>1. PICK S : truth \in Seq(TruthIn(S))
  BY DEF TruthOK
<1>2. PICK U : U = S \union T
  OBVIOUS
<1>3. TruthIn(S) \subseteq TruthIn(U) /\ e \in TruthIn(U)
  BY <1>2 DEF TruthIn
<1>4. truth \in Seq(TruthIn(U))
  BY <1>1, <1>3
<1>5. truth' \in Seq(TruthIn(U))
  BY <1>3, <1>4, Appended
<1> QED
  BY <1>5 DEF TruthOK, TruthIn

(* One more event and what it really is *)
LEMMA OneMoreEvent ==
  ASSUME TypeOK, TruthOK, NEW kind \in Kind, NEW id \in Nat, NEW sync \in SyncType,
         Records(kind, id, sync)
  PROVE  /\ Len(events) \in Nat /\ Len(truth) = Len(events)
         /\ DOMAIN events = 1 .. Len(events)
         /\ DOMAIN events' = 1 .. Len(events) + 1
         /\ Len(truth') = Len(events) + 1
         /\ \A i \in 1 .. Len(events) : events'[i] = events[i] /\ truth'[i] = truth[i]
         /\ events'[Len(events) + 1].event_id = id
         /\ events'[Len(events) + 1].thread_id = current_thread_id
         /\ events'[Len(events) + 1].guard = guard
         /\ truth'[Len(events) + 1].thread = Thread
         /\ truth'[Len(events) + 1].sync = sync
         /\ truth'[Len(events) + 1].reach = Reach
         /\ TruthOK'
<1>1. /\ NewEvent(kind, id) \in Event
      /\ NewEvent(kind, id).event_id = id
      /\ NewEvent(kind, id).thread_id = current_thread_id
      /\ NewEvent(kind, id).guard = guard
  BY EventType
<1>2. /\ events \in Seq(Event) /\ Len(events) \in Nat /\ DOMAIN events = 1 .. Len(events)
      /\ Len(truth) = Len(events)
  BY EventsTyped, CounterType
<1>3. /\ Happens(sync) \in TruthIn({Enclosing})
      /\ Happens(sync).thread = Thread
      /\ Happens(sync).sync = sync
      /\ Happens(sync).reach = Reach
  BY HappensType
<1>4. /\ events' = Append(events, NewEvent(kind, id))
      /\ truth' = Append(truth, Happens(sync))
  BY DEF Records
<1>5. /\ Len(truth') = Len(truth) + 1
      /\ truth'[Len(truth) + 1] = Happens(sync)
      /\ \A i \in 1 .. Len(truth) : truth'[i] = truth[i]
  BY <1>4, OneMoreTruth
<1>6. /\ events' \in Seq(Event)
      /\ Len(events') = Len(events) + 1
      /\ events'[Len(events) + 1] = NewEvent(kind, id)
      /\ \A i \in 1 .. Len(events) : events'[i] = events[i]
  BY <1>1, <1>2, <1>4, Appended
<1>7. TruthOK'
  BY <1>3, <1>4, TruthGrows
<1>8. DOMAIN events' = 1 .. Len(events) + 1
  BY <1>6
<1> QED
  BY <1>1, <1>2, <1>3, <1>5, <1>6, <1>7, <1>8

(* The program's statements and joins, and ends of its threads *)
LEMMA StatementRecords ==
  ASSUME TypeOK, NEW kind \in Statements, Statement(kind)
  PROVE  /\ kind \in Kind /\ event_id_cnt \in Nat /\ Len(truth) \in Nat
         /\ <<"alone", Len(truth)>> \in SyncType
         /\ Records(kind, event_id_cnt, <<"alone", Len(truth)>>)
         /\ event_id_cnt' = event_id_cnt + 1
         /\ UNCHANGED <<thread_id_cnt, thread_id_stack, barrier_list, barrier_map, joinable, nest,
                        scope_stack, guard, guards, errors>>
<1>1. kind \in Kind /\ event_id_cnt \in Nat /\ Len(truth) \in Nat
  BY StatementKinds, EventsTyped, CounterType
<1> QED
  BY <1>1 DEF Statement, AppendEvent, Records, SyncType

LEMMA ThreadEndRecords ==
  ASSUME TypeOK, ThreadsMatch, ThreadEnd
  PROVE  /\ "thread_end" \in Kind /\ event_id_cnt \in Nat
         /\ <<"end", Thread>> \in SyncType
         /\ Records("thread_end", event_id_cnt, <<"end", Thread>>)
         /\ event_id_cnt' = event_id_cnt + 1
         /\ thread_id_stack' = Front(thread_id_stack)
         /\ joinable' = joinable \union {Thread}
         /\ UNCHANGED <<thread_id_cnt, barrier_list, barrier_map>>
<1>1. "thread_end" \in Kind /\ event_id_cnt \in Nat
  BY EventsTyped DEF Kind
<1>2. Thread \in Nat /\ Thread = current_thread_id
  BY ThreadIsCurrent
<1> QED
  BY <1>1, <1>2 DEF ThreadEnd, AppendThreadEnd, Records, SyncType

LEMMA JoinRecords ==
  ASSUME TypeOK, Joinable, Join
  PROVE  \E t \in joinable, i \in 1 .. Len(events) :
           /\ truth[i].sync = <<"end", t>>
           /\ "thread_end" \in Kind /\ events[i].event_id \in Nat
           /\ <<"end", t>> \in SyncType
           /\ Records("thread_end", events[i].event_id, <<"end", t>>)
           /\ joinable' = joinable \ {t}
           /\ UNCHANGED <<event_id_cnt, thread_id_cnt, thread_id_stack, barrier_list,
                          barrier_map, nest, scope_stack, guard, guards, errors>>
<1>1. PICK t \in joinable :
        /\ AppendJoin(t)
        /\ joinable' = joinable \ {t}
        /\ truth' = Append(truth, Happens(<<"end", t>>))
  BY DEF Join
<1>2. PICK i \in 1 .. Len(events) : truth[i].sync = <<"end", t>> /\ LastEventOf(t) = events[i]
  BY JoinedEvent
<1>3. t \in Nat /\ events[i].event_id \in Nat /\ "thread_end" \in Kind
  BY CounterType, EventsTyped DEF Kind
<1>4. <<"end", t>> \in SyncType
  BY <1>3 DEF SyncType
<1>5. Records("thread_end", events[i].event_id, <<"end", t>>)
  BY <1>1, <1>2 DEF AppendJoin, Records
<1>6. UNCHANGED <<event_id_cnt, thread_id_cnt, thread_id_stack, barrier_list, barrier_map, nest,
                  scope_stack, guard, guards, errors>>
  BY <1>1 DEF Join, AppendJoin
<1> QED
  BY <1>1, <1>2, <1>3, <1>4, <1>5, <1>6

LEMMA BarrierRecords ==
  ASSUME TypeOK, ThreadsMatch, Numbered, CallBarrier
  PROVE  /\ "barrier" \in Kind /\ barrier_list'[BarrierNumber] \in Nat
         /\ <<"barrier", BarrierNumber>> \in SyncType
         /\ Records("barrier", barrier_list'[BarrierNumber], <<"barrier", BarrierNumber>>)
         /\ BarrierNumber \in 1 .. Len(barrier_list')
         /\ barrier_map' = [u \in DOMAIN barrier_map \union {Thread} |->
                              IF u = Thread THEN BarrierNumber ELSE barrier_map[u]]
         /\ \/ UNCHANGED <<event_id_cnt, barrier_list>>
            \/ /\ BarrierNumber = Len(barrier_list) + 1
               /\ Len(barrier_list') = Len(barrier_list) + 1
               /\ barrier_list'[Len(barrier_list) + 1] = event_id_cnt
               /\ \A n \in 1 .. Len(barrier_list) : barrier_list'[n] = barrier_list[n]
               /\ event_id_cnt' = event_id_cnt + 1
         /\ UNCHANGED <<thread_id_cnt, thread_id_stack, joinable, nest, scope_stack, guard,
                        guards, errors>>
<1>1. /\ Barrier
      /\ truth' = Append(truth, Happens(<<"barrier", NextBarrier>>))
      /\ UNCHANGED <<joinable, nest, guards, errors>>
  BY DEF CallBarrier
<1>2. NextBarrier = BarrierNumber /\ Thread = current_thread_id
  BY NumbersMatch, ThreadIsCurrent
<1>3. /\ BarrierNumber \in 1 .. Len(barrier_list')
      /\ barrier_map' = [u \in DOMAIN barrier_map \union {current_thread_id} |->
                           IF u = current_thread_id THEN BarrierNumber ELSE barrier_map[u]]
      /\ barrier_list' \in Seq(Nat)
      /\ events' = Append(events, NewEvent("barrier", barrier_list'[BarrierNumber]))
      /\ \/ UNCHANGED <<event_id_cnt, barrier_list>>
         \/ /\ BarrierNumber = Len(barrier_list) + 1
            /\ Len(barrier_list') = Len(barrier_list) + 1
            /\ barrier_list'[Len(barrier_list) + 1] = event_id_cnt
            /\ \A n \in 1 .. Len(barrier_list) : barrier_list'[n] = barrier_list[n]
            /\ event_id_cnt' = event_id_cnt + 1
  BY <1>1, BarrierEffect
<1>4. /\ barrier_list'[BarrierNumber] \in Nat /\ BarrierNumber \in Nat
      /\ "barrier" \in Kind
  BY <1>3 DEF Kind
<1>5. <<"barrier", BarrierNumber>> \in SyncType
  BY <1>4 DEF SyncType
<1>6. Records("barrier", barrier_list'[BarrierNumber], <<"barrier", BarrierNumber>>)
  BY <1>1, <1>2, <1>3 DEF Records
<1>7. UNCHANGED <<thread_id_cnt, thread_id_stack, scope_stack, guard>>
  BY <1>1 DEF Barrier
<1> QED
  BY <1>1, <1>2, <1>3, <1>4, <1>5, <1>6, <1>7

(* The two events that a parent and its child share *)
LEMMA ThreadBeginRecords ==
  ASSUME TypeOK, TruthOK, ThreadsMatch, Numbered, ThreadBegin
  PROVE  /\ Len(events) \in Nat /\ Len(truth) = Len(events)
         /\ DOMAIN events = 1 .. Len(events)
         /\ DOMAIN events' = 1 .. Len(events) + 2
         /\ Len(truth') = Len(events) + 2
         /\ \A i \in 1 .. Len(events) : events'[i] = events[i] /\ truth'[i] = truth[i]
         /\ \A i \in {Len(events) + 1, Len(events) + 2} :
              events'[i].event_id = event_id_cnt /\ truth'[i].sync = <<"start", thread_id_cnt>>
         /\ events'[Len(events) + 1].thread_id = current_thread_id
         /\ truth'[Len(events) + 1].thread = Thread
         /\ events'[Len(events) + 2].thread_id = thread_id_cnt
         /\ truth'[Len(events) + 2].thread = thread_id_cnt
         /\ events'[Len(events) + 1].guard = guard
         /\ truth'[Len(events) + 1].reach = Reach
         /\ events'[Len(events) + 2].guard = Inputs
         /\ truth'[Len(events) + 2].reach = Reach
         /\ TruthOK'
         /\ event_id_cnt' = event_id_cnt + 1 /\ event_id_cnt \in Nat
         /\ thread_id_cnt' = thread_id_cnt + 1 /\ thread_id_cnt \in Nat
         /\ thread_id_stack' = Append(thread_id_stack, thread_id_cnt)
         /\ UNCHANGED <<barrier_list, barrier_map, joinable>>
<1> DEFINE e == NewEvent("thread_begin", event_id_cnt)
           c == [kind |-> "thread_begin", event_id |-> event_id_cnt,
                 thread_id |-> thread_id_cnt, block_id |-> block_id_cnt,
                 scope_level |-> 0, guard |-> Inputs]
           sync == <<"start", thread_id_cnt>>
           f == Truth(thread_id_cnt, << >>, Reach, sync)
<1>1. /\ AppendThreadBegin /\ UNCHANGED joinable
      /\ truth' = truth \o <<Happens(sync), f>>
  BY NumbersMatch DEF ThreadBegin, BeginThread
<1>2. /\ "thread_begin" \in Kind /\ event_id_cnt \in Nat /\ block_id_cnt \in Nat
      /\ thread_id_cnt \in Nat /\ Inputs \in Condition /\ path_condition \in Condition
  BY EventsTyped, CounterType, StatementKinds DEF Kind
<1>3. /\ e \in Event /\ e.event_id = event_id_cnt /\ e.thread_id = current_thread_id
      /\ e.guard = guard
  BY <1>2, EventType
<1>4. /\ c \in Event /\ c.event_id = event_id_cnt /\ c.thread_id = thread_id_cnt
      /\ c.guard = Inputs
  BY <1>2 DEF Event
<1>5. /\ events' = events \o <<e, c>>
      /\ event_id_cnt' = event_id_cnt + 1
      /\ thread_id_cnt' = thread_id_cnt + 1
      /\ thread_id_stack' = Append(thread_id_stack, thread_id_cnt)
      /\ UNCHANGED <<barrier_list, barrier_map>>
  BY <1>1 DEF AppendThreadBegin
<1>6. sync \in SyncType
  BY <1>2 DEF SyncType
<1>7. /\ Happens(sync) \in TruthIn({Enclosing})
      /\ Happens(sync).thread = Thread
      /\ Happens(sync).sync = sync
      /\ Happens(sync).reach = Reach
  BY <1>6, HappensType
<1>8. /\ f \in TruthIn({<< >>}) /\ f.thread = thread_id_cnt /\ f.sync = sync
      /\ f.reach = Reach
  BY <1>2, <1>6, ReachType DEF Truth, TruthIn
<1> HIDE DEF e, c, f, sync
<1>9. /\ events' \in Seq(Event)
      /\ Len(events') = Len(events) + 2
      /\ events'[Len(events) + 1] = e
      /\ events'[Len(events) + 2] = c
      /\ \A i \in 1 .. Len(events) : events'[i] = events[i]
  BY <1>3, <1>4, <1>5, EventsTyped, AppendedTwo
<1>10. /\ Len(truth') = Len(truth) + 2 /\ Len(truth) \in Nat
       /\ truth'[Len(truth) + 1] = Happens(sync)
       /\ truth'[Len(truth) + 2] = f
       /\ \A i \in 1 .. Len(truth) : truth'[i] = truth[i]
       /\ TruthOK'
  <2>1. PICK S : truth \in Seq(TruthIn(S))
    BY DEF TruthOK
  <2>2. PICK U : U = S \union {Enclosing, << >>}
    OBVIOUS
  <2>3. /\ TruthIn(S) \subseteq TruthIn(U)
        /\ Happens(sync) \in TruthIn(U) /\ f \in TruthIn(U)
    BY <1>7, <1>8, <2>2 DEF TruthIn
  <2>4. truth \in Seq(TruthIn(U))
    BY <2>1, <2>3
  <2>5. /\ truth' \in Seq(TruthIn(U))
        /\ Len(truth') = Len(truth) + 2 /\ Len(truth) \in Nat
        /\ truth'[Len(truth) + 1] = Happens(sync)
        /\ truth'[Len(truth) + 2] = f
        /\ \A i \in 1 .. Len(truth) : truth'[i] = truth[i]
    BY <1>1, <2>3, <2>4, AppendedTwo
  <2>6. TruthOK'
    BY <2>5 DEF TruthOK, TruthIn
  <2> QED
    BY <2>5, <2>6
<1>11. /\ Len(events) \in Nat /\ Len(truth) = Len(events) /\ DOMAIN events = 1 .. Len(events)
       /\ DOMAIN events' = 1 .. Len(events) + 2
  BY <1>9, EventsTyped, CounterType
<1> QED
  BY <1>1, <1>2, <1>3, <1>4, <1>5, <1>7, <1>8, <1>9, <1>10, <1>11 DEF sync

LEMMA TruthNext ==
  ASSUME TypeOK, ScriptOK, Shape, TruthOK, Numbered, Joinable, [Next]_vars
  PROVE  TruthOK'
<1>1. \A kind \in Statements : Statement(kind) => TruthOK'
  BY StatementRecords, OneMoreEvent
<1>2. ThreadBegin => TruthOK'
  BY ThreadBeginRecords DEF Shape
<1>3. ThreadEnd => TruthOK'
  BY ThreadEndRecords, OneMoreEvent DEF Shape
<1>4. Join => TruthOK'
  BY JoinRecords, OneMoreEvent
<1>5. CallBarrier => TruthOK'
  BY BarrierRecords, OneMoreEvent DEF Shape
<1>6. CASE \/ CallScopeThen \/ CallScopeElse \/ CallScopeEnd \/ AddError \/ Branch \/ Exit
           \/ FindNoNextPath \/ UNCHANGED vars
  <2>1. truth' = truth
    BY <1>6 DEF CallScopeThen, CallScopeElse, CallScopeEnd, ScopeOnly, AddError, Branch, Exit,
       FindNoNextPath, vars, history_vars
  <2> QED
    BY <2>1 DEF TruthOK, TruthIn
<1>7. CASE FindNextPath \/ Reset
  <2>1. truth' = << >>
    BY <1>7, Restarts DEF ProgramStarts
  <2>2. truth' \in Seq(TruthIn({}))
    BY <2>1
  <2> QED
    BY <2>2 DEF TruthOK, TruthIn
<1> QED
  BY <1>1, <1>2, <1>3, <1>4, <1>5, <1>6, <1>7 DEF Next

LEMMA TruthInit == Init => TruthOK
<1> SUFFICES ASSUME Init
             PROVE  TruthOK
  OBVIOUS
<1>1. truth \in Seq(TruthIn({}))
  BY DEF Init
<1> QED
  BY <1>1 DEF TruthOK

-----------------------------------------------------------------------------
(* Identifiers, step by step.                                              *)

LEMMA TruthTypes ==
  ASSUME TypeOK, TruthOK
  PROVE  /\ Len(events) \in Nat /\ DOMAIN events = 1 .. Len(events)
         /\ DOMAIN truth = 1 .. Len(events)
         /\ \A i \in 1 .. Len(events) : /\ truth[i].sync \in SyncType
                                        /\ truth[i].sync[2] \in Nat
                                        /\ truth[i].thread \in Nat
                                        /\ truth[i].reach \in Condition
<1>1. PICK S : truth \in Seq(TruthIn(S))
  BY DEF TruthOK
<1>2. \A i \in 1 .. Len(truth) : truth[i] \in TruthIn(S)
  BY <1>1
<1>3. \A s \in SyncType : s[2] \in Nat
  BY DEF SyncType
<1> QED
  BY <1>1, <1>2, <1>3, EventsTyped, CounterType DEF TruthIn

(* What has started, and the barriers of a thread *)
LEMMA SyncsNow ==
  ASSUME TypeOK, TruthOK
  PROVE  /\ \A s : s \in Starts <=>
                   \E i \in 1 .. Len(events) : truth[i].sync = s /\ s[1] = "start"
         /\ \A t, s : s \in Barriers(t) <=>
                      \E i \in 1 .. Len(events) :
                         truth[i].sync = s /\ s[1] = "barrier" /\ truth[i].thread = t
<1>1. DOMAIN truth = 1 .. Len(events)
  BY TruthTypes
<1> QED
  BY <1>1 DEF Starts, Barriers, Syncs, ToSet

LEMMA SyncsLater ==
  ASSUME NEW n \in Nat, n = Len(truth'), TruthOK'
  PROVE  /\ \A s : s \in Starts' <=> \E i \in 1 .. n : truth'[i].sync = s /\ s[1] = "start"
         /\ \A t, s : s \in Barriers(t)' <=>
                      \E i \in 1 .. n :
                         truth'[i].sync = s /\ s[1] = "barrier" /\ truth'[i].thread = t
<1>1. PICK S : truth' \in Seq(TruthIn(S)')
  BY DEF TruthOK
<1>2. DOMAIN truth' = 1 .. n
  BY <1>1
<1> QED
  BY <1>2 DEF Starts, Barriers, Syncs, ToSet

OnStackLater(t) == \E k \in 1 .. Len(thread_id_stack') : thread_id_stack'[k] = t

(* One more event that is neither a start nor a barrier *)
LEMMA NumberedGrows ==
  ASSUME TypeOK, TruthOK, Numbered,
         NEW kind \in Kind, NEW id \in Nat, NEW what \in {"alone", "end"}, NEW n \in Nat,
         <<what, n>> \in SyncType, Records(kind, id, <<what, n>>),
         UNCHANGED <<thread_id_cnt, barrier_map>>,
         \A t : OnStackLater(t) => OnStack(t),
         what = "alone" => n = Len(truth),
         what = "end" => n < thread_id_cnt /\ ~OnStackLater(n)
  PROVE  Numbered'
<1> DEFINE len == Len(events)
<1>1. /\ len \in Nat /\ Len(truth) = len /\ Len(truth') = len + 1 /\ DOMAIN events = 1 .. len
      /\ DOMAIN events' = 1 .. len + 1
      /\ \A i \in 1 .. len : truth'[i] = truth[i]
      /\ truth'[len + 1].sync = <<what, n>>
      /\ TruthOK'
  BY OneMoreEvent
<1> HIDE DEF len
<1>2. /\ \A s : s \in Starts <=> \E i \in 1 .. len : truth[i].sync = s /\ s[1] = "start"
      /\ \A t, s : s \in Barriers(t) <=>
           \E i \in 1 .. len : truth[i].sync = s /\ s[1] = "barrier" /\ truth[i].thread = t
  BY SyncsNow DEF len
<1>3. /\ \A s : s \in Starts' <=> \E i \in 1 .. len + 1 : truth'[i].sync = s /\ s[1] = "start"
      /\ \A t, s : s \in Barriers(t)' <=>
           \E i \in 1 .. len + 1 : truth'[i].sync = s /\ s[1] = "barrier" /\ truth'[i].thread = t
  BY <1>1, SyncsLater
<1>4. <<what, n>>[1] = what /\ <<what, n>>[2] = n /\ what # "start" /\ what # "barrier"
  OBVIOUS
<1>5. Starts' = Starts
  <2>1. \A s : s \in Starts' <=> s \in Starts
    BY <1>1, <1>2, <1>3, <1>4
  <2> QED
    BY <2>1
<1>6. ASSUME NEW t
      PROVE  Barriers(t)' = Barriers(t)
  <2>1. \A s : s \in Barriers(t)' <=> s \in Barriers(t)
    BY <1>1, <1>2, <1>3, <1>4
  <2> QED
    BY <2>1
<1>7. ASSUME NEW i \in 1 .. len + 1
      PROVE  /\ truth'[i].sync[1] = "alone" => truth'[i].sync[2] < len + 1
             /\ truth'[i].sync[1] = "start" => truth'[i].sync[2] < thread_id_cnt
             /\ truth'[i].sync[1] = "end" =>
                  truth'[i].sync[2] < thread_id_cnt /\ ~OnStackLater(truth'[i].sync[2])
  <2>1. CASE i = len + 1
    BY <1>1, <1>4, <2>1
  <2>2. CASE i \in 1 .. len
    <3>1. /\ truth'[i] = truth[i] /\ truth[i].sync[2] \in Nat
          /\ truth[i].sync[1] = "alone" => truth[i].sync[2] < len
          /\ truth[i].sync[1] = "start" => truth[i].sync[2] < thread_id_cnt
          /\ truth[i].sync[1] = "end" =>
               truth[i].sync[2] < thread_id_cnt /\ ~OnStack(truth[i].sync[2])
      BY <1>1, <2>2, TruthTypes DEF Numbered
    <3> QED
      BY <1>1, <3>1
  <2> QED
    BY <1>1, <2>1, <2>2
<1> QED
  BY <1>1, <1>5, <1>6, <1>7 DEF Numbered, BarriersOf, OnStack, OnStackLater

LEMMA NumberedBarrier ==
  ASSUME TypeOK, TruthOK, ThreadsMatch, Numbered, CallBarrier
  PROVE  Numbered'
<1> DEFINE len == Len(events)
<1>0. PICK b \in Nat, u \in Nat : b = BarrierNumber /\ u = Thread
  BY BarrierRecords, ThreadType
<1>1. /\ len \in Nat /\ Len(truth) = len /\ Len(truth') = len + 1 /\ DOMAIN events = 1 .. len
      /\ DOMAIN events' = 1 .. len + 1
      /\ \A i \in 1 .. len : truth'[i] = truth[i]
      /\ truth'[len + 1].sync = <<"barrier", b>>
      /\ truth'[len + 1].thread = u
      /\ TruthOK'
  BY <1>0, BarrierRecords, OneMoreEvent
<1> HIDE DEF len
<1>2. /\ \A s : s \in Starts <=> \E i \in 1 .. len : truth[i].sync = s /\ s[1] = "start"
      /\ \A t, s : s \in Barriers(t) <=>
           \E i \in 1 .. len : truth[i].sync = s /\ s[1] = "barrier" /\ truth[i].thread = t
  BY SyncsNow DEF len
<1>3. /\ \A s : s \in Starts' <=> \E i \in 1 .. len + 1 : truth'[i].sync = s /\ s[1] = "start"
      /\ \A t, s : s \in Barriers(t)' <=>
           \E i \in 1 .. len + 1 : truth'[i].sync = s /\ s[1] = "barrier" /\ truth'[i].thread = t
  BY <1>1, SyncsLater
<1>4. <<"barrier", b>>[1] = "barrier" /\ <<"barrier", b>>[2] = b
  OBVIOUS
<1>5. Starts' = Starts
  <2>1. \A s : s \in Starts' <=> s \in Starts
    BY <1>1, <1>2, <1>3, <1>4
  <2> QED
    BY <2>1
<1>6. /\ barrier_map' = [v \in DOMAIN barrier_map \union {u} |->
                           IF v = u THEN b ELSE barrier_map[v]]
      /\ b = BarriersOf(u) + 1
      /\ UNCHANGED <<thread_id_cnt, thread_id_stack>>
  BY <1>0, BarrierRecords, ThreadIsCurrent DEF BarrierNumber
<1>7. ASSUME NEW t \in Nat
      PROVE  /\ IsFiniteSet(Barriers(t))'
             /\ BarriersOf(t)' = Cardinality(Barriers(t)')
             /\ \A s \in Barriers(t)' : s[2] <= BarriersOf(t)'
  <2>1. /\ IsFiniteSet(Barriers(t)) /\ BarriersOf(t) = Cardinality(Barriers(t))
        /\ \A s \in Barriers(t) : s[2] <= BarriersOf(t)
    BY DEF Numbered
  <2>2. BarriersOf(t) \in Nat
    BY <2>1, FS_CardinalityType
  <2>3. CASE t # u
    <3>1. \A s : s \in Barriers(t)' <=> s \in Barriers(t)
      BY <1>1, <1>2, <1>3, <2>3
    <3>2. Barriers(t)' = Barriers(t)
      BY <3>1
    <3>3. BarriersOf(t)' = BarriersOf(t)
      BY <1>6, <2>3 DEF BarriersOf
    <3> QED
      BY <2>1, <3>2, <3>3
  <2>4. CASE t = u
    <3>1. ASSUME NEW s
          PROVE  s \in Barriers(t)' <=> s \in Barriers(t) \/ s = <<"barrier", b>>
      <4>1. ASSUME s \in Barriers(t)'
            PROVE  s \in Barriers(t) \/ s = <<"barrier", b>>
        <5>1. PICK i \in 1 .. len + 1 :
                truth'[i].sync = s /\ s[1] = "barrier" /\ truth'[i].thread = t
          BY <1>3, <4>1
        <5>2. i \in 1 .. len \/ i = len + 1
          BY <1>1
        <5> QED
          BY <1>1, <1>2, <5>1, <5>2
      <4>2. ASSUME s \in Barriers(t)
            PROVE  s \in Barriers(t)'
        <5>1. PICK i \in 1 .. len :
                truth[i].sync = s /\ s[1] = "barrier" /\ truth[i].thread = t
          BY <1>2, <4>2
        <5>2. i \in 1 .. len + 1
          BY <1>1
        <5> QED
          BY <1>1, <1>3, <5>1, <5>2
      <4>3. ASSUME s = <<"barrier", b>>
            PROVE  s \in Barriers(t)'
        <5>1. len + 1 \in 1 .. len + 1
          BY <1>1
        <5> QED
          BY <1>1, <1>3, <1>4, <2>4, <4>3, <5>1
      <4> QED
        BY <4>1, <4>2, <4>3
    <3>2. Barriers(t)' = Barriers(t) \union {<<"barrier", b>>}
      BY <3>1
    <3>3. BarriersOf(t)' = b
      BY <1>6, <2>4 DEF BarriersOf
    <3>4. b = BarriersOf(t) + 1
      BY <1>6, <2>4
    <3>5. <<"barrier", b>> \notin Barriers(t)
      BY <1>4, <2>1, <2>2, <3>4
    <3>6. /\ IsFiniteSet(Barriers(t) \union {<<"barrier", b>>})
          /\ Cardinality(Barriers(t) \union {<<"barrier", b>>}) = Cardinality(Barriers(t)) + 1
      BY <2>1, <3>5, FS_AddElement
    <3>7. ASSUME NEW s \in Barriers(t)'
          PROVE  s[2] <= b
      <4>1. CASE s = <<"barrier", b>>
        BY <1>4, <4>1
      <4>2. CASE s \in Barriers(t)
        <5>1. PICK i \in 1 .. len : truth[i].sync = s
          BY <1>2, <4>2
        <5>2. s[2] \in Nat
          BY <5>1, TruthTypes DEF len
        <5> QED
          BY <2>1, <2>2, <3>4, <4>2, <5>2
      <4> QED
        BY <3>1, <4>1, <4>2
    <3> QED
      BY <2>1, <3>2, <3>3, <3>4, <3>6, <3>7
  <2> QED
    BY <2>3, <2>4
<1>8. ASSUME NEW i \in 1 .. len + 1
      PROVE  /\ truth'[i].sync[1] = "alone" => truth'[i].sync[2] < len + 1
             /\ truth'[i].sync[1] = "start" => truth'[i].sync[2] < thread_id_cnt
             /\ truth'[i].sync[1] = "end" =>
                  truth'[i].sync[2] < thread_id_cnt /\ ~OnStack(truth'[i].sync[2])
  <2>1. CASE i = len + 1
    BY <1>1, <1>4, <2>1
  <2>2. CASE i \in 1 .. len
    <3>1. /\ truth'[i] = truth[i] /\ truth[i].sync[2] \in Nat
          /\ truth[i].sync[1] = "alone" => truth[i].sync[2] < len
          /\ truth[i].sync[1] = "start" => truth[i].sync[2] < thread_id_cnt
          /\ truth[i].sync[1] = "end" =>
               truth[i].sync[2] < thread_id_cnt /\ ~OnStack(truth[i].sync[2])
      BY <1>1, <2>2, TruthTypes DEF Numbered
    <3> QED
      BY <1>1, <3>1
  <2> QED
    BY <1>1, <2>1, <2>2
<1>9. IsFiniteSet(Starts) /\ thread_id_cnt = 2 + Cardinality(Starts)
  BY DEF Numbered
<1> QED
  BY <1>1, <1>5, <1>6, <1>7, <1>8, <1>9 DEF Numbered, OnStack

LEMMA NumberedBegin ==
  ASSUME TypeOK, TruthOK, ThreadsMatch, Numbered, ThreadBegin
  PROVE  Numbered'
<1> DEFINE len == Len(events)
<1>0. PICK u \in Nat : u = thread_id_cnt
  BY CounterType
<1>1. /\ len \in Nat /\ Len(truth) = len /\ Len(truth') = len + 2 /\ DOMAIN events = 1 .. len
      /\ DOMAIN events' = 1 .. len + 2
      /\ \A i \in 1 .. len : truth'[i] = truth[i]
      /\ truth'[len + 1].sync = <<"start", u>> /\ truth'[len + 2].sync = <<"start", u>>
      /\ TruthOK' /\ thread_id_cnt' = u + 1 /\ UNCHANGED barrier_map
      /\ thread_id_stack' = Append(thread_id_stack, u)
  BY <1>0, ThreadBeginRecords
<1> HIDE DEF len
<1>2. /\ \A s : s \in Starts <=> \E i \in 1 .. len : truth[i].sync = s /\ s[1] = "start"
      /\ \A t, s : s \in Barriers(t) <=>
           \E i \in 1 .. len : truth[i].sync = s /\ s[1] = "barrier" /\ truth[i].thread = t
  BY SyncsNow DEF len
<1>3. /\ \A s : s \in Starts' <=> \E i \in 1 .. len + 2 : truth'[i].sync = s /\ s[1] = "start"
      /\ \A t, s : s \in Barriers(t)' <=>
           \E i \in 1 .. len + 2 : truth'[i].sync = s /\ s[1] = "barrier" /\ truth'[i].thread = t
  <2>1. len + 2 \in Nat
    BY <1>1
  <2> QED
    BY <1>1, <2>1, SyncsLater
<1>4. <<"start", u>>[1] = "start" /\ <<"start", u>>[2] = u
  OBVIOUS
<1>5. \A i \in 1 .. len + 2 : i \in 1 .. len \/ i = len + 1 \/ i = len + 2
  BY <1>1
<1>6. IsFiniteSet(Starts') /\ Cardinality(Starts') = Cardinality(Starts) + 1
  <2>1. /\ IsFiniteSet(Starts)
        /\ \A i \in 1 .. len : truth[i].sync[1] = "start" =>
             truth[i].sync[2] < u /\ truth[i].sync[2] \in Nat
    BY <1>0, <1>1, TruthTypes DEF Numbered, len
  <2>2. <<"start", u>> \notin Starts
    BY <1>2, <1>4, <2>1
  <2>3. ASSUME NEW s
        PROVE  s \in Starts' <=> s \in Starts \/ s = <<"start", u>>
    <3>1. ASSUME s \in Starts'
          PROVE  s \in Starts \/ s = <<"start", u>>
      <4>1. PICK i \in 1 .. len + 2 : truth'[i].sync = s /\ s[1] = "start"
        BY <1>3, <3>1
      <4>2. CASE i \in 1 .. len
        BY <1>1, <1>2, <4>1, <4>2
      <4>3. CASE i = len + 1
        BY <1>1, <4>1, <4>3
      <4>4. CASE i = len + 2
        BY <1>1, <4>1, <4>4
      <4> QED
        BY <1>5, <4>2, <4>3, <4>4
    <3>2. ASSUME s \in Starts
          PROVE  s \in Starts'
      <4>1. PICK i \in 1 .. len : truth[i].sync = s /\ s[1] = "start"
        BY <1>2, <3>2
      <4>2. i \in 1 .. len + 2
        BY <1>1
      <4> QED
        BY <1>1, <1>3, <4>1, <4>2
    <3>3. ASSUME s = <<"start", u>>
          PROVE  s \in Starts'
      <4>1. len + 1 \in 1 .. len + 2
        BY <1>1
      <4> QED
        BY <1>1, <1>3, <1>4, <3>3, <4>1
    <3> QED
      BY <3>1, <3>2, <3>3
  <2>4. Starts' = Starts \union {<<"start", u>>}
    BY <2>3
  <2> QED
    BY <2>1, <2>2, <2>4, FS_AddElement
<1>7. ASSUME NEW t
      PROVE  Barriers(t)' = Barriers(t)
  <2>1. ASSUME NEW s, s \in Barriers(t)'
        PROVE  s \in Barriers(t)
    <3>1. PICK i \in 1 .. len + 2 :
            truth'[i].sync = s /\ s[1] = "barrier" /\ truth'[i].thread = t
      BY <1>3, <2>1
    <3>2. i \in 1 .. len
      BY <1>1, <1>4, <1>5, <3>1
    <3> QED
      BY <1>1, <1>2, <3>1, <3>2
  <2>2. ASSUME NEW s, s \in Barriers(t)
        PROVE  s \in Barriers(t)'
    <3>1. PICK i \in 1 .. len : truth[i].sync = s /\ s[1] = "barrier" /\ truth[i].thread = t
      BY <1>2, <2>2
    <3>2. i \in 1 .. len + 2
      BY <1>1
    <3> QED
      BY <1>1, <1>3, <3>1, <3>2
  <2> QED
    BY <2>1, <2>2
<1>8. ASSUME NEW i \in 1 .. len + 2
      PROVE  /\ truth'[i].sync[1] = "alone" => truth'[i].sync[2] < len + 2
             /\ truth'[i].sync[1] = "start" => truth'[i].sync[2] < u + 1
             /\ truth'[i].sync[1] = "end" =>
                  truth'[i].sync[2] < u + 1 /\ ~OnStackLater(truth'[i].sync[2])
  <2>1. CASE i = len + 1 \/ i = len + 2
    BY <1>1, <1>4, <2>1
  <2>2. CASE i \in 1 .. len
    <3>1. /\ truth'[i] = truth[i] /\ truth[i].sync[2] \in Nat
          /\ truth[i].sync[1] = "alone" => truth[i].sync[2] < len
          /\ truth[i].sync[1] = "start" => truth[i].sync[2] < u
          /\ truth[i].sync[1] = "end" =>
               truth[i].sync[2] < u /\ ~OnStack(truth[i].sync[2])
      BY <1>0, <1>1, <2>2, TruthTypes DEF Numbered
    <3>2. ASSUME NEW t \in Nat, t < u, OnStackLater(t)
          PROVE  OnStack(t)
      <4>1. thread_id_stack \in Seq(Nat)
        <5>1. 1 .. thread_id_cnt - 1 \subseteq Nat
          BY CounterType
        <5> QED
          BY <5>1, TracerStacks
      <4> QED
        BY <1>1, <3>2, <4>1, Appended DEF OnStack, OnStackLater
    <3>3. truth[i].sync[1] = "end" => ~OnStackLater(truth'[i].sync[2])
      BY <3>1, <3>2
    <3> QED
      BY <1>1, <3>1, <3>3
  <2> QED
    BY <1>5, <2>1, <2>2
<1>9. Cardinality(Starts) \in Nat /\ thread_id_cnt = 2 + Cardinality(Starts)
  BY FS_CardinalityType DEF Numbered
<1>10. thread_id_cnt' = 2 + Cardinality(Starts')
  BY <1>0, <1>1, <1>6, <1>9
<1> QED
  BY <1>1, <1>6, <1>7, <1>8, <1>10 DEF Numbered, BarriersOf, OnStack, OnStackLater

LEMMA StackLeft ==
  ASSUME TypeOK, ThreadsMatch, NEW stack, stack = Front(thread_id_stack), NEW t,
         \E k \in 1 .. Len(stack) : stack[k] = t
  PROVE  OnStack(t) /\ t # Thread
<1>1. /\ Len(stack) = Len(thread_id_stack) - 1
      /\ \A i \in 1 .. Len(thread_id_stack) - 1 : stack[i] = thread_id_stack[i]
  BY TracerStacks, LastAndFront
<1>2. PICK k \in 1 .. Len(thread_id_stack) - 1 : thread_id_stack[k] = t
  BY <1>1
<1>3. /\ k \in 1 .. Len(thread_id_stack) /\ Len(thread_id_stack) \in 1 .. Len(thread_id_stack)
      /\ k < Len(thread_id_stack) /\ Thread = thread_id_stack[Len(thread_id_stack)]
  BY <1>2, TracerStacks, ThreadIsCurrent, SMTT(40)
<1>4. thread_id_stack[k] < thread_id_stack[Len(thread_id_stack)]
  BY <1>3 DEF ThreadsMatch
<1>5. thread_id_stack[k] \in Nat
  BY <1>3, TracerStacks
<1> QED
  BY <1>2, <1>3, <1>4, <1>5 DEF OnStack

LEMMA NumberedRestart ==
  ASSUME ResetEvents, ResetBarrier, ProgramStarts
  PROVE  Numbered'
<1>1. truth' = << >> /\ events' = << >> /\ thread_id_cnt' = 2 /\ barrier_map' = << >>
  BY DEF ResetEvents, ResetBarrier, ProgramStarts
<1>2. DOMAIN << >> = {}
  OBVIOUS
<1>3. Starts' = {}
  BY <1>1, <1>2 DEF Starts, Syncs, ToSet
<1>4. ASSUME NEW t
      PROVE  Barriers(t)' = {} /\ BarriersOf(t)' = 0
  BY <1>1, <1>2 DEF Barriers, Syncs, ToSet, BarriersOf
<1>5. IsFiniteSet({}) /\ Cardinality({}) = 0
  BY FS_EmptySet
<1>6. IsFiniteSet(Starts') /\ thread_id_cnt' = 2 + Cardinality(Starts')
  BY <1>1, <1>3, <1>5
<1>7. ASSUME NEW t
      PROVE  /\ IsFiniteSet(Barriers(t)')
             /\ BarriersOf(t)' = Cardinality(Barriers(t)')
             /\ \A s \in Barriers(t)' : s[2] <= BarriersOf(t)'
  BY <1>4, <1>5
<1>8. DOMAIN events' = {}
  BY <1>1, <1>2
<1> QED
  BY <1>6, <1>7, <1>8 DEF Numbered

LEMMA NumberedInit == Init => Numbered
<1> SUFFICES ASSUME Init
             PROVE  Numbered
  OBVIOUS
<1>1. truth = << >> /\ events = << >> /\ thread_id_cnt = 2 /\ barrier_map = << >>
  BY DEF Init, TracerInit
<1>2. DOMAIN << >> = {}
  OBVIOUS
<1>3. Starts = {}
  BY <1>1, <1>2 DEF Starts, Syncs, ToSet
<1>4. ASSUME NEW t
      PROVE  Barriers(t) = {} /\ BarriersOf(t) = 0
  BY <1>1, <1>2 DEF Barriers, Syncs, ToSet, BarriersOf
<1>5. IsFiniteSet({}) /\ Cardinality({}) = 0
  BY FS_EmptySet
<1>6. IsFiniteSet(Starts) /\ thread_id_cnt = 2 + Cardinality(Starts)
  BY <1>1, <1>3, <1>5
<1>7. ASSUME NEW t
      PROVE  /\ IsFiniteSet(Barriers(t))
             /\ BarriersOf(t) = Cardinality(Barriers(t))
             /\ \A s \in Barriers(t) : s[2] <= BarriersOf(t)
  BY <1>4, <1>5
<1>8. DOMAIN events = {}
  BY <1>1, <1>2
<1> QED
  BY <1>6, <1>7, <1>8 DEF Numbered

LEMMA NumberedNext ==
  ASSUME TypeOK, ScriptOK, Shape, TruthOK, Numbered, Joinable, [Next]_vars
  PROVE  Numbered'
<1>1. ASSUME NEW kind \in Statements, Statement(kind)
      PROVE  Numbered'
  <2>1. \A t : OnStackLater(t) => OnStack(t)
    BY <1>1, StatementRecords DEF OnStack, OnStackLater
  <2> QED
    BY <1>1, <2>1, StatementRecords, NumberedGrows
<1>2. CASE ThreadEnd
  <2>1. \A t : OnStackLater(t) => OnStack(t) /\ t # Thread
    BY <1>2, ThreadEndRecords, StackLeft DEF OnStackLater, Shape
  <2>2. Thread \in Nat /\ Thread < thread_id_cnt
    BY ThreadIsCurrent, CounterType DEF Shape
  <2> QED
    BY <1>2, <2>1, <2>2, ThreadEndRecords, NumberedGrows DEF Shape
<1>3. CASE Join
  <2>1. PICK t \in joinable, id \in Nat :
          /\ "thread_end" \in Kind
          /\ <<"end", t>> \in SyncType
          /\ Records("thread_end", id, <<"end", t>>)
          /\ UNCHANGED <<thread_id_cnt, thread_id_stack, barrier_map>>
    BY <1>3, JoinRecords
  <2>2. \A u : OnStackLater(u) => OnStack(u)
    BY <2>1 DEF OnStack, OnStackLater
  <2>3. t \in Nat /\ t < thread_id_cnt /\ ~OnStack(t)
    BY CounterType DEF Joinable
  <2> QED
    BY <2>1, <2>2, <2>3, NumberedGrows
<1>4. CASE CallBarrier
  BY <1>4, NumberedBarrier DEF Shape
<1>5. CASE ThreadBegin
  BY <1>5, NumberedBegin DEF Shape
<1>6. CASE \/ CallScopeThen \/ CallScopeElse \/ CallScopeEnd \/ AddError \/ Branch \/ Exit
           \/ FindNoNextPath \/ UNCHANGED vars
  <2>1. UNCHANGED <<truth, events, thread_id_cnt, thread_id_stack, barrier_map>>
    BY <1>6, BranchEffect DEF CallScopeThen, CallScopeElse, CallScopeEnd, ScopeOnly, AddError, Exit,
       FindNoNextPath, vars, history_vars, tracer_vars, ScopeThen, ScopeElse, ScopeEnd
  <2> QED
    <3>1. Starts' = Starts /\ \A t : Barriers(t)' = Barriers(t) /\ BarriersOf(t)' = BarriersOf(t)
      BY <2>1 DEF Starts, Barriers, BarriersOf, Syncs, ToSet
    <3>2. \A t : OnStackLater(t) <=> OnStack(t)
      BY <2>1 DEF OnStack, OnStackLater
    <3> QED
      BY <2>1, <3>1, <3>2 DEF Numbered, OnStack, OnStackLater
<1>7. CASE FindNextPath \/ Reset
  BY <1>7, Restarts, NumberedRestart
<1> QED
  BY <1>1, <1>2, <1>3, <1>4, <1>5, <1>6, <1>7 DEF Next

(* Threads that have ended keep their last event. *)
LEMMA JoinableGrows ==
  ASSUME TypeOK, Joinable, NEW n \in Nat, NEW m \in Nat, n = Len(events), n < m,
         DOMAIN events' = 1 .. m,
         \A i \in 1 .. n : events'[i] = events[i] /\ truth'[i] = truth[i],
         \A t \in joinable' : ~OnStackLater(t),
         \A t \in joinable' :
           \/ t \in joinable /\ \A i \in n + 1 .. m : events'[i].thread_id # t
           \/ events'[m].thread_id = t /\ truth'[m].sync = <<"end", t>>
  PROVE  Joinable'
<1>1. DOMAIN events = 1 .. n
  BY EventsTyped
<1>2. ASSUME NEW t \in joinable'
      PROVE  \E i \in DOMAIN events' :
               /\ events'[i].thread_id = t
               /\ \A j \in DOMAIN events' : events'[j].thread_id = t => j <= i
               /\ truth'[i].sync = <<"end", t>>
  <2>1. CASE t \in joinable /\ \A i \in n + 1 .. m : events'[i].thread_id # t
    <3>1. PICK i \in 1 .. n : IsLast(i, t) /\ truth[i].sync = <<"end", t>>
      BY <1>1, <2>1 DEF Joinable
    <3>2. i \in 1 .. m /\ events'[i].thread_id = t /\ truth'[i].sync = <<"end", t>>
      BY <3>1 DEF IsLast
    <3>3. ASSUME NEW j \in 1 .. m, events'[j].thread_id = t
          PROVE  j <= i
      <4>1. j \in 1 .. n
        BY <2>1, <3>3
      <4> QED
        BY <1>1, <3>1, <3>3, <4>1 DEF IsLast
    <3> QED
      BY <3>2, <3>3
  <2>2. CASE events'[m].thread_id = t /\ truth'[m].sync = <<"end", t>>
    <3>1. m \in 1 .. m /\ \A j \in 1 .. m : j <= m
      OBVIOUS
    <3> QED
      BY <2>2, <3>1
  <2> QED
    BY <2>1, <2>2
<1> QED
  BY <1>2 DEF Joinable, IsLast, OnStack, OnStackLater

Fresh(id, sync) == \A j \in 1 .. Len(events) : events[j].event_id = id <=> truth[j].sync = sync

ListGrows ==
  /\ \/ UNCHANGED barrier_list
     \/ /\ Len(barrier_list') = Len(barrier_list) + 1
        /\ barrier_list'[Len(barrier_list) + 1] = event_id_cnt
        /\ event_id_cnt < event_id_cnt'
  /\ \A k \in 1 .. Len(barrier_list) : barrier_list'[k] = barrier_list[k]

Listed(id, sync) ==
  IF sync[1] = "barrier"
  THEN sync[2] \in 1 .. Len(barrier_list') /\ id = barrier_list'[sync[2]]
  ELSE \A k \in 1 .. Len(barrier_list') : id # barrier_list'[k]

(* Events that share an identifier and what they really are *)
LEMMA IdentifiersGrow ==
  ASSUME TypeOK, TruthOK, SharedIdentifiers, BarrierIds, IdsInUse,
         NEW n \in Nat, NEW m \in Nat, n = Len(events), n < m,
         DOMAIN events' = 1 .. m,
         \A i \in 1 .. n : events'[i] = events[i] /\ truth'[i] = truth[i],
         NEW id \in Nat, NEW sync \in SyncType, Fresh(id, sync),
         \A i \in n + 1 .. m : /\ events'[i].event_id = id
                               /\ truth'[i].sync = sync
                               /\ events'[i].thread_id = truth'[i].thread,
         event_id_cnt' \in Nat, event_id_cnt <= event_id_cnt', id < event_id_cnt',
         ListGrows, Listed(id, sync)
  PROVE  SharedIdentifiers' /\ BarrierIds' /\ IdsInUse'
<1>1. /\ DOMAIN events = 1 .. n
      /\ event_id_cnt \in Nat
      /\ Len(barrier_list) \in Nat
      /\ \A k \in 1 .. Len(barrier_list) : barrier_list[k] \in Nat
      /\ \A i \in 1 .. n : events[i].event_id \in Nat /\ events[i].event_id < event_id_cnt
  BY EventsTyped DEF IdsInUse
<1>2. \A i \in 1 .. m : i \in 1 .. n \/ i \in n + 1 .. m
  OBVIOUS
<1>3. ASSUME NEW i \in 1 .. m
      PROVE  events'[i].event_id < event_id_cnt' /\ events'[i].thread_id = truth'[i].thread
  <2>1. CASE i \in n + 1 .. m
    BY <2>1
  <2>2. CASE i \in 1 .. n
    <3>1. events[i].thread_id = truth[i].thread
      BY <1>1, <2>2 DEF SharedIdentifiers
    <3>2. events[i].event_id \in Nat /\ events[i].event_id < event_id_cnt
      BY <1>1, <2>2
    <3>3. events'[i] = events[i] /\ truth'[i] = truth[i]
      BY <2>2
    <3> QED
      BY <1>1, <3>1, <3>2, <3>3
  <2> QED
    BY <1>2, <2>1, <2>2
<1>4. ASSUME NEW i \in 1 .. m, NEW j \in 1 .. m
      PROVE  events'[i].event_id = events'[j].event_id <=> truth'[i].sync = truth'[j].sync
  <2>1. ASSUME NEW k \in 1 .. n, NEW l \in 1 .. n
        PROVE  events[k].event_id = events[l].event_id <=> truth[k].sync = truth[l].sync
    <3>1. k \in DOMAIN events /\ l \in DOMAIN events
      BY <1>1
    <3> QED
      BY <3>1 DEF SharedIdentifiers
  <2>2. \A k \in 1 .. n : events[k].event_id = id <=> truth[k].sync = sync
    BY DEF Fresh
  <2>3. CASE i \in 1 .. n /\ j \in 1 .. n
    BY <2>1, <2>3
  <2>4. CASE i \in 1 .. n /\ j \in n + 1 .. m
    BY <2>2, <2>4
  <2>5. CASE i \in n + 1 .. m /\ j \in 1 .. n
    BY <2>2, <2>5
  <2>6. CASE i \in n + 1 .. m /\ j \in n + 1 .. m
    BY <2>6
  <2> QED
    BY <1>2, <2>3, <2>4, <2>5, <2>6
<1>5. /\ Len(barrier_list') \in Nat
      /\ \A k \in 1 .. Len(barrier_list) :
           k \in 1 .. Len(barrier_list') /\ barrier_list'[k] = barrier_list[k]
      /\ \A k \in 1 .. Len(barrier_list') :
           \/ k \in 1 .. Len(barrier_list) /\ barrier_list'[k] = barrier_list[k]
           \/ /\ k = Len(barrier_list) + 1 /\ barrier_list'[k] = event_id_cnt
              /\ event_id_cnt < event_id_cnt'
  BY <1>1 DEF ListGrows
<1>6. /\ \A k \in 1 .. Len(barrier_list) : barrier_list[k] < event_id_cnt
      /\ \A k, l \in 1 .. Len(barrier_list) : barrier_list[k] = barrier_list[l] => k = l
  BY DEF BarrierIds
<1>7. \A k \in 1 .. Len(barrier_list') : barrier_list'[k] < event_id_cnt'
  BY <1>1, <1>5, <1>6
<1>8. ASSUME NEW k \in 1 .. Len(barrier_list'), NEW l \in 1 .. Len(barrier_list'),
             barrier_list'[k] = barrier_list'[l]
      PROVE  k = l
  <2>1. CASE k \in 1 .. Len(barrier_list) /\ l \in 1 .. Len(barrier_list)
    BY <1>5, <1>6, <1>8, <2>1
  <2>2. CASE k = Len(barrier_list) + 1 /\ l \in 1 .. Len(barrier_list)
    BY <1>1, <1>5, <1>6, <1>8, <2>2
  <2>3. CASE k \in 1 .. Len(barrier_list) /\ l = Len(barrier_list) + 1
    BY <1>1, <1>5, <1>6, <1>8, <2>3
  <2>4. CASE k = Len(barrier_list) + 1 /\ l = Len(barrier_list) + 1
    BY <2>4
  <2> QED
    BY <1>5, <2>1, <2>2, <2>3, <2>4
<1>9. ASSUME NEW i \in 1 .. m
      PROVE  IF truth'[i].sync[1] = "barrier"
             THEN /\ truth'[i].sync[2] \in 1 .. Len(barrier_list')
                  /\ events'[i].event_id = barrier_list'[truth'[i].sync[2]]
             ELSE \A k \in 1 .. Len(barrier_list') : events'[i].event_id # barrier_list'[k]
  <2>1. CASE i \in n + 1 .. m
    BY <2>1 DEF Listed
  <2>2. CASE i \in 1 .. n
    <3>1. IF truth[i].sync[1] = "barrier"
          THEN /\ truth[i].sync[2] \in 1 .. Len(barrier_list)
               /\ events[i].event_id = barrier_list[truth[i].sync[2]]
          ELSE \A k \in 1 .. Len(barrier_list) : events[i].event_id # barrier_list[k]
      BY <1>1, <2>2 DEF BarrierIds
    <3>2. events'[i] = events[i] /\ truth'[i] = truth[i]
      BY <2>2
    <3>3. CASE truth[i].sync[1] = "barrier"
      <4>1. truth[i].sync[2] \in 1 .. Len(barrier_list')
        BY <1>1, <1>5, <3>1, <3>3
      <4> QED
        BY <1>5, <3>1, <3>2, <3>3, <4>1
    <3>4. CASE truth[i].sync[1] # "barrier"
      <4>1. events[i].event_id \in Nat /\ events[i].event_id < event_id_cnt
        BY <1>1, <2>2
      <4>2. \A k \in 1 .. Len(barrier_list') : events[i].event_id # barrier_list'[k]
        BY <1>1, <1>5, <3>1, <3>4, <4>1
      <4> QED
        BY <3>2, <3>4, <4>2
    <3> QED
      BY <3>3, <3>4
  <2> QED
    BY <1>2, <2>1, <2>2
<1>10. SharedIdentifiers'
  BY <1>3, <1>4 DEF SharedIdentifiers
<1>11. BarrierIds'
  BY <1>7, <1>8, <1>9 DEF BarrierIds
<1>12. IdsInUse'
  BY <1>3 DEF IdsInUse
<1> QED
  BY <1>10, <1>11, <1>12

LEMMA NewIdentifier ==
  ASSUME TypeOK, BarrierIds, IdsInUse, NEW sync, \A j \in 1 .. Len(events) : truth[j].sync # sync
  PROVE  /\ Fresh(event_id_cnt, sync)
         /\ \A k \in 1 .. Len(barrier_list) : event_id_cnt # barrier_list[k]
         /\ event_id_cnt \in Nat /\ event_id_cnt <= event_id_cnt + 1 /\ event_id_cnt < event_id_cnt + 1
         /\ event_id_cnt + 1 \in Nat
<1>1. /\ event_id_cnt \in Nat
      /\ \A k \in 1 .. Len(barrier_list) : barrier_list[k] \in Nat /\ barrier_list[k] < event_id_cnt
      /\ \A i \in 1 .. Len(events) : events[i].event_id \in Nat /\ events[i].event_id < event_id_cnt
  BY EventsTyped DEF IdsInUse, BarrierIds
<1> QED
  BY <1>1 DEF Fresh

LEMMA IdentifiersRecorded ==
  ASSUME TypeOK, TruthOK, ThreadsMatch, SharedIdentifiers, BarrierIds, IdsInUse,
         NEW kind \in Kind, NEW id \in Nat, NEW sync \in SyncType, Records(kind, id, sync),
         Fresh(id, sync),
         event_id_cnt' \in Nat, event_id_cnt <= event_id_cnt', id < event_id_cnt',
         ListGrows, Listed(id, sync)
  PROVE  SharedIdentifiers' /\ BarrierIds' /\ IdsInUse'
<1>0. Len(events) \in Nat /\ Len(events) + 1 \in Nat
  BY EventsTyped
<1>1. PICK n \in Nat, m \in Nat : n = Len(events) /\ m = n + 1
  BY <1>0
<1>2. /\ DOMAIN events' = 1 .. m /\ n < m
      /\ \A i \in 1 .. n : events'[i] = events[i] /\ truth'[i] = truth[i]
      /\ events'[m].event_id = id /\ truth'[m].sync = sync
      /\ events'[m].thread_id = current_thread_id /\ truth'[m].thread = Thread
  BY <1>1, OneMoreEvent
<1>3. \A i \in n + 1 .. m : i = m
  BY <1>1
<1>4. \A i \in n + 1 .. m : /\ events'[i].event_id = id
                             /\ truth'[i].sync = sync
                             /\ events'[i].thread_id = truth'[i].thread
  BY <1>2, <1>3, ThreadIsCurrent
<1> QED
  BY <1>1, <1>2, <1>4, IdentifiersGrow

LEMMA JoinableRecorded ==
  ASSUME TypeOK, TruthOK, ThreadsMatch, Joinable,
         NEW kind \in Kind, NEW id \in Nat, NEW sync \in SyncType, Records(kind, id, sync),
         \A t : OnStackLater(t) => OnStack(t),
         \A t \in joinable' : \/ t \in joinable
                              \/ t = Thread /\ ~OnStackLater(t) /\ sync = <<"end", t>>
  PROVE  Joinable'
<1>0. Len(events) \in Nat /\ Len(events) + 1 \in Nat
  BY EventsTyped
<1>1. PICK n \in Nat, m \in Nat : n = Len(events) /\ m = n + 1
  BY <1>0
<1>2. /\ DOMAIN events' = 1 .. m /\ n < m
      /\ \A i \in 1 .. n : events'[i] = events[i] /\ truth'[i] = truth[i]
      /\ truth'[m].sync = sync
      /\ events'[m].thread_id = current_thread_id
  BY <1>1, OneMoreEvent
<1>3. \A i \in n + 1 .. m : i = m
  BY <1>1
<1>4. current_thread_id = Thread /\ OnStack(Thread) /\ \A t \in joinable : ~OnStack(t)
  BY ThreadIsCurrent DEF Joinable
<1>5. \A t \in joinable' : ~OnStackLater(t)
  BY <1>4
<1>6. \A t \in joinable' : \/ t \in joinable /\ \A i \in n + 1 .. m : events'[i].thread_id # t
                           \/ events'[m].thread_id = t /\ truth'[m].sync = <<"end", t>>
  BY <1>2, <1>3, <1>4
<1> QED
  BY <1>1, <1>2, <1>5, <1>6, JoinableGrows

(* What identifies events, and which threads can be joined *)
Ident == SharedIdentifiers /\ BarrierIds /\ IdsInUse /\ Joinable

LEMMA IdentStatement ==
  ASSUME TypeOK, ThreadsMatch, TruthOK, Numbered, Ident, NEW kind \in Statements, Statement(kind)
  PROVE  Ident'
<1>1. PICK id \in Nat, sync \in SyncType : id = event_id_cnt /\ sync = <<"alone", Len(truth)>>
  BY StatementRecords
<1>2. /\ kind \in Kind /\ Records(kind, id, sync) /\ event_id_cnt' = event_id_cnt + 1
      /\ UNCHANGED <<thread_id_stack, barrier_list, joinable>>
  BY <1>1, StatementRecords
<1>3. sync[1] = "alone" /\ sync[2] = Len(truth) /\ Len(truth) \in Nat
  BY <1>1, StatementRecords
<1>4. ASSUME NEW j \in 1 .. Len(events)
      PROVE  truth[j].sync # sync
  <2>1. truth[j].sync[1] = "alone" => truth[j].sync[2] < Len(truth)
    BY EventsTyped DEF Numbered
  <2> QED
    BY <1>3, <2>1
<1>5. /\ Fresh(event_id_cnt, sync)
      /\ \A k \in 1 .. Len(barrier_list) : event_id_cnt # barrier_list[k]
      /\ event_id_cnt \in Nat /\ event_id_cnt <= event_id_cnt + 1 /\ event_id_cnt < event_id_cnt + 1
      /\ event_id_cnt + 1 \in Nat
  BY <1>4, NewIdentifier DEF Ident
<1>6. SharedIdentifiers' /\ BarrierIds' /\ IdsInUse'
  BY <1>1, <1>2, <1>3, <1>5, IdentifiersRecorded DEF Ident, ListGrows, Listed
<1>7. \A t : OnStackLater(t) => OnStack(t)
  BY <1>2 DEF OnStack, OnStackLater
<1>8. Joinable'
  BY <1>2, <1>7, JoinableRecorded DEF Ident
<1> QED
  BY <1>6, <1>8 DEF Ident

LEMMA IdentThreadEnd ==
  ASSUME TypeOK, ThreadsMatch, TruthOK, Numbered, Ident, ThreadEnd
  PROVE  Ident'
<1>1. PICK id \in Nat, sync \in SyncType : id = event_id_cnt /\ sync = <<"end", Thread>>
  BY ThreadEndRecords
<1>2. /\ "thread_end" \in Kind /\ Records("thread_end", id, sync)
      /\ event_id_cnt' = event_id_cnt + 1
      /\ thread_id_stack' = Front(thread_id_stack)
      /\ joinable' = joinable \union {Thread}
      /\ UNCHANGED barrier_list
  BY <1>1, ThreadEndRecords
<1>3. sync[1] = "end" /\ sync[2] = Thread /\ OnStack(Thread)
  BY <1>1, ThreadIsCurrent
<1>4. ASSUME NEW j \in 1 .. Len(events)
      PROVE  truth[j].sync # sync
  <2>1. truth[j].sync[1] = "end" => ~OnStack(truth[j].sync[2])
    BY EventsTyped DEF Numbered
  <2> QED
    BY <1>3, <2>1
<1>5. /\ Fresh(event_id_cnt, sync)
      /\ \A k \in 1 .. Len(barrier_list) : event_id_cnt # barrier_list[k]
      /\ event_id_cnt \in Nat /\ event_id_cnt <= event_id_cnt + 1 /\ event_id_cnt < event_id_cnt + 1
      /\ event_id_cnt + 1 \in Nat
  BY <1>4, NewIdentifier DEF Ident
<1>6. SharedIdentifiers' /\ BarrierIds' /\ IdsInUse'
  BY <1>1, <1>2, <1>3, <1>5, IdentifiersRecorded DEF Ident, ListGrows, Listed
<1>7. \A t : OnStackLater(t) => OnStack(t) /\ t # Thread
  BY <1>2, StackLeft DEF OnStackLater
<1>8. Joinable'
  BY <1>1, <1>2, <1>7, JoinableRecorded DEF Ident
<1> QED
  BY <1>6, <1>8 DEF Ident

LEMMA IdentJoin ==
  ASSUME TypeOK, ThreadsMatch, TruthOK, Ident, Join
  PROVE  Ident'
<1>1. PICK t \in joinable, i \in 1 .. Len(events) :
        /\ truth[i].sync = <<"end", t>>
        /\ "thread_end" \in Kind /\ events[i].event_id \in Nat
        /\ <<"end", t>> \in SyncType
        /\ Records("thread_end", events[i].event_id, <<"end", t>>)
        /\ joinable' = joinable \ {t}
        /\ UNCHANGED <<event_id_cnt, thread_id_stack, barrier_list>>
  BY JoinRecords DEF Ident
<1>2. PICK id \in Nat, sync \in SyncType : id = events[i].event_id /\ sync = <<"end", t>>
  BY <1>1
<1>3. sync[1] # "barrier" /\ truth[i].sync = sync
  BY <1>1, <1>2
<1>4. Fresh(id, sync)
  <2>1. \A j \in 1 .. Len(events) : j \in DOMAIN events /\ i \in DOMAIN events
    BY EventsTyped
  <2>2. ASSUME NEW j \in 1 .. Len(events)
        PROVE  events[j].event_id = events[i].event_id <=> truth[j].sync = truth[i].sync
    BY <2>1 DEF Ident, SharedIdentifiers
  <2> QED
    BY <1>2, <1>3, <2>2 DEF Fresh
<1>5. id < event_id_cnt /\ event_id_cnt \in Nat /\ event_id_cnt <= event_id_cnt
  BY <1>2, EventsTyped DEF Ident, IdsInUse
<1>6. \A k \in 1 .. Len(barrier_list) : id # barrier_list[k]
  BY <1>2, <1>3, EventsTyped DEF Ident, BarrierIds
<1>7. SharedIdentifiers' /\ BarrierIds' /\ IdsInUse'
  BY <1>1, <1>2, <1>3, <1>4, <1>5, <1>6, IdentifiersRecorded DEF Ident, ListGrows, Listed
<1>8. \A u : OnStackLater(u) => OnStack(u)
  BY <1>1 DEF OnStack, OnStackLater
<1>9. Joinable'
  BY <1>1, <1>2, <1>8, JoinableRecorded DEF Ident
<1> QED
  BY <1>7, <1>9 DEF Ident

LEMMA IdentBarrier ==
  ASSUME TypeOK, ThreadsMatch, TruthOK, Numbered, Ident, CallBarrier
  PROVE  Ident'
<1>1. PICK id \in Nat, b \in Nat : id = barrier_list'[BarrierNumber] /\ b = BarrierNumber
  <2>1. BarrierNumber \in 1 .. Len(barrier_list') /\ barrier_list'[BarrierNumber] \in Nat
    BY BarrierRecords
  <2> QED
    BY <2>1
<1>2. /\ "barrier" \in Kind /\ <<"barrier", b>> \in SyncType
      /\ Records("barrier", id, <<"barrier", b>>)
      /\ b \in 1 .. Len(barrier_list')
      /\ id = barrier_list'[b]
      /\ \/ UNCHANGED <<event_id_cnt, barrier_list>>
         \/ /\ b = Len(barrier_list) + 1
            /\ Len(barrier_list') = Len(barrier_list) + 1
            /\ barrier_list'[Len(barrier_list) + 1] = event_id_cnt
            /\ \A n \in 1 .. Len(barrier_list) : barrier_list'[n] = barrier_list[n]
            /\ event_id_cnt' = event_id_cnt + 1
      /\ UNCHANGED <<thread_id_stack, joinable>>
  BY <1>1, BarrierRecords
<1>3. PICK sync \in SyncType : sync = <<"barrier", b>>
  BY <1>2
<1>4. sync[1] = "barrier" /\ sync[2] = b
  BY <1>3
<1>5. /\ event_id_cnt \in Nat /\ event_id_cnt' \in Nat /\ event_id_cnt <= event_id_cnt'
      /\ ListGrows /\ Listed(id, sync)
  BY <1>2, <1>4, EventsTyped DEF ListGrows, Listed
<1>12. "barrier" \in Kind /\ Records("barrier", id, sync)
  BY <1>2, <1>3
<1>6. /\ \A j \in 1 .. Len(events) : j \in DOMAIN events
      /\ \A j \in 1 .. Len(events) : truth[j].sync \in SyncType
      /\ \A s \in SyncType : s[1] = "barrier" /\ s[2] = b => s = sync
  BY <1>3, TruthTypes DEF SyncType
<1>7. ASSUME UNCHANGED <<event_id_cnt, barrier_list>>
      PROVE  SharedIdentifiers' /\ BarrierIds' /\ IdsInUse'
  <2>1. b \in 1 .. Len(barrier_list) /\ id = barrier_list[b]
    BY <1>2, <1>7
  <2>2. id < event_id_cnt'
    BY <1>7, <2>1 DEF Ident, BarrierIds
  <2>3. ASSUME NEW j \in 1 .. Len(events)
        PROVE  events[j].event_id = id <=> truth[j].sync = sync
    <3>1. IF truth[j].sync[1] = "barrier"
          THEN /\ truth[j].sync[2] \in 1 .. Len(barrier_list)
               /\ events[j].event_id = barrier_list[truth[j].sync[2]]
          ELSE \A k \in 1 .. Len(barrier_list) : events[j].event_id # barrier_list[k]
      BY <1>6 DEF Ident, BarrierIds
    <3>2. \A k \in 1 .. Len(barrier_list) : barrier_list[k] = barrier_list[b] => k = b
      BY <2>1 DEF Ident, BarrierIds
    <3>3. CASE truth[j].sync[1] = "barrier"
      <4>1. events[j].event_id = id <=> truth[j].sync[2] = b
        BY <2>1, <3>1, <3>2, <3>3
      <4>2. truth[j].sync[2] = b <=> truth[j].sync = sync
        BY <1>4, <1>6, <3>3
      <4> QED
        BY <4>1, <4>2
    <3>4. CASE truth[j].sync[1] # "barrier"
      BY <1>4, <2>1, <3>1, <3>4
    <3> QED
      BY <3>3, <3>4
  <2>4. Fresh(id, sync)
    BY <2>3 DEF Fresh
  <2> QED
    BY <1>5, <1>12, <2>2, <2>4, IdentifiersRecorded DEF Ident
<1>8. ASSUME b = Len(barrier_list) + 1,
             barrier_list'[Len(barrier_list) + 1] = event_id_cnt,
             event_id_cnt' = event_id_cnt + 1
      PROVE  SharedIdentifiers' /\ BarrierIds' /\ IdsInUse'
  <2>1. id = event_id_cnt /\ Len(barrier_list) \in Nat
    BY <1>2, <1>8, EventsTyped
  <2>2. ASSUME NEW j \in 1 .. Len(events)
        PROVE  truth[j].sync # sync
    <3>1. truth[j].sync[1] = "barrier" => truth[j].sync[2] \in 1 .. Len(barrier_list)
      BY <1>6 DEF Ident, BarrierIds
    <3> QED
      BY <1>4, <1>8, <2>1, <3>1
  <2>3. Fresh(event_id_cnt, sync)
    BY <2>2, NewIdentifier DEF Ident
  <2>4. id < event_id_cnt'
    BY <1>5, <1>8, <2>1
  <2> QED
    BY <1>5, <1>12, <2>1, <2>3, <2>4, IdentifiersRecorded DEF Ident
<1>9. SharedIdentifiers' /\ BarrierIds' /\ IdsInUse'
  <2>1. \/ UNCHANGED <<event_id_cnt, barrier_list>>
        \/ /\ b = Len(barrier_list) + 1
           /\ barrier_list'[Len(barrier_list) + 1] = event_id_cnt
           /\ event_id_cnt' = event_id_cnt + 1
    BY <1>2
  <2> QED
    BY <1>7, <1>8, <2>1
<1>10. \A u : OnStackLater(u) => OnStack(u)
  BY <1>2 DEF OnStack, OnStackLater
<1>11. Joinable'
  BY <1>2, <1>3, <1>10, JoinableRecorded DEF Ident
<1> QED
  BY <1>9, <1>11 DEF Ident

LEMMA IdentThreadBegin ==
  ASSUME TypeOK, ThreadsMatch, TruthOK, Numbered, Ident, ThreadBegin
  PROVE  Ident'
<1>0. Len(events) \in Nat /\ Len(events) + 2 \in Nat
  BY EventsTyped
<1>1. PICK n \in Nat, m \in Nat, id \in Nat, u \in Nat :
        n = Len(events) /\ m = n + 2 /\ id = event_id_cnt /\ u = thread_id_cnt
  BY <1>0, ThreadBeginRecords
<1>2. /\ DOMAIN events' = 1 .. m /\ n < m
      /\ \A i \in 1 .. n : events'[i] = events[i] /\ truth'[i] = truth[i]
      /\ \A i \in {n + 1, n + 2} : events'[i].event_id = id /\ truth'[i].sync = <<"start", u>>
      /\ events'[n + 1].thread_id = current_thread_id /\ truth'[n + 1].thread = Thread
      /\ events'[n + 2].thread_id = u /\ truth'[n + 2].thread = u
      /\ event_id_cnt' = event_id_cnt + 1
      /\ thread_id_stack' = Append(thread_id_stack, u)
      /\ UNCHANGED <<barrier_list, joinable>>
  BY <1>1, ThreadBeginRecords
<1>3. <<"start", u>> \in SyncType
  BY DEF SyncType
<1>4. PICK sync \in SyncType : sync = <<"start", u>>
  BY <1>3
<1>5. sync[1] = "start" /\ sync[2] = u
  BY <1>4
<1>6. current_thread_id = Thread /\ OnStack(Thread) /\ Thread < u
  BY <1>1, ThreadIsCurrent
<1>7. \A i \in n + 1 .. m : i \in {n + 1, n + 2}
  BY <1>1
<1>8. \A i \in n + 1 .. m : /\ events'[i].event_id = id
                             /\ truth'[i].sync = sync
                             /\ events'[i].thread_id = truth'[i].thread
  BY <1>2, <1>4, <1>6, <1>7
<1>9. ASSUME NEW j \in 1 .. Len(events)
      PROVE  truth[j].sync # sync
  <2>1. truth[j].sync[1] = "start" => truth[j].sync[2] < thread_id_cnt
    BY EventsTyped DEF Numbered
  <2> QED
    BY <1>1, <1>5, <2>1
<1>10. /\ Fresh(id, sync) /\ ListGrows /\ Listed(id, sync)
       /\ event_id_cnt' \in Nat /\ event_id_cnt <= event_id_cnt' /\ id < event_id_cnt'
  BY <1>1, <1>2, <1>5, <1>9, NewIdentifier DEF Ident, ListGrows, Listed
<1>11. SharedIdentifiers' /\ BarrierIds' /\ IdsInUse'
  BY <1>1, <1>2, <1>8, <1>10, IdentifiersGrow, SMTT(40) DEF Ident
<1>12. \A t \in joinable : t < u /\ t # Thread /\ ~OnStack(t)
  BY <1>1, <1>6, CounterType DEF Ident, Joinable
<1>13. ASSUME NEW t, OnStackLater(t)
       PROVE  OnStack(t) \/ t = u
  <2>1. thread_id_stack \in Seq(Nat)
    <3>1. 1 .. thread_id_cnt - 1 \subseteq Nat
      BY CounterType
    <3> QED
      BY <3>1, TracerStacks
  <2> QED
    BY <1>2, <1>13, <2>1, Appended, SMTT(40) DEF OnStack, OnStackLater
<1>14. \A t \in joinable' : ~OnStackLater(t)
  BY <1>2, <1>12, <1>13
<1>15. ASSUME NEW t \in joinable'
       PROVE  t \in joinable /\ \A i \in n + 1 .. m : events'[i].thread_id # t
  <2>1. t \in joinable /\ t # u /\ t # current_thread_id
    BY <1>1, <1>2, <1>6, <1>12, CounterType
  <2>2. \A i \in n + 1 .. m : i = n + 1 \/ i = n + 2
    BY <1>7
  <2> QED
    BY <1>2, <2>1, <2>2
<1>16. Joinable'
  <2>1. \A t \in joinable' : \/ t \in joinable /\ \A i \in n + 1 .. m : events'[i].thread_id # t
                             \/ events'[m].thread_id = t /\ truth'[m].sync = <<"end", t>>
    BY <1>15
  <2> QED
    BY <1>1, <1>2, <1>14, <2>1, JoinableGrows DEF Ident
<1> QED
  BY <1>11, <1>16 DEF Ident

LEMMA IdentInit == Init => Ident
<1> SUFFICES ASSUME Init
             PROVE  Ident
  OBVIOUS
<1>1. events = << >> /\ barrier_list = << >> /\ joinable = {}
  BY DEF Init, TracerInit
<1>2. DOMAIN << >> = {} /\ 1 .. Len(<< >>) = {}
  OBVIOUS
<1> QED
  BY <1>1, <1>2 DEF Ident, SharedIdentifiers, BarrierIds, IdsInUse, Joinable

LEMMA IdentNext ==
  ASSUME TypeOK, ScriptOK, Shape, TruthOK, Numbered, Ident, [Next]_vars
  PROVE  Ident'
<1>1. \A kind \in Statements : Statement(kind) => Ident'
  BY IdentStatement DEF Shape
<1>2. ThreadEnd \/ Join \/ CallBarrier \/ ThreadBegin => Ident'
  BY IdentThreadEnd, IdentJoin, IdentBarrier, IdentThreadBegin DEF Shape
<1>3. CASE \/ CallScopeThen \/ CallScopeElse \/ CallScopeEnd \/ AddError \/ Branch \/ Exit
           \/ FindNoNextPath \/ UNCHANGED vars
  <2>1. UNCHANGED <<truth, events, event_id_cnt, thread_id_stack, barrier_list, joinable>>
    BY <1>3, BranchEffect DEF CallScopeThen, CallScopeElse, CallScopeEnd, ScopeOnly, AddError, Exit,
       FindNoNextPath, vars, history_vars, program_vars, tracer_vars, ScopeThen, ScopeElse, ScopeEnd
  <2>2. \A t : OnStackLater(t) <=> OnStack(t)
    BY <2>1 DEF OnStack, OnStackLater
  <2>3. Joinable'
    BY <2>1, <2>2 DEF Ident, Joinable, IsLast, OnStack, OnStackLater
  <2>4. SharedIdentifiers' /\ BarrierIds' /\ IdsInUse'
    BY <2>1 DEF Ident, SharedIdentifiers, BarrierIds, IdsInUse
  <2> QED
    BY <2>3, <2>4 DEF Ident
<1>4. CASE FindNextPath \/ Reset
  <2>1. events' = << >> /\ barrier_list' = << >> /\ joinable' = {}
    BY <1>4, Restarts DEF ResetEvents, ResetBarrier, ProgramStarts
  <2>2. DOMAIN << >> = {} /\ 1 .. Len(<< >>) = {}
    OBVIOUS
  <2> QED
    BY <2>1, <2>2 DEF Ident, SharedIdentifiers, BarrierIds, IdsInUse, Joinable
<1> QED
  BY <1>1, <1>2, <1>3, <1>4 DEF Next

-----------------------------------------------------------------------------
(* Types and identifiers.                                                  *)

Core == TypeOK /\ ScriptOK /\ Shape /\ TruthOK /\ Numbered /\ Ident

LEMMA CoreInvariant == Spec => []Core
<1>1. Init => Core
  BY TypeInit, ScriptInit, ShapeInit, TruthInit, NumberedInit, IdentInit DEF Core
<1>2. Core /\ [Next]_vars => Core'
  <2> SUFFICES ASSUME Core, [Next]_vars
               PROVE  Core'
    OBVIOUS
  <2>1. /\ TypeOK /\ ScriptOK /\ Shape /\ TruthOK /\ Numbered /\ Ident
        /\ Joinable /\ ThreadsMatch /\ ScopesMatch
    BY DEF Core, Shape, Ident
  <2>2. TypeOK'
    BY <2>1, TypeNext
  <2>3. ScriptOK'
    BY <2>1, ScriptNext
  <2>4. Shape' /\ TruthOK' /\ Numbered'
    BY <2>1, ShapeNext, TruthNext, NumberedNext
  <2>5. Ident'
    BY <2>1, IdentNext
  <2> QED
    BY <2>2, <2>3, <2>4, <2>5 DEF Core
<1> QED
  BY <1>1, <1>2, PTL DEF Spec

(* Every value has its type, whatever the program does: the tracer's       *)
(* stacks of threads and scopes are never empty when they are read, and a  *)
(* thread's latest barrier is one of the list.                             *)
THEOREM TypeCorrect == Spec => []TypeOK
<1>1. Core => TypeOK
  BY DEF Core
<1> QED
  BY <1>1, CoreInvariant, PTL

(* Events share an identifier exactly if they are of one synchronisation,  *)
(* although a join looks its event up by thread and a barrier by number.   *)
THEOREM Identifiers == Spec => []SharedIdentifiers
<1>1. Core => SharedIdentifiers
  BY DEF Core, Ident
<1> QED
  BY <1>1, CoreInvariant, PTL

-----------------------------------------------------------------------------
(* Guards, step by step.                                                   *)

(* On the path, the tracer's guard, and that of the scope it is in, say    *)
(* which conditions of the frames hold.                                    *)
LEMMA GuardsNow ==
  ASSUME TypeOK, Shape
  PROVE  /\ \A v : v \in Reach <=>
                     v \in path_condition /\ \A j \in 1 .. Len(nest) : v \in nest[j].cond
         /\ \A v \in path_condition :
              v \in scope_stack[Len(nest) + 1].guard <=>
                \A j \in 1 .. Len(nest) - 1 : v \in nest[j].cond
         /\ \A v \in path_condition : v \in guard <=> v \in Reach
         /\ guard = scope_stack[Len(nest) + 1].guard \intersect scope_stack[Len(nest) + 1].guard_prime
         /\ Len(scope_stack) = Len(nest) + 1
         /\ scope_stack[Len(nest) + 1].guard \subseteq Inputs
         /\ path_condition \subseteq Inputs
         /\ IF nest = << >> THEN scope_stack[Len(nest) + 1].guard_prime = Inputs
                            ELSE scope_stack[Len(nest) + 1].guard_prime = nest[Len(nest)].cond
<1> DEFINE n == Len(nest)
           top == scope_stack[n + 1]
<1>1. /\ n \in Nat /\ Len(scope_stack) = n + 1 /\ n + 1 \in 1 .. Len(scope_stack)
      /\ nest # << >> <=> n >= 1
      /\ top.guard \subseteq Inputs /\ top.guard_prime \subseteq Inputs
      /\ Last(scope_stack) = top
      /\ path_condition \subseteq Inputs
  <2>1. n \in Nat /\ Len(scope_stack) = n + 1 /\ (nest # << >> <=> n >= 1)
    BY NestType DEF Shape, ScopesMatch
  <2>2. n + 1 \in 1 .. Len(scope_stack)
    BY <2>1
  <2> QED
    BY <2>1, <2>2, TracerStacks, LastAndFront, CounterType DEF Condition
<1>2. \A v : v \in Reach <=> v \in path_condition /\ \A j \in 1 .. n : v \in nest[j].cond
  <2>1. DOMAIN nest = 1 .. n
    BY NestType
  <2> QED
    BY <2>1 DEF Reach
<1>3. /\ \A j \in 1 .. n - 1 : top.guard \subseteq nest[j].cond
      /\ \A v \in path_condition : (\A j \in 1 .. n - 1 : v \in nest[j].cond) => v \in top.guard
  <2>1. (n + 1) - 2 = n - 1
    BY <1>1
  <2> QED
    BY <1>1, <2>1 DEF Shape, ScopesExact
<1>4. guard = top.guard \intersect top.guard_prime
  BY <1>1 DEF Shape, ScopesMatch, GuardOfScope
<1>5. IF nest = << >> THEN top.guard_prime = Inputs ELSE top.guard_prime = nest[n].cond
  <2>1. CASE n = 0
    BY <1>1, <2>1 DEF Shape, ScopesMatch
  <2>2. CASE n >= 1
    <3>1. n \in 1 .. n
      BY <1>1, <2>2
    <3> QED
      BY <1>1, <2>2, <3>1 DEF Shape, ScopesMatch
  <2> QED
    BY <1>1, <2>1, <2>2
<1>6. ASSUME NEW v \in path_condition
      PROVE  v \in guard <=> v \in Reach
  <2>1. CASE n = 0
    BY <1>1, <1>2, <1>3, <1>4, <1>5, <2>1
  <2>2. CASE n >= 1
    <3>1. \A j \in 1 .. n : j \in 1 .. n - 1 \/ j = n
      BY <1>1
    <3>2. n \in 1 .. n /\ \A j \in 1 .. n - 1 : j \in 1 .. n
      BY <1>1, <2>2
    <3>3. v \in guard <=> v \in top.guard /\ v \in nest[n].cond
      BY <1>1, <1>4, <1>5, <2>2
    <3>4. v \in top.guard <=> \A j \in 1 .. n - 1 : v \in nest[j].cond
      BY <1>3
    <3>5. (\A j \in 1 .. n : v \in nest[j].cond) <=>
            v \in nest[n].cond /\ \A j \in 1 .. n - 1 : v \in nest[j].cond
      BY <3>1, <3>2
    <3> QED
      BY <1>2, <3>3, <3>4, <3>5
  <2> QED
    BY <1>1, <2>1, <2>2
<1>7. \A v \in path_condition : v \in top.guard <=> \A j \in 1 .. n - 1 : v \in nest[j].cond
  BY <1>3
<1> QED
  BY <1>1, <1>2, <1>4, <1>5, <1>6, <1>7

LEMMA EventsExactRecorded ==
  ASSUME TypeOK, Shape, TruthOK, EventsExact,
         NEW kind \in Kind, NEW id \in Nat, NEW sync \in SyncType, Records(kind, id, sync),
         path_condition' = path_condition
  PROVE  EventsExact'
<1>1. PICK n \in Nat : n = Len(events)
  BY EventsTyped
<1>2. /\ DOMAIN events = 1 .. n /\ DOMAIN events' = 1 .. n + 1
      /\ \A i \in 1 .. n : events'[i] = events[i] /\ truth'[i] = truth[i]
      /\ events'[n + 1].guard = guard /\ truth'[n + 1].reach = Reach
  BY <1>1, OneMoreEvent
<1>3. \A i \in 1 .. n + 1 : i \in 1 .. n \/ i = n + 1
  OBVIOUS
<1>4. \A v \in path_condition : v \in guard <=> v \in Reach
  BY GuardsNow
<1> QED
  BY <1>2, <1>3, <1>4 DEF EventsExact

LEMMA EventsExactNext ==
  ASSUME Core, EventsExact, [Next]_vars
  PROVE  EventsExact'
<1>0. /\ TypeOK /\ ScriptOK /\ Shape /\ TruthOK /\ Numbered /\ Ident
      /\ Joinable /\ ThreadsMatch
  BY DEF Core, Shape, Ident
<1>1. ASSUME NEW kind \in Statements, Statement(kind)
      PROVE  EventsExact'
  BY <1>0, <1>1, StatementRecords, EventsExactRecorded DEF Statement, KeepsChecking
<1>2. CASE ThreadEnd
  BY <1>0, <1>2, ThreadEndRecords, EventsExactRecorded DEF ThreadEnd, KeepsChecking
<1>3. CASE Join
  BY <1>0, <1>3, JoinRecords, EventsExactRecorded DEF Join, KeepsChecking
<1>4. CASE CallBarrier
  BY <1>0, <1>4, BarrierRecords, EventsExactRecorded DEF CallBarrier, KeepsChecking
<1>5. CASE ThreadBegin
  <2>1. PICK n \in Nat : n = Len(events)
    BY <1>0, EventsTyped
  <2>2. /\ DOMAIN events = 1 .. n /\ DOMAIN events' = 1 .. n + 2
        /\ \A i \in 1 .. n : events'[i] = events[i] /\ truth'[i] = truth[i]
        /\ events'[n + 1].guard = guard /\ truth'[n + 1].reach = Reach
        /\ events'[n + 2].guard = Inputs /\ truth'[n + 2].reach = Reach
        /\ path_condition' = path_condition
    BY <1>0, <1>5, <2>1, ThreadBeginRecords DEF ThreadBegin, BeginThread, KeepsChecking
  <2>3. \A i \in 1 .. n + 2 : i \in 1 .. n \/ i = n + 1 \/ i = n + 2
    OBVIOUS
  <2>4. /\ \A v \in path_condition : v \in guard <=> v \in Reach
        /\ path_condition \subseteq Inputs
        /\ \A v : v \in Reach <=>
                   v \in path_condition /\ \A j \in 1 .. Len(nest) : v \in nest[j].cond
    BY <1>0, GuardsNow
  <2>5. \A j \in 1 .. Len(nest) : nest[j].cond = Inputs
    BY <1>0, <1>5, OutsideScopes DEF ThreadBegin, Shape
  <2>6. \A v \in path_condition : v \in Reach
    BY <2>4, <2>5
  <2> QED
    BY <2>2, <2>3, <2>4, <2>6 DEF EventsExact
<1>6. CASE Branch
  <2>1. PICK g : path_condition' = path_condition \intersect g /\ UNCHANGED <<events, truth>>
    BY <1>0, <1>6, BranchEffect
  <2> QED
    BY <2>1 DEF EventsExact
<1>7. CASE \/ CallScopeThen \/ CallScopeElse \/ CallScopeEnd \/ AddError \/ Exit
           \/ FindNoNextPath \/ UNCHANGED vars
  <2>1. UNCHANGED <<truth, events, path_condition>>
    BY <1>7 DEF CallScopeThen, CallScopeElse, CallScopeEnd, ScopeOnly, AddError, Exit,
       KeepsChecking, FindNoNextPath, vars, history_vars, tracer_vars,
       ScopeThen, ScopeElse, ScopeEnd
  <2> QED
    BY <2>1 DEF EventsExact
<1>8. CASE FindNextPath \/ Reset
  <2>1. events' = << >>
    BY <1>0, <1>8, Restarts DEF ResetEvents
  <2>2. DOMAIN << >> = {}
    OBVIOUS
  <2> QED
    BY <2>1, <2>2 DEF EventsExact
<1> QED
  BY <1>1, <1>2, <1>3, <1>4, <1>5, <1>6, <1>7, <1>8 DEF Next

(* On the path that was taken, the guard of every event says for which     *)
(* inputs the program makes it, however scopes nest in threads and threads *)
(* in threads, if no thread is started and no branch made in a scope.      *)
THEOREM EventGuards == Spec => []EventGuardsExact
<1>1. Init => EventsExact
  <2>1. Init => events = << >>
    BY DEF Init, TracerInit
  <2>2. DOMAIN << >> = {}
    OBVIOUS
  <2> QED
    BY <2>1, <2>2 DEF EventsExact
<1>2. Core /\ EventsExact /\ [Next]_vars => EventsExact'
  BY EventsExactNext
<1>3. EventsExact => EventGuardsExact
  BY DEF EventsExact, EventGuardsExact
<1> QED
  BY <1>1, <1>2, <1>3, CoreInvariant, PTL DEF Spec

-----------------------------------------------------------------------------
(* The checker's guards and errors, step by step.                          *)

(* A scope is in the thread of the frame around it. *)
LEMMA ScopeThread ==
  ASSUME TypeOK, ThreadsMatch
  PROVE  /\ \A i \in 1 .. Len(nest) : nest[i].kind # "thread" => nest[i].thread = ThreadAt(i)
         /\ Thread = ThreadAt(Len(nest) + 1)
<1>1. PICK depth \in [0 .. Len(nest) -> 1 .. Len(thread_id_stack)] : InThreads(depth)
  BY DEF ThreadsMatch
<1>2. Len(nest) \in Nat /\ (nest # << >> <=> Len(nest) >= 1)
  BY NestType
<1>3. ASSUME NEW i \in 1 .. Len(nest), nest[i].kind # "thread"
      PROVE  nest[i].thread = ThreadAt(i)
  <2>1. /\ depth[i] = depth[i - 1] + 0 /\ nest[i].thread = thread_id_stack[depth[i]]
        /\ depth[i - 1] \in 1 .. Len(thread_id_stack)
    BY <1>1, <1>2, <1>3, SMTT(40) DEF InThreads
  <2>2. depth[i] = depth[i - 1]
    BY <2>1
  <2>3. CASE i = 1
    <3>1. depth[0] = 1 /\ thread_id_stack[1] = 1
      BY <1>1 DEF InThreads, ThreadsMatch
    <3> QED
      BY <2>1, <2>2, <2>3, <3>1 DEF ThreadAt
  <2>4. CASE i # 1
    <3>1. i - 1 \in 1 .. Len(nest)
      BY <1>2, <2>4
    <3> QED
      BY <1>1, <2>1, <2>2, <2>4, <3>1 DEF InThreads, ThreadAt
  <2> QED
    BY <2>3, <2>4
<1>4. Thread = ThreadAt(Len(nest) + 1)
  <2>1. CASE nest = << >>
    BY <1>2, <2>1 DEF Thread, ThreadAt
  <2>2. CASE nest # << >>
    BY <1>2, <2>2 DEF Thread, ThreadAt, Last
  <2> QED
    BY <2>1, <2>2
<1> QED
  BY <1>3, <1>4

Ended == phase = "checked" => nest = << >>

Guarded == BranchesKnown /\ CheckerGuards /\ ErrorsKept /\ Ended

(* Errors stay as they were made, while conditions are added. *)
LEMMA ErrorsStay ==
  ASSUME ErrorsKept, errors' = errors, path_condition' \subseteq path_condition,
         scope_stack'[1].guard \subseteq scope_stack[1].guard
  PROVE  ErrorsKept'
BY DEF ErrorsKept

LEMMA GuardedStays ==
  ASSUME Guarded,
         UNCHANGED <<nest, scope_stack, guards, branched, path_condition, errors>>,
         Ended'
  PROVE  Guarded'
<1>1. UNCHANGED <<Reach, InScope, Thread>>
  BY DEF Reach, InScope, Thread
<1>2. \A i : ThreadAt(i)' = ThreadAt(i)
  BY DEF ThreadAt
<1>3. BranchesKnown'
  BY <1>2 DEF Guarded, BranchesKnown
<1>4. CheckerGuards'
  BY <1>1 DEF Guarded, CheckerGuards
<1>5. ErrorsKept'
  BY ErrorsStay DEF Guarded
<1> QED
  BY <1>3, <1>4, <1>5 DEF Guarded

LEMMA GuardedError ==
  ASSUME Core, Guarded, AddError
  PROVE  Guarded'
<1>1. PICK c : errors' = errors \union {[meaning |-> guards \intersect c,
                                        reach |-> Reach \intersect c]}
  BY DEF AddError
<1>2. UNCHANGED <<nest, scope_stack, guards, branched, path_condition, phase>>
  BY DEF AddError, KeepsChecking, tracer_vars
<1>3. UNCHANGED <<Reach, InScope, Thread>>
  BY <1>2 DEF Reach, InScope, Thread
<1>4. \A i : ThreadAt(i)' = ThreadAt(i)
  BY <1>2 DEF ThreadAt
<1>5. BranchesKnown'
  BY <1>2, <1>4 DEF Guarded, BranchesKnown
<1>6. CheckerGuards'
  BY <1>2, <1>3 DEF Guarded, CheckerGuards
<1>7. ASSUME NEW e \in errors'
      PROVE  /\ e.reach \intersect path_condition \subseteq e.meaning
             /\ ~LateScopes => e.meaning \intersect scope_stack[1].guard \subseteq e.reach
  <2>1. CASE e \in errors
    BY <2>1 DEF Guarded, ErrorsKept
  <2>2. CASE e = [meaning |-> guards \intersect c, reach |-> Reach \intersect c]
    <3>1. e.meaning = guards \intersect c /\ e.reach = Reach \intersect c
      BY <2>2
    <3> QED
      BY <3>1 DEF Guarded, CheckerGuards
  <2> QED
    BY <1>1, <2>1, <2>2
<1>8. ErrorsKept'
  BY <1>2, <1>7 DEF ErrorsKept
<1> QED
  BY <1>2, <1>5, <1>6, <1>8 DEF Guarded, Ended

LEMMA GuardedThreadBegin ==
  ASSUME Core, Guarded, ThreadBegin
  PROVE  Guarded'
<1>0. /\ TypeOK /\ Shape /\ Numbered /\ ThreadsMatch /\ Nesting
      /\ BranchesKnown /\ CheckerGuards /\ ErrorsKept
  BY DEF Core, Shape, Guarded
<1>1. PICK n \in Nat, u \in Nat : n = Len(nest) /\ u = thread_id_cnt
  BY <1>0, NestType, CounterType
<1>2. /\ Len(nest') = n + 1
      /\ \A i \in 1 .. n : nest'[i] = nest[i]
      /\ nest'[n + 1].kind = "thread"
      /\ nest'[n + 1].cond = Inputs
      /\ nest'[n + 1].thread = u
      /\ Len(scope_stack) = n + 1
      /\ Len(scope_stack') = n + 2
      /\ \A i \in 1 .. n + 1 : scope_stack'[i] = scope_stack[i]
      /\ scope_stack'[n + 2].guard = Inputs
      /\ UNCHANGED <<path_condition, branched, guards, errors, phase>>
  BY <1>0, <1>1, ThreadBeginEffect DEF Shape, ScopesMatch
<1>3. DOMAIN nest' = 1 .. n + 1 /\ nest' # << >> /\ Last(nest') = nest'[n + 1]
  <2>1. nest' = Append(nest, nest'[n + 1])
    BY <1>0, <1>1, NestType DEF ThreadBegin, BeginThread, Within
  <2> QED
    BY <1>0, <1>1, <1>2, <2>1, NestType DEF Last
<1>4. Reach' = Reach
  <2>1. \A i \in 1 .. n + 1 : i \in 1 .. n \/ i = n + 1
    OBVIOUS
  <2>2. \A v : v \in Reach <=> v \in path_condition /\ \A i \in 1 .. n : v \in nest[i].cond
    BY <1>0, <1>1, GuardsNow
  <2>3. \A v : v \in Reach' <=>
                 v \in path_condition /\ \A i \in 1 .. n + 1 : v \in nest'[i].cond
    BY <1>2, <1>3 DEF Reach
  <2>4. path_condition \subseteq Inputs
    BY <1>0, GuardsNow
  <2>5. \A v : v \in Reach' <=> v \in Reach
    BY <1>2, <2>1, <2>2, <2>3, <2>4
  <2> QED
    BY <2>5
<1>5. ~InScope'
  BY <1>2, <1>3 DEF InScope
<1>6. 1 \in 1 .. n + 1 /\ scope_stack'[1] = scope_stack[1]
  BY <1>2
<1>7. CheckerGuards'
  BY <1>0, <1>2, <1>4, <1>5, <1>6 DEF CheckerGuards
<1>8. ErrorsKept'
  BY <1>0, <1>2, <1>6, ErrorsStay
<1>9. ASSUME NEW i \in 1 .. n + 2, branched \subseteq {1, ThreadAt(i)'}
      PROVE  scope_stack'[i].guard \intersect scope_stack[1].guard \subseteq path_condition
  <2>1. CASE i \in 1 .. n + 1
    <3>1. ThreadAt(i)' = ThreadAt(i)
      BY <1>2, <2>1 DEF ThreadAt
    <3> QED
      BY <1>0, <1>2, <1>9, <2>1, <3>1 DEF BranchesKnown
  <2>2. CASE i = n + 2
    <3>1. ThreadAt(i)' = u
      BY <1>2, <2>2 DEF ThreadAt
    <3>2. \A t \in branched : t # u
      BY <1>0, <1>1, CounterType
    <3>3. branched \subseteq {1, ThreadAt(1)}
      BY <1>9, <3>1, <3>2 DEF ThreadAt
    <3>4. scope_stack[1].guard \intersect scope_stack[1].guard \subseteq path_condition
      BY <1>0, <1>2, <1>6, <3>3 DEF BranchesKnown
    <3> QED
      BY <3>4
  <2> QED
    BY <2>1, <2>2
<1>10. BranchesKnown'
  BY <1>2, <1>6, <1>9 DEF BranchesKnown
<1>11. Ended'
  <2>1. phase = "run"
    BY DEF ThreadBegin, BeginThread, Calls, IsNextCall
  <2> QED
    BY <1>2, <2>1 DEF Ended
<1> QED
  BY <1>7, <1>8, <1>10, <1>11 DEF Guarded

(* A frame is left whose condition is part of the path's or dropped. *)
LEMMA BranchesLeft ==
  ASSUME TypeOK, ScopesMatch, BranchesKnown,
         nest # << >>, nest' = Front(nest), scope_stack' = Front(scope_stack),
         UNCHANGED <<branched, path_condition>>
  PROVE  BranchesKnown' /\ scope_stack'[1] = scope_stack[1]
<1>1. PICK n \in Nat : n = Len(nest)
  BY NestType
<1>2. /\ n >= 1
      /\ Len(nest') = n - 1
      /\ \A i \in 1 .. n - 1 : nest'[i] = nest[i]
      /\ Len(scope_stack) = n + 1
      /\ Len(scope_stack') = n
      /\ \A i \in 1 .. n : scope_stack'[i] = scope_stack[i]
  BY <1>1, FrameLeft
<1>3. 1 \in 1 .. n /\ scope_stack'[1] = scope_stack[1]
  BY <1>2
<1>4. ASSUME NEW i \in 1 .. n, branched \subseteq {1, ThreadAt(i)'}
      PROVE  scope_stack'[i].guard \intersect scope_stack[1].guard \subseteq path_condition
  <2>1. ThreadAt(i)' = ThreadAt(i)
    BY <1>2 DEF ThreadAt
  <2>2. i \in 1 .. Len(scope_stack)
    BY <1>2
  <2> QED
    BY <1>2, <1>4, <2>1, <2>2 DEF BranchesKnown
<1>5. BranchesKnown'
  BY <1>2, <1>3, <1>4 DEF BranchesKnown
<1> QED
  BY <1>3, <1>5

(* The conditions that a call is made under, once a frame has been left *)
LEMMA ReachLeft ==
  ASSUME TypeOK, nest # << >>, nest' = Front(nest), path_condition' = path_condition
  PROVE  \A v : v \in Reach' <=>
                  v \in path_condition /\ \A i \in 1 .. Len(nest) - 1 : v \in nest[i].cond
<1>1. /\ Front(nest) \in Seq(Frame)
      /\ Len(Front(nest)) = Len(nest) - 1
      /\ \A i \in 1 .. Len(nest) - 1 : Front(nest)[i] = nest[i]
  BY NestType, LastAndFront
<1>2. DOMAIN nest' = 1 .. Len(nest) - 1
  BY <1>1
<1> QED
  BY <1>1, <1>2 DEF Reach

LEMMA GuardedThreadEnd ==
  ASSUME Core, Guarded, ThreadEnd
  PROVE  Guarded'
<1>0. /\ TypeOK /\ Shape /\ ThreadsMatch /\ Nesting /\ ScopesMatch
      /\ BranchesKnown /\ CheckerGuards /\ ErrorsKept
  BY DEF Core, Shape, Guarded
<1>1. /\ nest # << >> /\ ~InScope /\ nest' = Front(nest)
      /\ scope_stack' = Front(scope_stack)
      /\ UNCHANGED <<guards, errors, branched, path_condition, phase>>
      /\ phase = "run"
  BY DEF ThreadEnd, KeepsChecking, AppendThreadEnd, Calls, IsNextCall
<1>2. BranchesKnown' /\ scope_stack'[1] = scope_stack[1]
  BY <1>0, <1>1, BranchesLeft
<1>3. ErrorsKept' /\ Ended'
  BY <1>0, <1>1, <1>2, ErrorsStay DEF Ended
<1>4. PICK n \in Nat : n = Len(nest)
  BY <1>0, NestType
<1>5. /\ n >= 1 /\ Len(nest') = n - 1 /\ \A i \in 1 .. n - 1 : nest'[i] = nest[i]
  BY <1>0, <1>1, <1>4, FrameLeft
<1>6. \A i \in 1 .. n : nest[i].kind = "thread" /\ nest[i].cond = Inputs
  BY <1>0, <1>1, <1>4, OutsideScopes
<1>7. Reach' = Reach
  <2>1. \A i \in 1 .. n : i \in 1 .. n - 1 \/ i = n
    BY <1>5
  <2>2. \A v : v \in Reach <=> v \in path_condition /\ \A i \in 1 .. n : v \in nest[i].cond
    BY <1>0, <1>4, GuardsNow
  <2>3. \A v : v \in Reach' <=> v \in path_condition /\ \A i \in 1 .. n - 1 : v \in nest[i].cond
    BY <1>0, <1>1, <1>4, ReachLeft
  <2>4. path_condition \subseteq Inputs
    BY <1>0, GuardsNow
  <2>5. \A v : v \in Reach' <=> v \in Reach
    BY <1>6, <2>1, <2>2, <2>3, <2>4
  <2> QED
    BY <2>5
<1>8. ~InScope'
  <2>1. CASE n = 1
    <3>1. Front(nest) \in Seq(Frame)
      BY <1>0, <1>1, NestType, LastAndFront
    <3>2. nest' = << >>
      BY <1>1, <1>5, <2>1, <3>1
    <3> QED
      BY <3>2 DEF InScope
  <2>2. CASE n >= 2
    <3>1. n - 1 \in 1 .. n /\ n - 1 \in 1 .. n - 1
      BY <2>2
    <3>2. nest'[Len(nest')].kind = "thread"
      BY <1>5, <1>6, <3>1
    <3> QED
      BY <3>2 DEF InScope, Last
  <2> QED
    BY <1>5, <2>1, <2>2
<1>9. CheckerGuards'
  BY <1>0, <1>1, <1>2, <1>7, <1>8 DEF CheckerGuards
<1> QED
  BY <1>2, <1>3, <1>9 DEF Guarded

(* set_guards takes over the tracer's guard: the guard of the scope on the *)
(* top, and it has all of the path condition if no scope is opened late.   *)
LEMMA GuardsSet ==
  ASSUME TypeOK, NEW n \in Nat, n = Len(nest'), DOMAIN nest' = 1 .. n,
         BranchesKnown', Len(scope_stack') = n + 1,
         guards' = guard', guard' \subseteq scope_stack'[n + 1].guard,
         \A v \in path_condition' : v \in guard' <=> \A i \in 1 .. n : v \in nest'[i].cond,
         ~LateScopes => branched' \subseteq {1, Thread'}, Thread' = ThreadAt(n + 1)'
  PROVE  CheckerGuards'
<1>1. \A v : v \in Reach' <=> v \in path_condition' /\ \A i \in 1 .. n : v \in nest'[i].cond
  BY DEF Reach
<1>2. Reach' \subseteq guards'
  BY <1>1
<1>3. ASSUME ~LateScopes
      PROVE  guards' \intersect scope_stack'[1].guard \subseteq Reach'
  <2>1. n + 1 \in 1 .. Len(scope_stack')
    OBVIOUS
  <2>2. scope_stack'[n + 1].guard \intersect scope_stack'[1].guard \subseteq path_condition'
    BY <1>3, <2>1 DEF BranchesKnown
  <2> QED
    BY <1>1, <2>2
<1> QED
  BY <1>2, <1>3 DEF CheckerGuards

LEMMA GuardedScopeEnd ==
  ASSUME Core, Guarded, CallScopeEnd
  PROVE  Guarded'
<1>0. /\ TypeOK /\ Shape /\ ThreadsMatch /\ ScopesMatch /\ ScopesExact
      /\ BranchesKnown /\ CheckerGuards /\ ErrorsKept
  BY DEF Core, Shape, Guarded
<1>1. /\ InScope /\ nest # << >> /\ nest' = Front(nest)
      /\ scope_stack' = Front(scope_stack) /\ guard' = Last(scope_stack).guard
      /\ guards' = guard'
      /\ UNCHANGED <<errors, branched, path_condition, phase>>
      /\ phase = "run"
  BY DEF CallScopeEnd, ScopeOnly, KeepsChecking, ScopeEnd, Calls, IsNextCall, SetGuards, InScope
<1>2. BranchesKnown' /\ scope_stack'[1] = scope_stack[1]
  BY <1>0, <1>1, BranchesLeft
<1>3. ErrorsKept' /\ Ended'
  BY <1>0, <1>1, <1>2, ErrorsStay DEF Ended
<1>4. PICK n \in Nat : n = Len(nest)
  BY <1>0, NestType
<1>5. /\ n >= 1 /\ Len(nest') = n - 1 /\ \A i \in 1 .. n - 1 : nest'[i] = nest[i]
      /\ Len(scope_stack') = n /\ \A i \in 1 .. n : scope_stack'[i] = scope_stack[i]
      /\ Last(scope_stack) = scope_stack[n + 1] /\ Last(nest) = nest[n]
  BY <1>0, <1>1, <1>4, FrameLeft
<1>6. nest' \in Seq(Frame) /\ DOMAIN nest' = 1 .. n - 1 /\ (nest' = << >> <=> n = 1)
  <2>1. nest' \in Seq(Frame)
    BY <1>0, <1>1, NestType, LastAndFront
  <2> QED
    BY <1>5, <2>1
<1>7. /\ \A v \in path_condition : v \in guard' <=> \A i \in 1 .. n - 1 : v \in nest[i].cond
  BY <1>0, <1>1, <1>4, <1>5, GuardsNow
<1>8. guard' \subseteq scope_stack'[n].guard
  <2>1. scope_stack[n + 1].guard = GuardOfScope(scope_stack[n])
    <3>1. n \in 1 .. n /\ nest[n].kind # "thread"
      BY <1>1, <1>5 DEF InScope
    <3> QED
      BY <1>0, <1>4, <3>1 DEF ScopesMatch
  <2>2. n \in 1 .. n
    BY <1>5
  <2> QED
    BY <1>1, <1>5, <2>1, <2>2 DEF GuardOfScope
<1>9. Thread' = Thread /\ Thread' = ThreadAt(n)'
  <2>1. nest[n].kind # "thread" /\ n \in 1 .. n
    BY <1>1, <1>5 DEF InScope
  <2>2. Thread = nest[n].thread /\ nest[n].thread = ThreadAt(n)
    BY <1>0, <1>1, <1>4, <1>5, <2>1, ScopeThread DEF Thread
  <2>3. CASE n = 1
    BY <1>6, <2>2, <2>3 DEF Thread, ThreadAt
  <2>4. CASE n >= 2
    <3>1. n - 1 \in 1 .. n - 1 /\ n # 1 /\ nest' # << >>
      BY <1>6, <2>4
    <3>2. Last(nest') = nest'[n - 1]
      BY <1>5 DEF Last
    <3> QED
      BY <1>5, <2>2, <3>1, <3>2 DEF Thread, ThreadAt
  <2> QED
    BY <1>5, <2>3, <2>4
<1>10. ~LateScopes => branched' \subseteq {1, Thread'}
  BY <1>0, <1>1, <1>9 DEF CheckerGuards
<1>11. CheckerGuards'
  <2>1. PICK m \in Nat : m = n - 1 /\ m + 1 = n
    BY <1>5
  <2>2. /\ m = Len(nest') /\ DOMAIN nest' = 1 .. m /\ Len(scope_stack') = m + 1
        /\ guard' \subseteq scope_stack'[m + 1].guard
        /\ Thread' = ThreadAt(m + 1)'
    BY <1>5, <1>6, <1>8, <1>9, <2>1
  <2>3. \A v \in path_condition' : v \in guard' <=> \A i \in 1 .. m : v \in nest'[i].cond
    BY <1>1, <1>5, <1>7, <2>1
  <2> QED
    BY <1>0, <1>1, <1>2, <1>10, <2>2, <2>3, GuardsSet
<1> QED
  BY <1>2, <1>3, <1>11 DEF Guarded

LEMMA GuardedScopeThen ==
  ASSUME Core, Guarded, CallScopeThen
  PROVE  Guarded'
<1>0. /\ TypeOK /\ Shape /\ ThreadsMatch /\ ScopesMatch
      /\ BranchesKnown /\ CheckerGuards /\ ErrorsKept
  BY DEF Core, Shape, Guarded
<1>1. PICK n \in Nat : n = Len(nest)
  BY <1>0, NestType
<1>2. PICK g \in Condition :
        /\ Len(nest') = n + 1
        /\ \A i \in 1 .. n : nest'[i] = nest[i]
        /\ nest'[n + 1].cond = g
        /\ nest'[n + 1].thread = Thread
        /\ Len(scope_stack') = Len(scope_stack) + 1
        /\ \A i \in 1 .. Len(scope_stack) : scope_stack'[i] = scope_stack[i]
        /\ scope_stack'[Len(scope_stack) + 1].guard = guard
        /\ guard' = guard \intersect g
  BY <1>0, <1>1, ScopeThenEffect
<1>3. /\ Len(scope_stack) = n + 1 /\ Len(scope_stack') = n + 2
      /\ \A i \in 1 .. n + 1 : scope_stack'[i] = scope_stack[i]
      /\ scope_stack'[n + 2].guard = guard
      /\ guard \subseteq scope_stack[n + 1].guard
      /\ \A v \in path_condition : v \in guard <=> v \in Reach
      /\ \A v : v \in Reach <=> v \in path_condition /\ \A i \in 1 .. n : v \in nest[i].cond
  <2>1. Len(scope_stack) = n + 1
    BY <1>0, <1>1, GuardsNow
  <2> QED
    BY <1>0, <1>1, <1>2, <2>1, GuardsNow
<1>4. /\ guards' = guard' /\ phase = "run"
      /\ UNCHANGED <<errors, branched, path_condition, phase>>
      /\ LateScopes \/ branched \subseteq {1, Thread}
  BY DEF CallScopeThen, ScopeOnly, KeepsChecking, Calls, IsNextCall, SetGuards
<1>5. DOMAIN nest' = 1 .. n + 1 /\ nest' # << >> /\ Last(nest') = nest'[n + 1]
  <2>1. PICK e : nest' = Append(nest, e)
    BY DEF CallScopeThen, Within
  <2> QED
    BY <1>0, <1>1, <1>2, <2>1, NestType DEF Last
<1>6. Thread' = Thread /\ ThreadAt(n + 2)' = Thread /\ Thread = ThreadAt(n + 1)
  BY <1>0, <1>1, <1>2, <1>5, ScopeThread DEF Thread, ThreadAt
<1>7. 1 \in 1 .. n + 1 /\ scope_stack'[1] = scope_stack[1]
  BY <1>3
<1>8. ASSUME NEW i \in 1 .. n + 2, branched \subseteq {1, ThreadAt(i)'}
      PROVE  scope_stack'[i].guard \intersect scope_stack[1].guard \subseteq path_condition
  <2>1. CASE i \in 1 .. n + 1
    <3>1. ThreadAt(i)' = ThreadAt(i)
      BY <1>2, <2>1 DEF ThreadAt
    <3> QED
      BY <1>0, <1>3, <1>8, <2>1, <3>1 DEF BranchesKnown
  <2>2. CASE i = n + 2
    <3>1. n + 1 \in 1 .. Len(scope_stack) /\ branched \subseteq {1, ThreadAt(n + 1)}
      BY <1>3, <1>6, <1>8, <2>2
    <3>2. scope_stack[n + 1].guard \intersect scope_stack[1].guard \subseteq path_condition
      BY <1>0, <3>1 DEF BranchesKnown
    <3> QED
      BY <1>3, <2>2, <3>2
  <2> QED
    BY <2>1, <2>2
<1>9. BranchesKnown'
  BY <1>3, <1>4, <1>7, <1>8 DEF BranchesKnown
<1>10. ErrorsKept' /\ Ended'
  BY <1>0, <1>4, <1>7, ErrorsStay DEF Ended
<1>11. \A v \in path_condition : v \in guard' <=> \A i \in 1 .. n + 1 : v \in nest'[i].cond
  <2>1. \A i \in 1 .. n + 1 : i \in 1 .. n \/ i = n + 1
    OBVIOUS
  <2> QED
    BY <1>2, <1>3, <2>1
<1>12. CheckerGuards'
  <2>1. PICK m \in Nat : m = n + 1 /\ m + 1 = n + 2
    OBVIOUS
  <2>2. /\ m = Len(nest') /\ DOMAIN nest' = 1 .. m /\ Len(scope_stack') = m + 1
        /\ guard' \subseteq scope_stack'[m + 1].guard
        /\ Thread' = ThreadAt(m + 1)'
        /\ ~LateScopes => branched' \subseteq {1, Thread'}
    BY <1>2, <1>3, <1>4, <1>5, <1>6, <2>1
  <2>3. \A v \in path_condition' : v \in guard' <=> \A i \in 1 .. m : v \in nest'[i].cond
    BY <1>4, <1>11, <2>1
  <2> QED
    BY <1>0, <1>4, <1>9, <2>2, <2>3, GuardsSet
<1> QED
  BY <1>9, <1>10, <1>12 DEF Guarded

LEMMA GuardedScopeElse ==
  ASSUME Core, Guarded, CallScopeElse
  PROVE  Guarded'
<1>0. /\ TypeOK /\ Shape /\ ThreadsMatch /\ ScopesMatch
      /\ BranchesKnown /\ CheckerGuards /\ ErrorsKept
  BY DEF Core, Shape, Guarded
<1>1. /\ nest # << >> /\ Last(nest).kind = "then" /\ ScopeElse
      /\ nest' = Append(Front(nest), [Last(nest) EXCEPT !.kind = "else", !.cond = Inputs \ @])
      /\ guards' = guard' /\ phase = "run"
      /\ UNCHANGED <<errors, branched, path_condition, phase>>
  BY DEF CallScopeElse, ScopeOnly, KeepsChecking, Calls, IsNextCall, SetGuards
<1>2. PICK n \in Nat : n = Len(nest)
  BY <1>0, NestType
<1>3. /\ n >= 1 /\ Len(scope_stack) = n + 1
      /\ Len(nest') = n
      /\ \A i \in 1 .. n - 1 : nest'[i] = nest[i]
      /\ nest'[n].cond = Inputs \ nest[n].cond
      /\ nest'[n].thread = nest[n].thread
      /\ nest' \in Seq(Frame)
  BY <1>0, <1>1, <1>2, NestType, ElseFrame, GuardsNow
<1>4. /\ Len(scope_stack') = n + 1
      /\ \A i \in 1 .. n : scope_stack'[i] = scope_stack[i]
      /\ scope_stack'[n + 1].guard = scope_stack[n + 1].guard
      /\ scope_stack'[n + 1].guard_prime = Inputs \ scope_stack[n + 1].guard_prime
      /\ guard' = GuardOfScope(scope_stack'[n + 1])
  BY <1>0, <1>1, <1>3, ElseScope
<1>5. /\ DOMAIN nest' = 1 .. n /\ nest' # << >> /\ Last(nest') = nest'[n]
      /\ Last(nest) = nest[n]
  <2>1. DOMAIN nest' = 1 .. n /\ nest' # << >>
    BY <1>3
  <2>2. Last(nest') = nest'[n]
    BY <1>3 DEF Last
  <2>3. Last(nest) = nest[n]
    BY <1>2 DEF Last
  <2> QED
    BY <2>1, <2>2, <2>3
<1>6. Thread' = Thread /\ ThreadAt(n + 1)' = Thread
  <2>1. n + 1 # 1 /\ (n + 1) - 1 = n
    BY <1>3
  <2>2. Thread' = nest'[n].thread /\ Thread = nest[n].thread
    BY <1>1, <1>5 DEF Thread
  <2> QED
    BY <1>3, <2>1, <2>2 DEF ThreadAt
<1>7. scope_stack'[1].guard = scope_stack[1].guard /\ \A i \in 1 .. n + 1 :
        scope_stack'[i].guard = scope_stack[i].guard
  <2>1. \A i \in 1 .. n + 1 : i \in 1 .. n \/ i = n + 1
    OBVIOUS
  <2>2. 1 \in 1 .. n
    BY <1>3
  <2> QED
    BY <1>4, <2>1, <2>2
<1>8. ASSUME NEW i \in 1 .. n + 1, branched \subseteq {1, ThreadAt(i)'}
      PROVE  scope_stack'[i].guard \intersect scope_stack[1].guard \subseteq path_condition
  <2>1. ThreadAt(i)' = ThreadAt(i)
    <3>1. i = 1 \/ i - 1 \in 1 .. n - 1 \/ i = n + 1
      OBVIOUS
    <3>2. i = n + 1 => i # 1 /\ i - 1 = n
      BY <1>3
    <3> QED
      BY <1>3, <3>1, <3>2 DEF ThreadAt
  <2> QED
    BY <1>0, <1>3, <1>7, <1>8, <2>1 DEF BranchesKnown
<1>9. BranchesKnown'
  BY <1>1, <1>4, <1>7, <1>8 DEF BranchesKnown
<1>10. ErrorsKept' /\ Ended'
  BY <1>0, <1>1, <1>7, ErrorsStay DEF Ended
<1>11. \A v \in path_condition : v \in guard' <=> \A i \in 1 .. n : v \in nest'[i].cond
  <2>1. \A i \in 1 .. n : i \in 1 .. n - 1 \/ i = n
    OBVIOUS
  <2>2. n \in 1 .. n /\ \A i \in 1 .. n - 1 : i \in 1 .. n
    BY <1>3
  <2>3. /\ \A v \in path_condition :
             v \in scope_stack[n + 1].guard <=> \A i \in 1 .. n - 1 : v \in nest[i].cond
        /\ scope_stack[n + 1].guard_prime = nest[n].cond
        /\ scope_stack[n + 1].guard \subseteq Inputs
    BY <1>0, <1>1, <1>2, GuardsNow
  <2>4. guard' = scope_stack[n + 1].guard \intersect nest'[n].cond
    BY <1>3, <1>4, <2>3 DEF GuardOfScope
  <2>5. ASSUME NEW v \in path_condition
        PROVE  v \in guard' <=> \A i \in 1 .. n : v \in nest'[i].cond
    <3>1. v \in guard' <=> v \in nest'[n].cond /\ \A i \in 1 .. n - 1 : v \in nest'[i].cond
      BY <1>3, <2>3, <2>4
    <3> QED
      BY <2>1, <2>2, <3>1
  <2> QED
    BY <2>5
<1>12. guard' \subseteq scope_stack'[n + 1].guard
  BY <1>4 DEF GuardOfScope
<1>13. ~LateScopes => branched' \subseteq {1, Thread'}
  BY <1>0, <1>1, <1>6 DEF CheckerGuards, InScope
<1>14. CheckerGuards'
  BY <1>0, <1>1, <1>3, <1>4, <1>5, <1>6, <1>9, <1>11, <1>12, <1>13, GuardsSet
<1> QED
  BY <1>9, <1>10, <1>14 DEF Guarded

LEMMA GuardedBranch ==
  ASSUME Core, Guarded, Branch
  PROVE  Guarded'
<1>0. /\ TypeOK /\ Shape /\ ThreadsMatch /\ Nesting /\ ScopesMatch
      /\ BranchesKnown /\ CheckerGuards /\ ErrorsKept /\ Ended
  BY DEF Core, Shape, Guarded
<1>1. PICK n \in Nat : n = Len(nest)
  BY <1>0, NestType
<1>2. PICK g \in Condition :
        /\ Len(scope_stack') = Len(scope_stack)
        /\ \A i \in 1 .. Len(scope_stack) - 1 : scope_stack'[i] = scope_stack[i]
        /\ scope_stack'[Len(scope_stack)].guard = guard \intersect g
        /\ guards' = guards \intersect g
        /\ path_condition' = path_condition \intersect g
        /\ branched' = branched \union {Thread}
        /\ UNCHANGED <<errors, phase, nest>>
        /\ ~InScope
  BY <1>0, BranchEffect
<1>3. /\ Len(scope_stack) = n + 1 /\ Len(scope_stack') = n + 1
      /\ \A i \in 1 .. n : scope_stack'[i] = scope_stack[i]
      /\ scope_stack'[n + 1].guard = scope_stack[n + 1].guard \intersect g
  <2>1. Len(scope_stack) = n + 1
    BY <1>0, <1>1, GuardsNow
  <2>2. guard = scope_stack[n + 1].guard
    <3>1. scope_stack[n + 1].guard_prime = Inputs
      <4>1. CASE nest = << >>
        BY <1>0, <1>1, <4>1, GuardsNow
      <4>2. CASE nest # << >>
        <5>1. n \in 1 .. n
          BY <1>0, <1>1, <4>2, NestType
        <5>2. nest[n].cond = Inputs
          BY <1>0, <1>1, <1>2, <5>1, OutsideScopes
        <5> QED
          BY <1>0, <1>1, <4>2, <5>2, GuardsNow
      <4> QED
        BY <4>1, <4>2
    <3>2. /\ guard = scope_stack[n + 1].guard \intersect scope_stack[n + 1].guard_prime
          /\ scope_stack[n + 1].guard \subseteq Inputs
      BY <1>0, <1>1, GuardsNow
    <3> QED
      BY <3>1, <3>2
  <2> QED
    BY <1>2, <2>1, <2>2
<1>4. \A i \in 1 .. n + 1 : scope_stack'[i].guard \subseteq scope_stack[i].guard
  <2>1. \A i \in 1 .. n + 1 : i \in 1 .. n \/ i = n + 1
    OBVIOUS
  <2> QED
    BY <1>3, <2>1
<1>5. 1 \in 1 .. n + 1 /\ scope_stack'[1].guard \subseteq scope_stack[1].guard
      /\ (n = 0 => scope_stack'[1].guard \subseteq g)
  <2>1. 1 \in 1 .. n + 1
    OBVIOUS
  <2> QED
    BY <1>3, <1>4, <2>1
<1>6. Thread' = Thread /\ ~InScope' /\ \A i : ThreadAt(i)' = ThreadAt(i)
  BY <1>2 DEF Thread, InScope, ThreadAt
<1>7. Reach' = Reach \intersect g
  BY <1>2 DEF Reach
<1>8. CheckerGuards'
  BY <1>0, <1>2, <1>5, <1>6, <1>7 DEF CheckerGuards
<1>9. ErrorsKept' /\ Ended'
  BY <1>0, <1>2, <1>5, ErrorsStay DEF Ended
<1>10. ASSUME NEW i \in 1 .. n + 1, branched' \subseteq {1, ThreadAt(i)}
       PROVE  scope_stack'[i].guard \intersect scope_stack'[1].guard
                \subseteq path_condition \intersect g
  <2>1. scope_stack[i].guard \intersect scope_stack[1].guard \subseteq path_condition
    BY <1>0, <1>2, <1>3, <1>10 DEF BranchesKnown
  <2>2. CASE i = n + 1
    BY <1>3, <1>5, <2>1, <2>2
  <2>3. CASE i # n + 1
    <3>1. n >= 1 /\ i \in 1 .. n /\ nest # << >>
      BY <1>0, <1>1, <2>3, NestType
    <3>2. Thread > 1 /\ Thread \in Nat
      BY <1>0, <1>2, <3>1, ThreadIsCurrent
    <3>3. Thread = nest[n].thread
      BY <1>1, <3>1 DEF Thread, Last
    <3>4. Thread = ThreadAt(i)
      BY <1>2, <1>10, <3>2
    <3>5. i # 1
      BY <3>2, <3>4 DEF ThreadAt
    <3>6. i - 1 \in 1 .. n - 1 /\ n \in 1 .. n /\ i - 1 \in 1 .. n
      BY <3>1, <3>5
    <3>7. nest[n].kind = "thread"
      BY <1>0, <1>1, <1>2, <3>6, OutsideScopes
    <3>8. nest[i - 1].thread < nest[n].thread
      BY <1>0, <1>1, <3>6, <3>7 DEF Nesting
    <3>9. nest[i - 1].thread = nest[n].thread
      BY <3>3, <3>4, <3>5 DEF ThreadAt
    <3> QED
      BY <3>2, <3>3, <3>8, <3>9
  <2> QED
    BY <2>2, <2>3
<1>11. BranchesKnown'
  BY <1>2, <1>3, <1>6, <1>10 DEF BranchesKnown
<1> QED
  BY <1>8, <1>9, <1>11 DEF Guarded

LEMMA GuardedRestart ==
  ASSUME ResetEvents, ProgramStarts, CheckerReset
  PROVE  Guarded'
<1>1. /\ scope_stack' = <<OutermostScope(Inputs)>> /\ nest' = << >> /\ path_condition' = Inputs
      /\ branched' = {} /\ guards' = Inputs /\ errors' = {} /\ phase' = "run"
  BY DEF ResetEvents, ProgramStarts, CheckerReset
<1>2. /\ Len(scope_stack') = 1 /\ scope_stack'[1].guard = Inputs /\ DOMAIN nest' = {}
  BY <1>1 DEF OutermostScope
<1>3. Reach' = Inputs /\ ~InScope'
  BY <1>1, <1>2 DEF Reach, InScope
<1>4. BranchesKnown'
  <2>1. \A i \in 1 .. 1 : i = 1
    OBVIOUS
  <2> QED
    BY <1>1, <1>2, <2>1 DEF BranchesKnown
<1>5. CheckerGuards' /\ ErrorsKept' /\ Ended'
  BY <1>1, <1>2, <1>3 DEF CheckerGuards, ErrorsKept, Ended
<1> QED
  BY <1>4, <1>5 DEF Guarded

LEMMA GuardedInit == Init => Guarded
<1> SUFFICES ASSUME Init
             PROVE  Guarded
  OBVIOUS
<1>1. /\ scope_stack = <<OutermostScope(Inputs)>> /\ nest = << >> /\ path_condition = Inputs
      /\ branched = {} /\ guards = Inputs /\ errors = {} /\ phase = "run"
  BY DEF Init, TracerInit
<1>2. /\ Len(scope_stack) = 1 /\ scope_stack[1].guard = Inputs /\ DOMAIN nest = {}
  BY <1>1 DEF OutermostScope
<1>3. Reach = Inputs /\ ~InScope
  BY <1>1, <1>2 DEF Reach, InScope
<1>4. BranchesKnown
  <2>1. \A i \in 1 .. 1 : i = 1
    OBVIOUS
  <2> QED
    BY <1>1, <1>2, <2>1 DEF BranchesKnown
<1>5. CheckerGuards /\ ErrorsKept /\ Ended
  BY <1>1, <1>2, <1>3 DEF CheckerGuards, ErrorsKept, Ended
<1> QED
  BY <1>4, <1>5 DEF Guarded

LEMMA GuardedNext ==
  ASSUME Core, Guarded, [Next]_vars
  PROVE  Guarded'
<1>0. TypeOK /\ ScriptOK /\ Ended
  BY DEF Core, Guarded
<1>1. CASE (\E kind \in Statements : Statement(kind)) \/ Join \/ CallBarrier
  <2>1. UNCHANGED <<nest, scope_stack, guards, branched, path_condition, errors, phase>>
    BY <1>1 DEF Statement, Join, CallBarrier, AppendEvent, AppendJoin, Barrier, KeepsChecking
  <2> QED
    BY <1>0, <2>1, GuardedStays DEF Ended
<1>2. CASE Exit
  <2>1. UNCHANGED <<nest, scope_stack, guards, branched, path_condition, errors>> /\ nest = << >>
    BY <1>2 DEF Exit, tracer_vars, checker_vars
  <2> QED
    BY <2>1, GuardedStays DEF Ended
<1>3. CASE FindNoNextPath
  <2>1. /\ UNCHANGED <<nest, scope_stack, guards, branched, path_condition, errors>>
        /\ phase' = "done"
    BY <1>3 DEF FindNoNextPath, tracer_vars, program_vars, history_vars
  <2> QED
    BY <2>1, GuardedStays DEF Ended
<1>4. CASE UNCHANGED vars
  <2>1. UNCHANGED <<nest, scope_stack, guards, branched, path_condition, errors, phase>>
    BY <1>4 DEF vars, tracer_vars, checker_vars, program_vars, history_vars
  <2> QED
    BY <1>0, <2>1, GuardedStays DEF Ended
<1>5. CASE FindNextPath \/ Reset
  BY <1>0, <1>5, Restarts, GuardedRestart
<1>6. CASE ThreadBegin \/ ThreadEnd \/ AddError \/ Branch
  BY <1>6, GuardedThreadBegin, GuardedThreadEnd, GuardedError, GuardedBranch
<1>7. CASE CallScopeThen \/ CallScopeElse \/ CallScopeEnd
  BY <1>7, GuardedScopeThen, GuardedScopeElse, GuardedScopeEnd
<1> QED
  BY <1>1, <1>2, <1>3, <1>4, <1>5, <1>6, <1>7 DEF Next

LEMMA GuardedInvariant == Spec => [](Core /\ Guarded)
<1>1. Init => Guarded
  BY GuardedInit
<1>2. Core /\ Guarded /\ [Next]_vars => Guarded'
  BY GuardedNext
<1> QED
  BY <1>1, <1>2, CoreInvariant, PTL DEF Spec

(* At the end of a path the tracer's guard is that of the main thread. *)
LEMMA GuardAtEnd ==
  ASSUME Core, Guarded, phase = "checked"
  PROVE  /\ guard = scope_stack[1].guard
         /\ path_condition \subseteq guard
         /\ branched \subseteq {1} => guard \subseteq path_condition
<1>1. TypeOK /\ Shape /\ BranchesKnown /\ nest = << >>
  BY DEF Core, Guarded, Ended
<1>2. Len(nest) = 0
  BY <1>1
<1>3. /\ guard = scope_stack[0 + 1].guard /\ Len(scope_stack) = 0 + 1
  <2>1. /\ guard = scope_stack[0 + 1].guard \intersect scope_stack[0 + 1].guard_prime
        /\ scope_stack[0 + 1].guard_prime = Inputs
        /\ scope_stack[0 + 1].guard \subseteq Inputs
        /\ Len(scope_stack) = 0 + 1
    BY <1>1, <1>2, GuardsNow
  <2> QED
    BY <2>1
<1>4. guard = scope_stack[1].guard /\ 1 \in 1 .. Len(scope_stack)
  BY <1>3
<1>5. path_condition \subseteq guard
  <2>1. \A v \in path_condition : v \in guard <=> v \in Reach
    BY <1>1, GuardsNow
  <2>2. \A v \in path_condition : v \in Reach
    BY <1>1 DEF Reach
  <2> QED
    BY <2>1, <2>2
<1>6. branched \subseteq {1} => guard \subseteq path_condition
  BY <1>1, <1>4 DEF BranchesKnown, ThreadAt
<1> QED
  BY <1>4, <1>5, <1>6

(* What the encoder asserts of a path never rules the path out, and it is  *)
(* the path's condition if only the main thread branched.                  *)
THEOREM PathGuard == Spec => []PathGuardExact
<1>1. Core /\ Guarded => PathGuardExact
  BY GuardAtEnd DEF PathGuardExact
<1> QED
  BY <1>1, GuardedInvariant, PTL

(* If no scope is opened after another thread has branched, an error is    *)
(* reported for an input, under the tracer's guard, only if the program    *)
(* makes it, and for every input of the path that makes it.                *)
THEOREM Errors ==
  ASSUME ~LateScopes
  PROVE  Spec => []ErrorsExact
<1>1. Core /\ Guarded => ErrorsExact
  <2> SUFFICES ASSUME Core, Guarded, phase = "checked", NEW e \in errors
               PROVE  /\ e.meaning \intersect guard \subseteq e.reach
                      /\ e.reach \intersect path_condition \subseteq e.meaning \intersect guard
    BY DEF ErrorsExact
  <2>1. guard = scope_stack[1].guard /\ path_condition \subseteq guard
    BY GuardAtEnd
  <2> QED
    BY <2>1 DEF Guarded, ErrorsKept
<1> QED
  BY <1>1, GuardedInvariant, PTL

-----------------------------------------------------------------------------
(* The search, step by step.                                               *)

Explores == Searching /\ BothSides /\ Counted

LEMMA PathTypes ==
  ASSUME Core
  PROVE  /\ path \in Seq(BOOLEAN) /\ explored \subseteq Seq(BOOLEAN)
         /\ path \in DOMAIN script /\ pos \in 0 .. Len(script[path])
         /\ DfsTypeOK
         /\ Len(flips) \in Nat /\ flip_index \in Nat /\ flip_index <= Len(flips)
         /\ number_of_paths \in Nat
<1>1. TypeOK /\ ScriptOK
  BY DEF Core
<1>2. DfsTypeOK /\ path \in DOMAIN script /\ pos \in 0 .. Len(script[path]) /\ explored \subseteq DOMAIN script
  BY <1>1 DEF TypeOK
<1> QED
  BY <1>1, <1>2, DfsFlips, CounterType DEF ScriptOK

(* The script becomes longer, and nothing else of the search changes. *)
LEMMA ExploresStays ==
  ASSUME Explores, UNCHANGED <<flips, flip_index, path, explored, number_of_paths, phase>>,
         \A p \in DOMAIN script : Branches(p) => Branches(p)'
  PROVE  Explores'
<1>1. UNCHANGED Directions(flips)
  BY DEF Directions
<1>2. \A p : Branches(p) => Branches(p)'
  BY DEF Branches
<1>3. FlipsOnScript => FlipsOnScript'
  <2> SUFFICES ASSUME FlipsOnScript, NEW i \in 1 .. Len(flips)
               PROVE  Branches(SubSeq(Directions(flips), 1, i - 1))'
    BY <1>1 DEF FlipsOnScript
  <2>1. PICK p : p = SubSeq(Directions(flips), 1, i - 1)
    OBVIOUS
  <2>2. Branches(p)
    BY <2>1 DEF FlipsOnScript
  <2> QED
    BY <1>1, <1>2, <2>1, <2>2 DEF Branches
<1>4. Economical => Economical'
  BY DEF Economical, Behind, LeavesAt
<1>5. FrozenExplored => FrozenExplored'
  BY DEF FrozenExplored, LeavesAt
<1>6. Searching'
  BY <1>3, <1>4, <1>5 DEF Explores, Searching, Followed
<1>7. BothSides'
  BY DEF Explores, BothSides, Turns, WillTurn
<1>8. Counted'
  BY DEF Explores, Counted
<1> QED
  BY <1>6, <1>7, <1>8 DEF Explores

(* A branch whose direction the flips already hold *)
LEMMA ExploresReplay ==
  ASSUME Core, Explores, phase = "run", HasNext, TakeNext, NextDirection \in BOOLEAN,
         path' = Append(path, NextDirection),
         UNCHANGED <<explored, number_of_paths, phase>>,
         \A p \in DOMAIN script : Branches(p) => Branches(p)'
  PROVE  Explores'
<1>1. /\ Followed /\ FlipsOnScript /\ Economical /\ FrozenExplored /\ BothSides /\ Counted
  BY DEF Explores, Searching
<1>2. /\ path \in Seq(BOOLEAN) /\ flip_index \in Nat /\ flip_index + 1 <= Len(flips)
      /\ Len(flips) \in Nat
      /\ flips' = flips /\ flip_index' = flip_index + 1
      /\ NextDirection = flips[flip_index + 1].direction
  BY PathTypes DEF HasNext, TakeNext, NextDirection
<1>3. Followed'
  <2>1. /\ Len(path') = flip_index + 1 /\ path'[flip_index + 1] = NextDirection
        /\ \A j \in 1 .. flip_index : path'[j] = path[j]
    BY <1>1, <1>2 DEF Followed
  <2>2. \A j \in 1 .. flip_index + 1 : j \in 1 .. flip_index \/ j = flip_index + 1
    BY <1>2
  <2> QED
    BY <1>1, <1>2, <2>1, <2>2 DEF Followed
<1>4. UNCHANGED Directions(flips)
  BY <1>2 DEF Directions
<1>5. \A p : Branches(p) => Branches(p)'
  BY DEF Branches
<1>6. FlipsOnScript'
  <2> SUFFICES ASSUME NEW i \in 1 .. Len(flips)
               PROVE  Branches(SubSeq(Directions(flips), 1, i - 1))'
    BY <1>2, <1>4 DEF FlipsOnScript
  <2>1. PICK p : p = SubSeq(Directions(flips), 1, i - 1)
    OBVIOUS
  <2>2. Branches(p)
    BY <1>1, <2>1 DEF FlipsOnScript
  <2> QED
    BY <1>4, <1>5, <2>1, <2>2 DEF Branches
<1>7. Economical' /\ FrozenExplored'
  BY <1>1, <1>2 DEF Economical, FrozenExplored, Behind, LeavesAt
<1>8. Searching'
  BY <1>3, <1>6, <1>7 DEF Searching
<1>9. BothSides'
  BY <1>1, <1>2 DEF BothSides, Turns, WillTurn
<1>10. Counted'
  BY <1>1 DEF Counted
<1> QED
  BY <1>8, <1>9, <1>10 DEF Explores

(* A branch that goes beyond the flips *)
LEMMA ExploresNewBranch ==
  ASSUME Core, Core', Explores, phase = "run", flip_index = Len(flips),
         NEW d \in BOOLEAN, NEW f \in BOOLEAN, f = FALSE, AppendFlip(d, f),
         path' = Append(path, d), \A p : p = path => Branches(p)',
         UNCHANGED <<explored, number_of_paths, phase>>,
         \A p \in DOMAIN script : Branches(p) => Branches(p)'
  PROVE  Explores'
<1>1. /\ Followed /\ FlipsOnScript /\ Economical /\ FrozenExplored /\ BothSides /\ Counted
  BY DEF Explores, Searching
<1>2. PICK n \in Nat : n = Len(flips)
  BY PathTypes
<1>3. /\ path \in Seq(BOOLEAN) /\ explored \subseteq Seq(BOOLEAN) /\ DfsTypeOK /\ DfsTypeOK'
      /\ Len(flips') = n + 1 /\ flip_index' = n + 1 /\ flip_index = n
      /\ flips'[n + 1].direction = d /\ flips'[n + 1].is_frozen = f
      /\ \A i \in 1 .. n : flips'[i] = flips[i]
  BY <1>2, PathTypes, DfsAppend DEF Core, TypeOK
<1>4. Followed'
  <2>1. /\ Len(path) = n /\ Len(path') = n + 1 /\ path'[n + 1] = d
        /\ \A j \in 1 .. n : path'[j] = path[j] /\ path[j] = flips[j].direction
    BY <1>1, <1>3 DEF Followed
  <2>2. \A j \in 1 .. n + 1 : j \in 1 .. n \/ j = n + 1
    OBVIOUS
  <2> QED
    BY <1>3, <2>1, <2>2 DEF Followed
<1>5. \A p : Branches(p) => Branches(p)'
  BY DEF Branches
<1>6. ASSUME NEW i \in 1 .. n + 1
      PROVE  Branches(SubSeq(Directions(flips), 1, i - 1))'
  <2>1. PICK p : p = SubSeq(Directions(flips), 1, i - 1)
    OBVIOUS
  <2>2. SubSeq(Directions(flips'), 1, i - 1) = p
    <3>1. i - 1 \in Nat /\ i - 1 <= Len(flips) /\ i - 1 <= Len(flips')
          /\ \A j \in 1 .. i - 1 : flips'[j] = flips[j]
      BY <1>2, <1>3
    <3> QED
      BY <1>3, <2>1, <3>1, SameDirections
  <2>3. Branches(p)'
    <3>1. CASE i \in 1 .. n
      BY <1>1, <1>2, <1>5, <2>1, <3>1 DEF FlipsOnScript
    <3>2. CASE i = n + 1
      <4>1. /\ n \in Nat /\ n <= Len(flips) /\ n <= Len(path)
            /\ \A j \in 1 .. n : path[j] = flips[j].direction
        BY <1>1, <1>2, <1>3 DEF Followed
      <4>2. SubSeq(path, 1, n) = SubSeq(Directions(flips), 1, n)
        BY <1>3, <4>1, FollowedDirections
      <4>3. SubSeq(path, 1, n) = path
        BY <1>1, <1>2, <1>3 DEF Followed
      <4>4. i - 1 = n
        BY <3>2
      <4>5. p = path
        BY <2>1, <4>2, <4>3, <4>4
      <4> QED
        BY <4>5
    <3> QED
      BY <3>1, <3>2
  <2> QED
    BY <2>2, <2>3 DEF Branches
<1>7. FlipsOnScript'
  BY <1>3, <1>6 DEF FlipsOnScript
<1>8. Economical'
  <2>1. Len(flips) <= Len(flips') /\ \A j \in 1 .. Len(flips) : flips'[j] = flips[j]
    BY <1>2, <1>3
  <2>2. \A p : Behind(p) => Behind(p)'
    BY <1>3, <2>1, SidesGrow
  <2> QED
    BY <1>1, <2>2 DEF Economical
<1>9. FrozenExplored'
  <2> SUFFICES ASSUME NEW k \in 1 .. n + 1, flips'[k].is_frozen
               PROVE  \E q \in explored : LeavesAt(q, k)'
    BY <1>3 DEF FrozenExplored
  <2>1. k \in 1 .. n
    BY <1>3
  <2>2. PICK q \in explored : LeavesAt(q, k)
    BY <1>1, <1>2, <1>3, <2>1 DEF FrozenExplored
  <2>3. \A j \in 1 .. k : flips'[j] = flips[j]
    BY <1>3, <2>1
  <2> QED
    BY <2>1, <2>2, <2>3, LeavesAtStable
<1>10. Searching'
  BY <1>4, <1>7, <1>8, <1>9 DEF Searching
<1>11. BothSides'
  <2> SUFFICES ASSUME NEW p \in explored, NEW k \in 1 .. Len(p), WillTurn(p, k)
               PROVE  WillTurn(p, k)'
    BY <1>1 DEF BothSides, Turns
  <2>1. k <= n /\ k \in Nat /\ k >= 1
    <3>1. Len(p) \in Nat
      BY <1>3
    <3> QED
      BY <1>2, <3>1 DEF WillTurn
  <2>2. k <= n + 1 /\ \A j \in 1 .. k : flips'[j] = flips[j]
    BY <1>3, <2>1
  <2>3. k \in 1 .. k /\ \A j \in 1 .. k - 1 : j \in 1 .. k
    BY <2>1
  <2> QED
    BY <1>2, <1>3, <2>2, <2>3 DEF WillTurn
<1>12. Counted'
  BY <1>1 DEF Counted
<1> QED
  BY <1>10, <1>11, <1>12 DEF Explores

(* The program ends only when the flips have all been followed: up to the  *)
(* end of the flips it comes to a branch.                                  *)
LEMMA ExploresExit ==
  ASSUME Core, Explores, Exit
  PROVE  Explores'
<1>1. /\ phase = "run" /\ IsNextCall(Call("exit")) /\ phase' = "checked"
      /\ UNCHANGED <<flips, flip_index, path, number_of_paths>>
      /\ explored' = explored \union {path}
  BY DEF Exit, Calls, IsNextCall, dfs_vars, checker_vars
<1>2. /\ Followed /\ FlipsOnScript /\ Economical /\ FrozenExplored /\ BothSides /\ Counted
  BY <1>1 DEF Explores, Searching
<1>3. PICK n \in Nat : n = Len(flips)
  BY PathTypes
<1>4. /\ path \in Seq(BOOLEAN) /\ explored \subseteq Seq(BOOLEAN) /\ DfsTypeOK
      /\ flip_index \in Nat /\ flip_index <= n
      /\ path \in DOMAIN script /\ pos \in 0 .. Len(script[path])
      /\ Len(path) = flip_index /\ \A j \in 1 .. flip_index : path[j] = flips[j].direction
      /\ \A j \in 1 .. n : flips[j].direction \in BOOLEAN /\ flips[j].is_frozen \in BOOLEAN
  BY <1>2, <1>3, PathTypes, DfsFlips DEF Followed
<1>5. flip_index = n
  <2> SUFFICES ASSUME flip_index < n
               PROVE  FALSE
    BY <1>4
  <2>1. flip_index + 1 \in 1 .. n /\ (flip_index + 1) - 1 = flip_index
    BY <1>4
  <2>2. Branches(SubSeq(Directions(flips), 1, flip_index))
    BY <1>2, <1>3, <2>1 DEF FlipsOnScript
  <2>3. SubSeq(path, 1, flip_index) = SubSeq(Directions(flips), 1, flip_index)
    BY <1>3, <1>4, FollowedDirections
  <2>4. SubSeq(path, 1, flip_index) = path
    BY <1>4
  <2>5. Branches(path)
    BY <2>2, <2>3, <2>4
  <2>6. PICK m \in Nat : m = Len(script[path]) /\ m > 0 /\ script[path][m].op = "branch"
    <3>1. script[path] \in Seq(CallType)
      BY <1>4 DEF Core, ScriptOK
    <3> QED
      BY <2>5, <3>1 DEF Branches
  <2>7. \A i \in 1 .. m - 1 : ~Ends(script[path][i])
    BY <1>4, <2>6 DEF Core, ScriptOK
  <2>8. \A i \in 1 .. pos : ~Ends(script[path][i])
    BY <1>1 DEF Core, ScriptOK
  <2>9. Ends(script[path][m])
    BY <2>6 DEF Ends
  <2>10. CASE pos < m
    <3>1. script[path][pos + 1] = Call("exit")
      BY <1>1, <2>6, <2>10 DEF IsNextCall
    <3>2. script[path][pos + 1].op = "exit"
      BY <3>1 DEF Call
    <3>3. Ends(script[path][pos + 1])
      BY <3>2 DEF Ends
    <3>4. pos + 1 \in 1 .. m
      BY <1>4, <2>6, <2>10
    <3>5. pos + 1 = m
      BY <2>7, <3>3, <3>4
    <3> QED
      BY <2>6, <3>2, <3>5
  <2>11. CASE pos = m
    <3>1. m \in 1 .. pos
      BY <2>6, <2>11
    <3> QED
      BY <2>8, <2>9, <3>1
  <2> QED
    BY <1>4, <2>6, <2>10, <2>11
<1>6. path \notin explored
  <2>1. ~Behind(path)
    BY <1>3, <1>4, <1>5 DEF Behind, LeavesAt
  <2> QED
    BY <1>1, <1>2, <2>1 DEF Economical
<1>7. Counted'
  <2>1. IsFiniteSet(explored') /\ Cardinality(explored') = Cardinality(explored) + 1
    BY <1>1, <1>2, <1>6, FS_AddElement DEF Counted
  <2>2. Cardinality(explored) \in Nat /\ number_of_paths = Cardinality(explored) - 0
    BY <1>1, <1>2, FS_CardinalityType DEF Counted
  <2> QED
    BY <1>1, <2>1, <2>2 DEF Counted
<1>8. Directions(flips)' = Directions(flips)
  BY <1>1 DEF Directions
<1>9. FlipsOnScript'
  <2>1. \A p \in DOMAIN script : Branches(p) => Branches(p)'
    <3>1. Call("exit") \in CallType
      <4>1. "exit" \in Ops /\ Inputs \in Condition /\ 0 \in Nat /\ TRUE \in BOOLEAN
        BY StatementKinds DEF Ops
      <4> QED
        BY <4>1, CallTypes
    <3> QED
      BY <1>1, <3>1, CallEffect DEF Core, Exit
  <2>2. \A p : Branches(p) => Branches(p)'
    BY <2>1 DEF Branches
  <2> SUFFICES ASSUME NEW i \in 1 .. Len(flips)
               PROVE  Branches(SubSeq(Directions(flips), 1, i - 1))'
    BY <1>1, <1>8 DEF FlipsOnScript
  <2>3. PICK p : p = SubSeq(Directions(flips), 1, i - 1)
    OBVIOUS
  <2>4. Branches(p)
    BY <1>2, <2>3 DEF FlipsOnScript
  <2> QED
    BY <1>8, <2>2, <2>3, <2>4 DEF Branches
<1>10. Economical' /\ FrozenExplored'
  BY <1>1, <1>2 DEF Economical, FrozenExplored, Behind, LeavesAt
<1>11. Searching'
  BY <1>1, <1>2, <1>3, <1>5, <1>9, <1>10 DEF Searching, Followed
<1>12. ASSUME NEW k \in 1 .. Len(path)
       PROVE  (\E q \in explored : Turns(q, path, k)) \/ WillTurn(path, k)'
  <2>1. k \in 1 .. n /\ n = Len(path)
    BY <1>4, <1>5, <1>12
  <2>2. path[k] = flips[k].direction /\ \A j \in 1 .. k - 1 : path[j] = flips[j].direction
    BY <1>4, <1>5, <2>1
  <2>3. CASE ~flips[k].is_frozen
    BY <1>1, <1>3, <2>1, <2>2, <2>3 DEF WillTurn
  <2>4. CASE flips[k].is_frozen
    <3>1. PICK q \in explored : LeavesAt(q, k)
      BY <1>2, <1>3, <2>1, <2>4 DEF FrozenExplored
    <3>2. /\ k <= Len(q) /\ q \in Seq(BOOLEAN)
          /\ \A j \in 1 .. k - 1 : q[j] = flips[j].direction
          /\ q[k] # flips[k].direction
      BY <1>4, <3>1 DEF LeavesAt
    <3>3. q[k] \in BOOLEAN /\ flips[k].direction \in BOOLEAN
      <4>1. k \in 1 .. Len(q)
        BY <2>1, <3>2
      <4> QED
        BY <1>4, <2>1, <3>2, <4>1
    <3>4. q[k] = ~path[k]
      BY <2>2, <3>2, <3>3
    <3> QED
      BY <2>2, <3>2, <3>4 DEF Turns
  <2> QED
    BY <2>3, <2>4
<1>13. BothSides'
  <2> SUFFICES ASSUME NEW p \in explored', NEW k \in 1 .. Len(p)
               PROVE  (\E q \in explored' : Turns(q, p, k)) \/ WillTurn(p, k)'
    BY DEF BothSides, Turns
  <2>1. CASE p = path
    BY <1>1, <1>12, <2>1
  <2>2. CASE p \in explored
    <3>1. (\E q \in explored : Turns(q, p, k)) \/ WillTurn(p, k)
      BY <1>2, <2>2 DEF BothSides
    <3>2. WillTurn(p, k) => WillTurn(p, k)'
      BY <1>1 DEF WillTurn
    <3> QED
      BY <1>1, <3>1, <3>2
  <2> QED
    BY <1>1, <2>1, <2>2
<1> QED
  BY <1>7, <1>11, <1>13 DEF Explores

(* The path that was run last, turns off from the others where their flips *)
(* are frozen.                                                             *)
LEMMA LastPathTurns ==
  ASSUME Core, Explores, phase = "checked", NEW p \in Seq(BOOLEAN), NEW k \in 1 .. Len(p),
         WillTurn(p, k), p[k] # flips[k].direction
  PROVE  \E q \in explored : Turns(q, p, k)
<1>1. /\ Followed /\ flip_index = Len(flips) /\ path \in explored
  BY DEF Explores, Searching
<1>2. /\ path \in Seq(BOOLEAN) /\ Len(flips) \in Nat /\ Len(path) = Len(flips)
      /\ \A j \in 1 .. Len(flips) : path[j] = flips[j].direction /\ flips[j].direction \in BOOLEAN
  BY <1>1, PathTypes, DfsFlips DEF Followed
<1>3. k \in 1 .. Len(flips) /\ \A j \in 1 .. k - 1 : p[j] = flips[j].direction
  BY <1>2 DEF WillTurn
<1>4. \A j \in 1 .. k - 1 : path[j] = p[j]
  BY <1>2, <1>3
<1>5. path[k] = ~p[k]
  <2>1. p[k] \in BOOLEAN /\ path[k] \in BOOLEAN /\ path[k] = flips[k].direction
    BY <1>2, <1>3
  <2> QED
    BY <2>1
<1> QED
  BY <1>1, <1>2, <1>3, <1>4, <1>5 DEF Turns

LEMMA ExploresNextPath ==
  ASSUME Core, Core', Explores, FindNextPath
  PROVE  Explores'
<1>1. /\ phase = "checked" /\ phase' = "run" /\ number_of_paths' = number_of_paths + 1
      /\ DfsFindsPath(flips) /\ path' = << >>
      /\ UNCHANGED <<script, explored>>
  BY DEF FindNextPath, ProgramStarts
<1>2. /\ Followed /\ FlipsOnScript /\ Economical /\ FrozenExplored /\ BothSides /\ Counted
      /\ flip_index = Len(flips) /\ path \in explored
  BY <1>1 DEF Explores, Searching
<1>3. PICK n \in Nat : n = Len(flips)
  BY PathTypes
<1>4. /\ DfsTypeOK /\ DfsTypeOK' /\ path \in Seq(BOOLEAN) /\ explored \subseteq Seq(BOOLEAN)
      /\ Len(path) = n
      /\ \A j \in 1 .. n : path[j] = flips[j].direction /\ flips[j].direction \in BOOLEAN
  BY <1>2, <1>3, PathTypes, DfsFlips DEF Followed, Core, TypeOK
<1>5. PICK k \in 1 .. n : CutAt(k, n)
  <2>1. n \in 0 .. Len(flips) /\ SubSeq(flips, 1, n) = flips
    BY <1>3, <1>4, WholeStack
  <2>2. DfsFindsPath(SubSeq(flips, 1, n))
    BY <1>1, <2>1
  <2> QED
    BY <1>4, <2>1, <2>2, DfsCut
<1>6. flip_index' = 0
  BY <1>1 DEF DfsFindsPath
<1>7. /\ ~flips[k].is_frozen /\ \A j \in k + 1 .. n : flips[j].is_frozen
      /\ Len(flips') = k
      /\ flips'[k].direction = ~flips[k].direction /\ flips'[k].is_frozen
      /\ \A j \in 1 .. k - 1 : flips'[j] = flips[j]
  BY <1>5 DEF CutAt
<1>8. n \in 0 .. Len(flips) /\ k \in 1 .. n
  BY <1>3
<1>9. Followed'
  BY <1>1, <1>6 DEF Followed
<1>10. FlipsOnScript'
  <2> SUFFICES ASSUME NEW i \in 1 .. k
               PROVE  Branches(SubSeq(Directions(flips), 1, i - 1))'
    BY <1>7 DEF FlipsOnScript
  <2>1. PICK p : p = SubSeq(Directions(flips), 1, i - 1)
    OBVIOUS
  <2>2. SubSeq(Directions(flips'), 1, i - 1) = p
    <3>1. i - 1 \in Nat /\ i - 1 <= Len(flips) /\ i - 1 <= Len(flips')
          /\ \A j \in 1 .. i - 1 : flips'[j] = flips[j]
      BY <1>3, <1>7
    <3> QED
      BY <1>4, <2>1, <3>1, SameDirections
  <2>3. Branches(p)
    <3>1. i \in 1 .. Len(flips)
      BY <1>3
    <3> QED
      BY <1>2, <2>1, <3>1 DEF FlipsOnScript
  <2> QED
    BY <1>1, <2>2, <2>3 DEF Branches
<1>11. Economical'
  <2> SUFFICES ASSUME NEW p \in explored
               PROVE  Behind(p)'
    BY <1>1 DEF Economical
  <2>1. CASE Behind(p)
    BY <1>4, <1>5, <1>8, <2>1, CutKeepsBehind
  <2>2. CASE p = path
    <3>1. k <= Len(p) /\ \A j \in 1 .. k : p[j] = flips[j].direction
      BY <1>4, <2>2
    <3> QED
      BY <1>4, <1>5, <1>8, <3>1, CutLeavesBehind
  <2> QED
    BY <1>2, <2>1, <2>2 DEF Economical
<1>12. FrozenExplored'
  <2> SUFFICES ASSUME NEW j \in 1 .. k, flips'[j].is_frozen
               PROVE  \E q \in explored : LeavesAt(q, j)'
    BY <1>1, <1>7 DEF FrozenExplored
  <2>1. CASE j = k
    <3>1. k <= Len(path) /\ path[k] = flips[k].direction /\ flips[k].direction \in BOOLEAN
          /\ \A i \in 1 .. k - 1 : path[i] = flips'[i].direction
      BY <1>4, <1>7
    <3>2. path[k] # flips'[k].direction
      BY <1>7, <3>1
    <3>3. \E q \in explored : /\ k <= Len(q)
                              /\ \A i \in 1 .. k - 1 : q[i] = flips'[i].direction
                              /\ q[k] # flips'[k].direction
      BY <1>2, <3>1, <3>2
    <3> QED
      BY <2>1, <3>3 DEF LeavesAt
  <2>2. CASE j # k
    <3>1. j \in 1 .. k - 1 /\ j \in 1 .. n
      BY <2>2
    <3>2. PICK q \in explored : LeavesAt(q, j)
      BY <1>2, <1>3, <1>7, <3>1 DEF FrozenExplored
    <3>3. \A i \in 1 .. j : flips'[i] = flips[i]
      BY <1>7, <3>1
    <3> QED
      BY <3>1, <3>2, <3>3, LeavesAtStable
  <2> QED
    BY <2>1, <2>2
<1>13. Searching'
  BY <1>1, <1>9, <1>10, <1>11, <1>12 DEF Searching
<1>14. BothSides'
  <2> SUFFICES ASSUME NEW p \in explored, NEW j \in 1 .. Len(p), WillTurn(p, j)
               PROVE  (\E q \in explored : Turns(q, p, j)) \/ WillTurn(p, j)'
    BY <1>1, <1>2 DEF BothSides, Turns
  <2>1. /\ p \in Seq(BOOLEAN) /\ j <= n /\ j >= 1 /\ j \in Nat
        /\ \A i \in 1 .. j - 1 : p[i] = flips[i].direction
        /\ p[j] = flips[j].direction => ~flips[j].is_frozen
        /\ p[j] \in BOOLEAN /\ flips[j].direction \in BOOLEAN
    <3>1. p \in Seq(BOOLEAN) /\ Len(p) \in Nat
      BY <1>4
    <3>2. j \in Nat /\ j >= 1 /\ j <= n /\ p[j] \in BOOLEAN
      BY <1>3, <3>1 DEF WillTurn
    <3> QED
      BY <1>4, <3>1, <3>2 DEF WillTurn
  <2>2. CASE p[j] # flips[j].direction
    BY <1>1, <2>1, <2>2, LastPathTurns
  <2>3. CASE p[j] = flips[j].direction
    <3>1. j <= k
      BY <1>7, <2>1, <2>3
    <3>2. \A i \in 1 .. j - 1 : p[i] = flips'[i].direction
      BY <1>7, <2>1, <3>1
    <3>3. CASE j = k
      <4>1. p[j] # flips'[j].direction
        BY <1>7, <2>1, <2>3, <3>3
      <4> QED
        BY <1>1, <1>7, <3>1, <3>2, <4>1 DEF WillTurn
    <3>4. CASE j # k
      <4>1. j \in 1 .. k - 1
        BY <2>1, <3>1, <3>4
      <4>2. flips'[j] = flips[j]
        BY <1>7, <4>1
      <4> QED
        BY <1>1, <1>7, <2>1, <3>1, <3>2, <4>2 DEF WillTurn
    <3> QED
      BY <3>3, <3>4
  <2> QED
    BY <2>2, <2>3
<1>15. Counted'
  <2>1. IsFiniteSet(explored) /\ number_of_paths = Cardinality(explored) - 1
    BY <1>1, <1>2 DEF Counted
  <2>2. Cardinality(explored) \in Nat
    BY <2>1, FS_CardinalityType
  <2> QED
    BY <1>1, <2>1, <2>2 DEF Counted
<1> QED
  BY <1>13, <1>14, <1>15 DEF Explores

LEMMA ExploresNoNextPath ==
  ASSUME Core, Explores, FindNoNextPath
  PROVE  Explores'
<1>1. /\ phase = "checked" /\ phase' = "done" /\ number_of_paths' = number_of_paths + 1
      /\ AllFrozen(flips) /\ UNCHANGED explored
  BY DEF FindNoNextPath, history_vars, DfsFindsNoPath
<1>2. BothSides /\ Counted /\ explored \subseteq Seq(BOOLEAN)
  BY PathTypes DEF Explores
<1>3. BothSides'
  <2> SUFFICES ASSUME NEW p \in explored, NEW k \in 1 .. Len(p), WillTurn(p, k)
               PROVE  \E q \in explored : Turns(q, p, k)
    BY <1>1, <1>2 DEF BothSides, Turns
  <2>1. k \in 1 .. Len(flips)
    <3>1. p \in Seq(BOOLEAN) /\ Len(flips) \in Nat
      BY <1>2, PathTypes
    <3>2. Len(p) \in Nat
      BY <3>1
    <3> QED
      BY <3>1, <3>2 DEF WillTurn
  <2>2. p[k] # flips[k].direction
    BY <1>1, <2>1 DEF WillTurn, AllFrozen
  <2> QED
    BY <1>1, <1>2, <2>2, LastPathTurns
<1>4. Counted'
  <2>1. IsFiniteSet(explored) /\ number_of_paths = Cardinality(explored) - 1
    BY <1>1, <1>2 DEF Counted
  <2>2. Cardinality(explored) \in Nat
    BY <2>1, FS_CardinalityType
  <2> QED
    BY <1>1, <2>1, <2>2 DEF Counted
<1> QED
  BY <1>1, <1>3, <1>4 DEF Explores, Searching

LEMMA ExploresInit == Init => Explores
<1> SUFFICES ASSUME Init
             PROVE  Explores
  OBVIOUS
<1>1. /\ flips = << >> /\ flip_index = 0 /\ path = << >> /\ explored = {} /\ phase = "run"
      /\ number_of_paths = 0
  BY DEF Init, DfsInit
<1>2. Len(flips) = 0
  BY <1>1
<1>3. IsFiniteSet({}) /\ Cardinality({}) = 0
  BY FS_EmptySet
<1>4. Searching
  BY <1>1, <1>2 DEF Searching, Followed, FlipsOnScript, Economical, FrozenExplored
<1> QED
  BY <1>1, <1>3, <1>4 DEF Explores, BothSides, Counted

LEMMA ExploresReset ==
  ASSUME Reset
  PROVE  Explores'
<1>1. /\ flips' = << >> /\ flip_index' = 0 /\ path' = << >> /\ explored' = {} /\ phase' = "run"
      /\ number_of_paths' = 0
  BY DEF Reset, DfsReset, ProgramStarts
<1>2. Len(flips') = 0
  BY <1>1
<1>3. IsFiniteSet({}) /\ Cardinality({}) = 0
  BY FS_EmptySet
<1>4. Searching'
  BY <1>1, <1>2 DEF Searching, Followed, FlipsOnScript, Economical, FrozenExplored
<1> QED
  BY <1>1, <1>3, <1>4 DEF Explores, BothSides, Counted

(* Calls that are neither branches nor the end leave the search alone. *)
LEMMA ExploresCall ==
  ASSUME Core, Explores, NEW c \in CallType, Calls(c),
         UNCHANGED <<flips, flip_index, path, explored, number_of_paths, phase>>
  PROVE  Explores'
<1>1. \A p \in DOMAIN script : Branches(p) => Branches(p)'
  BY CallEffect DEF Core
<1> QED
  BY <1>1, ExploresStays

LEMMA ExploresNext ==
  ASSUME Core, Core', Explores, [Next]_vars
  PROVE  Explores'
<1>1. ASSUME KeepsChecking
      PROVE  UNCHANGED <<flips, flip_index, path, explored, number_of_paths, phase>>
  BY <1>1 DEF KeepsChecking, dfs_vars
<1>2. ASSUME NEW op \in Ops, Calls(Call(op)), KeepsChecking
      PROVE  Explores'
  <2>1. Inputs \in Condition /\ 0 \in Nat /\ TRUE \in BOOLEAN
    BY StatementKinds
  <2>2. Call(op) \in CallType
    BY <2>1, CallTypes
  <2> QED
    BY <1>1, <1>2, <2>2, ExploresCall
<1>3. ASSUME NEW op \in Ops, NEW g \in Condition, Calls([Call(op) EXCEPT !.cond = g]), KeepsChecking
      PROVE  Explores'
  <2>1. 0 \in Nat /\ TRUE \in BOOLEAN
    OBVIOUS
  <2>2. [Call(op) EXCEPT !.cond = g] \in CallType
    BY <2>1, CallTypes
  <2> QED
    BY <1>1, <1>3, <2>2, ExploresCall
<1>4. ASSUME NEW kind \in Statements, Statement(kind)
      PROVE  Explores'
  <2>1. kind \in Ops
    BY StatementKinds DEF Ops
  <2> QED
    BY <1>2, <1>4, <2>1 DEF Statement
<1>5. CASE ThreadBegin
  BY <1>2, <1>5 DEF ThreadBegin, BeginThread, Ops
<1>6. CASE ThreadEnd
  BY <1>2, <1>6 DEF ThreadEnd, Ops
<1>7. CASE Join
  <2>1. PICK t \in joinable : Calls([Call("join") EXCEPT !.thread = t])
    BY <1>7 DEF Join
  <2>2. t \in Nat /\ "join" \in Ops /\ Inputs \in Condition /\ TRUE \in BOOLEAN
    BY CounterType, StatementKinds DEF Ops, Core
  <2>3. [Call("join") EXCEPT !.thread = t] \in CallType
    BY <2>2, CallTypes
  <2> QED
    BY <1>1, <1>7, <2>1, <2>3, ExploresCall DEF Join
<1>8. CASE CallBarrier
  BY <1>2, <1>8 DEF CallBarrier, Ops
<1>9. CASE CallScopeThen
  <2>1. PICK g \in Conditions["then"] : Calls([Call("then") EXCEPT !.cond = g])
    BY <1>9 DEF CallScopeThen
  <2>2. "then" \in Ops /\ g \in Condition
    BY StatementKinds DEF Ops
  <2> QED
    BY <1>3, <1>9, <2>1, <2>2 DEF CallScopeThen, ScopeOnly
<1>10. CASE CallScopeElse
  BY <1>2, <1>10 DEF CallScopeElse, ScopeOnly, Ops
<1>11. CASE CallScopeEnd
  BY <1>2, <1>11 DEF CallScopeEnd, ScopeOnly, Ops
<1>12. CASE AddError
  <2>1. PICK g \in Conditions["error"] : Calls([Call("error") EXCEPT !.cond = g])
    BY <1>12 DEF AddError
  <2>2. "error" \in Ops /\ g \in Condition
    BY StatementKinds DEF Ops
  <2> QED
    BY <1>3, <1>12, <2>1, <2>2 DEF AddError
<1>13. CASE Branch
  <2>1. TypeOK /\ ScriptOK
    BY DEF Core
  <2>2. PICK c \in CallType, d \in BOOLEAN :
          /\ c.op = "branch" /\ Follow(c, d)
          /\ \/ HasNext /\ TakeNext /\ d = NextDirection
             \/ /\ ~HasNext /\ flip_index = Len(flips)
                /\ \E f \in BOOLEAN : f = FALSE /\ AppendFlip(d, f)
    BY <1>13, <2>1, BranchCases
  <2>3. UNCHANGED <<explored, number_of_paths, phase>>
    BY <1>13 DEF Branch
  <2>4. /\ phase = "run" /\ path' = Append(path, d)
        /\ \A p : p = path => Branches(p)'
        /\ \A p \in DOMAIN script : Branches(p) => Branches(p)'
    BY <2>1, <2>2, <2>3, FollowEffect
  <2>5. CASE HasNext /\ TakeNext /\ d = NextDirection
    BY <2>2, <2>3, <2>4, <2>5, ExploresReplay
  <2>6. CASE flip_index = Len(flips) /\ \E f \in BOOLEAN : f = FALSE /\ AppendFlip(d, f)
    BY <2>2, <2>3, <2>4, <2>6, ExploresNewBranch
  <2> QED
    BY <2>2, <2>5, <2>6
<1>14. CASE Exit \/ FindNextPath \/ FindNoNextPath \/ Reset
  BY <1>14, ExploresExit, ExploresNextPath, ExploresNoNextPath, ExploresReset
<1>15. CASE UNCHANGED vars
  <2>1. UNCHANGED <<flips, flip_index, path, explored, number_of_paths, phase, script>>
    BY <1>15 DEF vars, dfs_vars, checker_vars, program_vars, history_vars
  <2>2. \A p : Branches(p) => Branches(p)'
    BY <2>1 DEF Branches
  <2> QED
    BY <2>1, <2>2, ExploresStays
<1> QED
  BY <1>4, <1>5, <1>6, <1>7, <1>8, <1>9, <1>10, <1>11, <1>12, <1>13, <1>14, <1>15 DEF Next

(* Each path is explored once and counted, and when no path is left, the   *)
(* other direction of every branch that was taken has been explored too.   *)
THEOREM ExploresOnce == Spec => []ExploresEveryPathOnce
<1>1. Init => Explores
  BY ExploresInit
<1>2. Core /\ Core' /\ Explores /\ [Next]_vars => Explores'
  BY ExploresNext
<1>3. Core /\ Explores => ExploresEveryPathOnce
  <2> SUFFICES ASSUME Core, Explores
               PROVE  ExploresEveryPathOnce
    OBVIOUS
  <2>1. number_of_paths = Cardinality(explored) - (IF phase = "checked" THEN 1 ELSE 0)
    BY DEF Explores, Counted
  <2>2. ASSUME phase = "done", NEW p \in explored, NEW k \in DOMAIN p
        PROVE  \E q \in explored : IsPrefix(Append(SubSeq(p, 1, k - 1), ~p[k]), q)
    <3>1. p \in Seq(BOOLEAN) /\ explored \subseteq Seq(BOOLEAN)
      BY PathTypes
    <3>2. k \in 1 .. Len(p) /\ p[k] \in BOOLEAN /\ k - 1 \in 0 .. Len(p) /\ k \in Nat
      BY <3>1
    <3>3. PICK q \in explored : Turns(q, p, k)
      BY <2>2, <3>2 DEF Explores, BothSides, WillTurn
    <3>4. /\ q \in Seq(BOOLEAN) /\ k <= Len(q) /\ q[k] = ~p[k]
          /\ \A j \in 1 .. k - 1 : q[j] = p[j]
      BY <3>1, <3>3 DEF Turns
    <3>5. PICK s \in Seq(BOOLEAN) : s = SubSeq(p, 1, k - 1)
      <4>1. \A j \in 1 .. k - 1 : p[j] \in BOOLEAN
        BY <3>1, <3>2
      <4>2. SubSeq(p, 1, k - 1) \in Seq(BOOLEAN)
        BY <3>2, <4>1
      <4> QED
        BY <4>2
    <3>6. Len(s) = k - 1 /\ \A j \in 1 .. k - 1 : s[j] = p[j]
      BY <3>1, <3>2, <3>5
    <3>7. PICK t \in Seq(BOOLEAN) : t = Append(s, ~p[k])
      <4>1. (~p[k]) \in BOOLEAN
        <5>1. PICK b \in BOOLEAN : b = ~p[k]
          BY <3>2, Zenon
        <5> QED
          BY <5>1, Zenon
      <4>2. Append(s, ~p[k]) \in Seq(BOOLEAN)
        BY <3>5, <4>1
      <4> QED
        BY <4>2
    <3>8. Len(t) = k /\ t[k] = ~p[k] /\ \A j \in 1 .. k - 1 : t[j] = s[j]
      BY <3>2, <3>5, <3>6, <3>7
    <3>9. \A j \in 1 .. k : t[j] = q[j]
      <4>1. \A j \in 1 .. k : j \in 1 .. k - 1 \/ j = k
        BY <3>2
      <4> QED
        BY <3>4, <3>6, <3>8, <4>1
    <3>10. SubSeq(t, 1, k) = SubSeq(q, 1, k)
      BY <3>2, <3>4, <3>7, <3>8, <3>9, SamePrefix
    <3>11. IsPrefix(t, q)
      BY <3>4, <3>8, <3>10 DEF IsPrefix
    <3> QED
      BY <3>5, <3>7, <3>11
  <2> QED
    BY <2>1, <2>2 DEF ExploresEveryPathOnce
<1> QED
  BY <1>1, <1>2, <1>3, CoreInvariant, PTL DEF Spec
=============================================================================
