------------------------------- MODULE Encoding -------------------------------
(***************************************************************************)
(* The formula that class Encoder (include/crv.h) builds from the events   *)
(* of a program, one definition per member function.  Its variables are    *)
(* given by a record m:                                                    *)
(*   m.time   the clock of each event; the bit width is abstracted from,   *)
(*            only the order of clocks matters                             *)
(*   m.flow   for each event that reads from memory, a stack or an array,  *)
(*            the variable rf!, pf! or ldf!: an event identifier           *)
(*   m.val    the terms of the events that read, and the input             *)
(* A match variable is forced to be the equality of two clocks, so it is   *)
(* defined as that.                                                        *)
(***************************************************************************)
EXTENDS EventPrograms, Dominators

(* flow_bool: the variable of y says that y reads from x. *)
FlowBool(x, y, m) == m.flow[y] = x

happens_before(x, y, m) == m.time[x] < m.time[y]
simultaneous(x, y, m) == m.time[x] = m.time[y]

(* Fault: a read does not see a write at the same time. *)
OnlyHappensBefore(x, y, m) == m.time[x] < m.time[y]

simultaneous_or_happens_before(x, y, m) == m.time[x] <= m.time[y]

Guard(id, m) == Enabled(id, m.val)
TermOf(id, m) == Eval(Event(id).term, m.val)
OffsetOf(id, m) == Eval(Event(id).offset, m.val)

AddressesOf(kind) == {Event(id).address : id \in IdsOf({kind})}

-----------------------------------------------------------------------------
(* Shared memory.                                                          *)

(* Fault: the write may be on a branch that is not taken. *)
SupTimeOfAnyGuard(r, sup, m) ==
  \A w \in At("write", Event(r).address) :
     /\ FlowBool(w, r, m) =>
          /\ Guard(r, m)
          /\ simultaneous_or_happens_before(w, r, m)
          /\ TermOf(w, m) = TermOf(r, m)
          /\ sup = m.time[w]
     /\ simultaneous_or_happens_before(w, r, m) /\ Guard(w, m) => m.time[w] <= sup

(* The clock of the last write that r may see is at least that of every    *)
(* write which is not after r, and that of the write r reads from.         *)
SupTime(r, sup, m) ==
  \A w \in At("write", Event(r).address) :
     /\ FlowBool(w, r, m) =>
          /\ Guard(r, m) /\ Guard(w, m)
          /\ simultaneous_or_happens_before(w, r, m)
          /\ TermOf(w, m) = TermOf(r, m)
          /\ sup = m.time[w]
     /\ simultaneous_or_happens_before(w, r, m) /\ Guard(w, m) => m.time[w] <= sup

ClockValues(m) == {m.time[id] : id \in DOMAIN m.time}

encode_read_from(m) ==
  \A r \in IdsOf({"read"}) :
     /\ Guard(r, m) => \E w \in At("write", Event(r).address) : FlowBool(w, r, m)
     /\ \E sup \in ClockValues(m) : SupTime(r, sup, m)

encode_write_serialization(m) ==
  \A a \in AddressesOf("write") : IsInjective([w \in At("write", a) |-> m.time[w]])

encode_memory_concurrency(m) ==
  /\ encode_read_from(m)
  /\ encode_write_serialization(m)

(* The encoding without _SUP_READ_FROM_, which is cubic in the events. *)
encode_read_from_cubic(m) ==
  \A r \in IdsOf({"read"}) :
     LET writes == At("write", Event(r).address)
     IN  /\ Guard(r, m) => \E w \in writes : FlowBool(w, r, m)
         /\ \A w \in writes :
              FlowBool(w, r, m) => /\ Guard(r, m) /\ Guard(w, m)
                                   /\ happens_before(w, r, m)
                                   /\ TermOf(w, m) = TermOf(r, m)

(* Fault: the writes are compared the wrong way round. *)
FromReadReversed(m) ==
  \A r \in IdsOf({"read"}) :
     \A w, w_prime \in At("write", Event(r).address) :
        /\ w # w_prime
        /\ FlowBool(w, r, m) /\ Guard(w_prime, m) /\ happens_before(w_prime, w, m)
        => happens_before(r, w_prime, m)

encode_from_read(m) ==
  \A r \in IdsOf({"read"}) :
     \A w, w_prime \in At("write", Event(r).address) :
        /\ w # w_prime
        /\ FlowBool(w, r, m) /\ Guard(w_prime, m) /\ happens_before(w, w_prime, m)
        => happens_before(r, w_prime, m)

-----------------------------------------------------------------------------
(* Stacks.                                                                 *)

(* There must be a push even if the guard of the pop does not hold. *)
encode_pop_from(m) ==
  \A pop \in IdsOf({"pop"}) :
     LET pushes == At("push", Event(pop).address)
     IN  /\ \E push \in pushes : FlowBool(push, pop, m)
         /\ \A push \in pushes :
              FlowBool(push, pop, m) =>
                 /\ happens_before(push, pop, m)
                 /\ Guard(pop, m) /\ Guard(push, m)
                 /\ TermOf(push, m) = TermOf(pop, m)

encode_pop_from_injectivity(m) ==
  \A a \in AddressesOf("pop") : IsInjective([pop \in At("pop", a) |-> m.flow[pop]])

(* Fault: a push after the pop counts, too. *)
LifoOfAllPushes(m) ==
  \A a \in AddressesOf("push") :
     \A push, push_prime \in At("push", a), pop \in At("pop", a) :
        FlowBool(push, pop, m) /\ happens_before(push, push_prime, m)
        => /\ \A pop_prime \in At("pop", a) :
                FlowBool(push_prime, pop_prime, m) => happens_before(pop_prime, pop, m)
           /\ Guard(push_prime, m) =>
                \E pop_prime \in At("pop", a) : FlowBool(push_prime, pop_prime, m)

(* A push after the one that is popped, and before the pop, has itself     *)
(* been popped before.                                                     *)
encode_stack_lifo_order(m) ==
  \A a \in AddressesOf("push") :
     \A push, push_prime \in At("push", a), pop \in At("pop", a) :
        /\ FlowBool(push, pop, m)
        /\ happens_before(push, push_prime, m)
        /\ happens_before(push_prime, pop, m)
        => /\ \A pop_prime \in At("pop", a) :
                FlowBool(push_prime, pop_prime, m) => happens_before(pop_prime, pop, m)
           /\ Guard(push_prime, m) =>
                \E pop_prime \in At("pop", a) : FlowBool(push_prime, pop_prime, m)

encode_stack_api(m) ==
  /\ encode_pop_from(m)
  /\ encode_pop_from_injectivity(m)
  /\ encode_stack_lifo_order(m)

-----------------------------------------------------------------------------
(* Arrays.                                                                 *)

SameOffset(x, y, m) == OffsetOf(x, m) = OffsetOf(y, m)

(* A load that takes no store's value is of zero, and all stores at its    *)
(* offset come later, whether or not their guards hold.                    *)
encode_load_from(m) ==
  \A ld \in IdsOf({"load"}) :
     LET stores == At("store", Event(ld).address)
     IN  /\ \A s \in stores :
              FlowBool(s, ld, m) =>
                 /\ Guard(s, m) /\ Guard(ld, m)
                 /\ happens_before(s, ld, m)
                 /\ TermOf(s, m) = TermOf(ld, m)
                 /\ SameOffset(s, ld, m)
         /\ ~(\E s \in stores : FlowBool(s, ld, m)) =>
              /\ Guard(ld, m)
              /\ \A s \in stores : SameOffset(s, ld, m) => happens_before(ld, s, m)
              /\ TermOf(ld, m) = 0

encode_from_load(m) ==
  \A ld \in IdsOf({"load"}) :
     \A s, s_prime \in At("store", Event(ld).address) :
        /\ s # s_prime
        /\ FlowBool(s, ld, m)
        /\ happens_before(s, s_prime, m)
        /\ SameOffset(s, s_prime, m)
        /\ Guard(s_prime, m)
        => happens_before(ld, s_prime, m)

encode_store_serialization(m) ==
  \A a \in AddressesOf("store") : IsInjective([s \in At("store", a) |-> m.time[s]])

encode_array_api(m) ==
  /\ encode_load_from(m)
  /\ encode_from_load(m)
  /\ encode_store_serialization(m)

-----------------------------------------------------------------------------
(* Channels and messages.                                                  *)

MatchableMessages(r, s) ==
  /\ r.kind = "message_recv" /\ s.kind = "message_send"
  /\ \/ r.address = s_wildcard_address /\ r.thread_id # s.thread_id
     \/ r.address = s.thread_id /\ s.address = r.thread_id

MatchableOnChannel(r, s) ==
  /\ r.kind = "channel_recv" /\ s.kind = "channel_send"
  /\ r.address = s.address
  /\ r.thread_id # s.thread_id

(* build_matchables: pairs <<receive, send>>.  A wildcard is matchable     *)
(* with the sends of all other threads.                                    *)
Matchables ==
  {p \in IdsOf(Receive) \X IdsOf(Send) :
     \/ MatchableOnChannel(Event(p[1]), Event(p[2]))
     \/ MatchableMessages(Event(p[1]), Event(p[2]))}

Match(p, m) == simultaneous(p[1], p[2], m)

communication_match_disjunction(id, m) ==
  \E p \in Matchables : id \in {p[1], p[2]} /\ Match(p, m)

communication_match_conjunction(ids, m) ==
  \A id \in ids : communication_match_disjunction(id, m)

communication_excl(p, m) ==
  ~ \E q \in Matchables : q # p /\ (q[1] = p[1] \/ q[2] = p[2]) /\ Match(q, m)

(* The immediate dominator of the k-th event of thread t, if there is one  *)
CidomOf(t, k) ==
  LET es == program.threads[t]
  IN  {es[pair[2]].event_id :
         pair \in {q \in ImmediateDominatorMap(es, Communication) : q[1] = k}}

Cidom(id) ==
  LET t == Event(id).thread_id IN CidomOf(t, Position(t, id))

CidomOfEnd(t) == CidomOf(t, Len(program.threads[t]))

(* Fault: events that could meet need not. *)
MatchesMayWait(m) ==
  \A p \in Matchables :
     Match(p, m) => /\ communication_match_conjunction(Cidom(p[1]) \union Cidom(p[2]), m)
                    /\ communication_excl(p, m)
                    /\ Guard(p[1], m) /\ Guard(p[2], m)
                    /\ TermOf(p[1], m) = TermOf(p[2], m)

(* Two events meet if and only if the communication before them has and    *)
(* neither of them meets another one.                                      *)
ExtMatch(m) ==
  \A p \in Matchables :
     /\ Match(p, m) <=> /\ communication_match_conjunction(Cidom(p[1]) \union Cidom(p[2]), m)
                        /\ communication_excl(p, m)
                        /\ Guard(p[1], m) /\ Guard(p[2], m)
     /\ Match(p, m) => TermOf(p[1], m) = TermOf(p[2], m)

(* The code looks up the receive twice, and not the send. *)
InitMatch(m) ==
  LET inits == {p \in Matchables : Cidom(p[1]) = {}}
  IN  inits # {} => \E p \in inits : Match(p, m)

(* Fault: one thread that ends is enough. *)
SomeFinalizer(m) ==
  \E t \in Threads \ {1} : communication_match_conjunction(CidomOfEnd(t), m)

(* Every thread but the main one gets through its last communication. *)
Finalizers(m) ==
  \A t \in Threads \ {1} : communication_match_conjunction(CidomOfEnd(t), m)

(* Events with an entry in the per-event map: all messages, and those      *)
(* events of a channel that match one, or whose channel only sends or only *)
(* receives.                                                               *)
MatchesOnChannel(p, id) ==
  \E x \in DOMAIN p.event :
     \/ MatchableOnChannel(p.event[id], p.event[x])
     \/ MatchableOnChannel(p.event[x], p.event[id])

MatchesMessage(p, id) ==
  \E x \in DOMAIN p.event :
     \/ MatchableMessages(p.event[id], p.event[x])
     \/ MatchableMessages(p.event[x], p.event[id])

OneSided(p, id) ==
  \A x \in DOMAIN p.event :
     p.event[x].address = p.event[id].address =>
       {p.event[x].kind, p.event[id].kind} # {"channel_send", "channel_recv"}

HasEntry(p, id) ==
  p.event[id].kind \in {"channel_send", "channel_recv"} =>
    MatchesOnChannel(p, id) \/ OneSided(p, id)

(* Every use of at() finds what it looks up: the thread a message is for   *)
(* or from, the entries of the communication before an event that may      *)
(* match, and that before the end of each thread but the main one.         *)
LookupsSucceed(p, check_deadlocks) ==
  /\ \A id \in DOMAIN p.event :
        p.event[id].kind \in {"message_send", "message_recv"}
        => p.event[id].address \in DOMAIN p.threads \union {s_wildcard_address}
  /\ \A t \in DOMAIN p.threads :
        LET es == p.threads[t]
            map == ImmediateDominatorMap(es, Communication)
            LooksUp(k) ==
              \/ MatchesOnChannel(p, es[k].event_id)
              \/ MatchesMessage(p, es[k].event_id)
              \/ check_deadlocks /\ t # 1 /\ k = Len(es)
        IN  /\ \A pair \in map : LooksUp(pair[1]) => HasEntry(p, es[pair[2]].event_id)
            /\ check_deadlocks /\ t # 1 => \E pair \in map : pair[1] = Len(es)

(* Otherwise the program aborts or throws, and there is no formula.        *)
FormulaIsMade(p, check_deadlocks) ==
  /\ WorklistAssertionHolds(p.threads, Communication)
  /\ LookupsSucceed(p, check_deadlocks)

encode_communication_concurrency(m, check_deadlocks) ==
  /\ ExtMatch(m)
  /\ check_deadlocks => ~Finalizers(m)
  /\ InitMatch(m)
  /\ FormulaIsMade(program, check_deadlocks)

-----------------------------------------------------------------------------
(* Fault: the first event of a thread is not ordered. *)
ThreadOrderButFirst(time) ==
  \A t \in Threads : \A k \in 3 .. Len(program.threads[t]) :
     LET e == program.threads[t][k - 1].event_id
         f == program.threads[t][k].event_id
     IN  f \in DOMAIN time => e \in DOMAIN time /\ time[e] < time[f]

(* Each clock is after the one before it in its thread.  Stated so that it *)
(* also says which clocks can be chosen next, when they are chosen in      *)
(* ascending order.                                                        *)
ThreadOrder(time) ==
  \A t \in Threads : \A k \in 2 .. Len(program.threads[t]) :
     LET e == program.threads[t][k - 1].event_id
         f == program.threads[t][k].event_id
     IN  f \in DOMAIN time => e \in DOMAIN time /\ time[e] < time[f]

encode_thread_order(m) == ThreadOrder(m.time)

encode(m, check_deadlock) ==
  /\ Holds(program.guard, m.val)
  /\ encode_thread_order(m)
  /\ encode_memory_concurrency(m)
  /\ encode_communication_concurrency(m, check_deadlock)
  /\ encode_stack_api(m)
  /\ encode_array_api(m)

(* The formulas that check_deadlock and check pass to the solver *)
check_deadlock(m) == encode(m, TRUE) /\ Holds(program.assertions, m.val)

check(m) ==
  /\ encode(m, FALSE)
  /\ Holds(program.assertions, m.val)
  /\ \E error \in program.errors : Holds(error, m.val)

-----------------------------------------------------------------------------
(* Programs whose communication the encoder is exact about.                *)

(* Each message that a wildcard may take is for the thread of the wildcard.*)
UnambiguousWildcards(p) ==
  \A r, s \in DOMAIN p.event :
     /\ p.event[r].kind = "message_recv" /\ p.event[r].address = s_wildcard_address
     /\ p.event[s].kind = "message_send" /\ p.event[s].thread_id # p.event[r].thread_id
     => p.event[s].address = p.event[r].thread_id

KindAt(p, t, k) == p.event[p.threads[t][k].event_id].kind

CommunicationBefore(p, t, k) ==
  {j \in 1 .. k - 1 :
     /\ KindAt(p, t, j) \in Communication
     /\ \A i \in j + 1 .. k - 1 : KindAt(p, t, i) \notin Communication}

NeedsNoCommunication(p, x) ==
  \E ids \in SUBSET DOMAIN p.event :
     /\ x \in ids
     /\ ClosedDownwards(p, ids)
     /\ \A y \in ids : p.event[y].kind \in Sync

(* Threads communicate, on all their paths, and before they do wait for    *)
(* nothing but their starts; the immediate dominator then is the           *)
(* communication before.                                                   *)
JustCommunicates(p) ==
  \A t \in DOMAIN p.threads :
     LET es == p.threads[t]
         dominators == ImmediateDominatorMap(es, Communication)
     IN  \A k \in DOMAIN es :
           /\ KindAt(p, t, k) \in Sync \union Communication
           /\ KindAt(p, t, k) \in Communication =>
                 /\ p.event[es[k].event_id].thread_id = t
                 /\ p.event[es[k].event_id].guard = {}
                 /\ \A j \in 1 .. k - 1 :
                      KindAt(p, t, j) \in Sync => NeedsNoCommunication(p, es[j].event_id)
           /\ KindAt(p, t, k) \in Communication \/ k = Len(es) =>
                 {d[2] : d \in {q \in dominators : q[1] = k}} = CommunicationBefore(p, t, k)
=============================================================================
