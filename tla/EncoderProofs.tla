---------------------------- MODULE EncoderProofs ----------------------------
(***************************************************************************)
(* Proofs about Encoder, for every set of programs that its assumptions    *)
(* allow: the encodings of memory, what a solution says of the threads,    *)
(* that every solution is a run of Interleaving, and that every deadlock   *)
(* check_deadlock() finds is one.                                          *)
(***************************************************************************)
EXTENDS Encoder, FiniteSetTheorems, WellFoundedInduction, TLAPS

-----------------------------------------------------------------------------
(* The two encodings of memory.                                            *)

(* The encoding of a read with a supremum, and the cubic one together with *)
(* from-read, for one event r that reads                                   *)
Supremum(r, m) == \E sup \in ClockValues(m) : SupTime(r, sup, m)

LastWriteRead(r, m) ==
  /\ \A w \in At("write", Event(r).address) :
       FlowBool(w, r, m) => /\ Guard(r, m) /\ Guard(w, m)
                            /\ happens_before(w, r, m)
                            /\ TermOf(w, m) = TermOf(r, m)
  /\ \A w, w_prime \in At("write", Event(r).address) :
       /\ w # w_prime
       /\ FlowBool(w, r, m) /\ Guard(w_prime, m) /\ happens_before(w, w_prime, m)
       => happens_before(r, w_prime, m)

(* If clocks differ, "the read-from write is the supremum" says just what  *)
(* the two axioms of the cubic encoding say.                               *)
LEMMA SupremumIsLastWrite ==
  ASSUME NEW m, m.time \in [Ids -> Nat],
         \A x, y \in Ids : m.time[x] = m.time[y] => x = y,
         NEW r \in IdsOf({"read"})
  PROVE  Supremum(r, m) <=> LastWriteRead(r, m)
<1> DEFINE W == At("write", Event(r).address)
<1>1. r \in Ids /\ W \subseteq Ids /\ \A w \in W : w # r
  BY DEF IdsOf, At
<1>2. \A x, y \in Ids : m.time[x] \in Nat /\ (m.time[x] = m.time[y] => x = y)
  OBVIOUS
<1>3. ASSUME NEW sup \in ClockValues(m), SupTime(r, sup, m)
      PROVE  LastWriteRead(r, m)
  <2>1. ASSUME NEW w \in W, FlowBool(w, r, m)
        PROVE  /\ Guard(r, m) /\ Guard(w, m)
               /\ happens_before(w, r, m)
               /\ TermOf(w, m) = TermOf(r, m)
    BY <1>1, <1>2, <1>3, <2>1
       DEF SupTime, simultaneous_or_happens_before, happens_before
  <2>2. ASSUME NEW w \in W, NEW w_prime \in W,
               FlowBool(w, r, m), Guard(w_prime, m), happens_before(w, w_prime, m)
        PROVE  happens_before(r, w_prime, m)
    BY <1>1, <1>2, <1>3, <2>2
       DEF SupTime, simultaneous_or_happens_before, happens_before
  <2> QED
    BY <2>1, <2>2 DEF LastWriteRead
<1>4. ASSUME LastWriteRead(r, m), NEW w \in W, FlowBool(w, r, m)
      PROVE  Supremum(r, m)
  <2>1. m.time[w] \in ClockValues(m)
    BY <1>1 DEF ClockValues
  <2>2. SupTime(r, m.time[w], m)
    <3>1. ASSUME NEW v \in W, FlowBool(v, r, m)
          PROVE  /\ Guard(r, m) /\ Guard(v, m)
                 /\ simultaneous_or_happens_before(v, r, m)
                 /\ TermOf(v, m) = TermOf(r, m)
                 /\ m.time[w] = m.time[v]
      <4>1. v = w
        BY <1>4, <3>1 DEF FlowBool
      <4> QED
        BY <1>1, <1>2, <1>4, <4>1
           DEF LastWriteRead, simultaneous_or_happens_before, happens_before
    <3>2. ASSUME NEW v \in W, simultaneous_or_happens_before(v, r, m), Guard(v, m)
          PROVE  m.time[v] <= m.time[w]
      <4>1. SUFFICES ASSUME m.time[w] < m.time[v] PROVE FALSE
        BY <1>1, <1>2
      <4>2. m.time[r] < m.time[v]
        BY <1>1, <1>2, <1>4, <3>2, <4>1 DEF LastWriteRead, happens_before
      <4> QED
        BY <1>1, <1>2, <3>2, <4>2 DEF simultaneous_or_happens_before
    <3> QED
      BY <3>1, <3>2 DEF SupTime
  <2> QED
    BY <2>1, <2>2 DEF Supremum
<1>5. ASSUME \A w \in W : ~FlowBool(w, r, m)
      PROVE  Supremum(r, m)
  <2>1. m.time[r] \in ClockValues(m)
    BY <1>1 DEF ClockValues
  <2>2. SupTime(r, m.time[r], m)
    BY <1>1, <1>2, <1>5 DEF SupTime, simultaneous_or_happens_before
  <2> QED
    BY <2>1, <2>2 DEF Supremum
<1> QED
  BY <1>3, <1>4, <1>5 DEF Supremum

THEOREM SameEncoding ==
  ASSUME NEW m, m.time \in [Ids -> Nat],
         \A x, y \in Ids : m.time[x] = m.time[y] => x = y
  PROVE  encode_read_from(m) <=> encode_read_from_cubic(m) /\ encode_from_read(m)
<1>1. \A r \in IdsOf({"read"}) : Supremum(r, m) <=> LastWriteRead(r, m)
  BY SupremumIsLastWrite
<1>2. encode_read_from(m) <=>
        \A r \in IdsOf({"read"}) :
           /\ Guard(r, m) => \E w \in At("write", Event(r).address) : FlowBool(w, r, m)
           /\ Supremum(r, m)
  BY Zenon DEF encode_read_from, Supremum
<1>3. encode_read_from_cubic(m) /\ encode_from_read(m) <=>
        \A r \in IdsOf({"read"}) :
           /\ Guard(r, m) => \E w \in At("write", Event(r).address) : FlowBool(w, r, m)
           /\ LastWriteRead(r, m)
  BY DEF encode_read_from_cubic, encode_from_read, LastWriteRead
<1> QED
  BY <1>1, <1>2, <1>3

-----------------------------------------------------------------------------
(* Clocks.                                                                 *)

(* Events of a thread have their clocks in ascending order, up to some     *)
(* event of it.                                                            *)
AlongThreads(time) ==
  \A t \in Threads : \A j, k \in DOMAIN program.threads[t] :
     j < k /\ program.threads[t][k].event_id \in DOMAIN time
     => /\ program.threads[t][j].event_id \in DOMAIN time
        /\ time[program.threads[t][j].event_id] < time[program.threads[t][k].event_id]

Clocks ==
  /\ solution.time \in [DOMAIN solution.time -> Nat]
  /\ DOMAIN solution.time \subseteq Ids
  /\ IsFiniteSet(Range(solution.time))
  /\ AlongThreads(solution.time)

Shape ==
  /\ program \in Programs
  /\ query \in program.queries
  /\ phase \in {"clocks", "replay"}
  /\ solution = [time |-> solution.time, flow |-> solution.flow, val |-> solution.val]
  /\ DOMAIN solution.flow \in {{}, Reads}
  /\ DOMAIN solution.val \subseteq Variables
  /\ Input \in DOMAIN solution.val
  /\ solution.val[Input] \in Int
  /\ replayed \in Seq(Ids)

(* A solution gives a value to each variable and satisfies the formula.    *)
Solved ==
  phase = "replay" =>
    /\ DOMAIN solution.time = Ids
    /\ solution.flow \in Flows
    /\ solution.val \in [Variables -> Int]
    /\ encode(solution, FALSE)
    /\ Holds(program.assertions, solution.val)

IInv == Shape /\ Clocks /\ Solved

LEMMA ThreadsAreSequences ==
  ASSUME program \in Programs, NEW t \in Threads
  PROVE  /\ Len(program.threads[t]) \in Nat
         /\ DOMAIN program.threads[t] = 1 .. Len(program.threads[t])
BY ProgramsAssumption DEF Threads

(* Clocks that are chosen along each thread, one event after the other,    *)
(* ascend along all of it.                                                 *)
LEMMA TickAlongThreads ==
  ASSUME program \in Programs, Clocks,
         NEW ids \in SUBSET (Ids \ DOMAIN solution.time),
         ThreadOrder(Ticked(ids))
  PROVE  AlongThreads(Ticked(ids))
<1> DEFINE time == solution.time
           new == Ticked(ids)
           now == Cardinality(Range(time)) + 1
<1>1. now \in Nat
  BY FS_CardinalityType DEF Clocks
<1>2. /\ DOMAIN new = ids \union DOMAIN time
      /\ \A id \in ids : new[id] = now
      /\ \A id \in DOMAIN time : new[id] = time[id] /\ time[id] \in Nat
  BY DEF Ticked, Clocks
<1> HIDE DEF new, now, time
<1>3. SUFFICES ASSUME NEW t \in Threads,
                      NEW j \in DOMAIN program.threads[t],
                      NEW k \in DOMAIN program.threads[t],
                      j < k, program.threads[t][k].event_id \in DOMAIN new
               PROVE  /\ program.threads[t][j].event_id \in DOMAIN new
                      /\ new[program.threads[t][j].event_id]
                           < new[program.threads[t][k].event_id]
  BY DEF AlongThreads, new
<1> DEFINE e(i) == program.threads[t][i].event_id
<1>4. DOMAIN program.threads[t] = 1 .. Len(program.threads[t])
      /\ Len(program.threads[t]) \in Nat
  BY ThreadsAreSequences
<1>5. /\ j \in 1 .. k - 1 /\ k - 1 \in 1 .. k - 1 /\ k \in Int
      /\ j = k - 1 \/ j \in 1 .. k - 2
  BY <1>3, <1>4
<1>6. e(k - 1) \in DOMAIN new /\ new[e(k - 1)] < new[e(k)]
  BY <1>3, <1>4 DEF ThreadOrder, new
<1>7. \A i, l \in 1 .. k :
        i < l /\ e(l) \in DOMAIN time => e(i) \in DOMAIN time /\ time[e(i)] < time[e(l)]
  <2>1. AlongThreads(time)
    BY DEF Clocks, time
  <2>2. 1 .. k \subseteq DOMAIN program.threads[t]
    BY <1>4
  <2>3. \A i, l \in DOMAIN program.threads[t] :
          i < l /\ e(l) \in DOMAIN time => e(i) \in DOMAIN time /\ time[e(i)] < time[e(l)]
    BY <1>3, <2>1 DEF AlongThreads
  <2> HIDE DEF e
  <2> QED
    BY <2>2, <2>3
<1> HIDE DEF e
<1>8. SUFFICES e(j) \in DOMAIN new /\ new[e(j)] < new[e(k)]
  BY DEF e
<1>9. CASE e(k) \in DOMAIN time
  <2>1. e(j) \in DOMAIN time /\ time[e(j)] < time[e(k)]
    BY <1>5, <1>7, <1>9
  <2> QED
    BY <1>2, <1>9, <2>1
<1>10. CASE e(k) \in ids
  <2>1. e(k - 1) \in DOMAIN time
    BY <1>1, <1>2, <1>6, <1>10
  <2>2. j # k - 1 => e(j) \in DOMAIN time /\ time[e(j)] < time[e(k - 1)]
    BY <1>5, <1>7, <2>1
  <2> QED
    BY <1>1, <1>2, <1>6, <1>10, <2>1, <2>2
<1>11. e(k) \in DOMAIN new
  BY <1>3 DEF e
<1> QED
  BY <1>2, <1>9, <1>10, <1>11

-----------------------------------------------------------------------------
(* The invariant.                                                          *)

LEMMA InitIInv == Init => IInv
<1> SUFFICES ASSUME Init PROVE IInv
  OBVIOUS
<1>1. PICK v \in program.inputs :
        solution = [time |-> << >>, flow |-> << >>, val |-> [x \in {Input} |-> v]]
  BY DEF Init
<1>2. Shape
  <2>1. v \in Int
    BY DataFlowAssumption DEF Init
  <2> QED
    BY <1>1, <2>1 DEF Init, Shape, Variables
<1>3. solution.time = << >> /\ DOMAIN solution.time = {} /\ Range(solution.time) = {}
  BY <1>1 DEF Range
<1>4. IsFiniteSet(Range(solution.time))
  BY <1>3, FS_EmptySet
<1>5. AlongThreads(solution.time)
  BY <1>3 DEF AlongThreads
<1>6. Clocks
  BY <1>3, <1>4, <1>5 DEF Clocks
<1> QED
  BY <1>2, <1>6 DEF IInv, Solved, Init

LEMMA SameVariables ==
  ASSUME program' = program
  PROVE  /\ Ids' = Ids /\ Reads' = Reads /\ Variables' = Variables /\ Flows' = Flows
         /\ IdsOf(Reading)' = IdsOf(Reading)
<1>1. /\ \A kinds : IdsOf(kinds)' = IdsOf(kinds)
      /\ \A kind, address : At(kind, address)' = At(kind, address)
      /\ \A id : Event(id)' = Event(id)
      /\ Ids' = Ids
  BY DEF IdsOf, At, Event, Ids
<1>2. Reads' = Reads /\ Variables' = Variables
  BY <1>1 DEF Reads, Variables
<1>3. \A id : Sources(id)' = Sources(id)
  BY <1>1 DEF Sources
<1> QED
  BY <1>1, <1>2, <1>3 DEF Flows

LEMMA TickIInv ==
  ASSUME IInv, NEW ids \in SUBSET (Ids \ DOMAIN solution.time), Tick(ids)
  PROVE  IInv'
<1> DEFINE new == Ticked(ids)
           now == Cardinality(Range(solution.time)) + 1
<1>1. /\ solution' = [solution EXCEPT !.time = new]
      /\ ThreadOrder(new) /\ phase = "clocks"
      /\ UNCHANGED <<program, query, phase, replayed>>
  BY DEF Tick
<1>2. /\ solution'.time = new
      /\ solution'.flow = solution.flow /\ solution'.val = solution.val
      /\ solution' = [time |-> solution'.time, flow |-> solution'.flow, val |-> solution'.val]
  BY <1>1 DEF IInv, Shape
<1>3. Shape'
  <2>1. program \in Programs /\ query \in program.queries /\ phase \in {"clocks", "replay"}
        /\ DOMAIN solution.flow \in {{}, Reads} /\ DOMAIN solution.val \subseteq Variables
        /\ Input \in DOMAIN solution.val /\ solution.val[Input] \in Int
        /\ replayed \in Seq(Ids)
    BY DEF IInv, Shape
  <2>2. Ids' = Ids /\ Reads' = Reads /\ Variables' = Variables
    BY <1>1, SameVariables
  <2> QED
    BY <1>1, <1>2, <2>1, <2>2 DEF Shape
<1>4. Clocks'
  <2>1. now \in Nat
    BY FS_CardinalityType DEF Clocks, IInv
  <2>2. /\ new \in [DOMAIN new -> Nat]
        /\ DOMAIN new \subseteq Ids
    BY <2>1 DEF Ticked, IInv, Clocks
  <2>3. IsFiniteSet(Range(new))
    <3>1. Range(new) \subseteq Range(solution.time) \union {now}
      BY DEF Ticked, Range
    <3>2. IsFiniteSet(Range(solution.time) \union {now})
      BY FS_AddElement DEF IInv, Clocks
    <3> QED
      BY <3>1, <3>2, FS_Subset
  <2>4. AlongThreads(new)
    BY <1>1, TickAlongThreads DEF IInv, Shape
  <2>5. AlongThreads(solution.time)'
    BY <1>1, <1>2, <2>4 DEF AlongThreads, Threads
  <2> QED
    BY <1>1, <1>2, <2>2, <2>3, <2>5 DEF Clocks, Ids
<1> QED
  BY <1>1, <1>3, <1>4 DEF IInv, Solved

(* The formula is about the solution and the program, which does not       *)
(* change.                                                                 *)
LEMMA SameFormula ==
  ASSUME program' = program, NEW m, solution' = m,
         encode(m, FALSE), Holds(program.assertions, m.val)
  PROVE  encode(solution, FALSE)' /\ Holds(program.assertions, solution.val)'
<1>1. /\ \A kinds : IdsOf(kinds)' = IdsOf(kinds)
      /\ \A kind, address : At(kind, address)' = At(kind, address)
      /\ \A id : Event(id)' = Event(id)
      /\ \A kind : AddressesOf(kind)' = AddressesOf(kind)
      /\ Threads' = Threads
      /\ Ids' = Ids
  BY DEF IdsOf, At, Event, Ids, AddressesOf, Threads
<1>2. /\ \A id : Guard(id, solution)' <=> Guard(id, m)
      /\ \A id : TermOf(id, solution)' = TermOf(id, m)
      /\ \A id : OffsetOf(id, solution)' = OffsetOf(id, m)
      /\ \A x, y : FlowBool(x, y, solution)' <=> FlowBool(x, y, m)
      /\ \A x, y : happens_before(x, y, solution)' <=> happens_before(x, y, m)
      /\ \A x, y : simultaneous_or_happens_before(x, y, solution)'
                     <=> simultaneous_or_happens_before(x, y, m)
      /\ \A x, y : SameOffset(x, y, solution)' <=> SameOffset(x, y, m)
      /\ \A p : Match(p, solution)' <=> Match(p, m)
  BY <1>1 DEF Guard, Enabled, Holds, TermOf, OffsetOf, Eval, FlowBool, happens_before,
              simultaneous_or_happens_before, SameOffset, Match, simultaneous
<1>3. encode_memory_concurrency(solution)'
  <2>1. \A r, sup : SupTime(r, sup, solution)' <=> SupTime(r, sup, m)
    BY <1>1, <1>2 DEF SupTime
  <2>2. ClockValues(solution)' = ClockValues(m)
    BY DEF ClockValues
  <2>3. encode_read_from(m) /\ encode_write_serialization(m)
    BY DEF encode, encode_memory_concurrency
  <2>4. encode_read_from(solution)'
    BY <1>1, <1>2, <2>1, <2>2, <2>3 DEF encode_read_from
  <2>5. encode_write_serialization(solution)'
    BY <1>1, <2>3 DEF encode_write_serialization
  <2> QED
    BY <2>4, <2>5 DEF encode_memory_concurrency
<1>4. encode_stack_api(solution)'
  <2>1. encode_pop_from(m) /\ encode_pop_from_injectivity(m) /\ encode_stack_lifo_order(m)
    BY DEF encode, encode_stack_api
  <2>2. encode_pop_from(solution)'
    BY <1>1, <1>2, <2>1 DEF encode_pop_from
  <2>3. encode_pop_from_injectivity(solution)'
    BY <1>1, <2>1 DEF encode_pop_from_injectivity
  <2>4. encode_stack_lifo_order(solution)'
    BY <1>1, <1>2, <2>1 DEF encode_stack_lifo_order
  <2> QED
    BY <2>2, <2>3, <2>4 DEF encode_stack_api
<1>5. encode_array_api(solution)'
  <2>1. encode_load_from(m) /\ encode_from_load(m) /\ encode_store_serialization(m)
    BY DEF encode, encode_array_api
  <2>2. encode_load_from(solution)'
    BY <1>1, <1>2, <2>1 DEF encode_load_from
  <2>3. encode_from_load(solution)'
    BY <1>1, <1>2, <2>1 DEF encode_from_load
  <2>4. encode_store_serialization(solution)'
    BY <1>1, <2>1 DEF encode_store_serialization
  <2> QED
    BY <2>2, <2>3, <2>4 DEF encode_array_api
<1>6. encode_communication_concurrency(solution, FALSE)'
  <2>1. ExtMatch(m) /\ InitMatch(m)
    BY DEF encode, encode_communication_concurrency
  <2>2. Matchables' = Matchables
    BY <1>1 DEF Matchables
  <2>3. \A id : Cidom(id)' = Cidom(id)
    BY DEF Cidom, CidomOf, Position, Event
  <2>4. \A ids : communication_match_conjunction(ids, solution)'
                   <=> communication_match_conjunction(ids, m)
    BY <1>2, <2>2 DEF communication_match_conjunction, communication_match_disjunction
  <2>5. \A p : communication_excl(p, solution)' <=> communication_excl(p, m)
    BY <1>2, <2>2 DEF communication_excl
  <2>6. ExtMatch(solution)'
    BY <1>2, <2>1, <2>2, <2>3, <2>4, <2>5 DEF ExtMatch
  <2>7. InitMatch(solution)'
    BY <1>2, <2>1, <2>2, <2>3 DEF InitMatch
  <2>8. FormulaIsMade(program, FALSE)'
    <3>1. FormulaIsMade(program, FALSE)
      BY DEF encode, encode_communication_concurrency
    <3> QED
      BY <3>1
  <2> QED
    BY <2>6, <2>7, <2>8 DEF encode_communication_concurrency
<1>7. /\ encode_thread_order(solution)'
      /\ Holds(program.guard, solution.val)' /\ Holds(program.assertions, solution.val)'
  BY <1>1 DEF encode, encode_thread_order, ThreadOrder, Holds, Threads
<1> QED
  BY <1>3, <1>4, <1>5, <1>6, <1>7 DEF encode

LEMMA SolveIInv ==
  ASSUME IInv, Solve
  PROVE  IInv'
<1>1. PICK flow \in Flows, val \in [IdsOf(Reading) -> program.values] :
        Formula(Chosen(flow, val)) /\ solution' = Chosen(flow, val)
  BY DEF Solve
<1>2. /\ phase' = "replay" /\ DOMAIN solution.time = Ids
      /\ UNCHANGED <<program, query, replayed>>
  BY DEF Solve
<1>3. /\ solution'.time = solution.time
      /\ solution'.flow = flow
      /\ DOMAIN solution'.val = Variables
      /\ solution' = [time |-> solution'.time, flow |-> solution'.flow, val |-> solution'.val]
  BY <1>1 DEF Chosen, IInv, Shape
<1>4. flow \in Flows /\ DOMAIN flow = Reads
  BY DEF Flows
<1>5. /\ Ids' = Ids /\ Reads' = Reads /\ Variables' = Variables /\ Flows' = Flows
  BY <1>2, SameVariables
<1>6. solution'.val \in [Variables -> Int] /\ Input \in Variables
  <2>1. program.values \subseteq Int
    BY DataFlowAssumption DEF IInv, Shape
  <2>2. solution.val[Input] \in Int
    BY DEF IInv, Shape
  <2>3. \A x \in Variables : x # Input => val[x] \in Int
    BY <2>1 DEF Variables
  <2>4. solution'.val = [x \in Variables |-> IF x = Input THEN solution.val[x] ELSE val[x]]
    BY <1>1 DEF Chosen, IInv, Shape
  <2> QED
    BY <2>2, <2>3, <2>4 DEF Variables
<1>7. Shape'
  BY <1>2, <1>3, <1>4, <1>5, <1>6 DEF Shape, IInv
<1>8. Clocks'
  BY <1>2, <1>3, <1>5 DEF IInv, Clocks, AlongThreads, Threads
<1>9. encode(Chosen(flow, val), FALSE) /\ Holds(program.assertions, Chosen(flow, val).val)
  BY <1>1 DEF Formula, check, check_deadlock, encode, encode_communication_concurrency,
              FormulaIsMade, LookupsSucceed
<1>10. encode(solution, FALSE)' /\ Holds(program.assertions, solution.val)'
  BY <1>1, <1>2, <1>9, SameFormula
<1> QED
  BY <1>2, <1>3, <1>4, <1>5, <1>6, <1>7, <1>8, <1>10 DEF IInv, Solved

LEMMA ReplayIInv ==
  ASSUME IInv, Replay
  PROVE  IInv'
<1>1. PICK id \in Ready : replayed' = replayed \o Together(id)
  BY DEF Replay
<1>2. phase = "replay" /\ UNCHANGED <<program, query, phase, solution>>
  BY DEF Replay
<1>3. Ids' = Ids /\ Reads' = Reads /\ Variables' = Variables /\ Flows' = Flows
  BY <1>2, SameVariables
<1>4. Together(id) \in Seq(Ids)
  <2>1. ToSet(Together(id)) \subseteq Ids
    BY DEF Ready, Pending
  <2>2. PICK other : Together(id) \in {<<id, other>>, <<other, id>>, <<id>>}
    BY DEF Together
  <2> QED
    BY <2>1, <2>2 DEF ToSet
<1>5. Shape'
  BY <1>1, <1>2, <1>3, <1>4 DEF Shape, IInv
<1>6. Clocks'
  BY <1>2, <1>3 DEF IInv, Clocks, AlongThreads, Threads
<1>7. encode(solution, FALSE)' /\ Holds(program.assertions, solution.val)'
  BY <1>2, SameFormula DEF IInv, Solved
<1> QED
  BY <1>2, <1>3, <1>5, <1>6, <1>7 DEF IInv, Solved

LEMMA StutterIInv ==
  ASSUME IInv, UNCHANGED vars
  PROVE  IInv'
<1>1. UNCHANGED <<program, query, phase, solution, replayed>>
  BY DEF vars
<1>2. Ids' = Ids /\ Reads' = Reads /\ Variables' = Variables /\ Flows' = Flows
  BY <1>1, SameVariables
<1>3. Shape'
  BY <1>1, <1>2 DEF Shape, IInv
<1>4. Clocks'
  BY <1>1, <1>2 DEF IInv, Clocks, AlongThreads, Threads
<1>5. phase = "replay" =>
        encode(solution, FALSE)' /\ Holds(program.assertions, solution.val)'
  BY <1>1, SameFormula DEF IInv, Solved
<1> QED
  BY <1>1, <1>2, <1>3, <1>4, <1>5 DEF IInv, Solved

(* Solutions have a shape, clocks that respect the order of each thread,   *)
(* and, once found, satisfy the axioms of memory and the assertions.       *)
THEOREM SolutionInvariant == Spec => []IInv
<1>1. IInv /\ [Next]_vars => IInv'
  BY TickIInv, SolveIInv, ReplayIInv, StutterIInv DEF Next
<1> QED
  BY InitIInv, <1>1, PTL DEF Spec

-----------------------------------------------------------------------------
(* What follows from it.                                                   *)

LEMMA PredecessorsEarlier ==
  ASSUME IInv, NEW id \in DOMAIN solution.time, NEW x \in Predecessors(id)
  PROVE  x \in DOMAIN solution.time /\ solution.time[x] < solution.time[id]
<1>1. PICK t \in ThreadsOf(id) : \E k \in 1 .. Position(t, id) - 1 :
         x = program.threads[t][k].event_id
  BY DEF Predecessors
<1>2. PICK k \in 1 .. Position(t, id) - 1 : x = program.threads[t][k].event_id
  BY <1>1
<1>3. /\ t \in Threads
      /\ DOMAIN program.threads[t] = 1 .. Len(program.threads[t])
      /\ Len(program.threads[t]) \in Nat
  BY ThreadsAreSequences DEF ThreadsOf, IInv, Shape
<1>4. \E i \in DOMAIN program.threads[t] : program.threads[t][i].event_id = id
  BY DEF ThreadsOf, ToSet
<1>5. /\ Position(t, id) \in DOMAIN program.threads[t]
      /\ program.threads[t][Position(t, id)].event_id = id
  BY <1>4 DEF Position
<1>6. k \in DOMAIN program.threads[t] /\ k < Position(t, id)
  BY <1>3, <1>5
<1> QED
  BY <1>2, <1>3, <1>5, <1>6 DEF IInv, Clocks, AlongThreads

(* TypeOK holds in every reachable state; in particular clocks are chosen  *)
(* for an event only after all that come before it in its threads.         *)
THEOREM TypeCorrect == Spec => []TypeOK
<1>1. IInv => TypeOK
  <2> SUFFICES ASSUME IInv PROVE TypeOK
    OBVIOUS
  <2>1. ToSet(replayed) \subseteq Ids
    BY DEF IInv, Shape, ToSet
  <2> QED
    BY <2>1, PredecessorsEarlier DEF TypeOK, IInv, Shape, Clocks, Solved, Flows
<1> QED
  BY <1>1, SolutionInvariant, PTL

(* For every program and every total order of its events the two encodings *)
(* of Encoder::encode_read_from and encode_from_read agree.                *)
THEOREM EncodingsAlwaysAgree == Spec => []EncodingsAgree
<1>1. IInv => EncodingsAgree
  <2> SUFFICES ASSUME IInv, DOMAIN solution.time = Ids, DistinctClocks,
                      NEW flow \in Flows, NEW val \in [IdsOf(Reading) -> program.values]
               PROVE  encode_read_from(Chosen(flow, val)) <=>
                        /\ encode_read_from_cubic(Chosen(flow, val))
                        /\ encode_from_read(Chosen(flow, val))
    BY DEF EncodingsAgree
  <2>1. Chosen(flow, val).time = solution.time
    BY DEF Chosen, IInv, Shape
  <2>2. solution.time \in [Ids -> Nat]
    BY DEF IInv, Clocks
  <2>3. \A x, y \in Ids : solution.time[x] = solution.time[y] => x = y
    BY DEF DistinctClocks, IsInjective
  <2> QED
    BY <2>1, <2>2, <2>3, SameEncoding
<1> QED
  BY <1>1, SolutionInvariant, PTL

-----------------------------------------------------------------------------
(* Mutual exclusion.                                                       *)

LEMMA BeforeIsEarlier ==
  ASSUME IInv, DOMAIN solution.time = Ids,
         NEW id \in Ids, NEW x, NEW y, Before(program, Event(id).thread_id, x, y)
  PROVE  x \in Ids /\ y \in Ids /\ happens_before(x, y, solution)
<1> DEFINE t == Event(id).thread_id
<1>1. t \in Threads
  BY ProgramsAssumption DEF IInv, Shape, Event, Ids, Threads
<1>2. PICK j, k \in DOMAIN program.threads[t] :
        /\ j < k
        /\ program.threads[t][j].event_id = x
        /\ program.threads[t][k].event_id = y
  BY DEF Before
<1>3. x \in Ids /\ y \in Ids
  BY <1>1, <1>2, ProgramsAssumption DEF IInv, Shape, Ids, Threads
<1> QED
  BY <1>1, <1>2, <1>3 DEF IInv, Clocks, AlongThreads, happens_before

(* The assertion of unlock() makes the write of lock() the last one to the *)
(* mutex: any other write that happens comes before it, or after unlock()  *)
(* has read.                                                               *)
LEMMA NothingLocksInBetween ==
  ASSUME IInv, phase = "replay",
         NEW c \in program.sections,
         NEW w \in At("write", Event(c.lock).address), w # c.lock, Guard(w, solution)
  PROVE  \/ happens_before(w, c.lock, solution)
         \/ happens_before(c.unlock, w, solution)
<1> DEFINE time == solution.time
           L == c.lock
           U == c.unlock
           t == Event(c.lock).thread_id
           W == At("write", Event(c.lock).address)
<1>1. LocksWithOwnIdentifier(program, c)
  BY SectionsAssumption DEF SectionsWellFormed, IInv, Shape
<1>2. /\ L \in Ids /\ Event(L).kind = "write" /\ Event(L).guard = {}
      /\ U \in Ids /\ Event(U).kind = "read" /\ Event(U).guard = {}
      /\ Event(U).address = Event(L).address
      /\ Event(U).term = [var |-> U, const |-> 0]
      /\ <<U, t>> \in program.assertions
      /\ Before(program, t, L, U)
  BY <1>1 DEF LocksWithOwnIdentifier, Event, Ids
<1>3. DOMAIN time = Ids /\ \A id \in Ids : time[id] \in Nat
  BY DEF IInv, Clocks, Solved
<1>4. L \in W /\ U \in IdsOf({"read"}) /\ W \subseteq Ids
      /\ Guard(L, solution) /\ Guard(U, solution)
  BY <1>2 DEF IdsOf, At, Guard, Enabled, Holds
<1>5. t \in Nat /\ U # -1
  <2>1. /\ DOMAIN program.threads \subseteq Nat
        /\ Ids \subseteq Nat \ {0}
        /\ \A id \in Ids : Event(id).thread_id \in DOMAIN program.threads
    BY ProgramsAssumption DEF IInv, Shape, Event, Ids
  <2> QED
    BY <1>2, <2>1
<1>6. time[L] < time[U]
  BY <1>2, <1>3, BeforeIsEarlier DEF happens_before
<1>7. /\ Guard(U, solution) => \E v \in W : FlowBool(v, U, solution)
      /\ \E sup \in ClockValues(solution) : SupTime(U, sup, solution)
  BY <1>2, <1>4 DEF IInv, Solved, encode, encode_memory_concurrency, encode_read_from
<1>8. PICK v \in W : FlowBool(v, U, solution)
  BY <1>4, <1>7
<1>9. PICK sup : SupTime(U, sup, solution)
  BY <1>7
<1>10. /\ sup = time[v] /\ time[v] <= time[U]
       /\ TermOf(v, solution) = TermOf(U, solution)
       /\ \A x \in W : time[x] <= time[U] /\ Guard(x, solution) => time[x] <= sup
  BY <1>2, <1>8, <1>9 DEF SupTime, simultaneous_or_happens_before
<1>11. TermOf(U, solution) = t
  <2>1. solution.val[U] = t
    BY <1>2 DEF IInv, Solved, Holds
  <2> QED
    BY <1>2, <1>5, <2>1 DEF TermOf, Eval
<1>12. v = L \/ Before(program, t, v, L) \/ Before(program, t, U, v)
  <2>1. WritesOwnIdentifierOnly(program, c, v)
    BY SectionsAssumption DEF SectionsWellFormed, IInv, Shape, At, Event, Ids
  <2>2. Event(v).term.var = -1 /\ (Event(v).term.const = t =>
          v = L \/ Before(program, t, v, L) \/ Before(program, t, U, v))
    BY <2>1 DEF WritesOwnIdentifierOnly, Event
  <2>3. Event(v).term.const = t
    BY <1>10, <1>11, <2>2 DEF TermOf, Eval
  <2> QED
    BY <2>2, <2>3
<1>13. time[v] <= time[L]
  <2>1. CASE v = L
    BY <1>3, <1>4, <2>1
  <2>2. CASE Before(program, t, v, L)
    BY <1>2, <1>3, <1>4, <2>2, BeforeIsEarlier DEF happens_before
  <2>3. CASE Before(program, t, U, v)
    <3>1. time[U] < time[v]
      BY <1>2, <1>3, <2>3, BeforeIsEarlier DEF happens_before
    <3> QED
      BY <1>2, <1>3, <1>4, <1>10, <3>1
  <2> QED
    BY <1>12, <2>1, <2>2, <2>3
<1>14. time[w] # time[L]
  <2>1. Event(L).address \in AddressesOf("write")
    BY <1>2 DEF AddressesOf, IdsOf
  <2>2. IsInjective([x \in W |-> time[x]])
    BY <2>1 DEF IInv, Solved, encode, encode_memory_concurrency, encode_write_serialization
  <2> QED
    BY <1>4, <2>2 DEF IsInjective
<1> QED
  BY <1>2, <1>3, <1>4, <1>10, <1>13, <1>14 DEF happens_before

(* In every solution of the formula the critical sections of a mutex do    *)
(* not overlap.                                                            *)
THEOREM MutualExclusion == Spec => []CriticalSectionsExclusive
<1>1. IInv => CriticalSectionsExclusive
  <2> SUFFICES ASSUME IInv, phase = "replay",
                      NEW c \in program.sections, NEW d \in program.sections, c # d
               PROVE  \/ happens_before(c.unlock, d.lock, solution)
                      \/ happens_before(d.unlock, c.lock, solution)
    BY DEF CriticalSectionsExclusive
  <2>1. SectionsWellFormed(program)
    BY SectionsAssumption DEF IInv, Shape
  <2>2. /\ c.lock \in Ids /\ d.lock \in Ids
        /\ Event(c.lock).kind = "write" /\ Event(d.lock).kind = "write"
        /\ Event(c.lock).address = Event(d.lock).address
        /\ Event(c.lock).guard = {} /\ Event(d.lock).guard = {}
    BY <2>1 DEF SectionsWellFormed, LocksWithOwnIdentifier, SectionsApart, Event, Ids
  <2>3. CASE Event(c.lock).thread_id = Event(d.lock).thread_id
    <3>1. \/ Before(program, Event(c.lock).thread_id, c.unlock, d.lock)
          \/ Before(program, Event(c.lock).thread_id, d.unlock, c.lock)
      BY <2>1, <2>3 DEF SectionsWellFormed, SectionsApart, Event
    <3> QED
      BY <2>2, <3>1, BeforeIsEarlier DEF IInv, Solved
  <2>4. CASE Event(c.lock).thread_id # Event(d.lock).thread_id
    <3>1. /\ c.lock # d.lock
          /\ c.lock \in At("write", Event(d.lock).address)
          /\ d.lock \in At("write", Event(c.lock).address)
          /\ Guard(c.lock, solution) /\ Guard(d.lock, solution)
      BY <2>2, <2>4 DEF At, Guard, Enabled, Holds
    <3>2. \/ happens_before(d.lock, c.lock, solution)
          \/ happens_before(c.unlock, d.lock, solution)
      BY <3>1, NothingLocksInBetween
    <3>3. \/ happens_before(c.lock, d.lock, solution)
          \/ happens_before(d.unlock, c.lock, solution)
      BY <3>1, NothingLocksInBetween
    <3> QED
      BY <2>2, <3>2, <3>3 DEF happens_before, IInv, Clocks, Solved
  <2> QED
    BY <2>3, <2>4
<1> QED
  BY <1>1, SolutionInvariant, PTL

-----------------------------------------------------------------------------
(* The operators of EventPrograms are the same in the machine, which has   *)
(* the program of the encoder.                                             *)
LEMMA MachineOps ==
  /\ Machine!Ids = Ids
  /\ \A id : Machine!Event(id) = Event(id)
  /\ \A kinds : Machine!IdsOf(kinds) = IdsOf(kinds)
  /\ \A kind, a : Machine!At(kind, a) = At(kind, a)
  /\ \A id : Machine!Predecessors(id) = Predecessors(id)
  /\ \A term, v : Machine!Eval(term, v) = Eval(term, v)
  /\ \A id, v : Machine!Enabled(id, v) <=> Enabled(id, v)
  /\ Machine!Sync = Sync /\ Machine!Receive = Receive /\ Machine!Send = Send
<1>1. /\ Machine!Ids = Ids
      /\ \A id : Machine!Event(id) = Event(id)
      /\ Machine!Threads = Threads
  BY DEF Machine!Ids, Machine!Event, Ids, Event, Machine!Threads, Threads
<1>2. \A kinds : Machine!IdsOf(kinds) = IdsOf(kinds)
  BY <1>1 DEF Machine!IdsOf, IdsOf
<1>3. \A kind, a : Machine!At(kind, a) = At(kind, a)
  BY <1>1 DEF Machine!At, At
<1>4. \A id : Machine!ThreadsOf(id) = ThreadsOf(id)
  BY <1>1 DEF Machine!ThreadsOf, ThreadsOf, Machine!ToSet, ToSet
<1>5. \A t, id : Machine!Position(t, id) = Position(t, id)
  BY DEF Machine!Position, Position
<1>6. \A id : Machine!Predecessors(id) = Predecessors(id)
  BY <1>4, <1>5 DEF Machine!Predecessors, Predecessors
<1>7. \A term, v : Machine!Eval(term, v) = Eval(term, v)
  BY DEF Machine!Eval, Eval
<1>8. \A id, v : Machine!Enabled(id, v) <=> Enabled(id, v)
  BY <1>1 DEF Machine!Enabled, Enabled, Machine!Holds, Holds
<1>9. Machine!Sync = Sync /\ Machine!Receive = Receive /\ Machine!Send = Send
  BY DEF Machine!Sync, Machine!Receive, Machine!Send, Sync, Receive, Send
<1> QED
  BY <1>1, <1>2, <1>3, <1>6, <1>7, <1>8, <1>9
-----------------------------------------------------------------------------
(* The event is on the path of the solution and has to meet another one.   *)
Communicates(id) == Event(id).kind \in Communication /\ Guard(id, solution)

(* The order in which a solution is replayed.  Events that communicate at  *)
(* the same time have no order but that of the two that meet.              *)
Precedes(x, y) ==
  \/ happens_before(x, y, solution)
  \/ simultaneous(x, y, solution) /\ Rank(x) < Rank(y)
  \/ /\ simultaneous(x, y, solution) /\ Rank(x) = Rank(y)
     /\ Event(x).kind \in Communication \/ Lexicographic(PoppedAt(x), PoppedAt(y))

(* No event is replayed twice.                                             *)
Once == \A j, k \in DOMAIN replayed : replayed[j] = replayed[k] => j = k

(* What is replayed is closed under the order of the threads and under     *)
(* meeting, and nothing in it waits for ever.                              *)
ClosedUnder ==
  \A id \in ToSet(replayed) :
     /\ Predecessors(id) \subseteq ToSet(replayed)
     /\ ~Waits(id)
     /\ Communicates(id) => Partners(id) \subseteq ToSet(replayed)

(* Events are replayed in their order: none that is still to come should   *)
(* have been before one that has been replayed.  (When the program         *)
(* deadlocks, events behind a wait are left out.)                          *)
InOrder ==
  query # "check_deadlock" =>
    /\ \A x \in ToSet(replayed), y \in Ids \ ToSet(replayed) : Precedes(x, y)
    /\ \A j, k \in DOMAIN replayed : j < k => Precedes(replayed[j], replayed[k])

(* The inductive invariant of the replay.                                  *)
ReplayInv ==
  /\ phase = "clocks" => replayed = << >>
  /\ Once /\ ClosedUnder /\ InOrder

(* A receive and a send that meet in a solution, and no other event        *)
Meeting(r, s) ==
  /\ r \in IdsOf(Receive) /\ s \in IdsOf(Send) /\ r # s
  /\ <<r, s>> \in Matchables
  /\ simultaneous(r, s, solution)
  /\ Partners(r) = {s} /\ Partners(s) = {r}
  /\ Guard(r, solution) /\ Guard(s, solution)
  /\ TermOf(r, solution) = TermOf(s, solution)

(* The elements of a concatenation are those of its parts.                 *)
LEMMA ToSetOfConcat ==
  ASSUME NEW S, NEW s \in Seq(S), NEW t \in Seq(S)
  PROVE  ToSet(s \o t) = ToSet(s) \union ToSet(t)
<1>1. /\ DOMAIN s = 1 .. Len(s) /\ Len(s) \in Nat
      /\ DOMAIN t = 1 .. Len(t) /\ Len(t) \in Nat
      /\ DOMAIN (s \o t) = 1 .. Len(s) + Len(t)
      /\ \A k \in 1 .. Len(s) : (s \o t)[k] = s[k]
      /\ \A k \in 1 .. Len(t) : (s \o t)[Len(s) + k] = t[k]
  OBVIOUS
<1> DEFINE u == s \o t
<1>2. ASSUME NEW k \in DOMAIN u PROVE u[k] \in ToSet(s) \union ToSet(t)
  <2>1. CASE k \in 1 .. Len(s)
    BY <1>1, <2>1 DEF ToSet
  <2>2. CASE k \notin 1 .. Len(s)
    <3>1. k - Len(s) \in 1 .. Len(t) /\ k = Len(s) + (k - Len(s))
      BY <1>1, <2>2
    <3>2. u[k] = t[k - Len(s)]
      BY <1>1, <3>1
    <3> QED
      BY <1>1, <3>1, <3>2 DEF ToSet
  <2> QED
    BY <2>1, <2>2
<1>3. ASSUME NEW k \in DOMAIN s PROVE s[k] \in ToSet(u)
  <2>1. k \in DOMAIN u /\ u[k] = s[k]
    BY <1>1
  <2> QED
    BY <2>1 DEF ToSet
<1>4. ASSUME NEW k \in DOMAIN t PROVE t[k] \in ToSet(u)
  <2>1. Len(s) + k \in DOMAIN u /\ u[Len(s) + k] = t[k]
    BY <1>1
  <2> QED
    BY <2>1 DEF ToSet
<1> HIDE DEF u
<1> QED
  <2>1. ToSet(u) = ToSet(s) \union ToSet(t)
    BY <1>2, <1>3, <1>4 DEF ToSet
  <2> QED
    BY <2>1 DEF u

(* By encode_communication_concurrency, an event that communicates and     *)
(* does not wait for ever meets one other event and no more.               *)
LEMMA SomeMeeting ==
  ASSUME IInv, phase = "replay", NEW id \in Ids, Communicates(id), ~Waits(id)
  PROVE  \E r, s : Meeting(r, s) /\ id \in {r, s}
<1>1. PICK p \in Matchables : id \in {p[1], p[2]} /\ Match(p, solution)
  BY DEF Communicates, Waits, Matched, communication_match_disjunction
<1>2. /\ p[1] \in IdsOf(Receive) /\ p[2] \in IdsOf(Send) /\ p = <<p[1], p[2]>>
      /\ \A x \in IdsOf(Receive) : x \notin IdsOf(Send)
  BY DEF Matchables, IdsOf, Receive, Send
<1>3. ExtMatch(solution)
  BY DEF IInv, Solved, encode, encode_communication_concurrency
<1>4. /\ communication_excl(p, solution)
      /\ Guard(p[1], solution) /\ Guard(p[2], solution)
      /\ TermOf(p[1], solution) = TermOf(p[2], solution)
  BY <1>1, <1>3 DEF ExtMatch
<1>5. \A x, y : y \in {p[1], p[2]} /\ x \in Partners(y) => {x, y} = {p[1], p[2]} /\ x # y
  <2> SUFFICES ASSUME NEW x, NEW y \in {p[1], p[2]}, x \in Partners(y)
               PROVE  {x, y} = {p[1], p[2]} /\ x # y
    OBVIOUS
  <2>1. PICK q \in Matchables : {q[1], q[2]} = {x, y} /\ Match(q, solution)
    BY DEF Partners
  <2>2. q[1] \in IdsOf(Receive) /\ q[2] \in IdsOf(Send)
    BY DEF Matchables
  <2>3. q[1] = p[1] \/ q[2] = p[2]
    BY <1>2, <2>1, <2>2
  <2>4. q = p
    BY <1>4, <2>1, <2>3 DEF communication_excl
  <2> QED
    BY <1>2, <2>1, <2>4
<1>6. p[1] \in Partners(p[2]) /\ p[2] \in Partners(p[1])
  <2>1. p[1] \in Ids /\ p[2] \in Ids /\ p[1] # p[2]
    BY <1>2 DEF IdsOf
  <2> QED
    BY <1>1, <2>1 DEF Partners
<1>7. Partners(p[1]) = {p[2]} /\ Partners(p[2]) = {p[1]}
  BY <1>5, <1>6
<1>8. Meeting(p[1], p[2])
  BY <1>1, <1>2, <1>4, <1>7 DEF Meeting, Match
<1> QED
  BY <1>1, <1>8

(* One event is replayed at a time, or a receive with the send it meets.   *)
LEMMA ReadyTogether ==
  ASSUME IInv, phase = "replay", NEW id \in Ready
  PROVE  \/ ~Communicates(id) /\ Together(id) = <<id>>
         \/ \E r, s : /\ Meeting(r, s) /\ id \in {r, s} /\ Together(id) = <<s, r>>
                      /\ r \in Pending /\ s \in Pending
<1>1. id \in Ids /\ ~Waits(id) /\ ToSet(Together(id)) \subseteq Pending
  BY DEF Ready, Pending
<1>2. ASSUME ~Communicates(id) PROVE Together(id) = <<id>>
  BY <1>2 DEF Together, Communicates
<1>3. ASSUME Communicates(id)
      PROVE  \E r, s : /\ Meeting(r, s) /\ id \in {r, s} /\ Together(id) = <<s, r>>
                       /\ r \in Pending /\ s \in Pending
  <2>1. PICK r, s : Meeting(r, s) /\ id \in {r, s}
    BY <1>1, <1>3, SomeMeeting
  <2>2. Together(id) = <<s, r>>
    <3>1. /\ id = r => Partner(id) = s /\ Event(id).kind \notin Send
          /\ id = s => Partner(id) = r /\ Event(id).kind \in Send
      BY <2>1 DEF Meeting, IdsOf, Receive, Send, Partner
    <3> QED
      BY <1>3, <2>1, <3>1 DEF Together, Communicates
  <2>3. ToSet(<<s, r>>) = {s, r}
    BY DEF ToSet
  <2> QED
    BY <1>1, <2>1, <2>2, <2>3
<1> QED
  BY <1>2, <1>3

(* Among some events there is one with the least clock.                    *)
LEMMA FirstClock ==
  ASSUME NEW S, NEW T \in SUBSET S, T # {}, NEW time, \A x \in S : time[x] \in Nat
  PROVE  \E first \in T : \A x \in T : time[first] <= time[x]
<1>1. {time[x] : x \in T} \in SUBSET Nat /\ {time[x] : x \in T} # {}
  OBVIOUS
<1>2. IsWellFoundedOn(OpToRel(<, Nat), Nat)
  BY NatLessThanWellFounded
<1>3. PICK m \in {time[x] : x \in T} :
        \A k \in {time[x] : x \in T} : <<k, m>> \notin OpToRel(<, Nat)
  BY <1>1, <1>2, WFMin
<1>4. \A k \in {time[x] : x \in T} : ~(k < m)
  BY <1>1, <1>3 DEF OpToRel
<1>5. PICK first \in T : m = time[first]
  BY <1>3
<1>6. \A x \in T : time[x] \in Nat /\ ~(time[x] < time[first])
  BY <1>4, <1>5
<1>7. \A x \in T : time[first] <= time[x]
  BY <1>5, <1>6
<1> QED
  BY <1>7

(* No event of the minimal clock has to wait for another one. *)
LEMMA FirstAreReady ==
  ASSUME IInv, ClosedUnder, phase = "replay",
         \A x \in IdsOf(Communication) : ~Waits(x),
         NEW id \in Ids \ ToSet(replayed),
         \A x \in Ids \ ToSet(replayed) : solution.time[id] <= solution.time[x]
  PROVE  id \in Ready
<1> DEFINE time == solution.time
<1>1. DOMAIN time = Ids /\ \A x \in Ids : time[x] \in Nat
  BY DEF IInv, Clocks, Solved
<1>2. ASSUME NEW x \in Ids \ ToSet(replayed), time[x] = time[id]
      PROVE  x \in Pending
  <2>1. \A y \in Predecessors(x) : y \in ToSet(replayed)
    BY <1>1, <1>2, PredecessorsEarlier
  <2>2. ~Waits(x)
    BY DEF Waits, IdsOf
  <2> QED
    BY <2>1, <2>2 DEF Pending
<1>3. CASE ~Communicates(id)
  <2>1. Together(id) = <<id>>
    BY <1>3 DEF Together, Communicates
  <2>2. ToSet(<<id>>) = {id}
    BY DEF ToSet
  <2> QED
    BY <1>2, <2>1, <2>2 DEF Ready
<1>4. CASE Communicates(id)
  <2>1. ~Waits(id)
    BY <1>2 DEF Pending
  <2>2. PICK r, s : Meeting(r, s) /\ id \in {r, s}
    BY <1>4, <2>1, SomeMeeting
  <2>3. r \in Ids /\ s \in Ids /\ time[r] = time[s]
    BY <2>2 DEF Meeting, IdsOf, simultaneous
  <2>4. Communicates(r) /\ Communicates(s) /\ Partners(r) = {s} /\ Partners(s) = {r}
    BY <2>2 DEF Meeting, Communicates, IdsOf, Communication
  <2>5. r \notin ToSet(replayed) /\ s \notin ToSet(replayed)
    BY <2>2, <2>4 DEF ClosedUnder
  <2>6. r \in Pending /\ s \in Pending
    BY <1>2, <2>2, <2>3, <2>5
  <2>7. Together(id) = <<s, r>>
    <3>1. /\ id = r => Partner(id) = s /\ Event(id).kind \notin Send
          /\ id = s => Partner(id) = r /\ Event(id).kind \in Send
      BY <2>2, <2>4 DEF Meeting, IdsOf, Receive, Send, Partner
    <3> QED
      BY <1>4, <2>2, <3>1 DEF Together, Communicates
  <2>8. ToSet(<<s, r>>) = {s, r}
    BY DEF ToSet
  <2> QED
    BY <2>2, <2>6, <2>7, <2>8 DEF Ready
<1> QED
  BY <1>3, <1>4

(* No event is replayed before another one that remains and should be      *)
(* first.                                                                  *)
LEMMA RemainingAreLater ==
  ASSUME IInv, ClosedUnder, phase = "replay",
         \A x \in IdsOf(Communication) : ~Waits(x),
         NEW id \in Ready,
         \A x \in Ready \ {id} : Earlier(id, x) \/ x \in ToSet(Together(id)),
         NEW x \in ToSet(Together(id)),
         NEW y \in (Ids \ ToSet(replayed)) \ ToSet(Together(id))
  PROVE  Precedes(x, y)
<1> DEFINE time == solution.time
           Rest == Ids \ ToSet(replayed)
<1>1. DOMAIN time = Ids /\ \A z \in Ids : time[z] \in Nat
  BY DEF IInv, Clocks, Solved
<1>2. id \in Rest
  BY DEF Ready, Pending
<1>3. PICK first \in Rest : \A z \in Rest : time[first] <= time[z]
  BY <1>1, <1>2, FirstClock
<1>4. first \in Ready
  BY <1>3, FirstAreReady
<1>5. /\ x \in Ids /\ time[x] = time[id] /\ Rank(x) = Rank(id)
      /\ x = id \/ Event(x).kind \in Communication
      /\ \A z \in ToSet(Together(id)) : time[z] = time[id]
  <2>1. CASE ~Communicates(id) /\ Together(id) = <<id>>
    <3>1. ToSet(<<id>>) = {id}
      BY DEF ToSet
    <3> QED
      BY <1>2, <2>1, <3>1
  <2>2. CASE \E r, s : Meeting(r, s) /\ id \in {r, s} /\ Together(id) = <<s, r>>
    <3>1. PICK r, s : Meeting(r, s) /\ id \in {r, s} /\ Together(id) = <<s, r>>
      BY <2>2
    <3>2. ToSet(<<s, r>>) = {s, r}
      BY DEF ToSet
    <3>3. /\ time[r] = time[s] /\ r \in Ids /\ s \in Ids
          /\ Event(r).kind \in Communication /\ Event(s).kind \in Communication
          /\ Rank(r) = 1 /\ Rank(s) = 1
      BY <3>1 DEF Meeting, simultaneous, IdsOf, Communication, Receive, Send, Rank
    <3> QED
      BY <3>1, <3>2, <3>3
  <2> QED
    BY <2>1, <2>2, ReadyTogether
<1>6. time[id] = time[first]
  <2>1. time[first] <= time[id]
    BY <1>2, <1>3
  <2>2. CASE first = id
    BY <2>2
  <2>3. CASE first \in ToSet(Together(id))
    BY <1>5, <2>3
  <2>4. CASE Earlier(id, first)
    <3>1. time[id] <= time[first]
      BY <1>1, <1>2, <1>3, <2>4 DEF Earlier, happens_before, simultaneous
    <3> QED
      BY <1>1, <1>2, <1>3, <2>1, <3>1
  <2> QED
    BY <1>4, <2>2, <2>3, <2>4
<1>7. CASE time[y] = time[id]
  <2>1. y \in Ready
    <3>1. \A z \in Rest : time[y] <= time[z]
      BY <1>3, <1>6, <1>7
    <3> QED
      BY <3>1, FirstAreReady
  <2>2. id \in ToSet(Together(id))
    <3>1. ToSet(<<id>>) = {id}
      BY DEF ToSet
    <3>2. \A r, s : ToSet(<<s, r>>) = {s, r}
      BY DEF ToSet
    <3> QED
      BY <3>1, <3>2, ReadyTogether
  <2>3. Earlier(id, y)
    BY <2>1, <2>2
  <2>4. \/ Rank(id) < Rank(y)
        \/ Rank(id) = Rank(y) /\ Lexicographic(PoppedAt(id), PoppedAt(y))
    BY <1>1, <1>2, <1>7, <2>3 DEF Earlier, happens_before
  <2> QED
    BY <1>5, <1>7, <2>4 DEF Precedes, simultaneous
<1>8. CASE time[y] # time[id]
  <2>1. time[first] <= time[y]
    BY <1>3
  <2>2. time[x] < time[y]
    BY <1>1, <1>2, <1>3, <1>5, <1>6, <1>8, <2>1
  <2> QED
    BY <2>2 DEF Precedes, happens_before
<1> QED
  BY <1>7, <1>8

(* None of this changes while a solution is replayed. *)
LEMMA SameSolution ==
  ASSUME UNCHANGED <<program, query, phase, solution>>
  PROVE  /\ Ids' = Ids
         /\ \A kinds : IdsOf(kinds)' = IdsOf(kinds)
         /\ \A id : Event(id)' = Event(id)
         /\ \A id : Predecessors(id)' = Predecessors(id)
         /\ \A id : Guard(id, solution)' <=> Guard(id, solution)
         /\ \A id : Waits(id)' <=> Waits(id)
         /\ \A id : Partners(id)' = Partners(id)
         /\ \A id : Partner(id)' = Partner(id)
         /\ \A x, y : Precedes(x, y)' <=> Precedes(x, y)
<1>1. /\ \A kinds : IdsOf(kinds)' = IdsOf(kinds)
      /\ \A kind, address : At(kind, address)' = At(kind, address)
      /\ \A id : Event(id)' = Event(id)
      /\ Ids' = Ids
  BY DEF IdsOf, At, Event, Ids
<1>2. \A id : Predecessors(id)' = Predecessors(id)
  BY DEF Predecessors, ThreadsOf, Threads, Position
<1>3. \A id : Guard(id, solution)' <=> Guard(id, solution)
  BY <1>1 DEF Guard, Enabled, Holds
<1>4. Matchables' = Matchables
  BY <1>1 DEF Matchables
<1>5. \A p : Match(p, solution)' <=> Match(p, solution)
  BY DEF Match, simultaneous
<1>6. \A id : Waits(id)' <=> Waits(id)
  BY <1>1, <1>3, <1>4, <1>5 DEF Waits, Matched, communication_match_disjunction
<1>7. \A id : Partners(id)' = Partners(id)
  BY <1>1, <1>4, <1>5 DEF Partners
<1>11. \A id : Partner(id)' = Partner(id)
  <2>1. \A S, T : S = T => (CHOOSE p \in S : TRUE) = (CHOOSE p \in T : TRUE)
    OBVIOUS
  <2>2. ASSUME NEW id PROVE Partner(id)' = Partner(id)
    BY <1>7, <2>1 DEF Partner
  <2> QED
    BY <2>2
<1>8. \A id : Rank(id)' = Rank(id)
  BY <1>1 DEF Rank
<1>9. \A id : PoppedAt(id)' = PoppedAt(id)
  <2>1. \A id : PopsOf(id)' = PopsOf(id)
    BY <1>1 DEF PopsOf
  <2>2. \A S, T : S = T => (CHOOSE p \in S : TRUE) = (CHOOSE p \in T : TRUE)
    OBVIOUS
  <2>3. ASSUME NEW id PROVE PoppedAt(id)' = PoppedAt(id)
    <3>1. PopsOf(id)' = PopsOf(id) /\ Event(id)' = Event(id)
      BY <1>1, <2>1
    <3>2. (CHOOSE p \in PopsOf(id)' : TRUE) = (CHOOSE p \in PopsOf(id) : TRUE)
      BY <2>2, <3>1
    <3> QED
      BY <3>1, <3>2 DEF PoppedAt
  <2> QED
    BY <2>3
<1>10. \A x, y : Precedes(x, y)' <=> Precedes(x, y)
  BY <1>1, <1>8, <1>9 DEF Precedes, happens_before, simultaneous, Lexicographic
<1> QED
  BY <1>1, <1>2, <1>3, <1>6, <1>7, <1>10, <1>11

(* A step of the replay preserves the invariant.                           *)
LEMMA ReplayReplayInv ==
  ASSUME IInv, ReplayInv, Replay
  PROVE  ReplayInv'
<1>1. /\ phase = "replay" /\ IsPromised
      /\ UNCHANGED <<program, query, phase, solution>>
  BY DEF Replay
<1>2. PICK id \in Ready :
        /\ \A x \in Ready \ {id} : Earlier(id, x) \/ x \in ToSet(Together(id))
        /\ replayed' = replayed \o Together(id)
  BY DEF Replay
<1> DEFINE R == ToSet(replayed)
           N == ToSet(Together(id))
<1>3. /\ replayed \in Seq(Ids)
      /\ R = {replayed[k] : k \in DOMAIN replayed}
      /\ R \subseteq Ids
  BY DEF IInv, Shape, ToSet
<1>4. /\ Together(id) \in Seq(Ids)
      /\ N = {Together(id)[k] : k \in DOMAIN Together(id)}
      /\ N \subseteq Pending
      /\ \A j, k \in DOMAIN Together(id) : Together(id)[j] = Together(id)[k] => j = k
      /\ \A x \in N : Communicates(x) => Partners(x) \subseteq N
      /\ \A j, k \in DOMAIN Together(id) :
           j < k => Precedes(Together(id)[j], Together(id)[k])
  <2>1. N \subseteq Pending /\ id \in Ids
    BY DEF Ready, Pending
  <2>2. CASE ~Communicates(id) /\ Together(id) = <<id>>
    <3>1. N = {id}
      BY <2>2 DEF ToSet
    <3> QED
      BY <2>1, <2>2, <3>1 DEF ToSet
  <2>3. CASE \E r, s : Meeting(r, s) /\ id \in {r, s} /\ Together(id) = <<s, r>>
    <3>1. PICK r, s : Meeting(r, s) /\ id \in {r, s} /\ Together(id) = <<s, r>>
      BY <2>3
    <3>2. N = {s, r}
      BY <3>1 DEF ToSet
    <3>3. /\ r \in Ids /\ s \in Ids /\ r # s /\ Partners(r) = {s} /\ Partners(s) = {r}
          /\ solution.time[s] = solution.time[r]
          /\ Event(s).kind \in Communication
          /\ Rank(r) = 1 /\ Rank(s) = 1
      BY <3>1 DEF Meeting, simultaneous, IdsOf, Communication, Receive, Send, Rank
    <3>4. Precedes(s, r)
      BY <3>3 DEF Precedes, simultaneous
    <3>5. DOMAIN Together(id) = 1 .. 2 /\ Together(id)[1] = s /\ Together(id)[2] = r
      BY <3>1
    <3>6. Together(id) \in Seq(Ids)
      BY <3>1, <3>3
    <3> QED
      BY <2>1, <3>2, <3>3, <3>4, <3>5, <3>6
  <2> QED
    BY <1>1, <2>2, <2>3, ReadyTogether
<1> DEFINE T == Together(id)
<1> HIDE DEF T
<1>5. /\ DOMAIN replayed = 1 .. Len(replayed) /\ Len(replayed) \in Nat
      /\ DOMAIN T = 1 .. Len(T) /\ Len(T) \in Nat
      /\ DOMAIN replayed' = 1 .. Len(replayed) + Len(T)
      /\ \A k \in 1 .. Len(replayed) : replayed'[k] = replayed[k]
      /\ \A k \in Len(replayed) + 1 .. Len(replayed) + Len(T) :
           k - Len(replayed) \in DOMAIN T /\ replayed'[k] = T[k - Len(replayed)]
  BY <1>2, <1>3, <1>4 DEF T
<1>6. ToSet(replayed)' = R \union N
  <2>1. \A s, t \in Seq(Ids) : ToSet(s \o t) = ToSet(s) \union ToSet(t)
    BY ToSetOfConcat
  <2>2. ToSet(replayed)' = ToSet(replayed \o Together(id))
    BY <1>2 DEF ToSet
  <2> QED
    BY <1>3, <1>4, <2>1, <2>2
<1>7. R \intersect N = {}
  BY <1>4 DEF Pending
<1>8. Once'
  <2>1. SUFFICES ASSUME NEW j \in DOMAIN replayed', NEW k \in DOMAIN replayed',
                        replayed'[j] = replayed'[k]
                 PROVE  j = k
    BY DEF Once
  <2>2. \A i \in DOMAIN replayed' :
          \/ i \in 1 .. Len(replayed) /\ replayed'[i] = replayed[i] /\ replayed[i] \in R
          \/ /\ i \in Len(replayed) + 1 .. Len(replayed) + Len(T)
             /\ i - Len(replayed) \in DOMAIN T /\ replayed'[i] = T[i - Len(replayed)]
             /\ T[i - Len(replayed)] \in N
    BY <1>3, <1>4, <1>5 DEF T
  <2>3. CASE j \in 1 .. Len(replayed) /\ k \in 1 .. Len(replayed)
    BY <1>5, <2>1, <2>3 DEF ReplayInv, Once
  <2>4. CASE /\ j \in Len(replayed) + 1 .. Len(replayed) + Len(T)
             /\ k \in Len(replayed) + 1 .. Len(replayed) + Len(T)
    <3>1. j - Len(replayed) = k - Len(replayed)
      BY <1>4, <1>5, <2>1, <2>4 DEF T
    <3> QED
      BY <1>5, <2>4, <3>1
  <2> QED
    BY <1>5, <1>7, <2>1, <2>2, <2>3, <2>4
<1>9. ClosedUnder'
  <2>1. SUFFICES ASSUME NEW x \in R \union N
                 PROVE  /\ Predecessors(x) \subseteq R \union N
                        /\ ~Waits(x)
                        /\ Communicates(x) => Partners(x) \subseteq R \union N
    <3>1. \A x : /\ Predecessors(x)' = Predecessors(x)
                 /\ Waits(x)' <=> Waits(x)
                 /\ Communicates(x)' <=> Communicates(x)
                 /\ Partners(x)' = Partners(x)
      BY <1>1, SameSolution DEF Communicates
    <3> QED
      BY <1>6, <2>1, <3>1 DEF ClosedUnder
  <2>2. CASE x \in R
    BY <2>2 DEF ReplayInv, ClosedUnder
  <2>3. CASE x \in N
    BY <1>4, <2>3 DEF Pending
  <2> QED
    BY <2>2, <2>3
<1>10. ASSUME query # "check_deadlock"
       PROVE  /\ \A x \in R \union N, y \in Ids \ (R \union N) : Precedes(x, y)
              /\ \A j, k \in DOMAIN replayed' : j < k => Precedes(replayed'[j], replayed'[k])
  <2>1. \A x \in IdsOf(Communication) : ~Waits(x)
    BY <1>1, <1>10 DEF IsPromised
  <2>2. /\ \A x \in R, y \in Ids \ R : Precedes(x, y)
        /\ \A j, k \in DOMAIN replayed : j < k => Precedes(replayed[j], replayed[k])
    BY <1>10 DEF ReplayInv, InOrder
  <2>3. \A x \in N, y \in (Ids \ R) \ N : Precedes(x, y)
    BY <1>1, <1>2, <2>1, RemainingAreLater DEF ReplayInv
  <2>4. ASSUME NEW j \in DOMAIN replayed', NEW k \in DOMAIN replayed', j < k
        PROVE  Precedes(replayed'[j], replayed'[k])
    <3>1. CASE k \in 1 .. Len(replayed)
      BY <1>5, <2>2, <2>4, <3>1
    <3>2. CASE /\ j \in 1 .. Len(replayed)
               /\ k \in Len(replayed) + 1 .. Len(replayed) + Len(T)
      <4>1. replayed'[j] \in R /\ replayed'[k] \in N
        BY <1>3, <1>4, <1>5, <3>2 DEF T
      <4>2. N \subseteq Ids \ R
        BY <1>4 DEF Pending
      <4> QED
        BY <2>2, <4>1, <4>2
    <3>3. CASE /\ j \in Len(replayed) + 1 .. Len(replayed) + Len(T)
               /\ k \in Len(replayed) + 1 .. Len(replayed) + Len(T)
      <4>1. j - Len(replayed) < k - Len(replayed)
        BY <1>5, <2>4, <3>3
      <4> QED
        BY <1>4, <1>5, <3>3, <4>1 DEF T
    <3> QED
      BY <1>5, <2>4, <3>1, <3>2, <3>3
  <2> QED
    BY <2>2, <2>3, <2>4
<1>11. InOrder'
  <2>1. \A x, y : Precedes(x, y)' <=> Precedes(x, y)
    BY <1>1, SameSolution
  <2>2. Ids' = Ids
    BY <1>1, SameSolution
  <2> QED
    BY <1>1, <1>6, <1>10, <2>1, <2>2 DEF InOrder
<1> QED
  BY <1>1, <1>8, <1>9, <1>11 DEF ReplayInv

(* Initially nothing is replayed.                                          *)
LEMMA NothingReplayed ==
  ASSUME replayed = << >>
  PROVE  Once /\ ClosedUnder /\ InOrder /\ ToSet(replayed) = {}
<1>1. DOMAIN replayed = {} /\ ToSet(replayed) = {}
  BY DEF ToSet
<1> QED
  BY <1>1 DEF Once, ClosedUnder, InOrder

(* However a solution is replayed, whole threads up to some point have     *)
(* been and nothing that waits, and events that are replayed come in their *)
(* order, with none left out.                                              *)
THEOREM ReplayInvariant == Spec => []ReplayInv
<1>1. Init => ReplayInv
  BY NothingReplayed DEF Init, ReplayInv
<1>2. IInv /\ IInv' /\ ReplayInv /\ [Next]_vars => ReplayInv'
  <2> SUFFICES ASSUME IInv, IInv', ReplayInv, [Next]_vars PROVE ReplayInv'
    OBVIOUS
  <2>1. CASE phase = "clocks" /\ (UNCHANGED vars \/ Solve \/ \E ids : Tick(ids))
    <3>1. replayed' = << >>
      BY <2>1 DEF ReplayInv, vars, Solve, Tick
    <3>2. DOMAIN replayed' = {} /\ ToSet(replayed)' = {}
      BY <3>1 DEF ToSet
    <3> QED
      BY <3>1, <3>2 DEF ReplayInv, Once, ClosedUnder, InOrder
  <2>2. CASE phase = "replay" /\ UNCHANGED vars
    <3>1. UNCHANGED <<program, query, phase, solution, replayed>>
      BY <2>2 DEF vars
    <3>2. ToSet(replayed)' = ToSet(replayed)
      BY <3>1
    <3>3. Once' /\ ClosedUnder' /\ InOrder'
      BY <3>1, <3>2, SameSolution DEF ReplayInv, Once, ClosedUnder, InOrder, Communicates
    <3> QED
      BY <2>2, <3>1, <3>3 DEF ReplayInv
  <2>3. CASE Replay
    BY <2>3, ReplayReplayInv
  <2>4. \/ phase = "clocks" /\ (UNCHANGED vars \/ Solve \/ \E ids : Tick(ids))
        \/ phase = "replay" /\ UNCHANGED vars
        \/ Replay
    BY DEF Next, IInv, Shape, Tick, Solve
  <2> QED
    BY <2>1, <2>2, <2>3, <2>4
<1> QED
  BY <1>1, <1>2, SolutionInvariant, PTL DEF Spec

-----------------------------------------------------------------------------
(* An event of one thread that has come to it.                             *)
Reached(id) ==
  /\ id \in Ids
  /\ Event(id).kind \notin Sync
  /\ Predecessors(id) \subseteq ToSet(replayed)

(* Events before another one in a thread are predecessors of it.           *)
LEMMA BeforeIsPredecessor ==
  ASSUME program \in Programs, NEW t \in Threads, NEW x, NEW y, Before(program, t, x, y)
  PROVE  x \in Predecessors(y)
<1>1. PICK j, k \in DOMAIN program.threads[t] :
        /\ j < k
        /\ program.threads[t][j].event_id = x
        /\ program.threads[t][k].event_id = y
  BY DEF Before
<1>2. /\ DOMAIN program.threads[t] = 1 .. Len(program.threads[t])
      /\ Len(program.threads[t]) \in Nat
  BY ThreadsAreSequences
<1>3. t \in ThreadsOf(y)
  BY <1>1 DEF ThreadsOf, ToSet
<1>4. Position(t, y) = k
  <2>1. \A i \in DOMAIN program.threads[t] : program.threads[t][i].event_id = y => i = k
    BY <1>1, ProgramsAssumption DEF Threads
  <2>2. \A i : i \in DOMAIN program.threads[t] /\ program.threads[t][i].event_id = y <=> i = k
    BY <1>1, <2>1
  <2> QED
    BY <2>2 DEF Position
<1>5. j \in 1 .. Position(t, y) - 1
  BY <1>1, <1>2, <1>4
<1> QED
  BY <1>1, <1>3, <1>5 DEF Predecessors

(* What an event is guarded by, or uses, has been replayed before it.      *)
LEMMA InScopeIsReplayed ==
  ASSUME IInv, ReplayInv, phase = "replay", NEW id, Reached(id), Guard(id, solution),
         NEW x, InScope(program, x, id)
  PROVE  x \in HaveRead(IdsOf(Reading))
<1> DEFINE R == ToSet(replayed)
<1>1. /\ x \in IdsOf(Reading) /\ Event(x).guard \subseteq Event(id).guard
      /\ ComesBefore(program, x, id)
  BY DEF InScope, IdsOf, Ids, Event
<1>2. Guard(x, solution)
  BY <1>1 DEF Guard, Enabled, Holds
<1>3. R \subseteq Ids /\ id \in Ids
  BY DEF IInv, Shape, ToSet, Reached
<1>4. \A t \in Threads : \A y, z : Before(program, t, y, z) => y \in Predecessors(z)
  BY BeforeIsPredecessor DEF IInv, Shape
<1>5. CASE \E t \in DOMAIN program.threads : Before(program, t, x, id)
  BY <1>1, <1>2, <1>4, <1>5 DEF Threads, Reached, HaveRead
<1>6. CASE /\ x # id
           /\ \A ids \in SUBSET DOMAIN program.event :
                ClosedDownwards(program, ids) /\ id \in ids => x \in ids
  <2>1. R \union {id} \in SUBSET DOMAIN program.event
    BY <1>3 DEF Ids
  <2>2. ClosedDownwards(program, R \union {id})
    BY <1>4 DEF ClosedDownwards, ReplayInv, ClosedUnder, Reached, Threads
  <2>3. x \in R
    BY <1>6, <2>1, <2>2
  <2> QED
    BY <1>1, <1>2, <2>3 DEF HaveRead
<1> QED
  BY <1>1, <1>5, <1>6 DEF ComesBefore

(* The variables of the machine have the values of the solution.           *)
LEMMA ReplayedValues ==
  /\ DOMAIN ReplayedVal = HaveRead(IdsOf(Reading)) \union {Input}
  /\ \A x \in DOMAIN ReplayedVal : ReplayedVal[x] = solution.val[x]
  /\ DOMAIN ReplayedFlow = HaveRead(IdsOf(Reading))
BY DEF ReplayedVal, ReplayedFlow

(* In the machine an event happens if and only if its guard holds in the   *)
(* solution.                                                               *)
LEMMA SameGuard ==
  ASSUME IInv, ReplayInv, phase = "replay", NEW id, Reached(id)
  PROVE  Enabled(id, ReplayedVal) <=> Guard(id, solution)
<1>1. id \in Ids /\ Event(id).kind \notin Sync /\ program \in Programs
  BY DEF Reached, IInv, Shape
<1>2. OwnDataOnly(program, id, Event(id))
  BY <1>1, DataFlowAssumption DEF Ids, Event
<1>3. DOMAIN solution.val = Variables
  BY DEF IInv, Solved
<1>4. DOMAIN ReplayedVal \subseteq Variables
  BY ReplayedValues DEF HaveRead, Variables
<1>5. ASSUME Enabled(id, ReplayedVal) PROVE Guard(id, solution)
  BY <1>3, <1>4, <1>5, ReplayedValues DEF Enabled, Guard, Holds
<1>6. ASSUME Guard(id, solution) PROVE Enabled(id, ReplayedVal)
  <2>1. \A eq \in Event(id).guard : eq[1] = Input \/ InScope(program, eq[1], id)
    BY <1>2 DEF OwnDataOnly
  <2>2. \A eq \in Event(id).guard : eq[1] \in DOMAIN ReplayedVal
    BY <1>6, <2>1, InScopeIsReplayed, ReplayedValues
  <2> QED
    BY <1>6, <2>2, ReplayedValues DEF Enabled, Guard, Holds
<1> QED
  BY <1>5, <1>6

(* What an event writes in the machine is its term in the solution.        *)
LEMMA SameTerm ==
  ASSUME IInv, ReplayInv, phase = "replay", NEW id, Reached(id), Guard(id, solution),
         NEW term, TermInScope(program, term, id)
  PROVE  Eval(term, ReplayedVal) = Eval(term, solution.val)
<1>1. term.var = -1 \/ term.var \in DOMAIN ReplayedVal
  BY InScopeIsReplayed, ReplayedValues DEF TermInScope
<1> QED
  BY <1>1, ReplayedValues DEF Eval

(* The last of some events, by their places in what has been replayed.     *)
LEMMA LastOfIs ==
  ASSUME IInv, NEW ids, NEW k \in DOMAIN replayed, replayed[k] \in ids,
         \A j \in DOMAIN replayed : replayed[j] \in ids => j <= k
  PROVE  Machine!LastOf(ids) = replayed[k]
<1> DEFINE times == {j \in DOMAIN replayed : replayed[j] \in ids}
<1>1. k \in times /\ (\A j \in times : j <= k) /\ times \subseteq Int
  BY DEF IInv, Shape
<1> HIDE DEF times
<1>2. Machine!Max(times) = k
  <2>1. \A x \in times : (\A y \in times : x >= y) <=> x = k
    BY <1>1
  <2> QED
    BY <1>1, <2>1 DEF Machine!Max
<1> QED
  BY <1>1, <1>2 DEF Machine!LastOf, times

(* There is no last one of events none of which has been replayed.         *)
LEMMA LastOfNone ==
  ASSUME NEW ids, ids \intersect ToSet(replayed) = {}
  PROVE  Machine!LastOf(ids) = 0
<1>1. {j \in DOMAIN replayed : replayed[j] \in ids} = {}
  BY DEF ToSet
<1> QED
  BY <1>1 DEF Machine!LastOf

(* What a replayed step adds to the variables of the machine *)
LEMMA NothingRead ==
  ASSUME UNCHANGED <<program, query, phase, solution>>,
         NEW N, ToSet(replayed)' = ToSet(replayed) \union N,
         \A x \in N : x \notin IdsOf(Reading) \/ ~Guard(x, solution)
  PROVE  ReplayedVal' = ReplayedVal /\ ReplayedFlow' = ReplayedFlow
<1>1. /\ IdsOf(Reading)' = IdsOf(Reading) /\ Reads' = Reads
      /\ \A id : Guard(id, solution)' <=> Guard(id, solution)
      /\ \A id : Partner(id)' = Partner(id)
  BY SameSolution, SameVariables
<1> DEFINE H == HaveRead(IdsOf(Reading))
<1>2. HaveRead(IdsOf(Reading))' = H
  BY <1>1 DEF HaveRead
<1> QED
  BY <1>1, <1>2 DEF ReplayedVal, ReplayedFlow

(* An event that reads adds its value and what it reads from.              *)
LEMMA OneRead ==
  ASSUME UNCHANGED <<program, query, phase, solution>>,
         NEW N, ToSet(replayed)' = ToSet(replayed) \union N,
         NEW id \in N, id \in IdsOf(Reading), Guard(id, solution),
         \A x \in N : x = id \/ x \notin IdsOf(Reading)
  PROVE  /\ ReplayedVal' = Machine!With(ReplayedVal, id, solution.val[id])
         /\ ReplayedFlow' = Machine!With(ReplayedFlow, id,
              IF id \in Reads THEN solution.flow[id] ELSE Partner(id))
<1>1. /\ IdsOf(Reading)' = IdsOf(Reading) /\ Reads' = Reads
      /\ \A x : Guard(x, solution)' <=> Guard(x, solution)
      /\ \A x : Partner(x)' = Partner(x)
  BY SameSolution, SameVariables
<1> DEFINE H == HaveRead(IdsOf(Reading))
<1>2. HaveRead(IdsOf(Reading))' = H \union {id}
  BY <1>1 DEF HaveRead
<1> HIDE DEF H
<1>3. ReplayedVal' = [x \in (H \union {id}) \union {Input} |-> solution.val[x]]
  BY <1>2 DEF ReplayedVal
<1>4. ReplayedFlow' = [x \in H \union {id} |->
                         IF x \in Reads THEN solution.flow[x] ELSE Partner(x)]
  BY <1>1, <1>2 DEF ReplayedFlow
<1>5. /\ ReplayedVal = [x \in H \union {Input} |-> solution.val[x]]
      /\ ReplayedFlow = [x \in H |-> IF x \in Reads THEN solution.flow[x] ELSE Partner(x)]
  BY DEF ReplayedVal, ReplayedFlow, H
<1>6. ReplayedVal' = Machine!With(ReplayedVal, id, solution.val[id])
  BY <1>3, <1>5 DEF Machine!With
<1>7. ReplayedFlow' = Machine!With(ReplayedFlow, id,
                        IF id \in Reads THEN solution.flow[id] ELSE Partner(id))
  BY <1>4, <1>5 DEF Machine!With
<1> QED
  BY <1>6, <1>7

-----------------------------------------------------------------------------
(* What an event reads from in a solution is what it reads from in the     *)
(* machine.                                                                *)

(* An event that is about to be replayed, and no other one has to be before*)
Turn(id) ==
  /\ Reached(id) /\ id \notin ToSet(replayed)
  /\ Guard(id, solution)
  /\ \A y \in (Ids \ ToSet(replayed)) \ {id} : Precedes(id, y)

(* Events have an effect in the machine if their guard holds in the        *)
(* solution.                                                               *)
LEMMA Effects ==
  ASSUME IInv, ReplayInv, phase = "replay",
         NEW kind, kind \notin Sync, NEW address
  PROVE  Machine!Effective(Machine!At(kind, address))
           = {x \in At(kind, address) \intersect ToSet(replayed) : Guard(x, solution)}
<1>1. \A x \in At(kind, address) \intersect ToSet(replayed) :
        Enabled(x, ReplayedVal) <=> Guard(x, solution)
  <2> SUFFICES ASSUME NEW x \in At(kind, address) \intersect ToSet(replayed)
               PROVE  Enabled(x, ReplayedVal) <=> Guard(x, solution)
    OBVIOUS
  <2>1. Reached(x)
    BY DEF At, Reached, ReplayInv, ClosedUnder
  <2> QED
    BY <2>1, SameGuard
<1>2. Machine!Happened = ToSet(replayed)
  BY DEF Machine!Happened, Machine!ToSet, ToSet
<1> QED
  BY <1>1, <1>2, MachineOps DEF Machine!Effective

(* What the order of the replay says about an event whose turn it is.      *)
LEMMA OrderOfTurn ==
  ASSUME IInv, ReplayInv, phase = "replay", query # "check_deadlock", NEW id, Turn(id)
  PROVE  /\ id \in Ids /\ ToSet(replayed) \subseteq Ids
         /\ \A x \in Ids : solution.time[x] \in Nat
         /\ \A x \in Ids : Rank(x) \in 0 .. 2
         /\ \A x \in ToSet(replayed) :
              \/ solution.time[x] < solution.time[id]
              \/ solution.time[x] = solution.time[id] /\ Rank(x) <= Rank(id)
         /\ \A x \in Ids \ ToSet(replayed) :
              \/ solution.time[id] < solution.time[x]
              \/ solution.time[x] = solution.time[id] /\ Rank(id) <= Rank(x)
         /\ \A j, k \in DOMAIN replayed :
              j < k => \/ solution.time[replayed[j]] < solution.time[replayed[k]]
                       \/ /\ solution.time[replayed[j]] = solution.time[replayed[k]]
                          /\ Rank(replayed[j]) <= Rank(replayed[k])
<1>1. /\ id \in Ids /\ id \notin ToSet(replayed) /\ ToSet(replayed) \subseteq Ids
      /\ \A x \in Ids : solution.time[x] \in Nat
      /\ \A x \in Ids : Rank(x) \in 0 .. 2
  BY DEF Turn, Reached, IInv, Shape, Clocks, Solved, ToSet, Rank
<1>2. \A x, y \in Ids : Precedes(x, y) =>
         \/ solution.time[x] < solution.time[y]
         \/ solution.time[x] = solution.time[y] /\ Rank(x) <= Rank(y)
  BY <1>1 DEF Precedes, happens_before, simultaneous
<1>3. \A x \in ToSet(replayed) : Precedes(x, id)
  BY <1>1 DEF ReplayInv, InOrder
<1>4. \A j, k \in DOMAIN replayed :
        j < k => Precedes(replayed[j], replayed[k]) /\ replayed[j] \in Ids /\ replayed[k] \in Ids
  BY DEF ReplayInv, InOrder, IInv, Shape
<1>5. \A x \in Ids \ ToSet(replayed) : x = id \/ Precedes(id, x)
  BY DEF Turn
<1> QED
  BY <1>1, <1>2, <1>3, <1>4, <1>5

(* By encode_read_from, a read gets the last write before it.  This is     *)
(* where a write has to be replayed before a read of the same clock.       *)
LEMMA ReadsLastWrite ==
  ASSUME IInv, ReplayInv, phase = "replay", query # "check_deadlock",
         NEW id, Turn(id), Event(id).kind = "read"
  PROVE  /\ solution.flow[id] \in At("write", Event(id).address) \intersect ToSet(replayed)
         /\ Machine!LastWrite(Event(id).address) = solution.flow[id]
         /\ Guard(solution.flow[id], solution)
         /\ TermOf(solution.flow[id], solution) = TermOf(id, solution)
<1> DEFINE time == solution.time
           R == ToSet(replayed)
           W == At("write", Event(id).address)
<1>1. /\ id \in Ids /\ R \subseteq Ids /\ \A x \in Ids : time[x] \in Nat
      /\ W \subseteq Ids /\ \A x \in W : Rank(x) = 0
      /\ Rank(id) = 1 /\ id \notin W /\ id \in IdsOf({"read"})
  BY OrderOfTurn DEF At, Rank, IdsOf
<1>2. /\ \E w \in W : FlowBool(w, id, solution)
      /\ \E sup \in ClockValues(solution) : SupTime(id, sup, solution)
  BY <1>1 DEF Turn, IInv, Solved, encode, encode_memory_concurrency, encode_read_from
<1>3. PICK w \in W : solution.flow[id] = w
  BY <1>2 DEF FlowBool
<1>4. PICK sup : SupTime(id, sup, solution)
  BY <1>2
<1>5. /\ Guard(w, solution) /\ time[w] <= time[id] /\ sup = time[w]
      /\ TermOf(w, solution) = TermOf(id, solution)
      /\ \A x \in W : time[x] <= time[id] /\ Guard(x, solution) => time[x] <= sup
  BY <1>3, <1>4 DEF SupTime, FlowBool, simultaneous_or_happens_before
<1>6. \A x \in W : time[x] = time[w] => x = w
  <2>1. Event(id).address \in AddressesOf("write")
    BY <1>3 DEF AddressesOf, IdsOf, At
  <2>2. IsInjective([x \in W |-> time[x]])
    BY <2>1 DEF IInv, Solved, encode, encode_memory_concurrency, encode_write_serialization
  <2> QED
    BY <1>3, <2>2 DEF IsInjective
<1>7. w \in R
  BY <1>1, <1>3, <1>5, OrderOfTurn
<1>8. PICK k \in DOMAIN replayed : replayed[k] = w
  BY <1>7 DEF ToSet
<1> DEFINE E == Machine!Effective(Machine!At("write", Event(id).address))
<1>9. E = {x \in W \intersect R : Guard(x, solution)}
  BY Effects DEF Sync
<1>10. \A j \in DOMAIN replayed : replayed[j] \in E => j <= k
  <2> SUFFICES ASSUME NEW j \in DOMAIN replayed, replayed[j] \in E, k < j PROVE FALSE
    BY <1>8 DEF IInv, Shape
  <2>1. replayed[j] \in W /\ replayed[j] \in R /\ Guard(replayed[j], solution)
    BY <1>9
  <2>2. time[replayed[j]] <= time[id]
    BY <1>1, <2>1, OrderOfTurn
  <2>3. time[replayed[j]] <= time[w]
    BY <1>5, <2>1, <2>2
  <2>4. time[w] <= time[replayed[j]]
    BY <1>1, <1>8, <2>1, OrderOfTurn
  <2>5. replayed[j] = w
    BY <1>1, <1>3, <1>6, <2>1, <2>3, <2>4
  <2>6. j = k
    BY <1>8, <2>5 DEF ReplayInv, Once
  <2> QED
    BY <2>6 DEF IInv, Shape
<1>11. w \in E
  BY <1>5, <1>7, <1>9
<1>12. Machine!LastOf(E) = w
  <2> HIDE DEF E
  <2> QED
    BY <1>8, <1>10, <1>11, LastOfIs
<1> QED
  BY <1>3, <1>5, <1>7, <1>12 DEF Machine!LastWrite

(* The pop of a push that is not at its turn yet.                          *)
LEMMA NotPopped ==
  ASSUME IInv, ReplayInv, phase = "replay",
         \A x \in IdsOf(Communication) : ~Waits(x),
         NEW id, Turn(id), Event(id).kind = "pop",
         NEW q \in DOMAIN ReplayedFlow
  PROVE  ReplayedFlow[q] # solution.flow[id]
<1> DEFINE u == solution.flow[id]
<1>1. id \in Ids /\ id \notin ToSet(replayed) /\ Guard(id, solution)
  BY DEF Turn, Reached
<1>2. encode_pop_from(solution) /\ encode_pop_from_injectivity(solution)
  BY DEF IInv, Solved, encode, encode_stack_api
<1>3. u \in At("push", Event(id).address)
  BY <1>1, <1>2 DEF encode_pop_from, FlowBool, IdsOf
<1>4. /\ q \in IdsOf(Reading) /\ q \in ToSet(replayed) /\ Guard(q, solution)
      /\ q # id
      /\ ReplayedFlow[q] = IF q \in Reads THEN solution.flow[q] ELSE Partner(q)
  BY <1>1 DEF ReplayedFlow, HaveRead
<1>5. CASE q \notin Reads
  <2>1. Event(q).kind \in Receive /\ q \in Ids
    BY <1>4, <1>5 DEF Reads, IdsOf, Reading
  <2>2. Communicates(q) /\ ~Waits(q)
    BY <1>4, <2>1 DEF Communicates, Communication, IdsOf
  <2>3. PICK r, s : Meeting(r, s) /\ q \in {r, s}
    BY <2>1, <2>2, SomeMeeting
  <2>4. Partner(q) = s /\ Event(s).kind \in Send
    BY <2>1, <2>3 DEF Meeting, IdsOf, Send, Receive, Partner
  <2> QED
    BY <1>3, <1>4, <1>5, <2>4 DEF At, Send
<1>6. CASE Event(q).kind = "pop"
  <2>1. q \in IdsOf({"pop"}) /\ q \in Reads /\ id \in IdsOf({"pop"})
    BY <1>1, <1>4, <1>6 DEF IdsOf, Reads
  <2>2. SUFFICES ASSUME solution.flow[q] = u PROVE FALSE
    BY <1>4, <2>1
  <2>3. PICK push \in At("push", Event(q).address) : solution.flow[q] = push
    BY <1>2, <2>1 DEF encode_pop_from, FlowBool
  <2>4. Event(q).address = Event(id).address
    BY <1>3, <2>2, <2>3 DEF At
  <2>5. /\ q \in At("pop", Event(id).address) /\ id \in At("pop", Event(id).address)
        /\ Event(id).address \in AddressesOf("pop")
    BY <1>1, <1>4, <1>6, <2>1, <2>4 DEF At, AddressesOf, IdsOf
  <2>6. IsInjective([pop \in At("pop", Event(id).address) |-> solution.flow[pop]])
    BY <1>2, <2>5 DEF encode_pop_from_injectivity
  <2>7. q = id
    BY <2>2, <2>5, <2>6 DEF IsInjective
  <2> QED
    BY <1>4, <2>7
<1>7. CASE q \in Reads /\ Event(q).kind # "pop"
  <2>1. solution.flow[q] \in Sources(q)
    BY <1>7 DEF IInv, Solved, Flows
  <2>2. Event(q).kind \in {"read", "load"}
    BY <1>7 DEF Reads, IdsOf
  <2>3. u \notin Sources(q)
    <3>1. u # 0
      BY <1>3, ProgramsAssumption DEF At, Ids, IInv, Shape
    <3> QED
      BY <1>3, <2>2, <3>1 DEF Sources, SourceKind, At
  <2> QED
    BY <1>4, <1>7, <2>1, <2>3
<1> QED
  BY <1>5, <1>6, <1>7

(* By encode_stack_api, a pop takes the push on top of the stack: one      *)
(* pushed later and not popped yet would contradict the lifo order, and of *)
(* two pushes at the same time the one popped first is on top.             *)
LEMMA PopsTop ==
  ASSUME IInv, ReplayInv, phase = "replay", query # "check_deadlock",
         \A x \in IdsOf(Communication) : ~Waits(x),
         NEW id, Turn(id), Event(id).kind = "pop"
  PROVE  /\ solution.flow[id] \in At("push", Event(id).address) \intersect ToSet(replayed)
         /\ Machine!LastOf(Machine!StackAt(Event(id).address)) = solution.flow[id]
         /\ Guard(solution.flow[id], solution)
         /\ TermOf(solution.flow[id], solution) = TermOf(id, solution)
<1> DEFINE time == solution.time
           R == ToSet(replayed)
           a == Event(id).address
           u == solution.flow[id]
<1>1. /\ id \in Ids /\ id \notin R /\ R \subseteq Ids /\ \A x \in Ids : time[x] \in Nat
      /\ At("push", a) \subseteq Ids /\ \A x \in At("push", a) : Rank(x) = 2
      /\ \A x \in At("pop", a) : Rank(x) = 1
      /\ Rank(id) = 1 /\ id \in At("pop", a) /\ id \in IdsOf({"pop"})
      /\ At("pop", a) \subseteq IdsOf({"pop"}) /\ At("pop", a) \subseteq Ids
  BY OrderOfTurn DEF At, Rank, IdsOf, Turn
<1>2. /\ encode_pop_from(solution) /\ encode_pop_from_injectivity(solution)
      /\ encode_stack_lifo_order(solution)
  BY DEF IInv, Solved, encode, encode_stack_api
<1>3. \A q \in At("pop", a) : \A push \in At("push", a) : solution.flow[q] = push =>
        /\ time[push] < time[q] /\ Guard(q, solution) /\ Guard(push, solution)
        /\ TermOf(push, solution) = TermOf(q, solution)
  BY <1>1, <1>2 DEF encode_pop_from, FlowBool, happens_before, At
<1>4. u \in At("push", a)
  BY <1>1, <1>2 DEF encode_pop_from, FlowBool
<1>5. /\ time[u] < time[id] /\ Guard(u, solution)
      /\ TermOf(u, solution) = TermOf(id, solution)
  BY <1>1, <1>3, <1>4
<1>6. u \in R
  BY <1>1, <1>4, <1>5, OrderOfTurn
<1>7. PICK k \in DOMAIN replayed : replayed[k] = u
  BY <1>6 DEF ToSet
<1>8. Machine!StackAt(a) = {x \in At("push", a) \intersect R :
                              /\ Guard(x, solution)
                              /\ \A pop \in DOMAIN ReplayedFlow : ReplayedFlow[pop] # x}
  BY Effects DEF Machine!StackAt, Sync
<1>9. u \in Machine!StackAt(a)
  BY <1>4, <1>5, <1>6, <1>8, NotPopped
(* A push that has been popped already is not on the stack any more.       *)
<1>10. \A v \in Machine!StackAt(a), q \in At("pop", a) :
         solution.flow[q] = v => q \notin R
  <2> SUFFICES ASSUME NEW v \in Machine!StackAt(a), NEW q \in At("pop", a),
                      solution.flow[q] = v, q \in R
               PROVE  FALSE
    OBVIOUS
  <2>1. v \in At("push", a) /\ \A pop \in DOMAIN ReplayedFlow : ReplayedFlow[pop] # v
    BY <1>8
  <2>2. Guard(q, solution)
    BY <1>3, <2>1
  <2>3. q \in Reads /\ q \in IdsOf(Reading)
    BY DEF At, Reads, IdsOf, Reading
  <2>4. q \in DOMAIN ReplayedFlow /\ ReplayedFlow[q] = v
    BY <2>2, <2>3 DEF ReplayedFlow, HaveRead
  <2> QED
    BY <2>1, <2>4
<1>11. ASSUME NEW j \in DOMAIN replayed, replayed[j] \in Machine!StackAt(a), k < j
       PROVE  FALSE
  <2> DEFINE v == replayed[j]
  <2>1. v \in At("push", a) /\ v \in R /\ Guard(v, solution)
    BY <1>8, <1>11
  <2>2. time[v] < time[id] /\ time[u] <= time[v] /\ u # v
    <3>1. time[v] < time[id]
      BY <1>1, <2>1, OrderOfTurn
    <3>2. time[u] <= time[v]
      BY <1>1, <1>7, <1>11, <2>1, <1>4, OrderOfTurn
    <3>3. u # v
      BY <1>7, <1>11 DEF ReplayInv, Once, IInv, Shape
    <3> QED
      BY <3>1, <3>2, <3>3
  <2>3. CASE time[u] < time[v]
    <3>1. a \in AddressesOf("push")
      BY <1>4 DEF AddressesOf, At, IdsOf
    <3>2. /\ \A q \in At("pop", a) : solution.flow[q] = v => time[q] < time[id]
          /\ \E q \in At("pop", a) : solution.flow[q] = v
      BY <1>1, <1>2, <1>4, <2>1, <2>2, <2>3, <3>1
         DEF encode_stack_lifo_order, FlowBool, happens_before
    <3>3. PICK q \in At("pop", a) : solution.flow[q] = v /\ time[q] < time[id]
      BY <3>2
    <3>4. q \in R
      BY <1>1, <3>3, OrderOfTurn
    <3> QED
      BY <1>10, <1>11, <3>3, <3>4
  <2>4. CASE time[u] = time[v]
    <3>1. Lexicographic(PoppedAt(u), PoppedAt(v))
      <4>1. Precedes(u, v)
        BY <1>7, <1>11 DEF ReplayInv, InOrder
      <4>2. Event(u).kind \notin Communication
        BY <1>4 DEF At, Communication, Send, Receive
      <4> QED
        BY <1>1, <1>4, <2>1, <2>4, <4>1, <4>2 DEF Precedes, happens_before, simultaneous
    <3>2. Event(u).kind = "push" /\ Event(u).address = a
          /\ Event(v).kind = "push" /\ Event(v).address = a
      BY <1>4, <2>1 DEF At
    <3>3. PopsOf(u) = {id}
      <4>1. IsInjective([pop \in At("pop", a) |-> solution.flow[pop]])
        BY <1>1, <1>2 DEF encode_pop_from_injectivity, AddressesOf, At
      <4> QED
        BY <1>1, <3>2, <4>1 DEF PopsOf, IsInjective
    <3>4. PoppedAt(u) = <<1, -time[id], -id>>
      <4>1. (CHOOSE p \in PopsOf(u) : TRUE) = id
        BY <3>3
      <4> QED
        BY <3>2, <3>3, <4>1 DEF PoppedAt
    <3>5. PopsOf(v) # {}
      <4> SUFFICES ASSUME PopsOf(v) = {} PROVE FALSE
        OBVIOUS
      <4>1. PoppedAt(v) = <<0, 0, v>>
        BY DEF PoppedAt
      <4> QED
        BY <3>1, <3>4, <4>1 DEF Lexicographic
    <3>6. PICK q \in PopsOf(v) : PoppedAt(v) = <<1, -time[q], -q>>
      BY <3>2, <3>5 DEF PoppedAt
    <3>7. q \in At("pop", a) /\ solution.flow[q] = v /\ q \notin R /\ q \in Ids
      BY <1>1, <1>10, <1>11, <3>2, <3>6 DEF PopsOf
    <3>8. q # id /\ q \in Nat /\ id \in Nat
      BY <1>1, <2>2, <3>7, ProgramsAssumption DEF Ids, IInv, Shape
    <3>9. time[q] < time[id] \/ (time[q] = time[id] /\ q < id)
      <4>1. \A b, c, d, e : Lexicographic(<<1, b, d>>, <<1, c, e>>) =>
              b < c \/ (b = c /\ d < e)
        BY DEF Lexicographic
      <4>2. -time[id] < -time[q] \/ (-time[id] = -time[q] /\ -id < -q)
        BY <3>1, <3>4, <3>6, <4>1
      <4>3. time[id] \in Nat /\ time[q] \in Nat
        BY <1>1, <3>7
      <4>4. PICK m \in Nat, n \in Nat : m = time[id] /\ n = time[q]
        BY <4>3
      <4>5. -m < -n \/ (-m = -n /\ -id < -q)
        BY <4>2, <4>4
      <4>6. n < m \/ (n = m /\ q < id)
        BY <3>8, <4>5
      <4> QED
        BY <4>4, <4>6
    <3>10. Precedes(id, q)
      BY <3>7, <3>8 DEF Turn
    <3>11. PoppedAt(id) = <<0, 0, id>> /\ PoppedAt(q) = <<0, 0, q>>
      BY <1>1, <3>7 DEF PoppedAt, At
    <3>12. Event(id).kind \notin Communication
      BY DEF Communication, Send, Receive
    <3> QED
      BY <1>1, <3>7, <3>8, <3>9, <3>10, <3>11, <3>12
         DEF Precedes, happens_before, simultaneous, Lexicographic
  <2> QED
    BY <1>1, <1>4, <2>1, <2>2, <2>3, <2>4
<1>12. \A j \in DOMAIN replayed : replayed[j] \in Machine!StackAt(a) => j <= k
  BY <1>11 DEF IInv, Shape
<1>13. Machine!LastOf(Machine!StackAt(a)) = u
  BY <1>7, <1>9, <1>12, LastOfIs
<1> QED
  BY <1>4, <1>5, <1>6, <1>13

(* By encode_array_api, a load gets the last store at its offset, or zero  *)
(* if nothing has been stored there.                                       *)
LEMMA LoadsLastStore ==
  ASSUME IInv, ReplayInv, phase = "replay", query # "check_deadlock",
         NEW id, Turn(id), Event(id).kind = "load"
  PROVE  /\ Machine!LastStore(Event(id).address, Eval(Event(id).offset, ReplayedVal))
              = solution.flow[id]
         /\ solution.flow[id] = 0 => TermOf(id, solution) = 0
         /\ solution.flow[id] # 0 =>
              /\ solution.flow[id] \in At("store", Event(id).address) \intersect ToSet(replayed)
              /\ Guard(solution.flow[id], solution)
              /\ TermOf(solution.flow[id], solution) = TermOf(id, solution)
<1> DEFINE time == solution.time
           R == ToSet(replayed)
           a == Event(id).address
           S == At("store", a)
           s == solution.flow[id]
<1>1. /\ id \in Ids /\ id \notin R /\ R \subseteq Ids /\ \A x \in Ids : time[x] \in Nat
      /\ S \subseteq Ids /\ \A x \in S : Rank(x) = 2
      /\ Rank(id) = 1 /\ id \in IdsOf({"load"})
  BY OrderOfTurn DEF At, Rank, IdsOf, Turn
<1>2. encode_load_from(solution) /\ encode_from_load(solution)
      /\ encode_store_serialization(solution)
  BY DEF IInv, Solved, encode, encode_array_api
<1>3. s = 0 \/ s \in S
  BY <1>1 DEF IInv, Solved, Flows, Sources, SourceKind, Reads, IdsOf
<1>4. \A x \in S : x # 0
  BY ProgramsAssumption DEF At, Ids, IInv, Shape
<1>5. /\ \A x \in S : s = x =>
           /\ Guard(x, solution) /\ time[x] < time[id]
           /\ TermOf(x, solution) = TermOf(id, solution)
           /\ OffsetOf(x, solution) = OffsetOf(id, solution)
      /\ (\A x \in S : s # x) =>
           /\ \A x \in S : OffsetOf(x, solution) = OffsetOf(id, solution) => time[id] < time[x]
           /\ TermOf(id, solution) = 0
  BY <1>1, <1>2 DEF encode_load_from, FlowBool, happens_before, SameOffset
<1>6. OwnDataOnly(program, id, Event(id)) /\ \A x \in S : OwnDataOnly(program, x, Event(x))
  BY <1>1, DataFlowAssumption DEF At, Ids, Event, IInv, Shape, Sync
<1>7. Eval(Event(id).offset, ReplayedVal) = OffsetOf(id, solution)
  <2>1. TermInScope(program, Event(id).offset, id)
    BY <1>6 DEF OwnDataOnly
  <2> QED
    BY <2>1, SameTerm DEF OffsetOf, Turn
<1>8. \A x \in S \intersect R : Guard(x, solution) =>
        Eval(Event(x).offset, ReplayedVal) = OffsetOf(x, solution)
  <2> SUFFICES ASSUME NEW x \in S \intersect R, Guard(x, solution)
               PROVE  Eval(Event(x).offset, ReplayedVal) = OffsetOf(x, solution)
    OBVIOUS
  <2>1. Reached(x)
    BY DEF At, Reached, ReplayInv, ClosedUnder, Sync
  <2>2. TermInScope(program, Event(x).offset, x)
    BY <1>6 DEF OwnDataOnly, At
  <2> QED
    BY <2>1, <2>2, SameTerm DEF OffsetOf
<1> DEFINE L == {x \in Machine!Effective(Machine!At("store", a)) :
                   Machine!Eval(Machine!Event(x).offset, ReplayedVal)
                     = Eval(Event(id).offset, ReplayedVal)}
<1>9. L = {x \in S \intersect R : /\ Guard(x, solution)
                                  /\ OffsetOf(x, solution) = OffsetOf(id, solution)}
  <2>1. Machine!Effective(Machine!At("store", a)) = {x \in S \intersect R : Guard(x, solution)}
    BY Effects DEF Sync
  <2>2. \A x : Machine!Eval(Machine!Event(x).offset, ReplayedVal)
                 = Eval(Event(x).offset, ReplayedVal)
    BY MachineOps
  <2> QED
    BY <1>7, <1>8, <2>1, <2>2
<1>10. Machine!LastStore(a, Eval(Event(id).offset, ReplayedVal)) = Machine!LastOf(L)
  BY DEF Machine!LastStore
<1> HIDE DEF L
<1>11. CASE s = 0
  <2>1. \A x \in S : s # x
    BY <1>4, <1>11
  <2>2. L \intersect R = {}
    <3> SUFFICES ASSUME NEW x \in S \intersect R,
                        OffsetOf(x, solution) = OffsetOf(id, solution)
                 PROVE  FALSE
      BY <1>9
    <3>1. time[id] < time[x]
      BY <1>5, <2>1
    <3>2. time[x] <= time[id]
      BY <1>1, OrderOfTurn
    <3> QED
      BY <1>1, <3>1, <3>2
  <2>3. Machine!LastOf(L) = 0
    BY <2>2, LastOfNone
  <2> QED
    BY <1>5, <1>10, <1>11, <2>1, <2>3
<1>12. CASE s \in S
  <2>1. /\ Guard(s, solution) /\ time[s] < time[id]
        /\ TermOf(s, solution) = TermOf(id, solution)
        /\ OffsetOf(s, solution) = OffsetOf(id, solution)
    BY <1>5, <1>12
  <2>2. s \in R
    BY <1>1, <1>12, <2>1, OrderOfTurn
  <2>3. PICK k \in DOMAIN replayed : replayed[k] = s
    BY <2>2 DEF ToSet
  <2>4. ASSUME NEW j \in DOMAIN replayed, replayed[j] \in L, k < j
        PROVE  FALSE
    <3> DEFINE v == replayed[j]
    <3>1. v \in S /\ v \in R /\ Guard(v, solution)
          /\ OffsetOf(v, solution) = OffsetOf(s, solution)
      BY <1>9, <2>1, <2>4
    <3>2. time[v] < time[id] /\ time[s] <= time[v]
      <4>1. time[v] < time[id]
        BY <1>1, <3>1, OrderOfTurn
      <4>2. time[s] <= time[v]
        BY <1>1, <1>12, <2>3, <2>4, <3>1, OrderOfTurn
      <4> QED
        BY <4>1, <4>2
    <3>3. s # v
      BY <2>3, <2>4 DEF ReplayInv, Once, IInv, Shape
    <3>4. time[s] # time[v]
      <4>1. a \in AddressesOf("store")
        BY <1>12 DEF AddressesOf, At, IdsOf
      <4>2. IsInjective([x \in S |-> time[x]])
        BY <1>2, <4>1 DEF encode_store_serialization
      <4> QED
        BY <1>12, <3>1, <3>3, <4>2 DEF IsInjective
    <3>5. time[s] < time[v]
      BY <1>1, <1>12, <3>1, <3>2, <3>4
    <3>6. time[id] < time[v]
      BY <1>1, <1>2, <1>12, <3>1, <3>3, <3>5
         DEF encode_from_load, FlowBool, happens_before, SameOffset
    <3> QED
      BY <1>1, <3>1, <3>2, <3>6
  <2>5. \A j \in DOMAIN replayed : replayed[j] \in L => j <= k
    BY <2>4 DEF IInv, Shape
  <2>6. s \in L
    BY <1>9, <1>12, <2>1, <2>2
  <2>7. Machine!LastOf(L) = s
    BY <2>3, <2>5, <2>6, LastOfIs
  <2> QED
    BY <1>4, <1>10, <1>12, <2>1, <2>2, <2>7
<1> QED
  BY <1>3, <1>11, <1>12

(* A receive and a send that meet in a solution meet in the machine.       *)
LEMMA MeetingMeets ==
  ASSUME IInv, DOMAIN solution.time = Ids, UnambiguousWildcards(program),
         NEW r, NEW s, Meeting(r, s)
  PROVE  Machine!Meets(r, s)
<1>1. /\ <<r, s>> \in Matchables /\ r \in Ids /\ s \in Ids /\ r # s
      /\ solution.time[r] = solution.time[s]
      /\ Event(r).kind \in Receive /\ Event(s).kind \in Send
  BY DEF Meeting, simultaneous, IdsOf
<1>2. Event(r).thread_id # Event(s).thread_id
  <2> SUFFICES ASSUME Event(r).thread_id = Event(s).thread_id PROVE FALSE
    OBVIOUS
  <2> DEFINE t == Event(r).thread_id
  <2>1. OwnDataOnly(program, r, Event(r)) /\ OwnDataOnly(program, s, Event(s))
    BY <1>1, DataFlowAssumption DEF Ids, Event, IInv, Shape, Sync, Receive, Send
  <2>2. t \in Threads
        /\ Event(r) \in ToSet(program.threads[t]) /\ Event(s) \in ToSet(program.threads[t])
    BY <1>1, <2>1, ProgramsAssumption DEF OwnDataOnly, Ids, Event, Threads, IInv, Shape
  <2>3. PICK j, k \in DOMAIN program.threads[t] :
          program.threads[t][j] = Event(r) /\ program.threads[t][k] = Event(s)
    BY <2>2 DEF ToSet
  <2>4. Event(r).event_id = r /\ Event(s).event_id = s
    BY <1>1, ProgramsAssumption DEF Ids, Event, IInv, Shape
  <2>5. DOMAIN program.threads[t] \subseteq Nat /\ j # k
    BY <1>1, <2>2, <2>3, <2>4, ThreadsAreSequences DEF IInv, Shape
  <2>6. solution.time[r] < solution.time[s] \/ solution.time[s] < solution.time[r]
    BY <1>1, <2>2, <2>3, <2>4, <2>5 DEF IInv, Clocks, AlongThreads
  <2> QED
    BY <1>1, <2>6 DEF IInv, Clocks
<1>3. MatchableOnChannel(Event(r), Event(s)) \/ MatchableMessages(Event(r), Event(s))
  BY <1>1 DEF Matchables
<1>4. MatchableMessages(Event(r), Event(s)) =>
        /\ Event(r).kind = "message_recv" /\ Event(s).kind = "message_send"
        /\ Event(s).address = Event(r).thread_id
        /\ Event(r).address \in {Event(s).thread_id, s_wildcard_address}
  BY <1>1, <1>2 DEF MatchableMessages, UnambiguousWildcards, Ids, Event
<1> QED
  BY <1>1, <1>2, <1>3, <1>4, MachineOps
     DEF Machine!Meets, MatchableOnChannel, Machine!s_wildcard_address, s_wildcard_address

-----------------------------------------------------------------------------
(* The refinement, step by step.                                           *)

(* Two events that meet are replayed by one step of the machine.           *)
LEMMA ReplayCommunicates ==
  ASSUME IInv, ReplayInv, Replay, UnambiguousWildcards(program),
         NEW r, NEW s, Meeting(r, s), r \in Pending, s \in Pending,
         replayed' = replayed \o <<s, r>>
  PROVE  Machine!Communicate(r, s)
<1>1. phase = "replay" /\ UNCHANGED <<program, query, phase, solution>>
  BY DEF Replay
<1>2. ToSet(replayed)' = ToSet(replayed) \union {s, r}
  <2>1. replayed \in Seq(Ids) /\ <<s, r>> \in Seq(Ids)
    BY DEF IInv, Shape, Pending
  <2> DEFINE both == <<s, r>>
  <2>2. ToSet(replayed \o <<s, r>>) = ToSet(replayed) \union ToSet(<<s, r>>)
    <3>1. both \in Seq(Ids)
      BY <2>1
    <3> HIDE DEF both
    <3>2. ToSet(replayed \o both) = ToSet(replayed) \union ToSet(both)
      BY <2>1, <3>1, ToSetOfConcat
    <3> QED
      BY <3>2 DEF both
  <2>3. ToSet(<<s, r>>) = {s, r}
    BY DEF ToSet
  <2>4. ToSet(replayed)' = ToSet(replayed \o <<s, r>>)
    BY DEF ToSet
  <2> QED
    BY <2>2, <2>3, <2>4
<1>3. /\ r \in IdsOf(Reading) /\ r \notin Reads /\ s \notin IdsOf(Reading)
      /\ Guard(r, solution) /\ Guard(s, solution) /\ Partner(r) = s
      /\ Event(r).kind \in Receive /\ Event(s).kind \in Send
  BY DEF Meeting, IdsOf, Reading, Receive, Send, Reads, Partner
<1>4. Reached(r) /\ Reached(s)
  BY <1>3 DEF Pending, Reached, Receive, Send, Sync
<1>5. /\ OwnDataOnly(program, r, Event(r)) /\ OwnDataOnly(program, s, Event(s))
      /\ r \in Ids /\ s \in Ids
  BY <1>4, DataFlowAssumption DEF Ids, Event, IInv, Shape, Reached
<1>6. /\ Event(r).term = [var |-> r, const |-> 0]
      /\ TermInScope(program, Event(s).term, s)
  BY <1>3, <1>5 DEF OwnDataOnly, Receive, Send, Reading
<1>7. Machine!ValueOf(s) = solution.val[r]
  <2>1. Machine!ValueOf(s) = Eval(Event(s).term, ReplayedVal)
    BY MachineOps DEF Machine!ValueOf
  <2>2. Machine!ValueOf(s) = TermOf(s, solution)
    BY <1>1, <1>3, <1>4, <1>6, <2>1, SameTerm DEF TermOf
  <2>3. r \in Variables /\ r # -1
    BY <1>3, <1>5, ProgramsAssumption DEF Variables, Ids, IInv, Shape
  <2>4. TermOf(r, solution) = solution.val[r]
    BY <1>1, <1>6, <2>3 DEF TermOf, Eval, IInv, Solved
  <2> QED
    BY <2>2, <2>4 DEF Meeting
<1>8. /\ Machine!IsNext(r) /\ Machine!IsNext(s)
      /\ Machine!Enabled(r, ReplayedVal) /\ Machine!Enabled(s, ReplayedVal)
  <2>1. Machine!Happened = ToSet(replayed)
    BY DEF Machine!Happened, Machine!ToSet, ToSet
  <2> QED
    BY <1>1, <1>3, <1>4, <2>1, SameGuard, MachineOps DEF Machine!IsNext, Pending
<1>9. Machine!Meets(r, s)
  BY <1>1, MeetingMeets DEF IInv, Solved
<1>10. /\ ReplayedVal' = Machine!With(ReplayedVal, r, solution.val[r])
       /\ ReplayedFlow' = Machine!With(ReplayedFlow, r, s)
  <2> DEFINE N == {s, r}
  <2>1. r \in N /\ \A x \in N : x = r \/ x \notin IdsOf(Reading)
    BY <1>3
  <2>2. ToSet(replayed)' = ToSet(replayed) \union N
    BY <1>2
  <2> HIDE DEF N
  <2>3. /\ ReplayedVal' = Machine!With(ReplayedVal, r, solution.val[r])
        /\ ReplayedFlow' = Machine!With(ReplayedFlow, r,
              IF r \in Reads THEN solution.flow[r] ELSE Partner(r))
    BY <1>1, <1>3, <2>1, <2>2, OneRead
  <2> QED
    BY <1>3, <2>3
<1> QED
  BY <1>1, <1>7, <1>8, <1>9, <1>10 DEF Machine!Communicate, Machine!CanMeet, Machine!Happens

(* An event that reads memory in its turn reads the same in the machine.   *)
LEMMA ReplayReads ==
  ASSUME IInv, ReplayInv, Replay, query # "check_deadlock",
         NEW id, Turn(id), Event(id).kind \in {"read", "pop", "load"},
         replayed' = replayed \o <<id>>
  PROVE  Machine!Read(id) \/ Machine!Pop(id) \/ Machine!Load(id)
<1>1. /\ phase = "replay" /\ UNCHANGED <<program, query, phase, solution>>
      /\ \A x \in IdsOf(Communication) : ~Waits(x)
  BY DEF Replay, IsPromised
<1>2. id \in Ids /\ Reached(id) /\ Guard(id, solution) /\ id \notin ToSet(replayed)
  BY DEF Turn, Reached
<1>3. ToSet(replayed)' = ToSet(replayed) \union {id}
  <2>1. replayed \in Seq(Ids)
    BY DEF IInv, Shape
  <2>2. /\ DOMAIN replayed = 1 .. Len(replayed) /\ Len(replayed) \in Nat
        /\ DOMAIN replayed' = 1 .. Len(replayed) + 1
        /\ replayed'[Len(replayed) + 1] = id
        /\ \A k \in 1 .. Len(replayed) : replayed'[k] = replayed[k]
    BY <1>2, <2>1
  <2>3. DOMAIN replayed' = DOMAIN replayed \union {Len(replayed) + 1}
    BY <2>2
  <2> QED
    BY <2>2, <2>3 DEF ToSet
<1>4. id \in IdsOf(Reading) /\ id \in Reads
  BY <1>2 DEF IdsOf, Reading, Reads
<1>5. /\ ReplayedVal' = Machine!With(ReplayedVal, id, solution.val[id])
      /\ ReplayedFlow' = Machine!With(ReplayedFlow, id, solution.flow[id])
  BY <1>1, <1>2, <1>3, <1>4, OneRead
<1>6. Machine!IsNext(id) /\ Machine!Enabled(id, ReplayedVal)
  <2>1. Machine!Happened = ToSet(replayed)
    BY DEF Machine!Happened, Machine!ToSet, ToSet
  <2> QED
    BY <1>1, <1>2, <2>1, SameGuard, MachineOps DEF Machine!IsNext, Reached
<1>7. TermOf(id, solution) = solution.val[id]
  <2>1. OwnDataOnly(program, id, Event(id))
    BY <1>2, DataFlowAssumption DEF Ids, Event, IInv, Shape, Reached
  <2>2. Event(id).term = [var |-> id, const |-> 0]
    BY <2>1 DEF OwnDataOnly, Reading
  <2>3. id \in Variables /\ id # -1
    BY <1>2, <1>4, ProgramsAssumption DEF Variables, Ids, IInv, Shape
  <2> QED
    BY <1>1, <2>2, <2>3 DEF TermOf, Eval, IInv, Solved
<1>8. ASSUME NEW x \in ToSet(replayed), Event(x).kind \in {"write", "push", "store"},
             Guard(x, solution)
      PROVE  Machine!ValueOf(x) = TermOf(x, solution)
  <2>1. x \in Ids
    BY DEF IInv, Shape, ToSet
  <2>2. Reached(x)
    BY <1>8, <2>1 DEF Reached, ReplayInv, ClosedUnder, Sync
  <2>3. OwnDataOnly(program, x, Event(x))
    BY <2>1, <2>2, DataFlowAssumption DEF Ids, Event, IInv, Shape, Reached
  <2>4. TermInScope(program, Event(x).term, x)
    BY <1>8, <2>3 DEF OwnDataOnly, Reading, Receive
  <2> QED
    BY <1>1, <1>8, <2>2, <2>4, SameTerm, MachineOps DEF Machine!ValueOf, TermOf
<1>9. \A x \in Ids : x # 0
  BY ProgramsAssumption DEF Ids, IInv, Shape
<1> DEFINE x == solution.flow[id]
<1>10. CASE Event(id).kind = "read"
  <2>1. /\ Machine!LastWrite(Event(id).address) = x
        /\ x \in ToSet(replayed) /\ x \in At("write", Event(id).address)
        /\ Guard(x, solution) /\ TermOf(x, solution) = TermOf(id, solution)
    BY <1>1, <1>10, ReadsLastWrite
  <2>2. Machine!ValueOf(x) = solution.val[id] /\ x # 0
    BY <1>7, <1>8, <1>9, <2>1 DEF At
  <2>3. Machine!Reads(id, "read", x, Machine!ValueOf(x))
    BY <1>1, <1>5, <1>6, <1>10, <2>2, MachineOps DEF Machine!Reads, Machine!Happens
  <2> QED
    BY <2>1, <2>2, <2>3, MachineOps DEF Machine!Read
<1>11. CASE Event(id).kind = "pop"
  <2>1. /\ Machine!LastOf(Machine!StackAt(Event(id).address)) = x
        /\ x \in ToSet(replayed) /\ x \in At("push", Event(id).address)
        /\ Guard(x, solution) /\ TermOf(x, solution) = TermOf(id, solution)
    BY <1>1, <1>11, PopsTop
  <2>2. Machine!ValueOf(x) = solution.val[id] /\ x # 0
    BY <1>7, <1>8, <1>9, <2>1 DEF At
  <2>3. Machine!Reads(id, "pop", x, Machine!ValueOf(x))
    BY <1>1, <1>5, <1>6, <1>11, <2>2, MachineOps DEF Machine!Reads, Machine!Happens
  <2> QED
    BY <2>1, <2>2, <2>3, MachineOps DEF Machine!Pop
<1>12. CASE Event(id).kind = "load"
  <2>1. /\ Machine!LastStore(Event(id).address, Eval(Event(id).offset, ReplayedVal)) = x
        /\ x = 0 => TermOf(id, solution) = 0
        /\ x # 0 => /\ x \in ToSet(replayed) /\ x \in At("store", Event(id).address)
                    /\ Guard(x, solution) /\ TermOf(x, solution) = TermOf(id, solution)
    BY <1>1, <1>12, LoadsLastStore
  <2>2. (IF x = 0 THEN 0 ELSE Machine!ValueOf(x)) = solution.val[id]
    BY <1>7, <1>8, <2>1 DEF At
  <2>3. Machine!Reads(id, "load", x, IF x = 0 THEN 0 ELSE Machine!ValueOf(x))
    BY <1>1, <1>5, <1>6, <1>12, <2>2, MachineOps DEF Machine!Reads, Machine!Happens
  <2> QED
    BY <2>1, <2>3, MachineOps DEF Machine!Load
<1> QED
  BY <1>10, <1>11, <1>12

(* An event that does not meet another is replayed by a step of its kind,  *)
(* or skipped if its guard does not hold.                                  *)
LEMMA ReplayAlone ==
  ASSUME IInv, ReplayInv, Replay, ReadsNothingForDeadlock(program),
         NEW id \in Ready,
         \A x \in Ready \ {id} : Earlier(id, x) \/ x \in ToSet(Together(id)),
         ~Communicates(id), Together(id) = <<id>>, replayed' = replayed \o <<id>>
  PROVE  Machine!InterleavingNext
<1>1. phase = "replay" /\ UNCHANGED <<program, query, phase, solution>>
  BY DEF Replay
<1>2. /\ id \in Ids /\ id \notin ToSet(replayed)
      /\ Predecessors(id) \subseteq ToSet(replayed)
      /\ Event(id).kind \in Kind
  BY DataFlowAssumption DEF Ready, Pending, IInv, Shape, Ids, Event
<1>3. ToSet(replayed)' = ToSet(replayed) \union {id}
  <2>1. replayed \in Seq(Ids) /\ <<id>> \in Seq(Ids)
    BY <1>2 DEF IInv, Shape
  <2>2. ToSet(replayed \o <<id>>) = ToSet(replayed) \union ToSet(<<id>>)
    <3>1. \A s, t \in Seq(Ids) : ToSet(s \o t) = ToSet(s) \union ToSet(t)
      BY ToSetOfConcat
    <3> QED
      BY <2>1, <3>1
  <2>3. ToSet(<<id>>) = {id}
    BY DEF ToSet
  <2>4. ToSet(replayed)' = ToSet(replayed \o <<id>>)
    BY DEF ToSet
  <2> QED
    BY <2>2, <2>3, <2>4
<1>4. Machine!IsNext(id) /\ Machine!Ids = Ids /\ Machine!Sync = Sync
  <2>1. Machine!Happened = ToSet(replayed)
    BY DEF Machine!Happened, Machine!ToSet, ToSet
  <2> QED
    BY <1>2, <2>1, MachineOps DEF Machine!IsNext
<1>5. ASSUME id \notin IdsOf(Reading) \/ ~Guard(id, solution)
      PROVE  ReplayedVal' = ReplayedVal /\ ReplayedFlow' = ReplayedFlow
  <2> DEFINE N == {id}
  <2>1. ToSet(replayed)' = ToSet(replayed) \union N
        /\ \A x \in N : x \notin IdsOf(Reading) \/ ~Guard(x, solution)
    BY <1>3, <1>5
  <2> HIDE DEF N
  <2> QED
    BY <1>1, <2>1, NothingRead
<1>6. CASE Event(id).kind \in Sync
  <2>1. id \notin IdsOf(Reading)
    BY <1>6 DEF IdsOf, Sync, Reading, Receive
  <2>2. Machine!Synchronise(id)
    BY <1>1, <1>4, <1>5, <1>6, <2>1, MachineOps DEF Machine!Synchronise, Machine!Happens
  <2> QED
    BY <1>2, <1>4, <2>2 DEF Machine!InterleavingNext
<1>7. ASSUME Event(id).kind \notin Sync PROVE Reached(id)
  BY <1>2, <1>7 DEF Reached
<1>8. CASE Event(id).kind \notin Sync /\ ~Guard(id, solution)
  <2>1. ~Machine!Enabled(id, ReplayedVal)
    BY <1>1, <1>7, <1>8, SameGuard, MachineOps
  <2>2. Machine!Skip(id)
    BY <1>1, <1>4, <1>5, <1>8, <2>1, MachineOps DEF Machine!Skip, Machine!Happens
  <2> QED
    BY <1>2, <1>4, <2>2 DEF Machine!InterleavingNext
<1>9. CASE Event(id).kind \in {"write", "push", "store"} /\ Guard(id, solution)
  <2>1. Machine!Enabled(id, ReplayedVal)
    BY <1>1, <1>7, <1>9, SameGuard, MachineOps DEF Sync
  <2>2. id \notin IdsOf(Reading)
    BY <1>9 DEF IdsOf, Reading, Receive
  <2>3. Machine!Modify(id)
    BY <1>1, <1>4, <1>5, <1>9, <2>1, <2>2, MachineOps DEF Machine!Modify, Machine!Happens
  <2> QED
    BY <1>2, <1>4, <2>3 DEF Machine!InterleavingNext
<1>10. CASE Event(id).kind \in {"read", "pop", "load"} /\ Guard(id, solution)
  <2>1. query # "check_deadlock"
    BY <1>2, <1>10 DEF ReadsNothingForDeadlock, IInv, Shape, Ids, Event
  <2>2. \A x \in IdsOf(Communication) : ~Waits(x)
    BY <2>1 DEF Replay, IsPromised
  <2>3. ToSet(Together(id)) = {id}
    BY DEF ToSet
  <2>4. \A y \in (Ids \ ToSet(replayed)) \ {id} : Precedes(id, y)
    BY <1>1, <2>2, <2>3, RemainingAreLater DEF ReplayInv
  <2>5. Turn(id)
    BY <1>2, <1>7, <1>10, <2>4 DEF Turn, Sync
  <2>6. Machine!Read(id) \/ Machine!Pop(id) \/ Machine!Load(id)
    BY <1>10, <2>1, <2>5, ReplayReads
  <2> QED
    BY <1>2, <1>4, <2>6 DEF Machine!InterleavingNext
<1>11. Event(id).kind \notin Communication \/ ~Guard(id, solution)
  BY DEF Communicates
<1> QED
  BY <1>2, <1>6, <1>8, <1>9, <1>10, <1>11 DEF Kind, Reading, Communication

(* Each step of the replay is a step of the machine,                       *)
LEMMA ReplayIsAStep ==
  ASSUME IInv, ReplayInv, Replay,
         UnambiguousWildcards(program), ReadsNothingForDeadlock(program)
  PROVE  Machine!InterleavingNext
<1>1. PICK id \in Ready :
        /\ \A x \in Ready \ {id} : Earlier(id, x) \/ x \in ToSet(Together(id))
        /\ replayed' = replayed \o Together(id)
  BY DEF Replay
<1>2. phase = "replay"
  BY DEF Replay
<1>3. CASE ~Communicates(id) /\ Together(id) = <<id>>
  BY <1>1, <1>3, ReplayAlone
<1>4. CASE \E r, s : /\ Meeting(r, s) /\ id \in {r, s} /\ Together(id) = <<s, r>>
                     /\ r \in Pending /\ s \in Pending
  <2>1. PICK r, s : /\ Meeting(r, s) /\ Together(id) = <<s, r>>
                    /\ r \in Pending /\ s \in Pending
    BY <1>4
  <2>2. Machine!Communicate(r, s)
    BY <1>1, <2>1, ReplayCommunicates
  <2>3. r \in Machine!IdsOf(Machine!Receive) /\ s \in Machine!IdsOf(Machine!Send)
    BY <2>1, MachineOps DEF Meeting
  <2> QED
    BY <2>2, <2>3 DEF Machine!InterleavingNext
<1> QED
  BY <1>2, <1>3, <1>4, ReadyTogether

(* and before the replay the machine has only its input.                   *)
LEMMA NothingHappened ==
  ASSUME replayed = << >>
  PROVE  ReplayedVal = [x \in {Input} |-> solution.val[x]] /\ ReplayedFlow = << >>
<1>1. ToSet(replayed) = {}
  BY DEF ToSet
<1>2. HaveRead(IdsOf(Reading)) = {}
  BY <1>1 DEF HaveRead
<1> QED
  BY <1>2 DEF ReplayedVal, ReplayedFlow

(* Initial states map to initial states of the machine,                    *)
LEMMA InitIsInit ==
  ASSUME Init
  PROVE  Machine!InterleavingInit
<1>1. PICK v \in program.inputs :
        solution = [time |-> << >>, flow |-> << >>, val |-> [x \in {Input} |-> v]]
  BY DEF Init
<1>2. ReplayedVal = [x \in {Input} |-> v] /\ ReplayedFlow = << >>
  BY <1>1, NothingHappened DEF Init
<1> QED
  BY <1>1, <1>2 DEF Init, Machine!InterleavingInit, Machine!Input, Input

(* and while a solution is being chosen the machine does nothing.          *)
LEMMA OthersStutter ==
  ASSUME IInv, phase = "clocks" => replayed = << >>,
         UNCHANGED vars \/ Solve \/ \E ids : Tick(ids)
  PROVE  UNCHANGED Machine!machine_vars
<1>1. CASE UNCHANGED vars
  <2>1. UNCHANGED <<program, query, phase, solution>> /\ replayed' = replayed
    BY <1>1 DEF vars
  <2> DEFINE N == {}
  <2>2. ToSet(replayed)' = ToSet(replayed) \union N
        /\ \A x \in N : x \notin IdsOf(Reading) \/ ~Guard(x, solution)
    BY <2>1
  <2> HIDE DEF N
  <2> QED
    BY <2>1, <2>2, NothingRead DEF Machine!machine_vars
<1>2. CASE Solve \/ \E ids : Tick(ids)
  <2>1. program' = program /\ replayed = << >> /\ replayed' = << >>
    BY <1>2 DEF Solve, Tick
  <2>2. solution'.val[Input] = solution.val[Input]
    <3>1. ASSUME NEW ids, Tick(ids) PROVE solution'.val = solution.val
      BY <3>1 DEF Tick, IInv, Shape
    <3>2. ASSUME Solve PROVE solution'.val[Input] = solution.val[Input]
      BY <3>2 DEF Solve, Chosen, Variables, IInv, Shape
    <3> QED
      BY <1>2, <3>1, <3>2
  <2>3. /\ ReplayedVal = [x \in {Input} |-> solution.val[x]]
        /\ ReplayedFlow = << >>
    BY <2>1, NothingHappened
  <2>4. (/\ ReplayedVal = [x \in {Input} |-> solution.val[x]]
         /\ ReplayedFlow = << >>)'
    <3>1. ToSet(replayed)' = {}
      BY <2>1 DEF ToSet
    <3>2. HaveRead(IdsOf(Reading))' = {}
      BY <3>1 DEF HaveRead
    <3> QED
      BY <3>2 DEF ReplayedVal, ReplayedFlow
  <2> QED
    BY <2>1, <2>2, <2>3, <2>4 DEF Machine!machine_vars, Input
<1> QED
  BY <1>1, <1>2

(* Every solution of the formula that Encoder::check asserts is a run of   *)
(* the threads, so an error that check() reports is no false alarm of the  *)
(* encoding; what check_deadlock() reports is one up to the point where    *)
(* threads wait for ever.                                                  *)
THEOREM SolutionsAreRuns ==
  ASSUME \A p \in Programs : UnambiguousWildcards(p) /\ ReadsNothingForDeadlock(p)
  PROVE  Spec => EverySolutionIsARun
<1>1. Init => Machine!InterleavingInit
  BY InitIsInit
<1>2. IInv /\ ReplayInv /\ [Next]_vars
      => [Machine!InterleavingNext]_(Machine!machine_vars)
  <2> SUFFICES ASSUME IInv, ReplayInv, [Next]_vars
               PROVE  Machine!InterleavingNext \/ UNCHANGED Machine!machine_vars
    OBVIOUS
  <2>1. UnambiguousWildcards(program) /\ ReadsNothingForDeadlock(program)
    BY DEF IInv, Shape
  <2> QED
    BY <2>1, ReplayIsAStep, OthersStutter DEF Next, ReplayInv
<1> QED
  BY <1>1, <1>2, SolutionInvariant, ReplayInvariant, PTL
     DEF Spec, EverySolutionIsARun, Machine!InterleavingSpec

-----------------------------------------------------------------------------
(* Deadlocks.                                                              *)
(* The formula of check_deadlock() says that some thread does not get to   *)
(* its end.                                                                *)
SomeThreadIsStuck ==
  phase = "replay" /\ query = "check_deadlock" => ~Finalizers(solution)

(* The finalizers read nothing of a state but the program and the solution.*)
LEMMA SameFinalizers ==
  ASSUME program' = program, NEW m, solution' = m
  PROVE  Finalizers(solution)' <=> Finalizers(m)
<1>1. Matchables' = Matchables
  BY DEF Matchables, IdsOf, Event, Ids
<1>2. \A p : Match(p, solution)' <=> Match(p, m)
  BY DEF Match, simultaneous
<1>3. \A ids : communication_match_conjunction(ids, solution)'
                <=> communication_match_conjunction(ids, m)
  BY <1>1, <1>2 DEF communication_match_conjunction, communication_match_disjunction
<1>4. Threads' = Threads /\ \A t : CidomOfEnd(t)' = CidomOfEnd(t)
  BY DEF Threads, CidomOfEnd, CidomOf
<1> QED
  BY <1>3, <1>4 DEF Finalizers

(* Solve takes the formula, which has it, and the replay keeps the solution.*)
LEMMA StuckInvariant == Spec => []SomeThreadIsStuck
<1>1. Init => SomeThreadIsStuck
  BY DEF Init, SomeThreadIsStuck
<1>2. SomeThreadIsStuck /\ [Next]_vars => SomeThreadIsStuck'
  <2> SUFFICES ASSUME SomeThreadIsStuck, [Next]_vars PROVE SomeThreadIsStuck'
    OBVIOUS
  <2>1. CASE \E ids : Tick(ids)
    BY <2>1 DEF Tick, SomeThreadIsStuck
  <2>2. CASE Solve
    <3>1. PICK flow \in Flows, val \in [IdsOf(Reading) -> program.values] :
            Formula(Chosen(flow, val)) /\ solution' = Chosen(flow, val)
      BY <2>2 DEF Solve
    <3>2. program' = program /\ query' = query
      BY <2>2 DEF Solve
    <3>3. Finalizers(solution)' <=> Finalizers(Chosen(flow, val))
      BY <3>1, <3>2, SameFinalizers
    <3>4. query = "check_deadlock" => ~Finalizers(Chosen(flow, val))
      BY <3>1 DEF Formula, check_deadlock, encode, encode_communication_concurrency
    <3> QED
      BY <3>2, <3>3, <3>4 DEF SomeThreadIsStuck
  <2>3. CASE Replay \/ UNCHANGED vars
    <3>1. UNCHANGED <<program, query, phase, solution>>
      BY <2>3 DEF Replay, vars
    <3>2. Finalizers(solution)' <=> Finalizers(solution)
      BY <3>1, SameFinalizers
    <3> QED
      BY <3>1, <3>2 DEF SomeThreadIsStuck
  <2> QED
    BY <2>1, <2>2, <2>3 DEF Next
<1> QED
  BY <1>1, <1>2, PTL DEF Spec

-----------------------------------------------------------------------------
(* Predecessors are the events before in a thread.                         *)
LEMMA PredecessorIsBefore ==
  ASSUME program \in Programs, NEW y, NEW x \in Predecessors(y)
  PROVE  \E t \in Threads : \E j, k \in DOMAIN program.threads[t] :
            /\ j < k
            /\ program.threads[t][j].event_id = x
            /\ program.threads[t][k].event_id = y
<1>1. PICK t \in ThreadsOf(y) : \E k \in 1 .. Position(t, y) - 1 :
         x = program.threads[t][k].event_id
  BY DEF Predecessors
<1>2. PICK j \in 1 .. Position(t, y) - 1 : x = program.threads[t][j].event_id
  BY <1>1
<1>3. /\ t \in Threads
      /\ DOMAIN program.threads[t] = 1 .. Len(program.threads[t])
      /\ Len(program.threads[t]) \in Nat
  BY ThreadsAreSequences DEF ThreadsOf
<1>4. \E i \in DOMAIN program.threads[t] : program.threads[t][i].event_id = y
  BY DEF ThreadsOf, ToSet
<1>5. /\ Position(t, y) \in DOMAIN program.threads[t]
      /\ program.threads[t][Position(t, y)].event_id = y
  BY <1>4 DEF Position
<1>6. j \in DOMAIN program.threads[t] /\ j < Position(t, y)
  BY <1>3, <1>5
<1> QED
  BY <1>2, <1>3, <1>5, <1>6

(* An event is once in a thread, and is what its entry there says.         *)
LEMMA Positions ==
  ASSUME program \in Programs, NEW t \in Threads, NEW k \in DOMAIN program.threads[t]
  PROVE  /\ program.threads[t][k].event_id \in Ids
         /\ Position(t, program.threads[t][k].event_id) = k
         /\ Event(program.threads[t][k].event_id).kind = KindAt(program, t, k)
<1> DEFINE id == program.threads[t][k].event_id
<1>1. /\ id \in Ids
      /\ \A j \in DOMAIN program.threads[t] : program.threads[t][j].event_id = id => j = k
  BY ProgramsAssumption DEF Ids, Threads
<1>2. Position(t, id) = k
  BY <1>1 DEF Position
<1> QED
  BY <1>1, <1>2 DEF KindAt, Event

(* The dominators of an event that communicates lead to all communication  *)
(* before it.                                                              *)
LEMMA DominatorsAreBefore ==
  ASSUME program \in Programs, JustCommunicates(program),
         NEW y \in IdsOf(Communication)
  PROVE  /\ Cidom(y) \subseteq Predecessors(y) \intersect IdsOf(Communication)
         /\ \A x \in Predecessors(y) \intersect IdsOf(Communication) :
              x \in Cidom(y) \/ \E z \in Cidom(y) : x \in Predecessors(z)
<1> DEFINE t == Event(y).thread_id
           es == program.threads[t]
<1>1. /\ y \in Ids /\ Event(y).kind \in Communication
      /\ \E u \in Threads : Event(y) \in ToSet(program.threads[u])
      /\ Event(y).event_id = y
  BY ProgramsAssumption DEF IdsOf, Ids, Event, Threads
<1>8. PICK u \in Threads :
        \E k \in DOMAIN program.threads[u] : program.threads[u][k].event_id = y
  BY <1>1 DEF ToSet
<1>2. PICK k \in DOMAIN program.threads[u] : program.threads[u][k].event_id = y
  BY <1>8
<1>3. u = t /\ k \in DOMAIN es /\ es[k].event_id = y /\ KindAt(program, t, k) \in Communication
      /\ t \in Threads /\ Position(t, y) = k
  <2>1. KindAt(program, u, k) \in Communication
    BY <1>1, <1>2, Positions
  <2>2. program.event[program.threads[u][k].event_id].thread_id = u
    BY <1>2, <2>1 DEF JustCommunicates, Threads
  <2>3. u = t
    BY <1>2, <2>2 DEF Event
  <2> QED
    BY <1>2, <2>1, <2>3, Positions
<1>4. /\ DOMAIN es = 1 .. Len(es) /\ Len(es) \in Nat
  BY <1>3, ThreadsAreSequences
<1>5. Cidom(y) = {es[j].event_id : j \in CommunicationBefore(program, t, k)}
  <2> DEFINE D == {q \in ImmediateDominatorMap(es, Communication) : q[1] = k}
  <2>1. {d[2] : d \in D} = CommunicationBefore(program, t, k)
    BY <1>3 DEF JustCommunicates, Threads
  <2>2. Cidom(y) = {es[d[2]].event_id : d \in D}
    BY <1>3 DEF Cidom, CidomOf
  <2> HIDE DEF D
  <2> QED
    BY <2>1, <2>2
<1>6. ASSUME NEW x \in Cidom(y)
      PROVE  x \in Predecessors(y) /\ x \in IdsOf(Communication)
  <2>1. PICK j \in 1 .. k - 1 : es[j].event_id = x /\ KindAt(program, t, j) \in Communication
    BY <1>5, <1>6 DEF CommunicationBefore
  <2>2. j \in DOMAIN es /\ j < k
    BY <1>3, <1>4, <2>1
  <2>3. Before(program, t, x, y)
    BY <1>3, <2>1, <2>2 DEF Before
  <2>4. x \in Ids /\ Event(x).kind \in Communication
    BY <1>3, <2>1, <2>2, Positions
  <2> QED
    BY <1>3, <2>3, <2>4, BeforeIsPredecessor DEF IdsOf
<1>7. ASSUME NEW x \in Predecessors(y), x \in IdsOf(Communication)
      PROVE  x \in Cidom(y) \/ \E z \in Cidom(y) : x \in Predecessors(z)
  <2>1. PICK v \in Threads : \E i, j \in DOMAIN program.threads[v] :
          i < j /\ program.threads[v][i].event_id = x /\ program.threads[v][j].event_id = y
    BY <1>7, PredecessorIsBefore
  <2>2. PICK i, j \in DOMAIN program.threads[v] :
          i < j /\ program.threads[v][i].event_id = x /\ program.threads[v][j].event_id = y
    BY <2>1
  <2>3. v = t /\ j = k
    <3>1. KindAt(program, v, j) \in Communication
      BY <1>1, <2>2, Positions
    <3>2. program.event[program.threads[v][j].event_id].thread_id = v
      BY <2>2, <3>1 DEF JustCommunicates, Threads
    <3> QED
      BY <1>3, <2>2, <3>2, Positions DEF Event
  <2>4. i \in DOMAIN es /\ i < k /\ es[i].event_id = x /\ KindAt(program, t, i) \in Communication
    BY <1>7, <2>2, <2>3, Positions DEF IdsOf
  <2> DEFINE J == {m \in i .. k - 1 : KindAt(program, t, m) \in Communication}
  <2>5. PICK m \in J : \A n \in J : n <= m
    <3>1. J # {} /\ \A n \in J : k - n \in Nat
      BY <1>3, <1>4, <2>4
    <3>2. PICK m \in J : \A n \in J : [l \in J |-> k - l][m] <= [l \in J |-> k - l][n]
      BY <3>1, FirstClock
    <3> QED
      BY <1>3, <1>4, <2>4, <3>2
  <2>6. m \in CommunicationBefore(program, t, k)
    BY <1>3, <1>4, <2>4, <2>5 DEF CommunicationBefore
  <2>7. CASE m = i
    BY <1>5, <2>4, <2>6, <2>7
  <2>8. CASE m # i
    <3>1. m \in DOMAIN es /\ i < m
      BY <1>3, <1>4, <2>4, <2>5, <2>8
    <3>2. Before(program, t, x, es[m].event_id)
      BY <2>4, <3>1 DEF Before
    <3> QED
      BY <1>3, <1>5, <2>6, <3>2, BeforeIsPredecessor
  <2> QED
    BY <2>7, <2>8
<1> QED
  BY <1>6, <1>7

(* Communication in no scope happens on every path.                        *)
LEMMA CommunicationIsUnconditional ==
  ASSUME program \in Programs, JustCommunicates(program), NEW id \in IdsOf(Communication)
  PROVE  Communicates(id)
<1>1. /\ id \in Ids /\ Event(id).kind \in Communication /\ Event(id).event_id = id
      /\ \E t \in Threads : Event(id) \in ToSet(program.threads[t])
  BY ProgramsAssumption DEF IdsOf, Ids, Event, Threads
<1>2. PICK t \in Threads :
        \E k \in DOMAIN program.threads[t] : program.threads[t][k].event_id = id
  BY <1>1 DEF ToSet
<1>3. PICK k \in DOMAIN program.threads[t] : program.threads[t][k].event_id = id
  BY <1>2
<1>4. KindAt(program, t, k) \in Communication
  BY <1>1, <1>3, Positions
<1>5. Event(id).guard = {}
  BY <1>3, <1>4 DEF JustCommunicates, Threads, Event
<1> QED
  BY <1>1, <1>5 DEF Communicates, Guard, Enabled, Holds

(* All communication before an event that meets another has met, too.      *)
LEMMA MatchedAfterMatched ==
  ASSUME IInv, phase = "replay", JustCommunicates(program),
         NEW y \in IdsOf(Communication), Matched(y),
         NEW x \in Predecessors(y), x \in IdsOf(Communication)
  PROVE  Matched(x)
<1> DEFINE time == solution.time
           Good(z) == \A w \in Predecessors(z) \intersect IdsOf(Communication) : Matched(w)
           S == {z \in IdsOf(Communication) : Matched(z)}
           B == {z \in S : ~Good(z)}
<1>1. DOMAIN time = Ids /\ (\A z \in Ids : time[z] \in Nat) /\ program \in Programs
  BY DEF IInv, Shape, Clocks, Solved
<1>2. S \subseteq Ids
  BY DEF IdsOf
<1>3. SUFFICES ASSUME B # {} PROVE FALSE
  OBVIOUS
<1>4. PICK first \in B : \A z \in B : time[first] <= time[z]
  <2>1. B \in SUBSET S /\ \A z \in S : time[z] \in Nat
    BY <1>1, <1>2
  <2> HIDE DEF S, B
  <2> QED
    BY <1>3, <2>1, FirstClock
<1>5. PICK p \in Matchables : first \in {p[1], p[2]} /\ Match(p, solution)
  BY DEF Matched, communication_match_disjunction
<1>6. \A z \in Cidom(first) : Matched(z)
  <2>1. ExtMatch(solution)
    BY DEF IInv, Solved, encode, encode_communication_concurrency
  <2>2. communication_match_conjunction(Cidom(p[1]) \union Cidom(p[2]), solution)
    BY <1>5, <2>1 DEF ExtMatch
  <2> QED
    BY <1>5, <2>2 DEF communication_match_conjunction, Matched
<1>7. PICK w \in Predecessors(first) \intersect IdsOf(Communication) : ~Matched(w)
  BY <1>4
<1>8. PICK z \in Cidom(first) : w \in Predecessors(z)
  BY <1>1, <1>4, <1>6, <1>7, DominatorsAreBefore
<1>9. z \in IdsOf(Communication) /\ z \in Predecessors(first)
  BY <1>1, <1>4, <1>8, DominatorsAreBefore
<1>10. z \in B
  BY <1>6, <1>7, <1>8, <1>9
<1>11. time[z] < time[first]
  BY <1>1, <1>2, <1>4, <1>9, PredecessorsEarlier
<1>12. time[z] \in Nat /\ time[first] \in Nat /\ time[first] <= time[z]
  BY <1>1, <1>2, <1>4, <1>10
<1> QED
  BY <1>11, <1>12

(* When nothing is ready, all that waits for no communication is done.     *)
LEMMA StartsAreDone ==
  ASSUME IInv, ReplayInv, phase = "replay", Ready = {},
         NEW x, NeedsNoCommunication(program, x)
  PROVE  x \in ToSet(replayed)
<1> DEFINE time == solution.time
<1>1. PICK ids \in SUBSET Ids :
         x \in ids /\ ClosedDownwards(program, ids) /\ \A y \in ids : Event(y).kind \in Sync
  BY DEF NeedsNoCommunication, Ids, Event
<1>2. DOMAIN time = Ids /\ (\A z \in Ids : time[z] \in Nat) /\ program \in Programs
  BY DEF IInv, Shape, Clocks, Solved
<1> DEFINE T == ids \ ToSet(replayed)
<1>3. SUFFICES ASSUME T # {} PROVE FALSE
  BY <1>1
<1>4. PICK first \in T : \A z \in T : time[first] <= time[z]
  <2>1. T \in SUBSET Ids
    OBVIOUS
  <2> HIDE DEF T
  <2> QED
    BY <1>2, <1>3, <2>1, FirstClock
<1>5. \A w \in Predecessors(first) : w \in ToSet(replayed)
  <2> SUFFICES ASSUME NEW w \in Predecessors(first) PROVE w \in ToSet(replayed)
    OBVIOUS
  <2>1. \E t \in Threads : Before(program, t, w, first)
    BY <1>2, PredecessorIsBefore DEF Before
  <2>2. time[w] < time[first] /\ w \in Ids
    BY <1>2, <1>4, PredecessorsEarlier
  <2>3. w \in ids
    BY <1>1, <1>4, <2>1, <2>2 DEF ClosedDownwards, Threads, Ids
  <2>4. w \in T => time[first] <= time[w]
    BY <1>4
  <2>5. time[w] \in Nat /\ time[first] \in Nat
    BY <1>2, <1>4, <2>2
  <2> QED
    BY <2>2, <2>3, <2>4, <2>5
<1>6. Event(first).kind \notin Communication
  BY <1>1, <1>4 DEF Sync, Communication, Receive, Send
<1>7. first \in Pending /\ Together(first) = <<first>>
  BY <1>4, <1>5, <1>6 DEF Pending, Waits, Together
<1>8. ToSet(<<first>>) = {first}
  BY DEF ToSet
<1>9. first \in Ready
  BY <1>7, <1>8 DEF Ready
<1> QED
  BY <1>9

(* Two that meet, with all before them done, are ready to be replayed.     *)
LEMMA MeetingIsReady ==
  ASSUME NEW r, NEW s, Meeting(r, s), r \in Pending, s \in Pending
  PROVE  r \in Ready
<1>1. Event(r).kind \in Communication /\ Event(r).kind \notin Send /\ Partner(r) = s
  BY DEF Meeting, IdsOf, Communication, Receive, Send, Partner
<1>2. Together(r) = <<s, r>>
  BY <1>1 DEF Together, Meeting
<1>3. ToSet(<<s, r>>) = {s, r}
  BY DEF ToSet
<1> QED
  BY <1>2, <1>3 DEF Ready

(* When nothing is ready, all that meets has met.                          *)
LEMMA MatchedIsReplayed ==
  ASSUME IInv, ReplayInv, phase = "replay", Ready = {}, JustCommunicates(program),
         NEW id \in IdsOf(Communication), Matched(id)
  PROVE  id \in ToSet(replayed)
<1> DEFINE time == solution.time
           R == ToSet(replayed)
           T == {z \in IdsOf(Communication) : Matched(z) /\ z \notin R}
<1>1. DOMAIN time = Ids /\ (\A z \in Ids : time[z] \in Nat) /\ program \in Programs
  BY DEF IInv, Shape, Clocks, Solved
<1>2. SUFFICES ASSUME T # {} PROVE FALSE
  OBVIOUS
<1>3. PICK first \in T : \A z \in T : time[first] <= time[z]
  <2>1. T \in SUBSET Ids
    BY DEF IdsOf
  <2> HIDE DEF T
  <2> QED
    BY <1>1, <1>2, <2>1, FirstClock
<1>4. Communicates(first) /\ first \in Ids /\ ~Waits(first)
  BY <1>1, <1>3, CommunicationIsUnconditional DEF IdsOf, Waits
<1>5. PICK r, s : Meeting(r, s) /\ first \in {r, s}
  BY <1>4, SomeMeeting
<1>6. \A z \in {r, s} :
        /\ z \in IdsOf(Communication) /\ z \in Ids /\ z \notin R
        /\ Matched(z) /\ time[z] = time[first]
  <2>1. /\ r \in IdsOf(Communication) /\ s \in IdsOf(Communication)
        /\ r \in Ids /\ s \in Ids /\ time[r] = time[s]
        /\ Partners(r) = {s} /\ Partners(s) = {r}
    BY <1>5 DEF Meeting, IdsOf, Communication, simultaneous
  <2>2. Matched(r) /\ Matched(s)
    <3>1. <<r, s>> \in Matchables /\ Match(<<r, s>>, solution)
      BY <1>5 DEF Meeting, Match
    <3> QED
      BY <3>1 DEF Matched, communication_match_disjunction
  <2>3. r \notin R /\ s \notin R
    <3>1. Communicates(r) /\ Communicates(s)
      BY <1>1, <2>1, CommunicationIsUnconditional
    <3> QED
      BY <1>3, <1>5, <2>1, <3>1 DEF ReplayInv, ClosedUnder
  <2> QED
    BY <1>5, <2>1, <2>2, <2>3
<1>7. ASSUME NEW z \in {r, s}, NEW w \in Predecessors(z)
      PROVE  w \in R
  <2>1. w \in Ids /\ time[w] < time[z]
    BY <1>1, <1>6, PredecessorsEarlier
  <2>2. PICK t \in Threads : \E j, k \in DOMAIN program.threads[t] :
          j < k /\ program.threads[t][j].event_id = w /\ program.threads[t][k].event_id = z
    BY <1>1, PredecessorIsBefore
  <2>3. PICK j, k \in DOMAIN program.threads[t] :
          j < k /\ program.threads[t][j].event_id = w /\ program.threads[t][k].event_id = z
    BY <2>2
  <2>4. /\ KindAt(program, t, k) \in Communication
        /\ KindAt(program, t, j) = Event(w).kind
        /\ KindAt(program, t, j) \in Sync \union Communication
        /\ j \in 1 .. k - 1
    <3>1. KindAt(program, t, k) = Event(z).kind /\ KindAt(program, t, j) = Event(w).kind
      BY <1>1, <2>3, Positions
    <3>2. KindAt(program, t, j) \in Sync \union Communication
      BY <2>3 DEF JustCommunicates, Threads
    <3>3. j \in 1 .. k - 1
      BY <1>1, <2>3, ThreadsAreSequences
    <3> QED
      BY <1>6, <3>1, <3>2, <3>3 DEF IdsOf
  <2>5. CASE Event(w).kind \in Sync
    <3>1. NeedsNoCommunication(program, w)
      BY <2>3, <2>4, <2>5 DEF JustCommunicates, Threads
    <3> QED
      BY <3>1, StartsAreDone
  <2>6. CASE Event(w).kind \in Communication
    <3>1. w \in IdsOf(Communication)
      BY <2>1, <2>6 DEF IdsOf
    <3>2. Matched(w)
      BY <1>6, <3>1, MatchedAfterMatched
    <3>3. time[w] \in Nat /\ time[first] \in Nat /\ time[w] < time[first]
      BY <1>1, <1>4, <1>6, <2>1
    <3>4. w \in T => time[first] <= time[w]
      BY <1>3
    <3> QED
      BY <3>1, <3>2, <3>3, <3>4
  <2> QED
    BY <2>4, <2>5, <2>6
<1>8. r \in Pending /\ s \in Pending
  BY <1>6, <1>7 DEF Pending, Waits
<1>9. r \in Ready
  BY <1>5, <1>8, MeetingIsReady
<1> QED
  BY <1>9

(* When nothing is ready, the machine has a deadlock: no start or wait is  *)
(* next, else it were ready, and what is next of the communication is not  *)
(* matched, so two that could meet would break the axiom of maximal matches.*)
LEMMA NothingReadyIsDeadlock ==
  ASSUME IInv, ReplayInv, SomeThreadIsStuck, phase = "replay", query = "check_deadlock",
         Ready = {}, JustCommunicates(program)
  PROVE  Machine!Deadlock
<1> DEFINE R == ToSet(replayed)
<1>1. /\ Machine!Happened = R /\ Machine!Threads = Threads
      /\ Machine!Communication = Communication
      /\ \A id : Machine!IsNext(id) <=> id \notin R /\ Predecessors(id) \subseteq R
  <2>1. Machine!Happened = R
    BY DEF Machine!Happened, Machine!ToSet, ToSet
  <2> QED
    BY <2>1, MachineOps DEF Machine!IsNext, Machine!Threads, Threads,
         Machine!Communication, Communication
<1>2. program \in Programs /\ DOMAIN solution.time = Ids
  BY DEF IInv, Shape, Solved
(* A thread does not get through its last communication.                   *)
<1>3. \E t \in Machine!Threads \ {1} :
        ~ \A e \in Machine!ToSet(program.threads[t]) : e.event_id \in Machine!Happened
  <2>1. PICK t \in Threads \ {1} : ~communication_match_conjunction(CidomOfEnd(t), solution)
    BY DEF SomeThreadIsStuck, Finalizers
  <2> DEFINE es == program.threads[t]
  <2>2. PICK d \in ImmediateDominatorMap(es, Communication) :
          d[1] = Len(es) /\ ~Matched(es[d[2]].event_id)
    BY <2>1 DEF communication_match_conjunction, Matched, CidomOfEnd, CidomOf
  <2>3. /\ DOMAIN es = 1 .. Len(es) /\ Len(es) \in Nat
    BY <1>2, ThreadsAreSequences
  <2>4. d[2] \in CommunicationBefore(program, t, Len(es))
    <3>1. Len(es) \in DOMAIN es
      <4>1. Len(es) >= 2
        BY <2>2, <2>3 DEF ImmediateDominatorMap
      <4> QED
        BY <2>3, <4>1
    <3>2. {q[2] : q \in {q \in ImmediateDominatorMap(es, Communication) : q[1] = Len(es)}}
            = CommunicationBefore(program, t, Len(es))
      BY <3>1 DEF JustCommunicates, Threads
    <3> QED
      BY <2>2, <3>2
  <2>5. d[2] \in DOMAIN es /\ KindAt(program, t, d[2]) \in Communication
    BY <2>3, <2>4 DEF CommunicationBefore
  <2> DEFINE id == es[d[2]].event_id
  <2>6. id \in IdsOf(Communication)
    BY <1>2, <2>5, Positions DEF IdsOf
  <2>7. Waits(id)
    BY <1>2, <2>2, <2>6, CommunicationIsUnconditional DEF Waits, Communicates
  <2>8. id \notin R
    BY <2>7 DEF ReplayInv, ClosedUnder
  <2>9. es[d[2]] \in Machine!ToSet(es)
    BY <2>5 DEF Machine!ToSet
  <2> QED
    BY <1>1, <2>1, <2>8, <2>9
<1>4. ASSUME NEW id \in IdsOf(Sync), Machine!IsNext(id) PROVE FALSE
  <2>1. id \in Ids /\ Event(id).kind \notin Communication
    BY DEF IdsOf, Sync, Communication, Receive, Send
  <2>2. id \in Pending /\ Together(id) = <<id>>
    BY <1>1, <1>4, <2>1 DEF Pending, Waits, Together
  <2>3. ToSet(<<id>>) = {id}
    BY DEF ToSet
  <2> QED
    BY <2>2, <2>3 DEF Ready
<1>5. ASSUME NEW id \in IdsOf(Communication), Machine!IsNext(id)
      PROVE  Guard(id, solution) /\ Machine!Enabled(id, ReplayedVal)
  <2>1. Reached(id)
    BY <1>1, <1>5 DEF Reached, IdsOf, Communication, Receive, Send, Sync
  <2>2. Guard(id, solution)
    BY <1>2, CommunicationIsUnconditional DEF Communicates
  <2> QED
    BY <2>1, <2>2, SameGuard, MachineOps
<1>6. ASSUME NEW r \in IdsOf(Receive), NEW s \in IdsOf(Send), Machine!CanMeet(r, s)
      PROVE  FALSE
  <2>1. /\ Machine!IsNext(r) /\ Machine!IsNext(s) /\ Machine!Meets(r, s)
        /\ r \in IdsOf(Communication) /\ s \in IdsOf(Communication)
        /\ r \notin R /\ s \notin R /\ Predecessors(r) \subseteq R /\ Predecessors(s) \subseteq R
    BY <1>1, <1>6 DEF Machine!CanMeet, IdsOf, Communication
  <2>2. ~Matched(r) /\ ~Matched(s)
    BY <2>1, MatchedIsReplayed
  <2>3. <<r, s>> \in Matchables
    BY <2>1, MachineOps
       DEF Machine!Meets, Matchables, MatchableOnChannel, MatchableMessages,
           Machine!s_wildcard_address, s_wildcard_address
  <2>4. communication_match_conjunction(Cidom(r) \union Cidom(s), solution)
    <3>1. ASSUME NEW z \in Cidom(r) \union Cidom(s) PROVE Matched(z)
      <4>1. z \in R /\ z \in IdsOf(Communication)
        BY <1>2, <2>1, <3>1, DominatorsAreBefore
      <4>2. Communicates(z) /\ ~Waits(z)
        BY <1>2, <4>1, CommunicationIsUnconditional DEF ReplayInv, ClosedUnder
      <4> QED
        BY <4>2 DEF Communicates, Waits
    <3> QED
      BY <3>1 DEF communication_match_conjunction, Matched
  <2>5. communication_excl(<<r, s>>, solution)
    BY <2>2 DEF communication_excl, Matched, communication_match_disjunction
  <2>6. Match(<<r, s>>, solution)
    <3>1. ExtMatch(solution)
      BY DEF IInv, Solved, encode, encode_communication_concurrency
    <3>2. Guard(r, solution) /\ Guard(s, solution)
      BY <1>5, <2>1
    <3> QED
      BY <2>3, <2>4, <2>5, <3>1, <3>2 DEF ExtMatch
  <2> QED
    BY <2>2, <2>3, <2>6 DEF Matched, communication_match_disjunction
<1> QED
  BY <1>1, <1>3, <1>4, <1>5, <1>6, MachineOps DEF Machine!Deadlock

(* Each solution that check_deadlock() finds leads, along its replay, to a *)
(* state in which no thread can go on and one has not ended: no deadlock is*)
(* a false alarm, for threads that just communicate.                       *)
THEOREM DeadlocksAreReal ==
  ASSUME \A p \in Programs : "check_deadlock" \in p.queries => JustCommunicates(p)
  PROVE  Spec => []DeadlockIsReal
<1>1. IInv /\ ReplayInv /\ SomeThreadIsStuck => DeadlockIsReal
  BY NothingReadyIsDeadlock DEF DeadlockIsReal, IInv, Shape
<1> QED
  BY <1>1, SolutionInvariant, ReplayInvariant, StuckInvariant, PTL
=============================================================================
