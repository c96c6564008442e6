-------------------------------- MODULE Solver --------------------------------
(***************************************************************************)
(* class Solver (include/smt.h, src/smt.cpp) with one of the back ends     *)
(* derived from it: Z3, MathSAT, STP, CVC4 (include/smt_z3.h and so on) or *)
(* DeduceSolver, and the expressions that it is given.                     *)
(*                                                                         *)
(* The base class keeps the assertions, as pointers, and how many of them  *)
(* each level has.  A back end keeps its own terms on its own stack; it is *)
(* told when an expression is deleted, and MathSAT, STP and CVC4 remember  *)
(* the terms they have made, by the address of the expression or, CVC4     *)
(* without hash consing, by name.  What the libraries behind the back ends *)
(* do is known from how they are used; a query has the right answer or     *)
(* none.  A term is a formula over the back end's variables: a symbol and  *)
(* a number, because CVC4's mkVar makes a new variable even of an old name.*)
(***************************************************************************)
EXTENDS Expressions

CONSTANTS
  Backend,              \* subset of {"z3", "msat", "stp", "cvc4", "deduce"}
  Connectives,          \* which of "land", "lor" the client of each one uses
  MaxAssertions,        \* bounds the assertions,
  MaxLevel,             \* the levels
  MaxAssumptions,       \* and the assumptions of a query
  AssumesAnyFormula,    \* does MathSAT get assumptions that are not symbols?
  NegatesConjunctions   \* does DeduceSolver get negated conjunctions?

ASSUME SolverAssumption ==
  /\ \A b \in Backend : Connectives[b] \subseteq {"land", "lor"}
  /\ MaxAssertions \in Nat
  /\ MaxLevel \in Nat
  /\ MaxAssumptions \in Nat

VARIABLES
  registered,   \* is there a solver now?
  backend,      \* which one
  assertions,   \* m_assertions: addresses
  marks,        \* m_assertion_stack: how many assertions each level has
  cache,        \* m_term_map or m_expr_map
  frames,       \* the back end's stack: the terms asserted at each level
  answer,       \* the last query and its answer, if that was the last call
  meant         \* history: the meanings of what the client has asserted and
                \* not taken back, level by level

solver_vars == <<registered, backend, assertions, marks, cache, frames>>
client_vars == <<answer, meant>>
vars == <<expr_vars, solver_vars, client_vars>>

NoAnswer == [verdict |-> "none", core |-> <<>>, assumed |-> <<>>, room |-> 0]

----------------------------------------------------------------------------
(* Deduction: the unit propagation of class DeduceSolver                   *)
(* (include/smt_deduce.h) over the Boolean skeleton of expressions.        *)
(* m_partial_assignment is a set of facts, pairs of an address and a truth *)
(* value; m_is_negation is a parameter.  A result is the facts and whether *)
(* a conflict was found, which ends the propagation.                       *)

Facts == SUBSET (Addr \X BOOLEAN)

Result(facts, conflict) == [facts |-> facts, conflict |-> conflict]

is_false(facts, a) == <<a, FALSE>> \in facts

unit_propagate(facts, a, fact) ==
  IF <<a, ~fact>> \in facts
  THEN Result(facts, TRUE)
  ELSE Result(facts \union {<<a, fact>>}, FALSE)

(* __encode_binary_land and __encode_binary_lor propagate into an operand  *)
(* if the other one leaves no choice; so they believe                      *)
Forced(op, neg, facts, other) ==
  \/ op = "land" /\ ~neg
  \/ op = "lor" /\ neg
  \/ is_false(facts, other)

(* A conjunction that is false does not make an operand false because the  *)
(* other one is false                                                      *)
Propagate[a \in Addr] ==
  [neg \in BOOLEAN |-> [facts \in Facts |->
    LET args == heap[a].args
        Binary(op) ==
          LET r == IF Forced(op, neg, facts, args[1])
                   THEN Propagate[args[2]][neg][facts]
                   ELSE Result(facts, FALSE)
          IN  IF ~r.conflict /\ Forced(op, neg, r.facts, args[2])
              THEN Propagate[args[1]][neg][r.facts]
              ELSE r
    IN  CASE heap[a].kind = "symbol" -> unit_propagate(facts, a, ~neg)
          [] heap[a].kind = "lnot" -> Propagate[args[1]][~neg][facts]
          [] heap[a].kind \in {"land", "lor"} -> Binary(heap[a].kind)
          [] OTHER -> Result(facts, FALSE)]]

(* __encode_nary over the assertions *)
PropagateAll(asserted, facts) ==
  LET UpTo[i \in 0 .. Len(asserted)] ==
        IF i = 0 THEN Result(facts, FALSE)
        ELSE LET r == UpTo[i - 1]
             IN  IF r.conflict THEN r ELSE Propagate[asserted[i]][FALSE][r.facts]
  IN  UpTo[Len(asserted)]

(* __check() propagates until there are no new facts.  Each round but the  *)
(* last one has a new fact.                                                *)
Deduced(asserted) ==
  LET rounds == Cardinality(Addr) + 1
      Round[n \in 0 .. rounds] ==
        IF n = 0 THEN Result({}, FALSE)
        ELSE LET r == Round[n - 1]
             IN  IF r.conflict THEN r ELSE PropagateAll(asserted, r.facts)
  IN  IF Round[rounds].conflict THEN "unsat" ELSE "unknown"

(* Is there a conjunction in the expression? *)
HasConjunction[a \in Addr] ==
  \/ heap[a].kind = "land"
  \/ \E i \in DOMAIN heap[a].args : HasConjunction[heap[a].args[i]]

(* and below a negation? *)
NegatesConjunction[a \in Addr] ==
  \/ heap[a].kind = "lnot" /\ HasConjunction[a]
  \/ \E i \in DOMAIN heap[a].args : NegatesConjunction[heap[a].args[i]]

----------------------------------------------------------------------------
(* Encoding *)

(* A fault: CVC4's variables are filed by address, with hash consing or not *)
KeyIsAddress(a) == a

(* What the back end files an expression's term under *)
Key(a) == IF backend = "cvc4" /\ ~consing THEN heap[a].name ELSE a

Caches(a) ==
  \/ backend \in {"msat", "stp"}
  \/ backend = "cvc4" /\ heap[a].kind = "symbol"

(* find_term(), find_expr() *)
IsCached(a) == Caches(a) /\ Key(a) \in DOMAIN cache

TermsInUse == {cache[k] : k \in DOMAIN cache} \union UNION {frames[l] : l \in DOMAIN frames}

VariablesInUse == UNION {t.over : t \in TermsInUse}

(* The variable a back end makes of a symbol *)
Variable(s) ==
  IF backend = "cvc4"
  THEN <<s, CHOOSE n \in 0 .. Cardinality(VariablesInUse) :
              /\ <<s, n>> \notin VariablesInUse
              /\ \A m \in 0 .. n - 1 : <<s, m>> \in VariablesInUse>>
  ELSE <<s, 0>>

(* encode(): the term of an expression, *)
Term[a \in Addr] ==
  LET arg(i) == Term[heap[a].args[i]]
  IN  CASE IsCached(a) -> cache[Key(a)]
        [] ~IsCached(a) /\ heap[a].kind = "symbol" -> Atom(Variable(heap[a].name))
        [] ~IsCached(a) /\ heap[a].kind = "lnot" -> Negation(arg(1))
        [] ~IsCached(a) /\ heap[a].kind = "land" -> Conjunction(arg(1), arg(2))
        [] ~IsCached(a) /\ heap[a].kind = "lor" -> Disjunction(arg(1), arg(2))
        [] OTHER -> Nothing

(* the expressions that are encoded on the way to it, *)
Visited[a \in Addr] ==
  {a} \union
    IF IsCached(a) THEN {}
    ELSE UNION {Visited[heap[a].args[i]] : i \in DOMAIN heap[a].args}

(* and the cache after that *)
CacheAfter(encoded) ==
  LET new == {b \in Addr : Caches(b) /\ ~IsCached(b) /\ \E a \in encoded : b \in Visited[a]}
      TermOf(k) == Term[CHOOSE b \in new : Key(b) = k]
  IN  [k \in DOMAIN cache \union {Key(b) : b \in new} |->
         IF k \in DOMAIN cache THEN cache[k] ELSE TermOf(k)]

(* DeduceSolver keeps no terms: it looks at the assertions when it is asked *)
Keeps == backend # "deduce"

----------------------------------------------------------------------------
SolverInit ==
  /\ registered = TRUE
  /\ backend \in Backend
  /\ assertions = <<>>
  /\ marks = <<>>
  /\ cache = [k \in {} |-> Nothing]
  /\ frames = <<{}>>

Init == ExprInit /\ SolverInit /\ answer = NoAnswer /\ meant = << <<>> >>

(* A call by the client; it can call nothing before the call before returns *)
Calls == Idle /\ registered /\ answer = NoAnswer

(* The references of a part of m_assertions, given up by the destructors *)
Released(ptrs) == [i \in DOMAIN ptrs |-> Step("dec", ptrs[i])]

push ==
  /\ Calls
  /\ Len(marks) < MaxLevel
  /\ marks' = Append(marks, 0)
  /\ frames' = IF Keeps THEN Append(frames, {}) ELSE frames
  /\ meant' = Append(meant, <<>>)
  /\ UNCHANGED <<expr_vars, registered, backend, assertions, cache, answer>>

(* A fault: pop() forgets to remove the assertions *)
KeptAll == Len(assertions)

(* pop(): the assertions of the level are given up before __pop() *)
Kept == Len(assertions) - Last(marks)

pop ==
  /\ Calls
  /\ marks # <<>>
  /\ marks' = Front(marks)
  /\ assertions' = SubSeq(assertions, 1, Kept)
  /\ todo' = Released(SubSeq(assertions, Kept + 1, Len(assertions)))
               \o <<Step("pop", Null)>>
  /\ meant' = Front(meant)
  /\ UNCHANGED <<heap, handle, consing, store, leaked, registered, backend, cache, frames,
                 answer>>

__pop ==
  /\ Doing("pop")
  /\ frames' = IF Keeps THEN Front(frames) ELSE frames
  /\ todo' = Tail(todo)
  /\ UNCHANGED <<heap, handle, consing, store, leaked, registered, backend,
                 assertions, marks, cache, client_vars>>

reset ==
  /\ Calls
  /\ assertions' = <<>>
  /\ marks' = <<>>
  /\ todo' = Released(assertions) \o <<Step("reset", Null)>>
  /\ meant' = << <<>> >>
  /\ UNCHANGED <<heap, handle, consing, store, leaked, registered, backend, cache, frames,
                 answer>>

__reset ==
  /\ Doing("reset")
  /\ frames' = <<{}>>
  /\ cache' = [k \in {} |-> Nothing]
  /\ todo' = Tail(todo)
  /\ UNCHANGED <<heap, handle, consing, store, leaked, registered, backend,
                 assertions, marks, client_vars>>

----------------------------------------------------------------------------
(* A fault: add() counts the assertion again that unsafe_add() has counted *)
CountedTwice == IF marks = <<>> THEN <<>> ELSE [marks EXCEPT ![Len(marks)] = @ + 2]

(* The top level has one assertion more *)
Counted == IF marks = <<>> THEN <<>> ELSE [marks EXCEPT ![Len(marks)] = @ + 1]

Asserted(a) ==
  /\ NegatesConjunctions \/ backend # "deduce" \/ ~NegatesConjunction[a]
  /\ assertions' = Append(assertions, a)
  /\ marks' = Counted
  /\ meant' = [meant EXCEPT ![Len(meant)] = Append(@, Meaning[a])]
  /\ cache' = IF Keeps THEN CacheAfter({a}) ELSE cache
  /\ frames' = IF Keeps THEN [frames EXCEPT ![Len(frames)] = @ \union {Term[a]}] ELSE frames

(* add(const Bool&), unsafe_add(const SharedExpr&) *)
add(v) ==
  /\ Calls
  /\ handle[v] # Null
  /\ Len(assertions) < MaxAssertions
  /\ Asserted(handle[v])
  /\ heap' = Inc(heap, <<handle[v]>>)
  /\ UNCHANGED <<handle, consing, store, leaked, todo, registered, backend, answer>>

(* add(Bool&&) *)
add_moved(v) ==
  /\ Calls
  /\ handle[v] # Null
  /\ Len(assertions) < MaxAssertions
  /\ Asserted(handle[v])
  /\ handle' = [handle EXCEPT ![v] = Null]
  /\ UNCHANGED <<heap, consing, store, leaked, todo, registered, backend, answer>>

----------------------------------------------------------------------------
(* Queries *)

AllFrames == UNION {frames[l] : l \in DOMAIN frames}

(* What a library answers for some terms *)
Verdicts(terms) == {"unknown", IF Consistent(terms) THEN "sat" ELSE "unsat"}

__check == IF Keeps THEN Verdicts(AllFrames) ELSE {Deduced(assertions)}

check ==
  /\ Calls
  /\ \E verdict \in IF assertions = <<>> THEN {"sat"} ELSE __check :
       answer' = [NoAnswer EXCEPT !.verdict = verdict]
  /\ UNCHANGED <<expr_vars, solver_vars, meant>>

(* The assumptions as the libraries want them: a symbol, or a proposition  *)
(* that stands for the assumption                                          *)
IsSymbol(a) == heap[a].kind = "symbol"

Props(assumptions) ==
  [i \in DOMAIN assumptions |->
     IF IsSymbol(assumptions[i]) THEN Term[assumptions[i]] ELSE Atom(<<Null, i>>)]

(* The positions stored in unsat_core, of those due to the unsatisfiability*)
(* the last ones there is room for.  A proposition is stored once for each *)
(* time that the back end's library has it in its core ("may contain       *)
(* duplicates", smt_z3.h:977, smt_msat.h:1227); the library's core is a    *)
(* set here.                                                               *)
StoredCore(props, core, room) ==
  LET due == {i \in DOMAIN props :
                props[i] \in core /\ \A j \in 1 .. i - 1 : props[j] # props[i]}
      ordered == CHOOSE s \in [1 .. Cardinality(due) -> due] :
                   \A i, j \in DOMAIN s : i < j => s[i] < s[j]
  IN  SubSeq(ordered, Len(ordered) - (IF room < Len(ordered) THEN room ELSE Len(ordered)) + 1,
             Len(ordered))

(* A query with the propositions defined by some terms; what it was about  *)
(* is remembered of a query that was answered                              *)
Unknown == [NoAnswer EXCEPT !.verdict = "unknown"]

Answers(assumptions, defining, room) ==
  LET props == Props(assumptions)
      given == AllFrames \union defining
      assumed == [i \in DOMAIN assumptions |-> Meaning[assumptions[i]]]
  IN  {Unknown} \union
      IF Consistent(given \union ToSet(props))
      THEN {[NoAnswer EXCEPT !.verdict = "sat", !.assumed = assumed]}
      ELSE {[verdict |-> "unsat", assumed |-> assumed, room |-> room,
             core |-> StoredCore(props, core, room)] :
              core \in {c \in SUBSET ToSet(props) : ~Consistent(given \union c)}}

(* Z3: z3_prop!i implies the assumption, until the query is over *)
Implied(assumptions) ==
  {Implication(Atom(<<Null, i>>), Term[assumptions[i]]) :
     i \in {j \in DOMAIN assumptions : ~IsSymbol(assumptions[j])}}

check_z3(assumptions, room) ==
  /\ answer' \in Answers(assumptions, Implied(assumptions), room)
  /\ UNCHANGED <<cache, frames>>

(* MathSAT: msat_prop!i is equivalent to it.  The assertions are restored  *)
(* where an unsatisfiability is reported, not where there is none.         *)
Equivalences(assumptions) ==
  {Equivalence(Atom(<<Null, i>>), Term[assumptions[i]]) :
     i \in {j \in DOMAIN assumptions : ~IsSymbol(assumptions[j])}}

check_msat(assumptions, room) ==
  /\ AssumesAnyFormula \/ \A i \in DOMAIN assumptions : IsSymbol(assumptions[i])
  /\ answer' \in Answers(assumptions, Equivalences(assumptions), room)
  /\ cache' = CacheAfter(ToSet(assumptions))
  /\ frames' = IF answer'.verdict = "unsat" THEN frames
               ELSE [frames EXCEPT ![1] = @ \union Equivalences(assumptions)]

(* STP, CVC4 and DeduceSolver do not support it *)
check_unsupported ==
  /\ answer' = Unknown
  /\ UNCHANGED <<cache, frames>>

check_assumptions(assumptions, room) ==
  /\ Calls
  /\ marks = <<>>
  /\ CASE backend = "z3" -> check_z3(assumptions, room)
       [] backend = "msat" -> check_msat(assumptions, room)
       [] OTHER -> check_unsupported
  /\ UNCHANGED <<expr_vars, registered, backend, assertions, marks, meant>>

----------------------------------------------------------------------------
(* A fault: notify_delete() does nothing, as it may for Z3 *)
NothingForgotten(a) == cache

(* notify_delete(): the caches by address forget the expression *)
Forgotten(a) == [k \in DOMAIN cache \ {a} |-> cache[k]]

DeleteAndNotify ==
  /\ DeleteExpr
  /\ cache' = IF registered THEN Forgotten(It) ELSE cache
  /\ UNCHANGED <<registered, backend, assertions, marks, frames, client_vars>>

DecStep == dec /\ UNCHANGED <<solver_vars, client_vars>>

(* The destructor: the back end is gone and the solver unregistered when   *)
(* the assertions are given up                                             *)
Destroy ==
  /\ Calls
  /\ registered' = FALSE
  /\ todo' = Released(assertions)
  /\ assertions' = <<>>
  /\ marks' = <<>>
  /\ cache' = [k \in {} |-> Nothing]
  /\ frames' = <<{}>>
  /\ meant' = << <<>> >>
  /\ UNCHANGED <<heap, handle, consing, store, leaked, backend, answer>>

(* The constructor *)
Construct ==
  /\ Idle
  /\ ~registered
  /\ registered' = TRUE
  /\ UNCHANGED <<expr_vars, backend, assertions, marks, cache, frames, client_vars>>

(* The client at work on expressions *)
Express ==
  /\ ExprNext(Connectives[backend])
  /\ UNCHANGED <<solver_vars, client_vars>>

(* The client has seen the answer *)
GoOn ==
  /\ answer # NoAnswer
  /\ answer' = NoAnswer
  /\ UNCHANGED <<expr_vars, solver_vars, meant>>

Next ==
  \/ answer = NoAnswer /\ Express
  \/ GoOn
  \/ \E v \in Handle : add(v) \/ add_moved(v)
  \/ push \/ pop \/ reset \/ check
  \/ \E hs \in BoundedSeq({h \in Handle : handle[h] # Null}, MaxAssumptions),
        room \in 0 .. MaxAssumptions :
       check_assumptions([i \in DOMAIN hs |-> handle[hs[i]]], room)
  \/ DecStep \/ DeleteAndNotify \/ __pop \/ __reset
  \/ Destroy \/ Construct

Spec == Init /\ [][Next]_vars
----------------------------------------------------------------------------
(* Properties *)

AddrOrNull == Addr \union {Null}

(* Each level's assertions follow those of the levels below it. *)
LevelsFit ==
  \E first \in [1 .. Len(marks) + 1 -> 0 .. Len(assertions)] :
    /\ first[Len(marks) + 1] = Len(assertions)
    /\ \A l \in 1 .. Len(marks) : first[l + 1] = first[l] + marks[l]

(* The state has the shape the code gives it; in particular, the levels do *)
(* not have more assertions than there are.                                *)
TypeOK ==
  /\ \A a \in Addr : /\ heap[a].kind \in {"none", "symbol", "lnot", "land", "lor"}
                     /\ heap[a].name \in Symbol \union {Null}
                     /\ heap[a].args \in BoundedSeq(Addr, 2)
                     /\ heap[a].refs \in Nat
  /\ handle \in [Handle -> AddrOrNull]
  /\ consing \in BOOLEAN
  /\ store \subseteq Addr
  /\ leaked \in [Addr -> Nat]
  /\ \A i \in DOMAIN todo : todo[i].what \in {"dec", "delete", "pop", "reset"}
  /\ registered \in BOOLEAN
  /\ backend \in Backend
  /\ assertions \in BoundedSeq(Addr, MaxAssertions)
  /\ marks \in BoundedSeq(0 .. MaxAssertions, MaxLevel)
  /\ LevelsFit
  /\ DOMAIN cache \subseteq Addr \union Symbol

(* The reference count of an expression is the number of pointers to it:   *)
(* the client's variables, the operands of other expressions, the          *)
(* assertions, what reset() has lost and what destructors have still to    *)
(* give up.  Nothing points to where there is no expression, the store     *)
(* neither, and an expression nothing points to is on its way out.         *)
OperandsAt(a) ==
  {operand \in Addr \X {1, 2} :
     /\ operand[2] \in DOMAIN heap[operand[1]].args
     /\ heap[operand[1]].args[operand[2]] = a
     /\ Step("delete", operand[1]) \notin ToSet(todo)}

Pointers(a) ==
  Cardinality({v \in Handle : handle[v] = a}) + Cardinality(OperandsAt(a))
    + Occurrences(assertions, a) + Occurrences(todo, Step("dec", a)) + leaked[a]

RefCountsExact ==
  /\ \A a \in Addr : heap[a].refs = Pointers(a)
  /\ \A a \in Addr : heap[a].refs = 0 => IsFree(a) \/ Step("delete", a) \in ToSet(todo)
  /\ \A a \in store : heap[a].refs > 0

(* With hash consing, equal expressions are one expression. *)
EqualsAreOne ==
  consing => \A a, b \in Addr : /\ heap[a].refs > 0
                                /\ heap[b].refs > 0
                                /\ ShapeAt(a) = ShapeAt(b)
                                => a = b

(* The symbol a back end's variable was made of *)
SymbolOf == [x \in (Symbol \union {Null}) \X Nat |-> x[1]]

MeaningOfTerm(t) == Renamed(t, SymbolOf)

(* A cached term means what the expression means that is at its address    *)
(* now, though others have been there before; and what is asserted is      *)
(* about the variables that symbols are encoded as now.                    *)
CacheCoherent ==
  /\ \A k \in DOMAIN cache \intersect Addr :
       \/ heap[k].refs > 0 /\ MeaningOfTerm(cache[k]) = Meaning[k]
       \/ Step("delete", k) \in ToSet(todo)
  /\ \A s \in DOMAIN cache \intersect Symbol : MeaningOfTerm(cache[s]) = Atom(s)
  /\ backend = "cvc4" /\ Idle =>
       \A x \in UNION {t.over : t \in AllFrames} :
         \E k \in DOMAIN cache : cache[k] = Atom(x)

(* The assertions still mean what they meant when they were added, and     *)
(* between calls, what the back end has on its stack is what the client    *)
(* has asserted and not taken back, level by level and no more.            *)
BackEndInStep ==
  /\ [i \in DOMAIN assertions |-> Meaning[assertions[i]]] = FlattenSeq(meant)
  /\ registered /\ Idle /\ Keeps =>
       /\ Len(frames) = Len(meant)
       /\ \A l \in DOMAIN frames :
            {MeaningOfTerm(t) : t \in frames[l]} = ToSet(meant[l])

(* The solver keeps the promise of its interface: every answer is right    *)
(* for the assertions that the client has on the stack, whichever back end *)
(* gives it and whatever expressions came and went before; an unsat core   *)
(* is one.                                                                 *)
Promise ==
  INSTANCE AssertionStack WITH levels <- meant, Formula <- FormulasOver(Symbol)

SolverKeepsPromise == Promise!Spec

(* The same of the answers alone: unsat is not said of what can be true,   *)
(* nor sat of what cannot.                                                 *)
AnswersAreRight ==
  LET all == UNION {ToSet(meant[l]) : l \in DOMAIN meant} \union ToSet(answer.assumed)
  IN  /\ answer.verdict = "unsat" => ~Consistent(all)
      /\ answer.verdict = "sat" => Consistent(all)
=============================================================================
