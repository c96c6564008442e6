---------------------------- MODULE KleeneChecker ----------------------------
(***************************************************************************)
(* A client that composes two programs with the operators of cka.h and     *)
(* asks whether the first refines the second: by the plain check, by the   *)
(* check of the memory model, or between the least fixed points of an      *)
(* operator.  The plain checks walk the pairs of strings (ProgramChecker); *)
(* the fixed-point check walks the powers of Y one string at a time,       *)
(* through the one vector of indices a LazyProgram lends to its iterators. *)
(***************************************************************************)
EXTENDS ReleaseAcquire, FiniteSetsExt, SequencesExt, Functions

CONSTANTS
    Labels,         \* labels of the letters a client composes
    MaxLengthX,     \* bound on the summed lengths of the strings of X
    MaxLengthY,     \* the same for Y
    MaxLength,      \* the same for X and Y together
    UIntWrap        \* 2^w for the unsigned integers of LazyProgram::size()

ASSUME LabelsAssumption == Labels \subseteq Nat /\ IsFiniteSet(Labels)
ASSUME BoundsAssumption == MaxLengthX \in Nat \ {0} /\ MaxLengthY \in Nat \ {0} /\ MaxLength \in Nat
ASSUME UIntWrapAssumption == UIntWrap \in Nat \ {0}

VARIABLES
    X, Y,           \* programs: sequences of partial strings
    query,          \* kind of the question asked, "none" between two questions
    at,             \* position in X.partial_strings()
    against,        \* position in Y.partial_strings(), in the plain checks
    vector,         \* LazyProgram::m_vector, the indices of the next composition
    ended,          \* PartialStringIterator::m_program_ptr = nullptr
    verdict,        \* the answer, "none" while the check runs
    seen,           \* history: the compositions the current iterator has made
    left, right     \* history: the partial orders X and Y stand for

vars == <<X, Y, query, at, against, vector, ended, verdict, seen, left, right>>
meant == <<left, right>>
checking == <<query, at, against, vector, ended, verdict, seen>>

(***************************************************************************)
(* The two checks of one partial string against another: Refinement asks a *)
(* solver for a strictly monotonic, label-preserving bijection, and        *)
(* memory::Refinement has that bijection obey the release-acquire axioms.  *)
(* A solver model is an order over the events of x, an event function and, *)
(* for the memory check, the values and sources of the accesses of y.      *)
(***************************************************************************)
shortcut(x, y) ==
    \/ length(x) # length(y)
    \/ x.min_label # y.min_label
    \/ x.max_label # y.max_label

more_precise_shortcut(x, y) ==
    \/ shortcut(x, y)
    \/ number_of_events_with_label(x, x.min_label) # number_of_events_with_label(y, x.min_label)

(***************************************************************************)
(* PartialOrderModel: the interpretations of order_x that contain the      *)
(* reduction of x, are irreflexive, asymmetric and transitive, and relate  *)
(* no incomparable pair.                                                   *)
(***************************************************************************)
strict_partial_order(x, R) ==
    /\ x.order \subseteq R
    /\ \A e \in EventsIn(x) : <<e, e>> \notin R
    /\ \A e, f \in EventsIn(x) : e < f /\ <<e, f>> \in R => <<f, e>> \notin R
    /\ \A e, f, g \in EventsIn(x) :
           e # f /\ e # g /\ f # g /\ <<e, f>> \in R /\ <<f, g>> \in R => <<e, g>> \in R

IncomparablesOneWay(x, R) == \A pair \in x.incomparables : pair \notin R

incomparables(x, R) ==
    \A pair \in x.incomparables : pair \notin R /\ <<pair[2], pair[1]>> \notin R

OrderModels(x) ==
    LET free == {pair \in EventsIn(x) \X EventsIn(x) :
                    /\ pair[1] # pair[2]
                    /\ pair \notin x.order
                    /\ <<pair[2], pair[1]>> \notin x.order}
    IN  {R \in {x.order \cup S : S \in SUBSET free} :
            strict_partial_order(x, R) /\ incomparables(x, R)}

(***************************************************************************)
(* The event functions that are bijective and preserve the labels (the     *)
(* labels of x are encoded as well), and the order they must respect.      *)
(***************************************************************************)
EventFunctions(x, y) ==
    {h \in [EventsIn(y) -> EventsIn(x)] :
        /\ \A e, f \in EventsIn(y) : e # f => h[e] # h[f]
        /\ \A e \in EventsIn(y) : x.labels[h[e]] = y.labels[e]}

Monotonic(y, R, h) == \A pair \in y.order : <<h[pair[1]], h[pair[2]]>> \in R

check(x, y) ==
    /\ ~shortcut(x, y)
    /\ \E R \in OrderModels(x) : \E h \in EventFunctions(x, y) : Monotonic(y, R, h)

(***************************************************************************)
(* The memory check: y happens before as x does after the event function.  *)
(***************************************************************************)
Pulled(y, R, h) == {pair \in EventsIn(y) \X EventsIn(y) : <<h[pair[1]], h[pair[2]]>> \in R}

MemoryModels(y, before) ==
    {s \in {[before |-> before, rf |-> rf,
             value |-> [e \in EventsIn(y) |->
                           IF e \in AllLoads(y) /\ rf[e] \in EventsIn(y) THEN byte(y.labels[rf[e]])
                           ELSE byte(y.labels[e])]] :
             rf \in [AllLoads(y) -> EventsIn(y) \cup {Nowhere}]} : release_acquire(<<>>, y, s)}

memory_check(x, y) ==
    /\ ~shortcut(x, y)
    /\ \E R \in OrderModels(x) : \E h \in EventFunctions(x, y) :
           Monotonic(y, R, h) /\ MemoryModels(y, Pulled(y, R, h)) # {}

Operators == {"|", ","}
FixedPoint(kind) == kind \in Operators

Letters == {<<PartialString(label)>> : label \in Labels}

Size(P) == FoldFunction(+, 0, [i \in DOMAIN P |-> length(P[i])])

(***************************************************************************)
(* The order a reduction stands for.                                       *)
(***************************************************************************)
Through(R, k) ==
    R \cup {<<into[1], from[2]>> : into \in {p \in R : p[2] = k}, from \in {p \in R : p[1] = k}}

Reachable(x) == FoldLeft(Through, x.order, [e \in EventsIn(x) |-> e])

Pomset(x) == [labels |-> x.labels, before |-> Reachable(x)]
PomsetsOf(P) == {Pomset(P[i]) : i \in DOMAIN P}

Init ==
    /\ X \in Letters
    /\ Y \in Letters
    /\ query = "none"
    /\ at = 1
    /\ against = 1
    /\ vector = <<1>>
    /\ ended = FALSE
    /\ verdict = "none"
    /\ seen = <<>>
    /\ left = PomsetsOf(X)
    /\ right = PomsetsOf(Y)

(***************************************************************************)
(* The client: compositions with a letter on either side, and choice.      *)
(***************************************************************************)
Built(P) ==
    {Compose(op, P, l) : op \in Operators, l \in Letters}
    \cup {Compose(op, l, P) : op \in Operators, l \in Letters}
    \cup {Choice(P, l) : l \in Letters}

BuildY ==
    /\ query = "none"
    /\ X \in Letters
    /\ Y' \in Built(Y)
    /\ Size(Y') <= MaxLengthY
    /\ Size(X) + Size(Y') <= MaxLength
    /\ right' = PomsetsOf(Y')
    /\ UNCHANGED <<X, left, checking>>

BuildX ==
    /\ query = "none"
    /\ X' \in Built(X)
    /\ Size(X') <= MaxLengthX
    /\ Size(X') + Size(Y) <= MaxLength
    /\ left' = PomsetsOf(X')
    /\ UNCHANGED <<Y, right, checking>>

Ask(kind) ==
    /\ query = "none"
    /\ query' = kind
    /\ at' = 1
    /\ against' = 1
    /\ vector' = <<1>>
    /\ ended' = FALSE
    /\ seen' = <<>>
    /\ UNCHANGED <<X, Y, meant, verdict>>

(***************************************************************************)
(* ProgramChecker::check of two programs: a string of X must refine some   *)
(* string of Y, the first that does settles it.                            *)
(***************************************************************************)
Checked(x, y) == IF query = "memory" THEN memory_check(x, y) ELSE check(x, y)

Settled ==
    IF at = Len(X) THEN verdict' = "yes" /\ UNCHANGED at
    ELSE at' = at + 1 /\ UNCHANGED verdict

CheckPair ==
    /\ query \in {"check", "memory"}
    /\ verdict = "none"
    /\ \/ /\ Checked(X[at], Y[against])
          /\ Settled
          /\ against' = 1
       \/ /\ ~Checked(X[at], Y[against])
          /\ against < Len(Y)
          /\ against' = against + 1
          /\ UNCHANGED <<at, verdict>>
       \/ /\ ~Checked(X[at], Y[against])
          /\ against = Len(Y)
          /\ verdict' = "no"
          /\ UNCHANGED <<at, against>>
    /\ UNCHANGED <<X, Y, meant, query, vector, ended, seen>>

(***************************************************************************)
(* PartialStringIterator::next_partial_string: the composition the vector  *)
(* names, and the vector that follows, as a ripple-carry adder counts it.  *)
(***************************************************************************)
Composition(v) == FoldLeft(LAMBDA p, i : bowtie(query, p, Y[i]), NoString, v)

Carried(v) == {i \in DOMAIN v : \A j \in 1..i : v[j] = Len(Y)}

Zeros(v) == [i \in DOMAIN v |-> 1]

Advanced(v) ==
    [i \in DOMAIN v |->
        IF i \in Carried(v) THEN 1
        ELSE IF i = Cardinality(Carried(v)) + 1 THEN v[i] + 1
        ELSE v[i]]

IsEnd(v) == Carried(v) = DOMAIN v

(***************************************************************************)
(* ProgramChecker::lazy_check and the loop over the powers of Y.  A match  *)
(* resets the vector, a failure leaves it where the adder wrapped it, and  *)
(* K.extend() clears it and appends an index.                              *)
(***************************************************************************)
Rounds == max_length(X) \div min_length(Y)

NotRelinquished(v) == Advanced(v)
Relinquished(v) == Zeros(v)

LazyMatch ==
    /\ FixedPoint(query)
    /\ verdict = "none"
    /\ ~ended
    /\ check(X[at], Composition(vector))
    /\ Settled
    /\ vector' = Relinquished(vector)
    /\ ended' = FALSE
    /\ seen' = <<>>
    /\ UNCHANGED <<X, Y, meant, query, against>>

LazyMiss ==
    /\ FixedPoint(query)
    /\ verdict = "none"
    /\ ~ended
    /\ ~check(X[at], Composition(vector))
    /\ seen' = Append(seen, vector)
    /\ vector' = Advanced(vector)
    /\ ended' = IsEnd(vector)
    /\ UNCHANGED <<X, Y, meant, query, at, against, verdict>>

extend(v) == Append(Zeros(v), 1)

NextPower ==
    /\ FixedPoint(query)
    /\ verdict = "none"
    /\ ended
    /\ IF Len(vector) <= Rounds
       THEN /\ vector' = extend(vector)
            /\ at' = 1
            /\ ended' = FALSE
            /\ seen' = <<>>
            /\ UNCHANGED verdict
       ELSE /\ verdict' = "no"
            /\ UNCHANGED <<vector, at, ended, seen>>
    /\ UNCHANGED <<X, Y, meant, query, against>>

GoOn ==
    /\ verdict # "none"
    /\ query' = "none"
    /\ verdict' = "none"
    /\ at' = 1
    /\ against' = 1
    /\ vector' = <<1>>
    /\ ended' = FALSE
    /\ seen' = <<>>
    /\ UNCHANGED <<X, Y, meant>>

Next ==
    \/ BuildY
    \/ BuildX
    \/ Ask("check")
    \/ Ask("memory")
    \/ \E op \in Operators : Ask(op)
    \/ CheckPair
    \/ LazyMatch
    \/ LazyMiss
    \/ NextPower
    \/ GoOn

Spec == Init /\ [][Next]_vars

(***************************************************************************)
(* The redundant parts of a partial string agree, whatever composition     *)
(* made it: two events are ordered or recorded as incomparable and never   *)
(* both, the recorded order has no pair that follows from the others, the  *)
(* extremal bits are those of the order (the postcondition of              *)
(* recompute_extremals, cka.h:143-144), and the label extremes and counts  *)
(* are those of the events.                                                *)
(***************************************************************************)
Exact(x) ==
    LET before == Reachable(x)
        both == {<<e, f>> \in EventsIn(x) \X EventsIn(x) : e < f}
    IN  /\ \A pair \in both :
              (pair \in x.incomparables)
                  # (pair \in before \/ <<pair[2], pair[1]>> \in before)
        /\ x.incomparables \subseteq both
        /\ \A e \in EventsIn(x) : <<e, e>> \notin before
        /\ \A pair \in x.order : \A e \in EventsIn(x) :
              ~(<<pair[1], e>> \in before /\ <<e, pair[2]>> \in before)
        /\ x.maximals = {e \in EventsIn(x) : \A f \in EventsIn(x) : <<e, f>> \notin before}
        /\ x.minimals = {f \in EventsIn(x) : \A e \in EventsIn(x) : <<e, f>> \notin before}
        /\ x.min_label \in Range(x.labels) /\ x.max_label \in Range(x.labels)
        /\ \A e \in EventsIn(x) :
              /\ x.min_label <= x.labels[e] /\ x.labels[e] <= x.max_label
              /\ number_of_events_with_label(x, x.labels[e])
                     = Cardinality({f \in EventsIn(x) : x.labels[f] = x.labels[e]})

StringsExact ==
    /\ \A i \in DOMAIN X : Exact(X[i])
    /\ \A i \in DOMAIN Y : Exact(Y[i])

(***************************************************************************)
(* The indices always denote strings of Y, and when an iterator has no     *)
(* further string, it has made every composition of the eager program      *)
(* K = bowtie(K, Y) (_CKA_EAGER_) exactly once, as many as                 *)
(* LazyProgram::size() announces: no index the previous iterator or power  *)
(* left in the shared vector makes it start late or stop early.            *)
(***************************************************************************)
EagerPower(n) ==
    FoldLeft(LAMBDA K, i : Compose(query, K, Y), Y, [i \in 1..(n - 1) |-> i])

LazyIsEager ==
    /\ \A i \in DOMAIN vector : vector[i] \in DOMAIN Y
    /\ FixedPoint(query) /\ ended =>
          /\ IsInjective(seen)
          /\ {Composition(v) : v \in Range(seen)} = Range(EagerPower(Len(vector)))
          /\ Len(seen) % UIntWrap = uint_pow(Len(Y), Len(vector), UIntWrap)

(***************************************************************************)
(* The checks answer as the algebra does, where "all events between x and  *)
(* y happen concurrently" in x | y and "all events in x happen before      *)
(* those in y" in (x , y): through the reductions, the shortcuts, the      *)
(* solver's orders and event functions, the loops that stop early and the  *)
(* shared vector, an answer is yes exactly when the promised relation of   *)
(* the two programs holds.  Of fixed points a yes is right, and a no says  *)
(* that no one power of Y has strings for all strings of X to refine.      *)
(***************************************************************************)
Promise == INSTANCE Containment WITH
    question <- query, answer <- verdict

ChecksAsPromised == Promise!ContainmentSpec

(***************************************************************************)
(* "Does the first least fixed point refine the second least fixed point?" *)
(* (cka.h:1083): the answer about fixed points is yes exactly when it      *)
(* does.  The loop of ProgramChecker::check (cka.h:676-690) looks for one  *)
(* power of Y that serves all strings of X, where each may need its own.   *)
(***************************************************************************)
FixedPointsRefine ==
    FixedPoint(query) /\ verdict # "none"
    => ((verdict = "yes") <=> Promise!Truth(query, left, right))
=============================================================================
