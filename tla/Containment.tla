----------------------------- MODULE Containment -----------------------------
(***************************************************************************)
(* What a client of cka.h is promised: programs are sets of partial        *)
(* strings, and a question about two programs is answered once, as the     *)
(* algebra answers it.                                                     *)
(*                                                                         *)
(* The algebra is that of the comments of cka.h: a partial string is a     *)
(* finite set of labelled events under a strict partial order, "all events *)
(* between x and y happen concurrently" in x | y, "all events in x happen  *)
(* before those in y" in (x , y), and x refines y when a bijection from    *)
(* the events of y to those of x keeps every label and every order.  Here  *)
(* the order is the whole relation, not a reduction.                       *)
(***************************************************************************)
EXTENDS MemoryLabels, FiniteSets, Functions, SequencesExt

CONSTANT Labels

VARIABLES left, right, question, answer

containmentVars == <<left, right, question, answer>>

EventsOf(p) == DOMAIN p.labels

Shifted(n, pairs) == {<<n + pair[1], n + pair[2]>> : pair \in pairs}

Letter(label) == [labels |-> <<label>>, before |-> {}]

Beside(p, q) ==
    [labels |-> p.labels \o q.labels,
     before |-> p.before \cup Shifted(Len(p.labels), q.before)]

Then(p, q) ==
    [Beside(p, q) EXCEPT
        !.before = @ \cup {<<e, Len(p.labels) + f>> : e \in EventsOf(p), f \in EventsOf(q)}]

Composed(op, p, q) == IF op = "|" THEN Beside(p, q) ELSE Then(p, q)

Products(op, P, Q) == {Composed(op, p, q) : p \in P, q \in Q}

Morphism(h, x, y) ==
    /\ \A e \in EventsOf(y) : x.labels[h[e]] = y.labels[e]
    /\ \A pair \in y.before : <<h[pair[1]], h[pair[2]]>> \in x.before

Refines(x, y) ==
    /\ Len(x.labels) = Len(y.labels)
    /\ \E h \in Bijection(EventsOf(y), EventsOf(x)) : Morphism(h, x, y)

Contained(P, Q) == \A x \in P : \E y \in Q : Refines(x, y)

(***************************************************************************)
(* Least fixed points: all n-fold compositions of a program.  The fixed    *)
(* point of P refines that of Q when each string of P refines some n-fold  *)
(* composition of Q, for compositions keep refinement.  No composition of  *)
(* more factors than the string has events is of use, for a factor has at  *)
(* least one event.                                                        *)
(***************************************************************************)
Power(op, Q, n) ==
    LET power[i \in 1..n] == IF i = 1 THEN Q ELSE Products(op, power[i - 1], Q)
    IN  power[n]

InSomePower(op, P, Q) ==
    \A x \in P : \E n \in 1..Len(x.labels) : Contained({x}, Power(op, Q, n))

(* The same number of factors serves all strings of P.                     *)
InOnePower(op, P, Q) ==
    \E n \in UNION {1..Len(x.labels) : x \in P} : Contained(P, Power(op, Q, n))

LetterPrograms == {{Letter(label)} : label \in Labels}

Grown(P) ==
    {Products(op, P, l) : op \in {"|", ","}, l \in LetterPrograms}
    \cup {Products(op, l, P) : op \in {"|", ","}, l \in LetterPrograms}
    \cup {P \cup l : l \in LetterPrograms}

(***************************************************************************)
(* A string of atomic accesses is coherent when all accesses to an address *)
(* of which one is a store are ordered, and the last store before a load   *)
(* exists and fulfils what the load assumes.                               *)
(***************************************************************************)
Conflict(x, e, f) ==
    /\ e # f
    /\ address(x.labels[e]) = address(x.labels[f])
    /\ is_release_store(x.labels[e]) \/ is_release_store(x.labels[f])

LastStore(x, store, load) ==
    /\ is_release_store(x.labels[store])
    /\ address(x.labels[store]) = address(x.labels[load])
    /\ <<store, load>> \in x.before
    /\ ~\E other \in EventsOf(x) :
          /\ is_release_store(x.labels[other])
          /\ address(x.labels[other]) = address(x.labels[load])
          /\ <<store, other>> \in x.before
          /\ <<other, load>> \in x.before

Fulfils(x, store, load) ==
    /\ is_assume_acquire_eq(x.labels[load]) => byte(x.labels[store]) = byte(x.labels[load])
    /\ is_assume_acquire_neq(x.labels[load]) => byte(x.labels[store]) # byte(x.labels[load])

Coherent(x) ==
    /\ \A e, f \in EventsOf(x) :
          Conflict(x, e, f) => <<e, f>> \in x.before \/ <<f, e>> \in x.before
    /\ \A load \in EventsOf(x) : is_acquire_load(x.labels[load]) =>
          \E store \in EventsOf(x) : LastStore(x, store, load) /\ Fulfils(x, store, load)

Truth(kind, P, Q) ==
    CASE kind = "check" -> Contained(P, Q)
      [] kind = "memory" -> Contained(P, Q) /\ \A x \in P : Coherent(x)
      [] OTHER -> InSomePower(kind, P, Q)

(* Questions about fixed points are answered "no" in doubt.                *)
Certain(kind, P, Q) ==
    IF kind \in {"check", "memory"} THEN Truth(kind, P, Q) ELSE InOnePower(kind, P, Q)

ContainmentInit ==
    /\ left \in LetterPrograms
    /\ right \in LetterPrograms
    /\ question = "none"
    /\ answer = "none"

Grow ==
    /\ question = "none"
    /\ \/ left' \in Grown(left) /\ UNCHANGED right
       \/ right' \in Grown(right) /\ UNCHANGED left
    /\ UNCHANGED <<question, answer>>

Wonder ==
    /\ question = "none"
    /\ question' \in {"check", "memory", "|", ","}
    /\ UNCHANGED <<left, right, answer>>

Reply ==
    /\ question # "none"
    /\ answer = "none"
    /\ answer' \in {"yes", "no"}
    /\ answer' = "yes" => Truth(question, left, right)
    /\ Certain(question, left, right) => answer' = "yes"
    /\ UNCHANGED <<left, right, question>>

Forget ==
    /\ answer # "none"
    /\ question' = "none"
    /\ answer' = "none"
    /\ UNCHANGED <<left, right>>

ContainmentNext == Grow \/ Wonder \/ Reply \/ Forget

ContainmentSpec == ContainmentInit /\ [][ContainmentNext]_containmentVars
=============================================================================
