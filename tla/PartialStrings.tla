---------------------------- MODULE PartialStrings ----------------------------
(***************************************************************************)
(* The partial strings and programs of cka.h as they are represented: the  *)
(* order by its transitive reduction, concurrency by a list of incomparable*)
(* pairs, the extremal events by two bit vectors, the labels by their      *)
(* extremes and their multiplicities.  A program is a vector of partial    *)
(* strings.  Events are numbered from 1 here and from 0 in the code.       *)
(***************************************************************************)
EXTENDS Naturals, Sequences, FiniteSets, Bags

Least(m, n) == IF m < n THEN m ELSE n
Greatest(m, n) == IF m < n THEN n ELSE m

length(x) == Len(x.labels)

EventsIn(x) == 1..length(x)

NoString ==
    [labels |-> <<>>, order |-> {}, incomparables |-> {}, minimals |-> {}, maximals |-> {},
     min_label |-> 0, max_label |-> 0, count |-> EmptyBag]

PartialString(label) ==
    [labels |-> <<label>>, order |-> {}, incomparables |-> {}, minimals |-> {1}, maximals |-> {1},
     min_label |-> label, max_label |-> label, count |-> SetToBag({label})]

number_of_events_with_label(x, label) ==
    IF BagIn(label, x.count) THEN x.count[label] ELSE 0

Offset(n, pairs) == {<<n + pair[1], n + pair[2]>> : pair \in pairs}

(***************************************************************************)
(* Disjoint union: the events of y get new identifiers, and every event is *)
(* extremal until the extremals are computed again.                        *)
(***************************************************************************)
Coproduct(x, y) ==
    LET total == length(x) + length(y)
    IN  [labels |-> x.labels \o y.labels,
         order |-> x.order \cup Offset(length(x), y.order),
         incomparables |-> x.incomparables \cup Offset(length(x), y.incomparables),
         minimals |-> 1..total,
         maximals |-> 1..total,
         min_label |-> IF y.labels = <<>> THEN x.min_label
                       ELSE IF x.labels = <<>> THEN y.min_label
                       ELSE Least(x.min_label, y.min_label),
         max_label |-> Greatest(x.max_label, y.max_label),
         count |-> x.count (+) y.count]

recompute_maximals(x) == [x EXCEPT !.maximals = @ \ {pair[1] : pair \in x.order}]

recompute_extremals(x) ==
    [x EXCEPT !.maximals = @ \ {pair[1] : pair \in x.order},
              !.minimals = @ \ {pair[2] : pair \in x.order}]

Concurrent(x, y) ==
    LET z == recompute_extremals(Coproduct(x, y))
    IN  [z EXCEPT !.incomparables = @ \cup (EventsIn(x) \X (EventsIn(z) \ EventsIn(x)))]

Sequential(x, y) ==
    recompute_extremals(
        [Coproduct(x, y) EXCEPT
            !.order = @ \cup {<<e, length(x) + f>> : e \in x.maximals, f \in y.minimals}])

bowtie(op, x, y) == IF op = "|" THEN Concurrent(x, y) ELSE Sequential(x, y)

(***************************************************************************)
(* Programs.                                                               *)
(***************************************************************************)
Compose(op, X, Y) ==
    [i \in 1..(Len(X) * Len(Y)) |->
        bowtie(op, X[((i - 1) \div Len(Y)) + 1], Y[((i - 1) % Len(Y)) + 1])]

Choice(X, Y) == X \o Y

LengthsOf(X) == {length(X[i]) : i \in DOMAIN X}
min_length(X) == CHOOSE n \in LengthsOf(X) : \A m \in LengthsOf(X) : n <= m
max_length(X) == CHOOSE n \in LengthsOf(X) : \A m \in LengthsOf(X) : m <= n

(***************************************************************************)
(* Exponentiation by squaring on unsigned integers below wrap.             *)
(***************************************************************************)
uint_pow(base, exp, wrap) ==
    LET power[b \in Nat, e \in Nat] ==
            IF e = 0 THEN 1
            ELSE ((IF e % 2 = 1 THEN b ELSE 1) * power[(b * b) % wrap, e \div 2]) % wrap
    IN  power[base, exp]
=============================================================================
