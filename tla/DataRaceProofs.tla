---------------------------- MODULE DataRaceProofs ----------------------------
(***************************************************************************)
(* Symbolic programs of any size.  Their construction keeps the invariants *)
(* of SymbolicProgram (WellFormed), on which guard() relies.  Then no race *)
(* of an execution is missed, and those that is_racy() reports are real as *)
(* long as the model contradicts an assumption only where the memory does. *)
(***************************************************************************)
EXTENDS DataRaceDetector, WellFoundedInduction, TLAPS

----------------------------------------------------------------------------
(* Programs                                                                *)

(* What PartialString, Concurrent and Sequential see to *)
WellFormedString(p) ==
    /\ p.labels \in Seq(Nat)
    /\ p.labels # <<>>
    /\ p.order \subseteq EventsIn(p) \X EventsIn(p)
    /\ \A pair \in p.order : pair[1] < pair[2]
    /\ p.minimals = EventsIn(p) \ {pair[2] : pair \in p.order}
    /\ p.maximals \subseteq EventsIn(p)
    /\ p.max_label \in Nat
    /\ \A e \in EventsIn(p) : p.labels[e] <= p.max_label

(* An assumption is a load, and is sequenced before what it guards. *)
GuardedRightly(m, p, e) ==
    m[e] # e => /\ is_assume(p.labels[m[e]])
                /\ is_acquire_load(p.labels[m[e]])
                /\ SequencedBefore(p, m[e], e)

(* The invariants of SymbolicProgram *)
WellFormed(P) ==
    /\ WellFormedString(P.p)
    /\ P.assume_map \in [EventsIn(P.p) -> EventsIn(P.p)]
    /\ P.unguarded_events = {e \in EventsIn(P.p) : P.assume_map[e] = e}
    /\ P.unguarded_events # {}
    /\ \A e \in EventsIn(P.p) : GuardedRightly(P.assume_map, P.p, e)

----------------------------------------------------------------------------
(* Strings *)

LEMMA OneEventString ==
    ASSUME NEW label \in Nat
    PROVE  WellFormedString(PartialString(label)) /\ EventsIn(PartialString(label)) = {1}
<1> DEFINE p == PartialString(label)
<1>1. /\ p.labels = <<label>> /\ p.order = {} /\ p.minimals = {1} /\ p.maximals = {1}
      /\ p.max_label = label
  BY DEF PartialString
<1> HIDE DEF p
<1>2. EventsIn(p) = {1} /\ p.labels \in Seq(Nat) /\ p.labels # <<>> BY <1>1 DEF EventsIn, length
<1>3. {pair[2] : pair \in p.order} = {} BY <1>1
<1> QED BY <1>1, <1>2, <1>3 DEF WellFormedString, p

(* p has the events of X, then those of Y, at least as ordered. *)
Joins(p, X, Y) ==
    /\ p.labels = X.labels \o Y.labels
    /\ X.order \cup Offset(length(X), Y.order) \subseteq p.order

LEMMA LabelsOfTwo ==
    ASSUME NEW s \in Seq(Nat), NEW t \in Seq(Nat)
    PROVE  /\ s \o t \in Seq(Nat) /\ Len(s \o t) = Len(s) + Len(t)
           /\ \A i \in 1..Len(s) : (s \o t)[i] = s[i]
           /\ \A i \in 1..Len(t) : (s \o t)[Len(s) + i] = t[i]
<1>1. Len(s) \in Nat /\ Len(t) \in Nat OBVIOUS
<1> QED BY <1>1

LEMMA LenInNat ==
    ASSUME NEW s \in Seq(Nat)
    PROVE  Len(s) \in Nat
OBVIOUS

SideBySide(p, X, Y) ==
    X.labels \in Seq(Nat) /\ Y.labels \in Seq(Nat) /\ p.labels = X.labels \o Y.labels

LEMMA JoinedEvents ==
    ASSUME NEW X, NEW Y, NEW p, SideBySide(p, X, Y)
    PROVE  /\ length(X) \in Nat /\ length(Y) \in Nat
           /\ p.labels \in Seq(Nat)
           /\ length(p) = length(X) + length(Y)
           /\ EventsIn(p) = 1..(length(X) + length(Y))
           /\ \A e \in EventsIn(X) : e \in EventsIn(p) /\ p.labels[e] = X.labels[e]
           /\ \A e \in EventsIn(Y) : length(X) + e \in EventsIn(p)
                                     /\ p.labels[length(X) + e] = Y.labels[e]
           /\ \A e \in EventsIn(p) \ EventsIn(X) :
                 \E f \in EventsIn(Y) : e = length(X) + f
<1> DEFINE m == Len(X.labels)
           n == Len(Y.labels)
           labels == X.labels \o Y.labels
<1>0. X.labels \in Seq(Nat) /\ Y.labels \in Seq(Nat) /\ p.labels = labels BY DEF SideBySide
<1>1. m \in Nat /\ n \in Nat BY <1>0, LenInNat
<1>2. /\ labels \in Seq(Nat) /\ Len(labels) = m + n
      /\ \A i \in 1..m : labels[i] = X.labels[i]
      /\ \A i \in 1..n : labels[m + i] = Y.labels[i]
  BY <1>0, LabelsOfTwo
<1> HIDE DEF m, n, labels
<1>3. length(X) = m /\ length(Y) = n /\ length(p) = m + n /\ p.labels = labels
  BY <1>0, <1>2 DEF length, m, n, labels
<1>4. EventsIn(X) = 1..m /\ EventsIn(Y) = 1..n /\ EventsIn(p) = 1..(m + n)
  BY <1>3 DEF EventsIn
<1>5. \A e \in 1..m : e \in 1..(m + n) BY <1>1
<1>6. \A e \in 1..n : m + e \in 1..(m + n) BY <1>1
<1>7. \A e \in (1..(m + n)) \ (1..m) : e - m \in 1..n /\ e = m + (e - m) BY <1>1
<1>8. \A e \in EventsIn(X) : e \in EventsIn(p) /\ p.labels[e] = X.labels[e]
  BY <1>2, <1>3, <1>4, <1>5
<1>9. ASSUME NEW e \in EventsIn(Y)
      PROVE  length(X) + e \in EventsIn(p) /\ p.labels[length(X) + e] = Y.labels[e]
  <2>1. e \in 1..n /\ length(X) + e = m + e BY <1>1, <1>3, <1>4
  <2>2. m + e \in 1..(m + n) /\ labels[m + e] = Y.labels[e] BY <2>1, <1>2, <1>6
  <2> QED BY <2>1, <2>2, <1>3, <1>4
<1>10. \A e \in EventsIn(p) \ EventsIn(X) : \E f \in EventsIn(Y) : e = length(X) + f
  BY <1>3, <1>4, <1>7
<1>11. p.labels \in Seq(Nat) /\ EventsIn(p) = 1..(length(X) + length(Y))
  BY <1>2, <1>3, <1>4
<1> QED BY <1>1, <1>3, <1>8, <1>9, <1>10, <1>11

(* The fields that Concurrent and Sequential give *)
Composed(p, X, Y, between) ==
    /\ p.labels = X.labels \o Y.labels
    /\ p.order = X.order \cup Offset(length(X), Y.order) \cup between
    /\ p.minimals = 1..(length(X) + length(Y)) \ {pair[2] : pair \in p.order}
    /\ p.maximals = 1..(length(X) + length(Y)) \ {pair[1] : pair \in p.order}
    /\ p.max_label = Greatest(X.max_label, Y.max_label)

Between(X, Y) == {<<e, length(X) + f>> : e \in X.maximals, f \in Y.minimals}

LEMMA ConcurrentFields ==
    ASSUME NEW X, NEW Y
    PROVE  Composed(Concurrent(X, Y), X, Y, {})
BY DEF Concurrent, recompute_extremals, Coproduct, Composed

LEMMA SequentialFields ==
    ASSUME NEW X, NEW Y
    PROVE  Composed(Sequential(X, Y), X, Y, Between(X, Y))
<1> DEFINE c == Coproduct(X, Y)
           B == {<<e, length(X) + f>> : e \in X.maximals, f \in Y.minimals}
           d == [c EXCEPT !.order = c.order \cup B]
<1>1. Sequential(X, Y) = recompute_extremals(d) BY DEF Sequential
<1>2. /\ c.labels = X.labels \o Y.labels
      /\ c.order = X.order \cup Offset(length(X), Y.order)
      /\ c.minimals = 1..(length(X) + length(Y)) /\ c.maximals = 1..(length(X) + length(Y))
      /\ c.max_label = Greatest(X.max_label, Y.max_label)
  BY DEF Coproduct
<1> HIDE DEF B
<1>3. /\ d.labels = c.labels /\ d.order = c.order \cup B
      /\ d.minimals = c.minimals /\ d.maximals = c.maximals /\ d.max_label = c.max_label
  BY DEF Coproduct
<1>4. /\ DOMAIN d = DOMAIN c
      /\ {"labels", "order", "minimals", "maximals", "max_label"} \subseteq DOMAIN d
  BY DEF Coproduct
<1> HIDE DEF d, c
<1>5. LET p == recompute_extremals(d)
      IN  /\ p.labels = d.labels /\ p.order = d.order /\ p.max_label = d.max_label
          /\ p.minimals = d.minimals \ {pair[2] : pair \in d.order}
          /\ p.maximals = d.maximals \ {pair[1] : pair \in d.order}
  BY <1>4 DEF recompute_extremals
<1> QED BY <1>1, <1>2, <1>3, <1>5 DEF Composed, Between, B

LEMMA ComposedIsWellFormed ==
    ASSUME NEW X, WellFormedString(X), NEW Y, WellFormedString(Y), NEW between,
           \A pair \in between : \E e \in EventsIn(X), f \in EventsIn(Y) : pair = <<e, length(X) + f>>,
           NEW p, Composed(p, X, Y, between)
    PROVE  WellFormedString(p) /\ Joins(p, X, Y)
<1> DEFINE n == length(X)
<1>1. /\ n \in Nat /\ length(Y) \in Nat
      /\ p.labels \in Seq(Nat)
      /\ EventsIn(p) = 1..(n + length(Y))
      /\ \A e \in EventsIn(X) : e \in EventsIn(p) /\ p.labels[e] = X.labels[e]
      /\ \A e \in EventsIn(Y) : n + e \in EventsIn(p) /\ p.labels[n + e] = Y.labels[e]
      /\ \A e \in EventsIn(p) \ EventsIn(X) : \E f \in EventsIn(Y) : e = n + f
  <2>1. SideBySide(p, X, Y) BY DEF WellFormedString, Composed, SideBySide
  <2> QED BY <2>1, JoinedEvents
<1>2. p.labels # <<>> BY DEF WellFormedString, Composed
<1>3. ASSUME NEW pair \in p.order
      PROVE  pair \in EventsIn(p) \X EventsIn(p) /\ pair[1] < pair[2]
  <2>1. CASE pair \in X.order BY <2>1, <1>1 DEF WellFormedString
  <2>2. CASE pair \in Offset(n, Y.order)
    <3>1. PICK q \in Y.order : pair = <<n + q[1], n + q[2]>> BY <2>2 DEF Offset
    <3>2. q[1] \in EventsIn(Y) /\ q[2] \in EventsIn(Y) /\ q[1] < q[2] BY DEF WellFormedString
    <3>3. q[1] \in Nat /\ q[2] \in Nat BY <3>2 DEF EventsIn
    <3> QED BY <3>1, <3>2, <3>3, <1>1
  <2>3. CASE pair \in between
    <3>1. PICK e \in EventsIn(X), f \in EventsIn(Y) : pair = <<e, n + f>> BY <2>3
    <3>2. e < n + f BY <1>1 DEF EventsIn
    <3> QED BY <3>1, <3>2, <1>1
  <2> QED BY <2>1, <2>2, <2>3 DEF Composed
<1>4. /\ p.max_label \in Nat
      /\ X.max_label <= p.max_label /\ Y.max_label <= p.max_label
  BY DEF WellFormedString, Composed, Greatest
<1>5. ASSUME NEW e \in EventsIn(p) PROVE p.labels[e] <= p.max_label
  <2>1. CASE e \in EventsIn(X)
    <3>1. p.labels[e] = X.labels[e] /\ X.labels[e] <= X.max_label BY <2>1, <1>1 DEF WellFormedString
    <3>2. p.labels[e] \in Nat
      <4>1. e \in DOMAIN p.labels BY <1>1 DEF EventsIn, length
      <4> QED BY <4>1, <1>1
    <3>3. X.max_label \in Nat BY DEF WellFormedString
    <3> QED BY <3>1, <3>2, <3>3, <1>4
  <2>2. CASE e \notin EventsIn(X)
    <3>1. PICK f \in EventsIn(Y) : e = n + f BY <2>2, <1>1
    <3>2. p.labels[n + f] = Y.labels[f] BY <1>1
    <3>4. Y.labels[f] <= Y.max_label BY DEF WellFormedString
    <3>3. p.labels[e] \in Nat BY <1>1 DEF EventsIn, length
    <3>5. Y.labels[f] \in Nat /\ Y.max_label \in Nat BY DEF WellFormedString, EventsIn, length
    <3> QED BY <3>5, <3>1, <3>2, <3>3, <3>4, <1>4
  <2> QED BY <2>1, <2>2
<1>6. p.minimals = EventsIn(p) \ {pair[2] : pair \in p.order} /\ p.maximals \subseteq EventsIn(p)
  BY <1>1 DEF Composed
<1>7. Joins(p, X, Y) BY DEF Joins, Composed
<1> QED BY <1>1, <1>2, <1>3, <1>4, <1>5, <1>6, <1>7 DEF WellFormedString

----------------------------------------------------------------------------
(* Order *)

LEMMA LeastExists ==
    ASSUME NEW T \in SUBSET Nat, T # {}
    PROVE  \E m \in T : \A k \in T : m <= k
<1>1. IsWellFoundedOn(OpToRel(<, Nat), Nat) BY NatLessThanWellFounded
<1>2. PICK m \in T : \A k \in T : <<k, m>> \notin OpToRel(<, Nat) BY <1>1, WFMin
<1>3. \A k \in T : ~(k < m) BY <1>2 DEF OpToRel
<1> QED BY <1>3

LEMMA SequencedOnTheLeft ==
    ASSUME NEW X, WellFormedString(X), NEW Y, WellFormedString(Y),
           NEW p, Joins(p, X, Y),
           NEW a \in EventsIn(X), NEW e \in EventsIn(X), SequencedBefore(X, a, e)
    PROVE  SequencedBefore(p, a, e)
<1> SUFFICES ASSUME NEW S \in SUBSET EventsIn(p),
                    \A pair \in p.order : pair[2] \in S \cup {e} => pair[1] \in S
             PROVE  a \in S
  BY DEF SequencedBefore
<1> DEFINE T == S \cap EventsIn(X)
<1>1. ASSUME NEW pair \in X.order, pair[2] \in T \cup {e} PROVE pair[1] \in T
  <2>1. pair \in p.order /\ pair[1] \in EventsIn(X) BY DEF Joins, WellFormedString
  <2> QED BY <2>1, <1>1
<1>2. T \in SUBSET EventsIn(X) OBVIOUS
<1>3. a \in T BY <1>1, <1>2 DEF SequencedBefore
<1> QED BY <1>3

LEMMA SequencedOnTheRight ==
    ASSUME NEW X, WellFormedString(X), NEW Y, WellFormedString(Y),
           NEW p, Joins(p, X, Y),
           NEW a \in EventsIn(Y), NEW e \in EventsIn(Y), SequencedBefore(Y, a, e)
    PROVE  SequencedBefore(p, length(X) + a, length(X) + e)
<1> DEFINE n == length(X)
<1>0. n \in Nat BY DEF WellFormedString, length
<1> SUFFICES ASSUME NEW S \in SUBSET EventsIn(p),
                    \A pair \in p.order : pair[2] \in S \cup {n + e} => pair[1] \in S
             PROVE  n + a \in S
  BY DEF SequencedBefore
<1> DEFINE T == {f \in EventsIn(Y) : n + f \in S}
<1>1. ASSUME NEW pair \in Y.order, pair[2] \in T \cup {e} PROVE pair[1] \in T
  <2>1. <<n + pair[1], n + pair[2]>> \in p.order BY DEF Joins, Offset
  <2>2. n + pair[2] \in S \cup {n + e} BY <1>1
  <2>3. pair[1] \in EventsIn(Y) BY DEF WellFormedString
  <2> QED BY <2>1, <2>2, <2>3
<1>2. T \in SUBSET EventsIn(Y) OBVIOUS
<1>3. a \in T BY <1>1, <1>2 DEF SequencedBefore
<1> QED BY <1>3

(* The only event of X comes before all events of Y. *)
LEMMA FirstIsBefore ==
    ASSUME NEW X, WellFormedString(X), length(X) = 1, NEW Y, WellFormedString(Y),
           NEW p, Joins(p, X, Y), \A f \in Y.minimals : <<1, 1 + f>> \in p.order,
           NEW e \in EventsIn(Y)
    PROVE  SequencedBefore(p, 1, 1 + e)
<1> SUFFICES ASSUME NEW S \in SUBSET EventsIn(p),
                    \A pair \in p.order : pair[2] \in S \cup {1 + e} => pair[1] \in S
             PROVE  1 \in S
  BY DEF SequencedBefore
<1> DEFINE T == {f \in EventsIn(Y) : 1 + f \in S \cup {1 + e}}
<1>1. T \in SUBSET Nat /\ T # {} BY DEF EventsIn
<1> HIDE DEF T
<1>2. PICK m \in T : \A k \in T : m <= k BY <1>1, LeastExists
<1>3. m \in EventsIn(Y) /\ 1 + m \in S \cup {1 + e} BY DEF T
<1>4. m \in Y.minimals
  <2>1. SUFFICES ASSUME NEW pair \in Y.order, pair[2] = m PROVE FALSE
    BY <1>3 DEF WellFormedString
  <2>2. pair[1] \in EventsIn(Y) /\ pair[1] < m BY <2>1 DEF WellFormedString
  <2>3. <<1 + pair[1], 1 + m>> \in p.order BY <2>1 DEF Joins, Offset
  <2>4. 1 + pair[1] \in S BY <1>3, <2>3
  <2>5. pair[1] \in T BY <2>2, <2>4 DEF T
  <2>6. pair[1] \in Nat /\ m \in Nat /\ m <= pair[1] BY <1>1, <1>2, <2>5
  <2> QED BY <2>2, <2>6
<1>5. <<1, 1 + m>> \in p.order BY <1>4
<1> QED BY <1>3, <1>5

----------------------------------------------------------------------------
(* Programs *)

LEMMA MapOnEvents ==
    ASSUME NEW n \in Nat, NEW f \in [1..n -> Nat]
    PROVE  f \in Seq(Nat) /\ Len(f) = n
OBVIOUS

LEMMA NestedMap ==
    ASSUME NEW X, WellFormed(X), NEW Y, WellFormed(Y), NEW p, WellFormedString(p),
           Joins(p, X.p, Y.p)
    PROVE  LET n == length(X.p)
               m == Nest(X, Y, p).assume_map
           IN  /\ m \in [EventsIn(p) -> EventsIn(p)]
               /\ \A e \in EventsIn(X.p) : m[e] = X.assume_map[e]
               /\ \A e \in EventsIn(Y.p) : m[n + e] = n + Y.assume_map[e]
<1> DEFINE n == length(X.p)
           k == length(Y.p)
           right == [e \in EventsIn(Y.p) |-> n + Y.assume_map[e]]
           m == X.assume_map \o right
<1>1. n \in Nat /\ k \in Nat BY DEF WellFormed, WellFormedString, length
<1>2. EventsIn(X.p) = 1..n /\ EventsIn(Y.p) = 1..k BY DEF EventsIn
<1>3. EventsIn(p) = 1..(n + k)
  <2>1. SideBySide(p, X.p, Y.p) BY DEF SideBySide, Joins, WellFormed, WellFormedString
  <2> QED BY <2>1, JoinedEvents
<1>4. X.assume_map \in [1..n -> 1..n] /\ Y.assume_map \in [1..k -> 1..k] BY <1>2 DEF WellFormed
<1> HIDE DEF n, k
<1>5. X.assume_map \in Seq(Nat) /\ Len(X.assume_map) = n
  <2>1. X.assume_map \in [1..n -> Nat] BY <1>1, <1>4
  <2> QED BY <2>1, <1>1, MapOnEvents
<1>6. right \in Seq(Nat) /\ Len(right) = k
  <2>1. ASSUME NEW e \in 1..k PROVE n + Y.assume_map[e] \in Nat
    <3>1. Y.assume_map[e] \in 1..k BY <1>4
    <3>2. Y.assume_map[e] \in Nat BY <3>1, <1>1
    <3> QED BY <3>2, <1>1
  <2>2. right \in [1..k -> Nat] BY <1>2, <2>1
  <2> QED BY <2>2, <1>1, MapOnEvents
<1>7. \A e \in 1..k : right[e] = n + Y.assume_map[e] BY <1>2
<1> HIDE DEF right
<1>8. /\ m \in Seq(Nat) /\ Len(m) = n + k
      /\ \A e \in 1..n : m[e] = X.assume_map[e]
      /\ \A e \in 1..k : m[n + e] = right[e]
  BY <1>5, <1>6, LabelsOfTwo
<1>9. \A e \in 1..k : m[n + e] = n + Y.assume_map[e] BY <1>7, <1>8
<1>10. m = Nest(X, Y, p).assume_map BY DEF Nest, n, right
<1> HIDE DEF m
<1>11. ASSUME NEW e \in 1..(n + k) PROVE m[e] \in 1..(n + k)
  <2>1. CASE e \in 1..n
    <3>1. m[e] \in 1..n BY <2>1, <1>4, <1>8
    <3> QED BY <3>1, <1>1
  <2>2. CASE e \notin 1..n
    <3>1. PICK f \in 1..k : e = n + f
      <4>1. e - n \in 1..k /\ e = n + (e - n) BY <2>2, <1>1
      <4> QED BY <4>1
    <3>2. Y.assume_map[f] \in 1..k BY <1>4
    <3>3. m[e] = n + Y.assume_map[f] BY <3>1, <1>9
    <3> QED BY <3>2, <3>3, <1>1
  <2> QED BY <2>1, <2>2
<1>12. m \in [1..(n + k) -> 1..(n + k)]
  <2>1. DOMAIN m = 1..(n + k) /\ m = [e \in DOMAIN m |-> m[e]] BY <1>1, <1>8
  <2> QED BY <2>1, <1>11
<1> QED BY <1>2, <1>3, <1>8, <1>9, <1>10, <1>12 DEF n

LEMMA JoinFacts ==
    ASSUME NEW X, WellFormedString(X), NEW Y, WellFormedString(Y), NEW p, Joins(p, X, Y)
    PROVE  /\ length(X) \in Nat
           /\ \A e \in EventsIn(X) : e \in EventsIn(p) /\ p.labels[e] = X.labels[e]
           /\ \A e \in EventsIn(Y) : length(X) + e \in EventsIn(p)
                                     /\ p.labels[length(X) + e] = Y.labels[e]
           /\ \A e \in EventsIn(p) \ EventsIn(X) :
                 \E f \in EventsIn(Y) : e = length(X) + f
<1>1. SideBySide(p, X, Y) BY DEF SideBySide, Joins, WellFormedString
<1> QED BY <1>1, JoinedEvents

LEMMA NestedGuards ==
    ASSUME NEW X, WellFormed(X), NEW Y, WellFormed(Y), NEW p, WellFormedString(p),
           Joins(p, X.p, Y.p), NEW m,
           m \in [EventsIn(p) -> EventsIn(p)]
    PROVE  /\ \A e \in EventsIn(X.p) :
                 m[e] = X.assume_map[e] => GuardedRightly(m, p, e)
           /\ \A e \in EventsIn(Y.p) :
                 m[length(X.p) + e] = length(X.p) + Y.assume_map[e]
                    => GuardedRightly(m, p, length(X.p) + e)
<1> DEFINE n == length(X.p)
<1>1. /\ n \in Nat
      /\ \A e \in EventsIn(X.p) : e \in EventsIn(p) /\ p.labels[e] = X.p.labels[e]
      /\ \A e \in EventsIn(Y.p) : n + e \in EventsIn(p) /\ p.labels[n + e] = Y.p.labels[e]
  BY JoinFacts DEF WellFormed
<1>2. ASSUME NEW e \in EventsIn(X.p), m[e] = X.assume_map[e], m[e] # e
      PROVE  /\ is_assume(p.labels[m[e]])
             /\ is_acquire_load(p.labels[m[e]])
             /\ SequencedBefore(p, m[e], e)
  <2>1. PICK a : a = X.assume_map[e] OBVIOUS
  <2>2. a \in EventsIn(X.p) /\ a # e BY <2>1, <1>2 DEF WellFormed
  <2>3. /\ is_assume(X.p.labels[a]) /\ is_acquire_load(X.p.labels[a])
        /\ SequencedBefore(X.p, a, e)
    BY <2>1, <2>2 DEF WellFormed, GuardedRightly
  <2>4. SequencedBefore(p, a, e) BY <2>2, <2>3, SequencedOnTheLeft DEF WellFormed
  <2>5. p.labels[a] = X.p.labels[a] BY <2>2, <1>1
  <2> QED BY <2>1, <2>3, <2>4, <2>5, <1>2
<1>3. ASSUME NEW e \in EventsIn(Y.p), m[n + e] = n + Y.assume_map[e], m[n + e] # n + e
      PROVE  /\ is_assume(p.labels[m[n + e]])
             /\ is_acquire_load(p.labels[m[n + e]])
             /\ SequencedBefore(p, m[n + e], n + e)
  <2>1. PICK a : a = Y.assume_map[e] OBVIOUS
  <2>2. a \in EventsIn(Y.p) /\ a # e BY <2>1, <1>3 DEF WellFormed
  <2>3. /\ is_assume(Y.p.labels[a]) /\ is_acquire_load(Y.p.labels[a])
        /\ SequencedBefore(Y.p, a, e)
    BY <2>1, <2>2 DEF WellFormed, GuardedRightly
  <2>4. SequencedBefore(p, n + a, n + e) BY <2>2, <2>3, SequencedOnTheRight DEF WellFormed
  <2>5. p.labels[n + a] = Y.p.labels[a] BY <2>2, <1>1
  <2> QED BY <2>1, <2>3, <2>4, <2>5, <1>3
<1> QED BY <1>2, <1>3 DEF GuardedRightly

LEMMA NestIsWellFormed ==
    ASSUME NEW X, WellFormed(X), NEW Y, WellFormed(Y), NEW p, WellFormedString(p),
           Joins(p, X.p, Y.p)
    PROVE  WellFormed(Nest(X, Y, p))
<1> DEFINE n == length(X.p)
           Q == Nest(X, Y, p)
<1>0. PICK m : m = Q.assume_map OBVIOUS
<1>1. /\ m \in [EventsIn(p) -> EventsIn(p)]
      /\ \A e \in EventsIn(X.p) : m[e] = X.assume_map[e]
      /\ \A e \in EventsIn(Y.p) : m[n + e] = n + Y.assume_map[e]
  BY <1>0, NestedMap
<1>2. /\ n \in Nat
      /\ \A e \in EventsIn(X.p) : e \in EventsIn(p)
      /\ \A e \in EventsIn(Y.p) : n + e \in EventsIn(p)
      /\ \A e \in EventsIn(p) \ EventsIn(X.p) : \E f \in EventsIn(Y.p) : e = n + f
  BY JoinFacts DEF WellFormed
<1>3. ASSUME NEW e \in EventsIn(p) PROVE GuardedRightly(m, p, e)
  <2>1. CASE e \in EventsIn(X.p) BY <2>1, <1>1, NestedGuards
  <2>2. CASE e \notin EventsIn(X.p)
    <3>1. PICK f \in EventsIn(Y.p) : e = n + f BY <2>2, <1>2
    <3>2. GuardedRightly(m, p, n + f) BY <1>1, NestedGuards
    <3> QED BY <3>1, <3>2
  <2> QED BY <2>1, <2>2
<1>4. Q.unguarded_events = {e \in EventsIn(p) : m[e] = e}
  <2>0. PICK U : U = Q.unguarded_events OBVIOUS
  <2>1. U = X.unguarded_events \cup {n + e : e \in Y.unguarded_events}
    BY <2>0 DEF Nest
  <2>2. \A e \in EventsIn(X.p) : e \in U <=> m[e] = e
    <3>1. ASSUME NEW e \in EventsIn(X.p), NEW f \in Y.unguarded_events PROVE e # n + f
      <4>1. e \in 1..n /\ f \in 1..length(Y.p) BY <3>1 DEF EventsIn, WellFormed
      <4> QED BY <4>1, <1>2
    <3> QED BY <3>1, <2>1, <1>1 DEF WellFormed
  <2>3. ASSUME NEW f \in EventsIn(Y.p) PROVE n + f \in U <=> m[n + f] = n + f
    <3>1. n + f \notin X.unguarded_events
      <4>1. f \in 1..length(Y.p) BY DEF EventsIn
      <4>2. n + f \notin 1..n BY <4>1, <1>2
      <4> QED BY <4>2 DEF WellFormed, EventsIn
    <3>2. \A g \in Y.unguarded_events : n + g = n + f => g = f
      <4>1. \A g \in Y.unguarded_events : g \in Nat BY DEF WellFormed, EventsIn
      <4>2. f \in Nat BY DEF EventsIn
      <4> QED BY <4>1, <4>2, <1>2
    <3>3. n + f \in U <=> f \in Y.unguarded_events
      <4>1. n + f \in U <=> n + f \in {n + e : e \in Y.unguarded_events}
        BY <2>1, <3>1
      <4>2. n + f \in {n + e : e \in Y.unguarded_events} <=>
              \E g \in Y.unguarded_events : n + g = n + f
        OBVIOUS
      <4>3. f \in Y.unguarded_events => \E g \in Y.unguarded_events : n + g = n + f OBVIOUS
      <4>4. (\E g \in Y.unguarded_events : n + g = n + f) => f \in Y.unguarded_events
        <5>1. SUFFICES ASSUME NEW g \in Y.unguarded_events, n + g = n + f
                       PROVE  f \in Y.unguarded_events
          OBVIOUS
        <5>2. g = f BY <3>2, <5>1
        <5> QED BY <5>2
      <4> QED BY <4>1, <4>2, <4>3, <4>4
    <3>4. f \in Y.unguarded_events <=> Y.assume_map[f] = f BY DEF WellFormed
    <3>5. Y.assume_map[f] \in Nat /\ f \in Nat
      <4>1. Y.assume_map[f] \in EventsIn(Y.p) BY DEF WellFormed
      <4>2. EventsIn(Y.p) \subseteq Nat BY DEF EventsIn
      <4> QED BY <4>1, <4>2
    <3>6. n + Y.assume_map[f] = n + f <=> Y.assume_map[f] = f BY <3>5, <1>2
    <3>7. m[n + f] = n + Y.assume_map[f] BY <1>1
    <3> QED BY <3>3, <3>4, <3>6, <3>7
  <2>4. U \subseteq EventsIn(p) BY <2>1, <1>2 DEF WellFormed
  <2>5. \A e \in EventsIn(p) : e \in U <=> m[e] = e BY <2>2, <2>3, <1>2
  <2> QED BY <2>0, <2>4, <2>5
<1>5. Q.unguarded_events # {} BY DEF Nest, WellFormed
<1>6. Q.p = p BY DEF Nest
<1> HIDE DEF Q
<1>7. Q.assume_map \in [EventsIn(Q.p) -> EventsIn(Q.p)] BY <1>0, <1>1, <1>6
<1>8. Q.unguarded_events = {e \in EventsIn(Q.p) : Q.assume_map[e] = e} BY <1>0, <1>4, <1>6
<1>9. \A e \in EventsIn(Q.p) : GuardedRightly(Q.assume_map, Q.p, e) BY <1>0, <1>3, <1>6
<1>10. WellFormedString(Q.p) BY <1>6
<1>11. WellFormed(Q) BY <1>5, <1>10, <1>7, <1>8, <1>9, Zenon DEF WellFormed
<1> QED BY <1>11 DEF Q

(* A symbolic program of one access is well-formed: nothing guards it. *)
THEOREM OneAccess ==
    ASSUME NEW label \in Nat
    PROVE  WellFormed(SymbolicProgram(label))
<1> DEFINE P == SymbolicProgram(label)
<1>1. P.p = PartialString(label) /\ P.assume_map = <<1>> /\ P.unguarded_events = {1}
  BY DEF SymbolicProgram
<1>2. WellFormedString(P.p) /\ EventsIn(P.p) = {1} BY <1>1, OneEventString
<1>3. P.assume_map \in [{1} -> {1}] /\ P.assume_map[1] = 1 BY <1>1
<1> HIDE DEF P
<1>4. P.unguarded_events = {e \in EventsIn(P.p) : P.assume_map[e] = e} BY <1>1, <1>2, <1>3
<1>5. \A e \in EventsIn(P.p) : GuardedRightly(P.assume_map, P.p, e)
  BY <1>2, <1>3 DEF GuardedRightly
<1>6. P.assume_map \in [EventsIn(P.p) -> EventsIn(P.p)] /\ P.unguarded_events # {}
  BY <1>1, <1>2, <1>3
<1>7. WellFormed(P) BY <1>2, <1>4, <1>5, <1>6, Zenon DEF WellFormed
<1> QED BY <1>7 DEF P

(* SymbolicConcurrent() of two well-formed programs is well-formed: the    *)
(* assumptions of the second keep guarding their events when these move.   *)
THEOREM ConcurrentPrograms ==
    ASSUME NEW X, WellFormed(X), NEW Y, WellFormed(Y)
    PROVE  WellFormed(SymbolicConcurrent(X, Y))
<1>1. PICK p : p = Concurrent(X.p, Y.p) OBVIOUS
<1>2. WellFormedString(X.p) /\ WellFormedString(Y.p) BY DEF WellFormed
<1>3. Composed(p, X.p, Y.p, {}) BY <1>1, ConcurrentFields
<1>4. WellFormedString(p) /\ Joins(p, X.p, Y.p) BY <1>2, <1>3, ComposedIsWellFormed
<1> QED BY <1>1, <1>4, NestIsWellFormed DEF SymbolicConcurrent

LEMMA SequentialIsWellFormed ==
    ASSUME NEW X, WellFormedString(X), NEW Y, WellFormedString(Y),
           NEW p, p = Sequential(X, Y)
    PROVE  /\ WellFormedString(p) /\ Joins(p, X, Y)
           /\ Between(X, Y) \subseteq p.order
<1>1. Composed(p, X, Y, Between(X, Y)) BY SequentialFields
<1>2. \A pair \in Between(X, Y) :
        \E e \in EventsIn(X), f \in EventsIn(Y) : pair = <<e, length(X) + f>>
  BY DEF Between, WellFormedString
<1> HIDE DEF Between
<1>3. WellFormedString(p) /\ Joins(p, X, Y) BY <1>1, <1>2, ComposedIsWellFormed
<1>4. Between(X, Y) \subseteq p.order BY <1>1 DEF Composed
<1> QED BY <1>3, <1>4

(* So is SymbolicSequential(), which orders more events. *)
THEOREM SequentialPrograms ==
    ASSUME NEW X, WellFormed(X), NEW Y, WellFormed(Y)
    PROVE  WellFormed(SymbolicSequential(X, Y))
<1>1. PICK p : p = Sequential(X.p, Y.p) OBVIOUS
<1>2. WellFormedString(X.p) /\ WellFormedString(Y.p) BY DEF WellFormed
<1>3. WellFormedString(p) /\ Joins(p, X.p, Y.p) BY <1>1, <1>2, SequentialIsWellFormed
<1> QED BY <1>1, <1>3, NestIsWellFormed DEF SymbolicSequential

LEMMA AssumptionLabels ==
    ASSUME NEW a \in Nat, NEW b \in Nat
    PROVE  LET label == assume_acquire_eq_label(a, b)
           IN  label \in Nat /\ is_assume(label) /\ is_acquire_load(label)
<1> DEFINE label == assume_acquire_eq_label(a, b)
<1>1. label = a * 4096 + b * 16 + 15
  BY DEF assume_acquire_eq_label, assume_acquire_neq_label, acquire_load_label,
         release_store_label, none_store_label, shift_address, shift_byte
<1>2. a * 4096 \in Nat OBVIOUS
<1>3. label = 4 * (a * 1024 + b * 4 + 3) + 3 BY <1>1
<1> HIDE DEF label
<1>4. PICK k \in Nat : k = a * 512 + b * 2 + 1 BY <1>2
<1>5. label = 8 * k + 7 BY <1>1, <1>4
<1>6. label \in Nat /\ label % 4 = 3 BY <1>5
<1>7. label \div 4 = 2 * k + 1 BY <1>5
<1>8. (label \div 4) % 2 = 1 BY <1>7
<1> QED BY <1>6, <1>8 DEF is_assume, is_acquire_load, label

(* if_then() of a well-formed program is well-formed: its condition is     *)
(* sequenced before all events and is the only event without a guard.  It  *)
(* guards what nothing guarded in P, and every event that had a guard in P *)
(* keeps it, where the guard is now.                                       *)
THEOREM ConditionalPrograms ==
    ASSUME NEW a \in Nat, NEW b \in Nat, NEW P, WellFormed(P)
    PROVE  /\ WellFormed(if_then(a, b, P))
           /\ if_then(a, b, P).unguarded_events = {1}
           /\ \A e \in EventsIn(P.p) :
                  if_then(a, b, P).assume_map[1 + e]
                      = IF P.assume_map[e] = e THEN 1 ELSE 1 + P.assume_map[e]
<1>1. PICK A : A = SymbolicProgram(assume_acquire_eq_label(a, b)) OBVIOUS
<1>2. PICK p : p = Sequential(A.p, P.p) OBVIOUS
<1>3. PICK Q : Q = Nest(A, P, p) OBVIOUS
<1>4. PICK m : m = Q.assume_map OBVIOUS
<1> DEFINE g == [e \in DOMAIN m |-> IF e - 1 \in P.unguarded_events THEN 1 ELSE m[e]]
           R == if_then(a, b, P)
<1>5. R.assume_map = g /\ R.unguarded_events = {1} /\ R.p = p
  BY <1>1, <1>2, <1>3, <1>4 DEF if_then, Nest
<1>6. /\ WellFormed(A) /\ length(A.p) = 1 /\ EventsIn(A.p) = {1}
      /\ A.p.maximals = {1} /\ A.p.labels[1] = assume_acquire_eq_label(a, b)
      /\ A.assume_map[1] = 1
  <2>1. assume_acquire_eq_label(a, b) \in Nat BY AssumptionLabels
  <2>2. A.p = PartialString(assume_acquire_eq_label(a, b)) /\ A.assume_map = <<1>>
    BY <1>1 DEF SymbolicProgram
  <2>3. A.p.labels = <<assume_acquire_eq_label(a, b)>> /\ A.p.maximals = {1}
    BY <2>2 DEF PartialString
  <2> QED BY <1>1, <2>1, <2>2, <2>3, OneAccess, OneEventString DEF length
<1>7. WellFormedString(A.p) /\ WellFormedString(P.p) BY <1>6 DEF WellFormed
<1>8. WellFormedString(p) /\ Joins(p, A.p, P.p) /\ Between(A.p, P.p) \subseteq p.order
  BY <1>2, <1>7, SequentialIsWellFormed
<1>9. /\ m \in [EventsIn(p) -> EventsIn(p)]
      /\ m[1] = 1
      /\ \A e \in EventsIn(P.p) : m[1 + e] = 1 + P.assume_map[e]
  BY <1>3, <1>4, <1>6, <1>8, NestedMap
<1>10. /\ 1 \in EventsIn(p) /\ p.labels[1] = assume_acquire_eq_label(a, b)
       /\ \A e \in EventsIn(P.p) : 1 + e \in EventsIn(p)
       /\ \A e \in EventsIn(p) \ {1} : \E f \in EventsIn(P.p) : e = 1 + f
  BY <1>6, <1>7, <1>8, JoinFacts
<1>11. \A f \in P.p.minimals : <<1, 1 + f>> \in p.order
  BY <1>6, <1>8 DEF Between
<1>12. EventsIn(P.p) \subseteq Nat /\ 0 \notin EventsIn(P.p) BY DEF EventsIn
<1>13. P.unguarded_events \subseteq EventsIn(P.p) BY DEF WellFormed
<1>14. g \in [EventsIn(p) -> EventsIn(p)] BY <1>9, <1>10
<1>15. g[1] = 1
  <2>1. 1 - 1 = 0 OBVIOUS
  <2> QED BY <2>1, <1>9, <1>10, <1>12, <1>13
<1>16. \A f \in EventsIn(P.p) : g[1 + f] = IF f \in P.unguarded_events THEN 1 ELSE 1 + P.assume_map[f]
  <2>1. \A f \in EventsIn(P.p) : (1 + f) - 1 = f BY <1>12
  <2> QED BY <2>1, <1>9, <1>10
<1> HIDE DEF g, R
<1>17. ASSUME NEW f \in EventsIn(P.p) PROVE g[1 + f] # 1 + f
  <2>1. f \in Nat /\ f # 0 BY <1>12
  <2>2. CASE f \in P.unguarded_events BY <2>1, <2>2, <1>16
  <2>3. CASE f \notin P.unguarded_events
    <3>1. P.assume_map[f] \in EventsIn(P.p) /\ P.assume_map[f] # f BY <2>3 DEF WellFormed
    <3>2. P.assume_map[f] \in Nat BY <3>1, <1>12
    <3> QED BY <3>1, <3>2, <2>1, <2>3, <1>16
  <2> QED BY <2>2, <2>3
<1>18. ASSUME NEW e \in EventsIn(p) PROVE GuardedRightly(g, p, e)
  <2>1. CASE e = 1 BY <2>1, <1>15 DEF GuardedRightly
  <2>2. CASE e # 1
    <3>1. PICK f \in EventsIn(P.p) : e = 1 + f BY <2>2, <1>10
    <3>2. CASE f \in P.unguarded_events
      <4>1. g[e] = 1 BY <3>1, <3>2, <1>16
      <4>2. SequencedBefore(p, 1, 1 + f) BY <1>6, <1>7, <1>8, <1>11, FirstIsBefore
      <4>3. is_assume(p.labels[1]) /\ is_acquire_load(p.labels[1]) BY <1>10, AssumptionLabels
      <4> QED BY <3>1, <4>1, <4>2, <4>3 DEF GuardedRightly
    <3>3. CASE f \notin P.unguarded_events
      <4>1. g[1 + f] = 1 + P.assume_map[f] BY <3>3, <1>16
      <4> QED BY <3>1, <4>1, <1>6, <1>8, <1>14, NestedGuards
    <3> QED BY <3>2, <3>3
  <2> QED BY <2>1, <2>2
<1>19. {1} = {e \in EventsIn(p) : g[e] = e} BY <1>10, <1>15, <1>17
<1>20. WellFormedString(R.p) /\ R.unguarded_events # {} BY <1>5, <1>8
<1>21. R.assume_map \in [EventsIn(R.p) -> EventsIn(R.p)] BY <1>5, <1>14
<1>22. R.unguarded_events = {e \in EventsIn(R.p) : R.assume_map[e] = e} BY <1>5, <1>19
<1>23. \A e \in EventsIn(R.p) : GuardedRightly(R.assume_map, R.p, e) BY <1>5, <1>18
<1>24. WellFormed(R) BY <1>20, <1>21, <1>22, <1>23, Zenon DEF WellFormed
<1>25. ASSUME NEW e \in EventsIn(P.p)
       PROVE  R.assume_map[1 + e] = IF P.assume_map[e] = e THEN 1 ELSE 1 + P.assume_map[e]
  <2>1. e \in P.unguarded_events <=> P.assume_map[e] = e BY DEF WellFormed
  <2> QED BY <2>1, <1>5, <1>16
<1> QED BY <1>5, <1>24, <1>25 DEF R

----------------------------------------------------------------------------
(* A program is constructed if it comes from a list in which each program  *)
(* is one access or made of programs before it.                            *)
Construction(s, n) ==
    \A i \in 1..n :
        \/ \E label \in Nat : s[i] = SymbolicProgram(label)
        \/ \E j, k \in 1..(i - 1) :
              \/ s[i] = SymbolicConcurrent(s[j], s[k])
              \/ s[i] = SymbolicSequential(s[j], s[k])
        \/ \E j \in 1..(i - 1), a, b \in Nat : s[i] = if_then(a, b, s[j])

Constructed(P) == \E s : \E n \in Nat : Construction(s, n) /\ \E i \in 1..n : P = s[i]

(* Whatever the constructors of symbolic programs can build is well-formed.*)
THEOREM ConstructedIsWellFormed ==
    ASSUME NEW P, Constructed(P)
    PROVE  WellFormed(P)
<1>0. PICK s : \E n \in Nat : Construction(s, n) /\ \E i \in 1..n : P = s[i] BY DEF Constructed
<1>1. PICK n \in Nat : Construction(s, n) /\ \E i \in 1..n : P = s[i] BY <1>0
<1> DEFINE T == {i \in 1..n : ~WellFormed(s[i])}
<1>2. SUFFICES ASSUME T # {} PROVE FALSE BY <1>1
<1>3. T \in SUBSET Nat OBVIOUS
<1> HIDE DEF T
<1>4. PICK i \in T : \A k \in T : i <= k BY <1>2, <1>3, LeastExists
<1>5. i \in 1..n /\ ~WellFormed(s[i]) BY <1>4 DEF T
<1>6. ASSUME NEW j \in 1..(i - 1) PROVE WellFormed(s[j])
  <2>1. j \in 1..n /\ ~(i <= j) BY <1>5
  <2> QED BY <2>1, <1>4 DEF T
<1>7. CASE \E label \in Nat : s[i] = SymbolicProgram(label) BY <1>5, <1>7, OneAccess
<1>8. CASE \E j, k \in 1..(i - 1) : \/ s[i] = SymbolicConcurrent(s[j], s[k])
                                    \/ s[i] = SymbolicSequential(s[j], s[k])
  BY <1>5, <1>6, <1>8, ConcurrentPrograms, SequentialPrograms
<1>9. CASE \E j \in 1..(i - 1), a, b \in Nat : s[i] = if_then(a, b, s[j])
  BY <1>5, <1>6, <1>9, ConditionalPrograms
<1> QED BY <1>1, <1>5, <1>7, <1>8, <1>9 DEF Construction

LEMMA NestingFromInvariants ==
    ASSUME WellFormed(program)
    PROVE  GuardsFollowNesting
<1> DEFINE n == length(x)
<1>1. n \in Nat /\ Events = 1..n /\ Events # {}
  <2>1. n \in Nat /\ n # 0 BY DEF WellFormed, WellFormedString, x, length
  <2> QED BY <2>1 DEF Events, EventsIn
<1>2. Map \in [1..n -> 1..n] BY <1>1 DEF WellFormed, Map, Events, x
<1> HIDE DEF n
<1>3. Len(Map) = n
  <2>1. Map \in [1..n -> Nat] BY <1>1, <1>2
  <2> QED BY <2>1, <1>1, MapOnEvents
<1>4. program.unguarded_events = {e \in Events : Map[e] = e}
  BY DEF WellFormed, Map, Events, x
<1>5. \A e \in Events : Map[e] # e => is_assume(Label(Map[e])) /\ SequencedBefore(x, Map[e], e)
  BY DEF WellFormed, GuardedRightly, Map, Events, x, Label
<1>6. program.unguarded_events # {} BY DEF WellFormed
<1> QED BY <1>1, <1>3, <1>4, <1>5, <1>6 DEF GuardsFollowNesting, n

(* However conditions and compositions are nested, each guard is an        *)
(* assumption sequenced before what it guards, and the events that nothing *)
(* guards are exactly those that unguarded_events has.                     *)
THEOREM GuardsAreNested ==
    ASSUME \A P \in Programs : Constructed(P)
    PROVE  Spec => []GuardsFollowNesting
<1> DEFINE Inv == WellFormed(program)
<1>1. Init => Inv BY ConstructedIsWellFormed DEF Init
<1>2. Inv /\ [Next]_vars => Inv' BY DEF Next, Execute, Race, Place, Solve, vars
<1>3. Inv => GuardsFollowNesting BY NestingFromInvariants
<1> QED BY <1>1, <1>2, <1>3, PTL DEF Spec

----------------------------------------------------------------------------
(* Execution *)

ExecutionType ==
    /\ time \in [Events -> Nat]
    /\ memory \in [Addresses(x) -> Events \cup {Nowhere}]
    /\ rf \in [Loads -> Events \cup {Nowhere}]
    /\ value \in [Events -> 0..NoByte]

(* There is a latest moment, which Now needs. *)
SomeLatest(t) == Events = {} \/ \E e \in Events : \A f \in Events : t[f] <= t[e]

Ordered ==
    \A pair \in x.order : Done(pair[2]) => Done(pair[1]) /\ time[pair[1]] < time[pair[2]]

Made(e) == Done(e) /\ TakesPlace(e)

IsPlain(e) == is_none_store(Label(e)) \/ is_none_load(Label(e))

OnlyRacesCoincide ==
    \A e, f \in Events :
        Done(e) /\ time[e] = time[f] /\ e # f => IsPlain(e) /\ TakesPlace(e)

StoredBytes ==
    \A e \in Events : Done(e) /\ is_release_store(Label(e)) => value[e] = byte(Label(e))

Untouched == \A e \in Events : ~Done(e) => value[e] = NoByte

(* The memory has the last store to each address. *)
HasLast(a) ==
    /\ memory[a] # Nowhere => memory[a] \in ReleaseStores(x, a) /\ Made(memory[a])
    /\ \A e \in ReleaseStores(x, a) :
          Made(e) => memory[a] # Nowhere /\ time[e] <= time[memory[a]]

MemoryHasLast == \A a \in Addresses(x) : HasLast(a)

(* A load has read the last store before it. *)
ReadNothing(l) ==
    Made(l) /\ rf[l] = Nowhere => is_assume_acquire_eq(Label(l)) /\ value[l] = NoByte

ReadLast(l) ==
    rf[l] # Nowhere =>
        /\ Made(l)
        /\ rf[l] \in ReleaseStores(x, address(Label(l)))
        /\ Made(rf[l])
        /\ time[rf[l]] < time[l]
        /\ value[l] = byte(Label(rf[l]))
        /\ \A other \in ReleaseStores(x, address(Label(l))) :
              Made(other) => time[other] <= time[rf[l]] \/ time[l] < time[other]

ReadsFit == \A l \in Loads : ReadNothing(l) /\ ReadLast(l)

ExecutionInvariant ==
    /\ WellFormed(program)
    /\ ExecutionType
    /\ SomeLatest(time)
    /\ Ordered
    /\ OnlyRacesCoincide
    /\ StoredBytes
    /\ Untouched
    /\ MemoryHasLast
    /\ ReadsFit

----------------------------------------------------------------------------
(* Guards *)

(* Events that are closed under what is sequenced before, and have what is *)
(* sequenced before another event, have the assumptions above that one.    *)
LEMMA AssumptionsBefore ==
    ASSUME NEW P, WellFormed(P),
           NEW D \in SUBSET EventsIn(P.p),
           \A pair \in P.p.order : pair[2] \in D => pair[1] \in D,
           NEW e \in EventsIn(P.p),
           \A pair \in P.p.order : pair[2] = e => pair[1] \in D
    PROVE  Assumptions(P.assume_map, e) \subseteq D
<1> DEFINE m == P.assume_map
           S == Guards(m) \cap D
<1>1. m \in [EventsIn(P.p) -> EventsIn(P.p)] BY DEF WellFormed
<1>2. ASSUME NEW f \in S \cup {e}, is_guarded(m, f) PROVE m[f] \in S
  <2>1. f \in EventsIn(P.p) /\ m[f] # f BY <1>1, <1>2 DEF is_guarded
  <2>2. SequencedBefore(P.p, m[f], f) BY <2>1 DEF WellFormed, GuardedRightly
  <2>3. \A pair \in P.p.order : pair[2] \in D \cup {f} => pair[1] \in D OBVIOUS
  <2>4. m[f] \in D BY <2>2, <2>3 DEF SequencedBefore
  <2> QED BY <2>1, <2>4, <1>1, <1>2 DEF Guards
<1>3. S \in SUBSET Guards(m) OBVIOUS
<1> QED BY <1>2, <1>3 DEF Assumptions

----------------------------------------------------------------------------
(* Steps *)

(* Some events, all ready, are executed at the same moment. *)
Advance(S, n) ==
    /\ S \subseteq Events
    /\ \A e \in S : ReadyIn(time, e)
    /\ n \in Nat
    /\ \A e \in Events : time[e] < n
    /\ time' = [e \in Events |-> IF e \in S THEN n ELSE time[e]]
    /\ value' \in [Events -> 0..NoByte]
    /\ \A e \in Events \ S : value'[e] = value[e]
    /\ S # {}
    /\ program' = program

LEMMA LatestIsLatest ==
    ASSUME NEW t \in [Events -> Nat], SomeLatest(t), Events # {}
    PROVE  LET latest == Max({t[e] : e \in Events})
           IN  latest \in Nat /\ \A e \in Events : t[e] <= latest
<1> DEFINE T == {t[e] : e \in Events}
<1>1. PICK m \in T : \A u \in T : m >= u
  <2>1. PICK e \in Events : \A f \in Events : t[f] <= t[e] BY DEF SomeLatest
  <2>2. \A f \in Events : t[f] \in Nat OBVIOUS
  <2> QED BY <2>1, <2>2
<1>2. Max(T) \in T /\ \A u \in T : Max(T) >= u BY <1>1 DEF Max
<1>3. \A f \in Events : t[f] \in Nat OBVIOUS
<1> QED BY <1>2, <1>3

LEMMA NowIsLatest ==
    ASSUME ExecutionType, SomeLatest(time), Events # {}
    PROVE  Now \in Nat /\ \A e \in Events : time[e] <= Now
BY LatestIsLatest DEF ExecutionType, Now

(* What has been executed, or is ready, has its assumptions behind it. *)
LEMMA AssumptionsDone ==
    ASSUME WellFormed(program), Ordered, NEW e \in Events, Done(e) \/ ReadyIn(time, e),
           NEW a \in Assumptions(Map, e)
    PROVE  a \in Events /\ Done(a)
<1> DEFINE D == {f \in Events : Done(f)}
<1>1. x.order \subseteq Events \X Events BY DEF WellFormed, WellFormedString, x, Events
<1>2. \A pair \in x.order : pair[2] \in D => pair[1] \in D BY <1>1 DEF Ordered
<1>3. \A pair \in x.order : pair[2] = e => pair[1] \in D
  BY <1>1 DEF Ordered, ReadyIn, Done
<1> HIDE DEF D
<1>4. D \in SUBSET EventsIn(program.p) BY DEF D, Events, x
<1>5. Assumptions(program.assume_map, e) \subseteq D
  BY <1>2, <1>3, <1>4, AssumptionsBefore DEF Events, x
<1> QED BY <1>5 DEF Map, D

LEMMA ByteRange ==
    ASSUME NEW op \in Nat
    PROVE  byte(op) \in 0..255
BY DEF byte, shift_byte

LEMMA AdvanceFacts ==
    ASSUME WellFormed(program), ExecutionType, Ordered, NEW S, NEW n, Advance(S, n)
    PROVE  /\ n # 0
           /\ x' = x /\ Map' = Map /\ Events' = Events
           /\ \A e \in S : time'[e] = n /\ ~Done(e)
           /\ \A e \in Events \ S : time'[e] = time[e]
           /\ \A e \in Events : Done(e)' <=> Done(e) \/ e \in S
           /\ \A e \in Events : Done(e) \/ e \in S => (TakesPlace(e)' <=> TakesPlace(e))
<1>1. x' = x /\ Map' = Map /\ Events' = Events BY DEF Advance, x, Map, Events
<1>2. n # 0
  <2>1. PICK e \in S : TRUE BY DEF Advance
  <2>2. e \in Events /\ n \in Nat /\ time[e] < n /\ time[e] \in Nat BY DEF Advance, ExecutionType
  <2> QED BY <2>2
<1>3. \A e \in S : time'[e] = n /\ ~Done(e) BY DEF Advance, ReadyIn, Done
<1>4. \A e \in Events \ S : time'[e] = time[e] BY DEF Advance
<1>5. \A e \in Events : Done(e)' <=> Done(e) \/ e \in S BY <1>2, <1>3, <1>4 DEF Done
<1>6. ASSUME NEW e \in Events, Done(e) \/ e \in S
      PROVE  TakesPlace(e)' <=> TakesPlace(e)
  <2>1. Done(e) \/ ReadyIn(time, e) BY <1>6 DEF Advance
  <2>2. \A a \in Assumptions(Map, e) : a \in Events /\ a \notin S
    BY <2>1, <1>3, AssumptionsDone
  <2>3. \A a \in Assumptions(Map, e) : value'[a] = value[a] BY <2>2 DEF Advance
  <2> QED BY <2>3, <1>1 DEF TakesPlace
<1> QED BY <1>1, <1>2, <1>3, <1>4, <1>5, <1>6

LEMMA AdvanceKeepsOrder ==
    ASSUME WellFormed(program), ExecutionType, SomeLatest(time), Ordered, NEW S, NEW n, Advance(S, n)
    PROVE  SomeLatest(time)' /\ Ordered'
<1>1. \A e \in Events : time[e] \in Nat /\ time[e] < n BY DEF ExecutionType, Advance
<1>2. n \in Nat /\ S \subseteq Events /\ S # {} BY DEF Advance
<1>3. /\ n # 0
      /\ x' = x /\ Events' = Events
      /\ \A e \in S : time'[e] = n
      /\ \A e \in Events \ S : time'[e] = time[e]
      /\ \A e \in Events : Done(e)' <=> Done(e) \/ e \in S
  BY AdvanceFacts
<1>4. SomeLatest(time)'
  <2>1. PICK e \in S : TRUE BY <1>2
  <2>2. \A f \in Events : time'[f] <= time'[e] BY <2>1, <1>1, <1>2, <1>3
  <2> QED BY <2>1, <2>2, <1>2, <1>3 DEF SomeLatest
<1>5. ASSUME NEW pair \in x.order, Done(pair[2])'
      PROVE  Done(pair[1])' /\ time'[pair[1]] < time'[pair[2]]
  <2>1. pair[1] \in Events /\ pair[2] \in Events BY DEF WellFormed, WellFormedString, Events, x
  <2>2. CASE pair[2] \in S
    <3>1. Done(pair[1]) BY <2>2 DEF Advance, ReadyIn, Done
    <3>2. pair[1] \notin S BY <3>1 DEF Advance, ReadyIn, Done
    <3> QED BY <2>1, <2>2, <3>1, <3>2, <1>1, <1>3
  <2>3. CASE pair[2] \notin S
    <3>1. Done(pair[2]) BY <2>1, <2>3, <1>3, <1>5
    <3>2. Done(pair[1]) /\ time[pair[1]] < time[pair[2]] BY <3>1 DEF Ordered
    <3>3. pair[1] \notin S BY <3>2 DEF Advance, ReadyIn, Done
    <3> QED BY <2>1, <2>3, <3>2, <3>3, <1>3
  <2> QED BY <2>2, <2>3
<1> QED BY <1>3, <1>4, <1>5 DEF Ordered

LEMMA AddressesGrow ==
    ASSUME NEW op \in Nat, NEW max \in Nat, op <= max
    PROVE  address(op) <= address(max)
BY DEF address, shift_address, shift_byte

LEMMA LabelFacts ==
    ASSUME WellFormed(program), NEW e \in Events
    PROVE  /\ Label(e) \in Nat
           /\ byte(Label(e)) \in 0..255
           /\ address(Label(e)) \in Addresses(x)
<1>1. Label(e) \in Nat BY DEF WellFormed, WellFormedString, Label, x, Events, EventsIn, length
<1>2. address(Label(e)) <= address(x.max_label)
  <2>1. Label(e) <= x.max_label /\ x.max_label \in Nat
    BY DEF WellFormed, WellFormedString, Label, x, Events
  <2> QED BY <1>1, <2>1, AddressesGrow
<1>3. address(Label(e)) \in Nat BY <1>1 DEF address, shift_address, shift_byte
<1>4. address(x.max_label) \in Nat BY DEF WellFormed, WellFormedString, x, address, shift_address, shift_byte
<1> QED BY <1>1, <1>2, <1>3, <1>4, ByteRange DEF Addresses

LEMMA LoadFacts ==
    ASSUME WellFormed(program)
    PROVE  Loads \subseteq Events /\ AllLoads(x) = Loads
<1>1. \A e \in Events : address(Label(e)) \in Addresses(x) BY LabelFacts
<1> QED BY <1>1 DEF Loads, AllLoads, AcquireLoads, Events, Label

(* A store is no load, nor a plain access a store that others may read. *)
LEMMA KindsOfLabels ==
    ASSUME NEW op \in Nat
    PROVE  /\ ~(is_release_store(op) /\ is_acquire_load(op))
           /\ ~(is_release_store(op) /\ (is_none_store(op) \/ is_none_load(op)))
           /\ ~(is_acquire_load(op) /\ (is_none_store(op) \/ is_none_load(op)))
           /\ ~(is_none_store(op) /\ is_none_load(op))
           /\ is_release_store(op) => is_store(op)
           /\ is_acquire_load(op) => ~is_store(op)
BY DEF is_release_store, is_acquire_load, is_none_store, is_none_load, is_store

LEMMA EqualAssumptionsAreAssumptions ==
    ASSUME NEW op \in Nat, is_assume_acquire_eq(op)
    PROVE  is_assume(op)
BY DEF is_assume_acquire_eq, is_assume

LEMMA ExecuteAdvances ==
    ASSUME ExecutionInvariant, NEW e \in Events, Execute(e)
    PROVE  /\ Advance({e}, Now + 1)
           /\ \A f \in Events \ {e} : value'[f] = value[f]
<1> USE DEF ExecutionInvariant
<1>1. Now \in Nat /\ \A f \in Events : time[f] <= Now BY NowIsLatest
<1>2. \A f \in Events : time[f] \in Nat BY DEF ExecutionType
<1>3. \A f \in Events : time[f] < Now + 1 BY <1>1, <1>2
<1>4. time' = [f \in Events |-> IF f \in {e} THEN Now + 1 ELSE time[f]]
  BY DEF Execute, ExecutionType
<1>5. PICK b \in 0..NoByte : value' = [value EXCEPT ![e] = b]
  <2>1. value = [value EXCEPT ![e] = value[e]] /\ value[e] \in 0..NoByte BY DEF ExecutionType
  <2>2. \A f \in Events : byte(Label(f)) \in 0..NoByte
    <3>1. \A f \in Events : byte(Label(f)) \in 0..255 BY LabelFacts
    <3> QED BY <3>1 DEF NoByte
  <2>3. CASE Store(e) BY <2>2, <2>3 DEF Store
  <2>4. CASE Load(e)
    <3>1. address(Label(e)) \in Addresses(x) BY LabelFacts
    <3>2. memory[address(Label(e))] \in Events BY <3>1, <2>4 DEF Load, ExecutionType
    <3> QED BY <3>2, <2>2, <2>4 DEF Load
  <2>5. CASE AssumeNothing(e) BY <2>1, <2>5 DEF AssumeNothing
  <2>6. CASE Plain(e) BY <2>1, <2>6 DEF Plain
  <2>7. CASE Skip(e)
    <3>1. NoByte \in 0..NoByte BY DEF NoByte
    <3> QED BY <3>1, <2>2, <2>7 DEF Skip
  <2> QED BY <2>3, <2>4, <2>5, <2>6, <2>7 DEF Execute
<1>6. value' \in [Events -> 0..NoByte] /\ \A f \in Events \ {e} : value'[f] = value[f]
  BY <1>5 DEF ExecutionType
<1>7. ReadyIn(time, e) /\ program' = program BY DEF Execute
<1> QED BY <1>1, <1>3, <1>4, <1>6, <1>7 DEF Advance

LEMMA ConflictsArePlain ==
    ASSUME WellFormed(program), NEW pair \in ConflictingPairs
    PROVE  /\ pair[1] \in Events /\ pair[2] \in Events /\ pair[1] # pair[2]
           /\ IsPlain(pair[1]) /\ IsPlain(pair[2])
<1>1. PICK a \in Addresses(x) :
        pair \in (NoneStores(x, a) \X NoneLoads(x, a))
                 \cup {q \in NoneStores(x, a) \X NoneStores(x, a) : q[1] < q[2]}
  BY DEF ConflictingPairs
<1>2. CASE pair \in NoneStores(x, a) \X NoneLoads(x, a)
  <2>1. pair[1] \in NoneStores(x, a) /\ pair[2] \in NoneLoads(x, a) BY <1>2
  <2>2. pair[1] \in Events /\ pair[2] \in Events BY <2>1 DEF NoneStores, NoneLoads, Events
  <2>3. is_none_store(Label(pair[1])) /\ is_none_load(Label(pair[2]))
    BY <2>1 DEF NoneStores, NoneLoads, Label
  <2>4. pair[1] # pair[2] BY <2>2, <2>3, LabelFacts, KindsOfLabels
  <2> QED BY <2>2, <2>3, <2>4 DEF IsPlain
<1>3. CASE pair \in {q \in NoneStores(x, a) \X NoneStores(x, a) : q[1] < q[2]}
  <2>1. pair[1] \in NoneStores(x, a) /\ pair[2] \in NoneStores(x, a) /\ pair[1] < pair[2]
    BY <1>3
  <2>2. pair[1] \in Events /\ pair[2] \in Events BY <2>1 DEF NoneStores, Events
  <2>3. pair[1] \in Nat /\ pair[2] \in Nat
    BY <2>2 DEF WellFormed, WellFormedString, Events, EventsIn, length
  <2>4. is_none_store(Label(pair[1])) /\ is_none_store(Label(pair[2]))
    BY <2>1 DEF NoneStores, Label
  <2> QED BY <2>1, <2>2, <2>3, <2>4 DEF IsPlain
<1> QED BY <1>1, <1>2, <1>3

LEMMA RaceAdvances ==
    ASSUME ExecutionInvariant, NEW e \in Events, NEW f \in Events, Race(e, f)
    PROVE  /\ Advance({e, f}, Now + 1)
           /\ e # f
           /\ IsPlain(e) /\ IsPlain(f)
<1> USE DEF ExecutionInvariant
<1>1. Now \in Nat /\ \A g \in Events : time[g] <= Now BY NowIsLatest
<1>2. \A g \in Events : time[g] \in Nat BY DEF ExecutionType
<1>3. \A g \in Events : time[g] < Now + 1 BY <1>1, <1>2
<1>4. time' = [g \in Events |-> IF g \in {e, f} THEN Now + 1 ELSE time[g]]
  BY DEF Race, ExecutionType
<1>5. value' \in [Events -> 0..NoByte] /\ \A g \in Events : value'[g] = value[g]
  BY DEF Race, ExecutionType
<1>6. ReadyIn(time, e) /\ ReadyIn(time, f) /\ program' = program BY DEF Race
<1>7. e # f /\ IsPlain(e) /\ IsPlain(f) BY ConflictsArePlain DEF Race
<1> QED BY <1>1, <1>3, <1>4, <1>5, <1>6, <1>7 DEF Advance

(* What has been done stays as it was; what is done now comes later. *)
LEMMA DoneStays ==
    ASSUME WellFormed(program), ExecutionType, Ordered, NEW S, NEW n, Advance(S, n)
    PROVE  /\ \A f \in Events : Made(f)' <=> Made(f) \/ (f \in S /\ TakesPlace(f))
           /\ \A f \in Events : Done(f) =>
                 /\ f \notin S
                 /\ time'[f] = time[f]
                 /\ value'[f] = value[f]
                 /\ time[f] < n
                 /\ (Made(f)' <=> Made(f))
<1>1. /\ \A e \in S : ~Done(e)
      /\ \A e \in Events \ S : time'[e] = time[e]
      /\ \A e \in Events : Done(e)' <=> Done(e) \/ e \in S
      /\ \A e \in Events : Done(e) \/ e \in S => (TakesPlace(e)' <=> TakesPlace(e))
  BY AdvanceFacts
<1>2. \A f \in Events : Made(f)' <=> Made(f) \/ (f \in S /\ TakesPlace(f))
  BY <1>1 DEF Made
<1> QED BY <1>1, <1>2 DEF Advance

LEMMA MemoryStays ==
    ASSUME WellFormed(program), ExecutionType, Ordered, NEW S, NEW n, Advance(S, n),
           MemoryHasLast, memory' = memory,
           \A e \in S : is_release_store(Label(e)) => ~TakesPlace(e)
    PROVE  MemoryHasLast'
<1>1. /\ \A f \in Events : Made(f)' <=> Made(f) \/ (f \in S /\ TakesPlace(f))
      /\ \A f \in Events : Done(f) => time'[f] = time[f]
  BY DoneStays
<1>2. x' = x BY AdvanceFacts
<1>3. SUFFICES ASSUME NEW a \in Addresses(x) PROVE HasLast(a)'
  BY <1>2 DEF MemoryHasLast
<1>4. \A e \in ReleaseStores(x, a) : e \in Events /\ is_release_store(Label(e))
  BY DEF ReleaseStores, Events, Label
<1>5. \A e \in ReleaseStores(x, a) : Made(e)' <=> Made(e)
  BY <1>1, <1>4 DEF Advance
<1>6. HasLast(a) BY DEF MemoryHasLast
<1>7. memory[a] # Nowhere => memory[a] \in ReleaseStores(x, a) /\ Made(memory[a])
  BY <1>6 DEF HasLast
<1>8. memory[a] # Nowhere => Made(memory[a])'
  BY <1>5, <1>7
<1>9. ASSUME NEW e \in ReleaseStores(x, a), Made(e)'
      PROVE  memory[a] # Nowhere /\ time'[e] <= time'[memory[a]]
  <2>1. Made(e) BY <1>5, <1>9
  <2>2. memory[a] # Nowhere /\ time[e] <= time[memory[a]] BY <2>1, <1>6 DEF HasLast
  <2>3. time'[e] = time[e] BY <2>1, <1>1, <1>4 DEF Made
  <2>4. time'[memory[a]] = time[memory[a]] BY <2>2, <1>1, <1>4, <1>7 DEF Made
  <2> QED BY <2>2, <2>3, <2>4
<1> QED BY <1>2, <1>7, <1>8, <1>9 DEF HasLast

LEMMA StoreReachesMemory ==
    ASSUME ExecutionInvariant, NEW e \in Events, Execute(e), TakesPlace(e), Store(e)
    PROVE  MemoryHasLast'
<1> DEFINE n == Now + 1
           S == {e}
<1>0. WellFormed(program) /\ ExecutionType /\ Ordered /\ MemoryHasLast BY DEF ExecutionInvariant
<1>1. Advance(S, n) BY ExecuteAdvances
<1> HIDE DEF n, S
<1>2. /\ \A f \in Events : Made(f)' <=> Made(f) \/ (f \in S /\ TakesPlace(f))
      /\ \A f \in Events : Done(f) => time'[f] = time[f] /\ time[f] < n
  BY <1>0, <1>1, DoneStays
<1>3. x' = x /\ time'[e] = n /\ n \in Nat BY <1>0, <1>1, AdvanceFacts DEF S, Advance
<1>4. SUFFICES ASSUME NEW a \in Addresses(x) PROVE HasLast(a)'
  BY <1>3 DEF MemoryHasLast
<1>5. \A f \in ReleaseStores(x, a) : f \in Events /\ address(Label(f)) = a
  BY DEF ReleaseStores, Events, Label
<1>6. HasLast(a) BY <1>0 DEF MemoryHasLast
<1>7. memory \in [Addresses(x) -> Events \cup {Nowhere}] BY <1>0 DEF ExecutionType
<1>8. Made(e)' BY <1>2 DEF S
<1>9. e \in Nat /\ e # Nowhere BY <1>0 DEF WellFormed, WellFormedString, Events, EventsIn, length, Nowhere
<1>10. CASE a = address(Label(e))
  <2>1. memory'[a] = e BY <1>7, <1>10 DEF Store
  <2>2. e \in ReleaseStores(x, a) BY <1>10 DEF Store, ReleaseStores, Events, Label
  <2>3. ASSUME NEW f \in ReleaseStores(x, a), Made(f)' PROVE time'[f] <= time'[e]
    <3>1. CASE f = e BY <3>1, <1>3
    <3>2. CASE f # e
      <4>1. Made(f) BY <1>2, <1>5, <2>3, <3>2 DEF S
      <4>2. time'[f] = time[f] /\ time[f] < n /\ time[f] \in Nat
        BY <4>1, <1>2, <1>5, <1>0 DEF Made, ExecutionType
      <4> QED BY <4>2, <1>3
    <3> QED BY <3>1, <3>2
  <2> QED BY <2>1, <2>2, <2>3, <1>3, <1>8, <1>9 DEF HasLast
<1>11. CASE a # address(Label(e))
  <2>1. memory'[a] = memory[a] BY <1>7, <1>11 DEF Store
  <2>2. \A f \in ReleaseStores(x, a) : f # e BY <1>5, <1>11
  <2>3. \A f \in ReleaseStores(x, a) : Made(f)' <=> Made(f) BY <2>2, <1>2, <1>5 DEF S
  <2>4. \A f \in ReleaseStores(x, a) : Made(f) => time'[f] = time[f] BY <1>2, <1>5 DEF Made
  <2>5. memory[a] # Nowhere => memory[a] \in ReleaseStores(x, a) /\ Made(memory[a])
    BY <1>6 DEF HasLast
  <2>6. ASSUME NEW f \in ReleaseStores(x, a), Made(f)'
        PROVE  memory[a] # Nowhere /\ time'[f] <= time'[memory[a]]
    <3>1. Made(f) BY <2>3, <2>6
    <3>2. memory[a] # Nowhere /\ time[f] <= time[memory[a]] BY <3>1, <1>6 DEF HasLast
    <3>3. time'[f] = time[f] BY <3>1, <2>4
    <3>4. time'[memory[a]] = time[memory[a]] BY <3>2, <2>4, <2>5
    <3> QED BY <3>2, <3>3, <3>4
  <2>7. memory[a] # Nowhere => Made(memory[a])' BY <2>1, <2>3, <2>5
  <2> QED BY <2>1, <2>5, <2>6, <2>7, <1>3 DEF HasLast
<1> QED BY <1>10, <1>11

(* The loads that have been executed before have read the same. *)
LEMMA ReadsStay ==
    ASSUME WellFormed(program), ExecutionType, Ordered, NEW S, NEW n, Advance(S, n),
           NEW l \in Loads, l \notin S, rf'[l] = rf[l], ReadNothing(l), ReadLast(l)
    PROVE  ReadNothing(l)' /\ ReadLast(l)'
<1>1. /\ \A f \in Events : Made(f)' <=> Made(f) \/ (f \in S /\ TakesPlace(f))
      /\ \A f \in Events : Done(f) =>
            /\ time'[f] = time[f]
            /\ value'[f] = value[f]
            /\ time[f] < n
            /\ (Made(f)' <=> Made(f))
  BY DoneStays
<1>2. x' = x /\ \A f \in S : time'[f] = n BY AdvanceFacts
<1>3. l \in Events BY DEF Loads
<1>4. Made(l)' => Made(l) BY <1>1, <1>3
<1>5. ReadNothing(l)'
  <2>1. ASSUME Made(l)', rf'[l] = Nowhere
        PROVE  is_assume_acquire_eq(Label(l)) /\ value'[l] = NoByte
    <3>1. Made(l) /\ Done(l) /\ rf[l] = Nowhere BY <1>4, <2>1 DEF Made
    <3>2. value'[l] = value[l] BY <3>1, <1>1, <1>3
    <3> QED BY <3>1, <3>2 DEF ReadNothing
  <2>2. Label(l)' = Label(l) BY <1>2 DEF Label
  <2> QED BY <2>1, <2>2 DEF ReadNothing
<1>6. ASSUME rf'[l] # Nowhere PROVE ReadLast(l)'
  <2>0. PICK st : st = rf[l] OBVIOUS
  <2> DEFINE A == ReleaseStores(x, address(Label(l)))
  <2>1. /\ Made(l) /\ Done(l)
        /\ st \in A
        /\ Made(st) /\ Done(st)
        /\ time[st] < time[l]
        /\ value[l] = byte(Label(st))
        /\ \A other \in A : Made(other) => time[other] <= time[st] \/ time[l] < time[other]
    BY <1>6, <2>0 DEF ReadLast, Made
  <2>2. A \subseteq Events BY DEF ReleaseStores, Events
  <2>3. st \in Events BY <2>1, <2>2
  <2>4. rf'[l] = st BY <2>0
  <2>5. Label(l)' = Label(l) /\ A' = A /\ Label(st)' = Label(st)
    BY <1>2 DEF Label
  <2> HIDE DEF A
  <2>6. /\ Made(l)' /\ Made(st)'
        /\ time'[l] = time[l] /\ time'[st] = time[st] /\ value'[l] = value[l] /\ time[l] < n
    BY <2>1, <2>3, <1>1, <1>3
  <2>7. ASSUME NEW other \in A, Made(other)'
        PROVE  time'[other] <= time'[st] \/ time'[l] < time'[other]
    <3>1. CASE Made(other)
      <4>1. time'[other] = time[other] BY <3>1, <2>2, <1>1 DEF Made
      <4> QED BY <3>1, <4>1, <2>1, <2>6
    <3>2. CASE ~Made(other)
      <4>1. other \in S BY <3>2, <2>7, <2>2, <1>1
      <4> QED BY <4>1, <1>2, <2>6
    <3> QED BY <3>1, <3>2
  <2> HIDE DEF Made
  <2>8. ReadLast(l)' <=>
          (rf'[l] # Nowhere =>
             /\ Made(l)'
             /\ rf'[l] \in ReleaseStores(x', address(Label(l)'))
             /\ Made(st)'
             /\ time'[rf'[l]] < time'[l]
             /\ value'[l] = byte(x'.labels[rf'[l]])
             /\ \A other \in ReleaseStores(x', address(Label(l)')) :
                   Made(other)' => time'[other] <= time'[rf'[l]] \/ time'[l] < time'[other])
    BY <2>4 DEF ReadLast, Label
  <2> QED BY <2>1, <2>4, <2>5, <2>6, <2>7, <2>8, <1>2 DEF A, Label
<1> QED BY <1>5, <1>6 DEF ReadLast

LEMMA LoadReadsLast ==
    ASSUME ExecutionInvariant, NEW e \in Events, Execute(e), TakesPlace(e), Load(e)
    PROVE  ReadNothing(e)' /\ ReadLast(e)'
<1> DEFINE a == address(Label(e))
<1>0. WellFormed(program) /\ ExecutionType /\ Ordered /\ MemoryHasLast BY DEF ExecutionInvariant
<1>1. PICK n : Advance({e}, n) BY ExecuteAdvances
<1>2. /\ \A f \in Events : Made(f)' <=> Made(f) \/ (f \in {e} /\ TakesPlace(f))
      /\ \A f \in Events : Done(f) =>
            /\ time'[f] = time[f]
            /\ time[f] < n
            /\ (Made(f)' <=> Made(f))
  BY <1>0, <1>1, DoneStays
<1>3. x' = x /\ time'[e] = n BY <1>0, <1>1, AdvanceFacts
<1>4. PICK st : st = memory[a] OBVIOUS
<1>5. st # Nowhere /\ rf'[e] = st /\ value'[e] = byte(Label(st))
  <2>1. rf \in [Loads -> Events \cup {Nowhere}] /\ value \in [Events -> 0..NoByte] /\ e \in Loads
    BY <1>0 DEF ExecutionType, Load
  <2> QED BY <2>1, <1>4 DEF Load
<1>6. a \in Addresses(x) BY <1>0, LabelFacts
<1>7. /\ st \in ReleaseStores(x, a) /\ Made(st)
      /\ \A f \in ReleaseStores(x, a) : Made(f) => time[f] <= time[st]
  BY <1>0, <1>4, <1>5, <1>6 DEF MemoryHasLast, HasLast
<1>8. \A f \in ReleaseStores(x, a) : f \in Events /\ f # e
  <2>1. ~is_release_store(Label(e)) BY <1>0, LabelFacts, KindsOfLabels DEF Load, Loads
  <2> QED BY <2>1 DEF ReleaseStores, Events, Label
<1>9. Made(e)' BY <1>2
<1>10. Made(st)' /\ time'[st] < time'[e]
  BY <1>2, <1>3, <1>7, <1>8 DEF Made
<1>11. ASSUME NEW f \in ReleaseStores(x, a), Made(f)'
       PROVE  time'[f] <= time'[st]
  <2>1. Made(f) BY <1>2, <1>8, <1>11
  <2>2. time'[f] = time[f] /\ time'[st] = time[st] BY <2>1, <1>2, <1>7, <1>8 DEF Made
  <2> QED BY <2>1, <2>2, <1>7
<1> HIDE DEF a
<1> HIDE DEF Made
<1>12. ReadNothing(e)' BY <1>5 DEF ReadNothing
<1>13. ReadLast(e)' <=>
         (rf'[e] # Nowhere =>
            /\ Made(e)'
            /\ rf'[e] \in ReleaseStores(x', a')
            /\ Made(st)'
            /\ time'[rf'[e]] < time'[e]
            /\ value'[e] = byte(x'.labels[rf'[e]])
            /\ \A other \in ReleaseStores(x', a') :
                  Made(other)' => time'[other] <= time'[rf'[e]] \/ time'[e] < time'[other])
  BY <1>5 DEF ReadLast, Label, a
<1>14. a' = a BY <1>3 DEF a, Label
<1> QED BY <1>3, <1>5, <1>7, <1>9, <1>10, <1>11, <1>12, <1>13, <1>14 DEF Label

(* Every step of an execution keeps the reads. *)
LEMMA ExecuteKeepsReads ==
    ASSUME ExecutionInvariant, NEW e \in Events, Execute(e)
    PROVE  ReadsFit'
<1>0. WellFormed(program) /\ ExecutionType /\ Ordered /\ Untouched /\ ReadsFit
  BY DEF ExecutionInvariant
<1>1. PICK n : Advance({e}, n) BY ExecuteAdvances
<1>2. x' = x /\ Events' = Events /\ ~Done(e) /\ (TakesPlace(e)' <=> TakesPlace(e))
  BY <1>0, <1>1, AdvanceFacts
<1>3. Loads' = Loads BY <1>2 DEF Loads, Label
<1>4. \A l \in Loads : l # e => rf'[l] = rf[l]
  BY <1>0 DEF Execute, Store, Load, AssumeNothing, Plain, Skip, ExecutionType
<1>5. ASSUME NEW l \in Loads, l # e PROVE ReadNothing(l)' /\ ReadLast(l)'
  <2>1. ReadNothing(l) /\ ReadLast(l) BY <1>0 DEF ReadsFit
  <2>2. l \notin {e} BY <1>5
  <2> QED BY <2>1, <2>2, <1>0, <1>1, <1>4, <1>5, ReadsStay
<1>6. ASSUME e \in Loads PROVE ReadNothing(e)' /\ ReadLast(e)'
  <2>1. rf[e] = Nowhere BY <1>0, <1>2, <1>6 DEF ReadsFit, ReadLast, Made
  <2>2. Label(e)' = Label(e) BY <1>2 DEF Label
  <2>3. CASE TakesPlace(e) /\ Load(e) BY <2>3, LoadReadsLast
  <2>4. CASE TakesPlace(e) /\ AssumeNothing(e)
    <3>1. rf' = rf /\ value' = value BY <2>4 DEF AssumeNothing
    <3>2. value[e] = NoByte BY <1>0, <1>2 DEF Untouched
    <3>3. is_assume_acquire_eq(Label(e)) BY <2>4 DEF AssumeNothing
    <3> QED BY <3>1, <3>2, <3>3, <2>1, <2>2 DEF ReadNothing, ReadLast
  <2>5. CASE Skip(e)
    <3>1. rf' = rf /\ ~Made(e)' BY <2>5, <1>2 DEF Skip, Made
    <3> QED BY <3>1, <2>1 DEF ReadNothing, ReadLast
  <2>6. CASE TakesPlace(e) /\ (Store(e) \/ Plain(e))
    <3>1. is_acquire_load(Label(e)) /\ Label(e) \in Nat BY <1>0, <1>6, LabelFacts DEF Loads
    <3> QED BY <3>1, <2>6, KindsOfLabels DEF Store, Plain
  <2> QED BY <2>3, <2>4, <2>5, <2>6 DEF Execute
<1> QED BY <1>3, <1>5, <1>6 DEF ReadsFit

LEMMA RaceKeepsReads ==
    ASSUME ExecutionInvariant, NEW e \in Events, NEW f \in Events, Race(e, f)
    PROVE  ReadsFit'
<1>0. WellFormed(program) /\ ExecutionType /\ Ordered /\ ReadsFit
  BY DEF ExecutionInvariant
<1>1. PICK n : Advance({e, f}, n) /\ IsPlain(e) /\ IsPlain(f) BY RaceAdvances
<1>2. x' = x /\ Events' = Events BY <1>0, <1>1, AdvanceFacts
<1>3. Loads' = Loads BY <1>2 DEF Loads, Label
<1>4. e \notin Loads /\ f \notin Loads
  BY <1>0, <1>1, LabelFacts, KindsOfLabels DEF Loads, IsPlain
<1>5. ASSUME NEW l \in Loads PROVE ReadNothing(l)' /\ ReadLast(l)'
  <2>1. ReadNothing(l) /\ ReadLast(l) BY <1>0 DEF ReadsFit
  <2>2. l \notin {e, f} /\ rf'[l] = rf[l] BY <1>4, <1>5 DEF Race
  <2> QED BY <2>1, <2>2, <1>0, <1>1, ReadsStay
<1> QED BY <1>3, <1>5 DEF ReadsFit

LEMMA CoincidencesStay ==
    ASSUME WellFormed(program), ExecutionType, Ordered, NEW S, NEW n, Advance(S, n),
           OnlyRacesCoincide,
           \A e, f \in S : e # f => IsPlain(e) /\ TakesPlace(e)
    PROVE  OnlyRacesCoincide'
<1>1. /\ n # 0
      /\ x' = x /\ Events' = Events
      /\ \A e \in S : time'[e] = n /\ ~Done(e)
      /\ \A e \in Events : Done(e)' <=> Done(e) \/ e \in S
      /\ \A e \in Events : Done(e) \/ e \in S => (TakesPlace(e)' <=> TakesPlace(e))
  BY AdvanceFacts
<1>2. \A e \in Events : Done(e) => e \notin S /\ time'[e] = time[e] /\ time[e] < n /\ time[e] \in Nat
  BY DoneStays DEF ExecutionType
<1>3. ASSUME NEW e \in Events, NEW f \in Events, Done(e)', time'[e] = time'[f], e # f
      PROVE  IsPlain(e) /\ TakesPlace(e)'
  <2>1. CASE e \in S
    <3>1. f \in S
      <4>1. time'[f] = n BY <2>1, <1>1, <1>3
      <4>2. Done(f)' BY <4>1, <1>1 DEF Done
      <4> QED BY <4>1, <4>2, <1>1, <1>2, <1>3
    <3> QED BY <2>1, <3>1, <1>1, <1>3
  <2>2. CASE e \notin S
    <3>1. Done(e) BY <2>2, <1>1, <1>3
    <3>2. f \notin S BY <3>1, <1>1, <1>2, <1>3
    <3>3. time'[f] = time[f] BY <3>2 DEF Advance
    <3>4. time'[e] = time[e] BY <3>1, <1>2
    <3> QED BY <3>1, <3>3, <3>4, <1>1, <1>3 DEF OnlyRacesCoincide
  <2> QED BY <2>1, <2>2
<1>4. \A e \in Events : IsPlain(e)' <=> IsPlain(e) BY <1>1 DEF IsPlain, Label
<1> QED BY <1>1, <1>3, <1>4 DEF OnlyRacesCoincide

LEMMA ExecuteKeepsInvariant ==
    ASSUME ExecutionInvariant, NEW e \in Events, Execute(e)
    PROVE  ExecutionInvariant'
<1>0. /\ WellFormed(program) /\ ExecutionType /\ SomeLatest(time) /\ Ordered /\ OnlyRacesCoincide
      /\ StoredBytes /\ Untouched /\ MemoryHasLast
  BY DEF ExecutionInvariant
<1>1. Advance({e}, Now + 1) BY ExecuteAdvances
<1>2. PICK n : n = Now + 1 OBVIOUS
<1>3. Advance({e}, n) BY <1>1, <1>2
<1>4. /\ n \in Nat
      /\ x' = x /\ Events' = Events /\ program' = program
      /\ ~Done(e) /\ (TakesPlace(e)' <=> TakesPlace(e))
      /\ \A f \in Events : Done(f)' <=> Done(f) \/ f \in {e}
      /\ \A f \in Events \ {e} : value'[f] = value[f]
  BY <1>0, <1>3, AdvanceFacts DEF Advance
<1>5. Loads' = Loads BY <1>4 DEF Loads, Label
<1>6. \A f \in Events : Label(f)' = Label(f) BY <1>4 DEF Label
<1>7. e \in Events /\ address(Label(e)) \in Addresses(x) /\ Label(e) \in Nat BY <1>0, LabelFacts
<1>8. WellFormed(program)' BY <1>0, <1>4
<1>9. ExecutionType'
  <2>1. time' \in [Events -> Nat] BY <1>0, <1>3, <1>4 DEF Advance, ExecutionType
  <2>2. value' \in [Events -> 0..NoByte] BY <1>3 DEF Advance
  <2>3. memory' \in [Addresses(x) -> Events \cup {Nowhere}]
    BY <1>0, <1>7 DEF Execute, Store, Load, AssumeNothing, Plain, Skip, ExecutionType
  <2>4. rf' \in [Loads -> Events \cup {Nowhere}]
    BY <1>0, <1>7 DEF Execute, Store, Load, AssumeNothing, Plain, Skip, ExecutionType
  <2> QED BY <2>1, <2>2, <2>3, <2>4, <1>4, <1>5 DEF ExecutionType, NoByte
<1>10. SomeLatest(time)' /\ Ordered' BY <1>0, <1>3, AdvanceKeepsOrder
<1>11. OnlyRacesCoincide'
  <2>1. \A f, g \in {e} : f # g => IsPlain(f) /\ TakesPlace(f) OBVIOUS
  <2> QED BY <2>1, <1>0, <1>3, CoincidencesStay
<1>12. StoredBytes'
  <2>1. is_release_store(Label(e)) => value'[e] = byte(Label(e))
    <3>1. SUFFICES ASSUME is_release_store(Label(e)) PROVE value'[e] = byte(Label(e)) OBVIOUS
    <3>2. ~is_acquire_load(Label(e)) /\ ~is_none_store(Label(e)) /\ ~is_none_load(Label(e))
          /\ is_store(Label(e))
      BY <3>1, <1>7, KindsOfLabels
    <3>3. value \in [Events -> 0..NoByte] BY <1>0 DEF ExecutionType
    <3>4. Store(e) \/ Skip(e) BY <3>2 DEF Execute, Load, AssumeNothing, Plain, Loads
    <3> QED BY <3>2, <3>3, <3>4, <1>7 DEF Store, Skip
  <2>2. ASSUME NEW f \in Events, Done(f)', is_release_store(Label(f))
        PROVE  value'[f] = byte(Label(f))
    <3>1. CASE f = e BY <3>1, <2>1, <2>2
    <3>2. CASE f # e BY <3>2, <2>2, <1>0, <1>4 DEF StoredBytes
    <3> QED BY <3>1, <3>2
  <2> QED BY <2>2, <1>4, <1>6 DEF StoredBytes
<1>13. Untouched'
  <2>1. ASSUME NEW f \in Events, ~Done(f)' PROVE value'[f] = NoByte
    <3>1. ~Done(f) /\ f # e BY <2>1, <1>4
    <3> QED BY <3>1, <1>0, <1>4 DEF Untouched
  <2> QED BY <2>1, <1>4 DEF Untouched, NoByte
<1>14. MemoryHasLast'
  <2>1. CASE TakesPlace(e) /\ Store(e) BY <2>1, StoreReachesMemory
  <2>2. CASE ~(TakesPlace(e) /\ Store(e))
    <3>1. memory' = memory BY <2>2 DEF Execute, Load, AssumeNothing, Plain, Skip
    <3>2. ASSUME is_release_store(Label(e)), TakesPlace(e) PROVE FALSE
      <4>1. ~is_acquire_load(Label(e)) /\ ~is_none_store(Label(e)) /\ ~is_none_load(Label(e))
        BY <3>2, <1>7, KindsOfLabels
      <4> QED BY <2>2, <3>2, <4>1 DEF Execute, Load, AssumeNothing, Plain, Skip, Loads
    <3> QED BY <3>1, <3>2, <1>0, <1>3, MemoryStays
  <2> QED BY <2>1, <2>2
<1>15. ReadsFit' BY ExecuteKeepsReads
<1> QED BY <1>8, <1>9, <1>10, <1>11, <1>12, <1>13, <1>14, <1>15 DEF ExecutionInvariant

LEMMA RaceKeepsInvariant ==
    ASSUME ExecutionInvariant, NEW e \in Events, NEW f \in Events, Race(e, f)
    PROVE  ExecutionInvariant'
<1>0. /\ WellFormed(program) /\ ExecutionType /\ SomeLatest(time) /\ Ordered /\ OnlyRacesCoincide
      /\ StoredBytes /\ Untouched /\ MemoryHasLast
  BY DEF ExecutionInvariant
<1>1. Advance({e, f}, Now + 1) /\ IsPlain(e) /\ IsPlain(f) BY RaceAdvances
<1>2. PICK n : n = Now + 1 OBVIOUS
<1>3. Advance({e, f}, n) BY <1>1, <1>2
<1>4. /\ x' = x /\ Events' = Events /\ program' = program
      /\ \A g \in Events : Done(g)' <=> Done(g) \/ g \in {e, f}
  BY <1>0, <1>3, AdvanceFacts DEF Advance
<1>5. Loads' = Loads BY <1>4 DEF Loads, Label
<1>6. \A g \in Events : Label(g)' = Label(g) BY <1>4 DEF Label
<1>7. memory' = memory /\ rf' = rf /\ value' = value BY DEF Race
<1>8. \A g \in {e, f} : ~is_release_store(Label(g))
  BY <1>0, <1>1, LabelFacts, KindsOfLabels DEF IsPlain
<1>9. WellFormed(program)' BY <1>0, <1>4
<1>10. ExecutionType'
  <2>1. time' \in [Events -> Nat] BY <1>0, <1>3 DEF Advance, ExecutionType
  <2> QED BY <2>1, <1>0, <1>4, <1>5, <1>7 DEF ExecutionType, NoByte
<1>11. SomeLatest(time)' /\ Ordered' BY <1>0, <1>3, AdvanceKeepsOrder
<1>12. OnlyRacesCoincide'
  <2>1. \A g, h \in {e, f} : g # h => IsPlain(g) /\ TakesPlace(g) BY <1>1 DEF Race
  <2> QED BY <2>1, <1>0, <1>3, CoincidencesStay
<1>13. StoredBytes'
  <2>1. ASSUME NEW g \in Events, Done(g)', is_release_store(Label(g))
        PROVE  value'[g] = byte(Label(g))
    BY <2>1, <1>0, <1>4, <1>7, <1>8 DEF StoredBytes
  <2> QED BY <2>1, <1>4, <1>6 DEF StoredBytes
<1>14. Untouched' BY <1>0, <1>4, <1>7 DEF Untouched, NoByte
<1>15. MemoryHasLast' BY <1>0, <1>3, <1>7, <1>8, MemoryStays
<1>16. ReadsFit' BY RaceKeepsReads
<1> QED BY <1>9, <1>10, <1>11, <1>12, <1>13, <1>14, <1>15, <1>16 DEF ExecutionInvariant

execution_vars == <<program, time, memory, rf, value>>

LEMMA StillKeepsInvariant ==
    ASSUME ExecutionInvariant, UNCHANGED execution_vars
    PROVE  ExecutionInvariant'
BY DEF execution_vars, ExecutionInvariant, WellFormed, ExecutionType, SomeLatest, Ordered,
       OnlyRacesCoincide, StoredBytes, Untouched, MemoryHasLast, HasLast, ReadsFit, ReadNothing,
       ReadLast, Made, IsPlain, Done, TakesPlace, Events, Loads, Label, Map, x, NoByte, Nowhere

LEMMA NextKeepsInvariant ==
    ASSUME ExecutionInvariant, [Next]_vars
    PROVE  ExecutionInvariant'
<1>1. CASE \E e \in Events : Execute(e) BY <1>1, ExecuteKeepsInvariant
<1>2. CASE \E e, f \in Events : Race(e, f) BY <1>2, RaceKeepsInvariant
<1>3. CASE \E S \in SUBSET Events : Place(S)
  BY <1>3, StillKeepsInvariant DEF Place, execution_vars
<1>4. CASE Solve BY <1>4, StillKeepsInvariant DEF Solve, execution_vars
<1>5. CASE UNCHANGED vars BY <1>5, StillKeepsInvariant DEF vars, execution_vars
<1> QED BY <1>1, <1>2, <1>3, <1>4, <1>5 DEF Next

LEMMA InitEstablishesInvariant ==
    ASSUME \A P \in Programs : Constructed(P), Init
    PROVE  ExecutionInvariant
<1>1. WellFormed(program) BY ConstructedIsWellFormed DEF Init
<1>2. ExecutionType BY DEF Init, ExecutionType, NoByte, Nowhere
<1>3. \A e \in Events : time[e] = 0 /\ ~Done(e) BY DEF Init, Done
<1>4. x.order \subseteq Events \X Events BY <1>1 DEF WellFormed, WellFormedString, x, Events
<1>5. SomeLatest(time) BY <1>3 DEF SomeLatest
<1>6. Ordered BY <1>3, <1>4 DEF Ordered
<1>7. OnlyRacesCoincide /\ StoredBytes BY <1>3 DEF OnlyRacesCoincide, StoredBytes
<1>8. Untouched BY DEF Untouched, Init
<1>9. MemoryHasLast
  <2>1. \A a \in Addresses(x) : memory[a] = Nowhere BY DEF Init
  <2>2. \A a : ReleaseStores(x, a) \subseteq Events BY DEF ReleaseStores, Events
  <2> QED BY <2>1, <2>2, <1>3 DEF MemoryHasLast, HasLast, Made
<1>10. ReadsFit
  <2>1. \A l \in Loads : rf[l] = Nowhere /\ l \in Events BY DEF Init, Loads
  <2> QED BY <2>1, <1>3 DEF ReadsFit, ReadNothing, ReadLast, Made
<1> QED BY <1>1, <1>2, <1>5, <1>6, <1>7, <1>8, <1>9, <1>10 DEF ExecutionInvariant

----------------------------------------------------------------------------
(* The moments, reads and values of a finished execution satisfy is_racy's *)
(* formula.                                                                *)

Execution == Solution(time, rf, value)

LEMMA OfTheExecution ==
    /\ \A e, f \in Events : Before(Execution, e, f) <=> time[e] < time[f]
    /\ Execution.rf = rf /\ Execution.value = value
    /\ \A e : guard(Map, x, e, Execution) <=> TakesPlace(e)
BY DEF Before, Execution, Solution, HappensBefore, guard, TakesPlace

LEMMA ExecutionIsOrdered ==
    ASSUME ExecutionInvariant, Finished
    PROVE  sequenced(time)
<1>1. \A pair \in x.order : pair[2] \in Events
  BY DEF ExecutionInvariant, WellFormed, WellFormedString, Events, x
<1> QED BY <1>1 DEF sequenced, Finished, ExecutionInvariant, Ordered

LEMMA ExecutionObeysAxioms ==
    ASSUME ExecutionInvariant, Finished
    PROVE  release_acquire(Map, x, Execution)
<1>0. /\ WellFormed(program) /\ ExecutionType /\ OnlyRacesCoincide
      /\ StoredBytes /\ MemoryHasLast /\ ReadsFit
  BY DEF ExecutionInvariant
<1>1. \A e, f \in Events : Before(Execution, e, f) <=> time[e] < time[f] BY OfTheExecution
<1>2. Execution.rf = rf /\ Execution.value = value BY OfTheExecution
<1>3. \A e : guard(Map, x, e, Execution) <=> TakesPlace(e) BY OfTheExecution
<1>4. \A e \in Events : Done(e) /\ (Made(e) <=> TakesPlace(e)) /\ time[e] \in Nat
  BY <1>0 DEF Finished, Made, ExecutionType
<1>5. AllLoads(x) = Loads /\ Loads \subseteq Events BY <1>0, LoadFacts
<1>6. \A a : \A e \in ReleaseStores(x, a) :
        e \in Events /\ is_release_store(Label(e)) /\ address(Label(e)) = a
  BY DEF ReleaseStores, Events, Label
<1> HIDE DEF Execution
<1>7. StoredValues(x, Execution)
  <2>1. \A e \in Events : is_release_store(Label(e)) => value[e] = byte(Label(e))
    BY <1>0, <1>4 DEF StoredBytes
  <2> QED BY <2>1, <1>2, <1>6 DEF StoredValues, Label
<1>8. SomeReadFrom(Map, x, Execution)
  <2>1. SUFFICES ASSUME NEW l \in Loads, TakesPlace(l)
                 PROVE  \/ rf[l] \in Sources(x, l)
                        \/ Contradicted(Map, x, l, Execution)
    BY <1>2, <1>3, <1>5 DEF SomeReadFrom
  <2>2. ReadNothing(l) /\ ReadLast(l) BY <1>0 DEF ReadsFit
  <2>3. Made(l) /\ l \in Events /\ Label(l) \in Nat BY <1>0, <1>4, <1>5, <2>1, LabelFacts
  <2>4. Map # <<>>
    <3>1. Map \in [Events -> Events] BY <1>0 DEF WellFormed, Map, Events, x
    <3>2. l \in DOMAIN Map BY <3>1, <2>3
    <3> QED BY <3>2
  <2>5. CASE rf[l] = Nowhere
    <3>1. is_assume_acquire_eq(Label(l)) /\ value[l] = NoByte BY <2>2, <2>3, <2>5 DEF ReadNothing
    <3>2. is_assume(Label(l)) BY <3>1, <2>3, EqualAssumptionsAreAssumptions
    <3>3. byte(Label(l)) \in 0..255 BY <2>3, ByteRange
    <3>4. ~Expected(x, l, value[l]) BY <3>1, <3>3 DEF Expected, NoByte, Label
    <3> QED BY <3>2, <3>4, <2>4, <1>2 DEF Contradicted, Label
  <2>6. CASE rf[l] # Nowhere
    <3>1. rf[l] \in ReleaseStores(x, address(Label(l))) /\ value[l] = byte(Label(rf[l]))
      BY <2>2, <2>6 DEF ReadLast
    <3>2. CASE is_assume(Label(l)) => Expected(x, l, byte(Label(rf[l])))
      BY <3>1, <3>2 DEF Sources, Label
    <3>3. CASE is_assume(Label(l)) /\ ~Expected(x, l, byte(Label(rf[l])))
      BY <3>1, <3>3, <2>4, <1>2 DEF Contradicted, Label
    <3> QED BY <3>2, <3>3
  <2> QED BY <2>5, <2>6
<1>9. \A l \in Loads : \A st \in Sources(x, l) :
        rf[l] = st => st # Nowhere /\ ReadLast(l) /\ st \in ReleaseStores(x, address(Label(l)))
  <2>1. ASSUME NEW l \in Loads, NEW st \in Sources(x, l)
        PROVE  st # Nowhere /\ ReadLast(l) /\ st \in ReleaseStores(x, address(Label(l)))
    <3>1. st \in ReleaseStores(x, address(Label(l))) BY <2>1 DEF Sources, Label
    <3>2. st # Nowhere BY <3>1, <1>6 DEF Nowhere, Events, EventsIn
    <3> QED BY <3>1, <3>2, <1>0 DEF ReadsFit
  <2> QED BY <2>1
<1>10. SynchronizesWith(Map, x, Execution)
  <2>1. SUFFICES ASSUME NEW l \in Loads, NEW st \in Sources(x, l), rf[l] = st
                 PROVE  /\ Before(Execution, st, l)
                        /\ value[st] = value[l]
                        /\ TakesPlace(st)
    BY <1>2, <1>3, <1>5 DEF SynchronizesWith
  <2>2. st # Nowhere /\ ReadLast(l) /\ st \in ReleaseStores(x, address(Label(l))) BY <1>9, <2>1
  <2>3. Made(st) /\ time[st] < time[l] /\ value[l] = byte(Label(st)) BY <2>1, <2>2 DEF ReadLast
  <2>4. value[st] = byte(Label(st)) BY <2>2, <1>0, <1>4, <1>6 DEF StoredBytes
  <2> QED BY <2>2, <2>3, <2>4, <1>1, <1>4, <1>5, <1>6
<1>11. ModificationOrder(x, Execution)
  <2>1. SUFFICES ASSUME NEW a \in Addresses(x),
                        NEW e \in ReleaseStores(x, a), NEW f \in ReleaseStores(x, a), e < f
                 PROVE  Before(Execution, e, f) \/ Before(Execution, f, e)
    BY DEF ModificationOrder
  <2>2. e \in Events /\ f \in Events BY <1>6
  <2>3. e # f BY <2>1, <2>2 DEF Events, EventsIn, length
  <2>4. ~IsPlain(e) BY <2>2, <1>0, <1>6, LabelFacts, KindsOfLabels DEF IsPlain
  <2>5. time[e] # time[f] BY <2>2, <2>3, <2>4, <1>0, <1>4 DEF OnlyRacesCoincide
  <2> QED BY <2>2, <2>5, <1>1, <1>4
<1>12. FromRead(Map, x, Execution)
  <2>1. SUFFICES ASSUME NEW l \in Loads, NEW st \in Sources(x, l),
                        NEW other \in ReleaseStores(x, address(Label(l))) \ {st},
                        rf[l] = st, time[st] < time[other], TakesPlace(other)
                 PROVE  time[l] < time[other]
    <3>1. \A l \in Loads : \A st \in Sources(x, l) : st \in Events
      BY <1>6 DEF Sources
    <3>2. \A l \in Loads : address(x.labels[l]) = address(Label(l)) BY DEF Label
    <3> QED BY <2>1, <3>1, <3>2, <1>1, <1>2, <1>3, <1>5, <1>6 DEF FromRead
  <2>2. ReadLast(l) /\ st # Nowhere /\ st \in Events BY <1>6, <1>9, <2>1
  <2>3. other \in Events /\ Made(other) BY <2>1, <1>4, <1>6
  <2>4. time[other] <= time[st] \/ time[l] < time[other] BY <2>1, <2>2, <2>3 DEF ReadLast
  <2> QED BY <2>1, <2>2, <2>3, <2>4, <1>4
<1> QED BY <1>7, <1>8, <1>10, <1>11, <1>12 DEF release_acquire

LEMMA CoincidencesAreRaces ==
    ASSUME ExecutionInvariant, Finished,
           NEW pair \in ConflictingPairs, time[pair[1]] = time[pair[2]]
    PROVE  pair \in Races(Execution)
<1>0. WellFormed(program) /\ ExecutionType /\ OnlyRacesCoincide BY DEF ExecutionInvariant
<1>1. pair[1] \in Events /\ pair[2] \in Events /\ pair[1] # pair[2]
  BY <1>0, ConflictsArePlain
<1>2. Done(pair[1]) /\ Done(pair[2]) /\ time[pair[1]] \in Nat /\ time[pair[2]] \in Nat
  BY <1>0, <1>1 DEF Finished, ExecutionType
<1>3. TakesPlace(pair[1]) /\ TakesPlace(pair[2]) BY <1>0, <1>1, <1>2 DEF OnlyRacesCoincide
<1>4. ~Before(Execution, pair[1], pair[2]) /\ ~Before(Execution, pair[2], pair[1])
  BY <1>1, <1>2, OfTheExecution
<1>5. guard(Map, x, pair[1], Execution) /\ guard(Map, x, pair[2], Execution)
  BY <1>3, OfTheExecution
<1> QED BY <1>4, <1>5 DEF Races

(* No race is missed, whatever program has been constructed:               *)
(* the accesses of an execution satisfy the release-acquire axioms that    *)
(* the solver gets from is_racy(), and two conflicting accesses at one     *)
(* moment satisfy a disjunct of its race condition.                        *)
THEOREM NoRaceIsMissed ==
    ASSUME \A P \in Programs : Constructed(P)
    PROVE  Spec => []EveryRaceIsFound
<1>1. Init => ExecutionInvariant BY InitEstablishesInvariant
<1>2. ExecutionInvariant /\ [Next]_vars => ExecutionInvariant' BY NextKeepsInvariant
<1>3. ExecutionInvariant => EveryRaceIsFound
  BY ExecutionIsOrdered, ExecutionObeysAxioms, CoincidencesAreRaces
  DEF EveryRaceIsFound, Execution
<1> QED BY <1>1, <1>2, <1>3, PTL DEF Spec

----------------------------------------------------------------------------
(* The execution that replays a plan *)

PlanType ==
    /\ DOMAIN plan = {"time", "rf", "value"}
    /\ plan = [field \in DOMAIN plan |-> plan[field]]
    /\ plan.time \in [Events -> Nat]
    /\ SomeLatest(plan.time)

(* The events of a replay are executed in the order of the plan's moments. *)
FollowsPlan ==
    \A e, f \in Events : Done(e) /\ plan.time[f] < plan.time[e] => Done(f) /\ time[f] < time[e]

PlanObeysAxioms ==
    /\ release_acquire(Map, x, PlanSolution)
    /\ \A l \in Loads : plan.rf[l] \in Sources(x, l) \cup {Nowhere}

ReplayInvariant ==
    /\ PlanType
    /\ mode \in {"run", "order", "solve", "replay"}
    /\ mode \in {"order", "solve"} => \A e \in Events : ~Done(e)
    /\ mode = "replay" =>
          /\ PlanObeysAxioms
          /\ FollowsPlan
          /\ ContradictsMemoryOnly => \A e \in Events : Done(e) => AsPlanned(e)

Invariant == ExecutionInvariant /\ ReplayInvariant

LEMMA OfThePlan ==
    /\ \A e, f \in Events : Before(PlanSolution, e, f) <=> plan.time[e] < plan.time[f]
    /\ PlanSolution.rf = plan.rf /\ PlanSolution.value = plan.value
BY DEF Before, PlanSolution, Solution, HappensBefore

(* The assumptions above an assumption are above what it guards. *)
LEMMA AssumptionsNest ==
    ASSUME NEW P, WellFormed(P), NEW e \in EventsIn(P.p), NEW a \in Assumptions(P.assume_map, e)
    PROVE  /\ a \in EventsIn(P.p)
           /\ is_assume(P.p.labels[a]) /\ is_acquire_load(P.p.labels[a])
           /\ Assumptions(P.assume_map, a) \subseteq Assumptions(P.assume_map, e)
<1> DEFINE m == P.assume_map
           A == Assumptions(m, e)
<1>1. m \in [EventsIn(P.p) -> EventsIn(P.p)] BY DEF WellFormed
<1>2. PICK f \in EventsIn(P.p) : a = m[f] /\ m[f] # f
  BY <1>1 DEF Assumptions, Guards, is_guarded
<1>3. a \in EventsIn(P.p) /\ is_assume(P.p.labels[a]) /\ is_acquire_load(P.p.labels[a])
  BY <1>1, <1>2 DEF WellFormed, GuardedRightly
<1>4. A \in SUBSET Guards(m) BY DEF Assumptions
<1>5. ASSUME NEW g \in A, is_guarded(m, g) PROVE m[g] \in A
  <2>1. m[g] \in Guards(m) BY <1>5 DEF Guards, is_guarded
  <2>2. ASSUME NEW S \in SUBSET Guards(m),
               \A h \in S \cup {e} : is_guarded(m, h) => m[h] \in S
        PROVE  m[g] \in S
    <3>1. g \in S BY <2>2 DEF Assumptions
    <3> QED BY <3>1, <2>2, <1>5
  <2> QED BY <2>1, <2>2 DEF Assumptions
<1>6. \A g \in A \cup {a} : is_guarded(m, g) => m[g] \in A BY <1>5
<1>7. ASSUME NEW b \in Assumptions(m, a) PROVE b \in A
  BY <1>4, <1>6, <1>7 DEF Assumptions
<1> QED BY <1>3, <1>7

(* What takes place in the replay is what the plan has take place. *)
LEMMA GuardsAsPlanned ==
    ASSUME ExecutionInvariant, ReplayInvariant, mode = "replay", ContradictsMemoryOnly,
           NEW e \in Events, Done(e) \/ ReadyIn(time, e)
    PROVE  TakesPlace(e) <=> guard(Map, x, e, PlanSolution)
<1>0. WellFormed(program) /\ Ordered BY DEF ExecutionInvariant
<1>1. ASSUME NEW a \in Assumptions(Map, e)
      PROVE  /\ a \in Loads /\ is_assume(Label(a)) /\ AsPlanned(a)
             /\ Assumptions(Map, a) \subseteq Assumptions(Map, e)
  <2>1. a \in Events /\ Done(a) BY <1>0, AssumptionsDone
  <2>2. AsPlanned(a) BY <2>1 DEF ReplayInvariant
  <2>3. /\ a \in EventsIn(x) /\ is_assume(x.labels[a]) /\ is_acquire_load(x.labels[a])
        /\ Assumptions(Map, a) \subseteq Assumptions(Map, e)
    BY <1>0, AssumptionsNest DEF Map, x, Events
  <2> QED BY <2>2, <2>3 DEF Loads, Events, Label
<1>2. PlanSolution.value = plan.value BY OfThePlan
<1>3. ASSUME NEW a \in Assumptions(Map, e), TakesPlace(a)
      PROVE  Expected(x, a, value[a]) <=> Expected(x, a, plan.value[a])
  BY <1>1, <1>3 DEF AsPlanned
<1>4. ASSUME TakesPlace(e), NEW a \in Assumptions(Map, e)
      PROVE  Expected(x, a, plan.value[a])
  <2>1. TakesPlace(a) BY <1>1, <1>4 DEF TakesPlace
  <2>2. Expected(x, a, value[a]) BY <1>4 DEF TakesPlace
  <2> QED BY <2>1, <2>2, <1>3
<1>5. ASSUME guard(Map, x, e, PlanSolution), NEW a \in Assumptions(Map, e)
      PROVE  Expected(x, a, value[a])
  <2>1. guard(Map, x, a, PlanSolution) BY <1>1, <1>5 DEF guard
  <2>2. TakesPlace(a) BY <2>1, <1>1 DEF AsPlanned
  <2>3. Expected(x, a, plan.value[a]) BY <1>2, <1>5 DEF guard
  <2> QED BY <2>2, <2>3, <1>3
<1> QED BY <1>2, <1>4, <1>5 DEF TakesPlace, guard

(* The axioms, of the plan's moments *)
LEMMA AxiomsOfThePlan ==
    ASSUME WellFormed(program), PlanType, PlanObeysAxioms, NEW l \in Loads
    PROVE  /\ guard(Map, x, l, PlanSolution) /\ plan.rf[l] = Nowhere =>
                 Contradicted(Map, x, l, PlanSolution)
           /\ plan.rf[l] # Nowhere =>
                 /\ plan.rf[l] \in ReleaseStores(x, address(Label(l)))
                 /\ plan.time[plan.rf[l]] < plan.time[l]
                 /\ plan.value[l] = byte(Label(plan.rf[l]))
                 /\ guard(Map, x, plan.rf[l], PlanSolution)
                 /\ \A other \in ReleaseStores(x, address(Label(l))) :
                       /\ plan.time[plan.rf[l]] < plan.time[other]
                       /\ guard(Map, x, other, PlanSolution)
                       => plan.time[l] < plan.time[other]
           /\ \A e, f \in ReleaseStores(x, address(Label(l))) :
                 e # f => plan.time[e] < plan.time[f] \/ plan.time[f] < plan.time[e]
<1> DEFINE s == PlanSolution
           A == ReleaseStores(x, address(Label(l)))
<1>1. \A e, f \in Events : Before(s, e, f) <=> plan.time[e] < plan.time[f] BY OfThePlan
<1>2. s.rf = plan.rf /\ s.value = plan.value BY OfThePlan
<1>3. l \in Events /\ l \in AllLoads(x) BY LoadFacts
<1>4. A \subseteq Events BY DEF ReleaseStores, Events
<1>5. address(Label(l)) \in Addresses(x) BY <1>3, LabelFacts
<1>6. address(x.labels[l]) = address(Label(l)) BY DEF Label
<1>7. Sources(x, l) \subseteq A BY <1>6 DEF Sources
<1>8. Nowhere \notin A BY <1>4 DEF Nowhere, Events, EventsIn
<1>9. release_acquire(Map, x, s) /\ plan.rf[l] \in Sources(x, l) \cup {Nowhere}
  BY DEF PlanObeysAxioms
<1> HIDE DEF s, A
<1>10. ASSUME guard(Map, x, l, s), plan.rf[l] = Nowhere PROVE Contradicted(Map, x, l, s)
  BY <1>2, <1>3, <1>7, <1>8, <1>9, <1>10 DEF release_acquire, SomeReadFrom
<1>11. ASSUME plan.rf[l] # Nowhere
       PROVE  /\ plan.rf[l] \in A
              /\ plan.time[plan.rf[l]] < plan.time[l]
              /\ plan.value[l] = byte(Label(plan.rf[l]))
              /\ guard(Map, x, plan.rf[l], s)
              /\ \A other \in A :
                    /\ plan.time[plan.rf[l]] < plan.time[other]
                    /\ guard(Map, x, other, s)
                    => plan.time[l] < plan.time[other]
  <2>1. PICK st \in Sources(x, l) : st = plan.rf[l] BY <1>9, <1>11
  <2>2. st \in A /\ st \in Events BY <1>4, <1>7
  <2>3. Before(s, st, l) /\ s.value[st] = s.value[l] /\ guard(Map, x, st, s)
    BY <1>2, <1>3, <1>9, <2>1 DEF release_acquire, SynchronizesWith
  <2>4. s.value[st] = byte(x.labels[st])
    BY <1>5, <1>9, <2>2 DEF release_acquire, StoredValues, A
  <2>5. ASSUME NEW other \in A, plan.time[st] < plan.time[other], guard(Map, x, other, s)
        PROVE  plan.time[l] < plan.time[other]
    <3>1. other # st /\ other \in Events
      <4>1. ~Before(s, st, st)
        <5>1. plan.time[st] \in Nat BY <2>2 DEF PlanType
        <5> QED BY <5>1, <1>1, <2>2
      <4>2. Before(s, st, other) BY <1>1, <1>4, <2>2, <2>5
      <4> QED BY <4>1, <4>2, <1>4
    <3>2. other \in ReleaseStores(x, address(x.labels[l])) \ {st} BY <1>6, <3>1 DEF A
    <3>3. Before(s, st, other) BY <1>1, <2>2, <2>5, <3>1
    <3>4. Before(s, l, other)
      BY <1>2, <1>3, <1>9, <2>1, <2>5, <3>2, <3>3 DEF release_acquire, FromRead
    <3> QED BY <3>1, <3>4, <1>1, <1>3
  <2> QED BY <2>1, <2>2, <2>3, <2>4, <2>5, <1>1, <1>2, <1>3 DEF Label
<1>12. ASSUME NEW e \in A, NEW f \in A, e # f
       PROVE  plan.time[e] < plan.time[f] \/ plan.time[f] < plan.time[e]
  <2>1. e \in Events /\ f \in Events /\ e \in Nat /\ f \in Nat
    BY <1>4 DEF Events, EventsIn
  <2>2. e < f \/ f < e BY <2>1, <1>12
  <2>3. ModificationOrder(x, s) BY <1>9 DEF release_acquire
  <2>4. Before(s, e, f) \/ Before(s, f, e) BY <2>2, <2>3, <1>5, <1>12 DEF ModificationOrder, A
  <2> QED BY <2>1, <2>4, <1>1
<1> QED BY <1>10, <1>11, <1>12 DEF s, A

(* What the memory has when a load is executed in the replay: the store of *)
(* the plan, or no store that satisfies the assumption the plan contradicts*)
LEMMA MemoryAsPlanned ==
    ASSUME ExecutionInvariant, ReplayInvariant, mode = "replay", ContradictsMemoryOnly,
           NEW l \in Loads, ReadyIn(time, l), Planned(l), TakesPlace(l)
    PROVE  LET st == memory[address(Label(l))]
           IN  IF plan.rf[l] = Nowhere
               THEN /\ is_assume(Label(l))
                    /\ ~Expected(x, l, plan.value[l])
                    /\ st # Nowhere => ~Expected(x, l, byte(Label(st)))
               ELSE st # Nowhere /\ plan.value[l] = byte(Label(st))
<1> DEFINE A == ReleaseStores(x, address(Label(l)))
           Guarded(e) == guard(Map, x, e, PlanSolution)
<1>0. /\ WellFormed(program) /\ ExecutionType /\ MemoryHasLast
      /\ PlanType /\ PlanObeysAxioms /\ FollowsPlan
  BY DEF ExecutionInvariant, ReplayInvariant
<1>1. l \in Events /\ ~Done(l) BY DEF Loads, ReadyIn, Done
<1>2. PICK st : st = memory[address(Label(l))] OBVIOUS
<1>3. A \subseteq Events BY DEF ReleaseStores, Events
<1>4. \A e \in Events : plan.time[e] \in Nat /\ time[e] \in Nat
  BY <1>0 DEF PlanType, ExecutionType
<1>5. \A e \in A : Done(e) => (Made(e) <=> Guarded(e))
  BY <1>3, GuardsAsPlanned DEF Made
<1>6. \A e \in Events : plan.time[e] < plan.time[l] => Done(e)
  <2>1. \A e \in Events : ~Done(e) => plan.time[l] <= plan.time[e] BY DEF Planned
  <2> QED BY <2>1, <1>1, <1>4
<1>7. \A e \in Events : Done(e) => plan.time[e] <= plan.time[l]
  BY <1>0, <1>1, <1>4 DEF FollowsPlan
<1>8. st # Nowhere => st \in A /\ Made(st)
  BY <1>0, <1>1, <1>2, LabelFacts DEF MemoryHasLast, HasLast
<1>9. \A e \in A : Made(e) => st # Nowhere /\ time[e] <= time[st]
  BY <1>0, <1>1, <1>2, LabelFacts DEF MemoryHasLast, HasLast
<1>10. \A e \in A : Made(e) => plan.time[e] <= plan.time[st]
  <2>1. ASSUME NEW e \in A, Made(e) PROVE plan.time[e] <= plan.time[st]
    <3>1. st \in Events /\ time[e] <= time[st] /\ e \in Events /\ Done(e)
      BY <2>1, <1>3, <1>8, <1>9 DEF Made
    <3>2. ~(plan.time[st] < plan.time[e]) BY <3>1, <1>0, <1>4 DEF FollowsPlan
    <3> QED BY <3>1, <3>2, <1>4
  <2> QED BY <2>1
<1>11. Guarded(l) BY <1>1, GuardsAsPlanned
<1>12. CASE plan.rf[l] = Nowhere
  <2>1. Contradicted(Map, x, l, PlanSolution) BY <1>0, <1>11, <1>12, AxiomsOfThePlan
  <2>2. is_assume(Label(l)) /\ ~Expected(x, l, plan.value[l])
    BY <2>1, OfThePlan DEF Contradicted, Label
  <2>3. ASSUME st # Nowhere PROVE ~Expected(x, l, byte(Label(st)))
    <3>1. st \in A /\ st \in Events /\ Done(st) /\ Guarded(st)
      BY <2>3, <1>3, <1>5, <1>8 DEF Made
    <3>2. plan.time[st] <= plan.time[l] BY <3>1, <1>7
    <3>3. CASE plan.time[st] = plan.time[l]
      <4>1. st \in TiedStores(l) BY <3>1, <3>3 DEF TiedStores
      <4> QED BY <4>1, <2>1 DEF ContradictsMemoryOnly
    <3>4. CASE plan.time[st] < plan.time[l]
      <4>1. ASSUME NEW other \in A, Guarded(other), plan.time[other] < plan.time[l]
            PROVE  plan.time[other] <= plan.time[st]
        <5>1. Made(other) BY <4>1, <1>3, <1>5, <1>6
        <5> QED BY <5>1, <1>10
      <4>2. st \in LatestStores(l) BY <3>1, <3>4, <4>1 DEF LatestStores
      <4> QED BY <4>2, <2>1 DEF ContradictsMemoryOnly
    <3> QED BY <3>1, <3>2, <3>3, <3>4, <1>1, <1>4
  <2> QED BY <2>2, <2>3, <1>2, <1>12
<1>13. CASE plan.rf[l] # Nowhere
  <2>1. PICK r : r = plan.rf[l] OBVIOUS
  <2>2. /\ r \in A
        /\ plan.time[r] < plan.time[l]
        /\ plan.value[l] = byte(Label(r))
        /\ Guarded(r)
        /\ \A other \in A : plan.time[r] < plan.time[other] /\ Guarded(other)
             => plan.time[l] < plan.time[other]
    BY <1>0, <1>13, <2>1, AxiomsOfThePlan
  <2>3. Made(r) BY <2>2, <1>3, <1>5, <1>6
  <2>4. st # Nowhere /\ st \in A /\ Made(st) /\ st \in Events /\ r \in Events
    BY <2>2, <2>3, <1>3, <1>8, <1>9
  <2>5. plan.time[r] <= plan.time[st] BY <2>2, <2>3, <1>10
  <2>6. Guarded(st) /\ plan.time[st] <= plan.time[l] BY <2>4, <1>5, <1>7 DEF Made
  <2>7. ~(plan.time[r] < plan.time[st])
    <3>1. plan.time[r] < plan.time[st] => plan.time[l] < plan.time[st]
      BY <2>2, <2>4, <2>6
    <3> QED BY <3>1, <2>4, <2>6, <1>1, <1>4
  <2>8. r = st
    <3>1. r # st => plan.time[r] < plan.time[st] \/ plan.time[st] < plan.time[r]
      BY <2>2, <2>4, <1>0, AxiomsOfThePlan
    <3> QED BY <3>1, <2>4, <2>5, <2>7, <1>4
  <2> QED BY <2>2, <2>4, <2>8, <1>2, <1>13
<1> QED BY <1>12, <1>13

LEMMA FinishesAsPlanned ==
    ASSUME Invariant
    PROVE  RacesAreReal
<1>1. SUFFICES ASSUME mode = "replay", ContradictsMemoryOnly, NEW e \in Events
               PROVE  /\ Done(e) => AsPlanned(e)
                      /\ ReadyIn(time, e) /\ Planned(e) => CanProceed(e)
  BY DEF RacesAreReal
<1>2. Done(e) => AsPlanned(e) BY <1>1 DEF Invariant, ReplayInvariant
<1>3. ASSUME ReadyIn(time, e), Planned(e), TakesPlace(e), e \in Loads
      PROVE  memory[address(Label(e))] # Nowhere \/ is_assume(Label(e))
  BY <1>1, <1>3, MemoryAsPlanned DEF Invariant
<1> QED BY <1>2, <1>3 DEF CanProceed

LEMMA LoadedAsPlanned ==
    ASSUME ExecutionInvariant, ReplayInvariant, mode = "replay", ContradictsMemoryOnly,
           NEW e \in Loads, Execute(e), TakesPlace(e)
    PROVE  IF is_assume(Label(e))
           THEN Expected(x, e, value'[e]) <=> Expected(x, e, plan.value[e])
           ELSE value'[e] = plan.value[e]
<1>0. WellFormed(program) /\ ExecutionType /\ Untouched BY DEF ExecutionInvariant
<1>1. /\ e \in Events /\ Label(e) \in Nat /\ is_acquire_load(Label(e))
      /\ ReadyIn(time, e) /\ Planned(e) /\ ~Done(e)
  BY <1>0, LabelFacts DEF Execute, Loads, ReadyIn, Done
<1>2. PICK st : st = memory[address(Label(e))] OBVIOUS
<1>3. IF plan.rf[e] = Nowhere
      THEN /\ is_assume(Label(e))
           /\ ~Expected(x, e, plan.value[e])
           /\ st # Nowhere => ~Expected(x, e, byte(Label(st)))
      ELSE st # Nowhere /\ plan.value[e] = byte(Label(st))
  BY <1>1, <1>2, MemoryAsPlanned
<1>4. Load(e) \/ AssumeNothing(e)
  <2>1. ~is_release_store(Label(e)) /\ ~is_none_store(Label(e)) /\ ~is_none_load(Label(e))
    BY <1>1, KindsOfLabels
  <2> QED BY <2>1 DEF Execute, Skip, Store, Plain
<1>5. CASE Load(e)
  <2>1. st # Nowhere /\ value'[e] = byte(Label(st)) BY <1>0, <1>1, <1>2, <1>5 DEF Load, ExecutionType
  <2> QED BY <2>1, <1>3
<1>6. CASE AssumeNothing(e)
  <2>1. st = Nowhere /\ value'[e] = NoByte /\ is_assume_acquire_eq(Label(e))
    BY <1>0, <1>1, <1>2, <1>6 DEF AssumeNothing, Untouched
  <2>2. ~Expected(x, e, value'[e])
    <3>1. byte(Label(e)) \in 0..255 BY <1>1, ByteRange
    <3> QED BY <2>1, <3>1 DEF Expected, NoByte, Label
  <2> QED BY <2>1, <2>2, <1>3
<1> QED BY <1>4, <1>5, <1>6

LEMMA ReplayGoesOn ==
    ASSUME Invariant, mode = "replay", NEW e \in Events, Execute(e)
    PROVE  /\ FollowsPlan'
           /\ ContradictsMemoryOnly => \A f \in Events : Done(f)' => AsPlanned(f)'
<1>0. /\ ExecutionInvariant /\ ReplayInvariant
      /\ WellFormed(program) /\ ExecutionType /\ Ordered /\ FollowsPlan /\ PlanType
  BY DEF Invariant, ReplayInvariant, ExecutionInvariant
<1>1. PICK n : Advance({e}, n) BY <1>0, ExecuteAdvances
<1>2. /\ x' = x /\ Events' = Events /\ Map' = Map /\ time'[e] = n /\ ~Done(e)
      /\ \A f \in Events : Done(f)' <=> Done(f) \/ f \in {e}
      /\ \A f \in Events : Done(f) \/ f \in {e} => (TakesPlace(f)' <=> TakesPlace(f))
  BY <1>0, <1>1, AdvanceFacts
<1>3. \A f \in Events : Done(f) =>
        f # e /\ time'[f] = time[f] /\ value'[f] = value[f] /\ time[f] < n
  BY <1>0, <1>1, DoneStays
<1>4. plan' = plan BY DEF Execute
<1>5. \A f \in Events : plan.time[f] \in Nat BY <1>0 DEF PlanType
<1>6. FollowsPlan'
  <2>1. ASSUME NEW f \in Events, NEW g \in Events, Done(f)', plan.time[g] < plan.time[f]
        PROVE  Done(g)' /\ time'[g] < time'[f]
    <3>1. CASE f = e
      <4>1. Done(g)
        <5>1. ~Done(g) => plan.time[e] <= plan.time[g] BY DEF Execute, Planned
        <5> QED BY <5>1, <3>1, <2>1, <1>5
      <4> QED BY <4>1, <3>1, <1>2, <1>3
    <3>2. CASE f # e
      <4>1. Done(f) BY <3>2, <2>1, <1>2
      <4>2. Done(g) /\ time[g] < time[f] BY <4>1, <2>1, <1>0 DEF FollowsPlan
      <4> QED BY <4>1, <4>2, <1>2, <1>3
    <3> QED BY <3>1, <3>2
  <2> QED BY <2>1, <1>2, <1>4 DEF FollowsPlan
<1>7. ASSUME ContradictsMemoryOnly, NEW f \in Events, Done(f)'
      PROVE  AsPlanned(f)'
  <2>1. /\ PlanSolution' = PlanSolution /\ Label(f)' = Label(f) /\ Loads' = Loads
        /\ (TakesPlace(f)' <=> TakesPlace(f))
    BY <1>2, <1>4, <1>7 DEF PlanSolution, Solution, HappensBefore, Label, Loads
  <2>2. TakesPlace(f) <=> guard(Map, x, f, PlanSolution)
    BY <1>0, <1>2, <1>7, GuardsAsPlanned DEF Execute
  <2>3. ASSUME f \in Loads, TakesPlace(f)
        PROVE  IF is_assume(Label(f))
               THEN Expected(x, f, value'[f]) <=> Expected(x, f, plan.value[f])
               ELSE value'[f] = plan.value[f]
    <3>1. CASE f = e BY <3>1, <2>3, <1>0, <1>7, LoadedAsPlanned
    <3>2. CASE f # e
      <4>1. Done(f) /\ value'[f] = value[f] BY <3>2, <1>2, <1>3, <1>7
      <4>2. AsPlanned(f) BY <4>1, <1>0, <1>7 DEF ReplayInvariant
      <4> QED BY <4>1, <4>2, <2>3 DEF AsPlanned
    <3> QED BY <3>1, <3>2
  <2> QED BY <2>1, <2>2, <2>3, <1>2, <1>4 DEF AsPlanned
<1> QED BY <1>6, <1>7

LEMMA PlaceKeepsReplay ==
    ASSUME ReplayInvariant, NEW S \in SUBSET Events, Place(S)
    PROVE  ReplayInvariant'
<1> DEFINE latest == Max({plan.time[f] : f \in Events})
<1>1. S # {} /\ S \subseteq Events /\ program' = program /\ time' = time BY DEF Place
<1>2. x' = x /\ Events' = Events BY <1>1 DEF x, Events
<1>3. PlanType BY DEF ReplayInvariant
<1>4. latest \in Nat /\ \A e \in Events : plan.time[e] <= latest
  BY <1>1, <1>3, LatestIsLatest DEF PlanType
<1>5. PICK m \in Nat : m = latest BY <1>4
<1>6. PICK t : t = [e \in Events |-> IF e \in S THEN m + 1 ELSE plan.time[e]] OBVIOUS
<1>7. plan' = [plan EXCEPT !.time = t] BY <1>5, <1>6 DEF Place
<1>8. DOMAIN plan' = DOMAIN plan /\ plan'.time = t BY <1>3, <1>7 DEF PlanType
<1>9. plan' = [field \in DOMAIN plan' |-> plan'[field]] BY <1>3, <1>7, <1>8 DEF PlanType
<1>10. t \in [Events -> Nat] BY <1>3, <1>6 DEF PlanType
<1>11. \E e \in Events : \A f \in Events : t[f] <= t[e]
  <2>1. PICK e \in S : TRUE BY <1>1
  <2>2. \A f \in Events : plan.time[f] \in Nat /\ plan.time[f] <= m BY <1>3, <1>4, <1>5 DEF PlanType
  <2>3. \A f \in Events : t[f] <= t[e] BY <1>1, <1>6, <2>1, <2>2
  <2> QED BY <1>1, <2>1, <2>3
<1>12. PlanType'
  <2>1. DOMAIN plan' = {"time", "rf", "value"} BY <1>3, <1>8 DEF PlanType
  <2>2. (plan'.time \in [Events' -> Nat]) /\ \E e \in Events' : \A f \in Events' : plan'.time[f] <= plan'.time[e]
    BY <1>2, <1>8, <1>10, <1>11
  <2> QED BY <1>9, <2>1, <2>2 DEF PlanType, SomeLatest
<1>13. mode' \in {"order", "solve"} BY DEF Place
<1>14. \A e \in Events' : ~Done(e)'
  BY <1>1, <1>2 DEF ReplayInvariant, Place, Done
<1> QED BY <1>12, <1>13, <1>14 DEF ReplayInvariant

LEMMA SolveKeepsReplay ==
    ASSUME ReplayInvariant, Solve
    PROVE  ReplayInvariant'
<1>1. PICK r \in [Loads -> Events \cup {Nowhere}] :
        /\ \A load \in Loads : r[load] \in Sources(x, load) \cup {Nowhere}
        /\ \E v \in Valuations(r) :
              /\ is_racy(Solution(plan.time, r, v))
              /\ plan' = [plan EXCEPT !.rf = r, !.value = v]
  BY DEF Solve
<1>2. PICK v \in Valuations(r) :
        /\ is_racy(Solution(plan.time, r, v))
        /\ plan' = [plan EXCEPT !.rf = r, !.value = v]
  BY <1>1
<1>3. PlanType BY DEF ReplayInvariant
<1>4. /\ DOMAIN plan' = DOMAIN plan
      /\ plan'.time = plan.time /\ plan'.rf = r /\ plan'.value = v
      /\ plan' = [field \in DOMAIN plan' |-> plan'[field]]
  BY <1>2, <1>3 DEF PlanType
<1>5. program' = program /\ time' = time /\ mode' = "replay" /\ mode = "solve" BY DEF Solve
<1>6. x' = x /\ Events' = Events /\ Map' = Map BY <1>5 DEF x, Events, Map
<1>7. Loads' = Loads BY <1>6 DEF Loads, Label
<1>8. PlanType' BY <1>3, <1>4, <1>6 DEF PlanType, SomeLatest
<1>9. PlanSolution' = Solution(plan.time, r, v)
  BY <1>4, <1>6 DEF PlanSolution, Solution, HappensBefore
<1>10. PlanObeysAxioms'
  <2>1. release_acquire(Map', x', PlanSolution') BY <1>2, <1>6, <1>9 DEF is_racy
  <2>2. \A l \in Loads' : plan'.rf[l] \in Sources(x', l) \cup {Nowhere}
    BY <1>1, <1>4, <1>6, <1>7
  <2> QED BY <2>1, <2>2 DEF PlanObeysAxioms, Nowhere
<1>11. \A e \in Events' : ~Done(e)' BY <1>5, <1>6 DEF ReplayInvariant, Done
<1> QED BY <1>5, <1>8, <1>10, <1>11 DEF ReplayInvariant, FollowsPlan

LEMMA PlanStays ==
    ASSUME PlanType, program' = program, plan' = plan
    PROVE  /\ PlanType'
           /\ PlanObeysAxioms' <=> PlanObeysAxioms
           /\ ContradictsMemoryOnly' <=> ContradictsMemoryOnly
<1>1. x' = x /\ Events' = Events /\ Map' = Map BY DEF x, Events, Map
<1>2. Loads' = Loads /\ PlanSolution' = PlanSolution /\ \A e : Label(e)' = Label(e)
  BY <1>1 DEF Loads, Label, PlanSolution, Solution, HappensBefore
<1>3. PlanType' BY <1>1 DEF PlanType, SomeLatest
<1>4. PlanObeysAxioms' <=> PlanObeysAxioms BY <1>1, <1>2 DEF PlanObeysAxioms, Nowhere
<1>5. \A e : LatestStores(e)' = LatestStores(e) /\ TiedStores(e)' = TiedStores(e)
  BY <1>1, <1>2 DEF LatestStores, TiedStores
<1>6. ContradictsMemoryOnly' <=> ContradictsMemoryOnly
  BY <1>1, <1>2, <1>5 DEF ContradictsMemoryOnly
<1> QED BY <1>3, <1>4, <1>6

LEMMA NextKeepsReplay ==
    ASSUME Invariant, [Next]_vars
    PROVE  ReplayInvariant'
<1>0. ReplayInvariant /\ PlanType BY DEF Invariant, ReplayInvariant
<1>1. CASE \E e \in Events : Execute(e)
  <2>1. PICK e \in Events : Execute(e) BY <1>1
  <2>2. mode' = mode /\ plan' = plan /\ program' = program /\ mode \in {"run", "replay"}
    BY <2>1 DEF Execute
  <2>3. /\ PlanType'
        /\ PlanObeysAxioms' <=> PlanObeysAxioms
        /\ ContradictsMemoryOnly' <=> ContradictsMemoryOnly
    BY <1>0, <2>2, PlanStays
  <2>4. CASE mode = "run" BY <2>2, <2>3, <2>4 DEF ReplayInvariant
  <2>5. CASE mode = "replay"
    <3>1. /\ FollowsPlan'
          /\ ContradictsMemoryOnly => \A f \in Events : Done(f)' => AsPlanned(f)'
      BY <2>1, <2>5, ReplayGoesOn
    <3>2. Events' = Events BY <2>2 DEF Events, x
    <3> QED BY <1>0, <2>2, <2>3, <2>5, <3>1, <3>2 DEF ReplayInvariant
  <2> QED BY <2>2, <2>4, <2>5
<1>2. CASE \E e, f \in Events : Race(e, f)
  <2>1. mode' = mode /\ plan' = plan /\ program' = program /\ mode = "run" BY <1>2 DEF Race
  <2>2. PlanType' BY <1>0, <2>1, PlanStays
  <2> QED BY <2>1, <2>2 DEF ReplayInvariant
<1>3. CASE \E S \in SUBSET Events : Place(S) BY <1>0, <1>3, PlaceKeepsReplay
<1>4. CASE Solve BY <1>0, <1>4, SolveKeepsReplay
<1>5. CASE UNCHANGED vars
  <2>1. /\ mode' = mode /\ plan' = plan /\ program' = program
        /\ time' = time /\ value' = value
    BY <1>5 DEF vars
  <2>2. /\ PlanType'
        /\ PlanObeysAxioms' <=> PlanObeysAxioms
        /\ ContradictsMemoryOnly' <=> ContradictsMemoryOnly
    BY <1>0, <2>1, PlanStays
  <2>3. /\ Events' = Events
        /\ \A e : (Done(e)' <=> Done(e)) /\ (AsPlanned(e)' <=> AsPlanned(e))
        /\ FollowsPlan' <=> FollowsPlan
    BY <2>1 DEF Events, x, Done, AsPlanned, TakesPlace, Map, PlanSolution, Solution,
                HappensBefore, Loads, Label, FollowsPlan
  <2> QED BY <1>0, <2>1, <2>2, <2>3 DEF ReplayInvariant
<1> QED BY <1>1, <1>2, <1>3, <1>4, <1>5 DEF Next

LEMMA InitEstablishesReplay ==
    ASSUME Init
    PROVE  ReplayInvariant
<1>1. plan = [time |-> [e \in Events |-> 0], rf |-> <<>>, value |-> <<>>] BY DEF Init
<1>2. plan.time = [e \in Events |-> 0] BY <1>1
<1>3. DOMAIN plan = {"time", "rf", "value"} /\ plan = [field \in DOMAIN plan |-> plan[field]]
  BY <1>1
<1>4. SomeLatest(plan.time) BY <1>2 DEF SomeLatest
<1>5. PlanType BY <1>2, <1>3, <1>4 DEF PlanType
<1>6. \A e \in Events : ~Done(e) BY DEF Init, Done
<1>7. mode \in {"run", "order"} BY DEF Init
<1> QED BY <1>5, <1>6, <1>7 DEF ReplayInvariant

(* A model that contradicts assumptions only where the memory does is an   *)
(* execution, of any program constructed: the one that follows the model's *)
(* moments takes its branches and reads what it says, and both accesses of *)
(* the race that is_racy() reports take place.                             *)
THEOREM ReportedRacesHappen ==
    ASSUME \A P \in Programs : Constructed(P)
    PROVE  Spec => []RacesAreReal
<1>1. Init => Invariant
  BY InitEstablishesInvariant, InitEstablishesReplay DEF Invariant
<1>2. Invariant /\ [Next]_vars => Invariant'
  BY NextKeepsInvariant, NextKeepsReplay DEF Invariant
<1>3. Invariant => RacesAreReal BY FinishesAsPlanned
<1> QED BY <1>1, <1>2, <1>3, PTL DEF Spec
=============================================================================
