----------------------------- MODULE SolverProofs -----------------------------
(***************************************************************************)
(* Proofs about the expressions that a Solver and its client share and     *)
(* about the terms a back end makes of them: for every number of addresses *)
(* and of variables, and every sequence of calls, each expression's count  *)
(* of references is exact, the terms in a cache are those of the           *)
(* expressions that are there now, the back end's stack is the client's,   *)
(* and every answer is right for what is on it.                            *)
(***************************************************************************)
EXTENDS Solver, TLAPS, FiniteSetTheorems, WellFoundedInduction

-----------------------------------------------------------------------------
(* Counting.                                                               *)

Same(x, y) == IF x = y THEN 1 ELSE 0

LEMMA Disjoint ==
  ASSUME NEW S, NEW T, IsFiniteSet(S), IsFiniteSet(T), S \intersect T = {}
  PROVE  /\ IsFiniteSet(S \union T)
         /\ Cardinality(S \union T) = Cardinality(S) + Cardinality(T)
         /\ Cardinality(S) \in Nat /\ Cardinality(T) \in Nat
<1>1. Cardinality(S) \in Nat /\ Cardinality(T) \in Nat /\ Cardinality({}) = 0
  BY FS_CardinalityType, FS_EmptySet
<1>2. /\ IsFiniteSet(S \union T)
      /\ Cardinality(S \union T) = Cardinality(S) + Cardinality(T) - Cardinality(S \intersect T)
  BY FS_Union
<1>3. Cardinality(S \intersect T) = 0
  BY <1>1, Zenon
<1>4. PICK u \in Nat, v \in Nat : u = Cardinality(S) /\ v = Cardinality(T)
  BY <1>1
<1>5. Cardinality(S \union T) = u + v - 0
  BY <1>2, <1>3, <1>4, Zenon
<1> QED
  BY <1>1, <1>2, <1>4, <1>5

LEMMA BoundedSeqs ==
  ASSUME NEW S, NEW n \in Nat, NEW s \in Seq(S), Len(s) <= n
  PROVE  s \in BoundedSeq(S, n)
<1>1. Len(s) \in 0 .. n /\ s \in [1 .. Len(s) -> S]
  OBVIOUS
<1> QED
  BY <1>1 DEF BoundedSeq, SeqOf

LEMMA SameSeq ==
  ASSUME NEW S, NEW s \in Seq(S), NEW t \in Seq(S), Len(s) = Len(t),
         \A i \in 1 .. Len(t) : s[i] = t[i]
  PROVE  s = t
OBVIOUS

LEMMA Prefix ==
  ASSUME NEW S, NEW s \in Seq(S), NEW n \in 0 .. Len(s)
  PROVE  /\ SubSeq(s, 1, n) \in Seq(S) /\ Len(SubSeq(s, 1, n)) = n
         /\ \A i \in 1 .. n : SubSeq(s, 1, n)[i] = s[i]
OBVIOUS

LEMMA Indices ==
  ASSUME NEW S, NEW s \in Seq(S), NEW x
  PROVE  /\ IsFiniteSet({i \in DOMAIN s : s[i] = x})
         /\ Occurrences(s, x) \in Nat
<1>1. DOMAIN s = 1 .. Len(s) /\ Len(s) \in Nat
  OBVIOUS
<1>2. IsFiniteSet(1 .. Len(s))
  BY <1>1, FS_Interval
<1>3. {i \in DOMAIN s : s[i] = x} \in SUBSET (1 .. Len(s))
  BY <1>1
<1>4. IsFiniteSet({i \in DOMAIN s : s[i] = x})
  BY <1>2, <1>3, FS_Subset
<1> QED
  BY <1>4, FS_CardinalityType DEF Occurrences

LEMMA OccursNowhere ==
  ASSUME NEW x
  PROVE  Occurrences(<< >>, x) = 0
<1>1. {i \in DOMAIN << >> : << >>[i] = x} = {}
  OBVIOUS
<1> QED
  BY <1>1, FS_EmptySet DEF Occurrences

LEMMA OccursIn ==
  ASSUME NEW S, NEW s \in Seq(S), NEW x
  PROVE  /\ Occurrences(s, x) = 0 <=> \A i \in DOMAIN s : s[i] # x
         /\ (\E i \in DOMAIN s : s[i] = x) => Occurrences(s, x) >= 1
<1>1. IsFiniteSet({i \in DOMAIN s : s[i] = x}) /\ Occurrences(s, x) \in Nat
  BY Indices
<1>2. Occurrences(s, x) = 0 <=> {i \in DOMAIN s : s[i] = x} = {}
  BY <1>1, FS_EmptySet DEF Occurrences
<1> QED
  BY <1>1, <1>2

(* Occurrences in a sequence are those in its two parts. *)
Parts(S, u, s, t) == s \in Seq(S) /\ t \in Seq(S) /\ u = s \o t

LEMMA OccursInParts ==
  ASSUME NEW S, NEW u, NEW s, NEW t, Parts(S, u, s, t), NEW x
  PROVE  Occurrences(u, x) = Occurrences(s, x) + Occurrences(t, x)
<1> DEFINE In(w) == {i \in DOMAIN w : w[i] = x}
           Shifted == {i \in DOMAIN u : i > Len(s) /\ u[i] = x}
<1>1. /\ Len(s) \in Nat /\ Len(t) \in Nat
      /\ DOMAIN s = 1 .. Len(s) /\ DOMAIN t = 1 .. Len(t)
      /\ DOMAIN u = 1 .. Len(s) + Len(t)
      /\ \A i \in 1 .. Len(s) : u[i] = s[i]
      /\ \A i \in 1 .. Len(t) : u[Len(s) + i] = t[i]
  BY DEF Parts
<1>2. IsFiniteSet(In(s)) /\ IsFiniteSet(In(t))
  BY Indices DEF Parts
<1>3. IsFiniteSet(Shifted) /\ Cardinality(Shifted) = Cardinality(In(t))
  <2> DEFINE f == [i \in In(t) |-> Len(s) + i]
  <2>1. f \in [In(t) -> Shifted]
    <3>1. \A i \in In(t) : Len(s) + i \in Shifted
      BY <1>1
    <3> QED
      BY <3>1
  <2>2. \A i, j \in In(t) : f[i] = f[j] => i = j
    BY <1>1
  <2>3. \A k \in Shifted : \E i \in In(t) : f[i] = k
    <3> SUFFICES ASSUME NEW k \in Shifted
                 PROVE  \E i \in In(t) : f[i] = k
      OBVIOUS
    <3>1. k - Len(s) \in 1 .. Len(t) /\ Len(s) + (k - Len(s)) = k
      BY <1>1
    <3>2. k - Len(s) \in In(t)
      BY <1>1, <3>1
    <3> QED
      BY <3>1, <3>2
  <2>4. f \in Bijection(In(t), Shifted)
    BY <2>1, <2>2, <2>3 DEF Bijection, Injection, Surjection, IsInjective
  <2>5. ExistsBijection(In(t), Shifted)
    BY <2>4 DEF ExistsBijection
  <2> QED
    BY <1>2, <2>5, FS_Bijection
<1>4. In(u) = In(s) \union Shifted
  <2>1. \A i \in DOMAIN u : i \in 1 .. Len(s) \/ i > Len(s)
    BY <1>1
  <2>2. \A i \in 1 .. Len(s) : i \in DOMAIN u
    BY <1>1
  <2> QED
    BY <1>1, <2>1, <2>2
<1>5. In(s) \intersect Shifted = {}
  BY <1>1
<1>6. Cardinality(In(s) \union Shifted) = Cardinality(In(s)) + Cardinality(Shifted)
  <2> HIDE DEF In, Shifted
  <2> QED
    BY <1>2, <1>3, <1>5, Disjoint
<1>7. /\ Occurrences(u, x) = Cardinality(In(s) \union Shifted)
      /\ Occurrences(s, x) = Cardinality(In(s))
      /\ Occurrences(t, x) = Cardinality(In(t))
  BY <1>4 DEF Occurrences
<1> HIDE DEF In, Shifted
<1> QED
  BY <1>3, <1>6, <1>7

LEMMA OccursOnce ==
  ASSUME NEW y, NEW x
  PROVE  Occurrences(<<y>>, x) = Same(y, x)
<1>1. DOMAIN <<y>> = {1} /\ <<y>>[1] = y
  OBVIOUS
<1>2. CASE y = x
  <2>1. {i \in DOMAIN <<y>> : <<y>>[i] = x} = {1}
    BY <1>1, <1>2
  <2> QED
    BY <1>2, <2>1, FS_Singleton DEF Occurrences, Same
<1>3. CASE y # x
  <2>1. {i \in DOMAIN <<y>> : <<y>>[i] = x} = {}
    BY <1>1, <1>3
  <2> QED
    BY <1>3, <2>1, FS_EmptySet DEF Occurrences, Same
<1> QED
  BY <1>2, <1>3

(* Every occurrence is in one of two sequences of pointers. *)
LEMMA OccursReversed ==
  ASSUME NEW S, NEW s \in Seq(S), NEW x
  PROVE  Occurrences(Reverse(s), x) = Occurrences(s, x)
<1> DEFINE In == {i \in DOMAIN s : s[i] = x}
           Back == {i \in DOMAIN Reverse(s) : Reverse(s)[i] = x}
           f == [i \in In |-> Len(s) + 1 - i]
<1>1. /\ Len(s) \in Nat
      /\ DOMAIN s = 1 .. Len(s)
      /\ DOMAIN Reverse(s) = 1 .. Len(s)
      /\ \A i \in 1 .. Len(s) : Reverse(s)[i] = s[(Len(s) - i) + 1]
  BY DEF Reverse
<1>2. \A i \in 1 .. Len(s) : /\ Len(s) + 1 - i \in 1 .. Len(s)
                             /\ (Len(s) - (Len(s) + 1 - i)) + 1 = i
                             /\ (Len(s) - i) + 1 = Len(s) + 1 - i
                             /\ Len(s) + 1 - (Len(s) + 1 - i) = i
  BY <1>1
<1>3. f \in [In -> Back]
  BY <1>1, <1>2
<1>4. \A i, j \in In : f[i] = f[j] => i = j
  BY <1>1
<1>5. \A k \in Back : \E i \in In : f[i] = k
  <2> SUFFICES ASSUME NEW k \in Back
               PROVE  \E i \in In : f[i] = k
    OBVIOUS
  <2>1. Len(s) + 1 - k \in In
    BY <1>1, <1>2
  <2> QED
    BY <1>1, <1>2, <2>1
<1>6. ExistsBijection(In, Back)
  <2>1. f \in Bijection(In, Back)
    BY <1>3, <1>4, <1>5 DEF Bijection, Injection, Surjection, IsInjective
  <2> QED
    BY <2>1 DEF ExistsBijection
<1>7. IsFiniteSet(In)
  BY Indices
<1>8. Cardinality(Back) = Cardinality(In)
  BY <1>6, <1>7, FS_Bijection
<1> QED
  BY <1>8 DEF Occurrences

(* Pointers to be given up are those there were. *)
LEMMA OccursReleased ==
  ASSUME NEW S, NEW s \in Seq(S), NEW x, NEW t,
         DOMAIN t = DOMAIN s, \A i \in DOMAIN s : t[i] = Step("dec", s[i])
  PROVE  Occurrences(t, Step("dec", x)) = Occurrences(s, x)
<1>1. \A i \in DOMAIN s : t[i] = Step("dec", x) <=> s[i] = x
  BY DEF Step
<1>2. {i \in DOMAIN t : t[i] = Step("dec", x)} = {i \in DOMAIN s : s[i] = x}
  BY <1>1
<1> QED
  BY <1>2 DEF Occurrences

(* One variable points to something else. *)
HandlesAt(h, a) == Cardinality({v \in Handle : h[v] = a})

LEMMA HandlesType ==
  ASSUME NEW h, NEW a
  PROVE  /\ IsFiniteSet({v \in Handle : h[v] = a})
         /\ HandlesAt(h, a) \in Nat
         /\ \A v \in Handle : h[v] = a => HandlesAt(h, a) >= 1
<1>1. IsFiniteSet({v \in Handle : h[v] = a})
  <2>1. {v \in Handle : h[v] = a} \in SUBSET Handle
    OBVIOUS
  <2> QED
    BY <2>1, ExpressionsAssumption, FS_Subset
<1>2. HandlesAt(h, a) \in Nat
  BY <1>1, FS_CardinalityType DEF HandlesAt
<1>3. HandlesAt(h, a) = 0 => {v \in Handle : h[v] = a} = {}
  BY <1>1, FS_EmptySet DEF HandlesAt
<1> QED
  BY <1>1, <1>2, <1>3

LEMMA HandleSet ==
  ASSUME NEW h \in [Handle -> AddrOrNull], NEW g \in [Handle -> AddrOrNull], NEW v \in Handle,
         \A u \in Handle \ {v} : g[u] = h[u], NEW a \in Addr
  PROVE  HandlesAt(g, a) + Same(h[v], a) = HandlesAt(h, a) + Same(g[v], a)
<1> DEFINE S == {u \in Handle : h[u] = a}
           R == {u \in Handle \ {v} : h[u] = a}
           T == {u \in Handle : g[u] = a}
<1>1. IsFiniteSet(R)
  <2>1. R \in SUBSET Handle
    OBVIOUS
  <2> QED
    BY <2>1, ExpressionsAssumption, FS_Subset
<1>2. Cardinality(R) \in Nat
  BY <1>1, FS_CardinalityType
<1>3. v \notin R
  OBVIOUS
<1>4. Cardinality(R \union {v}) = Cardinality(R) + 1
  <2> HIDE DEF R
  <2> QED
    BY <1>1, <1>3, FS_AddElement
<1>5. S = IF h[v] = a THEN R \union {v} ELSE R
  OBVIOUS
<1>6. T = IF g[v] = a THEN R \union {v} ELSE R
  OBVIOUS
<1>7. Cardinality(S) = Cardinality(R) + Same(h[v], a)
  <2> HIDE DEF S, R
  <2> QED
    BY <1>2, <1>4, <1>5 DEF Same
<1>8. Cardinality(T) = Cardinality(R) + Same(g[v], a)
  <2> HIDE DEF T, R
  <2> QED
    BY <1>2, <1>4, <1>6 DEF Same
<1>9. HandlesAt(g, a) = Cardinality(T) /\ HandlesAt(h, a) = Cardinality(S)
  BY DEF HandlesAt
<1>10. Same(h[v], a) \in Nat /\ Same(g[v], a) \in Nat
  BY DEF Same
<1> HIDE DEF S, T, R
<1> QED
  BY <1>2, <1>7, <1>8, <1>9, <1>10

(* Operands: those of the expressions outside of D that are in heap h. *)
OperandsIn(h, D, a) ==
  {operand \in Addr \X {1, 2} :
     /\ operand[1] \notin D
     /\ operand[2] \in DOMAIN h[operand[1]].args
     /\ h[operand[1]].args[operand[2]] = a}

LEMMA OperandsType ==
  ASSUME NEW h, NEW D, NEW a
  PROVE  /\ IsFiniteSet(OperandsIn(h, D, a))
         /\ Cardinality(OperandsIn(h, D, a)) \in Nat
<1>1. IsFiniteSet(Addr \X {1, 2})
  <2>1. IsFiniteSet({1, 2})
    <3>1. IsFiniteSet({1}) /\ {1, 2} = {1} \union {2}
      BY FS_Singleton
    <3> QED
      BY <3>1, FS_AddElement
  <2> QED
    BY <2>1, ExpressionsAssumption, FS_Product
<1>2. OperandsIn(h, D, a) \in SUBSET (Addr \X {1, 2})
  BY DEF OperandsIn
<1> QED
  BY <1>1, <1>2, FS_Subset, FS_CardinalityType

(* The operands of one expression, apart from all others *)
HasOperands(h, b) == h[b].args \in Seq(Addr) /\ Len(h[b].args) <= 2

Without(D, b, E) == b \in Addr /\ b \notin D /\ E = D \union {b}

LEMMA OperandsApart ==
  ASSUME NEW h, NEW D, NEW b, NEW E, Without(D, b, E), HasOperands(h, b), NEW a
  PROVE  Cardinality(OperandsIn(h, D, a))
           = Cardinality(OperandsIn(h, E, a)) + Occurrences(h[b].args, a)
<1> DEFINE s == h[b].args
           In == {i \in DOMAIN s : s[i] = a}
           Own == {operand \in {b} \X {1, 2} : operand[2] \in DOMAIN s /\ s[operand[2]] = a}
           f == [i \in In |-> <<b, i>>]
<1>0. b \in Addr /\ b \notin D /\ E = D \union {b} /\ s \in Seq(Addr) /\ Len(s) <= 2
  BY DEF HasOperands, Without
<1>1. DOMAIN s \subseteq {1, 2}
  BY <1>0
<1>2. f \in [In -> Own]
  BY <1>1
<1>3. \A i, j \in In : f[i] = f[j] => i = j
  OBVIOUS
<1>4. \A k \in Own : \E i \in In : f[i] = k
  <2> SUFFICES ASSUME NEW k \in Own
               PROVE  \E i \in In : f[i] = k
    OBVIOUS
  <2>1. k = <<b, k[2]>> /\ k[2] \in In
    OBVIOUS
  <2> QED
    BY <2>1
<1>5. ExistsBijection(In, Own)
  <2>1. f \in Bijection(In, Own)
    BY <1>2, <1>3, <1>4 DEF Bijection, Injection, Surjection, IsInjective
  <2> QED
    BY <2>1 DEF ExistsBijection
<1>6. IsFiniteSet(In)
  BY <1>0, Indices
<1>7. IsFiniteSet(Own) /\ Cardinality(Own) = Cardinality(In)
  BY <1>5, <1>6, FS_Bijection
<1>8. OperandsIn(h, D, a) = OperandsIn(h, E, a) \union Own
  <2>1. \A k \in Addr \X {1, 2} :
          k \in OperandsIn(h, D, a) <=> k \in OperandsIn(h, E, a) \/ k \in Own
    <3> SUFFICES ASSUME NEW k \in Addr \X {1, 2}
                 PROVE  k \in OperandsIn(h, D, a)
                          <=> k \in OperandsIn(h, E, a) \/ k \in Own
      OBVIOUS
    <3>1. k[1] \in Addr /\ k[2] \in {1, 2} /\ k = <<k[1], k[2]>>
      OBVIOUS
    <3>2. CASE k[1] = b
      BY <1>0, <3>1, <3>2 DEF OperandsIn
    <3>3. CASE k[1] # b
      BY <1>0, <3>1, <3>3 DEF OperandsIn
    <3> QED
      BY <3>2, <3>3
  <2>2. Own \subseteq Addr \X {1, 2}
    BY <1>0
  <2>3. OperandsIn(h, D, a) \subseteq Addr \X {1, 2} /\ OperandsIn(h, E, a) \subseteq Addr \X {1, 2}
    BY DEF OperandsIn
  <2> HIDE DEF Own
  <2> QED
    BY <2>1, <2>2, <2>3
<1>9. OperandsIn(h, E, a) \intersect Own = {}
  BY <1>0 DEF OperandsIn
<1>10. Occurrences(s, a) = Cardinality(In)
  BY DEF Occurrences
<1>11. Cardinality(OperandsIn(h, E, a) \union Own)
         = Cardinality(OperandsIn(h, E, a)) + Cardinality(Own)
  <2> HIDE DEF Own
  <2> QED
    BY <1>7, <1>9, OperandsType, Disjoint
<1> HIDE DEF Own, In, s
<1>12. Occurrences(h[b].args, a) = Cardinality(Own)
  BY <1>7, <1>10 DEF s
<1> QED
  BY <1>8, <1>11, <1>12, Zenon

-----------------------------------------------------------------------------
(* Expressions and the pointers to them.                                   *)

Kinds == {"none", "symbol", "lnot", "land", "lor"}

Expr == [kind : Kinds, name : Symbol \union {Null}, args : BoundedSeq(Addr, 2), refs : Int]

Pending == [what : {"dec", "delete"}, addr : Addr] \union [what : {"pop", "reset"}, addr : {Null}]

HeapOK ==
  /\ heap \in [Addr -> Expr]
  /\ \A a \in Addr : heap[a].kind = "symbol" => heap[a].name \in Symbol
  /\ \A a \in Addr : IsFree(a) => heap[a] = NoExpr

PointersOK ==
  /\ handle \in [Handle -> AddrOrNull]
  /\ leaked \in [Addr -> Nat]
  /\ assertions \in Seq(Addr)
  /\ todo \in Seq(Pending)
  /\ consing \in BOOLEAN

Deleting == {a \in Addr : \E i \in DOMAIN todo : todo[i] = Step("delete", a)}

Counts == \A a \in Addr : heap[a].refs = Pointers(a)

(* An expression is on its way out if nothing points to it, and only then. *)
OnItsWayOut ==
  \A a \in Addr : /\ heap[a].refs = 0 => IsFree(a) \/ a \in Deleting
                  /\ a \in Deleting => heap[a].refs = 0

(* With hash consing, the store has the expressions that are in use, and   *)
(* no two alike.                                                           *)
StoreOK ==
  /\ store \subseteq Addr
  /\ \A a \in store : consing /\ heap[a].refs > 0
  /\ consing => \A a \in Addr : heap[a].refs > 0 => a \in store
  /\ \A a, b \in store : ShapeAt(a) = ShapeAt(b) => a = b

Memory == HeapOK /\ PointersOK /\ Counts /\ OnItsWayOut /\ StoreOK

LEMMA ExprType ==
  ASSUME HeapOK, NEW a \in Addr
  PROVE  /\ heap[a] \in Expr
         /\ heap[a].args \in Seq(Addr) /\ Len(heap[a].args) <= 2
         /\ heap[a].refs \in Int
         /\ heap[a] = [kind |-> heap[a].kind, name |-> heap[a].name,
                       args |-> heap[a].args, refs |-> heap[a].refs]
<1>1. heap[a] \in Expr
  BY DEF HeapOK
<1>2. heap[a].args \in BoundedSeq(Addr, 2)
  BY <1>1 DEF Expr
<1>3. heap[a].args \in Seq(Addr) /\ Len(heap[a].args) <= 2
  <2>1. PICK m \in 0 .. 2 : heap[a].args \in [1 .. m -> Addr]
    BY <1>2 DEF BoundedSeq, SeqOf
  <2> QED
    BY <2>1
<1> QED
  BY <1>1, <1>3 DEF Expr

LEMMA PointersAre ==
  PointersOK =>
    \A a \in Addr :
      /\ Pointers(a) = HandlesAt(handle, a) + Cardinality(OperandsIn(heap, Deleting, a))
                         + Occurrences(assertions, a) + Occurrences(todo, Step("dec", a))
                         + leaked[a]
      /\ HandlesAt(handle, a) \in Nat
      /\ Cardinality(OperandsIn(heap, Deleting, a)) \in Nat
      /\ Occurrences(assertions, a) \in Nat
      /\ Occurrences(todo, Step("dec", a)) \in Nat
      /\ leaked[a] \in Nat
<1> SUFFICES ASSUME PointersOK, NEW a \in Addr
             PROVE  /\ Pointers(a) = HandlesAt(handle, a)
                         + Cardinality(OperandsIn(heap, Deleting, a))
                         + Occurrences(assertions, a) + Occurrences(todo, Step("dec", a))
                         + leaked[a]
                    /\ HandlesAt(handle, a) \in Nat
                    /\ Cardinality(OperandsIn(heap, Deleting, a)) \in Nat
                    /\ Occurrences(assertions, a) \in Nat
                    /\ Occurrences(todo, Step("dec", a)) \in Nat
                    /\ leaked[a] \in Nat
  OBVIOUS
<1>1. OperandsAt(a) = OperandsIn(heap, Deleting, a)
  <2>1. \A b \in Addr : Step("delete", b) \in ToSet(todo) <=> b \in Deleting
    BY DEF Deleting, ToSet
  <2> QED
    BY <2>1 DEF OperandsAt, OperandsIn
<1>2. /\ HandlesAt(handle, a) \in Nat
      /\ Cardinality(OperandsIn(heap, Deleting, a)) \in Nat
      /\ Occurrences(assertions, a) \in Nat
      /\ Occurrences(todo, Step("dec", a)) \in Nat
      /\ leaked[a] \in Nat
  BY HandlesType, OperandsType, Indices DEF PointersOK
<1> QED
  BY <1>1, <1>2 DEF Pointers, HandlesAt

LEMMA PointersWillBe ==
  PointersOK' =>
    (\A a \in Addr :
      /\ Pointers(a) = HandlesAt(handle, a) + Cardinality(OperandsIn(heap, Deleting, a))
                         + Occurrences(assertions, a) + Occurrences(todo, Step("dec", a))
                         + leaked[a]
      /\ HandlesAt(handle, a) \in Nat
      /\ Cardinality(OperandsIn(heap, Deleting, a)) \in Nat
      /\ Occurrences(assertions, a) \in Nat
      /\ Occurrences(todo, Step("dec", a)) \in Nat
      /\ leaked[a] \in Nat)'
BY PointersAre, PTL

(* What a variable, an operand, the solver or a destructor points to is    *)
(* there.                                                                  *)
LEMMA Live ==
  ASSUME Memory, NEW a \in Addr
  PROVE  /\ heap[a].refs \in Nat
         /\ \A v \in Handle : handle[v] = a => heap[a].refs >= 1
         /\ \A i \in DOMAIN todo : todo[i] = Step("dec", a) => heap[a].refs >= 1
         /\ heap[a].refs >= 1 => ~IsFree(a) /\ a \notin Deleting
<1>1. PointersOK /\ heap[a].refs = Pointers(a)
  BY DEF Memory, Counts
<1>2. \A v \in Handle : handle[v] = a => HandlesAt(handle, a) >= 1
  BY HandlesType
<1>3. \A i \in DOMAIN todo : todo[i] = Step("dec", a) => Occurrences(todo, Step("dec", a)) >= 1
  <2>1. todo \in Seq(Pending)
    BY <1>1 DEF PointersOK
  <2> QED
    BY <2>1, OccursIn
<1>4. heap[a].refs >= 1 => ~IsFree(a) /\ a \notin Deleting
  BY DEF Memory, HeapOK, OnItsWayOut, NoExpr, Unreferenced
<1> QED
  BY <1>1, <1>2, <1>3, <1>4, PointersAre

(* The expressions but for their reference counts *)
SameShapes == \A a \in Addr : ShapeAt(a)' = ShapeAt(a)

LEMMA SameOperands ==
  ASSUME SameShapes, Deleting' = Deleting, NEW a \in Addr
  PROVE  OperandsIn(heap, Deleting, a)' = OperandsIn(heap, Deleting, a)
<1>1. \A b \in Addr : heap'[b].args = heap[b].args
  BY DEF SameShapes, ShapeAt, Shape
<1> QED
  BY <1>1 DEF OperandsIn

(* A step that makes and deletes no expression keeps the counts exact if   *)
(* it counts what it does to pointers.                                     *)
Difference(a) ==
  (HandlesAt(handle, a)' - HandlesAt(handle, a))
    + (Occurrences(assertions, a)' - Occurrences(assertions, a))
    + (Occurrences(todo, Step("dec", a))' - Occurrences(todo, Step("dec", a)))
    + (leaked'[a] - leaked[a])

LEMMA MemoryKept ==
  ASSUME Memory, PointersOK', heap' \in [Addr -> Expr], SameShapes, Deleting' = Deleting,
         UNCHANGED <<consing, store>>,
         \A a \in Addr : heap'[a].refs > 0 <=> heap[a].refs > 0,
         \A a \in Addr : heap'[a].refs = heap[a].refs + Difference(a)
  PROVE  Memory'
<1>1. HeapOK /\ PointersOK /\ Counts /\ OnItsWayOut /\ StoreOK
  BY DEF Memory
<1>2. \A a \in Addr : heap'[a].refs = Pointers(a)' /\ heap'[a].refs \in Nat
  <2> SUFFICES ASSUME NEW a \in Addr
               PROVE  heap'[a].refs = Pointers(a)' /\ heap'[a].refs \in Nat
    OBVIOUS
  <2>1. OperandsIn(heap, Deleting, a)' = OperandsIn(heap, Deleting, a)
    BY SameOperands
  <2>2. Cardinality(OperandsIn(heap, Deleting, a))' = Cardinality(OperandsIn(heap, Deleting, a))
    BY <2>1
  <2>3. heap[a].refs = Pointers(a) /\ heap'[a].refs = heap[a].refs + Difference(a)
    BY <1>1 DEF Counts
  <2> QED
    BY <1>1, <2>2, <2>3, PointersAre, PointersWillBe DEF Difference
<1>3. Counts'
  BY <1>2 DEF Counts
<1>4. \A a \in Addr : /\ heap'[a].kind = heap[a].kind
                      /\ heap'[a].name = heap[a].name
                      /\ heap'[a].args = heap[a].args
  BY DEF SameShapes, ShapeAt, Shape
<1>5. \A a \in Addr : heap'[a].refs = 0 <=> heap[a].refs = 0
  <2> SUFFICES ASSUME NEW a \in Addr
               PROVE  heap'[a].refs = 0 <=> heap[a].refs = 0
    OBVIOUS
  <2>1. heap[a].refs \in Nat /\ heap'[a].refs \in Nat
    BY <1>2, Live
  <2> QED
    BY <2>1
<1>6. HeapOK'
  <2>1. ASSUME NEW a \in Addr, IsFree(a)'
        PROVE  heap'[a] = NoExpr
    <3>1. heap[a] = NoExpr
      BY <1>1, <1>4, <2>1 DEF HeapOK, IsFree
    <3>2. heap'[a] \in Expr /\ heap'[a].refs = 0
      BY <1>5, <3>1 DEF NoExpr, Unreferenced
    <3> QED
      BY <1>4, <3>1, <3>2 DEF Expr, NoExpr, Unreferenced
  <2> QED
    BY <1>1, <1>4, <2>1 DEF HeapOK
<1>7. OnItsWayOut'
  BY <1>1, <1>4, <1>5 DEF OnItsWayOut, IsFree
<1>8. StoreOK'
  <2>1. \A a, b \in store : ShapeAt(a)' = ShapeAt(b)' => a = b
    BY <1>1 DEF StoreOK, SameShapes
  <2> QED
    BY <1>1, <2>1 DEF StoreOK
<1> QED
  BY <1>3, <1>6, <1>7, <1>8 DEF Memory

-----------------------------------------------------------------------------
(* The client's calls, step by step.                                       *)

LEMMA IncEffect ==
  ASSUME HeapOK, NEW ptrs \in Seq(AddrOrNull), heap' = Inc(heap, ptrs)
  PROVE  /\ heap' \in [Addr -> Expr]
         /\ SameShapes
         /\ \A a \in Addr : heap'[a].refs = heap[a].refs + Occurrences(ptrs, a)
<1>1. ASSUME NEW a \in Addr
      PROVE  /\ heap'[a] \in Expr
             /\ ShapeAt(a)' = ShapeAt(a)
             /\ heap'[a].refs = heap[a].refs + Occurrences(ptrs, a)
  <2>1. PICK n \in Nat : n = Occurrences(ptrs, a)
    BY Indices
  <2>2. heap'[a] = [heap[a] EXCEPT !.refs = @ + n]
    <3>1. heap'[a] = [heap[a] EXCEPT !.refs = @ + Occurrences(ptrs, a)]
      BY DEF Inc
    <3> QED
      BY <2>1, <3>1
  <2>3. heap[a] \in Expr /\ heap[a].refs \in Int
    BY ExprType
  <2>4. heap[a].refs + n \in Int
    BY <2>1, <2>3
  <2> QED
    BY <2>1, <2>2, <2>3, <2>4 DEF Expr, ShapeAt, Shape
<1>2. heap' \in [Addr -> Expr]
  <2>1. heap' = [a \in Addr |-> heap'[a]]
    BY DEF Inc
  <2> QED
    BY <1>1, <2>1
<1> QED
  BY <1>1, <1>2 DEF SameShapes

(* Nothing is deleted while the client works. *)
LEMMA IdleNow ==
  ASSUME Idle
  PROVE  Deleting = {} /\ \A x : Occurrences(todo, x) = 0
BY OccursNowhere DEF Idle, Deleting

LEMMA DecNext ==
  ASSUME NEW ptr \in AddrOrNull, todo' = Dec(ptr)
  PROVE  /\ todo' \in Seq(Pending)
         /\ Deleting' = {}
         /\ \A a \in Addr : Occurrences(todo, Step("dec", a))' = Same(ptr, a)
<1>1. CASE ptr = Null
  <2>1. todo' = << >>
    BY <1>1 DEF Dec
  <2>2. \A a \in Addr : Same(ptr, a) = 0
    BY <1>1, ExpressionsAssumption DEF Same
  <2> QED
    BY <2>1, <2>2, OccursNowhere DEF Deleting
<1>2. CASE ptr # Null
  <2>1. ptr \in Addr /\ todo' = <<Step("dec", ptr)>>
    BY <1>2 DEF Dec, AddrOrNull
  <2>2. Step("dec", ptr) \in Pending
    BY <2>1 DEF Step, Pending
  <2>3. Deleting' = {}
    BY <2>1 DEF Deleting, Step
  <2>4. ASSUME NEW a \in Addr
        PROVE  Occurrences(todo, Step("dec", a))' = Same(ptr, a)
    <3>1. Step("dec", ptr) = Step("dec", a) <=> ptr = a
      BY DEF Step
    <3>2. Occurrences(todo, Step("dec", a))' = Same(Step("dec", ptr), Step("dec", a))
      BY <2>1, OccursOnce
    <3> QED
      BY <3>1, <3>2 DEF Same
  <2> QED
    BY <2>1, <2>2, <2>3, <2>4
<1> QED
  BY <1>1, <1>2

LEMMA HandleType ==
  ASSUME Memory, NEW v \in Handle
  PROVE  /\ handle[v] \in AddrOrNull
         /\ handle[v] # Null => handle[v] \in Addr /\ heap[handle[v]].refs >= 1
<1>1. handle[v] \in AddrOrNull
  BY DEF Memory, PointersOK
<1> QED
  BY <1>1, Live DEF AddrOrNull

(* The client changes its own variables and nothing else. *)
LEMMA ClientKeeps ==
  ASSUME Memory, Idle, heap' \in [Addr -> Expr], SameShapes,
         handle' \in [Handle -> AddrOrNull], leaked' \in [Addr -> Nat],
         UNCHANGED <<consing, store, assertions>>,
         NEW ptr \in AddrOrNull, todo' = Dec(ptr),
         \A a \in Addr : heap'[a].refs > 0 <=> heap[a].refs > 0,
         \A a \in Addr :
           heap'[a].refs = heap[a].refs + (HandlesAt(handle, a)' - HandlesAt(handle, a))
                             + Same(ptr, a) + (leaked'[a] - leaked[a])
  PROVE  Memory'
<1>1. PointersOK /\ PointersOK'
  BY DecNext DEF Memory, PointersOK
<1>2. Deleting' = Deleting
  BY IdleNow, DecNext
<1>3. \A a \in Addr : heap'[a].refs = heap[a].refs + Difference(a)
  <2> SUFFICES ASSUME NEW a \in Addr
               PROVE  heap'[a].refs = heap[a].refs + Difference(a)
    OBVIOUS
  <2>1. /\ Occurrences(todo, Step("dec", a))' = Same(ptr, a)
        /\ Occurrences(todo, Step("dec", a)) = 0
        /\ Same(ptr, a) \in Nat
    BY IdleNow, DecNext DEF Same
  <2>2. Occurrences(assertions, a)' = Occurrences(assertions, a)
    OBVIOUS
  <2>3. /\ Occurrences(assertions, a) \in Nat
        /\ HandlesAt(handle, a) \in Nat /\ HandlesAt(handle, a)' \in Nat
        /\ leaked[a] \in Nat /\ leaked'[a] \in Nat /\ heap[a].refs \in Nat
    BY <1>1, PointersAre, PointersWillBe, Live
  <2> QED
    BY <2>1, <2>2, <2>3 DEF Difference
<1> QED
  BY <1>1, <1>2, <1>3, MemoryKept

(* A variable points to an expression that was there, what it pointed to   *)
(* before is given up.                                                     *)
LEMMA PointsTo ==
  ASSUME Memory, Idle, NEW v \in Handle, NEW y \in AddrOrNull,
         y # Null => heap[y].refs >= 1,
         heap' = Inc(heap, <<y>>), handle' = [handle EXCEPT ![v] = y], todo' = Dec(handle[v]),
         UNCHANGED <<consing, store, leaked, assertions>>
  PROVE  Memory'
<1>1. HeapOK /\ PointersOK
  BY DEF Memory
<1>2. /\ heap' \in [Addr -> Expr]
      /\ SameShapes
      /\ \A a \in Addr : heap'[a].refs = heap[a].refs + Same(y, a)
  <2>1. <<y>> \in Seq(AddrOrNull)
    OBVIOUS
  <2> QED
    BY <1>1, <2>1, IncEffect, OccursOnce
<1>3. handle \in [Handle -> AddrOrNull] /\ leaked \in [Addr -> Nat] /\ leaked' \in [Addr -> Nat]
  BY <1>1 DEF PointersOK
<1>4. /\ handle' \in [Handle -> AddrOrNull] /\ handle[v] \in AddrOrNull
      /\ handle'[v] = y /\ \A u \in Handle \ {v} : handle'[u] = handle[u]
  BY <1>3
<1>5. \A a \in Addr : heap[a].refs \in Nat /\ Same(y, a) \in {0, 1} /\ (Same(y, a) = 1 => y = a)
  BY Live DEF Same
<1>6. \A a \in Addr : heap'[a].refs > 0 <=> heap[a].refs > 0
  <2> SUFFICES ASSUME NEW a \in Addr
               PROVE  heap'[a].refs > 0 <=> heap[a].refs > 0
    OBVIOUS
  <2>1. y = a => heap[a].refs >= 1
    BY ExpressionsAssumption
  <2> QED
    BY <1>2, <1>5, <2>1
<1>7. \A a \in Addr :
        heap'[a].refs = heap[a].refs + (HandlesAt(handle, a)' - HandlesAt(handle, a))
                          + Same(handle[v], a) + (leaked'[a] - leaked[a])
  <2> SUFFICES ASSUME NEW a \in Addr
               PROVE  heap'[a].refs = heap[a].refs + (HandlesAt(handle, a)' - HandlesAt(handle, a))
                                        + Same(handle[v], a) + (leaked'[a] - leaked[a])
    OBVIOUS
  <2>1. HandlesAt(handle', a) + Same(handle[v], a) = HandlesAt(handle, a) + Same(y, a)
    <3>1. PICK g \in [Handle -> AddrOrNull] : g = handle'
      BY <1>4
    <3>2. g[v] = y /\ \A u \in Handle \ {v} : g[u] = handle[u]
      BY <1>4, <3>1
    <3>3. HandlesAt(g, a) + Same(handle[v], a) = HandlesAt(handle, a) + Same(g[v], a)
      BY <1>3, <3>2, HandleSet
    <3> QED
      BY <3>1, <3>2, <3>3, Zenon
  <2>2. HandlesAt(handle, a)' = HandlesAt(handle', a)
    BY DEF HandlesAt
  <2>3. /\ HandlesAt(handle, a) \in Nat /\ HandlesAt(handle', a) \in Nat
        /\ Same(handle[v], a) \in Nat /\ leaked[a] \in Nat /\ leaked'[a] = leaked[a]
    BY <1>3, HandlesType DEF Same
  <2> QED
    BY <1>2, <1>5, <2>1, <2>2, <2>3
<1> QED
  BY <1>2, <1>3, <1>4, <1>6, <1>7, ClientKeeps

LEMMA MemoryCopy ==
  ASSUME Memory, NEW v \in Handle, NEW w \in Handle, Copy(v, w), UNCHANGED assertions
  PROVE  Memory'
<1>1. handle[w] \in AddrOrNull /\ (handle[w] # Null => heap[handle[w]].refs >= 1)
  BY HandleType
<1> QED
  BY <1>1, PointsTo DEF Copy

(* Counts do not change while variables do. *)
LEMMA HandlesOnly ==
  ASSUME Memory, Idle, handle' \in [Handle -> AddrOrNull], leaked' \in [Addr -> Nat],
         UNCHANGED <<heap, consing, store, assertions>>,
         NEW ptr \in AddrOrNull, todo' = Dec(ptr),
         \A a \in Addr :
           HandlesAt(handle', a) + Same(ptr, a) + leaked'[a] = HandlesAt(handle, a) + leaked[a]
  PROVE  Memory'
<1>1. heap' \in [Addr -> Expr] /\ SameShapes /\ leaked \in [Addr -> Nat]
  BY DEF Memory, HeapOK, PointersOK, SameShapes, ShapeAt
<1>2. \A a \in Addr :
        heap'[a].refs = heap[a].refs + (HandlesAt(handle, a)' - HandlesAt(handle, a))
                          + Same(ptr, a) + (leaked'[a] - leaked[a])
  <2> SUFFICES ASSUME NEW a \in Addr
               PROVE  heap'[a].refs = heap[a].refs + (HandlesAt(handle, a)' - HandlesAt(handle, a))
                                        + Same(ptr, a) + (leaked'[a] - leaked[a])
    OBVIOUS
  <2>1. HandlesAt(handle, a)' = HandlesAt(handle', a)
    BY DEF HandlesAt
  <2>2. /\ HandlesAt(handle, a) \in Nat /\ HandlesAt(handle', a) \in Nat
        /\ Same(ptr, a) \in Nat /\ leaked[a] \in Nat /\ leaked'[a] \in Nat
        /\ heap[a].refs \in Nat /\ heap'[a].refs = heap[a].refs
    BY <1>1, HandlesType, Live DEF Same
  <2> QED
    BY <2>1, <2>2
<1>3. \A a \in Addr : heap'[a].refs > 0 <=> heap[a].refs > 0
  OBVIOUS
<1> QED
  BY <1>1, <1>2, <1>3, ClientKeeps

LEMMA MemoryMove ==
  ASSUME Memory, NEW v \in Handle, NEW w \in Handle, Move(v, w), UNCHANGED assertions
  PROVE  Memory'
<1>1. handle \in [Handle -> AddrOrNull] /\ leaked \in [Addr -> Nat] /\ Null \in AddrOrNull
  BY DEF Memory, PointersOK, AddrOrNull
<1>2. PICK h \in [Handle -> AddrOrNull] : h = [handle EXCEPT ![v] = handle[w]]
  BY <1>1
<1>3. /\ h[v] = handle[w] /\ h[w] = handle[w] /\ \A u \in Handle \ {v} : h[u] = handle[u]
      /\ handle' = [h EXCEPT ![w] = Null]
  BY <1>1, <1>2 DEF Move, MovedTo
<1>4. /\ handle' \in [Handle -> AddrOrNull]
      /\ handle'[w] = Null /\ \A u \in Handle \ {w} : handle'[u] = h[u]
  BY <1>1, <1>3
<1>5. ASSUME NEW a \in Addr
      PROVE  HandlesAt(handle', a) + Same(handle[v], a) + leaked'[a] = HandlesAt(handle, a) + leaked[a]
  <2>1. HandlesAt(h, a) + Same(handle[v], a) = HandlesAt(handle, a) + Same(handle[w], a)
    BY <1>1, <1>3, HandleSet
  <2>2. HandlesAt(handle', a) + Same(handle[w], a) = HandlesAt(h, a) + Same(Null, a)
    <3>1. HandlesAt(handle', a) + Same(h[w], a) = HandlesAt(h, a) + Same(handle'[w], a)
      BY <1>4, HandleSet
    <3> QED
      BY <1>3, <1>4, <3>1, Zenon
  <2>3. Same(Null, a) = 0
    BY ExpressionsAssumption DEF Same
  <2>4. /\ HandlesAt(handle, a) \in Nat /\ HandlesAt(handle', a) \in Nat /\ HandlesAt(h, a) \in Nat
        /\ Same(handle[v], a) \in Nat /\ Same(handle[w], a) \in Nat
        /\ leaked[a] \in Nat /\ leaked'[a] = leaked[a]
    BY <1>1, HandlesType DEF Same, Move
  <2> QED
    BY <2>1, <2>2, <2>3, <2>4
<1>6. /\ Idle /\ leaked' \in [Addr -> Nat] /\ UNCHANGED <<heap, consing, store, assertions>>
      /\ handle[v] \in AddrOrNull /\ todo' = Dec(handle[v])
  BY <1>1 DEF Move
<1> QED
  BY <1>4, <1>5, <1>6, HandlesOnly

LEMMA MemoryDrop ==
  ASSUME Memory, NEW v \in Handle, Drop(v), UNCHANGED assertions
  PROVE  Memory'
<1>1. handle \in [Handle -> AddrOrNull] /\ leaked \in [Addr -> Nat] /\ Null \in AddrOrNull
  BY DEF Memory, PointersOK, AddrOrNull
<1>2. ASSUME NEW a \in Addr
      PROVE  HandlesAt(handle', a) + Same(handle[v], a) + leaked'[a] = HandlesAt(handle, a) + leaked[a]
  <2>1. HandlesAt(handle', a) + Same(handle[v], a) = HandlesAt(handle, a) + Same(Null, a)
    <3>1. /\ handle' \in [Handle -> AddrOrNull] /\ handle'[v] = Null
          /\ \A u \in Handle \ {v} : handle'[u] = handle[u]
      BY <1>1 DEF Drop
    <3> QED
      BY <1>1, <3>1, HandleSet
  <2>2. Same(Null, a) = 0
    BY ExpressionsAssumption DEF Same
  <2>3. /\ HandlesAt(handle, a) \in Nat /\ HandlesAt(handle', a) \in Nat
        /\ Same(handle[v], a) \in Nat /\ leaked[a] \in Nat /\ leaked'[a] = leaked[a]
    BY <1>1, HandlesType DEF Same, Drop
  <2> QED
    BY <2>1, <2>2, <2>3
<1>3. /\ Idle /\ leaked' \in [Addr -> Nat] /\ UNCHANGED <<heap, consing, store, assertions>>
      /\ handle[v] \in AddrOrNull /\ todo' = Dec(handle[v]) /\ handle' \in [Handle -> AddrOrNull]
  BY <1>1 DEF Drop
<1> QED
  BY <1>2, <1>3, HandlesOnly

LEMMA MemoryResetHandle ==
  ASSUME Memory, NEW v \in Handle, ResetHandle(v), UNCHANGED assertions
  PROVE  Memory'
<1>1. handle \in [Handle -> AddrOrNull] /\ leaked \in [Addr -> Nat] /\ Null \in AddrOrNull
  BY DEF Memory, PointersOK, AddrOrNull
<1>2. handle[v] \in Addr /\ leaked' = [leaked EXCEPT ![handle[v]] = @ + 1]
  BY HandleType DEF ResetHandle
<1>3. leaked' \in [Addr -> Nat]
  BY <1>1, <1>2
<1>4. ASSUME NEW a \in Addr
      PROVE  HandlesAt(handle', a) + Same(Null, a) + leaked'[a] = HandlesAt(handle, a) + leaked[a]
  <2>1. HandlesAt(handle', a) + Same(handle[v], a) = HandlesAt(handle, a) + Same(Null, a)
    <3>1. /\ handle' \in [Handle -> AddrOrNull] /\ handle'[v] = Null
          /\ \A u \in Handle \ {v} : handle'[u] = handle[u]
      BY <1>1 DEF ResetHandle
    <3> QED
      BY <1>1, <3>1, HandleSet
  <2>2. Same(Null, a) = 0
    BY ExpressionsAssumption DEF Same
  <2>3. leaked'[a] = leaked[a] + Same(handle[v], a)
    BY <1>1, <1>2 DEF Same
  <2>4. /\ HandlesAt(handle, a) \in Nat /\ HandlesAt(handle', a) \in Nat
        /\ Same(handle[v], a) \in Nat /\ leaked[a] \in Nat
    BY <1>1, HandlesType DEF Same
  <2> QED
    BY <2>1, <2>2, <2>3, <2>4
<1>5. /\ Idle /\ UNCHANGED <<heap, consing, store, assertions>>
      /\ todo' = Dec(Null) /\ handle' \in [Handle -> AddrOrNull]
  BY <1>1 DEF ResetHandle, Dec, Idle
<1> QED
  BY <1>1, <1>3, <1>4, <1>5, HandlesOnly

-----------------------------------------------------------------------------
(* Expressions made and deleted.                                           *)

(* What a new expression has as operands, the client's variables point to. *)
Operand == {a \in Addr : heap[a].refs >= 1}

LEMMA SameHandles ==
  ASSUME NEW y \in AddrOrNull, NEW a \in Addr
  PROVE  Same(y, a) \in {0, 1} /\ (Same(y, a) = 1 <=> y = a)
BY DEF Same

First(S, u, y, s) == s \in Seq(S) /\ y \in S /\ u = <<y>> \o s

LEMMA OccursFirst ==
  ASSUME NEW S, NEW u, NEW y, NEW s, First(S, u, y, s), NEW x
  PROVE  Occurrences(u, x) = Same(y, x) + Occurrences(s, x)
<1>1. PICK t : t = <<y>>
  OBVIOUS
<1>2. t \in Seq(S) /\ s \in Seq(S) /\ u = t \o s
  BY <1>1 DEF First
<1>3. Parts(S, u, t, s)
  BY <1>2 DEF Parts
<1>4. Occurrences(u, x) = Occurrences(t, x) + Occurrences(s, x)
  BY <1>3, OccursInParts
<1>5. Occurrences(t, x) = Same(y, x)
  BY <1>1, OccursOnce
<1> QED
  BY <1>4, <1>5, Zenon

(* Two heaps that differ at one address *)
Grown(h, g, b) ==
  /\ \A c \in Addr \ {b} : g[c].args = h[c].args
  /\ h[b].args = << >>
  /\ HasOperands(g, b)

LEMMA OperandsMore ==
  ASSUME NEW h, NEW g, NEW b \in Addr, Grown(h, g, b), NEW D, b \notin D, NEW a
  PROVE  Cardinality(OperandsIn(g, D, a))
           = Cardinality(OperandsIn(h, D, a)) + Occurrences(g[b].args, a)
<1>0. /\ \A c \in Addr \ {b} : g[c].args = h[c].args
      /\ h[b].args = << >> /\ HasOperands(g, b) /\ HasOperands(h, b)
  BY DEF Grown, HasOperands
<1>1. PICK E : E = D \union {b}
  OBVIOUS
<1>a. Without(D, b, E)
  BY <1>1 DEF Without
<1>2. Cardinality(OperandsIn(g, D, a))
        = Cardinality(OperandsIn(g, E, a)) + Occurrences(g[b].args, a)
  BY <1>0, <1>a, OperandsApart
<1>3. Cardinality(OperandsIn(h, D, a))
        = Cardinality(OperandsIn(h, E, a)) + Occurrences(h[b].args, a)
  BY <1>0, <1>a, OperandsApart
<1>4. Occurrences(h[b].args, a) = 0
  BY <1>0, OccursNowhere
<1>5. Cardinality(OperandsIn(g, E, a)) = Cardinality(OperandsIn(h, E, a))
  <2>1. OperandsIn(g, E, a) = OperandsIn(h, E, a)
    BY <1>0, <1>1 DEF OperandsIn
  <2> QED
    BY <2>1, Zenon
<1>6. Cardinality(OperandsIn(h, E, a)) \in Nat
  BY OperandsType
<1> QED
  BY <1>2, <1>3, <1>4, <1>5, <1>6

Made(v, b, shape) ==
  /\ heap' = Inc([heap EXCEPT ![b] = Unreferenced(shape)], <<b>> \o shape.args)
  /\ handle' = [handle EXCEPT ![v] = b]
  /\ store' = IF consing THEN store \union {b} ELSE store
  /\ todo' = Dec(handle[v])
  /\ UNCHANGED <<consing, leaked, assertions>>

IsShape(shape) ==
  /\ shape \in [kind : Kinds \ {"none"}, name : Symbol \union {Null}, args : Seq(Operand)]
  /\ Len(shape.args) <= 2
  /\ shape.kind = "symbol" => shape.name \in Symbol

IsNew(shape) ==
  /\ IsShape(shape)
  /\ consing => \A a \in store : ShapeAt(a) # shape

(* An expression is made at a free address. *)
LEMMA MadeNew ==
  ASSUME Memory, Idle, NEW v \in Handle, NEW b \in Addr, IsFree(b),
         NEW shape, IsNew(shape), Made(v, b, shape)
  PROVE  Memory'
<1>1. HeapOK /\ PointersOK /\ Counts /\ OnItsWayOut /\ StoreOK
  BY DEF Memory
<1>0. /\ shape \in [kind : Kinds \ {"none"}, name : Symbol \union {Null}, args : Seq(Operand)]
      /\ Len(shape.args) <= 2
      /\ shape.kind = "symbol" => shape.name \in Symbol
      /\ consing => \A a \in store : ShapeAt(a) # shape
  BY DEF IsNew, IsShape
<1>2. shape.args \in Seq(Addr) /\ <<b>> \o shape.args \in Seq(Addr) /\ <<b>> \in Seq(Addr)
  BY <1>0 DEF Operand
<1>3. \A a \in Addr : /\ Occurrences(shape.args, a) \in Nat
                      /\ Occurrences(<<b>> \o shape.args, a) = Same(b, a) + Occurrences(shape.args, a)
                      /\ Occurrences(shape.args, a) >= 1 => heap[a].refs >= 1
  <2> SUFFICES ASSUME NEW a \in Addr
               PROVE  /\ Occurrences(shape.args, a) \in Nat
                      /\ Occurrences(<<b>> \o shape.args, a) = Same(b, a) + Occurrences(shape.args, a)
                      /\ Occurrences(shape.args, a) >= 1 => heap[a].refs >= 1
    OBVIOUS
  <2>1. Occurrences(shape.args, a) \in Nat
    BY <1>2, Indices
  <2>2. Occurrences(<<b>> \o shape.args, a) = Same(b, a) + Occurrences(shape.args, a)
    <3>1. PICK u : u = <<b>> \o shape.args
      OBVIOUS
    <3>2. First(Addr, u, b, shape.args)
      BY <1>2, <3>1 DEF First
    <3>3. Occurrences(u, a) = Same(b, a) + Occurrences(shape.args, a)
      BY <3>2, OccursFirst
    <3> QED
      BY <3>1, <3>3, Zenon
  <2>3. ASSUME Occurrences(shape.args, a) >= 1
        PROVE  heap[a].refs >= 1
    <3>1. \E i \in DOMAIN shape.args : shape.args[i] = a
      BY <1>2, <2>1, <2>3, OccursIn
    <3> QED
      BY <1>0, <3>1 DEF Operand
  <2> QED
    BY <2>1, <2>2, <2>3
<1>4. /\ heap[b] = NoExpr /\ heap[b].refs = 0 /\ heap[b].args = << >> /\ b \notin store
      /\ \A i \in DOMAIN shape.args : shape.args[i] # b
  BY <1>0, <1>1 DEF HeapOK, StoreOK, NoExpr, Unreferenced, Shape, Operand
<1>5. \A a \in Addr \ {b} :
        /\ heap'[a] \in Expr
        /\ heap'[a].kind = heap[a].kind /\ heap'[a].name = heap[a].name
        /\ heap'[a].args = heap[a].args
        /\ heap'[a].refs = heap[a].refs + Same(b, a) + Occurrences(shape.args, a)
  <2> SUFFICES ASSUME NEW a \in Addr, a # b
               PROVE  /\ heap'[a] \in Expr
                      /\ heap'[a].kind = heap[a].kind /\ heap'[a].name = heap[a].name
                      /\ heap'[a].args = heap[a].args
                      /\ heap'[a].refs = heap[a].refs + Same(b, a) + Occurrences(shape.args, a)
    OBVIOUS
  <2>1. PICK n \in Nat : n = Occurrences(<<b>> \o shape.args, a)
    BY <1>2, Indices
  <2>2. heap'[a] = [[heap EXCEPT ![b] = Unreferenced(shape)][a] EXCEPT !.refs = @ + n]
    BY <2>1 DEF Inc, Made
  <2>3. [heap EXCEPT ![b] = Unreferenced(shape)][a] = heap[a]
    BY <1>1 DEF HeapOK
  <2>4. heap[a] \in Expr /\ heap[a].refs \in Int
    BY <1>1, ExprType
  <2>5. heap[a].refs + n \in Int /\ n = Same(b, a) + Occurrences(shape.args, a)
    BY <1>3, <2>1, <2>4
  <2>6. Same(b, a) = 0
    BY DEF Same
  <2> QED
    BY <1>3, <2>1, <2>2, <2>3, <2>4, <2>5, <2>6 DEF Expr
<1>6. /\ heap'[b] \in Expr
      /\ heap'[b].kind = shape.kind /\ heap'[b].name = shape.name /\ heap'[b].args = shape.args
      /\ heap'[b].refs = heap[b].refs + Same(b, b) + Occurrences(shape.args, b)
  <2>1. PICK n \in Nat : n = Occurrences(<<b>> \o shape.args, b)
    BY <1>2, Indices
  <2>2. heap'[b] = [[heap EXCEPT ![b] = Unreferenced(shape)][b] EXCEPT !.refs = @ + n]
    BY <2>1 DEF Inc, Made
  <2>3. [heap EXCEPT ![b] = Unreferenced(shape)][b] = Unreferenced(shape)
    BY <1>1 DEF HeapOK
  <2>4. n = Same(b, b) + Occurrences(shape.args, b)
    BY <1>3, <2>1
  <2>5. shape.args \in BoundedSeq(Addr, 2)
    BY <1>0, <1>2, BoundedSeqs
  <2>6. /\ heap'[b].kind = shape.kind /\ heap'[b].name = shape.name
        /\ heap'[b].args = shape.args /\ heap'[b].refs = n
        /\ heap'[b] = [kind |-> shape.kind, name |-> shape.name, args |-> shape.args, refs |-> n]
    BY <2>1, <2>2, <2>3 DEF Unreferenced
  <2>7. shape.kind \in Kinds /\ shape.name \in Symbol \union {Null} /\ n \in Int
    BY <1>0, <2>1
  <2>8. heap'[b] \in Expr
    BY <2>5, <2>6, <2>7 DEF Expr
  <2> QED
    BY <1>3, <1>4, <2>1, <2>4, <2>6, <2>8 DEF Same
<1>7. PointersOK'
  <2>1. handle' \in [Handle -> AddrOrNull] /\ handle[v] \in AddrOrNull
    BY <1>1 DEF PointersOK, AddrOrNull, Made
  <2> QED
    BY <1>1, <2>1, DecNext DEF PointersOK, Made
<1>8. Deleting = {} /\ Deleting' = {}
  <2>1. handle[v] \in AddrOrNull
    BY <1>1 DEF PointersOK
  <2> QED
    BY <2>1, IdleNow, DecNext DEF Made
<1>9. \A a \in Addr : heap'[a].refs = Pointers(a)'
  <2> SUFFICES ASSUME NEW a \in Addr
               PROVE  heap'[a].refs = Pointers(a)'
    OBVIOUS
  <2>1. Cardinality(OperandsIn(heap', {}, a))
          = Cardinality(OperandsIn(heap, {}, a)) + Occurrences(shape.args, a)
    <3>1. PICK D : D = {}
      OBVIOUS
    <3>2. PICK g : g = heap'
      OBVIOUS
    <3>3. Grown(heap, g, b) /\ g[b].args = shape.args /\ b \notin D
      BY <1>0, <1>2, <1>4, <1>5, <1>6, <3>1, <3>2 DEF Grown, HasOperands
    <3>4. Cardinality(OperandsIn(g, D, a))
            = Cardinality(OperandsIn(heap, D, a)) + Occurrences(g[b].args, a)
      BY <3>3, OperandsMore
    <3> QED
      BY <3>1, <3>2, <3>3, <3>4, Zenon
  <2>2. /\ OperandsIn(heap, Deleting, a)' = OperandsIn(heap', {}, a)
        /\ OperandsIn(heap, Deleting, a) = OperandsIn(heap, {}, a)
    BY <1>8 DEF OperandsIn
  <2>3. HandlesAt(handle', a) + Same(handle[v], a) = HandlesAt(handle, a) + Same(b, a)
    <3>1. PICK g \in [Handle -> AddrOrNull] : g = handle'
      BY <1>7 DEF PointersOK
    <3>2. /\ handle \in [Handle -> AddrOrNull]
          /\ g[v] = b /\ \A u \in Handle \ {v} : g[u] = handle[u]
      BY <1>1, <3>1 DEF PointersOK, Made
    <3>3. HandlesAt(g, a) + Same(handle[v], a) = HandlesAt(handle, a) + Same(g[v], a)
      BY <3>2, HandleSet
    <3> QED
      BY <3>1, <3>2, <3>3, Zenon
  <2>4. HandlesAt(handle, a)' = HandlesAt(handle', a)
    BY DEF HandlesAt
  <2>5. /\ Occurrences(todo, Step("dec", a))' = Same(handle[v], a)
        /\ Occurrences(todo, Step("dec", a)) = 0
        /\ Occurrences(assertions, a)' = Occurrences(assertions, a)
    <3>1. handle[v] \in AddrOrNull
      BY <1>1 DEF PointersOK
    <3> QED
      BY <3>1, IdleNow, DecNext DEF Made
  <2>6. heap'[a].refs = heap[a].refs + Same(b, a) + Occurrences(shape.args, a)
    BY <1>5, <1>6
  <2>7. heap[a].refs = Pointers(a) /\ Same(b, a) \in Nat /\ Same(handle[v], a) \in Nat
    BY <1>1 DEF Counts, Same
  <2>8. PICK m \in Nat, n \in Nat :
          m = Cardinality(OperandsIn(heap, Deleting, a)) /\ n = Occurrences(shape.args, a)
    BY <1>3, OperandsType
  <2>9. Cardinality(OperandsIn(heap, Deleting, a))' = m + n
    BY <2>1, <2>2, <2>8, Zenon
  <2>10. /\ Pointers(a)' = HandlesAt(handle', a) + (m + n)
                            + Occurrences(assertions, a) + Same(handle[v], a) + leaked'[a]
         /\ HandlesAt(handle', a) \in Nat
    <3>1. Pointers(a)' = HandlesAt(handle, a)' + Cardinality(OperandsIn(heap, Deleting, a))'
                            + Occurrences(assertions, a)' + Occurrences(todo, Step("dec", a))'
                            + leaked'[a]
      BY <1>7, PointersWillBe
    <3> QED
      BY <2>4, <2>5, <2>9, <3>1, HandlesType
  <2>11. /\ Pointers(a) = HandlesAt(handle, a) + m + Occurrences(assertions, a) + 0 + leaked[a]
         /\ HandlesAt(handle, a) \in Nat
         /\ Occurrences(assertions, a) \in Nat /\ leaked[a] \in Nat /\ leaked'[a] = leaked[a]
    BY <1>1, <2>5, <2>8, PointersAre DEF Made
  <2>12. m \in Nat /\ n \in Nat /\ heap'[a].refs = heap[a].refs + Same(b, a) + n
    BY <2>6, <2>8, Zenon
  <2> QED
    BY <2>3, <2>7, <2>10, <2>11, <2>12
<1>10. \A a \in Addr \ {b} : /\ heap'[a].refs = 0 <=> heap[a].refs = 0
                             /\ heap'[a].refs > 0 <=> heap[a].refs > 0
  <2> SUFFICES ASSUME NEW a \in Addr, a # b
               PROVE  /\ heap'[a].refs = 0 <=> heap[a].refs = 0
                      /\ heap'[a].refs > 0 <=> heap[a].refs > 0
    OBVIOUS
  <2>1. heap[a].refs \in Nat /\ Same(b, a) = 0
    BY Live DEF Same
  <2>2. heap'[a].refs = heap[a].refs + Same(b, a) + Occurrences(shape.args, a)
    BY <1>5
  <2>3. Occurrences(shape.args, a) \in Nat /\ (Occurrences(shape.args, a) >= 1 => heap[a].refs >= 1)
    BY <1>3
  <2> QED
    BY <2>1, <2>2, <2>3
<1>11. heap'[b].refs > 0 /\ heap'[b].refs # 0
  <2>1. Same(b, b) = 1
    BY DEF Same
  <2> QED
    BY <1>3, <1>4, <1>6, <2>1
<1>12. HeapOK'
  <2>1. heap' \in [Addr -> Expr]
    <3>1. heap' = [a \in Addr |-> heap'[a]]
      BY DEF Inc, Made
    <3> QED
      BY <1>5, <1>6, <3>1
  <2>2. ~IsFree(b)' /\ (heap'[b].kind = "symbol" => heap'[b].name \in Symbol)
    BY <1>0, <1>6 DEF IsFree
  <2>3. ASSUME NEW a \in Addr \ {b}
        PROVE  /\ heap'[a].kind = "symbol" => heap'[a].name \in Symbol
               /\ IsFree(a)' => heap'[a] = NoExpr
    <3>1. IsFree(a)' => heap[a] = NoExpr
      BY <1>1, <1>5, <2>3 DEF HeapOK, IsFree
    <3>2. IsFree(a)' => heap[a].refs = 0
      BY <3>1 DEF NoExpr, Unreferenced
    <3>3. IsFree(a)' => heap'[a].refs = 0
      BY <1>10, <2>3, <3>2
    <3>4. /\ heap'[a] \in Expr
          /\ heap'[a].kind = heap[a].kind /\ heap'[a].name = heap[a].name
          /\ heap'[a].args = heap[a].args
      BY <1>5, <2>3
    <3>5. heap[a].kind = "symbol" => heap[a].name \in Symbol
      BY <1>1, <2>3 DEF HeapOK
    <3> QED
      BY <3>1, <3>3, <3>4, <3>5 DEF Expr, NoExpr, Unreferenced
  <2> QED
    BY <2>1, <2>2, <2>3 DEF HeapOK
<1>13. OnItsWayOut'
  BY <1>1, <1>5, <1>8, <1>10, <1>11 DEF OnItsWayOut, IsFree
<1>14. StoreOK'
  <2>1. \A a \in Addr \ {b} : ShapeAt(a)' = ShapeAt(a)
    BY <1>5 DEF ShapeAt, Shape
  <2>2. ShapeAt(b)' = shape
    BY <1>0, <1>6 DEF ShapeAt, Shape
  <2>3. CASE consing
    <3>1. \A a, c \in store' : ShapeAt(a)' = ShapeAt(c)' => a = c
      BY <1>0, <1>1, <1>4, <2>1, <2>2, <2>3 DEF StoreOK, Made
    <3>2. store' \subseteq Addr /\ \A a \in store' : consing' /\ heap'[a].refs > 0
      BY <1>1, <1>10, <1>11, <2>3 DEF StoreOK, Made
    <3>3. \A a \in Addr : heap'[a].refs > 0 => a \in store'
      BY <1>1, <1>10, <2>3 DEF StoreOK, Made
    <3> QED
      BY <3>1, <3>2, <3>3 DEF StoreOK, Made
  <2>4. CASE ~consing
    BY <1>1, <2>4 DEF StoreOK, Made
  <2> QED
    BY <2>3, <2>4
<1>15. Counts'
  BY <1>9 DEF Counts
<1> QED
  BY <1>7, <1>12, <1>13, <1>14, <1>15 DEF Memory

LEMMA MemoryMake ==
  ASSUME Memory, NEW v \in Handle, NEW shape, IsShape(shape),
         make_shared_expr(v, shape), UNCHANGED assertions
  PROVE  Memory'
<1>1. CASE consing /\ Interned(shape) # {}
  <2>1. PICK a \in Interned(shape) :
          /\ heap' = Inc(heap, <<a>>)
          /\ handle' = [handle EXCEPT ![v] = a]
          /\ UNCHANGED store
    BY <1>1 DEF make_shared_expr
  <2>2. a \in Addr /\ heap[a].refs >= 1
    <3>1. a \in Addr /\ heap[a].refs > 0
      BY DEF Interned, Memory, StoreOK
    <3> QED
      BY <3>1, Live
  <2>3. Idle /\ todo' = Dec(handle[v]) /\ UNCHANGED <<consing, store, leaked, assertions>>
    BY <2>1 DEF make_shared_expr
  <2> QED
    BY <2>1, <2>2, <2>3, PointsTo DEF AddrOrNull
<1>2. CASE ~(consing /\ Interned(shape) # {})
  <2>1. PICK b \in {c \in Addr : IsFree(c)} :
          /\ heap' = Inc([heap EXCEPT ![b] = Unreferenced(shape)], <<b>> \o shape.args)
          /\ handle' = [handle EXCEPT ![v] = b]
          /\ store' = IF consing THEN store \union {b} ELSE store
    BY <1>2 DEF make_shared_expr
  <2>2. IsNew(shape)
    BY <1>2 DEF IsNew, Interned
  <2>3. Idle /\ Made(v, b, shape)
    BY <2>1 DEF make_shared_expr, Made
  <2> QED
    BY <2>1, <2>2, <2>3, MadeNew
<1> QED
  BY <1>1, <1>2

LEMMA MemoryExpress ==
  ASSUME Memory, NEW connectives, connectives \subseteq {"land", "lor"},
         ExprNext(connectives), UNCHANGED assertions
  PROVE  Memory'
<1>1. \A u \in Handle : handle[u] # Null => handle[u] \in Operand
  BY HandleType DEF Operand
<1>2. ASSUME NEW v \in Handle, NEW w \in Handle, NewNegation(v, w)
      PROVE  Memory'
  <2>1. PICK shape : shape = Shape("lnot", Null, <<handle[w]>>)
    OBVIOUS
  <2>2. IsShape(shape)
    BY <1>1, <1>2, <2>1 DEF NewNegation, IsShape, Shape, Kinds
  <2> QED
    BY <1>2, <2>1, <2>2, MemoryMake DEF NewNegation
<1>3. ASSUME NEW v \in Handle, NEW s \in Symbol, NewSymbol(v, s)
      PROVE  Memory'
  <2>1. PICK shape : shape = Shape("symbol", s, << >>)
    OBVIOUS
  <2>2. IsShape(shape)
    BY <2>1 DEF IsShape, Shape, Kinds
  <2> QED
    BY <1>3, <2>1, <2>2, MemoryMake DEF NewSymbol
<1>4. ASSUME NEW v \in Handle, NEW op \in connectives, NEW u \in Handle, NEW w \in Handle,
             NewBinary(v, op, u, w)
      PROVE  Memory'
  <2>1. PICK shape : shape = Shape(op, Null, <<handle[u], handle[w]>>)
    OBVIOUS
  <2>2. IsShape(shape)
    <3>1. op \in Kinds \ {"none"} /\ op # "symbol"
      BY DEF Kinds
    <3>2. handle[u] \in Operand /\ handle[w] \in Operand
      BY <1>1, <1>4 DEF NewBinary
    <3> QED
      BY <2>1, <3>1, <3>2 DEF IsShape, Shape
  <2> QED
    BY <1>4, <2>1, <2>2, MemoryMake DEF NewBinary
<1> QED
  BY <1>2, <1>3, <1>4, MemoryCopy, MemoryMove, MemoryDrop, MemoryResetHandle DEF ExprNext

-----------------------------------------------------------------------------
(* The destructors.                                                        *)

(* What is deleted later on *)
DeletingIn(seq) == {a \in Addr : \E i \in DOMAIN seq : seq[i] = Step("delete", a)}

LEMMA DeletingInParts ==
  ASSUME NEW S, NEW u, NEW s, NEW t, Parts(S, u, s, t)
  PROVE  DeletingIn(u) = DeletingIn(s) \union DeletingIn(t)
<1>1. /\ Len(s) \in Nat /\ Len(t) \in Nat
      /\ DOMAIN s = 1 .. Len(s) /\ DOMAIN t = 1 .. Len(t)
      /\ DOMAIN u = 1 .. Len(s) + Len(t)
      /\ \A i \in 1 .. Len(s) : u[i] = s[i]
      /\ \A i \in 1 .. Len(t) : u[Len(s) + i] = t[i]
  BY DEF Parts
<1>2. ASSUME NEW a \in DeletingIn(u)
      PROVE  a \in DeletingIn(s) \/ a \in DeletingIn(t)
  <2>1. PICK i \in DOMAIN u : u[i] = Step("delete", a)
    BY DEF DeletingIn
  <2>2. CASE i <= Len(s)
    BY <1>1, <2>1, <2>2 DEF DeletingIn
  <2>3. CASE i > Len(s)
    <3>1. i - Len(s) \in 1 .. Len(t) /\ Len(s) + (i - Len(s)) = i
      BY <1>1, <2>1, <2>3
    <3>2. t[i - Len(s)] = Step("delete", a)
      BY <1>1, <2>1, <3>1
    <3> QED
      BY <1>1, <3>1, <3>2 DEF DeletingIn
  <2> QED
    BY <1>1, <2>1, <2>2, <2>3
<1>3. ASSUME NEW a \in DeletingIn(s)
      PROVE  a \in DeletingIn(u)
  <2>1. PICK i \in DOMAIN s : s[i] = Step("delete", a)
    BY DEF DeletingIn
  <2>2. i \in DOMAIN u /\ u[i] = s[i]
    BY <1>1, <2>1
  <2> QED
    BY <2>1, <2>2 DEF DeletingIn
<1>4. ASSUME NEW a \in DeletingIn(t)
      PROVE  a \in DeletingIn(u)
  <2>1. PICK i \in DOMAIN t : t[i] = Step("delete", a)
    BY DEF DeletingIn
  <2>2. Len(s) + i \in DOMAIN u /\ u[Len(s) + i] = t[i]
    BY <1>1, <2>1
  <2> QED
    BY <2>1, <2>2 DEF DeletingIn
<1>5. DeletingIn(u) \subseteq DeletingIn(s) \union DeletingIn(t)
  BY <1>2
<1>6. DeletingIn(s) \subseteq DeletingIn(u) /\ DeletingIn(t) \subseteq DeletingIn(u)
  BY <1>3, <1>4
<1> QED
  BY <1>5, <1>6

LEMMA DeletingOnce ==
  ASSUME NEW x
  PROVE  /\ DeletingIn(<<x>>) = {a \in Addr : x = Step("delete", a)}
         /\ DeletingIn(<< >>) = {}
BY DEF DeletingIn

(* The first thing to do *)
LEMMA FirstToDo ==
  ASSUME PointersOK, todo # << >>
  PROVE  /\ Head(todo) \in Pending /\ Tail(todo) \in Seq(Pending)
         /\ \A x : Occurrences(todo, x) = Same(Head(todo), x) + Occurrences(Tail(todo), x)
         /\ \A x : Occurrences(Tail(todo), x) \in Nat
         /\ Deleting = {a \in Addr : Head(todo) = Step("delete", a)} \union DeletingIn(Tail(todo))
<1>1. /\ todo \in Seq(Pending) /\ Head(todo) \in Pending /\ Tail(todo) \in Seq(Pending)
      /\ todo = <<Head(todo)>> \o Tail(todo)
  BY DEF PointersOK
<1>2. PICK s, t, u : s = <<Head(todo)>> /\ t = Tail(todo) /\ u = todo
  OBVIOUS
<1>3. First(Pending, u, Head(todo), t) /\ Parts(Pending, u, s, t)
  BY <1>1, <1>2 DEF First, Parts
<1>4. \A x : Occurrences(u, x) = Same(Head(todo), x) + Occurrences(t, x)
  BY <1>3, OccursFirst
<1>5. DeletingIn(u) = DeletingIn(s) \union DeletingIn(t)
  BY <1>3, DeletingInParts
<1>6. DeletingIn(s) = {a \in Addr : Head(todo) = Step("delete", a)}
  BY <1>2, DeletingOnce
<1>7. Deleting = DeletingIn(u)
  BY <1>2 DEF Deleting, DeletingIn
<1>8. \A x : Occurrences(t, x) \in Nat
  BY <1>1, <1>2, Indices
<1> QED
  BY <1>1, <1>2, <1>4, <1>5, <1>6, <1>7, <1>8

LEMMA DestructionIs ==
  ASSUME HeapOK, NEW b \in Addr
  PROVE  /\ Destruction(b) \in Seq(Pending)
         /\ DeletingIn(Destruction(b)) = {b}
         /\ \A a \in Addr :
              Occurrences(Destruction(b), Step("dec", a)) = Occurrences(heap[b].args, a)
<1>1. PICK s \in Seq(Addr) : s = heap[b].args
  BY ExprType
<1>2. /\ Reverse(s) \in Seq(Addr) /\ DOMAIN Reverse(s) = DOMAIN s
      /\ \A i \in DOMAIN s : Reverse(s)[i] \in Addr
  BY DEF Reverse
<1>3. PICK r : r = [i \in DOMAIN s |-> Step("dec", Reverse(s)[i])]
  OBVIOUS
<1>4. /\ r \in Seq(Pending) /\ DOMAIN r = DOMAIN s
      /\ \A i \in DOMAIN s : r[i] = Step("dec", Reverse(s)[i])
  BY <1>2, <1>3 DEF Step, Pending
<1>5. PICK t : t = <<Step("delete", b)>>
  OBVIOUS
<1>6. t \in Seq(Pending) /\ Step("delete", b) \in Pending
  BY <1>5 DEF Step, Pending
<1>7. PICK u : u = Destruction(b)
  OBVIOUS
<1>8. Parts(Pending, u, r, t) /\ u \in Seq(Pending)
  BY <1>1, <1>3, <1>4, <1>5, <1>6, <1>7 DEF Parts, Destruction
<1>9. ASSUME NEW a \in Addr
      PROVE  Occurrences(u, Step("dec", a)) = Occurrences(s, a)
  <2>1. Occurrences(u, Step("dec", a))
          = Occurrences(r, Step("dec", a)) + Occurrences(t, Step("dec", a))
    BY <1>8, OccursInParts
  <2>2. Occurrences(t, Step("dec", a)) = 0
    <3>1. Occurrences(t, Step("dec", a)) = Same(Step("delete", b), Step("dec", a))
      BY <1>5, OccursOnce
    <3>2. Step("delete", b) # Step("dec", a)
      BY DEF Step
    <3> QED
      BY <3>1, <3>2 DEF Same
  <2>3. Occurrences(r, Step("dec", a)) = Occurrences(Reverse(s), a)
    BY <1>2, <1>4, OccursReleased
  <2>4. Occurrences(Reverse(s), a) = Occurrences(s, a) /\ Occurrences(s, a) \in Nat
    BY OccursReversed, Indices
  <2> QED
    BY <2>1, <2>2, <2>3, <2>4
<1>10. DeletingIn(u) = {b}
  <2>1. DeletingIn(u) = DeletingIn(r) \union DeletingIn(t)
    BY <1>8, DeletingInParts
  <2>2. DeletingIn(r) = {}
    BY <1>4 DEF DeletingIn, Step
  <2>3. DeletingIn(t) = {b}
    BY <1>5, DeletingOnce DEF Step
  <2> QED
    BY <2>1, <2>2, <2>3
<1> QED
  BY <1>1, <1>7, <1>8, <1>9, <1>10

LEMMA Decremented ==
  ASSUME Memory, dec
  PROVE  /\ It \in Addr /\ Head(todo) = Step("dec", It) /\ heap[It].refs >= 1
         /\ heap' \in [Addr -> Expr] /\ SameShapes
         /\ \A a \in Addr : heap'[a].refs = heap[a].refs - Same(It, a)
         /\ Tail(todo) \in Seq(Pending) /\ Deleting = DeletingIn(Tail(todo))
         /\ \A a \in Addr : Occurrences(todo, Step("dec", a))
                              = Same(It, a) + Occurrences(Tail(todo), Step("dec", a))
         /\ \A a \in Addr : Occurrences(Tail(todo), Step("dec", a)) \in Nat
<1>1. HeapOK /\ PointersOK /\ todo # << >> /\ Head(todo).what = "dec"
  BY DEF Memory, dec, Doing
<1>2. Head(todo) \in Pending /\ Tail(todo) \in Seq(Pending)
  BY <1>1, FirstToDo
<1>3. It \in Addr /\ Head(todo) = Step("dec", It)
  BY <1>1, <1>2 DEF It, Pending, Step
<1>4. heap[It].refs >= 1
  <2>1. todo \in Seq(Pending)
    BY <1>1 DEF PointersOK
  <2>2. 1 \in DOMAIN todo /\ todo[1] = Head(todo)
    BY <1>1, <2>1
  <2> QED
    BY <1>3, <2>2, Live
<1>5. ASSUME NEW a \in Addr
      PROVE  /\ heap'[a] \in Expr /\ ShapeAt(a)' = ShapeAt(a)
             /\ heap'[a].refs = heap[a].refs - Same(It, a)
  <2>1. heap[a] \in Expr /\ heap[a].refs \in Int
    BY <1>1, ExprType
  <2>2. CASE a = It
    <3>1. heap'[a] = [heap[a] EXCEPT !.refs = @ - 1]
      BY <1>1, <1>3, <2>2 DEF dec, HeapOK
    <3>2. heap[a].refs - 1 \in Int /\ Same(It, a) = 1
      BY <2>1, <2>2 DEF Same
    <3> QED
      BY <2>1, <3>1, <3>2 DEF Expr, ShapeAt, Shape
  <2>3. CASE a # It
    <3>1. heap'[a] = heap[a]
      BY <1>1, <1>3, <2>3 DEF dec, HeapOK
    <3>2. Same(It, a) = 0
      BY <2>3 DEF Same
    <3> QED
      BY <2>1, <3>1, <3>2 DEF ShapeAt
  <2> QED
    BY <2>2, <2>3
<1>6. heap' \in [Addr -> Expr]
  <2>1. heap' = [a \in Addr |-> heap'[a]]
    BY <1>1 DEF dec, HeapOK
  <2> QED
    BY <1>5, <2>1
<1>7. Deleting = DeletingIn(Tail(todo))
  <2>1. {a \in Addr : Head(todo) = Step("delete", a)} = {}
    BY <1>3 DEF Step
  <2> QED
    BY <1>1, <2>1, FirstToDo
<1>8. ASSUME NEW a \in Addr
      PROVE  /\ Occurrences(todo, Step("dec", a))
                  = Same(It, a) + Occurrences(Tail(todo), Step("dec", a))
             /\ Occurrences(Tail(todo), Step("dec", a)) \in Nat
  <2>1. Same(Head(todo), Step("dec", a)) = Same(It, a)
    BY <1>3 DEF Same, Step
  <2> QED
    BY <1>1, <2>1, FirstToDo
<1> QED
  BY <1>2, <1>3, <1>4, <1>5, <1>6, <1>7, <1>8 DEF SameShapes

LEMMA MemoryDecMany ==
  ASSUME Memory, dec, heap[It].refs > 1, UNCHANGED assertions
  PROVE  Memory'
<1>1. /\ It \in Addr /\ heap[It].refs >= 1
      /\ heap' \in [Addr -> Expr] /\ SameShapes
      /\ \A a \in Addr : heap'[a].refs = heap[a].refs - Same(It, a)
      /\ Tail(todo) \in Seq(Pending) /\ Deleting = DeletingIn(Tail(todo))
  BY Decremented
<1>2. todo' = Tail(todo) /\ UNCHANGED <<store, handle, consing, leaked, assertions>>
  BY DEF dec
<1>3. PointersOK'
  BY <1>1, <1>2 DEF Memory, PointersOK
<1>4. Deleting' = Deleting
  BY <1>1, <1>2 DEF Deleting, DeletingIn
<1>5. ASSUME NEW a \in Addr
      PROVE  /\ heap'[a].refs > 0 <=> heap[a].refs > 0
             /\ heap'[a].refs = heap[a].refs + Difference(a)
  <2>1. heap[a].refs \in Nat /\ heap'[a].refs = heap[a].refs - Same(It, a)
    BY <1>1, Live
  <2>2. Same(It, a) \in {0, 1} /\ (Same(It, a) = 1 => heap[a].refs > 1)
    BY DEF Same
  <2>3. /\ Occurrences(todo, Step("dec", a))
             = Same(It, a) + Occurrences(Tail(todo), Step("dec", a))
        /\ Occurrences(Tail(todo), Step("dec", a)) \in Nat
        /\ Occurrences(todo, Step("dec", a))' = Occurrences(Tail(todo), Step("dec", a))
    BY <1>2, Decremented
  <2>4. /\ HandlesAt(handle, a)' = HandlesAt(handle, a)
        /\ Occurrences(assertions, a)' = Occurrences(assertions, a)
        /\ leaked'[a] = leaked[a]
        /\ HandlesAt(handle, a) \in Nat /\ Occurrences(assertions, a) \in Nat /\ leaked[a] \in Nat
    BY <1>2, PointersAre DEF Memory, HandlesAt
  <2> QED
    BY <2>1, <2>2, <2>3, <2>4 DEF Difference
<1> QED
  BY <1>1, <1>2, <1>3, <1>4, <1>5, MemoryKept

(* The last pointer to an expression is given up, what the expression      *)
(* points to is to follow.                                                 *)
LEMMA MemoryDecLast ==
  ASSUME Memory, dec, ~(heap[It].refs > 1), UNCHANGED assertions
  PROVE  Memory'
<1>0. HeapOK /\ PointersOK /\ Counts /\ OnItsWayOut /\ StoreOK
  BY DEF Memory
<1>1. /\ It \in Addr /\ heap[It].refs >= 1
      /\ heap' \in [Addr -> Expr] /\ SameShapes
      /\ \A a \in Addr : heap'[a].refs = heap[a].refs - Same(It, a)
      /\ Tail(todo) \in Seq(Pending) /\ Deleting = DeletingIn(Tail(todo))
  BY Decremented
<1>2. PICK b \in Addr : b = It
  BY <1>1
<1>3. /\ \A a \in Addr : heap[a].refs \in Nat /\ heap'[a].refs = heap[a].refs - Same(b, a)
      /\ \A a \in Addr : /\ heap'[a].kind = heap[a].kind /\ heap'[a].name = heap[a].name
                         /\ heap'[a].args = heap[a].args
      /\ heap[b].refs = 1 /\ b \notin Deleting /\ ~IsFree(b)
  <2>1. \A a \in Addr : heap[a].refs \in Nat /\ heap'[a].refs = heap[a].refs - Same(b, a)
    BY <1>1, <1>2, Live
  <2>2. \A a \in Addr : /\ heap'[a].kind = heap[a].kind /\ heap'[a].name = heap[a].name
                         /\ heap'[a].args = heap[a].args
    BY <1>1 DEF SameShapes, ShapeAt, Shape
  <2>3. heap[b].refs >= 1 /\ ~(heap[b].refs > 1)
    BY <1>1, <1>2
  <2>4. b \notin Deleting /\ ~IsFree(b)
    BY <2>3, Live
  <2> QED
    BY <2>1, <2>2, <2>3, <2>4
<1>4. \A a \in Addr : heap'[a].refs = IF a = b THEN 0 ELSE heap[a].refs
  BY <1>3 DEF Same
<1>5. /\ todo' = Destruction(b) \o Tail(todo) /\ UNCHANGED <<handle, consing, leaked, assertions>>
      /\ store' = IF consing THEN DeletedFromStore(b) ELSE store
  BY <1>2 DEF dec
<1>6. PICK u, s, t : u = Destruction(b) \o Tail(todo) /\ s = Destruction(b) /\ t = Tail(todo)
  OBVIOUS
<1>7. Parts(Pending, u, s, t) /\ u \in Seq(Pending)
  BY <1>0, <1>1, <1>6, DestructionIs DEF Parts
<1>8. PointersOK'
  BY <1>0, <1>5, <1>6, <1>7 DEF PointersOK
<1>9. Deleting' = Deleting \union {b}
  <2>1. DeletingIn(u) = DeletingIn(s) \union DeletingIn(t)
    BY <1>7, DeletingInParts
  <2>2. DeletingIn(s) = {b} /\ DeletingIn(t) = Deleting
    BY <1>0, <1>1, <1>6, DestructionIs
  <2>3. Deleting' = DeletingIn(u)
    BY <1>5, <1>6 DEF Deleting, DeletingIn
  <2> QED
    BY <2>1, <2>2, <2>3
<1>10. ASSUME NEW a \in Addr
       PROVE  heap'[a].refs = Pointers(a)'
  <2>1. PICK o \in Nat : o = Occurrences(heap[b].args, a)
    BY <1>0, ExprType, Indices
  <2>2. Occurrences(todo, Step("dec", a))' = o + Occurrences(Tail(todo), Step("dec", a))
    <3>1. Occurrences(u, Step("dec", a))
            = Occurrences(s, Step("dec", a)) + Occurrences(t, Step("dec", a))
      BY <1>7, OccursInParts
    <3>2. Occurrences(s, Step("dec", a)) = o
      BY <1>0, <1>6, <2>1, DestructionIs
    <3> QED
      BY <1>5, <1>6, <3>1, <3>2
  <2>3. /\ Occurrences(todo, Step("dec", a))
             = Same(b, a) + Occurrences(Tail(todo), Step("dec", a))
        /\ Occurrences(Tail(todo), Step("dec", a)) \in Nat
        /\ Same(b, a) \in Nat
    BY <1>2, Decremented DEF Same
  <2>4. Cardinality(OperandsIn(heap, Deleting, a))
          = Cardinality(OperandsIn(heap, Deleting \union {b}, a)) + o
    <3>1. PICK D, E : D = Deleting /\ E = Deleting \union {b}
      OBVIOUS
    <3>2. Without(D, b, E) /\ HasOperands(heap, b)
      BY <1>0, <1>3, <3>1, ExprType DEF Without, HasOperands
    <3>3. Cardinality(OperandsIn(heap, D, a))
            = Cardinality(OperandsIn(heap, E, a)) + Occurrences(heap[b].args, a)
      BY <3>2, OperandsApart
    <3> QED
      BY <2>1, <3>1, <3>3
  <2>5. OperandsIn(heap, Deleting, a)' = OperandsIn(heap, Deleting \union {b}, a)
    BY <1>3, <1>9 DEF OperandsIn
  <2>6. PICK m \in Nat : m = Cardinality(OperandsIn(heap, Deleting \union {b}, a))
    BY OperandsType
  <2>7. Cardinality(OperandsIn(heap, Deleting, a)) = m + o
    BY <2>4, <2>6, Zenon
  <2>8. Cardinality(OperandsIn(heap, Deleting, a))' = m
    BY <2>5, <2>6, Zenon
  <2>9. /\ HandlesAt(handle, a)' = HandlesAt(handle, a)
        /\ Occurrences(assertions, a)' = Occurrences(assertions, a)
        /\ leaked'[a] = leaked[a]
    BY <1>5 DEF HandlesAt
  <2>10. /\ heap[a].refs = HandlesAt(handle, a) + (m + o) + Occurrences(assertions, a)
                             + (Same(b, a) + Occurrences(Tail(todo), Step("dec", a)))
                             + leaked[a]
         /\ HandlesAt(handle, a) \in Nat /\ Occurrences(assertions, a) \in Nat /\ leaked[a] \in Nat
    BY <1>0, <2>3, <2>7, PointersAre DEF Counts
  <2>11. Pointers(a)' = HandlesAt(handle, a) + m + Occurrences(assertions, a)
                          + (o + Occurrences(Tail(todo), Step("dec", a))) + leaked[a]
    BY <1>8, <2>2, <2>8, <2>9, PointersWillBe
  <2>12. heap'[a].refs = heap[a].refs - Same(b, a) /\ m \in Nat /\ o \in Nat
    BY <1>3
  <2> QED
    BY <2>3, <2>10, <2>11, <2>12
<1>11. Counts'
  BY <1>10 DEF Counts
<1>12. HeapOK'
  <2>1. ASSUME NEW a \in Addr
        PROVE  /\ heap'[a].kind = "symbol" => heap'[a].name \in Symbol
               /\ IsFree(a)' => heap'[a] = NoExpr
    <3>1. heap[a].kind = "symbol" => heap[a].name \in Symbol
      BY <1>0 DEF HeapOK
    <3>2. ASSUME IsFree(a)'
          PROVE  heap'[a] = NoExpr
      <4>1. IsFree(a) /\ heap[a] = NoExpr /\ a # b
        BY <1>0, <1>3, <3>2 DEF HeapOK, IsFree
      <4>2. heap'[a] \in Expr /\ heap'[a].refs = heap[a].refs
        BY <1>1, <1>4, <4>1
      <4> QED
        BY <1>3, <4>1, <4>2 DEF Expr, NoExpr, Unreferenced
    <3> QED
      BY <1>3, <3>1, <3>2
  <2> QED
    BY <1>1, <2>1 DEF HeapOK
<1>13. OnItsWayOut'
  BY <1>0, <1>3, <1>4, <1>9 DEF OnItsWayOut, IsFree
<1>14. StoreOK'
  <2>1. \A a \in Addr : ShapeAt(a)' = ShapeAt(a)
    BY <1>1 DEF SameShapes
  <2>2. CASE consing
    <3>1. b \in store /\ store' = store \ {a \in store : ShapeAt(a) = ShapeAt(b)}
      BY <1>0, <1>3, <1>5, <2>2 DEF StoreOK, DeletedFromStore
    <3>2. store' = store \ {b}
      BY <1>0, <3>1 DEF StoreOK
    <3>3. \A a \in store' : heap'[a].refs > 0
      BY <1>0, <1>4, <3>2 DEF StoreOK
    <3>4. \A a \in Addr : heap'[a].refs > 0 => a \in store'
      BY <1>0, <1>4, <2>2, <3>2 DEF StoreOK
    <3>5. \A a, c \in store' : ShapeAt(a)' = ShapeAt(c)' => a = c
      BY <1>0, <2>1, <3>2 DEF StoreOK
    <3> QED
      BY <1>0, <1>5, <2>2, <3>2, <3>3, <3>4, <3>5 DEF StoreOK
  <2>3. CASE ~consing
    BY <1>0, <1>5, <2>3 DEF StoreOK
  <2> QED
    BY <2>2, <2>3
<1> QED
  BY <1>8, <1>11, <1>12, <1>13, <1>14 DEF Memory

LEMMA MemoryDec ==
  ASSUME Memory, dec, UNCHANGED assertions
  PROVE  Memory'
BY MemoryDecMany, MemoryDecLast

LEMMA MemoryDelete ==
  ASSUME Memory, DeleteExpr, UNCHANGED assertions
  PROVE  Memory'
<1>0. HeapOK /\ PointersOK /\ Counts /\ OnItsWayOut /\ StoreOK
  BY DEF Memory
<1>1. /\ todo # << >> /\ Head(todo).what = "delete" /\ todo' = Tail(todo)
      /\ heap' = [heap EXCEPT ![It] = NoExpr]
      /\ UNCHANGED <<handle, consing, store, leaked, assertions>>
  BY DEF DeleteExpr, Doing
<1>2. Head(todo) \in Pending /\ Tail(todo) \in Seq(Pending)
  BY <1>0, <1>1, FirstToDo
<1>3. PICK b \in Addr : b = It /\ Head(todo) = Step("delete", b)
  BY <1>1, <1>2 DEF It, Pending, Step
<1>4. Deleting = {b} \union DeletingIn(Tail(todo)) /\ Deleting' = DeletingIn(Tail(todo))
  <2>1. {a \in Addr : Head(todo) = Step("delete", a)} = {b}
    BY <1>3 DEF Step
  <2>2. Deleting = {b} \union DeletingIn(Tail(todo))
    BY <1>0, <1>1, <2>1, FirstToDo
  <2> QED
    BY <1>1, <2>2 DEF Deleting, DeletingIn
<1>5. heap[b].refs = 0
  BY <1>0, <1>4 DEF OnItsWayOut
<1>6. heap'[b] = NoExpr /\ \A a \in Addr \ {b} : heap'[a] = heap[a]
  BY <1>0, <1>1, <1>3 DEF HeapOK
<1>7. NoExpr \in Expr /\ NoExpr.refs = 0 /\ NoExpr.args = << >> /\ NoExpr.kind = "none"
  <2>1. NoExpr = [kind |-> "none", name |-> Null, args |-> << >>, refs |-> 0]
    BY DEF NoExpr, Unreferenced, Shape
  <2>2. << >> \in BoundedSeq(Addr, 2)
    <3>1. PICK s : s = << >>
      OBVIOUS
    <3>2. s \in Seq(Addr) /\ Len(s) <= 2 /\ 2 \in Nat
      BY <3>1
    <3>3. s \in BoundedSeq(Addr, 2)
      BY <3>2, BoundedSeqs
    <3> QED
      BY <3>1, <3>3
  <2> QED
    BY <2>1, <2>2 DEF Expr, Kinds
<1>8. PointersOK'
  BY <1>0, <1>1, <1>2 DEF PointersOK
<1>9. HeapOK'
  <2>1. heap' \in [Addr -> Expr]
    BY <1>0, <1>1, <1>7 DEF HeapOK
  <2> QED
    BY <1>0, <1>6, <1>7, <2>1 DEF HeapOK, IsFree
<1>10. ASSUME NEW a \in Addr
       PROVE  heap'[a].refs = Pointers(a)'
  <2>1. OperandsIn(heap, Deleting, a)' = OperandsIn(heap, Deleting, a)
    <3>1. ASSUME NEW operand \in Addr \X {1, 2}
          PROVE  operand \in OperandsIn(heap', Deleting', a) <=> operand \in OperandsIn(heap, Deleting, a)
      <4>1. CASE operand[1] = b
        BY <1>4, <1>6, <1>7, <4>1 DEF OperandsIn
      <4>2. CASE operand[1] # b
        BY <1>4, <1>6, <4>2 DEF OperandsIn
      <4> QED
        BY <4>1, <4>2
    <3>2. /\ OperandsIn(heap', Deleting', a) \subseteq Addr \X {1, 2}
          /\ OperandsIn(heap, Deleting, a) \subseteq Addr \X {1, 2}
      BY DEF OperandsIn
    <3>3. OperandsIn(heap', Deleting', a) = OperandsIn(heap, Deleting, a)
      BY <3>1, <3>2
    <3> QED
      BY <3>3 DEF OperandsIn
  <2>2. Cardinality(OperandsIn(heap, Deleting, a))' = Cardinality(OperandsIn(heap, Deleting, a))
    BY <2>1
  <2>3. Occurrences(todo, Step("dec", a))' = Occurrences(todo, Step("dec", a))
    <3>1. Same(Head(todo), Step("dec", a)) = 0
      BY <1>3 DEF Same, Step
    <3>2. /\ Occurrences(todo, Step("dec", a))
               = Same(Head(todo), Step("dec", a)) + Occurrences(Tail(todo), Step("dec", a))
          /\ Occurrences(Tail(todo), Step("dec", a)) \in Nat
      BY <1>0, <1>1, FirstToDo
    <3> QED
      BY <1>1, <3>1, <3>2
  <2>4. /\ HandlesAt(handle, a)' = HandlesAt(handle, a)
        /\ Occurrences(assertions, a)' = Occurrences(assertions, a)
        /\ leaked'[a] = leaked[a]
    BY <1>1 DEF HandlesAt
  <2>5. Pointers(a)' = Pointers(a)
    BY <1>0, <1>8, <2>2, <2>3, <2>4, PointersAre, PointersWillBe
  <2>6. heap'[a].refs = heap[a].refs
    BY <1>5, <1>6, <1>7
  <2> QED
    BY <1>0, <2>5, <2>6 DEF Counts
<1>11. Counts'
  BY <1>10 DEF Counts
<1>12. OnItsWayOut'
  BY <1>0, <1>4, <1>6, <1>7 DEF OnItsWayOut, IsFree
<1>13. StoreOK'
  <2>1. b \notin store
    BY <1>0, <1>5 DEF StoreOK
  <2>2. \A a \in Addr \ {b} : ShapeAt(a)' = ShapeAt(a)
    BY <1>6 DEF ShapeAt
  <2>3. \A a, c \in store' : ShapeAt(a)' = ShapeAt(c)' => a = c
    BY <1>0, <1>1, <2>1, <2>2 DEF StoreOK
  <2>4. \A a \in Addr : heap'[a].refs > 0 => a # b /\ heap'[a] = heap[a]
    BY <1>6, <1>7
  <2> QED
    BY <1>0, <1>1, <1>6, <2>1, <2>3, <2>4 DEF StoreOK
<1> QED
  BY <1>8, <1>9, <1>11, <1>12, <1>13 DEF Memory

-----------------------------------------------------------------------------
(* The solver's calls.                                                     *)

(* Pointers pass between the assertions and what is left to do. *)
Balanced ==
  \A a \in Addr : Occurrences(assertions, a)' + Occurrences(todo, Step("dec", a))'
                   = Occurrences(assertions, a) + Occurrences(todo, Step("dec", a))

LEMMA Passed ==
  ASSUME Memory, UNCHANGED <<heap, handle, consing, store, leaked>>,
         assertions' \in Seq(Addr), todo' \in Seq(Pending), Deleting' = Deleting, Balanced
  PROVE  Memory'
<1>1. HeapOK /\ PointersOK
  BY DEF Memory
<1>2. heap' \in [Addr -> Expr] /\ SameShapes /\ PointersOK'
  BY <1>1 DEF HeapOK, PointersOK, SameShapes, ShapeAt
<1>3. ASSUME NEW a \in Addr
      PROVE  heap'[a].refs = heap[a].refs + Difference(a)
  <2>1. HandlesAt(handle, a)' = HandlesAt(handle, a) /\ leaked'[a] = leaked[a]
    BY DEF HandlesAt
  <2>2. /\ HandlesAt(handle, a) \in Nat /\ leaked[a] \in Nat
        /\ Occurrences(assertions, a) \in Nat /\ Occurrences(todo, Step("dec", a)) \in Nat
        /\ Occurrences(assertions, a)' \in Nat /\ Occurrences(todo, Step("dec", a))' \in Nat
    BY <1>1, <1>2, PointersAre, PointersWillBe
  <2>3. Occurrences(assertions, a)' + Occurrences(todo, Step("dec", a))'
             = Occurrences(assertions, a) + Occurrences(todo, Step("dec", a))
    BY DEF Balanced
  <2>4. heap'[a].refs = heap[a].refs /\ heap[a].refs \in Nat
    BY Live
  <2>5. PICK k \in Nat, l \in Nat, m \in Nat, n \in Nat, o \in Nat, p \in Nat :
          /\ k = HandlesAt(handle, a) /\ l = leaked[a]
          /\ m = Occurrences(assertions, a) /\ n = Occurrences(todo, Step("dec", a))
          /\ o = Occurrences(assertions, a)' /\ p = Occurrences(todo, Step("dec", a))'
    BY <2>2
  <2>6. Difference(a) = (k - k) + (o - m) + (p - n) + (l - l)
    BY <2>1, <2>5, Zenon DEF Difference
  <2>7. o + p = m + n
    BY <2>3, <2>5, Zenon
  <2>8. Difference(a) = 0
    BY <2>6, <2>7
  <2> QED
    BY <2>4, <2>8
<1>4. UNCHANGED <<consing, store>> /\ \A a \in Addr : heap'[a].refs > 0 <=> heap[a].refs > 0
  OBVIOUS
<1> QED
  BY <1>2, <1>3, <1>4, MemoryKept

LEMMA ReleasedIs ==
  ASSUME NEW ptrs \in Seq(Addr)
  PROVE  /\ Released(ptrs) \in Seq(Pending) /\ DeletingIn(Released(ptrs)) = {}
         /\ \A a \in Addr : Occurrences(Released(ptrs), Step("dec", a)) = Occurrences(ptrs, a)
<1>1. PICK r : r = Released(ptrs)
  OBVIOUS
<1>2. DOMAIN r = DOMAIN ptrs /\ \A i \in DOMAIN ptrs : r[i] = Step("dec", ptrs[i])
  BY <1>1 DEF Released
<1>3. r \in Seq(Pending)
  BY <1>1 DEF Released, Step, Pending
<1>4. DeletingIn(r) = {}
  BY <1>2 DEF DeletingIn, Step
<1>5. \A a \in Addr : Occurrences(r, Step("dec", a)) = Occurrences(ptrs, a)
  BY <1>2, OccursReleased
<1> QED
  BY <1>1, <1>3, <1>4, <1>5

(* What pop() and reset() leave to do *)
Left(ptrs, what, u) ==
  /\ ptrs \in Seq(Addr)
  /\ what \in {"pop", "reset"}
  /\ u = Released(ptrs) \o <<Step(what, Null)>>

LEMMA LeftToDo ==
  ASSUME NEW ptrs, NEW what, NEW u, Left(ptrs, what, u)
  PROVE  /\ u \in Seq(Pending) /\ DeletingIn(u) = {}
         /\ \A a \in Addr : Occurrences(u, Step("dec", a)) = Occurrences(ptrs, a)
<1>1. PICK r, t : r = Released(ptrs) /\ t = <<Step(what, Null)>>
  OBVIOUS
<1>2. /\ r \in Seq(Pending) /\ DeletingIn(r) = {}
      /\ \A a \in Addr : Occurrences(r, Step("dec", a)) = Occurrences(ptrs, a)
  BY <1>1, ReleasedIs DEF Left
<1>3. Step(what, Null) \in Pending
  BY DEF Left, Step, Pending
<1>4. Parts(Pending, u, r, t) /\ u \in Seq(Pending)
  BY <1>1, <1>2, <1>3 DEF Left, Parts
<1>5. DeletingIn(u) = {}
  <2>1. DeletingIn(u) = DeletingIn(r) \union DeletingIn(t)
    BY <1>4, DeletingInParts
  <2>2. DeletingIn(t) = {}
    BY <1>1, DeletingOnce DEF Left, Step
  <2> QED
    BY <1>2, <2>1, <2>2
<1>6. ASSUME NEW a \in Addr
      PROVE  Occurrences(u, Step("dec", a)) = Occurrences(ptrs, a)
  <2>1. Occurrences(u, Step("dec", a))
          = Occurrences(r, Step("dec", a)) + Occurrences(t, Step("dec", a))
    BY <1>4, OccursInParts
  <2>2. Occurrences(t, Step("dec", a)) = 0
    <3>1. Occurrences(t, Step("dec", a)) = Same(Step(what, Null), Step("dec", a))
      BY <1>1, OccursOnce
    <3>2. Step(what, Null) # Step("dec", a)
      BY DEF Left, Step
    <3> QED
      BY <3>1, <3>2 DEF Same
  <2>3. Occurrences(ptrs, a) \in Nat
    BY Indices DEF Left
  <2> QED
    BY <1>2, <2>1, <2>2, <2>3
<1> QED
  BY <1>4, <1>5, <1>6

(* __pop() and __reset() *)
LEMMA MemoryDone ==
  ASSUME Memory, NEW what \in {"pop", "reset"}, Doing(what), todo' = Tail(todo),
         UNCHANGED <<heap, handle, consing, store, leaked, assertions>>
  PROVE  Memory'
<1>1. PointersOK /\ todo # << >> /\ Head(todo).what = what
  BY DEF Memory, Doing
<1>2. Tail(todo) \in Seq(Pending) /\ assertions' \in Seq(Addr)
  BY <1>1, FirstToDo DEF PointersOK
<1>3. Deleting' = Deleting
  <2>1. {a \in Addr : Head(todo) = Step("delete", a)} = {}
    BY <1>1 DEF Step
  <2>2. Deleting = DeletingIn(Tail(todo))
    BY <1>1, <2>1, FirstToDo
  <2> QED
    BY <2>2 DEF Deleting, DeletingIn
<1>4. Balanced
  <2>1. ASSUME NEW a \in Addr
        PROVE  Occurrences(todo, Step("dec", a))' = Occurrences(todo, Step("dec", a))
    <3>1. Same(Head(todo), Step("dec", a)) = 0
      BY <1>1 DEF Same, Step
    <3>2. /\ Occurrences(todo, Step("dec", a))
               = Same(Head(todo), Step("dec", a)) + Occurrences(Tail(todo), Step("dec", a))
          /\ Occurrences(Tail(todo), Step("dec", a)) \in Nat
      BY <1>1, FirstToDo
    <3> QED
      BY <3>1, <3>2
  <2> QED
    BY <2>1 DEF Balanced
<1> QED
  BY <1>2, <1>3, <1>4, Passed

(* reset(), and the destructor but for its last step *)
LEMMA MemoryReset ==
  ASSUME Memory, Idle, assertions' = << >>,
         \/ todo' = Released(assertions)
         \/ todo' = Released(assertions) \o <<Step("reset", Null)>>,
         UNCHANGED <<heap, handle, consing, store, leaked>>
  PROVE  Memory'
<1>1. assertions \in Seq(Addr) /\ Deleting = {}
  BY IdleNow DEF Memory, PointersOK
<1>2. PICK u : u = todo'
  OBVIOUS
<1>3. /\ u \in Seq(Pending) /\ DeletingIn(u) = {}
      /\ \A a \in Addr : Occurrences(u, Step("dec", a)) = Occurrences(assertions, a)
  <2>1. CASE u = Released(assertions)
    BY <1>1, <2>1, ReleasedIs
  <2>2. CASE u = Released(assertions) \o <<Step("reset", Null)>>
    <3>1. Left(assertions, "reset", u)
      BY <1>1, <2>2 DEF Left
    <3> QED
      BY <3>1, LeftToDo
  <2> QED
    BY <1>2, <2>1, <2>2
<1>4. Deleting' = Deleting
  BY <1>1, <1>2, <1>3 DEF Deleting, DeletingIn
<1>5. Balanced
  <2>1. ASSUME NEW a \in Addr
        PROVE  /\ Occurrences(assertions, a)' = 0
               /\ Occurrences(todo, Step("dec", a))' = Occurrences(assertions, a)
               /\ Occurrences(todo, Step("dec", a)) = 0
               /\ Occurrences(assertions, a) \in Nat
    BY <1>1, <1>2, <1>3, OccursNowhere, IdleNow, Indices
  <2> QED
    BY <2>1 DEF Balanced
<1>6. assertions' \in Seq(Addr)
  OBVIOUS
<1> QED
  BY <1>2, <1>3, <1>4, <1>5, <1>6, Passed

(* pop() *)
LEMMA MemoryPop ==
  ASSUME Memory, Idle, NEW n \in 0 .. Len(assertions),
         assertions' = SubSeq(assertions, 1, n),
         todo' = Released(SubSeq(assertions, n + 1, Len(assertions))) \o <<Step("pop", Null)>>,
         UNCHANGED <<heap, handle, consing, store, leaked>>
  PROVE  Memory'
<1>1. assertions \in Seq(Addr) /\ Deleting = {}
  BY IdleNow DEF Memory, PointersOK
<1>2. PICK s, t, w, u : /\ s = SubSeq(assertions, 1, n)
                        /\ t = SubSeq(assertions, n + 1, Len(assertions))
                        /\ w = assertions
                        /\ u = Released(t) \o <<Step("pop", Null)>>
  OBVIOUS
<1>3. Parts(Addr, w, s, t)
  <2>1. s \in Seq(Addr) /\ t \in Seq(Addr)
    BY <1>1, <1>2
  <2>2. /\ Len(s) = n /\ Len(t) = Len(assertions) - n
        /\ \A i \in 1 .. Len(s) : s[i] = assertions[i]
        /\ \A i \in 1 .. Len(t) : t[i] = assertions[n + i]
    BY <1>1, <1>2
  <2>3. assertions = s \o t
    <3>1. /\ s \o t \in Seq(Addr) /\ Len(s \o t) = Len(assertions)
          /\ Len(assertions) \in Nat /\ n \in Nat /\ n <= Len(assertions)
      <4>1. s \o t \in Seq(Addr) /\ Len(s \o t) = Len(s) + Len(t)
        BY <2>1
      <4>2. Len(assertions) \in Nat /\ n \in Nat /\ n <= Len(assertions)
        BY <1>1
      <4>3. Len(s) + Len(t) = Len(assertions)
        BY <2>2, <4>2
      <4> QED
        BY <4>1, <4>2, <4>3
    <3>2. \A i \in 1 .. Len(assertions) : (s \o t)[i] = assertions[i]
      <4> SUFFICES ASSUME NEW i \in 1 .. Len(assertions)
                   PROVE  (s \o t)[i] = assertions[i]
        OBVIOUS
      <4>1. CASE i <= n
        BY <2>1, <2>2, <3>1, <4>1
      <4>2. CASE i > n
        <5>1. i - n \in 1 .. Len(t) /\ i = n + (i - n)
          BY <2>2, <3>1, <4>2
        <5>2. (s \o t)[i] = t[i - n]
          BY <2>1, <2>2, <3>1, <4>2
        <5> QED
          BY <2>2, <5>1, <5>2
      <4> QED
        BY <3>1, <4>1, <4>2
    <3> QED
      BY <1>1, <3>1, <3>2, SameSeq
  <2> QED
    BY <1>2, <2>1, <2>3 DEF Parts
<1>4. /\ u \in Seq(Pending) /\ DeletingIn(u) = {}
      /\ \A a \in Addr : Occurrences(u, Step("dec", a)) = Occurrences(t, a)
  <2>1. Left(t, "pop", u)
    BY <1>2, <1>3 DEF Left, Parts
  <2> QED
    BY <2>1, LeftToDo
<1>5. assertions' = s /\ todo' = u /\ s \in Seq(Addr)
  BY <1>2, <1>3 DEF Parts
<1>6. Deleting' = Deleting
  BY <1>1, <1>4, <1>5 DEF Deleting, DeletingIn
<1>7. Balanced
  <2>1. ASSUME NEW a \in Addr
        PROVE  /\ Occurrences(assertions, a)' = Occurrences(s, a)
               /\ Occurrences(todo, Step("dec", a))' = Occurrences(t, a)
               /\ Occurrences(todo, Step("dec", a)) = 0
               /\ Occurrences(assertions, a) = Occurrences(s, a) + Occurrences(t, a)
               /\ Occurrences(assertions, a) \in Nat
    <3>1. Occurrences(w, a) = Occurrences(s, a) + Occurrences(t, a)
      BY <1>3, OccursInParts
    <3> QED
      BY <1>1, <1>2, <1>4, <1>5, <3>1, IdleNow, Indices
  <2> QED
    BY <2>1 DEF Balanced
<1> QED
  BY <1>4, <1>5, <1>6, <1>7, Passed

LEMMA OccursLast ==
  ASSUME NEW S, NEW s \in Seq(S), NEW y \in S, NEW x
  PROVE  Occurrences(Append(s, y), x) = Occurrences(s, x) + Same(y, x)
<1>1. PICK t, u : t = <<y>> /\ u = Append(s, y)
  OBVIOUS
<1>2. Parts(S, u, s, t)
  BY <1>1 DEF Parts
<1>3. Occurrences(u, x) = Occurrences(s, x) + Occurrences(t, x)
  BY <1>2, OccursInParts
<1>4. Occurrences(t, x) = Same(y, x)
  BY <1>1, OccursOnce
<1> QED
  BY <1>1, <1>3, <1>4, Zenon

(* add(const Bool&) *)
LEMMA MemoryAdd ==
  ASSUME Memory, NEW y \in Addr, heap[y].refs >= 1, heap' = Inc(heap, <<y>>),
         assertions' = Append(assertions, y),
         UNCHANGED <<handle, consing, store, leaked, todo>>
  PROVE  Memory'
<1>1. HeapOK /\ PointersOK
  BY DEF Memory
<1>2. /\ heap' \in [Addr -> Expr]
      /\ SameShapes
      /\ \A a \in Addr : heap'[a].refs = heap[a].refs + Same(y, a)
  <2>1. <<y>> \in Seq(AddrOrNull)
    BY DEF AddrOrNull
  <2> QED
    BY <1>1, <2>1, IncEffect, OccursOnce
<1>3. PointersOK' /\ Deleting' = Deleting
  BY <1>1 DEF PointersOK, Deleting
<1>4. ASSUME NEW a \in Addr
      PROVE  /\ heap'[a].refs > 0 <=> heap[a].refs > 0
             /\ heap'[a].refs = heap[a].refs + Difference(a)
  <2>1. heap[a].refs \in Nat /\ heap'[a].refs = heap[a].refs + Same(y, a)
    BY <1>2, Live
  <2>2. Same(y, a) \in {0, 1} /\ (Same(y, a) = 1 => heap[a].refs >= 1)
    BY DEF Same
  <2>3. PICK k \in Nat, l \in Nat, m \in Nat, n \in Nat :
          /\ k = HandlesAt(handle, a) /\ l = leaked[a]
          /\ m = Occurrences(assertions, a) /\ n = Occurrences(todo, Step("dec", a))
    BY <1>1, PointersAre
  <2>4. /\ HandlesAt(handle, a)' = k /\ leaked'[a] = l
        /\ Occurrences(todo, Step("dec", a))' = n
    BY <2>3 DEF HandlesAt
  <2>5. Occurrences(assertions, a)' = m + Same(y, a)
    <3>1. assertions \in Seq(Addr)
      BY <1>1 DEF PointersOK
    <3>2. Occurrences(Append(assertions, y), a) = Occurrences(assertions, a) + Same(y, a)
      BY <3>1, OccursLast
    <3> QED
      BY <2>3, <3>2
  <2>6. Difference(a) = (k - k) + ((m + Same(y, a)) - m) + (n - n) + (l - l)
    BY <2>3, <2>4, <2>5, Zenon DEF Difference
  <2>7. Difference(a) = Same(y, a)
    BY <2>2, <2>6
  <2> QED
    BY <2>1, <2>2, <2>7
<1>5. UNCHANGED <<consing, store>>
  OBVIOUS
<1> QED
  BY <1>2, <1>3, <1>4, <1>5, MemoryKept

(* add(Bool&&) *)
LEMMA MemoryAddMoved ==
  ASSUME Memory, NEW v \in Handle, handle[v] # Null,
         assertions' = Append(assertions, handle[v]), handle' = [handle EXCEPT ![v] = Null],
         UNCHANGED <<heap, consing, store, leaked, todo>>
  PROVE  Memory'
<1>1. HeapOK /\ PointersOK /\ handle[v] \in Addr
  BY HandleType DEF Memory
<1>2. handle' \in [Handle -> AddrOrNull]
  BY <1>1 DEF PointersOK, AddrOrNull
<1>3. PointersOK' /\ Deleting' = Deleting
  BY <1>1, <1>2 DEF PointersOK, Deleting
<1>4. ASSUME NEW a \in Addr
      PROVE  heap'[a].refs = heap[a].refs + Difference(a)
  <2>1. PICK k \in Nat, l \in Nat, m \in Nat, n \in Nat :
          /\ k = HandlesAt(handle, a) /\ l = leaked[a]
          /\ m = Occurrences(assertions, a) /\ n = Occurrences(todo, Step("dec", a))
    BY <1>1, PointersAre
  <2>2. leaked'[a] = l /\ Occurrences(todo, Step("dec", a))' = n
    BY <2>1
  <2>3. Occurrences(assertions, a)' = m + Same(handle[v], a)
    <3>1. assertions \in Seq(Addr)
      BY <1>1 DEF PointersOK
    <3>2. Occurrences(Append(assertions, handle[v]), a)
            = Occurrences(assertions, a) + Same(handle[v], a)
      BY <1>1, <3>1, OccursLast
    <3> QED
      BY <2>1, <3>2
  <2>4. HandlesAt(handle', a) + Same(handle[v], a) = k
    <3>1. PICK g : g = handle'
      OBVIOUS
    <3>2. /\ g \in [Handle -> AddrOrNull] /\ handle \in [Handle -> AddrOrNull]
          /\ g[v] = Null /\ \A u \in Handle \ {v} : g[u] = handle[u]
      BY <1>1, <1>2, <3>1 DEF PointersOK
    <3>3. HandlesAt(g, a) + Same(handle[v], a) = HandlesAt(handle, a) + Same(g[v], a)
      BY <3>2, HandleSet
    <3>4. Same(g[v], a) = 0
      BY <3>2, ExpressionsAssumption DEF Same
    <3> QED
      BY <2>1, <3>1, <3>3, <3>4
  <2>5. PICK o \in Nat : o = HandlesAt(handle', a)
    BY HandlesType
  <2>6. HandlesAt(handle, a)' = o
    BY <2>5 DEF HandlesAt
  <2>7. Difference(a) = (o - k) + ((m + Same(handle[v], a)) - m) + (n - n) + (l - l)
    BY <2>1, <2>2, <2>3, <2>6, Zenon DEF Difference
  <2>8. o + Same(handle[v], a) = k /\ Same(handle[v], a) \in Nat
    BY <2>4, <2>5 DEF Same
  <2>9. Difference(a) = 0
    BY <2>7, <2>8
  <2>10. heap'[a].refs = heap[a].refs /\ heap[a].refs \in Nat
    BY Live
  <2> QED
    BY <2>9, <2>10
<1>5. /\ heap' \in [Addr -> Expr] /\ SameShapes /\ UNCHANGED <<consing, store>>
      /\ \A a \in Addr : heap'[a].refs > 0 <=> heap[a].refs > 0
  BY <1>1 DEF HeapOK, SameShapes, ShapeAt
<1> QED
  BY <1>3, <1>4, <1>5, MemoryKept

LEMMA MemorySame ==
  ASSUME Memory, UNCHANGED <<heap, handle, consing, store, leaked, todo, assertions>>
  PROVE  Memory'
<1>1. PointersOK /\ PointersOK'
  BY DEF Memory, PointersOK
<1>2. /\ assertions' \in Seq(Addr) /\ todo' \in Seq(Pending)
      /\ UNCHANGED <<heap, handle, consing, store, leaked>>
  BY <1>1 DEF PointersOK
<1>3. Balanced /\ Deleting' = Deleting
  BY DEF Balanced, Deleting
<1> QED
  BY <1>2, <1>3, Passed

-----------------------------------------------------------------------------
(* The levels of the assertion stack: where each one begins, the lower     *)
(* ones first.                                                             *)
Levels(n, m, first) ==
  /\ first[Len(m) + 1] = n
  /\ \A l \in 1 .. Len(m) : first[l + 1] = first[l] + m[l]
  /\ \A k, l \in 1 .. Len(m) + 1 : k <= l => first[k] <= first[l]

Ordered(n, m) ==
  /\ m \in Seq(Nat)
  /\ \E first \in [1 .. Len(m) + 1 -> 0 .. n] : Levels(n, m, first)

LEMMA LevelsNone ==
  Ordered(0, << >>)
<1>1. PICK first : first = [l \in 1 .. 1 |-> 0]
  OBVIOUS
<1>2. PICK m : m = << >>
  OBVIOUS
<1>3. m \in Seq(Nat) /\ Len(m) = 0 /\ first \in [1 .. Len(m) + 1 -> 0 .. 0]
  BY <1>1, <1>2
<1>4. Levels(0, m, first)
  BY <1>1, <1>3 DEF Levels
<1>5. Ordered(0, m)
  BY <1>3, <1>4 DEF Ordered
<1> QED
  BY <1>2, <1>5

LEMMA LevelPushed ==
  ASSUME NEW n \in Nat, NEW m, Ordered(n, m), NEW p, p = Append(m, 0)
  PROVE  Ordered(n, p)
<1>1. m \in Seq(Nat) /\ Len(m) \in Nat
  BY DEF Ordered
<1>2. PICK first \in [1 .. Len(m) + 1 -> 0 .. n] : Levels(n, m, first)
  BY DEF Ordered
<1>3. /\ p \in Seq(Nat) /\ Len(p) = Len(m) + 1 /\ p[Len(m) + 1] = 0
      /\ \A l \in 1 .. Len(m) : p[l] = m[l]
  BY <1>1
<1>4. PICK next : next = [l \in 1 .. Len(m) + 2 |-> IF l = Len(m) + 2 THEN n ELSE first[l]]
  OBVIOUS
<1>5. /\ next[Len(m) + 2] = n
      /\ \A l \in 1 .. Len(m) + 1 : next[l] = first[l] /\ first[l] \in 0 .. n
  BY <1>1, <1>4
<1>6. next \in [1 .. Len(p) + 1 -> 0 .. n]
  BY <1>1, <1>3, <1>4
<1>7. next[Len(p) + 1] = n
  BY <1>1, <1>3, <1>5
<1>8. \A l \in 1 .. Len(p) : next[l + 1] = next[l] + p[l]
  <2> SUFFICES ASSUME NEW l \in 1 .. Len(p)
               PROVE  next[l + 1] = next[l] + p[l]
    OBVIOUS
  <2>1. CASE l = Len(m) + 1
    BY <1>1, <1>2, <1>3, <1>5, <2>1 DEF Levels
  <2>2. CASE l # Len(m) + 1
    <3>1. l \in 1 .. Len(m) /\ l + 1 \in 1 .. Len(m) + 1
      BY <1>1, <1>3, <2>2
    <3> QED
      BY <1>2, <1>3, <1>5, <3>1 DEF Levels
  <2> QED
    BY <2>1, <2>2
<1>9. \A k, l \in 1 .. Len(p) + 1 : k <= l => next[k] <= next[l]
  <2> SUFFICES ASSUME NEW k \in 1 .. Len(p) + 1, NEW l \in 1 .. Len(p) + 1, k <= l
               PROVE  next[k] <= next[l]
    OBVIOUS
  <2>1. CASE l = Len(m) + 2
    BY <1>1, <1>3, <1>5, <2>1
  <2>2. CASE l # Len(m) + 2
    <3>1. l \in 1 .. Len(m) + 1 /\ k \in 1 .. Len(m) + 1
      BY <1>1, <1>3, <2>2
    <3> QED
      BY <1>2, <1>5, <3>1 DEF Levels
  <2> QED
    BY <2>1, <2>2
<1> QED
  BY <1>3, <1>6, <1>7, <1>8, <1>9 DEF Levels, Ordered

LEMMA LevelPopped ==
  ASSUME NEW n \in Nat, NEW m, Ordered(n, m), m # << >>, NEW p, p = Front(m)
  PROVE  Last(m) \in 0 .. n /\ Ordered(n - Last(m), p) /\ Len(p) <= Len(m)
<1>1. m \in Seq(Nat) /\ Len(m) \in Nat /\ Len(m) >= 1
  BY DEF Ordered
<1>2. PICK first \in [1 .. Len(m) + 1 -> 0 .. n] : Levels(n, m, first)
  BY DEF Ordered
<1>3. /\ p \in Seq(Nat) /\ Len(p) = Len(m) - 1
      /\ \A l \in 1 .. Len(m) - 1 : p[l] = m[l]
      /\ Last(m) = m[Len(m)] /\ m[Len(m)] \in Nat
  <2>1. p = SubSeq(m, 1, Len(m) - 1) /\ Last(m) = m[Len(m)]
    BY DEF Front, Last
  <2>2. PICK k : k = Len(m) - 1
    OBVIOUS
  <2>3. /\ SubSeq(m, 1, k) \in Seq(Nat) /\ Len(SubSeq(m, 1, k)) = k
        /\ \A l \in 1 .. k : SubSeq(m, 1, k)[l] = m[l]
    <3>1. k \in 0 .. Len(m)
      BY <1>1, <2>2
    <3> QED
      BY <1>1, <3>1, Prefix
  <2>4. m[Len(m)] \in Nat
    BY <1>1
  <2> QED
    BY <2>1, <2>2, <2>3, <2>4
<1>4. n = first[Len(m)] + m[Len(m)] /\ \A l \in 1 .. Len(m) + 1 : first[l] \in 0 .. n
  <2>1. \A l \in 1 .. Len(m) + 1 : first[l] \in 0 .. n
    OBVIOUS
  <2>2. Len(m) \in 1 .. Len(m)
    BY <1>1
  <2>3. first[Len(m) + 1] = n /\ first[Len(m) + 1] = first[Len(m)] + m[Len(m)]
    BY <1>2, <2>2 DEF Levels
  <2> QED
    BY <2>1, <2>3
<1>5. Last(m) \in 0 .. n /\ n - Last(m) = first[Len(m)]
  <2>1. first[Len(m)] \in 0 .. n
    BY <1>1, <1>4
  <2> QED
    BY <1>3, <1>4, <2>1
<1>6. PICK next : next = [l \in 1 .. Len(m) |-> first[l]]
  OBVIOUS
<1>7. PICK r : r = n - Last(m)
  OBVIOUS
<1>8. \A l \in 1 .. Len(m) : next[l] = first[l] /\ first[l] \in 0 .. r
  <2> SUFFICES ASSUME NEW l \in 1 .. Len(m)
               PROVE  next[l] = first[l] /\ first[l] \in 0 .. r
    OBVIOUS
  <2>1. l \in 1 .. Len(m) + 1 /\ Len(m) \in 1 .. Len(m) + 1 /\ l <= Len(m)
    BY <1>1
  <2>2. first[l] <= first[Len(m)]
    BY <1>2, <2>1 DEF Levels
  <2>3. first[l] \in 0 .. n /\ first[Len(m)] \in 0 .. n
    BY <1>4, <2>1
  <2>4. r = first[Len(m)]
    BY <1>5, <1>7
  <2>5. next[l] = first[l]
    BY <1>6
  <2> QED
    BY <2>2, <2>3, <2>4, <2>5
<1>9. next \in [1 .. Len(p) + 1 -> 0 .. r]
  <2>1. Len(p) + 1 = Len(m)
    BY <1>1, <1>3
  <2> QED
    BY <1>6, <1>8, <2>1
<1>10. next[Len(p) + 1] = r
  <2>1. Len(p) + 1 = Len(m) /\ Len(m) \in 1 .. Len(m)
    BY <1>1, <1>3
  <2> QED
    BY <1>5, <1>7, <1>8, <2>1
<1>11. \A l \in 1 .. Len(p) : next[l + 1] = next[l] + p[l]
  <2> SUFFICES ASSUME NEW l \in 1 .. Len(p)
               PROVE  next[l + 1] = next[l] + p[l]
    OBVIOUS
  <2>1. /\ l \in 1 .. Len(m) - 1 /\ l \in 1 .. Len(m) /\ l + 1 \in 1 .. Len(m)
    BY <1>1, <1>3
  <2> QED
    BY <1>2, <1>3, <1>8, <2>1 DEF Levels
<1>12. \A k, l \in 1 .. Len(p) + 1 : k <= l => next[k] <= next[l]
  <2> SUFFICES ASSUME NEW k \in 1 .. Len(p) + 1, NEW l \in 1 .. Len(p) + 1, k <= l
               PROVE  next[k] <= next[l]
    OBVIOUS
  <2>1. /\ k \in 1 .. Len(m) /\ l \in 1 .. Len(m)
        /\ k \in 1 .. Len(m) + 1 /\ l \in 1 .. Len(m) + 1
    BY <1>1, <1>3
  <2> QED
    BY <1>2, <1>8, <2>1 DEF Levels
<1>13. Ordered(r, p)
  BY <1>3, <1>9, <1>10, <1>11, <1>12 DEF Levels, Ordered
<1> QED
  BY <1>1, <1>3, <1>5, <1>7, <1>13

LEMMA LevelCounted ==
  ASSUME NEW n \in Nat, NEW m, Ordered(n, m), NEW p,
         p = IF m = << >> THEN << >> ELSE [m EXCEPT ![Len(m)] = @ + 1]
  PROVE  Ordered(n + 1, p) /\ Len(p) = Len(m)
<1>1. m \in Seq(Nat) /\ Len(m) \in Nat
  BY DEF Ordered
<1>2. PICK first \in [1 .. Len(m) + 1 -> 0 .. n] : Levels(n, m, first)
  BY DEF Ordered
<1>3. PICK next : next = [l \in 1 .. Len(m) + 1 |-> IF l = Len(m) + 1 THEN n + 1 ELSE first[l]]
  OBVIOUS
<1>4. /\ next[Len(m) + 1] = n + 1
      /\ \A l \in 1 .. Len(m) : next[l] = first[l]
      /\ \A l \in 1 .. Len(m) + 1 : first[l] \in 0 .. n /\ next[l] \in 0 .. n + 1
  <2>1. next[Len(m) + 1] = n + 1 /\ \A l \in 1 .. Len(m) : next[l] = first[l]
    BY <1>1, <1>3
  <2>2. \A l \in 1 .. Len(m) + 1 : first[l] \in 0 .. n
    BY <1>1
  <2>3. \A l \in 1 .. Len(m) + 1 : next[l] \in 0 .. n + 1
    <3> SUFFICES ASSUME NEW l \in 1 .. Len(m) + 1
                 PROVE  next[l] \in 0 .. n + 1
      OBVIOUS
    <3>1. CASE l = Len(m) + 1
      BY <2>1, <3>1
    <3>2. CASE l # Len(m) + 1
      <4>1. l \in 1 .. Len(m)
        BY <1>1, <3>2
      <4>2. next[l] = first[l] /\ first[l] \in 0 .. n
        BY <2>1, <2>2, <4>1
      <4> QED
        BY <4>2
    <3> QED
      BY <3>1, <3>2
  <2> QED
    BY <2>1, <2>2, <2>3
<1>5. next \in [1 .. Len(m) + 1 -> 0 .. n + 1]
  BY <1>3, <1>4
<1>6. /\ p \in Seq(Nat) /\ Len(p) = Len(m)
      /\ \A l \in 1 .. Len(m) - 1 : p[l] = m[l]
      /\ Len(m) >= 1 => p[Len(m)] = m[Len(m)] + 1 /\ m[Len(m)] \in Nat
  BY <1>1
<1>7. \A l \in 1 .. Len(m) : next[l + 1] = next[l] + p[l]
  <2> SUFFICES ASSUME NEW l \in 1 .. Len(m)
               PROVE  next[l + 1] = next[l] + p[l]
    OBVIOUS
  <2>1. first[l + 1] = first[l] + m[l] /\ first[l] \in Nat /\ next[l] = first[l]
    BY <1>1, <1>2, <1>4 DEF Levels
  <2>2. CASE l = Len(m)
    <3>1. first[l + 1] = n /\ next[l + 1] = n + 1 /\ p[l] = m[l] + 1 /\ m[l] \in Nat
      BY <1>1, <1>2, <1>4, <1>6, <2>2 DEF Levels
    <3> QED
      BY <2>1, <3>1
  <2>3. CASE l # Len(m)
    <3>1. l \in 1 .. Len(m) - 1 /\ l + 1 \in 1 .. Len(m)
      BY <1>1, <2>3
    <3> QED
      BY <1>4, <1>6, <2>1, <3>1
  <2> QED
    BY <2>2, <2>3
<1>8. \A k, l \in 1 .. Len(m) + 1 : k <= l => next[k] <= next[l]
  <2> SUFFICES ASSUME NEW k \in 1 .. Len(m) + 1, NEW l \in 1 .. Len(m) + 1, k <= l
               PROVE  next[k] <= next[l]
    OBVIOUS
  <2>1. CASE l = Len(m) + 1
    BY <1>4, <2>1
  <2>2. CASE l # Len(m) + 1
    <3>1. l \in 1 .. Len(m) /\ k \in 1 .. Len(m)
      BY <1>1, <2>2
    <3>2. first[k] <= first[l]
      BY <1>2 DEF Levels
    <3> QED
      BY <1>4, <3>1, <3>2
  <2> QED
    BY <2>1, <2>2
<1>9. Levels(n + 1, p, next) /\ next \in [1 .. Len(p) + 1 -> 0 .. n + 1]
  <2>1. Len(p) = Len(m)
    BY <1>6
  <2>2. next[Len(p) + 1] = n + 1 /\ next \in [1 .. Len(p) + 1 -> 0 .. n + 1]
    BY <1>4, <1>5, <2>1
  <2>3. /\ \A l \in 1 .. Len(p) : next[l + 1] = next[l] + p[l]
        /\ \A k, l \in 1 .. Len(p) + 1 : k <= l => next[k] <= next[l]
    BY <1>7, <1>8, <2>1, Zenon
  <2> QED
    BY <2>2, <2>3 DEF Levels
<1> QED
  BY <1>6, <1>9 DEF Ordered

LEMMA LevelsBounded ==
  ASSUME NEW n \in Nat, NEW m, Ordered(n, m)
  PROVE  /\ \A l \in DOMAIN m : m[l] \in 0 .. n
         /\ \E first \in [1 .. Len(m) + 1 -> 0 .. n] :
              /\ first[Len(m) + 1] = n
              /\ \A l \in 1 .. Len(m) : first[l + 1] = first[l] + m[l]
<1>1. m \in Seq(Nat) /\ Len(m) \in Nat
  BY DEF Ordered
<1>2. PICK first \in [1 .. Len(m) + 1 -> 0 .. n] : Levels(n, m, first)
  BY DEF Ordered
<1>3. ASSUME NEW l \in 1 .. Len(m)
      PROVE  m[l] \in 0 .. n
  <2>1. l \in 1 .. Len(m) + 1 /\ l + 1 \in 1 .. Len(m) + 1 /\ m[l] \in Nat
    BY <1>1
  <2>2. first[l + 1] = first[l] + m[l] /\ first[l] \in 0 .. n /\ first[l + 1] \in 0 .. n
    BY <1>2, <2>1 DEF Levels
  <2> QED
    BY <2>1, <2>2
<1>4. first[Len(m) + 1] = n /\ \A l \in 1 .. Len(m) : first[l + 1] = first[l] + m[l]
  BY <1>2 DEF Levels
<1>5. DOMAIN m = 1 .. Len(m)
  BY <1>1
<1> QED
  BY <1>3, <1>4, <1>5

-----------------------------------------------------------------------------
(* The solver's own state.                                                 *)
StackOK ==
  /\ registered \in BOOLEAN
  /\ backend \in Backend
  /\ Len(assertions) <= MaxAssertions
  /\ Len(marks) <= MaxLevel
  /\ Ordered(Len(assertions), marks)
  /\ DOMAIN cache \subseteq Addr \union Symbol

Invariant == Memory /\ StackOK

LEMMA CachedKeys ==
  ASSUME Memory, StackOK, NEW encoded
  PROVE  DOMAIN CacheAfter(encoded) \subseteq Addr \union Symbol
<1>1. ASSUME NEW b \in Addr, Caches(b)
      PROVE  Key(b) \in Addr \union Symbol
  <2>1. heap[b].kind = "symbol" => heap[b].name \in Symbol
    BY DEF Memory, HeapOK
  <2> QED
    BY <1>1, <2>1 DEF Key, Caches
<1>2. DOMAIN cache \subseteq Addr \union Symbol
  BY DEF StackOK
<1>3. DOMAIN CacheAfter(encoded)
        = DOMAIN cache \union {Key(b) : b \in {c \in Addr : Caches(c) /\ ~IsCached(c)
                                                 /\ \E a \in encoded : c \in Visited[a]}}
  BY DEF CacheAfter
<1> QED
  BY <1>1, <1>2, <1>3

(* The sizes of the levels and of the stack stay in step: calls to the     *)
(* solver that change them,                                                *)
LEMMA StackPush ==
  ASSUME Invariant, push
  PROVE  Ordered(Len(assertions), marks)' /\ Len(marks)' <= MaxLevel
<1>1. assertions' = assertions /\ marks' = Append(marks, 0) /\ Len(marks) < MaxLevel
  BY DEF push, expr_vars
<1>2. Ordered(Len(assertions), marks) /\ Len(assertions) \in Nat
  BY DEF Invariant, Memory, PointersOK, StackOK
<1>3. PICK p, n : p = Append(marks, 0) /\ n = Len(assertions)
  OBVIOUS
<1>4. Ordered(n, p)
  BY <1>2, <1>3, LevelPushed
<1>5. Len(Append(marks, 0)) = Len(marks) + 1 /\ Len(marks) \in Nat
  BY <1>2 DEF Ordered
<1>6. Ordered(Len(assertions), marks)' = Ordered(Len(assertions'), marks')
  BY DEF Ordered, Levels
<1>7. Len(marks') <= MaxLevel
  BY <1>1, <1>5, SolverAssumption
<1> QED
  BY <1>1, <1>3, <1>4, <1>6, <1>7, Zenon

LEMMA StackPop ==
  ASSUME Invariant, pop
  PROVE  /\ Kept \in 0 .. Len(assertions)
         /\ Ordered(Len(assertions), marks)' /\ Len(marks') <= Len(marks)
         /\ Len(assertions') <= Len(assertions)
<1>1. /\ marks # << >> /\ marks' = Front(marks)
      /\ assertions' = SubSeq(assertions, 1, Kept)
  BY DEF pop
<1>2. /\ Ordered(Len(assertions), marks)
      /\ assertions \in Seq(Addr) /\ Len(assertions) \in Nat
  BY DEF Invariant, Memory, PointersOK, StackOK
<1>3. PICK p, n : p = Front(marks) /\ n = Len(assertions)
  OBVIOUS
<1>4. Last(marks) \in 0 .. n /\ Ordered(n - Last(marks), p) /\ Len(p) <= Len(marks) /\ n \in Nat
  BY <1>1, <1>2, <1>3, LevelPopped
<1>5. PICK k : k = Kept
  OBVIOUS
<1>6. k = n - Last(marks) /\ k \in 0 .. n
  BY <1>3, <1>4, <1>5 DEF Kept
<1>7. Len(SubSeq(assertions, 1, k)) = k
  BY <1>2, <1>3, <1>6, Prefix
<1>8. Ordered(Len(assertions), marks)' = Ordered(Len(assertions'), marks')
  BY DEF Ordered, Levels
<1>9. Len(assertions') = k /\ marks' = p /\ Ordered(k, p)
  BY <1>1, <1>3, <1>4, <1>5, <1>6, <1>7
<1>10. Ordered(Len(assertions), marks)'
  BY <1>8, <1>9, Zenon
<1>11. k <= n /\ k \in 0 .. Len(assertions)
  BY <1>3, <1>4, <1>6
<1> QED
  BY <1>3, <1>4, <1>5, <1>9, <1>10, <1>11

LEMMA StackAsserted ==
  ASSUME Invariant, NEW y \in Addr, Asserted(y), Len(assertions) < MaxAssertions
  PROVE  /\ Ordered(Len(assertions), marks)' /\ Len(marks') <= MaxLevel
         /\ Len(assertions') <= MaxAssertions
         /\ assertions' = Append(assertions, y)
         /\ DOMAIN cache' \subseteq Addr \union Symbol
<1>1. /\ assertions' = Append(assertions, y) /\ marks' = Counted
      /\ cache' = IF Keeps THEN CacheAfter({y}) ELSE cache
  BY DEF Asserted
<1>2. /\ Ordered(Len(assertions), marks) /\ Len(marks) <= MaxLevel
      /\ assertions \in Seq(Addr) /\ Len(assertions) \in Nat
      /\ DOMAIN cache \subseteq Addr \union Symbol
  BY DEF Invariant, Memory, PointersOK, StackOK
<1>3. PICK p, n : p = Counted /\ n = Len(assertions)
  OBVIOUS
<1>4. p = IF marks = << >> THEN << >> ELSE [marks EXCEPT ![Len(marks)] = @ + 1]
  BY <1>3 DEF Counted
<1>5. Ordered(n + 1, p) /\ Len(p) = Len(marks)
  BY <1>2, <1>3, <1>4, LevelCounted
<1>6. Len(assertions') = n + 1 /\ marks' = p
  BY <1>1, <1>2, <1>3
<1>7. Ordered(Len(assertions), marks)' = Ordered(Len(assertions'), marks')
  BY DEF Ordered, Levels
<1>8. Ordered(Len(assertions), marks)'
  BY <1>5, <1>6, <1>7, Zenon
<1>9. DOMAIN cache' \subseteq Addr \union Symbol
  BY <1>1, <1>2, CachedKeys DEF Invariant
<1>10. n + 1 <= MaxAssertions
  BY <1>2, <1>3, SolverAssumption
<1> QED
  BY <1>1, <1>2, <1>5, <1>6, <1>8, <1>9, <1>10

LEMMA StackSame ==
  ASSUME Invariant, UNCHANGED <<registered, backend, assertions, marks, cache>>
  PROVE  StackOK'
<1>1. Ordered(Len(assertions), marks)' = Ordered(Len(assertions), marks)
  BY DEF Ordered, Levels
<1> QED
  BY <1>1 DEF Invariant, StackOK

(* The first state *)
LEMMA InvariantInit ==
  Init => Invariant
<1> SUFFICES ASSUME Init
             PROVE  Invariant
  OBVIOUS
<1>1. /\ heap = [a \in Addr |-> NoExpr] /\ handle = [h \in Handle |-> Null]
      /\ consing \in BOOLEAN /\ store = {} /\ leaked = [a \in Addr |-> 0] /\ todo = << >>
  BY DEF Init, ExprInit
<1>2. /\ registered = TRUE /\ backend \in Backend /\ assertions = << >> /\ marks = << >>
      /\ cache = [k \in {} |-> Nothing]
  BY DEF Init, SolverInit
<1>3. NoExpr \in Expr /\ NoExpr.refs = 0 /\ NoExpr.args = << >> /\ NoExpr.kind = "none"
  <2>1. NoExpr = [kind |-> "none", name |-> Null, args |-> << >>, refs |-> 0]
    BY DEF NoExpr, Unreferenced, Shape
  <2>2. << >> \in BoundedSeq(Addr, 2)
    <3>1. PICK s : s = << >>
      OBVIOUS
    <3>2. s \in Seq(Addr) /\ Len(s) <= 2 /\ 2 \in Nat
      BY <3>1
    <3>3. s \in BoundedSeq(Addr, 2)
      BY <3>2, BoundedSeqs
    <3> QED
      BY <3>1, <3>3
  <2> QED
    BY <2>1, <2>2 DEF Expr, Kinds
<1>4. HeapOK
  BY <1>1, <1>3 DEF HeapOK, IsFree
<1>5. PointersOK
  BY <1>1, <1>2 DEF PointersOK, AddrOrNull
<1>6. Deleting = {}
  BY <1>1 DEF Deleting
<1>7. ASSUME NEW a \in Addr
      PROVE  heap[a].refs = Pointers(a)
  <2>1. HandlesAt(handle, a) = 0
    <3>1. {v \in Handle : handle[v] = a} = {}
      BY <1>1, ExpressionsAssumption
    <3> QED
      BY <3>1, FS_EmptySet DEF HandlesAt
  <2>2. Cardinality(OperandsIn(heap, Deleting, a)) = 0
    <3>1. OperandsIn(heap, Deleting, a) = {}
      BY <1>1, <1>3 DEF OperandsIn
    <3> QED
      BY <3>1, FS_EmptySet
  <2>3. Occurrences(assertions, a) = 0 /\ Occurrences(todo, Step("dec", a)) = 0
    BY <1>1, <1>2, OccursNowhere
  <2>4. leaked[a] = 0 /\ heap[a].refs = 0
    BY <1>1, <1>3
  <2> QED
    BY <1>5, <2>1, <2>2, <2>3, <2>4, PointersAre
<1>8. Counts
  BY <1>7 DEF Counts
<1>9. OnItsWayOut
  BY <1>1, <1>3, <1>6 DEF OnItsWayOut, IsFree
<1>10. StoreOK
  BY <1>1, <1>3 DEF StoreOK
<1>11. StackOK
  <2>1. Len(assertions) = 0 /\ Len(marks) = 0
    BY <1>2
  <2>2. Ordered(Len(assertions), marks)
    BY <1>2, <2>1, LevelsNone, Zenon
  <2>3. DOMAIN cache = {}
    BY <1>2
  <2> QED
    BY <1>2, <2>1, <2>2, <2>3, SolverAssumption DEF StackOK
<1> QED
  BY <1>4, <1>5, <1>8, <1>9, <1>10, <1>11 DEF Invariant, Memory

(* No step of the program breaks it. *)
LEMMA MemoryNext ==
  ASSUME Invariant, Next
  PROVE  Memory'
<1>1. Memory /\ StackOK
  BY DEF Invariant
<1>2. CASE Express
  <2>1. Connectives[backend] \subseteq {"land", "lor"}
    BY <1>1, SolverAssumption DEF StackOK
  <2>2. ExprNext(Connectives[backend]) /\ UNCHANGED assertions
    BY <1>2 DEF Express, solver_vars
  <2> QED
    BY <1>1, <2>1, <2>2, MemoryExpress
<1>3. ASSUME NEW v \in Handle, add(v)
      PROVE  Memory'
  <2>1. /\ handle[v] # Null /\ heap' = Inc(heap, <<handle[v]>>)
        /\ assertions' = Append(assertions, handle[v])
        /\ UNCHANGED <<handle, consing, store, leaked, todo>>
    BY <1>3 DEF add, Asserted
  <2>2. handle[v] \in Addr /\ heap[handle[v]].refs >= 1
    BY <1>1, <2>1, HandleType
  <2> QED
    BY <1>1, <2>1, <2>2, MemoryAdd
<1>4. ASSUME NEW v \in Handle, add_moved(v)
      PROVE  Memory'
  BY <1>1, <1>4, MemoryAddMoved DEF add_moved, Asserted
<1>5. CASE pop
  <2>1. PICK n : n = Kept
    OBVIOUS
  <2>2. n \in 0 .. Len(assertions)
    BY <1>5, <2>1, StackPop
  <2> QED
    BY <1>1, <1>5, <2>1, <2>2, MemoryPop DEF pop, Calls
<1>6. CASE reset \/ Destroy
  BY <1>1, <1>6, MemoryReset DEF reset, Destroy, Calls
<1>7. CASE __pop \/ __reset
  BY <1>1, <1>7, MemoryDone DEF __pop, __reset
<1>8. CASE DecStep
  BY <1>1, <1>8, MemoryDec DEF DecStep, solver_vars
<1>9. CASE DeleteAndNotify
  BY <1>1, <1>9, MemoryDelete DEF DeleteAndNotify
<1>10. CASE GoOn \/ push \/ check \/ Construct
  BY <1>1, <1>10, MemorySame DEF GoOn, push, check, Construct, expr_vars, solver_vars
<1>11. ASSUME NEW assumptions, NEW room, check_assumptions(assumptions, room)
       PROVE  Memory'
  BY <1>1, <1>11, MemorySame DEF check_assumptions, expr_vars
<1> QED
  BY <1>2, <1>3, <1>4, <1>5, <1>6, <1>7, <1>8, <1>9, <1>10, <1>11 DEF Next

LEMMA StackNext ==
  ASSUME Invariant, Next
  PROVE  StackOK'
<1>1. Memory /\ StackOK
  BY DEF Invariant
<1>2. /\ assertions \in Seq(Addr) /\ MaxAssertions \in Nat /\ MaxLevel \in Nat
      /\ Len(assertions) <= MaxAssertions /\ Len(marks) <= MaxLevel
      /\ registered \in BOOLEAN /\ backend \in Backend
      /\ DOMAIN cache \subseteq Addr \union Symbol
  BY <1>1, SolverAssumption DEF Memory, PointersOK, StackOK
<1>3. ASSUME NEW v \in Handle, add(v) \/ add_moved(v)
      PROVE  StackOK'
  <2>1. /\ handle[v] # Null /\ Len(assertions) < MaxAssertions /\ Asserted(handle[v])
        /\ UNCHANGED <<registered, backend>>
    BY <1>3 DEF add, add_moved
  <2>2. handle[v] \in Addr
    BY <1>1, <2>1, HandleType
  <2>3. /\ Ordered(Len(assertions), marks)' /\ Len(marks') <= MaxLevel
        /\ Len(assertions') <= MaxAssertions
        /\ DOMAIN cache' \subseteq Addr \union Symbol
    BY <2>1, <2>2, StackAsserted
  <2> QED
    BY <1>2, <2>1, <2>3 DEF StackOK
<1>4. CASE push
  <2>1. Ordered(Len(assertions), marks)' /\ Len(marks)' <= MaxLevel
    BY <1>4, StackPush
  <2>2. UNCHANGED <<registered, backend, assertions, cache>>
    BY <1>4 DEF push
  <2> QED
    BY <1>2, <2>1, <2>2 DEF StackOK
<1>5. CASE pop
  <2>1. /\ Ordered(Len(assertions), marks)' /\ Len(marks') <= Len(marks)
        /\ Len(assertions') <= Len(assertions)
    BY <1>5, StackPop
  <2>2. UNCHANGED <<registered, backend, cache>>
    BY <1>5 DEF pop
  <2>3. /\ Len(marks) \in Nat /\ Len(assertions) \in Nat
        /\ Len(marks') \in Nat /\ Len(assertions') \in Nat
    <3>1. marks \in Seq(Nat) /\ marks' \in Seq(Nat)
      BY <1>1, <2>1 DEF StackOK, Ordered
    <3>2. assertions' \in Seq(Addr)
      BY <1>5, MemoryNext DEF Memory, PointersOK, Next
    <3> QED
      BY <1>2, <3>1, <3>2
  <2>4. Len(marks') <= MaxLevel /\ Len(assertions') <= MaxAssertions
    BY <1>2, <2>1, <2>3
  <2> QED
    BY <1>2, <2>1, <2>2, <2>4 DEF StackOK
<1>6. CASE reset \/ Destroy
  <2>1. /\ assertions' = << >> /\ marks' = << >> /\ backend' = backend /\ registered' \in BOOLEAN
        /\ cache' = cache \/ cache' = [k \in {} |-> Nothing]
    BY <1>2, <1>6 DEF reset, Destroy
  <2>2. Len(assertions') = 0 /\ Len(marks') = 0
    BY <2>1
  <2>3. Ordered(Len(assertions), marks)'
    <3>1. Ordered(Len(assertions), marks)' = Ordered(Len(assertions'), marks')
      BY DEF Ordered, Levels
    <3> QED
      BY <2>1, <2>2, <3>1, LevelsNone, Zenon
  <2>4. DOMAIN cache' \subseteq Addr \union Symbol
    <3>1. DOMAIN [k \in {} |-> Nothing] = {}
      OBVIOUS
    <3> QED
      BY <1>2, <2>1, <3>1
  <2> QED
    BY <1>2, <2>1, <2>2, <2>3, <2>4 DEF StackOK
<1>7. ASSUME UNCHANGED <<registered, backend, assertions, marks>>,
             DOMAIN cache' \subseteq Addr \union Symbol
      PROVE  StackOK'
  <2>1. Ordered(Len(assertions), marks)' = Ordered(Len(assertions), marks)
    BY <1>7 DEF Ordered, Levels
  <2> QED
    BY <1>1, <1>7, <2>1 DEF StackOK
<1>8. CASE __reset
  <2>1. DOMAIN [k \in {} |-> Nothing] = {}
    OBVIOUS
  <2> QED
    BY <1>7, <1>8, <2>1 DEF __reset
<1>9. CASE DeleteAndNotify
  <2>1. DOMAIN Forgotten(It) \subseteq DOMAIN cache
    BY DEF Forgotten
  <2> QED
    BY <1>2, <1>7, <1>9, <2>1 DEF DeleteAndNotify
<1>10. CASE Express \/ GoOn \/ check \/ DecStep \/ __pop
  BY <1>10, StackSame DEF Express, GoOn, check, DecStep, __pop, solver_vars
<1>11. CASE Construct
  <2>1. registered' = TRUE /\ UNCHANGED <<backend, assertions, marks, cache>>
    BY <1>11 DEF Construct
  <2>2. Ordered(Len(assertions), marks)' = Ordered(Len(assertions), marks)
    BY <2>1 DEF Ordered, Levels
  <2> QED
    BY <1>1, <2>1, <2>2 DEF StackOK
<1>12. ASSUME NEW assumptions, NEW room, check_assumptions(assumptions, room)
       PROVE  StackOK'
  <2>1. UNCHANGED <<registered, backend, assertions, marks>>
    BY <1>12 DEF check_assumptions
  <2>2. cache' = cache \/ cache' = CacheAfter(ToSet(assumptions))
    <3>1. CASE backend = "z3"
      BY <1>12, <3>1 DEF check_assumptions, check_z3
    <3>2. CASE backend = "msat"
      BY <1>12, <3>2 DEF check_assumptions, check_msat
    <3>3. CASE backend \notin {"z3", "msat"}
      BY <1>12, <3>3 DEF check_assumptions, check_unsupported
    <3> QED
      BY <3>1, <3>2, <3>3
  <2>3. DOMAIN cache' \subseteq Addr \union Symbol
    BY <1>1, <1>2, <2>2, CachedKeys
  <2> QED
    BY <1>7, <2>1, <2>3
<1> QED
  BY <1>3, <1>4, <1>5, <1>6, <1>8, <1>9, <1>10, <1>11, <1>12 DEF Next

-----------------------------------------------------------------------------
(* What is proved of the solver and its expressions.                       *)

THEOREM SolverInvariant == Spec => []Invariant
<1>1. Invariant /\ UNCHANGED vars => Invariant'
  <2> SUFFICES ASSUME Invariant, UNCHANGED vars
               PROVE  Invariant'
    OBVIOUS
  <2>1. Memory'
    BY MemorySame DEF Invariant, vars, expr_vars, solver_vars
  <2>2. StackOK'
    BY StackSame DEF vars, solver_vars
  <2> QED
    BY <2>1, <2>2 DEF Invariant
<1>2. Invariant /\ [Next]_vars => Invariant'
  BY <1>1, MemoryNext, StackNext DEF Invariant
<1> QED
  BY InvariantInit, <1>2, PTL DEF Spec

LEMMA InvariantTypes == Invariant => TypeOK
<1> SUFFICES ASSUME Invariant
             PROVE  TypeOK
  OBVIOUS
<1>1. HeapOK /\ PointersOK /\ StoreOK /\ StackOK
  BY DEF Invariant, Memory
<1>2. ASSUME NEW a \in Addr
      PROVE  /\ heap[a].kind \in {"none", "symbol", "lnot", "land", "lor"}
             /\ heap[a].name \in Symbol \union {Null}
             /\ heap[a].args \in BoundedSeq(Addr, 2)
             /\ heap[a].refs \in Nat
  <2>1. heap[a] \in Expr
    BY <1>1, ExprType
  <2>2. heap[a].refs \in Nat
    BY Live DEF Invariant
  <2> QED
    BY <2>1, <2>2 DEF Expr, Kinds
<1>3. /\ handle \in [Handle -> AddrOrNull] /\ consing \in BOOLEAN
      /\ store \subseteq Addr /\ leaked \in [Addr -> Nat]
  BY <1>1 DEF PointersOK, StoreOK
<1>4. \A i \in DOMAIN todo : todo[i].what \in {"dec", "delete", "pop", "reset"}
  <2>1. \A i \in DOMAIN todo : todo[i] \in Pending
    BY <1>1 DEF PointersOK
  <2> QED
    BY <2>1 DEF Pending
<1>5. /\ registered \in BOOLEAN /\ backend \in Backend
      /\ DOMAIN cache \subseteq Addr \union Symbol
      /\ Len(assertions) <= MaxAssertions /\ Len(marks) <= MaxLevel
      /\ Ordered(Len(assertions), marks)
      /\ MaxAssertions \in Nat /\ MaxLevel \in Nat
      /\ assertions \in Seq(Addr) /\ Len(assertions) \in Nat
  BY <1>1, SolverAssumption DEF StackOK, PointersOK
<1>6. assertions \in BoundedSeq(Addr, MaxAssertions)
  BY <1>5, BoundedSeqs
<1>7. LevelsFit
  BY <1>5, LevelsBounded DEF LevelsFit
<1>8. marks \in BoundedSeq(0 .. MaxAssertions, MaxLevel)
  <2>1. marks \in Seq(Nat) /\ \A l \in DOMAIN marks : marks[l] \in 0 .. Len(assertions)
    BY <1>5, LevelsBounded DEF Ordered
  <2>2. \A l \in DOMAIN marks : marks[l] \in 0 .. MaxAssertions
    BY <1>5, <2>1
  <2>3. marks \in Seq(0 .. MaxAssertions)
    <3>1. PICK S : S = 0 .. MaxAssertions
      OBVIOUS
    <3>2. \A l \in 1 .. Len(marks) : marks[l] \in S
      BY <2>1, <2>2, <3>1
    <3>3. marks \in Seq(S)
      BY <2>1, <3>2
    <3> QED
      BY <3>1, <3>3
  <2> QED
    BY <1>5, <2>3, BoundedSeqs
<1> QED
  BY <1>2, <1>3, <1>4, <1>5, <1>6, <1>7, <1>8 DEF TypeOK

(* The state has the shape the code gives it; in particular, the levels do *)
(* not have more assertions than there are.                                *)
THEOREM TypeCorrect == Spec => []TypeOK
BY SolverInvariant, InvariantTypes, PTL

(* The count that SharedExpr keeps in an expression is the number of       *)
(* pointers to it, through every call of the client and every step of the  *)
(* destructors, whatever is asserted and popped; so no expression is       *)
(* deleted that something points to, and none is kept that nothing does.   *)
THEOREM ReferencesCounted == Spec => []RefCountsExact
<1>1. Invariant => RefCountsExact
  <2> SUFFICES ASSUME Invariant
               PROVE  RefCountsExact
    OBVIOUS
  <2>1. Counts /\ OnItsWayOut /\ StoreOK
    BY DEF Invariant, Memory
  <2>2. \A a \in Deleting : Step("delete", a) \in ToSet(todo)
    BY DEF Deleting, ToSet
  <2> QED
    BY <2>1, <2>2 DEF RefCountsExact, Counts, OnItsWayOut, StoreOK
<1> QED
  BY <1>1, SolverInvariant, PTL

(* With hash consing, equal expressions are one: make_shared_expr finds    *)
(* what is there, and delete_from_store erases no other.                   *)
THEOREM OneOfEach == Spec => []EqualsAreOne
<1>1. Invariant => EqualsAreOne
  BY DEF Invariant, Memory, StoreOK, EqualsAreOne
<1> QED
  BY <1>1, SolverInvariant, PTL

-----------------------------------------------------------------------------
(* Induction, over numbers and along the operands of expressions.          *)

LEMMA LeastNumber ==
  ASSUME NEW M \in SUBSET Nat, M # {}
  PROVE  \E m \in M : \A k \in M : m <= k
<1>1. IsWellFoundedOn(OpToRel(<, Nat), Nat)
  BY NatLessThanWellFounded
<1>2. PICK m \in M : \A k \in M : <<k, m>> \notin OpToRel(<, Nat)
  BY <1>1, WFMin
<1>3. ASSUME NEW k \in M, k < m
      PROVE  FALSE
  <2>1. k \in Nat /\ m \in Nat
    OBVIOUS
  <2>2. <<k, m>> \in {ss \in Nat \X Nat : ss[1] < ss[2]}
    BY <1>3, <2>1
  <2>3. <<k, m>> \in OpToRel(<, Nat)
    BY <2>2 DEF OpToRel
  <2> QED
    BY <1>2, <2>3, Zenon
<1>4. m \in Nat /\ \A k \in M : k \in Nat /\ ~(k < m)
  BY <1>3
<1> QED
  BY <1>4

LEMMA NumberInduction ==
  ASSUME NEW N \in SUBSET Nat, 0 \in N, \A k \in N : k + 1 \in N
  PROVE  N = Nat
<1> SUFFICES ASSUME N # Nat
             PROVE  FALSE
  OBVIOUS
<1>1. PICK M \in SUBSET Nat : M = Nat \ N /\ M # {}
  OBVIOUS
<1>2. PICK m \in M : \A k \in M : m <= k
  BY <1>1, LeastNumber
<1>3. m \in Nat /\ m # 0
  BY <1>1
<1>4. m - 1 \in Nat /\ ~(m <= m - 1) /\ (m - 1) + 1 = m
  BY <1>3
<1>5. m - 1 \in N
  BY <1>1, <1>2, <1>4
<1> QED
  BY <1>1, <1>2, <1>4, <1>5

(* Each expression has the operands it should have, and a rank above the   *)
(* ranks of its operands.                                                  *)
Arity(kind) == IF kind = "lnot" THEN 1 ELSE IF kind \in {"land", "lor"} THEN 2 ELSE 0

Ranks(h, n, rank) ==
  /\ rank \in [Addr -> 0 .. n]
  /\ \A a \in Addr : \A i \in DOMAIN h[a].args : rank[h[a].args[i]] < rank[a]

WellFormed(h) ==
  /\ \A a \in Addr :
       h[a].kind \in Kinds /\ h[a].args \in Seq(Addr) /\ Len(h[a].args) = Arity(h[a].kind)
  /\ \E n \in Nat : \E rank \in [Addr -> 0 .. n] : Ranks(h, n, rank)

LEMMA OperandsOf ==
  ASSUME NEW h, WellFormed(h), NEW a \in Addr
  PROVE  /\ h[a].kind \in Kinds
         /\ DOMAIN h[a].args = 1 .. Arity(h[a].kind)
         /\ \A i \in DOMAIN h[a].args : h[a].args[i] \in Addr
         /\ h[a].kind = "lnot" => DOMAIN h[a].args = {1}
         /\ h[a].kind \in {"land", "lor"} => DOMAIN h[a].args = {1, 2}
         /\ h[a].kind \in {"none", "symbol"} => DOMAIN h[a].args = {}
<1>1. h[a].kind \in Kinds /\ h[a].args \in Seq(Addr) /\ Len(h[a].args) = Arity(h[a].kind)
  BY DEF WellFormed
<1>2. DOMAIN h[a].args = 1 .. Arity(h[a].kind)
  BY <1>1
<1>3. 1 .. 0 = {} /\ 1 .. 1 = {1} /\ 1 .. 2 = {1, 2}
  OBVIOUS
<1> QED
  BY <1>1, <1>2, <1>3 DEF Arity, Kinds

LEMMA ExpressionInduction ==
  ASSUME NEW h, WellFormed(h), NEW S \in SUBSET Addr,
         \A a \in Addr : (\A i \in DOMAIN h[a].args : h[a].args[i] \in S) => a \in S
  PROVE  S = Addr
<1>0. PICK n \in Nat : \E rank \in [Addr -> 0 .. n] : Ranks(h, n, rank)
  BY DEF WellFormed
<1>1. PICK rank \in [Addr -> 0 .. n] : Ranks(h, n, rank)
  BY <1>0
<1> DEFINE N == {k \in Nat : \A a \in Addr : rank[a] < k => a \in S}
<1>2. 0 \in N
  OBVIOUS
<1>3. ASSUME NEW k \in N
      PROVE  k + 1 \in N
  <2>1. ASSUME NEW a \in Addr, rank[a] < k + 1
        PROVE  a \in S
    <3>1. \A i \in DOMAIN h[a].args : h[a].args[i] \in Addr /\ rank[h[a].args[i]] < k
      <4> SUFFICES ASSUME NEW i \in DOMAIN h[a].args
                   PROVE  h[a].args[i] \in Addr /\ rank[h[a].args[i]] < k
        OBVIOUS
      <4>1. h[a].args[i] \in Addr
        BY OperandsOf
      <4>2. rank[h[a].args[i]] \in Nat /\ rank[a] \in Nat /\ k \in Nat
        BY <4>1
      <4>3. rank[h[a].args[i]] < rank[a]
        BY <1>1 DEF Ranks
      <4> QED
        BY <2>1, <4>1, <4>2, <4>3
    <3> QED
      BY <3>1
  <2> QED
    BY <2>1
<1>4. N = Nat
  <2>1. N \in SUBSET Nat
    OBVIOUS
  <2> HIDE DEF N
  <2> QED
    BY <1>2, <1>3, <2>1, NumberInduction
<1>5. \A a \in Addr : rank[a] < n + 1
  OBVIOUS
<1>6. n + 1 \in N
  BY <1>4
<1> QED
  BY <1>5, <1>6

-----------------------------------------------------------------------------
(* Meanings.                                                               *)

(* What the meaning of an expression is, given that of its operands        *)
MeaningBy(h, f, a) ==
  LET arg(i) == f[h[a].args[i]]
  IN  CASE h[a].kind = "symbol" -> Atom(h[a].name)
        [] h[a].kind = "lnot" -> Negation(arg(1))
        [] h[a].kind = "land" -> Conjunction(arg(1), arg(2))
        [] h[a].kind = "lor" -> Disjunction(arg(1), arg(2))
        [] OTHER -> Nothing

Meanings(h) == CHOOSE f : f = [a \in Addr |-> MeaningBy(h, f, a)]

LEMMA MeaningsNow == Meaning = Meanings(heap)
BY DEF Meaning, Meanings, MeaningBy

LEMMA MeaningsThen == Meaning' = Meanings(heap')
BY DEF Meaning, Meanings, MeaningBy

LEMMA MeaningByOperands ==
  ASSUME NEW h, NEW a \in Addr, WellFormed(h), NEW f, NEW g,
         \A i \in DOMAIN h[a].args : f[h[a].args[i]] = g[h[a].args[i]]
  PROVE  MeaningBy(h, f, a) = MeaningBy(h, g, a)
<1>1. CASE h[a].kind = "lnot"
  <2>1. f[h[a].args[1]] = g[h[a].args[1]]
    BY <1>1, OperandsOf
  <2> QED
    BY <1>1, <2>1 DEF MeaningBy
<1>2. CASE h[a].kind \in {"land", "lor"}
  <2>1. f[h[a].args[1]] = g[h[a].args[1]] /\ f[h[a].args[2]] = g[h[a].args[2]]
    BY <1>2, OperandsOf
  <2> QED
    BY <1>2, <2>1 DEF MeaningBy
<1>3. CASE h[a].kind \in {"none", "symbol"}
  BY <1>3 DEF MeaningBy
<1> QED
  BY <1>1, <1>2, <1>3, OperandsOf DEF Kinds

LEMMA MeaningsAre ==
  ASSUME NEW h, WellFormed(h)
  PROVE  Meanings(h) = [a \in Addr |-> MeaningBy(h, Meanings(h), a)]
<1>0. PICK n \in Nat : \E rank \in [Addr -> 0 .. n] : Ranks(h, n, rank)
  BY DEF WellFormed
<1>1. PICK rank \in [Addr -> 0 .. n] : Ranks(h, n, rank)
  BY <1>0
<1> DEFINE Known(f, k) == \A a \in Addr : rank[a] < k => f[a] = MeaningBy(h, f, a)
           N == {k \in Nat : \E f : Known(f, k)}
<1>2. 0 \in N
  OBVIOUS
<1>3. ASSUME NEW k \in N
      PROVE  k + 1 \in N
  <2>1. PICK f : Known(f, k)
    OBVIOUS
  <2> DEFINE g == [a \in Addr |-> MeaningBy(h, f, a)]
  <2>2. ASSUME NEW a \in Addr, rank[a] < k + 1
        PROVE  g[a] = MeaningBy(h, g, a)
    <3>1. ASSUME NEW i \in DOMAIN h[a].args
          PROVE  f[h[a].args[i]] = g[h[a].args[i]]
      <4>1. h[a].args[i] \in Addr
        BY OperandsOf
      <4>2. rank[h[a].args[i]] < rank[a]
        BY <1>1 DEF Ranks
      <4>3. rank[h[a].args[i]] \in Nat /\ rank[a] \in Nat /\ k \in Nat
        BY <4>1
      <4>4. rank[h[a].args[i]] < k
        BY <2>2, <4>2, <4>3
      <4>5. f[h[a].args[i]] = MeaningBy(h, f, h[a].args[i])
        BY <2>1, <4>1, <4>4
      <4> QED
        BY <4>1, <4>5
    <3>2. MeaningBy(h, f, a) = MeaningBy(h, g, a)
      <4> HIDE DEF g
      <4> QED
        BY <3>1, MeaningByOperands
    <3> QED
      BY <3>2
  <2>3. Known(g, k + 1)
    BY <2>2
  <2>4. k + 1 \in Nat
    OBVIOUS
  <2> HIDE DEF g, Known
  <2> QED
    BY <2>3, <2>4
<1>4. N = Nat
  <2>1. N \in SUBSET Nat
    OBVIOUS
  <2> HIDE DEF N
  <2> QED
    BY <1>2, <1>3, <2>1, NumberInduction
<1>5. PICK f : Known(f, n + 1)
  BY <1>4
<1>6. \A a \in Addr : rank[a] < n + 1
  OBVIOUS
<1> DEFINE g == [a \in Addr |-> f[a]]
<1>7. ASSUME NEW a \in Addr
      PROVE  g[a] = MeaningBy(h, g, a)
  <2>1. \A i \in DOMAIN h[a].args : f[h[a].args[i]] = g[h[a].args[i]]
    BY OperandsOf
  <2>2. MeaningBy(h, f, a) = MeaningBy(h, g, a)
    <3> HIDE DEF g
    <3> QED
      BY <2>1, MeaningByOperands
  <2> QED
    BY <1>5, <1>6, <2>2
<1>8. g = [a \in Addr |-> MeaningBy(h, g, a)]
  <2>1. g = [a \in Addr |-> g[a]]
    OBVIOUS
  <2> HIDE DEF g
  <2> QED
    BY <1>7, <2>1
<1> DEFINE P(u) == u = [a \in Addr |-> MeaningBy(h, u, a)]
<1>9. P(g)
  BY <1>8
<1>10. Meanings(h) = CHOOSE u : P(u)
  BY DEF Meanings
<1> HIDE DEF P, g
<1>11. P(CHOOSE u : P(u))
  BY <1>9
<1>12. P(Meanings(h))
  BY <1>10, <1>11
<1> QED
  BY <1>12 DEF P

(* The meaning of an expression depends on the shapes of its parts only:   *)
(* of those in a set that operands do not lead out of.                     *)
LEMMA SameMeanings ==
  ASSUME NEW h, WellFormed(h), NEW g, WellFormed(g), NEW S \in SUBSET Addr,
         \A a \in S : /\ g[a].kind = h[a].kind /\ g[a].name = h[a].name
                      /\ g[a].args = h[a].args
                      /\ \A i \in DOMAIN h[a].args : h[a].args[i] \in S,
         NEW b \in S
  PROVE  Meanings(g)[b] = Meanings(h)[b]
<1> DEFINE T == {a \in Addr : a \in S => Meanings(g)[a] = Meanings(h)[a]}
<1>1. ASSUME NEW a \in Addr, \A i \in DOMAIN h[a].args : h[a].args[i] \in T
      PROVE  a \in T
  <2> SUFFICES ASSUME a \in S
               PROVE  Meanings(g)[a] = Meanings(h)[a]
    OBVIOUS
  <2>1. \A i \in DOMAIN h[a].args : Meanings(g)[h[a].args[i]] = Meanings(h)[h[a].args[i]]
    BY <1>1
  <2>2. Meanings(g)[a] = MeaningBy(g, Meanings(g), a)
    BY MeaningsAre
  <2>3. Meanings(h)[a] = MeaningBy(h, Meanings(h), a)
    BY MeaningsAre
  <2>4. MeaningBy(g, Meanings(g), a) = MeaningBy(h, Meanings(g), a)
    BY DEF MeaningBy
  <2>5. MeaningBy(h, Meanings(g), a) = MeaningBy(h, Meanings(h), a)
    BY <2>1, MeaningByOperands
  <2> QED
    BY <2>2, <2>3, <2>4, <2>5
<1>2. T \in SUBSET Addr
  OBVIOUS
<1>3. T = Addr
  <2> HIDE DEF T
  <2> QED
    BY <1>1, <1>2, ExpressionInduction
<1> QED
  BY <1>3

-----------------------------------------------------------------------------
(* Terms, and the expressions visited to make them.                        *)

TermBy(f, a) ==
  LET arg(i) == f[heap[a].args[i]]
  IN  CASE IsCached(a) -> cache[Key(a)]
        [] ~IsCached(a) /\ heap[a].kind = "symbol" -> Atom(Variable(heap[a].name))
        [] ~IsCached(a) /\ heap[a].kind = "lnot" -> Negation(arg(1))
        [] ~IsCached(a) /\ heap[a].kind = "land" -> Conjunction(arg(1), arg(2))
        [] ~IsCached(a) /\ heap[a].kind = "lor" -> Disjunction(arg(1), arg(2))
        [] OTHER -> Nothing

LEMMA TermByOperands ==
  ASSUME NEW a \in Addr, WellFormed(heap), NEW f, NEW g,
         \A i \in DOMAIN heap[a].args : f[heap[a].args[i]] = g[heap[a].args[i]]
  PROVE  TermBy(f, a) = TermBy(g, a)
<1>1. CASE heap[a].kind = "lnot"
  <2>1. f[heap[a].args[1]] = g[heap[a].args[1]]
    BY <1>1, OperandsOf
  <2> QED
    BY <1>1, <2>1 DEF TermBy
<1>2. CASE heap[a].kind \in {"land", "lor"}
  <2>1. /\ f[heap[a].args[1]] = g[heap[a].args[1]]
        /\ f[heap[a].args[2]] = g[heap[a].args[2]]
    BY <1>2, OperandsOf
  <2> QED
    BY <1>2, <2>1 DEF TermBy
<1>3. CASE heap[a].kind \in {"none", "symbol"}
  BY <1>3 DEF TermBy
<1> QED
  BY <1>1, <1>2, <1>3, OperandsOf DEF Kinds

LEMMA TermsAre ==
  ASSUME WellFormed(heap)
  PROVE  Term = [a \in Addr |-> TermBy(Term, a)]
<1>0. PICK n \in Nat : \E rank \in [Addr -> 0 .. n] : Ranks(heap, n, rank)
  BY DEF WellFormed
<1>1. PICK rank \in [Addr -> 0 .. n] : Ranks(heap, n, rank)
  BY <1>0
<1> DEFINE Known(f, k) == \A a \in Addr : rank[a] < k => f[a] = TermBy(f, a)
           N == {k \in Nat : \E f : Known(f, k)}
<1>2. 0 \in N
  OBVIOUS
<1>3. ASSUME NEW k \in N
      PROVE  k + 1 \in N
  <2>1. PICK f : Known(f, k)
    OBVIOUS
  <2> DEFINE g == [a \in Addr |-> TermBy(f, a)]
  <2>2. ASSUME NEW a \in Addr, rank[a] < k + 1
        PROVE  g[a] = TermBy(g, a)
    <3>1. ASSUME NEW i \in DOMAIN heap[a].args
          PROVE  f[heap[a].args[i]] = g[heap[a].args[i]]
      <4>1. heap[a].args[i] \in Addr
        BY OperandsOf
      <4>2. rank[heap[a].args[i]] < rank[a]
        BY <1>1 DEF Ranks
      <4>3. rank[heap[a].args[i]] \in Nat /\ rank[a] \in Nat /\ k \in Nat
        BY <4>1
      <4>4. rank[heap[a].args[i]] < k
        BY <2>2, <4>2, <4>3
      <4>5. f[heap[a].args[i]] = TermBy(f, heap[a].args[i])
        BY <2>1, <4>1, <4>4
      <4> QED
        BY <4>1, <4>5
    <3>2. TermBy(f, a) = TermBy(g, a)
      <4> HIDE DEF g
      <4> QED
        BY <3>1, TermByOperands
    <3> QED
      BY <3>2
  <2>3. Known(g, k + 1)
    BY <2>2
  <2>4. k + 1 \in Nat
    OBVIOUS
  <2> HIDE DEF g, Known
  <2> QED
    BY <2>3, <2>4
<1>4. N = Nat
  <2>1. N \in SUBSET Nat
    OBVIOUS
  <2> HIDE DEF N
  <2> QED
    BY <1>2, <1>3, <2>1, NumberInduction
<1>5. PICK f : Known(f, n + 1)
  BY <1>4
<1>6. \A a \in Addr : rank[a] < n + 1
  OBVIOUS
<1> DEFINE g == [a \in Addr |-> f[a]]
<1>7. ASSUME NEW a \in Addr
      PROVE  g[a] = TermBy(g, a)
  <2>1. \A i \in DOMAIN heap[a].args : f[heap[a].args[i]] = g[heap[a].args[i]]
    BY OperandsOf
  <2>2. TermBy(f, a) = TermBy(g, a)
    <3> HIDE DEF g
    <3> QED
      BY <2>1, TermByOperands
  <2> QED
    BY <1>5, <1>6, <2>2
<1>8. g = [a \in Addr |-> TermBy(g, a)]
  <2>1. g = [a \in Addr |-> g[a]]
    OBVIOUS
  <2> HIDE DEF g
  <2> QED
    BY <1>7, <2>1
<1> DEFINE P(u) == u = [a \in Addr |-> TermBy(u, a)]
<1>9. P(g)
  BY <1>8
<1>10. Term = CHOOSE u : P(u)
  BY DEF Term, TermBy
<1> HIDE DEF P, g
<1>11. P(CHOOSE u : P(u))
  BY <1>9
<1>12. P(Term)
  BY <1>10, <1>11
<1> QED
  BY <1>12 DEF P

VisitedBy(f, a) ==
  {a} \union
    IF IsCached(a) THEN {}
    ELSE UNION {f[heap[a].args[i]] : i \in DOMAIN heap[a].args}

LEMMA VisitedByOperands ==
  ASSUME NEW a \in Addr, WellFormed(heap), NEW f, NEW g,
         \A i \in DOMAIN heap[a].args : f[heap[a].args[i]] = g[heap[a].args[i]]
  PROVE  VisitedBy(f, a) = VisitedBy(g, a)
BY DEF VisitedBy

LEMMA VisitsAre ==
  ASSUME WellFormed(heap)
  PROVE  Visited = [a \in Addr |-> VisitedBy(Visited, a)]
<1>0. PICK n \in Nat : \E rank \in [Addr -> 0 .. n] : Ranks(heap, n, rank)
  BY DEF WellFormed
<1>1. PICK rank \in [Addr -> 0 .. n] : Ranks(heap, n, rank)
  BY <1>0
<1> DEFINE Known(f, k) == \A a \in Addr : rank[a] < k => f[a] = VisitedBy(f, a)
           N == {k \in Nat : \E f : Known(f, k)}
<1>2. 0 \in N
  OBVIOUS
<1>3. ASSUME NEW k \in N
      PROVE  k + 1 \in N
  <2>1. PICK f : Known(f, k)
    OBVIOUS
  <2> DEFINE g == [a \in Addr |-> VisitedBy(f, a)]
  <2>2. ASSUME NEW a \in Addr, rank[a] < k + 1
        PROVE  g[a] = VisitedBy(g, a)
    <3>1. ASSUME NEW i \in DOMAIN heap[a].args
          PROVE  f[heap[a].args[i]] = g[heap[a].args[i]]
      <4>1. heap[a].args[i] \in Addr
        BY OperandsOf
      <4>2. rank[heap[a].args[i]] < rank[a]
        BY <1>1 DEF Ranks
      <4>3. rank[heap[a].args[i]] \in Nat /\ rank[a] \in Nat /\ k \in Nat
        BY <4>1
      <4>4. rank[heap[a].args[i]] < k
        BY <2>2, <4>2, <4>3
      <4>5. f[heap[a].args[i]] = VisitedBy(f, heap[a].args[i])
        BY <2>1, <4>1, <4>4
      <4> QED
        BY <4>1, <4>5
    <3>2. VisitedBy(f, a) = VisitedBy(g, a)
      <4> HIDE DEF g
      <4> QED
        BY <3>1, VisitedByOperands
    <3> QED
      BY <3>2
  <2>3. Known(g, k + 1)
    BY <2>2
  <2>4. k + 1 \in Nat
    OBVIOUS
  <2> HIDE DEF g, Known
  <2> QED
    BY <2>3, <2>4
<1>4. N = Nat
  <2>1. N \in SUBSET Nat
    OBVIOUS
  <2> HIDE DEF N
  <2> QED
    BY <1>2, <1>3, <2>1, NumberInduction
<1>5. PICK f : Known(f, n + 1)
  BY <1>4
<1>6. \A a \in Addr : rank[a] < n + 1
  OBVIOUS
<1> DEFINE g == [a \in Addr |-> f[a]]
<1>7. ASSUME NEW a \in Addr
      PROVE  g[a] = VisitedBy(g, a)
  <2>1. \A i \in DOMAIN heap[a].args : f[heap[a].args[i]] = g[heap[a].args[i]]
    BY OperandsOf
  <2>2. VisitedBy(f, a) = VisitedBy(g, a)
    <3> HIDE DEF g
    <3> QED
      BY <2>1, VisitedByOperands
  <2> QED
    BY <1>5, <1>6, <2>2
<1>8. g = [a \in Addr |-> VisitedBy(g, a)]
  <2>1. g = [a \in Addr |-> g[a]]
    OBVIOUS
  <2> HIDE DEF g
  <2> QED
    BY <1>7, <2>1
<1> DEFINE P(u) == u = [a \in Addr |-> VisitedBy(u, a)]
<1>9. P(g)
  BY <1>8
<1>10. Visited = CHOOSE u : P(u)
  BY DEF Visited, VisitedBy
<1> HIDE DEF P, g
<1>11. P(CHOOSE u : P(u))
  BY <1>9
<1>12. P(Visited)
  BY <1>10, <1>11
<1> QED
  BY <1>12 DEF P

-----------------------------------------------------------------------------
(* Renaming variables commutes with the connectives.                       *)

IsFormula(f) == f = [over |-> f.over, models |-> f.models]

LEMMA RenamedAtom ==
  ASSUME NEW x, NEW r
  PROVE  Renamed(Atom(x), r) = Atom(r[x])
<1>1. {r[y] : y \in {x}} = {r[x]}
  OBVIOUS
<1>2. {M \in SUBSET {r[x]} : {y \in {x} : r[y] \in M} \in {{x}}} = {{r[x]}}
  <2>1. ASSUME NEW M \in SUBSET {r[x]}, {y \in {x} : r[y] \in M} = {x}
        PROVE  M = {r[x]}
    BY <2>1
  <2>2. {y \in {x} : r[y] \in {r[x]}} = {x}
    OBVIOUS
  <2> QED
    BY <2>1, <2>2
<1> QED
  BY <1>1, <1>2 DEF Renamed, Atom

LEMMA RenamedNothing ==
  ASSUME NEW r
  PROVE  Renamed(Nothing, r) = Nothing
BY DEF Renamed, Nothing

(* The values that the variables f is over get from those they are renamed *)
(* to                                                                      *)
Before(f, r, M) == {x \in f.over : r[x] \in M}

LEMMA RenamedIs ==
  ASSUME NEW f, NEW r
  PROVE  /\ IsFormula(Renamed(f, r))
         /\ Renamed(f, r).over = {r[x] : x \in f.over}
         /\ \A M \in SUBSET {r[x] : x \in f.over} :
               M \in Renamed(f, r).models <=> Before(f, r, M) \in f.models
         /\ Renamed(f, r).models \in SUBSET SUBSET {r[x] : x \in f.over}
BY DEF Renamed, IsFormula, Before

LEMMA SameFormula ==
  ASSUME NEW f, IsFormula(f), NEW g, IsFormula(g), f.over = g.over, f.models = g.models
  PROVE  f = g
BY DEF IsFormula

LEMMA NegationIs ==
  ASSUME NEW f, IsFormula(f)
  PROVE  /\ IsFormula(Negation(f)) /\ Negation(f).over = f.over
         /\ Negation(f).models = (SUBSET f.over) \ f.models
<1>1. PICK o, m : o = f.over /\ m = f.models
  OBVIOUS
<1>2. f = [over |-> o, models |-> m]
  BY <1>1 DEF IsFormula
<1>3. PICK n : n = (SUBSET o) \ m
  OBVIOUS
<1>4. [[over |-> o, models |-> m] EXCEPT !.models = n] = [over |-> o, models |-> n]
  OBVIOUS
<1>5. Negation(f) = [f EXCEPT !.models = n]
  BY <1>1, <1>3 DEF Negation
<1>6. Negation(f) = [over |-> o, models |-> n]
  BY <1>2, <1>4, <1>5
<1> QED
  BY <1>1, <1>3, <1>6 DEF IsFormula

LEMMA RenamedNegation ==
  ASSUME NEW f, IsFormula(f), NEW r
  PROVE  Renamed(Negation(f), r) = Negation(Renamed(f, r))
<1>0. PICK V : V = {r[x] : x \in f.over}
  OBVIOUS
<1>1. /\ Negation(f).over = f.over /\ Negation(f).models = (SUBSET f.over) \ f.models
      /\ Negation(Renamed(f, r)).over = V
      /\ Negation(Renamed(f, r)).models = (SUBSET V) \ Renamed(f, r).models
      /\ IsFormula(Negation(Renamed(f, r)))
  BY <1>0, NegationIs, RenamedIs
<1>2. Renamed(Negation(f), r).over = V /\ Renamed(Negation(f), r).models \in SUBSET SUBSET V
  BY <1>0, <1>1, RenamedIs
<1>3. ASSUME NEW M \in SUBSET V
      PROVE  M \in Renamed(Negation(f), r).models <=> M \notin Renamed(f, r).models
  <2>1. Before(Negation(f), r, M) = Before(f, r, M) /\ Before(f, r, M) \in SUBSET f.over
    BY <1>1 DEF Before
  <2>2. M \in Renamed(Negation(f), r).models <=> Before(Negation(f), r, M) \in Negation(f).models
    BY <1>0, <1>1, RenamedIs
  <2>3. M \in Renamed(f, r).models <=> Before(f, r, M) \in f.models
    BY <1>0, RenamedIs
  <2>4. Before(f, r, M) \in Negation(f).models <=> Before(f, r, M) \notin f.models
    BY <1>1, <2>1
  <2> QED
    BY <2>1, <2>2, <2>3, <2>4
<1>4. Renamed(Negation(f), r).models = Negation(Renamed(f, r)).models
  <2>1. PICK A, B, C : /\ A = Renamed(Negation(f), r).models /\ B = Renamed(f, r).models
                       /\ C = Negation(Renamed(f, r)).models
    OBVIOUS
  <2>2. A \in SUBSET SUBSET V /\ C = (SUBSET V) \ B
    BY <1>1, <1>2, <2>1
  <2>3. \A M \in SUBSET V : M \in A <=> M \notin B
    BY <1>3, <2>1
  <2>4. A = C
    BY <2>2, <2>3
  <2> QED
    BY <2>1, <2>4
<1>5. IsFormula(Renamed(Negation(f), r))
  BY RenamedIs
<1> QED
  BY <1>1, <1>2, <1>4, <1>5, SameFormula

LEMMA ConjunctionIs ==
  ASSUME NEW f, NEW g
  PROVE  /\ IsFormula(Conjunction(f, g))
         /\ Conjunction(f, g).over = f.over \union g.over
         /\ Conjunction(f, g).models \in SUBSET SUBSET (f.over \union g.over)
         /\ \A M \in SUBSET (f.over \union g.over) :
               M \in Conjunction(f, g).models
               <=> M \intersect f.over \in f.models /\ M \intersect g.over \in g.models
BY DEF Conjunction, ModelsOver, IsFormula

LEMMA RenamedConjunction ==
  ASSUME NEW f, NEW g, NEW r
  PROVE  Renamed(Conjunction(f, g), r) = Conjunction(Renamed(f, r), Renamed(g, r))
<1>1. PICK V, W : V = {r[x] : x \in f.over} /\ W = {r[x] : x \in g.over}
  OBVIOUS
<1>2. PICK c, d : c = Conjunction(f, g) /\ d = Conjunction(Renamed(f, r), Renamed(g, r))
  OBVIOUS
<1>3. c.over = f.over \union g.over /\ {r[x] : x \in c.over} = V \union W
  BY <1>1, <1>2, ConjunctionIs
<1>4. /\ IsFormula(d) /\ d.over = V \union W /\ d.models \in SUBSET SUBSET (V \union W)
      /\ \A M \in SUBSET (V \union W) :
            M \in d.models
            <=> M \intersect V \in Renamed(f, r).models /\ M \intersect W \in Renamed(g, r).models
  <2>1. Renamed(f, r).over = V /\ Renamed(g, r).over = W
    BY <1>1, RenamedIs
  <2>2. PICK p, q : p = Renamed(f, r) /\ q = Renamed(g, r)
    OBVIOUS
  <2>3. d = Conjunction(p, q) /\ p.over = V /\ q.over = W
    BY <1>2, <2>1, <2>2
  <2>4. /\ IsFormula(d) /\ d.over = V \union W /\ d.models \in SUBSET SUBSET (V \union W)
        /\ \A M \in SUBSET (V \union W) :
            M \in d.models <=> M \intersect V \in p.models /\ M \intersect W \in q.models
    BY <2>3, ConjunctionIs
  <2> QED
    BY <2>2, <2>4
<1>5. /\ IsFormula(Renamed(c, r)) /\ Renamed(c, r).over = V \union W
      /\ Renamed(c, r).models \in SUBSET SUBSET (V \union W)
  BY <1>3, RenamedIs
<1>6. ASSUME NEW M \in SUBSET (V \union W)
      PROVE  M \in Renamed(c, r).models <=> M \in d.models
  <2>1. M \in Renamed(c, r).models <=> Before(c, r, M) \in c.models
    BY <1>3, RenamedIs
  <2>2. Before(c, r, M) \in SUBSET (f.over \union g.over)
    BY <1>3 DEF Before
  <2>3. Before(c, r, M) \in c.models
        <=> /\ Before(c, r, M) \intersect f.over \in f.models
            /\ Before(c, r, M) \intersect g.over \in g.models
    BY <1>2, <2>2, ConjunctionIs
  <2>4. /\ Before(c, r, M) \intersect f.over = Before(f, r, M \intersect V)
        /\ Before(c, r, M) \intersect g.over = Before(g, r, M \intersect W)
    BY <1>1, <1>3 DEF Before
  <2>5. /\ M \intersect V \in Renamed(f, r).models <=> Before(f, r, M \intersect V) \in f.models
        /\ M \intersect W \in Renamed(g, r).models <=> Before(g, r, M \intersect W) \in g.models
    <3>1. M \intersect V \in SUBSET V /\ M \intersect W \in SUBSET W
      OBVIOUS
    <3> QED
      BY <1>1, <3>1, RenamedIs
  <2> QED
    BY <1>4, <2>1, <2>3, <2>4, <2>5
<1>7. Renamed(c, r).models = d.models
  BY <1>4, <1>5, <1>6
<1> QED
  BY <1>2, <1>4, <1>5, <1>7, SameFormula

LEMMA RenamedDisjunction ==
  ASSUME NEW f, IsFormula(f), NEW g, IsFormula(g), NEW r
  PROVE  Renamed(Disjunction(f, g), r) = Disjunction(Renamed(f, r), Renamed(g, r))
<1>1. PICK c : c = Conjunction(Negation(f), Negation(g))
  OBVIOUS
<1>2. Renamed(Negation(c), r) = Negation(Renamed(c, r))
  BY <1>1, ConjunctionIs, RenamedNegation
<1>3. Renamed(c, r) = Conjunction(Renamed(Negation(f), r), Renamed(Negation(g), r))
  BY <1>1, RenamedConjunction
<1>4. /\ Renamed(Negation(f), r) = Negation(Renamed(f, r))
      /\ Renamed(Negation(g), r) = Negation(Renamed(g, r))
  BY RenamedNegation
<1> QED
  BY <1>1, <1>2, <1>3, <1>4 DEF Disjunction

-----------------------------------------------------------------------------
(* New variables.                                                          *)

(* Of any finite number of variables one is not among them. *)
LEMMA SomeUnused ==
  ASSUME NEW U, IsFiniteSet(U), NEW s
  PROVE  \E n \in 0 .. Cardinality(U) : <<s, n>> \notin U
<1> SUFFICES ASSUME \A n \in 0 .. Cardinality(U) : <<s, n>> \in U
             PROVE  FALSE
  OBVIOUS
<1>1. PICK K \in Nat : K = Cardinality(U)
  BY FS_CardinalityType
<1>2. PICK I : I = 0 .. K
  OBVIOUS
<1>3. IsFiniteSet(I) /\ Cardinality(I) = K + 1
  <2>1. IsFiniteSet(0 .. K) /\ Cardinality(0 .. K) = IF 0 > K THEN 0 ELSE K - 0 + 1
    BY FS_Interval
  <2> QED
    BY <1>2, <2>1
<1> DEFINE T == {<<s, n>> : n \in I}
           f == [n \in I |-> <<s, n>>]
<1>4. f \in Bijection(I, T)
  <2>1. f \in [I -> T]
    OBVIOUS
  <2>2. \A m, n \in I : f[m] = f[n] => m = n
    OBVIOUS
  <2>3. \A t \in T : \E n \in I : f[n] = t
    OBVIOUS
  <2> QED
    BY <2>1, <2>2, <2>3 DEF Bijection, Injection, Surjection, IsInjective
<1>5. IsFiniteSet(T) /\ Cardinality(T) = Cardinality(I)
  <2>1. ExistsBijection(I, T)
    BY <1>4 DEF ExistsBijection
  <2> HIDE DEF T, f
  <2> QED
    BY <1>3, <2>1, FS_Bijection
<1>6. T \in SUBSET U
  BY <1>1, <1>2
<1>7. Cardinality(T) <= Cardinality(U)
  <2> HIDE DEF T, f
  <2> QED
    BY <1>6, FS_Subset
<1>8. K + 1 <= K
  BY <1>1, <1>3, <1>5, <1>7
<1> QED
  BY <1>1, <1>8

LEMMA VariableIs ==
  ASSUME IsFiniteSet(VariablesInUse), NEW s
  PROVE  /\ \E n \in Nat : Variable(s) = <<s, n>>
         /\ backend = "cvc4" => Variable(s) \notin VariablesInUse
<1>1. CASE backend # "cvc4"
  BY <1>1 DEF Variable
<1>2. CASE backend = "cvc4"
  <2>0. PICK U : U = VariablesInUse
    OBVIOUS
  <2>1. PICK K \in Nat : K = Cardinality(U)
    BY <2>0, FS_CardinalityType
  <2> DEFINE M == {n \in 0 .. K : <<s, n>> \notin U}
             P(n) == <<s, n>> \notin U /\ \A m \in 0 .. n - 1 : <<s, m>> \in U
  <2>2. M \in SUBSET Nat /\ M # {}
    BY <2>0, <2>1, SomeUnused
  <2>3. PICK n \in M : \A k \in M : n <= k
    <3> HIDE DEF M
    <3> QED
      BY <2>2, LeastNumber
  <2>4. n \in 0 .. K /\ P(n)
    <3>1. ASSUME NEW m \in 0 .. n - 1
          PROVE  <<s, m>> \in U
      <4>1. m \in 0 .. K /\ ~(n <= m)
        BY <2>1
      <4> QED
        BY <2>3, <4>1
    <3> QED
      BY <3>1
  <2>5. Variable(s) = <<s, CHOOSE k \in 0 .. K : P(k)>>
    BY <1>2, <2>0, <2>1 DEF Variable
  <2> HIDE DEF P
  <2>6. PICK k : k = CHOOSE i \in 0 .. K : P(i)
    OBVIOUS
  <2>7. k \in 0 .. K /\ P(k)
    BY <2>4, <2>6
  <2>8. k \in Nat /\ <<s, k>> \notin U
    BY <2>7 DEF P
  <2> QED
    BY <2>0, <2>5, <2>6, <2>8
<1> QED
  BY <1>1, <1>2

-----------------------------------------------------------------------------
(* What a term means.                                                      *)

IsTerm(t) == IsFormula(t) /\ IsFiniteSet(t.over) /\ t.over \subseteq Symbol \X Nat

(* The terms cached are those of the expressions that are there now, or    *)
(* are about to be deleted.                                                *)
FiledBySymbol == backend = "cvc4" /\ ~consing

CacheOK ==
  /\ IsFiniteSet(DOMAIN cache)
  /\ DOMAIN cache \subseteq IF FiledBySymbol THEN Symbol ELSE Addr
  /\ \A k \in DOMAIN cache : IsTerm(cache[k])
  /\ \A k \in DOMAIN cache \intersect Addr :
       \/ k \in Deleting
       \/ /\ heap[k].refs > 0 /\ MeaningOfTerm(cache[k]) = Meaning[k]
          /\ backend = "cvc4" => heap[k].kind = "symbol"
  /\ \A s \in DOMAIN cache \intersect Symbol : MeaningOfTerm(cache[s]) = Atom(s)
  /\ backend = "cvc4" => \A k \in DOMAIN cache : \E x \in Symbol \X Nat : cache[k] = Atom(x)

LEMMA AtomIsTerm ==
  ASSUME NEW x \in Symbol \X Nat
  PROVE  IsTerm(Atom(x)) /\ MeaningOfTerm(Atom(x)) = Atom(x[1]) /\ Atom(x).over = {x}
<1>1. Atom(x) = [over |-> {x}, models |-> {{x}}]
  BY DEF Atom
<1>2. IsFiniteSet({x})
  BY FS_Singleton
<1>3. IsTerm(Atom(x))
  BY <1>1, <1>2 DEF IsTerm, IsFormula
<1>4. SymbolOf[x] = x[1]
  BY DEF SymbolOf
<1>5. MeaningOfTerm(Atom(x)) = Atom(SymbolOf[x])
  BY RenamedAtom DEF MeaningOfTerm
<1> QED
  BY <1>1, <1>3, <1>4, <1>5

LEMMA NothingIsTerm ==
  IsTerm(Nothing) /\ MeaningOfTerm(Nothing) = Nothing /\ Nothing.over = {}
<1>1. IsFiniteSet({})
  BY FS_EmptySet
<1> QED
  BY <1>1, RenamedNothing DEF IsTerm, IsFormula, Nothing, MeaningOfTerm

LEMMA ConnectivesOfTerms ==
  ASSUME NEW t, IsTerm(t), NEW u, IsTerm(u)
  PROVE  /\ IsTerm(Negation(t)) /\ MeaningOfTerm(Negation(t)) = Negation(MeaningOfTerm(t))
         /\ Negation(t).over = t.over
         /\ IsTerm(Conjunction(t, u))
         /\ MeaningOfTerm(Conjunction(t, u)) = Conjunction(MeaningOfTerm(t), MeaningOfTerm(u))
         /\ Conjunction(t, u).over = t.over \union u.over
         /\ IsTerm(Disjunction(t, u))
         /\ MeaningOfTerm(Disjunction(t, u)) = Disjunction(MeaningOfTerm(t), MeaningOfTerm(u))
         /\ Disjunction(t, u).over = t.over \union u.over
<1>1. /\ IsFormula(t) /\ IsFiniteSet(t.over) /\ t.over \subseteq Symbol \X Nat
      /\ IsFormula(u) /\ IsFiniteSet(u.over) /\ u.over \subseteq Symbol \X Nat
  BY DEF IsTerm
<1>2. IsFiniteSet(t.over \union u.over)
  BY <1>1, FS_Union
<1>3. /\ IsFormula(Negation(t)) /\ Negation(t).over = t.over
      /\ IsFormula(Negation(u)) /\ Negation(u).over = u.over
  BY <1>1, NegationIs
<1>4. IsFormula(Conjunction(t, u)) /\ Conjunction(t, u).over = t.over \union u.over
  BY ConjunctionIs
<1>5. IsFormula(Disjunction(t, u)) /\ Disjunction(t, u).over = t.over \union u.over
  <2>1. PICK c : c = Conjunction(Negation(t), Negation(u))
    OBVIOUS
  <2>2. IsFormula(c) /\ c.over = t.over \union u.over
    BY <1>3, <2>1, ConjunctionIs
  <2>3. IsFormula(Negation(c)) /\ Negation(c).over = c.over
    BY <2>2, NegationIs
  <2> QED
    BY <2>1, <2>2, <2>3 DEF Disjunction
<1>6. /\ MeaningOfTerm(Negation(t)) = Negation(MeaningOfTerm(t))
      /\ MeaningOfTerm(Conjunction(t, u)) = Conjunction(MeaningOfTerm(t), MeaningOfTerm(u))
      /\ MeaningOfTerm(Disjunction(t, u)) = Disjunction(MeaningOfTerm(t), MeaningOfTerm(u))
  BY <1>1, RenamedNegation, RenamedConjunction, RenamedDisjunction DEF MeaningOfTerm
<1> QED
  BY <1>1, <1>2, <1>3, <1>4, <1>5, <1>6 DEF IsTerm

(* The term a back end makes of an expression means what that means.       *)
LEMMA TermsMean ==
  ASSUME HeapOK, WellFormed(heap), CacheOK, Deleting = {}, IsFiniteSet(VariablesInUse),
         NEW b \in Addr
  PROVE  IsTerm(Term[b]) /\ MeaningOfTerm(Term[b]) = Meaning[b]
<1> DEFINE S == {a \in Addr : IsTerm(Term[a]) /\ MeaningOfTerm(Term[a]) = Meaning[a]}
<1>1. ASSUME NEW a \in Addr, \A i \in DOMAIN heap[a].args : heap[a].args[i] \in S
      PROVE  a \in S
  <2>1. Term[a] = TermBy(Term, a) /\ Meaning[a] = MeaningBy(heap, Meaning, a)
    BY TermsAre, MeaningsAre, MeaningsNow
  <2>2. CASE IsCached(a)
    <3>1. Term[a] = cache[Key(a)] /\ Key(a) \in DOMAIN cache /\ Caches(a)
      BY <2>1, <2>2 DEF TermBy, IsCached
    <3>2. IsTerm(Term[a])
      BY <3>1 DEF CacheOK
    <3>3. CASE FiledBySymbol
      <4>1. heap[a].kind = "symbol" /\ Key(a) = heap[a].name /\ heap[a].name \in Symbol
        BY <3>1, <3>3 DEF FiledBySymbol, Caches, Key, HeapOK
      <4>2. Meaning[a] = Atom(heap[a].name)
        BY <2>1, <4>1 DEF MeaningBy
      <4> QED
        BY <3>1, <3>2, <4>1, <4>2 DEF CacheOK
    <3>4. CASE ~FiledBySymbol
      <4>1. Key(a) = a
        BY <3>4 DEF FiledBySymbol, Key
      <4> QED
        BY <3>1, <3>2, <4>1 DEF CacheOK
    <3> QED
      BY <3>3, <3>4
  <2>3. CASE ~IsCached(a) /\ heap[a].kind = "symbol"
    <3>1. Term[a] = Atom(Variable(heap[a].name)) /\ heap[a].name \in Symbol
      BY <2>1, <2>3 DEF TermBy, HeapOK
    <3>2. PICK n \in Nat : Variable(heap[a].name) = <<heap[a].name, n>>
      BY VariableIs
    <3>3. Meaning[a] = Atom(heap[a].name)
      BY <2>1, <2>3 DEF MeaningBy
    <3> QED
      BY <3>1, <3>2, <3>3, AtomIsTerm
  <2>4. CASE ~IsCached(a) /\ heap[a].kind = "lnot"
    <3>1. 1 \in DOMAIN heap[a].args
      BY <2>4, OperandsOf
    <3>2. Term[a] = Negation(Term[heap[a].args[1]]) /\ Meaning[a] = Negation(Meaning[heap[a].args[1]])
      BY <2>1, <2>4 DEF TermBy, MeaningBy
    <3> QED
      BY <1>1, <3>1, <3>2, ConnectivesOfTerms
  <2>5. CASE ~IsCached(a) /\ heap[a].kind = "land"
    <3>1. 1 \in DOMAIN heap[a].args /\ 2 \in DOMAIN heap[a].args
      BY <2>5, OperandsOf
    <3>2. /\ Term[a] = Conjunction(Term[heap[a].args[1]], Term[heap[a].args[2]])
          /\ Meaning[a] = Conjunction(Meaning[heap[a].args[1]], Meaning[heap[a].args[2]])
      BY <2>1, <2>5 DEF TermBy, MeaningBy
    <3> QED
      BY <1>1, <3>1, <3>2, ConnectivesOfTerms
  <2>6. CASE ~IsCached(a) /\ heap[a].kind = "lor"
    <3>1. 1 \in DOMAIN heap[a].args /\ 2 \in DOMAIN heap[a].args
      BY <2>6, OperandsOf
    <3>2. /\ Term[a] = Disjunction(Term[heap[a].args[1]], Term[heap[a].args[2]])
          /\ Meaning[a] = Disjunction(Meaning[heap[a].args[1]], Meaning[heap[a].args[2]])
      BY <2>1, <2>6 DEF TermBy, MeaningBy
    <3> QED
      BY <1>1, <3>1, <3>2, ConnectivesOfTerms
  <2>7. CASE ~IsCached(a) /\ heap[a].kind = "none"
    <3>1. Term[a] = Nothing /\ Meaning[a] = Nothing
      BY <2>1, <2>7 DEF TermBy, MeaningBy
    <3> QED
      BY <3>1, NothingIsTerm
  <2> QED
    BY <2>2, <2>3, <2>4, <2>5, <2>6, <2>7, OperandsOf DEF Kinds
<1>2. S \in SUBSET Addr
  OBVIOUS
<1>3. S = Addr
  <2> HIDE DEF S
  <2> QED
    BY <1>1, <1>2, ExpressionInduction
<1> QED
  BY <1>3

-----------------------------------------------------------------------------
(* What a step leaves of the expressions.                                  *)

(* The operands of what is there are there. *)
LEMMA OperandsLive ==
  ASSUME Memory, NEW a \in Addr, heap[a].refs >= 1, NEW i \in DOMAIN heap[a].args
  PROVE  heap[a].args[i] \in Addr /\ heap[heap[a].args[i]].refs >= 1
<1>1. HeapOK /\ PointersOK /\ Counts
  BY DEF Memory
<1>2. heap[a].args \in Seq(Addr) /\ Len(heap[a].args) <= 2
  BY <1>1, ExprType
<1>3. PICK b \in Addr : b = heap[a].args[i]
  BY <1>2
<1>4. i \in {1, 2}
  BY <1>2
<1>5. a \notin Deleting
  BY Live
<1>6. <<a, i>> \in OperandsIn(heap, Deleting, b)
  BY <1>3, <1>4, <1>5 DEF OperandsIn
<1>7. PICK S : S = OperandsIn(heap, Deleting, b)
  OBVIOUS
<1>8. IsFiniteSet(S) /\ Cardinality(S) \in Nat /\ S # {}
  BY <1>6, <1>7, OperandsType
<1>9. Cardinality(S) >= 1
  <2>1. Cardinality(S) # 0
    BY <1>8, FS_EmptySet
  <2> QED
    BY <1>8, <2>1
<1>10. heap[b].refs = Pointers(b)
  BY <1>1 DEF Counts
<1>11. heap[b].refs >= 1
  BY <1>1, <1>7, <1>9, <1>10, PointersAre
<1> QED
  BY <1>3, <1>11

LEMMA OperandsNow ==
  Memory => \A c \in Addr : heap[c].refs >= 1 =>
              \A j \in DOMAIN heap[c].args : heap[heap[c].args[j]].refs >= 1
BY OperandsLive

LEMMA OperandsThen ==
  Memory' => (\A c \in Addr : heap[c].refs >= 1 =>
                \A j \in DOMAIN heap[c].args : heap[heap[c].args[j]].refs >= 1)'
BY OperandsNow, PTL

(* The expressions that are there before a step and after it keep their    *)
(* shapes,                                                                 *)
Lasting == {a \in Addr : heap[a].refs >= 1 /\ heap'[a].refs >= 1}

ShapesLast == \A a \in Lasting : /\ heap'[a].kind = heap[a].kind
                                 /\ heap'[a].name = heap[a].name
                                 /\ heap'[a].args = heap[a].args

LEMMA OperandsLast ==
  ASSUME Memory, Memory', ShapesLast, NEW a \in Lasting, NEW i \in DOMAIN heap[a].args
  PROVE  heap[a].args[i] \in Lasting
<1>1. a \in Addr /\ heap[a].refs >= 1 /\ heap'[a].refs >= 1 /\ heap'[a].args = heap[a].args
  BY DEF Lasting, ShapesLast
<1>2. heap[a].args[i] \in Addr /\ heap[heap[a].args[i]].refs >= 1
  BY <1>1, OperandsLive
<1>4. heap'[heap'[a].args[i]].refs >= 1
  BY <1>1, OperandsThen
<1> QED
  BY <1>1, <1>2, <1>4 DEF Lasting

(* and their meanings. *)
LEMMA MeaningsLast ==
  ASSUME Memory, Memory', WellFormed(heap), WellFormed(heap'), ShapesLast, NEW a \in Lasting
  PROVE  Meaning'[a] = Meaning[a]
<1>1. PICK S \in SUBSET Addr : S = Lasting
  BY DEF Lasting
<1>2. \A b \in S : /\ heap'[b].kind = heap[b].kind /\ heap'[b].name = heap[b].name
                   /\ heap'[b].args = heap[b].args
                   /\ \A i \in DOMAIN heap[b].args : heap[b].args[i] \in S
  BY <1>1, OperandsLast DEF ShapesLast
<1>3. Meanings(heap')[a] = Meanings(heap)[a]
  BY <1>1, <1>2, SameMeanings
<1> QED
  BY <1>3, MeaningsNow, MeaningsThen

LEMMA WellFormedSame ==
  ASSUME NEW h, NEW g, WellFormed(h),
         \A a \in Addr : g[a].kind = h[a].kind /\ g[a].args = h[a].args
  PROVE  WellFormed(g)
<1>1. \A n \in Nat : \A rank \in [Addr -> 0 .. n] : Ranks(h, n, rank) => Ranks(g, n, rank)
  BY DEF Ranks
<1> QED
  BY <1>1 DEF WellFormed

(* An expression is deleted. *)
LEMMA WellFormedLess ==
  ASSUME NEW h, NEW g, WellFormed(h), NEW b \in Addr,
         \A a \in Addr \ {b} : g[a].kind = h[a].kind /\ g[a].args = h[a].args,
         g[b].kind = "none", g[b].args = << >>
  PROVE  WellFormed(g)
<1>1. \A n \in Nat : \A rank \in [Addr -> 0 .. n] : Ranks(h, n, rank) => Ranks(g, n, rank)
  BY DEF Ranks
<1>2. \A a \in Addr :
        g[a].kind \in Kinds /\ g[a].args \in Seq(Addr) /\ Len(g[a].args) = Arity(g[a].kind)
  <2>1. "none" \in Kinds /\ Arity("none") = 0
    BY DEF Kinds, Arity
  <2>2. << >> \in Seq(Addr) /\ Len(<< >>) = 0
    OBVIOUS
  <2> QED
    BY <2>1, <2>2 DEF WellFormed
<1> QED
  BY <1>1, <1>2 DEF WellFormed

(* An expression is made where nothing pointed to. *)
LEMMA WellFormedMore ==
  ASSUME NEW h, NEW g, WellFormed(h), NEW b \in Addr,
         \A a \in Addr \ {b} : g[a].kind = h[a].kind /\ g[a].args = h[a].args,
         g[b].kind \in Kinds, g[b].args \in Seq(Addr \ {b}), Len(g[b].args) = Arity(g[b].kind),
         \A a \in Addr : \A i \in DOMAIN h[a].args : h[a].args[i] # b
  PROVE  WellFormed(g)
<1>1. PICK n \in Nat : \E rank \in [Addr -> 0 .. n] : Ranks(h, n, rank)
  BY DEF WellFormed
<1>2. PICK rank \in [Addr -> 0 .. n] : Ranks(h, n, rank)
  BY <1>1
<1>3. PICK next : next = [a \in Addr |-> IF a = b THEN n + 1 ELSE rank[a]]
  OBVIOUS
<1>4. n + 1 \in Nat /\ next \in [Addr -> 0 .. n + 1]
  BY <1>3
<1>5. ASSUME NEW a \in Addr, NEW i \in DOMAIN g[a].args
      PROVE  next[g[a].args[i]] < next[a]
  <2>1. CASE a = b
    <3>1. g[b].args[i] \in Addr /\ g[b].args[i] # b
      BY <1>5, <2>1
    <3>2. next[g[b].args[i]] = rank[g[b].args[i]] /\ next[b] = n + 1
      BY <1>3, <3>1
    <3>3. rank[g[b].args[i]] \in 0 .. n
      BY <3>1
    <3> QED
      BY <2>1, <3>2, <3>3
  <2>2. CASE a # b
    <3>1. g[a].args = h[a].args /\ h[a].args[i] # b /\ h[a].args[i] \in Addr
      BY <1>5, <2>2, OperandsOf
    <3>2. next[h[a].args[i]] = rank[h[a].args[i]] /\ next[a] = rank[a]
      BY <1>3, <2>2, <3>1
    <3>3. rank[h[a].args[i]] < rank[a]
      BY <1>2, <1>5, <3>1 DEF Ranks
    <3> QED
      BY <3>1, <3>2, <3>3
  <2> QED
    BY <2>1, <2>2
<1>6. Ranks(g, n + 1, next)
  BY <1>4, <1>5 DEF Ranks
<1>7. \A a \in Addr :
        g[a].kind \in Kinds /\ g[a].args \in Seq(Addr) /\ Len(g[a].args) = Arity(g[a].kind)
  <2>1. g[b].args \in Seq(Addr)
    OBVIOUS
  <2> QED
    BY <2>1 DEF WellFormed
<1> QED
  BY <1>4, <1>6, <1>7 DEF WellFormed

ShapesKept == \A a \in Addr : heap[a].refs >= 1 => /\ heap'[a].kind = heap[a].kind
                                                   /\ heap'[a].name = heap[a].name
                                                   /\ heap'[a].args = heap[a].args

LEMMA SameShapesKept ==
  ASSUME WellFormed(heap), SameShapes
  PROVE  WellFormed(heap') /\ ShapesKept
<1>1. \A a \in Addr : /\ heap'[a].kind = heap[a].kind /\ heap'[a].name = heap[a].name
                      /\ heap'[a].args = heap[a].args
  BY DEF SameShapes, ShapeAt, Shape
<1> QED
  BY <1>1, WellFormedSame DEF ShapesKept

LEMMA Recounted ==
  ASSUME NEW s, NEW r, r = [kind |-> s.kind, name |-> s.name, args |-> s.args, refs |-> s.refs],
         NEW n
  PROVE  /\ [r EXCEPT !.refs = @ + n].kind = s.kind
         /\ [r EXCEPT !.refs = @ + n].name = s.name
         /\ [r EXCEPT !.refs = @ + n].args = s.args
OBVIOUS

LEMMA ShapesMade ==
  ASSUME HeapOK, NEW b \in Addr, NEW shape, NEW ptrs,
         heap' = Inc([heap EXCEPT ![b] = Unreferenced(shape)], ptrs)
  PROVE  /\ \A a \in Addr \ {b} : /\ heap'[a].kind = heap[a].kind
                                  /\ heap'[a].name = heap[a].name
                                  /\ heap'[a].args = heap[a].args
         /\ heap'[b].kind = shape.kind /\ heap'[b].name = shape.name
         /\ heap'[b].args = shape.args
<1> DEFINE h == [heap EXCEPT ![b] = Unreferenced(shape)]
<1>1. h[b] = Unreferenced(shape) /\ \A a \in Addr \ {b} : h[a] = heap[a]
  BY DEF HeapOK
<1>2. \A a \in Addr : heap'[a] = [h[a] EXCEPT !.refs = @ + Occurrences(ptrs, a)]
  BY DEF Inc
<1> HIDE DEF h
<1>3. ASSUME NEW a \in Addr \ {b}
      PROVE  /\ heap'[a].kind = heap[a].kind /\ heap'[a].name = heap[a].name
             /\ heap'[a].args = heap[a].args
  <2>1. heap[a] = [kind |-> heap[a].kind, name |-> heap[a].name,
                   args |-> heap[a].args, refs |-> heap[a].refs]
    BY ExprType
  <2>2. heap'[a] = [heap[a] EXCEPT !.refs = @ + Occurrences(ptrs, a)]
    BY <1>1, <1>2
  <2> QED
    BY <2>1, <2>2, Recounted
<1>4. /\ heap'[b].kind = shape.kind /\ heap'[b].name = shape.name
      /\ heap'[b].args = shape.args
  <2>1. PICK r : r = Unreferenced(shape)
    OBVIOUS
  <2>2. r = [kind |-> r.kind, name |-> r.name, args |-> r.args, refs |-> r.refs]
    BY <2>1 DEF Unreferenced
  <2>3. heap'[b] = [r EXCEPT !.refs = @ + Occurrences(ptrs, b)]
    BY <1>1, <1>2, <2>1
  <2>4. heap'[b].kind = r.kind /\ heap'[b].name = r.name /\ heap'[b].args = r.args
    BY <2>2, <2>3, Recounted
  <2> QED
    BY <2>1, <2>4 DEF Unreferenced
<1> QED
  BY <1>3, <1>4

HasArity(shape) == IsShape(shape) /\ Len(shape.args) = Arity(shape.kind)

LEMMA ShapesMake ==
  ASSUME Memory, WellFormed(heap), NEW v \in Handle, NEW shape, HasArity(shape),
         make_shared_expr(v, shape)
  PROVE  WellFormed(heap') /\ ShapesKept
<1>1. HeapOK /\ OnItsWayOut /\ StoreOK
  BY DEF Memory
<1>2. CASE consing /\ Interned(shape) # {}
  <2>1. PICK a \in Interned(shape) : heap' = Inc(heap, <<a>>)
    BY <1>2 DEF make_shared_expr
  <2>2. <<a>> \in Seq(AddrOrNull)
    BY <1>1 DEF Interned, StoreOK, AddrOrNull
  <2>3. SameShapes
    BY <1>1, <2>1, <2>2, IncEffect
  <2> QED
    BY <2>3, SameShapesKept
<1>3. CASE ~(consing /\ Interned(shape) # {})
  <2>1. PICK b \in Addr : /\ IsFree(b)
                          /\ heap' = Inc([heap EXCEPT ![b] = Unreferenced(shape)],
                                         <<b>> \o shape.args)
    BY <1>3 DEF make_shared_expr
  <2>2. /\ \A a \in Addr \ {b} : /\ heap'[a].kind = heap[a].kind
                                 /\ heap'[a].name = heap[a].name
                                 /\ heap'[a].args = heap[a].args
        /\ heap'[b].kind = shape.kind /\ heap'[b].name = shape.name
        /\ heap'[b].args = shape.args
    BY <1>1, <2>1, ShapesMade
  <2>3. heap[b].refs = 0 /\ heap[b].kind = "none"
    BY <1>1, <2>1 DEF HeapOK, NoExpr, Unreferenced, Shape, IsFree
  <2>4. /\ shape.kind \in Kinds /\ Len(shape.args) = Arity(shape.kind)
        /\ shape.args \in Seq(Addr \ {b})
    BY <2>3 DEF HasArity, IsShape, Operand
  <2>5. ASSUME NEW a \in Addr, NEW i \in DOMAIN heap[a].args
        PROVE  heap[a].args[i] # b
    <3>1. Idle
      BY DEF make_shared_expr
    <3>2. Deleting = {}
      BY <3>1, IdleNow
    <3>3. ~IsFree(a)
      BY <2>5, OperandsOf DEF IsFree
    <3>4. heap[a].refs >= 1
      <4>1. heap[a].refs # 0
        BY <1>1, <3>2, <3>3 DEF OnItsWayOut
      <4> QED
        BY <4>1, Live
    <3>5. heap[heap[a].args[i]].refs >= 1
      BY <2>5, <3>4, OperandsLive
    <3> QED
      BY <2>3, <3>5
  <2>6. WellFormed(heap')
    BY <2>2, <2>4, <2>5, WellFormedMore
  <2>7. ShapesKept
    BY <2>2, <2>3 DEF ShapesKept
  <2> QED
    BY <2>6, <2>7
<1> QED
  BY <1>2, <1>3

LEMMA ShapesExpress ==
  ASSUME Memory, WellFormed(heap), NEW connectives, connectives \subseteq {"land", "lor"},
         ExprNext(connectives)
  PROVE  WellFormed(heap') /\ ShapesKept
<1>1. \A u \in Handle : handle[u] # Null => handle[u] \in Operand
  BY HandleType DEF Operand
<1>2. ASSUME NEW v \in Handle, NEW w \in Handle, NewNegation(v, w)
      PROVE  WellFormed(heap') /\ ShapesKept
  <2>1. PICK shape : shape = Shape("lnot", Null, <<handle[w]>>)
    OBVIOUS
  <2>2. HasArity(shape)
    BY <1>1, <1>2, <2>1 DEF NewNegation, HasArity, IsShape, Shape, Kinds, Arity
  <2> QED
    BY <1>2, <2>1, <2>2, ShapesMake DEF NewNegation
<1>3. ASSUME NEW v \in Handle, NEW s \in Symbol, NewSymbol(v, s)
      PROVE  WellFormed(heap') /\ ShapesKept
  <2>1. PICK shape : shape = Shape("symbol", s, << >>)
    OBVIOUS
  <2>2. HasArity(shape)
    BY <2>1 DEF HasArity, IsShape, Shape, Kinds, Arity
  <2> QED
    BY <1>3, <2>1, <2>2, ShapesMake DEF NewSymbol
<1>4. ASSUME NEW v \in Handle, NEW op \in connectives, NEW u \in Handle, NEW w \in Handle,
             NewBinary(v, op, u, w)
      PROVE  WellFormed(heap') /\ ShapesKept
  <2>1. PICK shape : shape = Shape(op, Null, <<handle[u], handle[w]>>)
    OBVIOUS
  <2>2. HasArity(shape)
    <3>1. op \in Kinds \ {"none"} /\ op # "symbol" /\ Arity(op) = 2
      BY DEF Kinds, Arity
    <3>2. handle[u] \in Operand /\ handle[w] \in Operand
      BY <1>1, <1>4 DEF NewBinary
    <3> QED
      BY <2>1, <3>1, <3>2 DEF HasArity, IsShape, Shape
  <2> QED
    BY <1>4, <2>1, <2>2, ShapesMake DEF NewBinary
<1>5. ASSUME NEW v \in Handle, NEW w \in Handle, Copy(v, w)
      PROVE  WellFormed(heap') /\ ShapesKept
  <2>1. heap' = Inc(heap, <<handle[w]>>) /\ <<handle[w]>> \in Seq(AddrOrNull)
    BY <1>5, HandleType DEF Copy
  <2>2. SameShapes
    BY <2>1, IncEffect DEF Memory
  <2> QED
    BY <2>2, SameShapesKept
<1>6. ASSUME UNCHANGED heap
      PROVE  WellFormed(heap') /\ ShapesKept
  <2>1. SameShapes
    BY <1>6 DEF SameShapes, ShapeAt
  <2> QED
    BY <2>1, SameShapesKept
<1>7. ASSUME NEW v \in Handle, NEW w \in Handle, Move(v, w) \/ Drop(v) \/ ResetHandle(v)
      PROVE  WellFormed(heap') /\ ShapesKept
  BY <1>6, <1>7 DEF Move, Drop, ResetHandle
<1>8. ASSUME NEW v \in Handle, Drop(v) \/ ResetHandle(v)
      PROVE  WellFormed(heap') /\ ShapesKept
  BY <1>6, <1>8 DEF Drop, ResetHandle
<1> QED
  BY <1>2, <1>3, <1>4, <1>5, <1>7, <1>8 DEF ExprNext

(* No expression changes while anything points to it. *)
LEMMA ShapesNext ==
  ASSUME Invariant, WellFormed(heap), Next
  PROVE  WellFormed(heap') /\ ShapesKept
<1>1. Memory /\ StackOK
  BY DEF Invariant
<1>2. CASE Express
  <2>1. Connectives[backend] \subseteq {"land", "lor"}
    BY <1>1, SolverAssumption DEF StackOK
  <2> QED
    BY <1>1, <1>2, <2>1, ShapesExpress DEF Express
<1>3. ASSUME NEW v \in Handle, add(v)
      PROVE  WellFormed(heap') /\ ShapesKept
  <2>1. heap' = Inc(heap, <<handle[v]>>) /\ <<handle[v]>> \in Seq(AddrOrNull)
    BY <1>1, <1>3, HandleType DEF add
  <2>2. SameShapes
    BY <1>1, <2>1, IncEffect DEF Memory
  <2> QED
    BY <2>2, SameShapesKept
<1>4. CASE DecStep
  <2>1. SameShapes
    BY <1>1, <1>4, Decremented DEF DecStep
  <2> QED
    BY <2>1, SameShapesKept
<1>5. CASE DeleteAndNotify
  <2>1. /\ todo # << >> /\ Head(todo).what = "delete" /\ heap' = [heap EXCEPT ![It] = NoExpr]
        /\ HeapOK /\ PointersOK /\ OnItsWayOut
    BY <1>1, <1>5 DEF DeleteAndNotify, DeleteExpr, Doing, Memory
  <2>2. PICK b \in Addr : b = It /\ Head(todo) = Step("delete", b)
    BY <2>1, FirstToDo DEF It, Pending, Step
  <2>3. heap[b].refs = 0
    <3>1. b \in Deleting
      BY <2>1, <2>2, FirstToDo
    <3> QED
      BY <2>1, <3>1 DEF OnItsWayOut
  <2>4. heap'[b] = NoExpr /\ \A a \in Addr \ {b} : heap'[a] = heap[a]
    BY <2>1, <2>2 DEF HeapOK
  <2>5. NoExpr.kind = "none" /\ NoExpr.args = << >>
    BY DEF NoExpr, Unreferenced, Shape
  <2>6. WellFormed(heap')
    BY <2>4, <2>5, WellFormedLess
  <2>7. ShapesKept
    BY <2>3, <2>4 DEF ShapesKept
  <2> QED
    BY <2>6, <2>7
<1>6. ASSUME UNCHANGED heap
      PROVE  WellFormed(heap') /\ ShapesKept
  <2>1. SameShapes
    BY <1>6 DEF SameShapes, ShapeAt
  <2> QED
    BY <2>1, SameShapesKept
<1>7. CASE (\E v \in Handle : add_moved(v)) \/ pop \/ reset \/ Destroy \/ __pop \/ __reset
  BY <1>6, <1>7 DEF add_moved, pop, reset, Destroy, __pop, __reset
<1>8. CASE GoOn \/ push \/ check \/ Construct
  BY <1>6, <1>8 DEF GoOn, push, check, Construct, expr_vars
<1>9. ASSUME NEW assumptions, NEW room, check_assumptions(assumptions, room)
      PROVE  WellFormed(heap') /\ ShapesKept
  BY <1>6, <1>9 DEF check_assumptions, expr_vars
<1> QED
  BY <1>2, <1>3, <1>4, <1>5, <1>7, <1>8, <1>9 DEF Next

(* What is about to be deleted is until it is. *)
LEMMA DeletingNext ==
  ASSUME Invariant, Next, NEW a \in Deleting
  PROVE  a \in Deleting' \/ (DeleteAndNotify /\ a = It)
<1>1. Memory /\ HeapOK /\ PointersOK
  BY DEF Invariant, Memory
<1>2. ~Idle
  BY IdleNow
<1>3. CASE GoOn
  BY <1>3 DEF GoOn, expr_vars, Deleting
<1>4. CASE DecStep
  <2>1. dec
    BY <1>4 DEF DecStep
  <2>2. /\ It \in Addr /\ Tail(todo) \in Seq(Pending) /\ a \in DeletingIn(Tail(todo))
    BY <1>1, <2>1, Decremented
  <2>3. CASE todo' = Tail(todo)
    BY <2>2, <2>3 DEF Deleting, DeletingIn
  <2>4. CASE todo' = Destruction(It) \o Tail(todo)
    <3>1. PICK s, t, u : s = Destruction(It) /\ t = Tail(todo) /\ u = todo'
      OBVIOUS
    <3>2. Parts(Pending, u, s, t)
      BY <1>1, <2>2, <2>4, <3>1, DestructionIs DEF Parts
    <3>3. a \in DeletingIn(u)
      BY <2>2, <3>1, <3>2, DeletingInParts
    <3> QED
      BY <3>1, <3>3 DEF Deleting, DeletingIn
  <2> QED
    BY <2>1, <2>3, <2>4 DEF dec
<1>5. CASE DeleteAndNotify
  <2>1. /\ todo # << >> /\ Head(todo).what = "delete" /\ todo' = Tail(todo)
    BY <1>5 DEF DeleteAndNotify, DeleteExpr, Doing
  <2>2. CASE Head(todo) = Step("delete", a)
    BY <1>5, <2>2 DEF It, Step
  <2>3. CASE a \in DeletingIn(Tail(todo))
    BY <2>1, <2>3 DEF Deleting, DeletingIn
  <2> QED
    BY <1>1, <2>1, <2>2, <2>3, FirstToDo
<1>6. CASE __pop \/ __reset
  <2>1. todo # << >> /\ Head(todo).what \in {"pop", "reset"} /\ todo' = Tail(todo)
    BY <1>6 DEF __pop, __reset, Doing
  <2>2. Head(todo) # Step("delete", a)
    BY <2>1 DEF Step
  <2>3. a \in DeletingIn(Tail(todo))
    BY <1>1, <2>1, <2>2, FirstToDo
  <2> QED
    BY <2>1, <2>3 DEF Deleting, DeletingIn
<1>7. CASE Express
  BY <1>2, <1>7 DEF Express, ExprNext, Copy, Move, Drop, ResetHandle, NewSymbol, NewNegation,
                    NewBinary, make_shared_expr
<1>8. CASE (\E v \in Handle : add(v) \/ add_moved(v)) \/ push \/ pop \/ reset \/ check
             \/ Destroy \/ Construct
  BY <1>2, <1>8 DEF add, add_moved, push, pop, reset, check, Destroy, Construct, Calls
<1>9. ASSUME NEW assumptions, NEW room, check_assumptions(assumptions, room)
      PROVE  FALSE
  BY <1>2, <1>9 DEF check_assumptions, Calls
<1> QED
  BY <1>3, <1>4, <1>5, <1>6, <1>7, <1>8, <1>9 DEF Next

LEMMA LiveNow ==
  Memory => \A a \in Addr : heap[a].refs \in Nat /\ (heap[a].refs >= 1 => ~IsFree(a))
BY Live

LEMMA LiveThen ==
  Memory' => (\A a \in Addr : heap[a].refs \in Nat /\ (heap[a].refs >= 1 => ~IsFree(a)))'
BY LiveNow, PTL

(* What is there is there after the step, or is about to be deleted. *)
LEMMA LiveNext ==
  ASSUME Memory, Memory', ShapesKept, NEW a \in Addr, heap[a].refs >= 1
  PROVE  heap'[a].refs >= 1 \/ a \in Deleting'
<1>1. ~IsFree(a)'
  BY Live DEF ShapesKept, IsFree
<1>2. heap'[a].refs \in Nat
  BY LiveThen
<1>3. heap'[a].refs = 0 => a \in Deleting'
  BY <1>1 DEF Memory, OnItsWayOut
<1> QED
  BY <1>2, <1>3

LEMMA ShapesKeptLast ==
  ShapesKept => ShapesLast
BY DEF ShapesKept, ShapesLast, Lasting

-----------------------------------------------------------------------------
(* Encoded expressions.                                                    *)

(* Every part that the back end remembers it has encoded *)
Settled(a) == \A b \in Visited[a] : Caches(b) => IsCached(b)

LEMMA SettledBy ==
  WellFormed(heap) =>
    \A a \in Addr :
      Settled(a) <=> \/ IsCached(a)
                     \/ ~Caches(a) /\ \A i \in DOMAIN heap[a].args : Settled(heap[a].args[i])
<1> SUFFICES ASSUME WellFormed(heap), NEW a \in Addr
             PROVE  Settled(a) <=>
                      \/ IsCached(a)
                      \/ ~Caches(a) /\ \A i \in DOMAIN heap[a].args : Settled(heap[a].args[i])
  OBVIOUS
<1>1. Visited[a] = VisitedBy(Visited, a)
  BY VisitsAre
<1>2. IsCached(a) => Caches(a)
  BY DEF IsCached
<1>3. CASE IsCached(a)
  <2>1. Visited[a] = {a}
    BY <1>1, <1>3 DEF VisitedBy
  <2> QED
    BY <1>3, <2>1 DEF Settled
<1>4. CASE ~IsCached(a)
  <2>1. Visited[a] = {a} \union UNION {Visited[heap[a].args[i]] : i \in DOMAIN heap[a].args}
    BY <1>1, <1>4 DEF VisitedBy
  <2> QED
    BY <1>4, <2>1 DEF Settled
<1> QED
  BY <1>3, <1>4

LEMMA SettledThen ==
  WellFormed(heap)' =>
    (\A a \in Addr :
      Settled(a) <=> \/ IsCached(a)
                     \/ ~Caches(a) /\ \A i \in DOMAIN heap[a].args : Settled(heap[a].args[i]))'
BY SettledBy, PTL

LEMMA TermsNow ==
  WellFormed(heap) => \A a \in Addr : Term[a] = TermBy(Term, a)
<1> SUFFICES ASSUME WellFormed(heap), NEW a \in Addr
             PROVE  Term[a] = TermBy(Term, a)
  OBVIOUS
<1> QED
  BY TermsAre

LEMMA TermsThen ==
  WellFormed(heap)' => (\A a \in Addr : Term[a] = TermBy(Term, a))'
BY TermsNow, PTL

(* What is in the cache stays there while the expression does, and what is *)
(* new in it is its term.                                                  *)
CacheLasts ==
  \A a \in Lasting :
    /\ IsCached(a) => IsCached(a)' /\ (cache[Key(a)])' = cache[Key(a)]
    /\ ~IsCached(a) /\ IsCached(a)' => (cache[Key(a)])' = Term[a]

(* An expression once encoded remains so, with the same term. *)
LEMMA SettledLast ==
  ASSUME Memory, Memory', WellFormed(heap), WellFormed(heap)', ShapesLast, CacheLasts,
         UNCHANGED <<backend, consing>>, NEW b \in Lasting
  PROVE  /\ Settled(b) => Settled(b)'
         /\ Settled(b)' => (Term[b])' = Term[b]
<1> DEFINE Good(a) == /\ Settled(a) => Settled(a)'
                      /\ Settled(a)' => (Term[a])' = Term[a]
           S == {a \in Addr : a \in Lasting => Good(a)}
<1>1. ASSUME NEW a \in Addr, \A i \in DOMAIN heap[a].args : heap[a].args[i] \in S
      PROVE  a \in S
  <2> SUFFICES ASSUME a \in Lasting
               PROVE  Good(a)
    OBVIOUS
  <2>1. /\ heap'[a].kind = heap[a].kind /\ heap'[a].name = heap[a].name
        /\ heap'[a].args = heap[a].args
    BY DEF ShapesLast
  <2>2. \A i \in DOMAIN heap[a].args : heap[a].args[i] \in Lasting
    BY OperandsLast
  <2>3. \A c : (\E i \in DOMAIN heap[a].args : heap[a].args[i] = c) => Good(c)
    BY <1>1, <2>2
  <2>4. Caches(a)' <=> Caches(a)
    BY <2>1 DEF Caches
  <2>5. IsCached(a) => IsCached(a)'
    BY DEF CacheLasts
  <2>6. Settled(a) <=> \/ IsCached(a)
                       \/ ~Caches(a) /\ \A i \in DOMAIN heap[a].args : Settled(heap[a].args[i])
    BY SettledBy
  <2>7. Settled(a)' <=>
          \/ IsCached(a)'
          \/ ~Caches(a)' /\ \A i \in DOMAIN heap[a].args : Settled(heap[a].args[i])'
    BY <2>1, SettledThen
  <2>8. Settled(a) => Settled(a)'
    <3>1. ~Caches(a)' /\ (\A c : (\E i \in DOMAIN heap[a].args : heap[a].args[i] = c) => Settled(c)')
            => Settled(a)'
      BY <2>1, <2>7
    <3>2. IsCached(a)' => Settled(a)'
      BY <2>7
    <3>3. ASSUME Settled(a), ~IsCached(a)'
          PROVE  Settled(a)'
      <4>1. ~Caches(a) /\ \A i \in DOMAIN heap[a].args : Settled(heap[a].args[i])
        BY <2>5, <2>6, <3>3
      <4>2. ASSUME NEW c, \E i \in DOMAIN heap[a].args : heap[a].args[i] = c
            PROVE  Settled(c)'
        <5>1. Settled(c)
          BY <4>1, <4>2
        <5> QED
          BY <2>3, <4>2, <5>1
      <4> QED
        BY <2>4, <3>1, <4>1, <4>2
    <3> QED
      BY <3>2, <3>3
  <2>9. Term[a] = TermBy(Term, a) /\ (Term[a])' = (TermBy(Term, a))'
    BY TermsNow, TermsThen
  <2>10. CASE IsCached(a)'
    <3>1. (Term[a])' = (cache[Key(a)])'
      BY <2>9, <2>10 DEF TermBy
    <3>2. CASE IsCached(a)
      <4>1. Term[a] = cache[Key(a)]
        BY <2>9, <3>2 DEF TermBy
      <4> QED
        BY <2>8, <3>1, <3>2, <4>1 DEF CacheLasts
    <3>3. CASE ~IsCached(a)
      BY <2>8, <2>10, <3>1, <3>3 DEF CacheLasts
    <3> QED
      BY <3>2, <3>3
  <2>11. CASE ~IsCached(a)'
    <3> SUFFICES ASSUME Settled(a)'
                 PROVE  (Term[a])' = Term[a]
      BY <2>8
    <3>1. ~IsCached(a) /\ ~Caches(a)
      BY <2>4, <2>5, <2>7, <2>11
    <3>2. \A i \in DOMAIN heap[a].args : (Term[heap[a].args[i]])' = Term[heap'[a].args[i]]
      BY <2>1, <2>3, <2>7, <2>11
    <3>3. CASE heap[a].kind = "symbol"
      <4>1. backend # "cvc4" /\ backend' # "cvc4"
        BY <3>1, <3>3 DEF Caches
      <4>2. (Variable(heap[a].name))' = Variable(heap[a].name)
        BY <2>1, <4>1 DEF Variable
      <4> QED
        BY <2>1, <2>9, <2>11, <3>1, <3>3, <4>2 DEF TermBy
    <3>4. CASE heap[a].kind = "lnot"
      <4>1. DOMAIN heap[a].args = {1}
        BY <3>4, OperandsOf
      <4>2. Term'[heap'[a].args[1]] = Term[heap[a].args[1]]
        BY <2>1, <2>3, <2>7, <2>11, <4>1
      <4>3. /\ Term[a] = Negation(Term[heap[a].args[1]])
            /\ Term'[a] = Negation(Term'[heap'[a].args[1]])
        BY <2>1, <2>9, <2>11, <3>1, <3>4 DEF TermBy
      <4> QED
        BY <4>2, <4>3
    <3>5. CASE heap[a].kind \in {"land", "lor"}
      <4>1. DOMAIN heap[a].args = {1, 2}
        BY <3>5, OperandsOf
      <4>2. /\ Term'[heap'[a].args[1]] = Term[heap[a].args[1]]
            /\ Term'[heap'[a].args[2]] = Term[heap[a].args[2]]
        BY <2>1, <2>3, <2>7, <2>11, <4>1
      <4>3. CASE heap[a].kind = "land"
        <5>1. /\ Term[a] = Conjunction(Term[heap[a].args[1]], Term[heap[a].args[2]])
              /\ Term'[a] = Conjunction(Term'[heap'[a].args[1]], Term'[heap'[a].args[2]])
          BY <2>1, <2>9, <2>11, <3>1, <4>3 DEF TermBy
        <5> QED
          BY <4>2, <5>1
      <4>4. CASE heap[a].kind = "lor"
        <5>1. /\ Term[a] = Disjunction(Term[heap[a].args[1]], Term[heap[a].args[2]])
              /\ Term'[a] = Disjunction(Term'[heap'[a].args[1]], Term'[heap'[a].args[2]])
          BY <2>1, <2>9, <2>11, <3>1, <4>4 DEF TermBy
        <5> QED
          BY <4>2, <5>1
      <4> QED
        BY <3>5, <4>3, <4>4
    <3>6. CASE heap[a].kind = "none"
      BY <2>1, <2>9, <2>11, <3>1, <3>6 DEF TermBy
    <3> QED
      BY <3>3, <3>4, <3>5, <3>6, OperandsOf DEF Kinds
  <2> QED
    BY <2>10, <2>11
<1>2. S \in SUBSET Addr
  OBVIOUS
<1>3. S = Addr
  <2> HIDE DEF S
  <2> QED
    BY <1>1, <1>2, ExpressionInduction
<1> QED
  BY <1>3 DEF Lasting

-----------------------------------------------------------------------------
(* What is in use is finite.                                               *)

LEMMA FiniteImage ==
  ASSUME NEW S, IsFiniteSet(S), NEW f, DOMAIN f = S
  PROVE  IsFiniteSet({f[x] : x \in S})
<1>1. PICK T : T = {f[x] : x \in S}
  OBVIOUS
<1>2. PICK g : g = [x \in S |-> f[x]]
  OBVIOUS
<1>3. g \in Surjection(S, T)
  <2>1. g \in [S -> T] /\ \A t \in T : \E x \in S : g[x] = t
    BY <1>1, <1>2
  <2> QED
    BY <2>1 DEF Surjection
<1> QED
  BY <1>1, <1>3, FS_Surjection

LEMMA FiniteUnion ==
  ASSUME NEW T, IsFiniteSet(T), \A t \in T : IsFiniteSet(t)
  PROVE  IsFiniteSet(UNION T)
<1>1. PICK n \in Nat : n = Cardinality(T) /\ ExistsBijection(1 .. n, T)
  BY FS_CardinalityType
<1>2. PICK f : f \in Bijection(1 .. n, T)
  BY <1>1 DEF ExistsBijection
<1>3. f \in [1 .. n -> T] /\ \A t \in T : \E i \in 1 .. n : f[i] = t
  BY <1>2 DEF Bijection, Surjection, Injection
<1> DEFINE U(k) == UNION {f[i] : i \in {j \in 1 .. n : j <= k}}
           N == {k \in Nat : IsFiniteSet(U(k))}
<1>4. 0 \in N
  <2>1. U(0) = {}
    OBVIOUS
  <2> QED
    BY <2>1, FS_EmptySet
<1>5. ASSUME NEW k \in N
      PROVE  k + 1 \in N
  <2>1. CASE k + 1 \in 1 .. n
    <3>1. {j \in 1 .. n : j <= k + 1} = {j \in 1 .. n : j <= k} \union {k + 1}
      BY <2>1
    <3>2. U(k + 1) = U(k) \union f[k + 1]
      BY <3>1
    <3>3. IsFiniteSet(f[k + 1]) /\ IsFiniteSet(U(k))
      BY <1>3, <2>1
    <3>4. IsFiniteSet(U(k) \union f[k + 1])
      <4> HIDE DEF U
      <4> QED
        BY <3>3, FS_Union
    <3> QED
      BY <3>2, <3>4
  <2>2. CASE k + 1 \notin 1 .. n
    <3>1. {j \in 1 .. n : j <= k + 1} = {j \in 1 .. n : j <= k}
      BY <2>2
    <3>2. U(k + 1) = U(k)
      BY <3>1
    <3>3. IsFiniteSet(U(k)) /\ k + 1 \in Nat
      OBVIOUS
    <3> HIDE DEF U
    <3> QED
      BY <3>2, <3>3
  <2> QED
    BY <2>1, <2>2
<1>6. N = Nat
  <2>1. N \in SUBSET Nat
    OBVIOUS
  <2> HIDE DEF N
  <2> QED
    BY <1>4, <1>5, <2>1, NumberInduction
<1>7. IsFiniteSet(U(n))
  BY <1>6
<1>8. U(n) = UNION T
  <2>1. {j \in 1 .. n : j <= n} = 1 .. n
    OBVIOUS
  <2>2. {f[i] : i \in 1 .. n} = T
    BY <1>3
  <2> QED
    BY <2>1, <2>2
<1> QED
  BY <1>7, <1>8

(* The back end's stack has finitely many terms at each level. *)
FramesOK ==
  /\ \E S : frames \in Seq(S)
  /\ \A l \in DOMAIN frames : IsFiniteSet(frames[l]) /\ \A t \in frames[l] : IsTerm(t)

LEMMA VariablesFinite ==
  ASSUME FramesOK, IsFiniteSet(DOMAIN cache), \A k \in DOMAIN cache : IsTerm(cache[k])
  PROVE  IsFiniteSet(VariablesInUse)
<1>1. IsFiniteSet({cache[k] : k \in DOMAIN cache})
  BY FiniteImage
<1>2. IsFiniteSet(UNION {frames[l] : l \in DOMAIN frames})
  <2>1. PICK S : frames \in Seq(S)
    BY DEF FramesOK
  <2>2. PICK n \in Nat : DOMAIN frames = 1 .. n
    BY <2>1
  <2>3. IsFiniteSet(DOMAIN frames)
    BY <2>2, FS_Interval
  <2>4. IsFiniteSet({frames[l] : l \in DOMAIN frames})
    BY <2>3, FiniteImage
  <2>5. \A t \in {frames[l] : l \in DOMAIN frames} : IsFiniteSet(t)
    BY DEF FramesOK
  <2> QED
    BY <2>4, <2>5, FiniteUnion
<1>3. IsFiniteSet(TermsInUse)
  BY <1>1, <1>2, FS_Union DEF TermsInUse
<1>4. \A t \in TermsInUse : IsTerm(t)
  BY DEF TermsInUse, FramesOK
<1>5. PICK T : T = TermsInUse
  OBVIOUS
<1>6. IsFiniteSet({t.over : t \in T})
  <2>1. PICK f : f = [t \in T |-> t.over]
    OBVIOUS
  <2>2. IsFiniteSet({f[t] : t \in T})
    BY <1>3, <1>5, <2>1, FiniteImage
  <2>3. {f[t] : t \in T} = {t.over : t \in T}
    BY <2>1
  <2> QED
    BY <2>2, <2>3
<1>7. \A V \in {t.over : t \in T} : IsFiniteSet(V)
  BY <1>4, <1>5 DEF IsTerm
<1> QED
  BY <1>5, <1>6, <1>7, FiniteUnion DEF VariablesInUse

-----------------------------------------------------------------------------
(* The cache.                                                              *)

LEMMA VisitedSelf ==
  ASSUME WellFormed(heap), NEW a \in Addr
  PROVE  /\ a \in Visited[a]
         /\ ~IsCached(a) => \A i \in DOMAIN heap[a].args : Visited[heap[a].args[i]] \subseteq Visited[a]
<1>1. Visited[a] = VisitedBy(Visited, a)
  BY VisitsAre
<1> QED
  BY <1>1 DEF VisitedBy

(* What is visited is there. *)
LEMMA VisitedLive ==
  ASSUME Memory, WellFormed(heap), NEW b \in Addr, heap[b].refs >= 1
  PROVE  \A c \in Visited[b] : c \in Addr /\ heap[c].refs >= 1
<1> DEFINE S == {a \in Addr : heap[a].refs >= 1 =>
                                \A c \in Visited[a] : c \in Addr /\ heap[c].refs >= 1}
<1>1. ASSUME NEW a \in Addr, \A i \in DOMAIN heap[a].args : heap[a].args[i] \in S
      PROVE  a \in S
  <2> SUFFICES ASSUME heap[a].refs >= 1, NEW c \in Visited[a]
               PROVE  c \in Addr /\ heap[c].refs >= 1
    OBVIOUS
  <2>1. Visited[a] = VisitedBy(Visited, a)
    BY VisitsAre
  <2>2. c = a \/ \E i \in DOMAIN heap[a].args : c \in Visited[heap[a].args[i]]
    BY <2>1 DEF VisitedBy
  <2>3. \A i \in DOMAIN heap[a].args : heap[heap[a].args[i]].refs >= 1
    BY OperandsLive
  <2> QED
    BY <1>1, <2>2, <2>3
<1>2. S \in SUBSET Addr
  OBVIOUS
<1>3. S = Addr
  <2> HIDE DEF S
  <2> QED
    BY <1>1, <1>2, ExpressionInduction
<1> QED
  BY <1>3

(* What encoding some expressions leaves in the cache *)
Encoded(c, encoded) ==
  /\ IsFiniteSet(DOMAIN c)
  /\ \A k \in DOMAIN cache : k \in DOMAIN c /\ c[k] = cache[k]
  /\ \A b \in Addr : ~IsCached(b) /\ Caches(b) /\ Key(b) \in DOMAIN c => c[Key(b)] = Term[b]
  /\ \A a \in encoded : \A b \in Visited[a] : Caches(b) => Key(b) \in DOMAIN c
  /\ \A k \in DOMAIN c \ DOMAIN cache :
       \E b \in Addr : /\ k = Key(b) /\ Caches(b) /\ ~IsCached(b) /\ c[k] = Term[b]
                       /\ \E a \in encoded : b \in Visited[a]

LEMMA EncodedAfter ==
  ASSUME WellFormed(heap), IsFiniteSet(DOMAIN cache), NEW encoded,
         \A a \in encoded : a \in Addr /\ \A b \in Visited[a] : b \in Addr,
         NEW c, c = CacheAfter(encoded)
  PROVE  Encoded(c, encoded)
<1> DEFINE new == {b \in Addr : Caches(b) /\ ~IsCached(b) /\ \E a \in encoded : b \in Visited[a]}
           TermOf(k) == Term[CHOOSE b \in new : Key(b) = k]
<1>1. c = [k \in DOMAIN cache \union {Key(b) : b \in new} |->
             IF k \in DOMAIN cache THEN cache[k] ELSE TermOf(k)]
  BY DEF CacheAfter
<1>2. DOMAIN c = DOMAIN cache \union {Key(b) : b \in new}
  BY <1>1
<1>3. IsFiniteSet(DOMAIN c)
  <2>1. new \in SUBSET Addr
    OBVIOUS
  <2>2. PICK N : N = new
    OBVIOUS
  <2>3. IsFiniteSet(N)
    BY <2>1, <2>2, ExpressionsAssumption, FS_Subset
  <2>4. PICK f : f = [b \in N |-> Key(b)]
    OBVIOUS
  <2>5. IsFiniteSet({f[b] : b \in N})
    BY <2>3, <2>4, FiniteImage
  <2>6. {f[b] : b \in N} = {Key(b) : b \in new}
    BY <2>2, <2>4
  <2>7. PICK D, A : D = DOMAIN cache /\ A = {Key(b) : b \in new}
    OBVIOUS
  <2>8. IsFiniteSet(D \union A)
    BY <2>5, <2>6, <2>7, FS_Union
  <2>9. DOMAIN c = D \union A
    BY <1>2, <2>7
  <2> QED
    BY <2>8, <2>9
<1>4. \A k \in DOMAIN cache : k \in DOMAIN c /\ c[k] = cache[k]
  BY <1>1
<1>5. \A a \in Addr, b \in Addr :
        Caches(a) /\ Caches(b) /\ ~IsCached(a) /\ ~IsCached(b) /\ Key(a) = Key(b) => Term[a] = Term[b]
  <2> SUFFICES ASSUME NEW a \in Addr, NEW b \in Addr, Caches(a), Caches(b),
                      ~IsCached(a), ~IsCached(b), Key(a) = Key(b)
               PROVE  Term[a] = Term[b]
    OBVIOUS
  <2>1. CASE FiledBySymbol
    <3>1. heap[a].kind = "symbol" /\ heap[b].kind = "symbol" /\ heap[a].name = heap[b].name
      BY <2>1 DEF FiledBySymbol, Caches, Key
    <3>2. Term[a] = TermBy(Term, a) /\ Term[b] = TermBy(Term, b)
      BY TermsNow
    <3>3. Term[a] = Atom(Variable(heap[a].name)) /\ Term[b] = Atom(Variable(heap[b].name))
      BY <3>1, <3>2 DEF TermBy
    <3> QED
      BY <3>1, <3>3
  <2>2. CASE ~FiledBySymbol
    BY <2>2 DEF FiledBySymbol, Key
  <2> QED
    BY <2>1, <2>2
<1>6. \A b \in Addr : b \notin new /\ ~IsCached(b) /\ Caches(b) => Key(b) \notin DOMAIN cache
  BY DEF IsCached
<1>7. ASSUME NEW k \in DOMAIN c, k \notin DOMAIN cache
      PROVE  \E b \in new : k = Key(b) /\ c[k] = Term[b]
  <2> HIDE DEF new
  <2>1. \E b \in new : Key(b) = k
    BY <1>2, <1>7
  <2>2. PICK b : b = CHOOSE d \in new : Key(d) = k
    OBVIOUS
  <2>3. b \in new /\ Key(b) = k
    BY <2>1, <2>2
  <2>4. c[k] = Term[b]
    BY <1>1, <1>2, <1>7, <2>2
  <2> QED
    BY <2>3, <2>4
<1>8. \A b \in Addr : ~IsCached(b) /\ Caches(b) /\ Key(b) \in DOMAIN c => c[Key(b)] = Term[b]
  <2> SUFFICES ASSUME NEW b \in Addr, ~IsCached(b), Caches(b), Key(b) \in DOMAIN c
               PROVE  c[Key(b)] = Term[b]
    OBVIOUS
  <2>1. Key(b) \notin DOMAIN cache
    BY DEF IsCached
  <2>2. PICK d \in new : Key(b) = Key(d) /\ c[Key(b)] = Term[d]
    BY <1>7, <2>1
  <2> QED
    BY <1>5, <2>2
<1>9. \A a \in encoded : \A b \in Visited[a] : Caches(b) => Key(b) \in DOMAIN c
  BY <1>2 DEF IsCached
<1>10. \A k \in DOMAIN c \ DOMAIN cache :
         \E b \in Addr : /\ k = Key(b) /\ Caches(b) /\ ~IsCached(b) /\ c[k] = Term[b]
                         /\ \E a \in encoded : b \in Visited[a]
  BY <1>7
<1> QED
  BY <1>3, <1>4, <1>8, <1>9, <1>10 DEF Encoded

(* How the cache changes: of what was in it, only what is deleted is       *)
(* forgotten, and what is new in it is the term of what is there.          *)
Filed(b, t) ==
  /\ heap[b].refs >= 1 /\ Caches(b) /\ t = Term[b]
  /\ IsTerm(t) /\ MeaningOfTerm(t) = Meaning[b]
  /\ backend = "cvc4" => \E x \in Symbol \X Nat : t = Atom(x)

CacheStep ==
  /\ IsFiniteSet(DOMAIN cache')
  /\ \A k \in DOMAIN cache' :
       \/ k \in DOMAIN cache /\ cache'[k] = cache[k]
       \/ \E b \in Addr : k = Key(b) /\ Filed(b, cache'[k])
  /\ \A k \in DOMAIN cache' \intersect Deleting : k \in Deleting'

LEMMA CacheNext ==
  ASSUME Memory, Memory', WellFormed(heap), WellFormed(heap'), ShapesKept,
         UNCHANGED <<backend, consing>>, CacheOK, CacheStep
  PROVE  CacheOK'
<1>1. FiledBySymbol' = FiledBySymbol
  BY DEF FiledBySymbol
<1>2. Addr \intersect Symbol = {}
  BY ExpressionsAssumption
<1>3. ASSUME NEW b \in Addr, NEW t, Filed(b, t)
      PROVE  /\ FiledBySymbol => Key(b) \in Symbol /\ Meaning[b] = Atom(Key(b))
             /\ ~FiledBySymbol => Key(b) = b
             /\ backend = "cvc4" => heap[b].kind = "symbol"
  <2>1. CASE FiledBySymbol
    <3>1. heap[b].kind = "symbol" /\ Key(b) = heap[b].name
      BY <1>3, <2>1 DEF Filed, FiledBySymbol, Caches, Key
    <3>2. heap[b].name \in Symbol
      BY <3>1 DEF Memory, HeapOK
    <3>3. Meaning[b] = MeaningBy(heap, Meaning, b)
      BY MeaningsAre, MeaningsNow
    <3>4. Meaning[b] = Atom(heap[b].name)
      BY <3>1, <3>3 DEF MeaningBy
    <3> QED
      BY <2>1, <3>1, <3>2, <3>4
  <2>2. CASE ~FiledBySymbol
    BY <1>3, <2>2 DEF Filed, FiledBySymbol, Key, Caches
  <2> QED
    BY <2>1, <2>2
<1>4. ASSUME NEW a \in Addr, heap[a].refs >= 1
      PROVE  \/ a \in Deleting'
             \/ /\ heap'[a].refs >= 1 /\ Meaning'[a] = Meaning[a]
                /\ heap'[a].kind = heap[a].kind
  <2>1. heap'[a].refs >= 1 \/ a \in Deleting'
    BY <1>4, LiveNext
  <2>2. heap'[a].refs >= 1 => a \in Lasting
    BY <1>4 DEF Lasting
  <2> QED
    BY <1>4, <2>1, <2>2, MeaningsLast, ShapesKeptLast DEF ShapesKept
<1>5. ASSUME NEW k \in DOMAIN cache'
      PROVE  /\ k \in IF FiledBySymbol THEN Symbol ELSE Addr
             /\ IsTerm(cache'[k])
             /\ k \in Addr =>
                  \/ k \in Deleting'
                  \/ /\ heap'[k].refs >= 1 /\ MeaningOfTerm(cache'[k]) = Meaning'[k]
                     /\ backend = "cvc4" => heap'[k].kind = "symbol"
             /\ k \in Symbol => MeaningOfTerm(cache'[k]) = Atom(k)
             /\ backend = "cvc4" => \E x \in Symbol \X Nat : cache'[k] = Atom(x)
  <2>1. CASE k \in DOMAIN cache /\ cache'[k] = cache[k]
    <3>1. /\ k \in IF FiledBySymbol THEN Symbol ELSE Addr
          /\ IsTerm(cache[k])
          /\ k \in Addr => \/ k \in Deleting
                           \/ /\ heap[k].refs > 0 /\ MeaningOfTerm(cache[k]) = Meaning[k]
                              /\ backend = "cvc4" => heap[k].kind = "symbol"
          /\ k \in Symbol => MeaningOfTerm(cache[k]) = Atom(k)
          /\ backend = "cvc4" => \E x \in Symbol \X Nat : cache[k] = Atom(x)
      BY <2>1 DEF CacheOK
    <3>2. k \in Deleting => k \in Deleting'
      BY DEF CacheStep
    <3>3. k \in Addr /\ heap[k].refs > 0 => heap[k].refs >= 1
      BY LiveNow
    <3> QED
      BY <1>4, <2>1, <3>1, <3>2, <3>3
  <2>2. ASSUME NEW b \in Addr, k = Key(b), Filed(b, cache'[k])
        PROVE  /\ k \in IF FiledBySymbol THEN Symbol ELSE Addr
               /\ IsTerm(cache'[k])
               /\ k \in Addr =>
                    \/ k \in Deleting'
                    \/ /\ heap'[k].refs >= 1 /\ MeaningOfTerm(cache'[k]) = Meaning'[k]
                       /\ backend = "cvc4" => heap'[k].kind = "symbol"
               /\ k \in Symbol => MeaningOfTerm(cache'[k]) = Atom(k)
               /\ backend = "cvc4" => \E x \in Symbol \X Nat : cache'[k] = Atom(x)
    <3>1. /\ FiledBySymbol => k \in Symbol /\ Meaning[b] = Atom(k)
          /\ ~FiledBySymbol => k = b
          /\ backend = "cvc4" => heap[b].kind = "symbol"
      BY <1>3, <2>2
    <3>2. /\ heap[b].refs >= 1 /\ IsTerm(cache'[k]) /\ MeaningOfTerm(cache'[k]) = Meaning[b]
          /\ backend = "cvc4" => \E x \in Symbol \X Nat : cache'[k] = Atom(x)
      BY <2>2 DEF Filed
    <3> QED
      BY <1>2, <1>4, <3>1, <3>2
  <2> QED
    BY <2>1, <2>2 DEF CacheStep
<1>6. \A k \in Addr : heap'[k].refs >= 1 => heap'[k].refs > 0
  BY LiveThen
<1>7. IsFiniteSet(DOMAIN cache')
  BY DEF CacheStep
<1> QED
  BY <1>1, <1>5, <1>6, <1>7 DEF CacheOK

-----------------------------------------------------------------------------
(* Levels one after the other.                                             *)

FlatBy(s, f, i) == IF i = 1 THEN s[i] ELSE f[i - 1] \o s[i]

Flat(s) == CHOOSE f : f = [i \in 1 .. Len(s) |-> FlatBy(s, f, i)]

LEMMA FlatIs ==
  ASSUME NEW s, Len(s) \in Nat
  PROVE  Flat(s) = [i \in 1 .. Len(s) |-> FlatBy(s, Flat(s), i)]
<1> DEFINE Known(f, k) == \A i \in 1 .. Len(s) : i <= k => f[i] = FlatBy(s, f, i)
           N == {k \in Nat : \E f : Known(f, k)}
<1>1. 0 \in N
  OBVIOUS
<1>2. ASSUME NEW k \in N
      PROVE  k + 1 \in N
  <2>1. PICK f : Known(f, k)
    OBVIOUS
  <2> DEFINE g == [i \in 1 .. Len(s) |-> FlatBy(s, f, i)]
  <2>2. ASSUME NEW i \in 1 .. Len(s), i <= k + 1
        PROVE  g[i] = FlatBy(s, g, i)
    <3>1. CASE i = 1
      BY <3>1 DEF FlatBy
    <3>2. CASE i # 1
      <4>1. i - 1 \in 1 .. Len(s) /\ i - 1 <= k
        BY <2>2, <3>2
      <4>2. g[i - 1] = f[i - 1]
        BY <2>1, <4>1
      <4> QED
        BY <3>2, <4>2 DEF FlatBy
    <3> QED
      BY <3>1, <3>2
  <2>3. Known(g, k + 1)
    BY <2>2
  <2>4. k + 1 \in Nat
    OBVIOUS
  <2> HIDE DEF g, Known
  <2> QED
    BY <2>3, <2>4
<1>3. N = Nat
  <2>1. N \in SUBSET Nat
    OBVIOUS
  <2> HIDE DEF N
  <2> QED
    BY <1>1, <1>2, <2>1, NumberInduction
<1>4. PICK f : Known(f, Len(s))
  BY <1>3
<1> DEFINE g == [i \in 1 .. Len(s) |-> f[i]]
           P(u) == u = [i \in 1 .. Len(s) |-> FlatBy(s, u, i)]
<1>5. ASSUME NEW i \in 1 .. Len(s)
      PROVE  g[i] = FlatBy(s, g, i)
  <2>1. f[i] = FlatBy(s, f, i)
    BY <1>4
  <2>2. CASE i = 1
    BY <2>1, <2>2 DEF FlatBy
  <2>3. CASE i # 1
    <3>1. i - 1 \in 1 .. Len(s)
      BY <2>3
    <3>2. g[i - 1] = f[i - 1]
      BY <3>1
    <3> QED
      BY <2>1, <2>3, <3>2 DEF FlatBy
  <2> QED
    BY <2>2, <2>3
<1>6. P(g)
  <2>1. g = [i \in 1 .. Len(s) |-> g[i]]
    OBVIOUS
  <2> HIDE DEF g
  <2> QED
    BY <1>5, <2>1
<1>7. Flat(s) = CHOOSE u : P(u)
  BY DEF Flat
<1> HIDE DEF P, g
<1>8. P(CHOOSE u : P(u))
  BY <1>6
<1>9. P(Flat(s))
  BY <1>7, <1>8
<1> QED
  BY <1>9 DEF P

LEMMA FlattenIs ==
  ASSUME NEW s, Len(s) \in Nat \ {0}
  PROVE  FlattenSeq(s) = Flat(s)[Len(s)]
BY DEF FlattenSeq, Flat, FlatBy

LEMMA FlatAt ==
  ASSUME NEW s, Len(s) \in Nat \ {0}
  PROVE  /\ Flat(s)[1] = s[1]
         /\ \A i \in 2 .. Len(s) : Flat(s)[i] = Flat(s)[i - 1] \o s[i]
<1>1. Flat(s) = [i \in 1 .. Len(s) |-> FlatBy(s, Flat(s), i)]
  BY FlatIs
<1>2. \A i \in 1 .. Len(s) : Flat(s)[i] = FlatBy(s, Flat(s), i)
  BY <1>1
<1>3. 1 \in 1 .. Len(s) /\ \A i \in 2 .. Len(s) : i \in 1 .. Len(s) /\ i # 1
  OBVIOUS
<1> QED
  BY <1>2, <1>3 DEF FlatBy

(* What holds of the first level and is kept from one to the next *)
LEMMA LevelInduction ==
  ASSUME NEW n \in Nat \ {0}, NEW M, 1 \in M, \A i \in 1 .. n - 1 : i \in M => i + 1 \in M
  PROVE  \A i \in 1 .. n : i \in M
<1> DEFINE N == {k \in Nat : k + 1 \in 1 .. n => k + 1 \in M}
<1>1. 0 \in N
  OBVIOUS
<1>2. ASSUME NEW k \in N
      PROVE  k + 1 \in N
  <2>1. k + 1 \in Nat
    OBVIOUS
  <2>2. ASSUME (k + 1) + 1 \in 1 .. n
        PROVE  (k + 1) + 1 \in M
    <3>1. k + 1 \in 1 .. n - 1 /\ k + 1 \in 1 .. n
      BY <2>2
    <3> QED
      BY <3>1
  <2> QED
    BY <2>1, <2>2
<1>3. N = Nat
  <2>1. N \in SUBSET Nat
    OBVIOUS
  <2> HIDE DEF N
  <2> QED
    BY <1>1, <1>2, <2>1, NumberInduction
<1>4. ASSUME NEW i \in 1 .. n
      PROVE  i \in M
  <2>1. i - 1 \in Nat /\ (i - 1) + 1 = i
    OBVIOUS
  <2>2. i - 1 \in N
    BY <1>3, <2>1
  <2> QED
    BY <2>1, <2>2
<1> QED
  BY <1>4

LEMMA FlatTypes ==
  ASSUME NEW S, NEW s \in Seq(Seq(S)), Len(s) >= 1
  PROVE  /\ \A i \in 1 .. Len(s) : Flat(s)[i] \in Seq(S)
         /\ FlattenSeq(s) \in Seq(S)
<1>1. Len(s) \in Nat \ {0} /\ \A i \in 1 .. Len(s) : s[i] \in Seq(S)
  OBVIOUS
<1> DEFINE M == {i \in 1 .. Len(s) : Flat(s)[i] \in Seq(S)}
<1>2. 1 \in M
  <2>1. Flat(s)[1] = s[1]
    BY <1>1, FlatAt
  <2>2. 1 \in 1 .. Len(s)
    BY <1>1
  <2> QED
    BY <1>1, <2>1, <2>2
<1>3. ASSUME NEW i \in 1 .. Len(s) - 1, i \in M
      PROVE  i + 1 \in M
  <2>1. i + 1 \in 2 .. Len(s) /\ (i + 1) - 1 = i /\ i + 1 \in 1 .. Len(s)
    BY <1>1
  <2>2. Flat(s)[i + 1] = Flat(s)[i] \o s[i + 1]
    BY <1>1, <2>1, FlatAt
  <2>3. Flat(s)[i] \o s[i + 1] \in Seq(S)
    BY <1>1, <1>3, <2>1
  <2> QED
    BY <2>1, <2>2, <2>3
<1>4. \A i \in 1 .. Len(s) : i \in M
  <2> HIDE DEF M
  <2> QED
    BY <1>1, <1>2, <1>3, LevelInduction
<1> QED
  BY <1>1, <1>4, FlattenIs

LEMMA FlatPrefix ==
  ASSUME NEW S, NEW s \in Seq(Seq(S)), NEW t \in Seq(Seq(S)), Len(t) >= 1, Len(t) <= Len(s),
         \A i \in 1 .. Len(t) : t[i] = s[i]
  PROVE  \A i \in 1 .. Len(t) : Flat(t)[i] = Flat(s)[i]
<1>1. Len(s) \in Nat \ {0} /\ Len(t) \in Nat \ {0}
  OBVIOUS
<1> DEFINE M == {i \in 1 .. Len(t) : Flat(t)[i] = Flat(s)[i]}
<1>2. 1 \in M
  <2>1. Flat(s)[1] = s[1] /\ Flat(t)[1] = t[1]
    BY <1>1, FlatAt
  <2>2. 1 \in 1 .. Len(t)
    BY <1>1
  <2> QED
    BY <1>1, <2>1, <2>2
<1>3. ASSUME NEW i \in 1 .. Len(t) - 1, i \in M
      PROVE  i + 1 \in M
  <2>1. /\ i + 1 \in 2 .. Len(t) /\ i + 1 \in 2 .. Len(s) /\ (i + 1) - 1 = i
        /\ i + 1 \in 1 .. Len(t)
    BY <1>1
  <2>2. Flat(t)[i + 1] = Flat(t)[i] \o t[i + 1] /\ Flat(s)[i + 1] = Flat(s)[i] \o s[i + 1]
    BY <1>1, <2>1, FlatAt
  <2> QED
    BY <1>3, <2>1, <2>2
<1>4. \A i \in 1 .. Len(t) : i \in M
  <2> HIDE DEF M
  <2> QED
    BY <1>1, <1>2, <1>3, LevelInduction
<1> QED
  BY <1>4

LEMMA FlattenOne ==
  ASSUME NEW x
  PROVE  FlattenSeq(<<x>>) = x
<1>1. PICK s : s = <<x>>
  OBVIOUS
<1>2. Len(s) = 1 /\ s[1] = x /\ Len(s) \in Nat \ {0}
  BY <1>1
<1>3. FlattenSeq(s) = Flat(s)[1] /\ Flat(s)[1] = s[1]
  BY <1>2, FlattenIs, FlatAt
<1> QED
  BY <1>1, <1>2, <1>3

LEMMA FlattenMore ==
  ASSUME NEW S, NEW s \in Seq(Seq(S)), NEW t \in Seq(Seq(S)), Len(t) >= 1,
         Len(s) = Len(t) + 1, \A i \in 1 .. Len(t) : s[i] = t[i]
  PROVE  FlattenSeq(s) = FlattenSeq(t) \o s[Len(s)]
<1>1. /\ Len(s) \in Nat \ {0} /\ Len(t) \in Nat \ {0} /\ Len(t) <= Len(s)
      /\ Len(s) \in 2 .. Len(s) /\ Len(s) - 1 = Len(t) /\ Len(t) \in 1 .. Len(t)
  OBVIOUS
<1>2. FlattenSeq(s) = Flat(s)[Len(s)] /\ FlattenSeq(t) = Flat(t)[Len(t)]
  BY <1>1, FlattenIs
<1>3. Flat(s)[Len(s)] = Flat(s)[Len(t)] \o s[Len(s)]
  BY <1>1, FlatAt
<1>4. Flat(t)[Len(t)] = Flat(s)[Len(t)]
  BY <1>1, FlatPrefix
<1> QED
  BY <1>2, <1>3, <1>4

(* Something of each element *)
Each(f, s) == [i \in DOMAIN s |-> f[s[i]]]

LEMMA EachIs ==
  ASSUME NEW A, NEW s \in Seq(A), NEW f, NEW B, B = {f[a] : a \in A}
  PROVE  /\ Each(f, s) \in Seq(B) /\ Len(Each(f, s)) = Len(s)
         /\ \A i \in 1 .. Len(s) : Each(f, s)[i] = f[s[i]]
<1>1. DOMAIN s = 1 .. Len(s) /\ Len(s) \in Nat /\ \A i \in 1 .. Len(s) : s[i] \in A
  OBVIOUS
<1>2. PICK e : e = [i \in 1 .. Len(s) |-> f[s[i]]]
  OBVIOUS
<1>3. e \in Seq(B) /\ Len(e) = Len(s) /\ \A i \in 1 .. Len(s) : e[i] = f[s[i]]
  BY <1>1, <1>2
<1>4. Each(f, s) = e
  BY <1>1, <1>2 DEF Each
<1> QED
  BY <1>3, <1>4

LEMMA Joined ==
  ASSUME NEW A, NEW s \in Seq(A), NEW t \in Seq(A)
  PROVE  /\ s \o t \in Seq(A) /\ Len(s \o t) = Len(s) + Len(t)
         /\ Len(s) \in Nat /\ Len(t) \in Nat
         /\ \A i \in 1 .. Len(s) : (s \o t)[i] = s[i] /\ i \in 1 .. Len(s \o t)
         /\ \A i \in 1 .. Len(t) : (s \o t)[Len(s) + i] = t[i] /\ Len(s) + i \in 1 .. Len(s \o t)
OBVIOUS

LEMMA EachOfParts ==
  ASSUME NEW A, NEW s \in Seq(A), NEW t \in Seq(A), NEW f
  PROVE  Each(f, s \o t) = Each(f, s) \o Each(f, t)
<1>0. PICK B : B = {f[a] : a \in A}
  OBVIOUS
<1>1. PICK u : u = s \o t
  OBVIOUS
<1>2. /\ u \in Seq(A) /\ Len(u) = Len(s) + Len(t) /\ Len(s) \in Nat /\ Len(t) \in Nat
      /\ \A i \in 1 .. Len(s) : u[i] = s[i] /\ i \in 1 .. Len(u)
      /\ \A i \in 1 .. Len(t) : u[Len(s) + i] = t[i] /\ Len(s) + i \in 1 .. Len(u)
  BY <1>1, Joined
<1>3. PICK p : p = Each(f, s)
  OBVIOUS
<1>4. PICK q : q = Each(f, t)
  OBVIOUS
<1>5. PICK r : r = Each(f, u)
  OBVIOUS
<1>6. p \in Seq(B) /\ Len(p) = Len(s) /\ \A i \in 1 .. Len(s) : p[i] = f[s[i]]
  BY <1>0, <1>3, EachIs
<1>7. q \in Seq(B) /\ Len(q) = Len(t) /\ \A i \in 1 .. Len(t) : q[i] = f[t[i]]
  BY <1>0, <1>4, EachIs
<1>8. r \in Seq(B) /\ Len(r) = Len(u) /\ \A i \in 1 .. Len(u) : r[i] = f[u[i]]
  <2>1. u \in Seq(A)
    BY <1>2
  <2> QED
    BY <1>0, <1>5, <2>1, EachIs
<1>9. PICK w : w = p \o q
  OBVIOUS
<1>10. /\ w \in Seq(B) /\ Len(w) = Len(p) + Len(q)
       /\ \A i \in 1 .. Len(p) : w[i] = p[i]
       /\ \A i \in 1 .. Len(q) : w[Len(p) + i] = q[i]
  <2>1. p \in Seq(B) /\ q \in Seq(B)
    BY <1>6, <1>7
  <2> QED
    BY <1>9, <2>1, Joined
<1>11. ASSUME NEW i \in 1 .. Len(s)
       PROVE  r[i] = w[i]
  <2>1. r[i] = f[u[i]] /\ u[i] = s[i]
    BY <1>2, <1>8
  <2>2. w[i] = p[i] /\ p[i] = f[s[i]]
    BY <1>6, <1>10
  <2> QED
    BY <2>1, <2>2
<1>12. ASSUME NEW i \in 1 .. Len(t)
       PROVE  r[Len(s) + i] = w[Len(s) + i]
  <2>1. r[Len(s) + i] = f[u[Len(s) + i]] /\ u[Len(s) + i] = t[i]
    BY <1>2, <1>8
  <2>2. w[Len(s) + i] = q[i] /\ q[i] = f[t[i]]
    BY <1>6, <1>7, <1>10
  <2> QED
    BY <2>1, <2>2
<1>13. ASSUME NEW i \in 1 .. Len(u)
       PROVE  r[i] = w[i]
  <2>1. CASE i <= Len(s)
    <3>1. i \in 1 .. Len(s)
      BY <1>2, <2>1
    <3> QED
      BY <1>11, <3>1
  <2>2. CASE i > Len(s)
    <3>1. i - Len(s) \in 1 .. Len(t) /\ Len(s) + (i - Len(s)) = i
      BY <1>2, <2>2
    <3> QED
      BY <1>12, <3>1
  <2> QED
    BY <1>2, <2>1, <2>2
<1>14. Len(w) = Len(u)
  BY <1>2, <1>6, <1>7, <1>10
<1>15. r = w
  BY <1>8, <1>10, <1>13, <1>14, SameSeq
<1> QED
  BY <1>1, <1>3, <1>4, <1>5, <1>9, <1>15

(* Something of each element, level by level *)
EachLevel(f, lv) == [l \in DOMAIN lv |-> Each(f, lv[l])]

LEMMA EachLevelIs ==
  ASSUME NEW A, NEW lv \in Seq(Seq(A)), NEW f, NEW B, B = {f[a] : a \in A}
  PROVE  /\ EachLevel(f, lv) \in Seq(Seq(B)) /\ Len(EachLevel(f, lv)) = Len(lv)
         /\ \A l \in 1 .. Len(lv) : EachLevel(f, lv)[l] = Each(f, lv[l])
<1>1. DOMAIN lv = 1 .. Len(lv) /\ Len(lv) \in Nat /\ \A l \in 1 .. Len(lv) : lv[l] \in Seq(A)
  OBVIOUS
<1>3. PICK e : e = [l \in 1 .. Len(lv) |-> Each(f, lv[l])]
  OBVIOUS
<1>4. \A l \in 1 .. Len(lv) : Each(f, lv[l]) \in Seq(B)
  BY <1>1, EachIs
<1>5. e \in Seq(Seq(B)) /\ Len(e) = Len(lv) /\ \A l \in 1 .. Len(lv) : e[l] = Each(f, lv[l])
  BY <1>1, <1>3, <1>4
<1>6. EachLevel(f, lv) = e
  BY <1>1, <1>3 DEF EachLevel
<1> QED
  BY <1>5, <1>6

LEMMA FlattenEach ==
  ASSUME NEW A, NEW lv \in Seq(Seq(A)), Len(lv) >= 1, NEW f
  PROVE  FlattenSeq(EachLevel(f, lv)) = Each(f, FlattenSeq(lv))
<1>1. PICK B : B = {f[a] : a \in A}
  OBVIOUS
<1>2. PICK m : m = EachLevel(f, lv)
  OBVIOUS
<1>3. /\ m \in Seq(Seq(B)) /\ Len(m) = Len(lv)
      /\ \A l \in 1 .. Len(lv) : m[l] = Each(f, lv[l])
  BY <1>1, <1>2, EachLevelIs
<1>4. Len(lv) \in Nat \ {0} /\ Len(m) \in Nat \ {0} /\ \A l \in 1 .. Len(lv) : lv[l] \in Seq(A)
  BY <1>3
<1> DEFINE M == {l \in 1 .. Len(lv) : Flat(m)[l] = Each(f, Flat(lv)[l])}
<1>5. 1 \in M
  <2>1. Flat(m)[1] = m[1] /\ Flat(lv)[1] = lv[1]
    BY <1>4, FlatAt
  <2>2. 1 \in 1 .. Len(lv)
    BY <1>4
  <2> QED
    BY <1>3, <2>1, <2>2
<1>6. ASSUME NEW l \in 1 .. Len(lv) - 1, l \in M
      PROVE  l + 1 \in M
  <2>1. l + 1 \in 2 .. Len(lv) /\ (l + 1) - 1 = l /\ l + 1 \in 1 .. Len(lv) /\ l \in 1 .. Len(lv)
    BY <1>4
  <2>2. Flat(m)[l + 1] = Flat(m)[l] \o m[l + 1] /\ Flat(lv)[l + 1] = Flat(lv)[l] \o lv[l + 1]
    BY <1>3, <1>4, <2>1, FlatAt
  <2>3. PICK p, q : p = Flat(lv)[l] /\ q = lv[l + 1]
    OBVIOUS
  <2>4. p \in Seq(A) /\ q \in Seq(A)
    BY <1>4, <2>1, <2>3, FlatTypes
  <2>5. Each(f, p \o q) = Each(f, p) \o Each(f, q)
    BY <2>4, EachOfParts
  <2>6. m[l + 1] = Each(f, q) /\ Flat(m)[l] = Each(f, p)
    BY <1>3, <1>6, <2>1, <2>3
  <2>7. Flat(m)[l + 1] = Each(f, Flat(lv)[l + 1])
    BY <2>2, <2>3, <2>5, <2>6
  <2> QED
    BY <2>1, <2>7
<1>7. \A l \in 1 .. Len(lv) : l \in M
  <2> HIDE DEF M
  <2> QED
    BY <1>4, <1>5, <1>6, LevelInduction
<1>8. Len(lv) \in 1 .. Len(lv)
  BY <1>4
<1>9. FlattenSeq(m) = Flat(m)[Len(m)] /\ FlattenSeq(lv) = Flat(lv)[Len(lv)]
  BY <1>4, FlattenIs
<1> QED
  BY <1>2, <1>3, <1>7, <1>8, <1>9

(* Every element of a level is among all. *)
LEMMA FlattenHas ==
  ASSUME NEW A, NEW lv \in Seq(Seq(A)), Len(lv) >= 1,
         NEW l \in 1 .. Len(lv), NEW i \in DOMAIN lv[l]
  PROVE  \E j \in DOMAIN FlattenSeq(lv) : FlattenSeq(lv)[j] = lv[l][i]
<1>1. Len(lv) \in Nat \ {0} /\ \A k \in 1 .. Len(lv) : lv[k] \in Seq(A) /\ Flat(lv)[k] \in Seq(A)
  BY FlatTypes
<1> DEFINE Has(s) == \E j \in DOMAIN s : s[j] = lv[l][i]
           M == {k \in 1 .. Len(lv) : l <= k => Has(Flat(lv)[k])}
<1>2. 1 \in M
  <2>1. Flat(lv)[1] = lv[1]
    BY <1>1, FlatAt
  <2>2. 1 \in 1 .. Len(lv)
    BY <1>1
  <2>3. l <= 1 => l = 1
    OBVIOUS
  <2>4. l = 1 => Has(lv[1])
    OBVIOUS
  <2> HIDE DEF Has
  <2> QED
    BY <2>1, <2>2, <2>3, <2>4
<1>3. ASSUME NEW k \in 1 .. Len(lv) - 1, k \in M
      PROVE  k + 1 \in M
  <2>1. k + 1 \in 2 .. Len(lv) /\ (k + 1) - 1 = k /\ k + 1 \in 1 .. Len(lv) /\ k \in 1 .. Len(lv)
    BY <1>1
  <2>2. Flat(lv)[k + 1] = Flat(lv)[k] \o lv[k + 1]
    BY <1>1, <2>1, FlatAt
  <2>3. PICK p, q : p = Flat(lv)[k] /\ q = lv[k + 1]
    OBVIOUS
  <2>4. p \in Seq(A) /\ q \in Seq(A)
    BY <1>1, <2>1, <2>3
  <2>5. Has(p) => Has(p \o q)
    <3> SUFFICES ASSUME NEW j \in DOMAIN p, p[j] = lv[l][i]
                 PROVE  Has(p \o q)
      OBVIOUS
    <3>1. j \in DOMAIN (p \o q) /\ (p \o q)[j] = p[j]
      BY <2>4
    <3> QED
      BY <3>1
  <2>6. Has(q) => Has(p \o q)
    <3> SUFFICES ASSUME NEW j \in DOMAIN q, q[j] = lv[l][i]
                 PROVE  Has(p \o q)
      OBVIOUS
    <3>1. Len(p) + j \in DOMAIN (p \o q) /\ (p \o q)[Len(p) + j] = q[j]
      BY <2>4
    <3> QED
      BY <3>1
  <2>7. l <= k + 1 => l <= k \/ l = k + 1
    OBVIOUS
  <2>8. l = k + 1 => Has(q)
    BY <2>3
  <2>9. l <= k => Has(p)
    BY <1>3, <2>3
  <2> HIDE DEF Has
  <2> QED
    BY <2>1, <2>2, <2>3, <2>5, <2>6, <2>7, <2>8, <2>9
<1>4. \A k \in 1 .. Len(lv) : k \in M
  <2> HIDE DEF M
  <2> QED
    BY <1>1, <1>2, <1>3, LevelInduction
<1>5. Len(lv) \in 1 .. Len(lv) /\ l <= Len(lv)
  BY <1>1
<1>6. Has(Flat(lv)[Len(lv)])
  BY <1>4, <1>5
<1>7. FlattenSeq(lv) = Flat(lv)[Len(lv)]
  BY <1>1, FlattenIs
<1> QED
  BY <1>6, <1>7

(* One more at the top level *)
TopMore(lv, x) == [lv EXCEPT ![Len(lv)] = Append(@, x)]

LEMMA FlattenTop ==
  ASSUME NEW A, NEW lv \in Seq(Seq(A)), Len(lv) >= 1, NEW x \in A
  PROVE  /\ TopMore(lv, x) \in Seq(Seq(A)) /\ Len(TopMore(lv, x)) = Len(lv)
         /\ TopMore(lv, x)[Len(lv)] = Append(lv[Len(lv)], x)
         /\ \A l \in 1 .. Len(lv) - 1 : TopMore(lv, x)[l] = lv[l]
         /\ FlattenSeq(TopMore(lv, x)) = Append(FlattenSeq(lv), x)
<1>1. PICK n \in Nat \ {0} : n = Len(lv)
  OBVIOUS
<1>2. PICK u : u = TopMore(lv, x)
  OBVIOUS
<1>3. lv[n] \in Seq(A) /\ Append(lv[n], x) \in Seq(A) /\ lv \in [1 .. n -> Seq(A)]
  BY <1>1
<1>4. /\ u \in [1 .. n -> Seq(A)] /\ u[n] = Append(lv[n], x)
      /\ \A l \in 1 .. n - 1 : u[l] = lv[l]
  BY <1>1, <1>2, <1>3 DEF TopMore
<1>5. u \in Seq(Seq(A)) /\ Len(u) = n
  BY <1>1, <1>4
<1>6. FlattenSeq(u) = Append(FlattenSeq(lv), x)
  <2>1. FlattenSeq(lv) = Flat(lv)[n] /\ FlattenSeq(u) = Flat(u)[n]
    BY <1>1, <1>5, FlattenIs
  <2>2. CASE n = 1
    <3>1. Flat(lv)[1] = lv[1] /\ Flat(u)[1] = u[1]
      BY <1>1, <1>5, FlatAt
    <3> QED
      BY <1>4, <2>1, <2>2, <3>1
  <2>3. CASE n # 1
    <3>1. n \in 2 .. n /\ n - 1 \in 1 .. n - 1 /\ n - 1 \in 1 .. n
      BY <2>3
    <3>2. Flat(lv)[n] = Flat(lv)[n - 1] \o lv[n] /\ Flat(u)[n] = Flat(u)[n - 1] \o u[n]
      BY <1>1, <1>5, <3>1, FlatAt
    <3>3. PICK t : t = SubSeq(lv, 1, n - 1)
      OBVIOUS
    <3>4. t \in Seq(Seq(A)) /\ Len(t) = n - 1 /\ \A l \in 1 .. n - 1 : t[l] = lv[l]
      <4>1. n - 1 \in 0 .. Len(lv)
        BY <1>1
      <4> QED
        BY <3>3, <4>1, Prefix
    <3>5. Len(t) >= 1 /\ Len(t) <= Len(lv) /\ Len(t) <= Len(u)
      BY <1>1, <1>5, <3>1, <3>4
    <3>6. \A l \in 1 .. Len(t) : Flat(t)[l] = Flat(lv)[l]
      BY <3>4, <3>5, FlatPrefix
    <3>a. \A l \in 1 .. Len(t) : t[l] = u[l]
      BY <1>4, <3>4
    <3>7. \A l \in 1 .. Len(t) : Flat(t)[l] = Flat(u)[l]
      BY <1>5, <3>4, <3>5, <3>a, FlatPrefix
    <3>8. PICK p : p = Flat(lv)[n - 1]
      OBVIOUS
    <3>9. p \in Seq(A) /\ Flat(u)[n - 1] = p
      BY <1>1, <3>1, <3>4, <3>6, <3>7, <3>8, FlatTypes
    <3>10. p \o Append(lv[n], x) = Append(p \o lv[n], x)
      BY <1>3, <3>9
    <3> QED
      BY <1>4, <2>1, <3>2, <3>8, <3>9, <3>10
  <2> QED
    BY <2>2, <2>3
<1> QED
  BY <1>1, <1>2, <1>4, <1>5, <1>6

LEMMA SameEach ==
  ASSUME NEW A, NEW s \in Seq(A), NEW f, NEW g, \A i \in DOMAIN s : f[s[i]] = g[s[i]]
  PROVE  Each(f, s) = Each(g, s)
BY DEF Each

-----------------------------------------------------------------------------
(* What is left to do.                                                     *)

DueIn(seq, what) == \E i \in DOMAIN seq : seq[i].what = what

Due(what) == DueIn(todo, what)

Ends == {"pop", "reset"}

OnlyLast(seq) == \A i \in DOMAIN seq : seq[i].what \in Ends => i = Len(seq)

LEMMA DueInParts ==
  ASSUME NEW S, NEW u, NEW s, NEW t, Parts(S, u, s, t)
  PROVE  /\ \A what : DueIn(u, what) <=> DueIn(s, what) \/ DueIn(t, what)
         /\ (\A what \in Ends : ~DueIn(s, what)) /\ OnlyLast(t) => OnlyLast(u)
<1>1. s \in Seq(S) /\ t \in Seq(S) /\ u = s \o t
  BY DEF Parts
<1>2. /\ u \in Seq(S) /\ Len(u) = Len(s) + Len(t) /\ Len(s) \in Nat /\ Len(t) \in Nat
      /\ \A i \in 1 .. Len(s) : u[i] = s[i] /\ i \in 1 .. Len(u)
      /\ \A i \in 1 .. Len(t) : u[Len(s) + i] = t[i] /\ Len(s) + i \in 1 .. Len(u)
  BY <1>1, Joined
<1>3. DOMAIN u = 1 .. Len(u) /\ DOMAIN s = 1 .. Len(s) /\ DOMAIN t = 1 .. Len(t)
  BY <1>1, <1>2
<1>4. ASSUME NEW i \in DOMAIN u
      PROVE  \/ i \in DOMAIN s /\ u[i] = s[i]
             \/ i - Len(s) \in DOMAIN t /\ u[i] = t[i - Len(s)] /\ i = Len(s) + (i - Len(s))
  <2>1. CASE i <= Len(s)
    BY <1>2, <1>3, <2>1
  <2>2. CASE i > Len(s)
    <3>1. i - Len(s) \in 1 .. Len(t) /\ i = Len(s) + (i - Len(s))
      BY <1>2, <1>3, <2>2
    <3>2. u[Len(s) + (i - Len(s))] = t[i - Len(s)]
      BY <1>2, <3>1
    <3> QED
      BY <1>3, <3>1, <3>2
  <2> QED
    BY <1>2, <1>3, <2>1, <2>2
<1>5. ASSUME NEW what
      PROVE  DueIn(u, what) <=> DueIn(s, what) \/ DueIn(t, what)
  <2>1. DueIn(u, what) => DueIn(s, what) \/ DueIn(t, what)
    BY <1>4 DEF DueIn
  <2>2. DueIn(s, what) => DueIn(u, what)
    BY <1>2, <1>3 DEF DueIn
  <2>3. DueIn(t, what) => DueIn(u, what)
    <3> SUFFICES ASSUME NEW i \in DOMAIN t, t[i].what = what
                 PROVE  DueIn(u, what)
      BY DEF DueIn
    <3>1. Len(s) + i \in DOMAIN u /\ u[Len(s) + i] = t[i]
      BY <1>2, <1>3
    <3> QED
      BY <3>1 DEF DueIn
  <2> QED
    BY <2>1, <2>2, <2>3
<1>6. ASSUME \A what \in Ends : ~DueIn(s, what), OnlyLast(t), NEW i \in DOMAIN u,
             u[i].what \in Ends
      PROVE  i = Len(u)
  <2>1. i \notin DOMAIN s \/ u[i] # s[i]
    BY <1>6 DEF DueIn
  <2>2. i - Len(s) \in DOMAIN t /\ u[i] = t[i - Len(s)] /\ i = Len(s) + (i - Len(s))
    BY <1>4, <2>1
  <2>3. i - Len(s) = Len(t)
    BY <1>6, <2>2 DEF OnlyLast
  <2> QED
    BY <1>2, <2>2, <2>3
<1> QED
  BY <1>5, <1>6 DEF OnlyLast

LEMMA DueOnce ==
  ASSUME NEW x
  PROVE  /\ \A what : DueIn(<<x>>, what) <=> x.what = what
         /\ \A what : ~DueIn(<< >>, what)
         /\ OnlyLast(<<x>>) /\ OnlyLast(<< >>)
BY DEF DueIn, OnlyLast

LEMMA DueFirst ==
  ASSUME PointersOK, todo # << >>
  PROVE  /\ \A what : Due(what) <=> Head(todo).what = what \/ DueIn(Tail(todo), what)
         /\ OnlyLast(todo) => OnlyLast(Tail(todo))
         /\ OnlyLast(todo) /\ Head(todo).what \in Ends => Tail(todo) = << >>
<1>1. /\ todo \in Seq(Pending) /\ Head(todo) \in Pending /\ Tail(todo) \in Seq(Pending)
      /\ todo = <<Head(todo)>> \o Tail(todo)
  BY DEF PointersOK
<1>2. PICK s, t, u : s = <<Head(todo)>> /\ t = Tail(todo) /\ u = todo
  OBVIOUS
<1>3. Parts(Pending, u, s, t)
  BY <1>1, <1>2 DEF Parts
<1>4. \A what : DueIn(u, what) <=> DueIn(s, what) \/ DueIn(t, what)
  BY <1>3, DueInParts
<1>5. \A what : DueIn(s, what) <=> Head(todo).what = what
  BY <1>2, DueOnce
<1>6. /\ Len(u) = 1 + Len(t) /\ Len(t) \in Nat
      /\ \A i \in 1 .. Len(t) : u[1 + i] = t[i] /\ 1 + i \in 1 .. Len(u)
      /\ u[1] = Head(todo) /\ DOMAIN u = 1 .. Len(u) /\ DOMAIN t = 1 .. Len(t)
  BY <1>1, <1>2
<1>7. ASSUME OnlyLast(u), NEW i \in DOMAIN t, t[i].what \in Ends
      PROVE  i = Len(t)
  <2>1. 1 + i \in DOMAIN u /\ u[1 + i].what \in Ends
    BY <1>6, <1>7
  <2>2. 1 + i = Len(u)
    BY <1>7, <2>1 DEF OnlyLast
  <2> QED
    BY <1>6, <2>2
<1>8. ASSUME OnlyLast(u), Head(todo).what \in Ends
      PROVE  t = << >>
  <2>1. 1 \in DOMAIN u
    BY <1>6
  <2>2. 1 = Len(u)
    BY <1>6, <1>8, <2>1 DEF OnlyLast
  <2> QED
    BY <1>1, <1>2, <1>6, <2>2
<1> QED
  BY <1>2, <1>4, <1>5, <1>7, <1>8 DEF Due, OnlyLast

LEMMA DueReleased ==
  ASSUME NEW ptrs, NEW what, NEW u, Left(ptrs, what, u)
  PROVE  /\ \A w \in Ends : ~DueIn(Released(ptrs), w)
         /\ OnlyLast(Released(ptrs))
         /\ \A w \in Ends : DueIn(u, w) <=> w = what
         /\ OnlyLast(u)
<1>0. /\ ptrs \in Seq(Addr) /\ what \in Ends
      /\ u = Released(ptrs) \o <<Step(what, Null)>>
  BY DEF Left, Ends
<1>1. PICK r, t : r = Released(ptrs) /\ t = <<Step(what, Null)>>
  OBVIOUS
<1>2. \A i \in DOMAIN r : r[i] = Step("dec", ptrs[i])
  BY <1>1 DEF Released
<1>3. \A w \in Ends : ~DueIn(r, w)
  BY <1>2 DEF DueIn, Ends, Step
<1>4. OnlyLast(r)
  BY <1>2 DEF OnlyLast, Ends, Step
<1>5. r \in Seq(Pending)
  BY <1>0, <1>1, ReleasedIs
<1>6. t \in Seq(Pending)
  BY <1>0, <1>1 DEF Step, Pending, Ends
<1>7. Parts(Pending, u, r, t)
  BY <1>0, <1>1, <1>5, <1>6 DEF Parts
<1>8. OnlyLast(t) /\ \A w : DueIn(t, w) <=> w = what
  BY <1>1, DueOnce DEF Step
<1> QED
  BY <1>1, <1>3, <1>4, <1>7, <1>8, DueInParts

LEMMA DueDec ==
  ASSUME NEW ptr
  PROVE  (\A w \in Ends : ~DueIn(Dec(ptr), w)) /\ OnlyLast(Dec(ptr))
<1>1. CASE ptr = Null
  BY <1>1, DueOnce DEF Dec
<1>2. CASE ptr # Null
  <2>1. Dec(ptr) = <<Step("dec", ptr)>> /\ Step("dec", ptr).what \notin Ends
    BY <1>2 DEF Dec, Step, Ends
  <2> QED
    BY <2>1, DueOnce
<1> QED
  BY <1>1, <1>2

(* Whether the back end has still to be told *)
SameDue == OnlyLast(todo') /\ \A what \in Ends : DueIn(todo', what) <=> DueIn(todo, what)

LEMMA DueIdle ==
  ASSUME Idle
  PROVE  \A w : ~DueIn(todo, w)
BY DueOnce DEF Idle

LEMMA DueExpress ==
  ASSUME NEW connectives, ExprNext(connectives)
  PROVE  SameDue
<1>1. Idle /\ (todo' = todo \/ \E ptr : todo' = Dec(ptr))
  BY DEF ExprNext, Copy, Move, Drop, ResetHandle, NewSymbol, NewNegation, NewBinary,
         make_shared_expr
<1>2. OnlyLast(todo') /\ \A w \in Ends : ~DueIn(todo', w)
  BY <1>1, DueDec, DueOnce DEF Idle
<1> QED
  BY <1>1, <1>2, DueIdle DEF SameDue

LEMMA DueDestroying ==
  ASSUME Memory, OnlyLast(todo), dec \/ DeleteExpr
  PROVE  SameDue
<1>1. PointersOK /\ HeapOK
  BY DEF Memory
<1>2. todo # << >> /\ Head(todo).what \notin Ends
  BY DEF dec, DeleteExpr, Doing, Ends
<1>3. /\ \A w \in Ends : DueIn(todo, w) <=> DueIn(Tail(todo), w)
      /\ OnlyLast(Tail(todo)) /\ Tail(todo) \in Seq(Pending)
  BY <1>1, <1>2, DueFirst, FirstToDo DEF Due
<1>4. CASE todo' = Tail(todo)
  BY <1>3, <1>4 DEF SameDue
<1>5. CASE dec /\ todo' = Destruction(It) \o Tail(todo)
  <2>1. It \in Addr
    BY <1>5, Decremented
  <2>2. PICK s, t, u : s = Destruction(It) /\ t = Tail(todo) /\ u = todo'
    OBVIOUS
  <2>3. Parts(Pending, u, s, t)
    BY <1>1, <1>3, <1>5, <2>1, <2>2, DestructionIs DEF Parts
  <2>4. \A w \in Ends : ~DueIn(s, w)
    <3>1. PICK q : q = Reverse(heap[It].args)
      OBVIOUS
    <3>2. PICK r, x : /\ r = [i \in DOMAIN heap[It].args |-> Step("dec", q[i])]
                      /\ x = <<Step("delete", It)>>
      OBVIOUS
    <3>3. s = r \o x
      BY <2>2, <3>1, <3>2 DEF Destruction
    <3>4. heap[It].args \in Seq(Addr)
      BY <1>1, <2>1, ExprType
    <3>5. PICK S : S = {Step("dec", q[i]) : i \in DOMAIN heap[It].args} \union {Step("delete", It)}
      OBVIOUS
    <3>6. r \in Seq(S) /\ x \in Seq(S)
      BY <3>2, <3>4, <3>5 DEF Step
    <3>7. Parts(S, s, r, x)
      BY <3>3, <3>6 DEF Parts
    <3>8. \A w \in Ends : ~DueIn(r, w) /\ ~DueIn(x, w)
      BY <3>2 DEF DueIn, Step, Ends
    <3> QED
      BY <3>7, <3>8, DueInParts
  <2> QED
    BY <1>3, <2>2, <2>3, <2>4, DueInParts DEF SameDue
<1> QED
  BY <1>4, <1>5 DEF dec, DeleteExpr

-----------------------------------------------------------------------------
(* The assertions level by level.                                          *)

(* These are the levels. *)
LevelsAre(lv) ==
  /\ lv \in Seq(Seq(Addr)) /\ Len(lv) = Len(marks) + 1
  /\ FlattenSeq(lv) = assertions
  /\ \A l \in 1 .. Len(marks) : marks[l] = Len(lv[l + 1])
  /\ meant = EachLevel(Meaning, lv)

(* The back end has the terms of a level. *)
TermsAt(lv, l) == {Term[lv[l][i]] : i \in DOMAIN lv[l]}

SettledAt(lv, l) == \A i \in DOMAIN lv[l] : Settled(lv[l][i])

FramesAre(lv) ==
  Keeps /\ ~Due("reset") =>
    /\ Len(frames) = IF Due("pop") THEN Len(lv) + 1 ELSE Len(lv)
    /\ \A l \in 1 .. Len(lv) : frames[l] = TermsAt(lv, l) /\ SettledAt(lv, l)

(* What is asserted is there. *)
LEMMA AssertedLive ==
  Memory => \A i \in DOMAIN assertions :
              assertions[i] \in Addr /\ heap[assertions[i]].refs >= 1
<1> SUFFICES ASSUME Memory, NEW i \in DOMAIN assertions
             PROVE  assertions[i] \in Addr /\ heap[assertions[i]].refs >= 1
  OBVIOUS
<1>1. PointersOK /\ Counts /\ assertions \in Seq(Addr)
  BY DEF Memory, PointersOK
<1>2. PICK a \in Addr : a = assertions[i]
  BY <1>1
<1>3. Occurrences(assertions, a) >= 1
  BY <1>1, <1>2, OccursIn
<1>4. heap[a].refs = Pointers(a)
  BY <1>1 DEF Counts
<1>5. PICK m, n, o, p, q :
        /\ m = HandlesAt(handle, a) /\ n = Cardinality(OperandsIn(heap, Deleting, a))
        /\ o = Occurrences(assertions, a) /\ p = Occurrences(todo, Step("dec", a))
        /\ q = leaked[a]
  OBVIOUS
<1>6. Pointers(a) = m + n + o + p + q /\ m \in Nat /\ n \in Nat /\ o \in Nat /\ p \in Nat /\ q \in Nat
  BY <1>1, <1>5, PointersAre
<1>7. heap[a].refs >= 1
  BY <1>3, <1>4, <1>5, <1>6
<1> QED
  BY <1>2, <1>7

LEMMA AssertedLiveThen ==
  Memory' => (\A i \in DOMAIN assertions :
                assertions[i] \in Addr /\ heap[assertions[i]].refs >= 1)'
BY AssertedLive, PTL

Among(lv, S) == \A l \in 1 .. Len(lv) : \A i \in DOMAIN lv[l] : lv[l][i] \in S

LEMMA AmongFlat ==
  ASSUME NEW lv \in Seq(Seq(Addr)), Len(lv) >= 1, NEW s, s = FlattenSeq(lv),
         NEW S, \A j \in DOMAIN s : s[j] \in S
  PROVE  Among(lv, S)
<1>1. ASSUME NEW l \in 1 .. Len(lv), NEW i \in DOMAIN lv[l]
      PROVE  lv[l][i] \in S
  <2>1. \E j \in DOMAIN s : s[j] = lv[l][i]
    BY FlattenHas
  <2> QED
    BY <2>1
<1> QED
  BY <1>1 DEF Among

(* They mean the same after a step as before it, *)
Between ==
  /\ Memory /\ Memory' /\ WellFormed(heap) /\ WellFormed(heap)' /\ ShapesLast
  /\ UNCHANGED <<backend, consing>>

LEMMA LevelsLast ==
  ASSUME Between, NEW lv \in Seq(Seq(Addr)), Among(lv, Lasting)
  PROVE  EachLevel(Meaning', lv) = EachLevel(Meaning, lv)
<1>1. PICK f, g : f = Meaning /\ g = Meaning'
  OBVIOUS
<1>2. WellFormed(heap')
  BY DEF Between
<1>3. \A a \in Lasting : g[a] = f[a]
  BY <1>1, <1>2, MeaningsLast DEF Between
<1>4. ASSUME NEW l \in DOMAIN lv
      PROVE  Each(g, lv[l]) = Each(f, lv[l])
  <2>1. lv[l] \in Seq(Addr) /\ l \in 1 .. Len(lv)
    OBVIOUS
  <2>2. \A i \in DOMAIN lv[l] : g[lv[l][i]] = f[lv[l][i]]
    BY <1>3, <2>1 DEF Among
  <2> QED
    BY <2>1, <2>2, SameEach
<1> QED
  BY <1>1, <1>4 DEF EachLevel

(* and have the same terms. *)
LEMMA TermsAtLast ==
  ASSUME Between, CacheLasts, NEW lv \in Seq(Seq(Addr)), Among(lv, Lasting),
         NEW l \in 1 .. Len(lv), SettledAt(lv, l)
  PROVE  SettledAt(lv, l)' /\ TermsAt(lv, l)' = TermsAt(lv, l)
<1>1. \A b \in Lasting : (Settled(b) => Settled(b)') /\ (Settled(b)' => (Term[b])' = Term[b])
  BY SettledLast DEF Between
<1>2. \A i \in DOMAIN lv[l] : Settled(lv[l][i]) /\ lv[l][i] \in Lasting
  BY DEF SettledAt, Among
<1>3. \A c : (\E i \in DOMAIN lv[l] : c = lv[l][i]) => Settled(c)' /\ Term'[c] = Term[c]
  BY <1>1, <1>2
<1>4. \A i \in DOMAIN lv[l] : Settled(lv[l][i])'
  BY <1>3
<1>5. \A i \in DOMAIN lv[l] : Term'[lv[l][i]] = Term[lv[l][i]]
  BY <1>3
<1> QED
  BY <1>4, <1>5 DEF SettledAt, TermsAt

(* A step that leaves the assertions alone keeps their levels. *)
LEMMA LevelsSame ==
  ASSUME Between, NEW lv, LevelsAre(lv), UNCHANGED <<assertions, marks, meant>>
  PROVE  LevelsAre(lv)' /\ Among(lv, Lasting)
<1>1. lv \in Seq(Seq(Addr)) /\ Len(lv) = Len(marks) + 1 /\ FlattenSeq(lv) = assertions
  BY DEF LevelsAre
<1>2. ASSUME NEW j \in DOMAIN assertions
      PROVE  assertions[j] \in Lasting
  <2>1. assertions[j] \in Addr /\ heap[assertions[j]].refs >= 1
    BY AssertedLive DEF Between
  <2>2. assertions' = assertions
    OBVIOUS
  <2>3. heap'[assertions'[j]].refs >= 1
    BY <2>2, AssertedLiveThen DEF Between
  <2> QED
    BY <2>1, <2>2, <2>3 DEF Lasting
<1>3. Len(lv) \in Nat /\ Len(lv) >= 1
  BY <1>1 DEF LevelsAre
<1>4. Among(lv, Lasting)
  BY <1>1, <1>2, <1>3, AmongFlat
<1>5. EachLevel(Meaning', lv) = EachLevel(Meaning, lv)
  BY <1>1, <1>4, LevelsLast
<1> QED
  BY <1>4, <1>5 DEF LevelsAre

LEMMA FramesSame ==
  ASSUME Between, CacheLasts, NEW lv, LevelsAre(lv), Among(lv, Lasting), FramesAre(lv),
         frames' = frames, \A w \in Ends : Due(w)' <=> Due(w)
  PROVE  FramesAre(lv)'
<1>1. lv \in Seq(Seq(Addr))
  BY DEF LevelsAre
<1>2. backend' = backend /\ (Keeps' <=> Keeps)
  BY DEF Between, Keeps
<1>3. (Due("pop")' <=> Due("pop")) /\ (Due("reset")' <=> Due("reset"))
  BY DEF Ends
<1> SUFFICES ASSUME Keeps, ~Due("reset")
             PROVE  /\ Len(frames') = IF Due("pop") THEN Len(lv) + 1 ELSE Len(lv)
                    /\ \A l \in 1 .. Len(lv) : frames'[l] = TermsAt(lv, l)' /\ SettledAt(lv, l)'
  BY <1>2, <1>3 DEF FramesAre
<1>4. ASSUME NEW l \in 1 .. Len(lv)
      PROVE  frames'[l] = TermsAt(lv, l)' /\ SettledAt(lv, l)'
  <2>1. frames[l] = TermsAt(lv, l) /\ SettledAt(lv, l)
    BY DEF FramesAre
  <2> QED
    BY <1>1, <2>1, TermsAtLast
<1> QED
  BY <1>4 DEF FramesAre

-----------------------------------------------------------------------------
(* The cache through the steps.                                            *)

SameCaching ==
  \A a \in Lasting : (Caches(a)' <=> Caches(a)) /\ Key(a)' = Key(a)

LEMMA CachingLasts ==
  ASSUME ShapesLast, UNCHANGED <<backend, consing>>
  PROVE  SameCaching
BY DEF ShapesLast, SameCaching, Caches, Key

LEMMA CacheLastsSame ==
  ASSUME ShapesLast, UNCHANGED <<backend, consing, cache>>
  PROVE  CacheLasts
<1>1. SameCaching
  BY CachingLasts
<1>2. ASSUME NEW a \in Lasting
      PROVE  (IsCached(a)' <=> IsCached(a)) /\ (cache[Key(a)])' = cache[Key(a)]
  BY <1>1 DEF SameCaching, IsCached
<1> QED
  BY <1>2 DEF CacheLasts

LEMMA CacheLastsEncoded ==
  ASSUME ShapesLast, UNCHANGED <<backend, consing>>, NEW encoded, Encoded(cache', encoded)
  PROVE  CacheLasts
<1>1. SameCaching
  BY CachingLasts
<1>2. ASSUME NEW a \in Lasting
      PROVE  /\ IsCached(a) => IsCached(a)' /\ (cache[Key(a)])' = cache[Key(a)]
             /\ ~IsCached(a) /\ IsCached(a)' => (cache[Key(a)])' = Term[a]
  <2>1. a \in Addr
    BY DEF Lasting
  <2>2. /\ \A k \in DOMAIN cache : k \in DOMAIN cache' /\ cache'[k] = cache[k]
        /\ ~IsCached(a) /\ Caches(a) /\ Key(a) \in DOMAIN cache' => cache'[Key(a)] = Term[a]
    BY <2>1 DEF Encoded
  <2> QED
    BY <1>1, <2>2 DEF SameCaching, IsCached
<1> QED
  BY <1>2 DEF CacheLasts

LEMMA KeyIs ==
  ASSUME HeapOK, NEW a \in Addr, Caches(a)
  PROVE  IF FiledBySymbol THEN Key(a) \in Symbol ELSE Key(a) = a
BY DEF HeapOK, Caches, Key, FiledBySymbol

LEMMA CacheLastsForgotten ==
  ASSUME Between, NEW b \in Addr, b \notin Lasting, cache' = Forgotten(b)
  PROVE  CacheLasts
<1>1. SameCaching /\ HeapOK
  BY CachingLasts DEF Between, Memory
<1>2. /\ \A k \in DOMAIN cache \ {b} : k \in DOMAIN cache' /\ cache'[k] = cache[k]
      /\ DOMAIN cache' = DOMAIN cache \ {b}
  BY DEF Forgotten
<1>3. ASSUME NEW a \in Lasting, Caches(a)
      PROVE  Key(a) # b
  <2>1. a \in Addr /\ a # b
    BY DEF Lasting
  <2>2. IF FiledBySymbol THEN Key(a) \in Symbol ELSE Key(a) = a
    BY <1>1, <1>3, <2>1, KeyIs
  <2> QED
    BY <2>1, <2>2, ExpressionsAssumption
<1>4. ASSUME NEW a \in Lasting
      PROVE  /\ IsCached(a) => IsCached(a)' /\ (cache[Key(a)])' = cache[Key(a)]
             /\ ~IsCached(a) /\ IsCached(a)' => (cache[Key(a)])' = Term[a]
  BY <1>1, <1>2, <1>3 DEF SameCaching, IsCached
<1> QED
  BY <1>4 DEF CacheLasts

(* What has been encoded is settled. *)
LEMMA EncodedSettled ==
  ASSUME Between, SameShapes, NEW encoded, Encoded(cache', encoded),
         NEW a \in Addr, a \in encoded
  PROVE  Settled(a)'
<1>1. \A b \in Addr : /\ heap'[b].kind = heap[b].kind /\ heap'[b].name = heap[b].name
                      /\ heap'[b].args = heap[b].args
  BY DEF SameShapes, ShapeAt, Shape
<1>2. WellFormed(heap) /\ WellFormed(heap)' /\ backend' = backend /\ consing' = consing
  BY DEF Between
<1> DEFINE S == {b \in Addr : Visited[b] \subseteq Visited[a] => Settled(b)'}
<1>3. ASSUME NEW b \in Addr, \A i \in DOMAIN heap[b].args : heap[b].args[i] \in S
      PROVE  b \in S
  <2> SUFFICES ASSUME Visited[b] \subseteq Visited[a]
               PROVE  Settled(b)'
    OBVIOUS
  <2>1. /\ b \in Visited[b]
        /\ ~IsCached(b) => \A i \in DOMAIN heap[b].args :
                             Visited[heap[b].args[i]] \subseteq Visited[b]
    BY <1>2, VisitedSelf
  <2>2. Settled(b)' <=>
          \/ IsCached(b)'
          \/ ~Caches(b)' /\ \A i \in DOMAIN heap[b].args : Settled(heap[b].args[i])'
    BY <1>1, <1>2, SettledThen
  <2>3. (Caches(b)' <=> Caches(b)) /\ Key(b)' = Key(b)
    BY <1>1, <1>2 DEF Caches, Key
  <2>4. CASE Caches(b)
    <3>1. Key(b) \in DOMAIN cache'
      BY <2>1, <2>4 DEF Encoded
    <3> QED
      BY <2>2, <2>3, <2>4, <3>1 DEF IsCached
  <2>5. CASE ~Caches(b)
    <3>1. ~IsCached(b)
      BY <2>5 DEF IsCached
    <3>2. \A c : (\E i \in DOMAIN heap[b].args : c = heap[b].args[i]) => Settled(c)'
      BY <1>3, <2>1, <3>1
    <3>3. \A i \in DOMAIN heap[b].args : Settled(heap[b].args[i])'
      <4> SUFFICES ASSUME NEW i \in DOMAIN heap[b].args
                   PROVE  Settled(heap[b].args[i])'
        OBVIOUS
      <4>1. PICK c : c = heap[b].args[i]
        OBVIOUS
      <4>2. Settled(c)'
        BY <3>2, <4>1
      <4>3. heap'[b].args = heap[b].args
        BY <1>1
      <4> QED
        BY <1>1, <4>1, <4>2, <4>3
    <3> QED
      BY <2>2, <2>3, <2>5, <3>3
  <2> QED
    BY <2>4, <2>5
<1>4. S \in SUBSET Addr
  OBVIOUS
<1>5. S = Addr
  <2> HIDE DEF S
  <2> QED
    BY <1>2, <1>3, <1>4, ExpressionInduction
<1> QED
  BY <1>5

(* Every step but those that reset it changes the cache so: *)
LEMMA CacheStepSame ==
  ASSUME CacheOK, cache' = cache, \A a \in Deleting : a \in Deleting'
  PROVE  CacheStep
BY DEF CacheOK, CacheStep

LEMMA CacheStepEmpty ==
  ASSUME DOMAIN cache' = {}
  PROVE  CacheStep
BY FS_EmptySet DEF CacheStep

LEMMA CacheStepForgotten ==
  ASSUME CacheOK, NEW b, cache' = Forgotten(b), \A a \in Deleting : a \in Deleting' \/ a = b
  PROVE  CacheStep
<1>1. /\ \A k \in DOMAIN cache' : k \in DOMAIN cache /\ cache'[k] = cache[k] /\ k # b
      /\ DOMAIN cache' \subseteq DOMAIN cache
  BY DEF Forgotten
<1>2. IsFiniteSet(DOMAIN cache')
  BY <1>1, FS_Subset DEF CacheOK
<1> QED
  BY <1>1, <1>2 DEF CacheStep

LEMMA CacheStepEncoded ==
  ASSUME Memory, WellFormed(heap), CacheOK, FramesOK, Idle, NEW encoded,
         \A a \in encoded : a \in Addr /\ heap[a].refs >= 1, cache' = CacheAfter(encoded)
  PROVE  Encoded(cache', encoded) /\ CacheStep
<1>1. HeapOK /\ IsFiniteSet(DOMAIN cache) /\ \A k \in DOMAIN cache : IsTerm(cache[k])
  BY DEF Memory, CacheOK
<1>2. IsFiniteSet(VariablesInUse)
  BY <1>1, VariablesFinite
<1>3. Deleting = {}
  BY IdleNow
<1>4. \A a \in encoded : \A b \in Visited[a] : b \in Addr /\ heap[b].refs >= 1
  BY VisitedLive
<1>5. Encoded(cache', encoded)
  BY <1>1, <1>4, EncodedAfter
<1>6. ASSUME NEW k \in DOMAIN cache' \ DOMAIN cache
      PROVE  \E b \in Addr : k = Key(b) /\ Filed(b, cache'[k])
  <2>1. PICK b \in Addr : /\ k = Key(b) /\ Caches(b) /\ ~IsCached(b) /\ cache'[k] = Term[b]
                          /\ \E a \in encoded : b \in Visited[a]
    BY <1>5 DEF Encoded
  <2>2. heap[b].refs >= 1
    BY <1>4, <2>1
  <2>3. IsTerm(Term[b]) /\ MeaningOfTerm(Term[b]) = Meaning[b]
    BY <1>1, <1>2, <1>3, TermsMean
  <2>4. ASSUME backend = "cvc4"
        PROVE  \E x \in Symbol \X Nat : Term[b] = Atom(x)
    <3>1. heap[b].kind = "symbol"
      BY <2>1, <2>4 DEF Caches
    <3>2. heap[b].name \in Symbol
      BY <1>1, <3>1 DEF HeapOK
    <3>3. Term[b] = TermBy(Term, b)
      BY TermsNow
    <3>4. Term[b] = Atom(Variable(heap[b].name))
      BY <2>1, <3>1, <3>3 DEF TermBy
    <3>5. \E n \in Nat : Variable(heap[b].name) = <<heap[b].name, n>>
      BY <1>2, VariableIs
    <3> QED
      BY <3>2, <3>4, <3>5
  <2> QED
    BY <2>1, <2>2, <2>3, <2>4 DEF Filed
<1>7. \A k \in DOMAIN cache : k \in DOMAIN cache' /\ cache'[k] = cache[k]
  BY <1>5 DEF Encoded
<1>8. IsFiniteSet(DOMAIN cache')
  BY <1>5 DEF Encoded
<1> QED
  BY <1>3, <1>5, <1>6, <1>7, <1>8 DEF CacheStep

-----------------------------------------------------------------------------
(* The back end has the assertions, level by level.                        *)
Emptied == Due("reset") => assertions = << >> /\ marks = << >>

InLevels == \E lv : LevelsAre(lv) /\ FramesAre(lv)

StackInStep ==
  /\ WellFormed(heap) /\ CacheOK /\ FramesOK /\ OnlyLast(todo)
  /\ ~registered => DOMAIN cache = {}
  /\ Emptied
  /\ InLevels

(* A step, and what has to be shown of it *)
Going == Invariant /\ StackInStep /\ Between /\ ShapesKept

Stepped ==
  /\ CacheStep /\ FramesOK' /\ OnlyLast(todo)'
  /\ (~registered => DOMAIN cache = {})'
  /\ Emptied' /\ InLevels'

LEMMA FramesOKSame ==
  ASSUME FramesOK, frames' = frames
  PROVE  FramesOK'
BY DEF FramesOK, IsTerm, IsFormula

(* A step that leaves the assertions alone *)
LEMMA SteppedQuietly ==
  ASSUME Going, UNCHANGED <<assertions, marks, meant, frames>>, SameDue,
         CacheLasts, CacheStep, ~registered' => DOMAIN cache' = {}
  PROVE  Stepped
<1>1. StackInStep /\ Between
  BY DEF Going
<1>2. PICK lv : LevelsAre(lv) /\ FramesAre(lv)
  BY <1>1 DEF StackInStep, InLevels
<1>3. LevelsAre(lv)' /\ Among(lv, Lasting)
  BY <1>1, <1>2, LevelsSame
<1>4. OnlyLast(todo)' /\ \A w \in Ends : Due(w)' <=> Due(w)
  BY DEF SameDue, Due
<1>5. FramesAre(lv)'
  BY <1>1, <1>2, <1>3, <1>4, FramesSame
<1>6. FramesOK'
  BY <1>1, FramesOKSame DEF StackInStep
<1>7. Emptied'
  BY <1>1, <1>4 DEF StackInStep, Emptied, Ends
<1>8. InLevels'
  BY <1>3, <1>5 DEF InLevels
<1> QED
  BY <1>4, <1>6, <1>7, <1>8 DEF Stepped

(* and the expressions, too, *)
LEMMA SameDueSame ==
  ASSUME OnlyLast(todo), todo' = todo
  PROVE  SameDue
BY DEF SameDue, OnlyLast, DueIn

LEMMA SteppedIdly ==
  ASSUME Going, UNCHANGED <<expr_vars, backend, assertions, marks, meant, frames, cache>>,
         registered' \in {registered, TRUE}
  PROVE  Stepped
<1>1. StackInStep /\ Between /\ CacheOK /\ ShapesLast
  BY DEF Going, StackInStep, Between
<1>2. SameDue
  BY <1>1, SameDueSame DEF StackInStep, expr_vars
<1>3. CacheLasts
  BY <1>1, CacheLastsSame DEF expr_vars
<1>4. CacheStep
  BY <1>1, CacheStepSame DEF expr_vars, Deleting
<1>5. ~registered' => DOMAIN cache' = {}
  BY <1>1 DEF StackInStep
<1> QED
  BY <1>2, <1>3, <1>4, <1>5, SteppedQuietly

(* or makes and destroys expressions alone *)
LEMMA SteppedExpress ==
  ASSUME Going, Express
  PROVE  Stepped
<1>1. StackInStep /\ Between /\ CacheOK /\ ShapesLast
  BY DEF Going, StackInStep, Between
<1>2. ExprNext(Connectives[backend]) /\ UNCHANGED <<solver_vars, client_vars>>
  BY DEF Express
<1>3. SameDue
  BY <1>2, DueExpress
<1>4. CacheLasts
  BY <1>1, <1>2, CacheLastsSame DEF solver_vars, Between
<1>5. Idle
  BY <1>2 DEF ExprNext, Copy, Move, Drop, ResetHandle, NewSymbol, NewNegation, NewBinary,
              make_shared_expr
<1>6. Deleting = {}
  BY <1>5, IdleNow
<1>7. CacheStep
  BY <1>1, <1>2, <1>6, CacheStepSame DEF solver_vars
<1>8. ~registered' => DOMAIN cache' = {}
  BY <1>1, <1>2 DEF StackInStep, solver_vars
<1> QED
  BY <1>2, <1>3, <1>4, <1>7, <1>8, SteppedQuietly DEF solver_vars, client_vars

LEMMA SteppedDec ==
  ASSUME Going, DecStep, \A a \in Deleting : a \in Deleting'
  PROVE  Stepped
<1>1. StackInStep /\ Between /\ CacheOK /\ ShapesLast /\ Memory
  BY DEF Going, StackInStep, Between
<1>2. dec /\ UNCHANGED <<solver_vars, client_vars>>
  BY DEF DecStep
<1>3. SameDue
  BY <1>1, <1>2, DueDestroying DEF StackInStep
<1>4. CacheLasts
  BY <1>1, <1>2, CacheLastsSame DEF solver_vars, Between
<1>5. CacheStep
  BY <1>1, <1>2, CacheStepSame DEF solver_vars
<1>6. ~registered' => DOMAIN cache' = {}
  BY <1>1, <1>2 DEF StackInStep, solver_vars
<1> QED
  BY <1>2, <1>3, <1>4, <1>5, <1>6, SteppedQuietly DEF solver_vars, client_vars

LEMMA SteppedDelete ==
  ASSUME Going, DeleteAndNotify, \A a \in Deleting : a \in Deleting' \/ a = It
  PROVE  Stepped
<1>1. StackInStep /\ Between /\ CacheOK /\ ShapesLast /\ Memory
  BY DEF Going, StackInStep, Between
<1>2. /\ DeleteExpr /\ cache' = IF registered THEN Forgotten(It) ELSE cache
      /\ UNCHANGED <<registered, backend, assertions, marks, frames, client_vars>>
  BY DEF DeleteAndNotify
<1>3. SameDue
  BY <1>1, <1>2, DueDestroying DEF StackInStep
<1>4. CASE registered
  <2>1. It \in Addr /\ It \notin Lasting
    <3>1. todo # << >> /\ Head(todo).what = "delete"
      BY <1>2 DEF DeleteExpr, Doing
    <3>2. /\ Head(todo) \in Pending
          /\ Deleting = {a \in Addr : Head(todo) = Step("delete", a)} \union DeletingIn(Tail(todo))
      BY <1>1, <3>1, FirstToDo DEF Memory
    <3>3. It \in Addr /\ Head(todo) = Step("delete", It)
      BY <3>1, <3>2 DEF It, Pending, Step
    <3>4. heap[It].refs = 0
      BY <1>1, <3>2, <3>3 DEF Memory, OnItsWayOut
    <3> QED
      BY <3>3, <3>4 DEF Lasting
  <2>2. CacheLasts
    BY <1>1, <1>2, <1>4, <2>1, CacheLastsForgotten
  <2>3. CacheStep
    BY <1>1, <1>2, <1>4, CacheStepForgotten
  <2> QED
    BY <1>2, <1>3, <1>4, <2>2, <2>3, SteppedQuietly DEF client_vars
<1>5. CASE ~registered
  <2>1. CacheLasts
    BY <1>1, <1>2, <1>5, CacheLastsSame DEF Between
  <2>2. DOMAIN cache' = {}
    BY <1>1, <1>2, <1>5 DEF StackInStep
  <2> QED
    BY <1>2, <1>3, <2>1, <2>2, CacheStepEmpty, SteppedQuietly DEF client_vars
<1> QED
  BY <1>4, <1>5

-----------------------------------------------------------------------------
(* Resetting.                                                              *)
LEMMA OneLevel ==
  assertions = << >> /\ marks = << >> /\ meant = << << >> >> =>
    \E lv : LevelsAre(lv) /\ lv = << << >> >>
<1> SUFFICES ASSUME assertions = << >>, marks = << >>, meant = << << >> >>
             PROVE  \E lv : LevelsAre(lv) /\ lv = << << >> >>
  OBVIOUS
<1>1. PICK lv : lv = << << >> >>
  OBVIOUS
<1>2. lv \in Seq(Seq(Addr)) /\ Len(lv) = 1 /\ lv[1] = << >> /\ DOMAIN lv = {1}
  BY <1>1
<1>3. FlattenSeq(lv) = << >>
  BY <1>1, FlattenOne
<1>4. EachLevel(Meaning, lv) = << << >> >>
  <2>1. PICK f : f = Meaning
    OBVIOUS
  <2>2. Each(f, << >>) = << >>
    BY DEF Each
  <2>3. PICK e : e = EachLevel(f, lv)
    OBVIOUS
  <2>4. e = [l \in {1} |-> << >>]
    BY <1>2, <2>2, <2>3 DEF EachLevel
  <2>5. e = << << >> >>
    BY <2>4
  <2> QED
    BY <2>1, <2>3, <2>5
<1>5. LevelsAre(lv)
  BY <1>2, <1>3, <1>4 DEF LevelsAre
<1> QED
  BY <1>1, <1>5

LEMMA OneLevelThen ==
  (assertions = << >> /\ marks = << >> /\ meant = << << >> >>)' =>
    (\E lv : LevelsAre(lv) /\ lv = << << >> >>)'
BY OneLevel, PTL

LEMMA OneFrame ==
  ~Due("pop") /\ frames = <<{}>> =>
    FramesOK /\ \A lv : lv = << << >> >> => FramesAre(lv)
<1> SUFFICES ASSUME ~Due("pop"), frames = <<{}>>
             PROVE  FramesOK /\ \A lv : lv = << << >> >> => FramesAre(lv)
  OBVIOUS
<1>1. /\ Len(frames) = 1 /\ frames[1] = {} /\ DOMAIN frames = {1} /\ frames \in Seq({{}})
  OBVIOUS
<1>2. FramesOK
  BY <1>1, FS_EmptySet DEF FramesOK
<1>3. ASSUME NEW lv, lv = << << >> >>
      PROVE  FramesAre(lv)
  <2>1. Len(lv) = 1 /\ lv[1] = << >> /\ DOMAIN lv[1] = {}
    BY <1>3
  <2>2. \A l \in 1 .. Len(lv) : frames[l] = TermsAt(lv, l) /\ SettledAt(lv, l)
    BY <1>1, <2>1 DEF TermsAt, SettledAt
  <2> QED
    BY <1>1, <2>1, <2>2 DEF FramesAre
<1> QED
  BY <1>2, <1>3

LEMMA OneFrameThen ==
  (~Due("pop") /\ frames = <<{}>>)' =>
    (FramesOK /\ \A lv : lv = << << >> >> => FramesAre(lv))'
BY OneFrame, PTL

LEMMA SteppedReset ==
  ASSUME Going, reset
  PROVE  Stepped
<1>1. StackInStep /\ CacheOK /\ Memory /\ assertions \in Seq(Addr)
  BY DEF Going, StackInStep, Invariant, Memory, PointersOK
<1>2. /\ Idle /\ registered /\ assertions' = << >> /\ marks' = << >> /\ meant' = << << >> >>
      /\ todo' = Released(assertions) \o <<Step("reset", Null)>>
      /\ UNCHANGED <<registered, backend, cache, frames>>
  BY DEF reset, Calls
<1>3. PICK u, what : u = todo' /\ what = "reset"
  OBVIOUS
<1>4. OnlyLast(u) /\ \A w \in Ends : DueIn(u, w) <=> w = "reset"
  <2>1. Left(assertions, what, u)
    BY <1>1, <1>2, <1>3 DEF Left
  <2> QED
    BY <1>3, <2>1, DueReleased
<1>5. OnlyLast(todo)' /\ Due("reset")'
  BY <1>3, <1>4 DEF Due, Ends
<1>6. PICK lv : LevelsAre(lv)'
  BY <1>2, OneLevelThen
<1>7. FramesAre(lv)'
  BY <1>5 DEF FramesAre
<1>8. CacheStep
  BY <1>1, <1>2, CacheStepSame, IdleNow
<1>9. FramesOK'
  BY <1>1, <1>2, FramesOKSame DEF StackInStep
<1>10. Emptied' /\ InLevels'
  BY <1>2, <1>6, <1>7 DEF Emptied, InLevels
<1> QED
  BY <1>2, <1>5, <1>8, <1>9, <1>10 DEF Stepped

LEMMA Stepped__reset ==
  ASSUME Going, __reset
  PROVE  Stepped
<1>1. StackInStep /\ PointersOK /\ Emptied /\ InLevels
  BY DEF Going, StackInStep, Invariant, Memory
<1>2. /\ todo # << >> /\ Head(todo).what = "reset" /\ todo' = Tail(todo)
      /\ frames' = <<{}>> /\ cache' = [k \in {} |-> Nothing]
      /\ UNCHANGED <<assertions, marks, meant>>
  BY DEF __reset, Doing, client_vars
<1>3. Due("reset") /\ todo' = << >>
  BY <1>1, <1>2, DueFirst DEF Ends, StackInStep
<1>4. OnlyLast(todo)' /\ \A w : ~Due(w)'
  BY <1>3, DueOnce DEF Due
<1>5. assertions = << >> /\ marks = << >>
  BY <1>1, <1>3 DEF Emptied
<1>6. meant = << << >> >>
  <2>1. PICK lv : LevelsAre(lv)
    BY <1>1 DEF InLevels
  <2>2. /\ lv \in Seq(Seq(Addr)) /\ Len(lv) = 1 /\ FlattenSeq(lv) = << >>
        /\ meant = EachLevel(Meaning, lv)
    BY <1>5, <2>1 DEF LevelsAre
  <2>3. PICK x : x = lv[1] /\ lv = <<x>>
    BY <2>2
  <2>4. x = << >>
    BY <2>2, <2>3, FlattenOne
  <2>5. PICK f, e : f = Meaning /\ e = EachLevel(f, lv)
    OBVIOUS
  <2>6. Each(f, << >>) = << >>
    BY DEF Each
  <2>7. DOMAIN lv = {1} /\ lv[1] = << >>
    BY <2>3, <2>4
  <2>8. e = [l \in {1} |-> << >>]
    BY <2>5, <2>6, <2>7 DEF EachLevel
  <2>9. e = << << >> >>
    BY <2>8
  <2> QED
    BY <2>2, <2>5, <2>9
<1>7. PICK lv : LevelsAre(lv)' /\ lv = << << >> >>
  BY <1>2, <1>5, <1>6, OneLevelThen
<1>8. FramesAre(lv)' /\ FramesOK'
  BY <1>2, <1>4, <1>7, OneFrameThen
<1>9. DOMAIN cache' = {}
  BY <1>2
<1>10. Emptied' /\ InLevels'
  BY <1>4, <1>7, <1>8 DEF Emptied, InLevels
<1> QED
  BY <1>4, <1>8, <1>9, <1>10, CacheStepEmpty DEF Stepped

LEMMA SteppedDestroy ==
  ASSUME Going, Destroy
  PROVE  Stepped
<1>1. assertions \in Seq(Addr)
  BY DEF Going, Invariant, Memory, PointersOK
<1>2. /\ assertions' = << >> /\ marks' = << >> /\ meant' = << << >> >>
      /\ todo' = Released(assertions) /\ frames' = <<{}>> /\ cache' = [k \in {} |-> Nothing]
  BY DEF Destroy
<1>3. OnlyLast(todo)' /\ \A w \in Ends : ~Due(w)'
  <2>1. PICK r, u, what : /\ r = Released(assertions) /\ u = r \o <<Step(what, Null)>>
                          /\ what = "reset"
    OBVIOUS
  <2>2. Left(assertions, what, u)
    BY <1>1, <2>1 DEF Left
  <2>3. OnlyLast(r) /\ \A w \in Ends : ~DueIn(r, w)
    BY <2>1, <2>2, DueReleased
  <2> QED
    BY <1>2, <2>1, <2>3 DEF Due
<1>4. PICK lv : LevelsAre(lv)' /\ lv = << << >> >>
  BY <1>2, OneLevelThen
<1>5. FramesAre(lv)' /\ FramesOK'
  BY <1>2, <1>3, <1>4, OneFrameThen DEF Ends
<1>6. DOMAIN cache' = {}
  BY <1>2
<1>7. Emptied' /\ InLevels'
  BY <1>3, <1>4, <1>5 DEF Emptied, InLevels, Ends
<1> QED
  BY <1>3, <1>5, <1>6, <1>7, CacheStepEmpty DEF Stepped

-----------------------------------------------------------------------------
(* Levels opened, closed and filled.                                       *)
LEMMA OpenedLevels ==
  ASSUME NEW A, NEW lv \in Seq(Seq(A)), Len(lv) >= 1
  PROVE  \E u : /\ u = Append(lv, << >>)
                /\ u \in Seq(Seq(A)) /\ Len(u) = Len(lv) + 1 /\ u[Len(u)] = << >>
                /\ \A l \in 1 .. Len(lv) : u[l] = lv[l]
                /\ FlattenSeq(u) = FlattenSeq(lv)
<1>0. PICK x, u : x = << >> /\ u = Append(lv, x)
  OBVIOUS
<1>1. x \in Seq(A)
  BY <1>0
<1>2. /\ u \in Seq(Seq(A)) /\ Len(u) = Len(lv) + 1 /\ u[Len(u)] = x
      /\ \A l \in 1 .. Len(lv) : u[l] = lv[l]
  BY <1>0, <1>1
<1>3. FlattenSeq(u) = FlattenSeq(lv) \o x
  BY <1>2, FlattenMore
<1>4. PICK s : s = FlattenSeq(lv)
  OBVIOUS
<1>5. s \in Seq(A)
  BY <1>4, FlatTypes
<1>6. s \o x = s
  BY <1>0, <1>5
<1> QED
  BY <1>0, <1>2, <1>3, <1>4, <1>6

LEMMA OpenedEach ==
  ASSUME NEW lv \in Seq(Seq(Addr)), NEW f
  PROVE  EachLevel(f, Append(lv, << >>)) = Append(EachLevel(f, lv), << >>)
<1>0. PICK x, u : x = << >> /\ u = Append(lv, x)
  OBVIOUS
<1>1. PICK B : B = {f[a] : a \in Addr}
  OBVIOUS
<1>2. PICK m, n : m = EachLevel(f, lv) /\ n = EachLevel(f, u)
  OBVIOUS
<1>3. /\ u \in Seq(Seq(Addr)) /\ Len(u) = Len(lv) + 1 /\ u[Len(u)] = x
      /\ \A l \in 1 .. Len(lv) : u[l] = lv[l]
  BY <1>0
<1>4. /\ m \in Seq(Seq(B)) /\ Len(m) = Len(lv)
      /\ \A l \in 1 .. Len(lv) : m[l] = Each(f, lv[l])
  BY <1>1, <1>2, EachLevelIs
<1>5. /\ n \in Seq(Seq(B)) /\ Len(n) = Len(u)
      /\ \A l \in 1 .. Len(u) : n[l] = Each(f, u[l])
  BY <1>1, <1>2, <1>3, EachLevelIs
<1>6. Each(f, x) = << >>
  <2>1. DOMAIN x = {} /\ x = << >>
    BY <1>0
  <2> QED
    BY <2>1 DEF Each
<1>7. PICK p : p = Append(m, << >>)
  OBVIOUS
<1>8. p \in Seq(Seq(B)) /\ Len(p) = Len(lv) + 1 /\ p[Len(lv) + 1] = << >>
      /\ \A l \in 1 .. Len(lv) : p[l] = m[l]
  BY <1>4, <1>7
<1>9. Len(lv) \in Nat
  OBVIOUS
<1>10. ASSUME NEW l \in 1 .. Len(p)
       PROVE  n[l] = p[l]
  <2>1. CASE l \in 1 .. Len(lv)
    BY <1>3, <1>4, <1>5, <1>8, <1>9, <2>1
  <2>2. CASE l = Len(lv) + 1
    BY <1>3, <1>5, <1>6, <1>8, <1>9, <2>2
  <2> QED
    BY <1>8, <1>9, <2>1, <2>2
<1>11. n = p
  BY <1>3, <1>5, <1>8, <1>10, SameSeq
<1> QED
  BY <1>0, <1>2, <1>7, <1>11

LEMMA ClosedLevels ==
  ASSUME NEW A, NEW lv \in Seq(Seq(A)), Len(lv) >= 2
  PROVE  \E u : /\ u = Front(lv)
                /\ u \in Seq(Seq(A)) /\ Len(u) = Len(lv) - 1 /\ Len(u) >= 1
                /\ \A l \in 1 .. Len(u) : u[l] = lv[l]
                /\ FlattenSeq(lv) = FlattenSeq(u) \o lv[Len(lv)]
<1>0. PICK u : u = Front(lv)
  OBVIOUS
<1>1. u = SubSeq(lv, 1, Len(lv) - 1) /\ Len(lv) - 1 \in 0 .. Len(lv)
  BY <1>0 DEF Front
<1>2. PICK k : k = Len(lv) - 1
  OBVIOUS
<1>3. u \in Seq(Seq(A)) /\ Len(u) = k /\ \A l \in 1 .. k : u[l] = lv[l]
  BY <1>1, <1>2, Prefix
<1>4. Len(u) >= 1 /\ Len(lv) = Len(u) + 1 /\ \A l \in 1 .. Len(u) : lv[l] = u[l]
  BY <1>2, <1>3
<1>5. FlattenSeq(lv) = FlattenSeq(u) \o lv[Len(lv)]
  BY <1>3, <1>4, FlattenMore
<1> QED
  BY <1>0, <1>2, <1>3, <1>4, <1>5

LEMMA ClosedEach ==
  ASSUME NEW lv \in Seq(Seq(Addr)), Len(lv) >= 2, NEW f
  PROVE  EachLevel(f, Front(lv)) = Front(EachLevel(f, lv))
<1>0. PICK u : u = Front(lv)
  OBVIOUS
<1>1. PICK B : B = {f[a] : a \in Addr}
  OBVIOUS
<1>2. PICK m, n : m = EachLevel(f, lv) /\ n = EachLevel(f, u)
  OBVIOUS
<1>3. /\ u \in Seq(Seq(Addr)) /\ Len(u) = Len(lv) - 1
      /\ \A l \in 1 .. Len(u) : u[l] = lv[l]
  BY <1>0, ClosedLevels
<1>4. /\ m \in Seq(Seq(B)) /\ Len(m) = Len(lv)
      /\ \A l \in 1 .. Len(lv) : m[l] = Each(f, lv[l])
  BY <1>1, <1>2, EachLevelIs
<1>5. /\ n \in Seq(Seq(B)) /\ Len(n) = Len(u)
      /\ \A l \in 1 .. Len(u) : n[l] = Each(f, u[l])
  BY <1>1, <1>2, <1>3, EachLevelIs
<1>6. PICK p : p = Front(m)
  OBVIOUS
<1>7. /\ p \in Seq(Seq(B)) /\ Len(p) = Len(lv) - 1
      /\ \A l \in 1 .. Len(p) : p[l] = m[l]
  <2>1. m \in Seq(Seq(B)) /\ Len(m) >= 2
    BY <1>4
  <2> QED
    BY <1>4, <1>6, <2>1, ClosedLevels
<1>8. Len(lv) \in Nat
  OBVIOUS
<1>9. \A l \in 1 .. Len(p) : n[l] = p[l]
  BY <1>3, <1>4, <1>5, <1>7, <1>8
<1>10. n = p
  BY <1>3, <1>5, <1>7, <1>9, SameSeq
<1> QED
  BY <1>0, <1>2, <1>6, <1>10

LEMMA EachMore ==
  ASSUME NEW s \in Seq(Addr), NEW x \in Addr, NEW f
  PROVE  Each(f, Append(s, x)) = Append(Each(f, s), f[x])
<1>1. PICK B : B = {f[a] : a \in Addr}
  OBVIOUS
<1>2. PICK t, m, n : t = Append(s, x) /\ m = Each(f, s) /\ n = Each(f, t)
  OBVIOUS
<1>3. /\ t \in Seq(Addr) /\ Len(t) = Len(s) + 1 /\ t[Len(s) + 1] = x /\ Len(s) \in Nat
      /\ \A i \in 1 .. Len(s) : t[i] = s[i]
  BY <1>2
<1>4. m \in Seq(B) /\ Len(m) = Len(s) /\ \A i \in 1 .. Len(s) : m[i] = f[s[i]]
  BY <1>1, <1>2, EachIs
<1>5. n \in Seq(B) /\ Len(n) = Len(t) /\ \A i \in 1 .. Len(t) : n[i] = f[t[i]]
  <2>1. t \in Seq(Addr)
    BY <1>3
  <2>2. n = Each(f, t)
    BY <1>2
  <2> QED
    BY <1>1, <2>1, <2>2, EachIs
<1>6. f[x] \in B
  BY <1>1
<1>7. PICK p : p = Append(m, f[x])
  OBVIOUS
<1>8. /\ p \in Seq(B) /\ Len(p) = Len(s) + 1 /\ p[Len(s) + 1] = f[x]
      /\ \A i \in 1 .. Len(s) : p[i] = m[i]
  BY <1>4, <1>6, <1>7
<1>9. \A i \in 1 .. Len(p) : n[i] = p[i]
  BY <1>3, <1>4, <1>5, <1>8
<1>10. n = p
  BY <1>3, <1>5, <1>8, <1>9, SameSeq
<1> QED
  BY <1>2, <1>7, <1>10

LEMMA FilledEach ==
  ASSUME NEW lv \in Seq(Seq(Addr)), Len(lv) >= 1, NEW x \in Addr, NEW f
  PROVE  EachLevel(f, TopMore(lv, x))
           = [EachLevel(f, lv) EXCEPT ![Len(lv)] = Append(@, f[x])]
<1>1. PICK B : B = {f[a] : a \in Addr}
  OBVIOUS
<1>2. PICK u, m, n : u = TopMore(lv, x) /\ m = EachLevel(f, lv) /\ n = EachLevel(f, u)
  OBVIOUS
<1>3. /\ u \in Seq(Seq(Addr)) /\ Len(u) = Len(lv) /\ u[Len(lv)] = Append(lv[Len(lv)], x)
      /\ \A l \in 1 .. Len(lv) - 1 : u[l] = lv[l]
  BY <1>2, FlattenTop
<1>4. /\ m \in Seq(Seq(B)) /\ Len(m) = Len(lv)
      /\ \A l \in 1 .. Len(lv) : m[l] = Each(f, lv[l])
  BY <1>1, <1>2, EachLevelIs
<1>5. /\ n \in Seq(Seq(B)) /\ Len(n) = Len(u)
      /\ \A l \in 1 .. Len(u) : n[l] = Each(f, u[l])
  BY <1>1, <1>2, <1>3, EachLevelIs
<1>6. Len(lv) \in Nat /\ Len(lv) \in 1 .. Len(lv) /\ lv[Len(lv)] \in Seq(Addr)
  OBVIOUS
<1>7. PICK y : y = n[Len(lv)]
  OBVIOUS
<1>8. y = Append(m[Len(lv)], f[x])
  <2>1. PICK s : s = lv[Len(lv)]
    OBVIOUS
  <2>2. y = Each(f, Append(s, x)) /\ m[Len(lv)] = Each(f, s)
    BY <1>3, <1>4, <1>5, <1>6, <1>7, <2>1
  <2>3. s \in Seq(Addr)
    BY <1>6, <2>1
  <2> QED
    BY <2>2, <2>3, EachMore
<1>9. y \in Seq(B)
  BY <1>3, <1>5, <1>6, <1>7
<1>10. PICK p : p = [m EXCEPT ![Len(lv)] = y]
  OBVIOUS
<1>11. /\ p \in Seq(Seq(B)) /\ Len(p) = Len(lv) /\ p[Len(lv)] = y
       /\ \A l \in 1 .. Len(lv) - 1 : p[l] = m[l]
  BY <1>4, <1>6, <1>9, <1>10
<1>12. ASSUME NEW l \in 1 .. Len(p)
       PROVE  n[l] = p[l]
  <2>1. CASE l \in 1 .. Len(lv) - 1
    BY <1>3, <1>4, <1>5, <1>6, <1>11, <2>1
  <2>2. CASE l = Len(lv)
    BY <1>7, <1>11, <2>2
  <2> QED
    BY <1>6, <1>11, <2>1, <2>2
<1>13. n = p
  BY <1>3, <1>5, <1>11, <1>12, SameSeq
<1> QED
  BY <1>2, <1>8, <1>10, <1>13

-----------------------------------------------------------------------------
(* The calls that change the stack.                                        *)

(* What is asserted before a step and after it lasts. *)
Remains(s) ==
  \A j \in DOMAIN s : /\ j \in DOMAIN assertions /\ assertions[j] = s[j]
                      /\ j \in DOMAIN assertions' /\ assertions'[j] = s[j]

LEMMA LastingLevels ==
  ASSUME Between, NEW lv \in Seq(Seq(Addr)), Len(lv) >= 1, NEW s, s = FlattenSeq(lv), Remains(s)
  PROVE  Among(lv, Lasting)
<1>1. ASSUME NEW j \in DOMAIN s
      PROVE  s[j] \in Lasting
  <2>1. /\ j \in DOMAIN assertions /\ assertions[j] = s[j]
        /\ j \in DOMAIN assertions' /\ assertions'[j] = s[j]
    BY DEF Remains
  <2>2. s[j] \in Addr /\ heap[s[j]].refs >= 1
    BY <2>1, AssertedLive DEF Between
  <2>3. heap'[s[j]].refs >= 1
    BY <2>1, AssertedLiveThen DEF Between
  <2> QED
    BY <2>2, <2>3 DEF Lasting
<1> QED
  BY <1>1, AmongFlat

LEMMA IdleDue ==
  ASSUME Idle
  PROVE  \A w : ~Due(w)
BY DueIdle DEF Due

LEMMA LevelsType ==
  ASSUME Invariant, NEW lv, LevelsAre(lv)
  PROVE  /\ lv \in Seq(Seq(Addr)) /\ Len(lv) >= 1 /\ Len(lv) \in Nat
         /\ Len(lv) = Len(marks) + 1 /\ marks \in Seq(Nat) /\ Len(marks) \in Nat
         /\ FlattenSeq(lv) = assertions /\ assertions \in Seq(Addr)
         /\ \A l \in 1 .. Len(lv) : lv[l] \in Seq(Addr)
<1>1. lv \in Seq(Seq(Addr)) /\ Len(lv) = Len(marks) + 1 /\ FlattenSeq(lv) = assertions
  BY DEF LevelsAre
<1>2. marks \in Seq(Nat) /\ assertions \in Seq(Addr)
  BY DEF Invariant, StackOK, Ordered, Memory, PointersOK
<1> QED
  BY <1>1, <1>2

LEMMA SteppedPush ==
  ASSUME Going, push
  PROVE  Stepped
<1>1. StackInStep /\ Between /\ CacheOK /\ ShapesLast /\ Invariant /\ OnlyLast(todo)
  BY DEF Going, StackInStep, Between
<1>2. /\ Idle /\ registered /\ marks' = Append(marks, 0) /\ meant' = Append(meant, << >>)
      /\ frames' = IF Keeps THEN Append(frames, {}) ELSE frames
      /\ UNCHANGED <<expr_vars, registered, backend, assertions, cache>>
  BY DEF push, Calls
<1>3. PICK lv : LevelsAre(lv) /\ FramesAre(lv)
  BY <1>1 DEF StackInStep, InLevels
<1>4. /\ lv \in Seq(Seq(Addr)) /\ Len(lv) >= 1 /\ Len(lv) \in Nat
      /\ Len(lv) = Len(marks) + 1 /\ marks \in Seq(Nat) /\ Len(marks) \in Nat
      /\ FlattenSeq(lv) = assertions
  BY <1>1, <1>3, LevelsType
<1>5. PICK u : /\ u = Append(lv, << >>)
               /\ u \in Seq(Seq(Addr)) /\ Len(u) = Len(lv) + 1 /\ u[Len(u)] = << >>
               /\ \A l \in 1 .. Len(lv) : u[l] = lv[l]
               /\ FlattenSeq(u) = FlattenSeq(lv)
  BY <1>4, OpenedLevels
<1>6. /\ u \in Seq(Seq(Addr)) /\ Len(u) = Len(lv) + 1 /\ u[Len(u)] = << >>
      /\ \A l \in 1 .. Len(lv) : u[l] = lv[l]
      /\ FlattenSeq(u) = FlattenSeq(lv)
  BY <1>5
<1>7. Remains(assertions)
  BY <1>2 DEF Remains
<1>8. Among(lv, Lasting)
  BY <1>1, <1>4, <1>7, LastingLevels
<1>9. EachLevel(Meaning', lv) = EachLevel(Meaning, lv)
  BY <1>1, <1>4, <1>8, LevelsLast
<1>10. LevelsAre(u)'
  <2>1. meant' = EachLevel(Meaning', u)
    <3>1. PICK f, g : f = Meaning /\ g = Meaning'
      OBVIOUS
    <3>2. meant = EachLevel(f, lv)
      BY <1>3, <3>1 DEF LevelsAre
    <3>3. EachLevel(g, u) = Append(EachLevel(g, lv), << >>)
      BY <1>4, <1>5, OpenedEach
    <3> QED
      BY <1>2, <1>9, <3>1, <3>2, <3>3
  <2>2. ASSUME NEW l \in 1 .. Len(marks')
        PROVE  marks'[l] = Len(u[l + 1])
    <3>1. /\ Len(marks') = Len(marks) + 1 /\ marks'[Len(marks) + 1] = 0
          /\ \A k \in 1 .. Len(marks) : marks'[k] = marks[k]
      BY <1>2, <1>4
    <3>2. CASE l \in 1 .. Len(marks)
      <4>1. marks[l] = Len(lv[l + 1])
        BY <1>3, <3>2 DEF LevelsAre
      <4>2. l + 1 \in 1 .. Len(lv)
        BY <1>4, <3>2
      <4>3. u[l + 1] = lv[l + 1]
        BY <1>6, <4>2
      <4> QED
        BY <3>1, <3>2, <4>1, <4>3
    <3>3. CASE l = Len(marks) + 1
      <4>1. u[l + 1] = << >>
        BY <1>4, <1>6, <3>3
      <4> QED
        BY <3>1, <3>3, <4>1
    <3> QED
      BY <1>4, <3>1, <3>2, <3>3
  <2>3. Len(u) = Len(marks') + 1 /\ FlattenSeq(u) = assertions'
    BY <1>2, <1>4, <1>6
  <2>4. u \in Seq(Seq(Addr))
    BY <1>6
  <2>5. \A l \in 1 .. Len(marks') : marks'[l] = Len(u[l + 1])
    BY <2>2
  <2> QED
    BY <2>1, <2>3, <2>4, <2>5 DEF LevelsAre
<1>11. CacheLasts
  BY <1>1, <1>2, CacheLastsSame DEF expr_vars
<1>12. (\A w : ~Due(w)) /\ \A w : ~Due(w)'
  <2>1. \A w : ~Due(w)
    BY <1>2, IdleDue
  <2> QED
    BY <1>2, <2>1 DEF Due, expr_vars
<1>13. FramesAre(u)' /\ FramesOK'
  <2>1. CASE ~Keeps
    BY <1>1, <1>2, <2>1, FramesOKSame DEF FramesAre, StackInStep, Keeps
  <2>2. CASE Keeps
    <3>1. PICK S : frames \in Seq(S)
      BY <1>1 DEF StackInStep, FramesOK
    <3>2. /\ Len(frames) = Len(lv)
          /\ \A l \in 1 .. Len(lv) : frames[l] = TermsAt(lv, l) /\ SettledAt(lv, l)
      BY <1>3, <1>12, <2>2 DEF FramesAre
    <3>3. frames' = Append(frames, {})
      BY <1>2, <2>2
    <3>4. PICK T : T = S \union {{}}
      OBVIOUS
    <3>5. frames \in Seq(T) /\ {} \in T
      BY <3>1, <3>4
    <3>6. /\ frames' \in Seq(T) /\ Len(frames') = Len(lv) + 1 /\ frames'[Len(lv) + 1] = {}
          /\ \A l \in 1 .. Len(lv) : frames'[l] = frames[l]
          /\ DOMAIN frames' = 1 .. Len(lv) + 1 /\ DOMAIN frames = 1 .. Len(lv)
      BY <3>2, <3>3, <3>5
    <3>7. FramesOK'
      <4>1. \A l \in 1 .. Len(lv) : IsFiniteSet(frames[l]) /\ \A t \in frames[l] : IsTerm(t)
        BY <1>1, <3>6 DEF StackInStep, FramesOK
      <4>2. ASSUME NEW l \in DOMAIN frames'
            PROVE  IsFiniteSet(frames'[l]) /\ \A t \in frames'[l] : IsTerm(t)
        <5>1. CASE l \in 1 .. Len(lv)
          BY <3>6, <4>1, <5>1
        <5>2. CASE l = Len(lv) + 1
          BY <3>6, <5>2, FS_EmptySet
        <5> QED
          BY <1>4, <3>6, <5>1, <5>2
      <4>3. \E R : frames' \in Seq(R)
        BY <3>6
      <4> QED
        BY <4>2, <4>3 DEF FramesOK
    <3>8. ASSUME NEW l \in 1 .. Len(u)
          PROVE  frames'[l] = TermsAt(u, l)' /\ SettledAt(u, l)'
      <4>1. CASE l \in 1 .. Len(lv)
        <5>1. SettledAt(lv, l)' /\ TermsAt(lv, l)' = TermsAt(lv, l)
          BY <1>1, <1>4, <1>8, <1>11, <3>2, <4>1, TermsAtLast
        <5>2. u[l] = lv[l]
          BY <1>6, <4>1
        <5>3. SettledAt(u, l)' /\ TermsAt(u, l)' = TermsAt(lv, l)'
          BY <5>1, <5>2 DEF SettledAt, TermsAt
        <5> QED
          BY <3>2, <3>6, <4>1, <5>1, <5>3
      <4>2. CASE l = Len(lv) + 1
        <5>1. u[l] = << >> /\ DOMAIN u[l] = {}
          BY <1>6, <4>2
        <5> QED
          BY <3>6, <4>2, <5>1 DEF SettledAt, TermsAt
      <4> QED
        BY <1>4, <1>6, <4>1, <4>2
    <3>9. Len(frames') = Len(u)
      BY <1>6, <3>6
    <3> QED
      BY <1>12, <3>7, <3>8, <3>9 DEF FramesAre
  <2> QED
    BY <2>1, <2>2
<1>14. CacheStep
  BY <1>1, <1>2, CacheStepSame, IdleNow
<1>15. OnlyLast(todo)'
  BY <1>1, <1>2 DEF expr_vars, OnlyLast
<1>16. Emptied' /\ InLevels'
  BY <1>10, <1>12, <1>13 DEF Emptied, InLevels
<1> QED
  BY <1>2, <1>13, <1>14, <1>15, <1>16 DEF Stepped

LEMMA SteppedPop ==
  ASSUME Going, pop
  PROVE  Stepped
<1>1. /\ StackInStep /\ Between /\ CacheOK /\ ShapesLast /\ Invariant /\ OnlyLast(todo)
      /\ FramesOK
  BY DEF Going, StackInStep, Between
<1>2. /\ Idle /\ registered /\ marks # << >> /\ marks' = Front(marks)
      /\ assertions' = SubSeq(assertions, 1, Kept)
      /\ todo' = Released(SubSeq(assertions, Kept + 1, Len(assertions))) \o <<Step("pop", Null)>>
      /\ meant' = Front(meant)
      /\ UNCHANGED <<heap, consing, registered, backend, cache, frames>>
  BY DEF pop, Calls
<1>3. PICK lv : LevelsAre(lv) /\ FramesAre(lv)
  BY <1>1 DEF StackInStep, InLevels
<1>4. /\ lv \in Seq(Seq(Addr)) /\ Len(lv) >= 1 /\ Len(lv) \in Nat
      /\ Len(lv) = Len(marks) + 1 /\ marks \in Seq(Nat) /\ Len(marks) \in Nat
      /\ FlattenSeq(lv) = assertions /\ assertions \in Seq(Addr)
      /\ \A l \in 1 .. Len(lv) : lv[l] \in Seq(Addr)
  BY <1>1, <1>3, LevelsType
<1>5. Len(lv) >= 2 /\ Len(marks) >= 1
  BY <1>2, <1>4
<1>6. PICK u : /\ u = Front(lv)
               /\ u \in Seq(Seq(Addr)) /\ Len(u) = Len(lv) - 1 /\ Len(u) >= 1
               /\ \A l \in 1 .. Len(u) : u[l] = lv[l]
               /\ FlattenSeq(lv) = FlattenSeq(u) \o lv[Len(lv)]
  <2>1. lv \in Seq(Seq(Addr)) /\ Len(lv) >= 2
    BY <1>4, <1>5
  <2> QED
    BY <2>1, ClosedLevels
<1>7. /\ u \in Seq(Seq(Addr)) /\ Len(u) = Len(lv) - 1 /\ Len(u) >= 1
      /\ \A l \in 1 .. Len(u) : u[l] = lv[l]
      /\ FlattenSeq(lv) = FlattenSeq(u) \o lv[Len(lv)]
  BY <1>6
<1>8. PICK s, t : s = FlattenSeq(u) /\ t = lv[Len(lv)]
  OBVIOUS
<1>9. s \in Seq(Addr) /\ t \in Seq(Addr) /\ assertions = s \o t
  BY <1>4, <1>5, <1>7, <1>8, FlatTypes
<1>10. Kept = Len(s)
  <2>1. Last(marks) = marks[Len(marks)]
    BY DEF Last
  <2>2. marks[Len(marks)] = Len(lv[Len(marks) + 1])
    <3>1. Len(marks) \in 1 .. Len(marks)
      BY <1>4, <1>5
    <3>2. \A l \in 1 .. Len(marks) : marks[l] = Len(lv[l + 1])
      BY <1>3 DEF LevelsAre
    <3> QED
      BY <3>1, <3>2
  <2>3. Last(marks) = Len(t)
    BY <1>4, <1>8, <2>1, <2>2
  <2>4. Len(assertions) = Len(s) + Len(t) /\ Len(s) \in Nat /\ Len(t) \in Nat
    BY <1>9
  <2> QED
    BY <2>3, <2>4 DEF Kept
<1>11. /\ Len(s) \in 0 .. Len(assertions) /\ assertions' = SubSeq(assertions, 1, Len(s))
       /\ \A j \in 1 .. Len(s) : assertions[j] = s[j] /\ j \in 1 .. Len(assertions)
       /\ DOMAIN assertions = 1 .. Len(assertions) /\ DOMAIN s = 1 .. Len(s)
  BY <1>2, <1>9, <1>10
<1>12. assertions' = s
  <2>1. PICK r : r = SubSeq(assertions, 1, Len(s))
    OBVIOUS
  <2>2. r \in Seq(Addr) /\ Len(r) = Len(s) /\ \A j \in 1 .. Len(s) : r[j] = assertions[j]
    BY <1>4, <1>11, <2>1, Prefix
  <2>3. r = s
    BY <1>9, <1>11, <2>2, SameSeq
  <2> QED
    BY <1>11, <2>1, <2>3
<1>13. Remains(s)
  BY <1>11, <1>12 DEF Remains
<1>14. Among(u, Lasting)
  BY <1>1, <1>7, <1>8, <1>13, LastingLevels
<1>15. LevelsAre(u)'
  <2>1. EachLevel(Meaning', u) = EachLevel(Meaning, u)
    BY <1>1, <1>7, <1>14, LevelsLast
  <2>2. meant' = EachLevel(Meaning', u)
    <3>1. PICK f : f = Meaning
      OBVIOUS
    <3>2. meant = EachLevel(f, lv)
      BY <1>3, <3>1 DEF LevelsAre
    <3>3. EachLevel(f, u) = Front(EachLevel(f, lv))
      BY <1>4, <1>5, <1>6, ClosedEach
    <3> QED
      BY <1>2, <2>1, <3>1, <3>2, <3>3
  <2>3. /\ marks' \in Seq(Nat) /\ Len(marks') = Len(marks) - 1
        /\ \A l \in 1 .. Len(marks') : marks'[l] = marks[l]
    <3>1. marks' = SubSeq(marks, 1, Len(marks) - 1)
      BY <1>2 DEF Front
    <3>2. PICK k, m : k = Len(marks) - 1 /\ m = SubSeq(marks, 1, k)
      OBVIOUS
    <3>3. k \in 0 .. Len(marks)
      BY <1>4, <1>5, <3>2
    <3>4. m \in Seq(Nat) /\ Len(m) = k /\ \A l \in 1 .. k : m[l] = marks[l]
      BY <1>4, <3>2, <3>3, Prefix
    <3> QED
      BY <3>1, <3>2, <3>4
  <2>4. ASSUME NEW l \in 1 .. Len(marks')
        PROVE  marks'[l] = Len(u[l + 1])
    <3>1. l \in 1 .. Len(marks) /\ l + 1 \in 1 .. Len(u)
      BY <1>4, <1>7, <2>3
    <3>2. marks[l] = Len(lv[l + 1]) /\ u[l + 1] = lv[l + 1]
      BY <1>3, <1>7, <3>1 DEF LevelsAre
    <3> QED
      BY <2>3, <3>2
  <2>5. Len(u) = Len(marks') + 1 /\ FlattenSeq(u) = assertions' /\ u \in Seq(Seq(Addr))
    BY <1>4, <1>7, <1>8, <1>12, <2>3
  <2> QED
    BY <2>2, <2>4, <2>5 DEF LevelsAre
<1>16. CacheLasts
  BY <1>1, <1>2, CacheLastsSame
<1>17. OnlyLast(todo)' /\ \A w \in Ends : Due(w)' <=> w = "pop"
  <2>1. PICK r, v, what : /\ r = SubSeq(assertions, Kept + 1, Len(assertions))
                          /\ v = todo' /\ what = "pop"
    OBVIOUS
  <2>2. r \in Seq(Addr)
    BY <1>4, <1>10, <1>11, <2>1
  <2>3. Left(r, what, v)
    BY <1>2, <2>1, <2>2 DEF Left
  <2>4. OnlyLast(v) /\ \A w \in Ends : DueIn(v, w) <=> w = "pop"
    BY <2>1, <2>3, DueReleased
  <2> QED
    BY <2>1, <2>4 DEF Due
<1>18. Due("pop")' /\ ~Due("reset")'
  BY <1>17 DEF Ends
<1>19. FramesAre(u)'
  <2> SUFFICES ASSUME Keeps
               PROVE  /\ Len(frames) = Len(u) + 1
                      /\ \A l \in 1 .. Len(u) : frames[l] = TermsAt(u, l)' /\ SettledAt(u, l)'
    BY <1>2, <1>18 DEF FramesAre, Keeps
  <2>1. ~Due("reset") /\ ~Due("pop")
    BY <1>2, IdleDue
  <2>2. /\ Len(frames) = Len(lv)
        /\ \A l \in 1 .. Len(lv) : frames[l] = TermsAt(lv, l) /\ SettledAt(lv, l)
    BY <1>3, <2>1 DEF FramesAre
  <2>3. ASSUME NEW l \in 1 .. Len(u)
        PROVE  frames[l] = TermsAt(u, l)' /\ SettledAt(u, l)'
    <3>1. u[l] = lv[l] /\ l \in 1 .. Len(lv)
      BY <1>4, <1>7
    <3>2. TermsAt(u, l) = TermsAt(lv, l) /\ SettledAt(u, l)
      BY <2>2, <3>1 DEF TermsAt, SettledAt
    <3>3. SettledAt(u, l)' /\ TermsAt(u, l)' = TermsAt(u, l)
      BY <1>1, <1>7, <1>14, <1>16, <3>2, TermsAtLast
    <3> QED
      BY <2>2, <3>1, <3>2, <3>3
  <2> QED
    BY <1>4, <1>7, <2>2, <2>3
<1>20. CacheStep
  BY <1>1, <1>2, CacheStepSame, IdleNow
<1>21. FramesOK'
  BY <1>1, <1>2, FramesOKSame
<1>22. Emptied' /\ InLevels'
  BY <1>15, <1>18, <1>19 DEF Emptied, InLevels
<1> QED
  BY <1>2, <1>17, <1>20, <1>21, <1>22 DEF Stepped

LEMMA Stepped__pop ==
  ASSUME Going, __pop
  PROVE  Stepped
<1>1. /\ StackInStep /\ Between /\ CacheOK /\ ShapesLast /\ Invariant /\ OnlyLast(todo)
      /\ FramesOK /\ PointersOK
  BY DEF Going, StackInStep, Between, Invariant, Memory
<1>2. /\ todo # << >> /\ Head(todo).what = "pop" /\ todo' = Tail(todo)
      /\ frames' = IF Keeps THEN Front(frames) ELSE frames
      /\ UNCHANGED <<heap, consing, registered, backend, assertions, marks, cache, meant>>
  BY DEF __pop, Doing, client_vars
<1>3. Due("pop") /\ todo' = << >> /\ ~Due("reset")
  <2>1. Tail(todo) = << >> /\ Due("pop")
    BY <1>1, <1>2, DueFirst DEF Ends
  <2>2. ~DueIn(Tail(todo), "reset")
    BY <2>1, DueOnce
  <2> QED
    BY <1>1, <1>2, <2>1, <2>2, DueFirst
<1>4. OnlyLast(todo)' /\ \A w : ~Due(w)'
  BY <1>3, DueOnce DEF Due
<1>5. PICK lv : LevelsAre(lv) /\ FramesAre(lv)
  BY <1>1 DEF StackInStep, InLevels
<1>6. LevelsAre(lv)' /\ Among(lv, Lasting)
  BY <1>1, <1>2, <1>5, LevelsSame
<1>7. lv \in Seq(Seq(Addr)) /\ Len(lv) >= 1 /\ Len(lv) \in Nat
  BY <1>1, <1>5, LevelsType
<1>8. CacheLasts
  BY <1>1, <1>2, CacheLastsSame
<1>9. FramesAre(lv)' /\ FramesOK'
  <2>1. CASE ~Keeps
    BY <1>1, <1>2, <2>1, FramesOKSame DEF FramesAre, Keeps
  <2>2. CASE Keeps
    <3>1. PICK S : frames \in Seq(S)
      BY <1>1 DEF FramesOK
    <3>2. /\ Len(frames) = Len(lv) + 1
          /\ \A l \in 1 .. Len(lv) : frames[l] = TermsAt(lv, l) /\ SettledAt(lv, l)
      BY <1>3, <1>5, <2>2 DEF FramesAre
    <3>3. PICK f : f = SubSeq(frames, 1, Len(lv))
      OBVIOUS
    <3>4. frames' = f
      BY <1>2, <1>7, <2>2, <3>2, <3>3 DEF Front
    <3>5. f \in Seq(S) /\ Len(f) = Len(lv) /\ \A l \in 1 .. Len(lv) : f[l] = frames[l]
      <4>1. Len(lv) \in 0 .. Len(frames)
        BY <1>7, <3>2
      <4> QED
        BY <3>1, <3>3, <4>1, Prefix
    <3>6. DOMAIN f = 1 .. Len(lv) /\ \A l \in 1 .. Len(lv) : l \in DOMAIN frames
      BY <1>7, <3>1, <3>2, <3>5
    <3>7. FramesOK'
      <4>1. \A l \in DOMAIN f : IsFiniteSet(f[l]) /\ \A t \in f[l] : IsTerm(t)
        BY <1>1, <3>5, <3>6 DEF FramesOK
      <4> QED
        BY <3>4, <3>5, <4>1 DEF FramesOK
    <3>8. ASSUME NEW l \in 1 .. Len(lv)
          PROVE  f[l] = TermsAt(lv, l)' /\ SettledAt(lv, l)'
      <4>1. SettledAt(lv, l)' /\ TermsAt(lv, l)' = TermsAt(lv, l)
        BY <1>1, <1>6, <1>7, <1>8, <3>2, TermsAtLast
      <4> QED
        BY <3>2, <3>5, <4>1
    <3> QED
      BY <1>4, <3>4, <3>5, <3>7, <3>8 DEF FramesAre
  <2> QED
    BY <2>1, <2>2
<1>10. CacheStep
  <2>1. Deleting = {}
    <3>1. Tail(todo) = << >> /\ Head(todo).what = "pop"
      BY <1>2, <1>3
    <3>2. Deleting = {a \in Addr : Head(todo) = Step("delete", a)} \union DeletingIn(Tail(todo))
      BY <1>1, <1>2, FirstToDo
    <3>3. DeletingIn(Tail(todo)) = {}
      BY <3>1, DeletingOnce
    <3>4. \A a \in Addr : Head(todo) # Step("delete", a)
      BY <3>1 DEF Step
    <3> QED
      BY <3>2, <3>3, <3>4
  <2> QED
    BY <1>1, <1>2, <2>1, CacheStepSame
<1>11. (~registered => DOMAIN cache = {})'
  BY <1>1, <1>2 DEF StackInStep
<1>12. Emptied' /\ InLevels'
  BY <1>4, <1>6, <1>9 DEF Emptied, InLevels
<1> QED
  BY <1>4, <1>9, <1>10, <1>11, <1>12 DEF Stepped

LEMMA FilledLevels ==
  ASSUME Between, Invariant, NEW y \in Addr, heap[y].refs >= 1, Asserted(y),
         NEW lv, LevelsAre(lv), NEW u, u = TopMore(lv, y)
  PROVE  Among(lv, Lasting) /\ y \in Lasting /\ LevelsAre(u)'
<1>1. /\ lv \in Seq(Seq(Addr)) /\ Len(lv) >= 1 /\ Len(lv) \in Nat
      /\ Len(lv) = Len(marks) + 1 /\ marks \in Seq(Nat) /\ Len(marks) \in Nat
      /\ FlattenSeq(lv) = assertions /\ assertions \in Seq(Addr)
  BY LevelsType
<1>2. /\ assertions' = Append(assertions, y) /\ marks' = Counted
      /\ meant' = [meant EXCEPT ![Len(meant)] = Append(@, Meaning[y])]
  BY DEF Asserted
<1>3. PICK s, t : s = assertions /\ t = assertions'
  OBVIOUS
<1>4. /\ s \in Seq(Addr) /\ t = Append(s, y)
      /\ DOMAIN s = 1 .. Len(s) /\ DOMAIN t = 1 .. Len(s) + 1 /\ Len(s) \in Nat
      /\ t[Len(s) + 1] = y /\ \A j \in 1 .. Len(s) : t[j] = s[j]
  BY <1>1, <1>2, <1>3
<1>5. Remains(s)
  BY <1>3, <1>4 DEF Remains
<1>6. Among(lv, Lasting)
  BY <1>1, <1>3, <1>5, LastingLevels
<1>7. y \in Lasting
  <2>1. Len(s) + 1 \in DOMAIN assertions' /\ assertions'[Len(s) + 1] = y
    BY <1>3, <1>4
  <2>2. heap'[y].refs >= 1
    BY <2>1, AssertedLiveThen DEF Between
  <2> QED
    BY <2>2 DEF Lasting
<1>8. /\ u \in Seq(Seq(Addr)) /\ Len(u) = Len(lv)
      /\ u[Len(lv)] = Append(lv[Len(lv)], y)
      /\ \A l \in 1 .. Len(lv) - 1 : u[l] = lv[l]
      /\ FlattenSeq(u) = Append(FlattenSeq(lv), y)
  BY <1>1, FlattenTop
<1>9. meant' = EachLevel(Meaning', u)
  <2>1. PICK f, g : f = Meaning /\ g = Meaning'
    OBVIOUS
  <2>2. meant = EachLevel(f, lv)
    BY <2>1 DEF LevelsAre
  <2>3. EachLevel(g, lv) = EachLevel(f, lv)
    BY <1>1, <1>6, <2>1, LevelsLast
  <2>4. WellFormed(heap')
    BY DEF Between
  <2>5. g[y] = f[y]
    BY <1>7, <2>1, <2>4, MeaningsLast DEF Between
  <2>6. Len(meant) = Len(lv)
    <3>1. PICK B : B = {f[a] : a \in Addr}
      OBVIOUS
    <3> QED
      BY <1>1, <2>2, <3>1, EachLevelIs
  <2>7. EachLevel(g, u) = [EachLevel(g, lv) EXCEPT ![Len(lv)] = Append(@, g[y])]
    BY <1>1, FilledEach
  <2>8. PICK m : m = EachLevel(f, lv)
    OBVIOUS
  <2>9. EachLevel(g, u) = [m EXCEPT ![Len(lv)] = Append(@, f[y])]
    BY <2>3, <2>5, <2>7, <2>8
  <2>10. meant' = [m EXCEPT ![Len(lv)] = Append(@, f[y])]
    BY <1>2, <2>1, <2>2, <2>6, <2>8
  <2> QED
    BY <2>1, <2>9, <2>10
<1>10. Len(marks') = Len(marks) /\ \A l \in 1 .. Len(marks') : marks'[l] = Len(u[l + 1])
  <2>1. \A l \in 1 .. Len(marks) : marks[l] = Len(lv[l + 1])
    BY DEF LevelsAre
  <2>2. CASE marks = << >>
    <3>1. marks' = << >>
      BY <1>2, <2>2 DEF Counted
    <3> QED
      BY <2>2, <3>1
  <2>3. CASE marks # << >>
    <3>1. marks' = [marks EXCEPT ![Len(marks)] = @ + 1]
      BY <1>2, <2>3 DEF Counted
    <3>2. Len(marks) \in 1 .. Len(marks)
      BY <1>1, <2>3
    <3>3. /\ Len(marks') = Len(marks) /\ marks'[Len(marks)] = marks[Len(marks)] + 1
          /\ \A l \in 1 .. Len(marks) - 1 : marks'[l] = marks[l]
      BY <1>1, <3>1, <3>2
    <3>4. ASSUME NEW l \in 1 .. Len(marks)
          PROVE  marks'[l] = Len(u[l + 1])
      <4>1. CASE l = Len(marks)
        <5>1. marks[l] = Len(lv[Len(lv)]) /\ u[l + 1] = Append(lv[Len(lv)], y)
          BY <1>1, <1>8, <2>1, <3>2, <4>1
        <5>2. PICK x : x = lv[Len(lv)]
          OBVIOUS
        <5>3. x \in Seq(Addr)
          BY <1>1, <5>2
        <5>4. Len(Append(x, y)) = Len(x) + 1
          BY <5>3
        <5> QED
          BY <3>3, <4>1, <5>1, <5>2, <5>4
      <4>2. CASE l \in 1 .. Len(marks) - 1
        <5>1. l + 1 \in 1 .. Len(lv) - 1
          BY <1>1, <4>2
        <5> QED
          BY <1>8, <2>1, <3>3, <4>2, <5>1
      <4> QED
        BY <1>1, <4>1, <4>2
    <3> QED
      BY <3>3, <3>4
  <2> QED
    BY <2>2, <2>3
<1>11. Len(u) = Len(marks') + 1 /\ FlattenSeq(u) = assertions'
  BY <1>1, <1>2, <1>8, <1>10
<1>12. u \in Seq(Seq(Addr)) /\ \A l \in 1 .. Len(marks') : marks'[l] = Len(u[l + 1])
  BY <1>8, <1>10
<1>13. LevelsAre(u)'
  BY <1>9, <1>11, <1>12 DEF LevelsAre
<1> QED
  BY <1>6, <1>7, <1>13

(* The back end's side of it *)
LEMMA FilledFrames ==
  ASSUME Between, Invariant, StackInStep, Idle, Keeps, NEW y \in Addr, heap[y].refs >= 1,
         y \in Lasting, SameShapes, cache' = CacheAfter({y}), UNCHANGED <<backend, todo>>,
         frames' = [frames EXCEPT ![Len(frames)] = @ \union {Term[y]}],
         NEW lv, LevelsAre(lv), FramesAre(lv), Among(lv, Lasting), NEW u, u = TopMore(lv, y)
  PROVE  CacheStep /\ FramesAre(u)' /\ FramesOK'
<1>1. /\ lv \in Seq(Seq(Addr)) /\ Len(lv) >= 1 /\ Len(lv) \in Nat
  BY LevelsType
<1>2. Memory /\ WellFormed(heap) /\ CacheOK /\ FramesOK /\ ShapesLast
  BY DEF Between, StackInStep
<1>3. PICK encoded : encoded = {y}
  OBVIOUS
<1>4. Encoded(cache', encoded) /\ CacheStep
  <2>1. cache' = CacheAfter(encoded) /\ \A a \in encoded : a \in Addr /\ heap[a].refs >= 1
    BY <1>3
  <2> QED
    BY <1>2, <2>1, CacheStepEncoded
<1>5. CacheLasts
  BY <1>2, <1>4, CacheLastsEncoded DEF Between
<1>6. Settled(y)'
  BY <1>3, <1>4, EncodedSettled
<1>7. Term'[y] = Term[y]
  BY <1>2, <1>5, <1>6, SettledLast DEF Between
<1>8. IsTerm(Term[y])
  <2>1. HeapOK /\ IsFiniteSet(DOMAIN cache) /\ \A k \in DOMAIN cache : IsTerm(cache[k])
    BY <1>2 DEF Memory, CacheOK
  <2>2. IsFiniteSet(VariablesInUse)
    BY <1>2, <2>1, VariablesFinite
  <2>3. Deleting = {}
    BY IdleNow
  <2> QED
    BY <1>2, <2>1, <2>2, <2>3, TermsMean
<1>9. ~Due("reset") /\ ~Due("pop")
  BY IdleDue
<1>10. /\ Len(frames) = Len(lv)
       /\ \A l \in 1 .. Len(lv) : frames[l] = TermsAt(lv, l) /\ SettledAt(lv, l)
  BY <1>9 DEF FramesAre
<1>11. PICK S : frames \in Seq(S)
  BY <1>2 DEF FramesOK
<1>12. PICK n, y1, x : n = Len(lv) /\ y1 = Term[y] /\ x = frames[n] \union {y1}
  OBVIOUS
<1>13. /\ n \in 1 .. n /\ n \in Nat /\ DOMAIN frames = 1 .. n
       /\ frames' = [frames EXCEPT ![n] = x]
  BY <1>1, <1>10, <1>11, <1>12
<1>14. PICK T : T = S \union {x}
  OBVIOUS
<1>15. /\ frames' \in Seq(T) /\ Len(frames') = n /\ frames'[n] = x /\ DOMAIN frames' = 1 .. n
       /\ \A l \in 1 .. n - 1 : frames'[l] = frames[l]
  <2>1. frames \in Seq(T) /\ x \in T /\ Len(frames) = n
    BY <1>10, <1>11, <1>12, <1>14
  <2>2. PICK f, g : f = frames /\ g = frames'
    OBVIOUS
  <2>3. f \in Seq(T) /\ Len(f) = n /\ g = [f EXCEPT ![n] = x]
    BY <1>13, <2>1, <2>2
  <2>4. g \in Seq(T) /\ Len(g) = n /\ g[n] = x /\ \A l \in 1 .. n - 1 : g[l] = f[l]
    BY <1>13, <2>1, <2>3
  <2> QED
    BY <1>13, <2>2, <2>4
<1>16. FramesOK'
  <2>1. \A l \in 1 .. n : IsFiniteSet(frames[l]) /\ \A t \in frames[l] : IsTerm(t)
    BY <1>2, <1>13 DEF FramesOK
  <2>2. IsFiniteSet(x) /\ \A t \in x : IsTerm(t)
    <3>1. IsFiniteSet(frames[n]) /\ IsFiniteSet({y1})
      BY <1>13, <2>1, FS_Singleton
    <3>2. IsFiniteSet(x)
      BY <1>12, <3>1, FS_Union
    <3> QED
      BY <1>8, <1>12, <1>13, <2>1, <3>2
  <2>3. \A l \in 1 .. n : IsFiniteSet(frames'[l]) /\ \A t \in frames'[l] : IsTerm(t)
    BY <1>13, <1>15, <2>1, <2>2
  <2>4. \E R : frames' \in Seq(R)
    BY <1>15
  <2> QED
    BY <1>15, <2>3, <2>4 DEF FramesOK
<1>17. /\ u \in Seq(Seq(Addr)) /\ Len(u) = n
       /\ u[n] = Append(lv[n], y)
       /\ \A l \in 1 .. n - 1 : u[l] = lv[l]
  BY <1>1, <1>12, FlattenTop
<1>18. ASSUME NEW l \in 1 .. n
       PROVE  SettledAt(lv, l)' /\ TermsAt(lv, l)' = TermsAt(lv, l) /\ frames[l] = TermsAt(lv, l)
  BY <1>1, <1>5, <1>10, <1>12, TermsAtLast
<1>19. ASSUME NEW l \in 1 .. n
       PROVE  frames'[l] = TermsAt(u, l)' /\ SettledAt(u, l)'
  <2>1. CASE l \in 1 .. n - 1
    <3>1. u[l] = lv[l]
      BY <1>17, <2>1
    <3>2. SettledAt(u, l)' /\ TermsAt(u, l)' = TermsAt(lv, l)'
      BY <1>18, <3>1 DEF SettledAt, TermsAt
    <3> QED
      BY <1>15, <1>18, <2>1, <3>2
  <2>2. CASE l = n
    <3>1. PICK s, t : s = lv[n] /\ t = u[n]
      OBVIOUS
    <3>2. s \in Seq(Addr) /\ t = Append(s, y)
      BY <1>1, <1>12, <1>13, <1>17, <3>1
    <3>3. /\ DOMAIN t = 1 .. Len(s) + 1 /\ DOMAIN s = 1 .. Len(s) /\ Len(s) \in Nat
          /\ t[Len(s) + 1] = y /\ \A i \in 1 .. Len(s) : t[i] = s[i]
      BY <3>2
    <3>4. \A i \in DOMAIN s : Settled(s[i])'
      BY <1>18, <2>2, <3>1 DEF SettledAt
    <3>5. \A c : (\E i \in DOMAIN t : c = t[i]) <=> (\E i \in DOMAIN s : c = s[i]) \/ c = y
      <4>1. ASSUME NEW c, NEW i \in DOMAIN t, c = t[i]
            PROVE  (\E j \in DOMAIN s : c = s[j]) \/ c = y
        BY <3>3, <4>1
      <4>2. ASSUME NEW c, (\E i \in DOMAIN s : c = s[i]) \/ c = y
            PROVE  \E i \in DOMAIN t : c = t[i]
        <5>1. CASE c = y
          <6>1. Len(s) + 1 \in DOMAIN t
            BY <3>3
          <6> QED
            BY <3>3, <5>1, <6>1
        <5>2. CASE \E i \in DOMAIN s : c = s[i]
          <6>1. PICK i \in DOMAIN s : c = s[i]
            BY <5>2
          <6>2. i \in DOMAIN t /\ t[i] = s[i]
            BY <3>3
          <6> QED
            BY <6>1, <6>2
        <5> QED
          BY <4>2, <5>1, <5>2
      <4> QED
        BY <4>1, <4>2
    <3>6. \A c : (\E i \in DOMAIN s : c = s[i]) => Settled(c)'
      BY <3>4
    <3>7. \A c : (\E i \in DOMAIN t : c = t[i]) => Settled(c)'
      BY <1>6, <3>5, <3>6
    <3>8. \A i \in DOMAIN t : Settled(t[i])'
      BY <3>7
    <3>9. SettledAt(u, l)'
      BY <2>2, <3>1, <3>8 DEF SettledAt
    <3>10. TermsAt(u, l)' = {Term'[t[i]] : i \in DOMAIN t}
      BY <2>2, <3>1 DEF TermsAt
    <3>11. TermsAt(lv, l)' = {Term'[s[i]] : i \in DOMAIN s}
      BY <2>2, <3>1 DEF TermsAt
    <3>12. PICK f : f = Term'
      OBVIOUS
    <3>13. {f[t[i]] : i \in DOMAIN t} = {f[s[i]] : i \in DOMAIN s} \union {f[y]}
      <4>1. ASSUME NEW i \in DOMAIN t
            PROVE  f[t[i]] \in {f[s[j]] : j \in DOMAIN s} \union {f[y]}
        BY <3>5
      <4>2. ASSUME NEW j \in DOMAIN s
            PROVE  f[s[j]] \in {f[t[i]] : i \in DOMAIN t}
        BY <3>3
      <4>3. f[y] \in {f[t[i]] : i \in DOMAIN t}
        BY <3>3
      <4> QED
        BY <4>1, <4>2, <4>3
    <3>14. frames'[l] = TermsAt(lv, l)' \union {y1}
      BY <1>12, <1>15, <1>18, <2>2
    <3> QED
      BY <1>7, <1>12, <3>9, <3>10, <3>11, <3>12, <3>13, <3>14
  <2> QED
    BY <1>13, <2>1, <2>2
<1>20. ~Due("reset")' /\ ~Due("pop")'
  BY <1>9 DEF Due
<1>21. FramesAre(u)'
  BY <1>15, <1>17, <1>19, <1>20 DEF FramesAre
<1> QED
  BY <1>4, <1>16, <1>21

LEMMA SteppedAsserted ==
  ASSUME Going, Idle, registered, NEW y \in Addr, heap[y].refs >= 1, Asserted(y), SameShapes,
         UNCHANGED <<registered, backend, todo>>
  PROVE  Stepped
<1>1. /\ StackInStep /\ Between /\ CacheOK /\ ShapesLast /\ Invariant /\ OnlyLast(todo)
      /\ FramesOK
  BY DEF Going, StackInStep, Between
<1>2. PICK lv : LevelsAre(lv) /\ FramesAre(lv)
  BY <1>1 DEF StackInStep, InLevels
<1>3. PICK u : u = TopMore(lv, y)
  OBVIOUS
<1>4. Among(lv, Lasting) /\ y \in Lasting /\ LevelsAre(u)'
  BY <1>1, <1>2, <1>3, FilledLevels
<1>5. OnlyLast(todo)' /\ \A w : ~Due(w)'
  <2>1. \A w : ~Due(w)
    BY IdleDue
  <2> QED
    BY <1>1, <2>1 DEF Due, OnlyLast
<1>6. CacheStep /\ FramesAre(u)' /\ FramesOK'
  <2>1. CASE Keeps
    <3>1. /\ cache' = CacheAfter({y})
          /\ frames' = [frames EXCEPT ![Len(frames)] = @ \union {Term[y]}]
      BY <2>1 DEF Asserted
    <3> QED
      BY <1>1, <1>2, <1>3, <1>4, <2>1, <3>1, FilledFrames
  <2>2. CASE ~Keeps
    <3>1. cache' = cache /\ frames' = frames
      BY <2>2 DEF Asserted
    <3>2. FramesAre(u)'
      BY <2>2 DEF FramesAre, Keeps
    <3> QED
      BY <1>1, <3>1, <3>2, CacheStepSame, FramesOKSame, IdleNow
  <2> QED
    BY <2>1, <2>2
<1>7. Emptied' /\ InLevels'
  BY <1>4, <1>5, <1>6 DEF Emptied, InLevels
<1> QED
  BY <1>5, <1>6, <1>7 DEF Stepped

LEMMA AssumedLive ==
  ASSUME Memory, NEW hs \in BoundedSeq({h \in Handle : handle[h] # Null}, MaxAssumptions),
         NEW assumptions, assumptions = [i \in DOMAIN hs |-> handle[hs[i]]]
  PROVE  \A a \in ToSet(assumptions) : a \in Addr /\ heap[a].refs >= 1
<1>1. \A i \in DOMAIN hs : hs[i] \in {h \in Handle : handle[h] # Null}
  BY DEF BoundedSeq, SeqOf
<1>2. ASSUME NEW i \in DOMAIN hs
      PROVE  handle[hs[i]] \in Addr /\ heap[handle[hs[i]]].refs >= 1
  BY <1>1, HandleType
<1>3. ToSet(assumptions) = {handle[hs[i]] : i \in DOMAIN hs}
  BY DEF ToSet
<1> QED
  BY <1>2, <1>3

(* MathSAT gets no assumption that is not a symbol. *)
OnlySymbols == "msat" \in Backend => ~AssumesAnyFormula

LEMMA SteppedAssumptions ==
  ASSUME Going, OnlySymbols, NEW assumptions, NEW room,
         \A a \in ToSet(assumptions) : a \in Addr /\ heap[a].refs >= 1,
         check_assumptions(assumptions, room)
  PROVE  Stepped
<1>1. /\ StackInStep /\ Between /\ CacheOK /\ ShapesLast /\ Invariant /\ OnlyLast(todo)
      /\ FramesOK /\ Memory /\ WellFormed(heap)
  BY DEF Going, StackInStep, Between
<1>2. /\ Idle /\ registered
      /\ UNCHANGED <<expr_vars, registered, backend, assertions, marks, meant>>
  BY DEF check_assumptions, Calls
<1>3. CASE cache' = cache /\ frames' = frames
  BY <1>2, <1>3, SteppedIdly
<1>4. CASE cache' = CacheAfter(ToSet(assumptions)) /\ frames' = frames
  <2>1. PICK encoded : encoded = ToSet(assumptions)
    OBVIOUS
  <2>2. cache' = CacheAfter(encoded) /\ \A a \in encoded : a \in Addr /\ heap[a].refs >= 1
    BY <1>4, <2>1
  <2>3. Encoded(cache', encoded) /\ CacheStep
    BY <1>1, <1>2, <2>2, CacheStepEncoded
  <2>4. CacheLasts
    BY <1>1, <2>3, CacheLastsEncoded DEF Between
  <2>5. SameDue
    BY <1>1, <1>2, SameDueSame DEF expr_vars
  <2> QED
    BY <1>2, <1>4, <2>3, <2>4, <2>5, SteppedQuietly
<1>5. CASE backend = "z3"
  BY <1>3, <1>5 DEF check_assumptions, check_z3
<1>6. CASE backend = "msat"
  <2>1. check_msat(assumptions, room)
    BY <1>6 DEF check_assumptions
  <2>2. /\ \A i \in DOMAIN assumptions : IsSymbol(assumptions[i])
        /\ cache' = CacheAfter(ToSet(assumptions))
        /\ frames' = IF answer'.verdict = "unsat" THEN frames
                     ELSE [frames EXCEPT ![1] = @ \union Equivalences(assumptions)]
    <3>1. ~AssumesAnyFormula
      BY <1>1, <1>6 DEF Invariant, StackOK, OnlySymbols
    <3> QED
      BY <2>1, <3>1 DEF check_msat
  <2>3. Equivalences(assumptions) = {}
    BY <2>2 DEF Equivalences
  <2>4. frames' = frames
    <3>1. PICK S : frames \in Seq(S)
      BY <1>1 DEF FramesOK
    <3>2. PICK e : e = Equivalences(assumptions)
      OBVIOUS
    <3>3. frames' = frames \/ frames' = [frames EXCEPT ![1] = @ \union e]
      BY <2>2, <3>2
    <3>4. PICK x, f : x = frames[1] \union e /\ f = [frames EXCEPT ![1] = x]
      OBVIOUS
    <3>5. x = frames[1] /\ (frames' = frames \/ frames' = f)
      BY <2>3, <3>2, <3>3, <3>4
    <3>6. f = frames
      BY <3>1, <3>4, <3>5
    <3> QED
      BY <3>5, <3>6
  <2> QED
    BY <1>4, <2>2, <2>4
<1>7. CASE backend \notin {"z3", "msat"}
  BY <1>3, <1>7 DEF check_assumptions, check_unsupported
<1> QED
  BY <1>5, <1>6, <1>7

LEMMA SteppedNext ==
  ASSUME Going, OnlySymbols, Next,
         \A a \in Deleting : a \in Deleting' \/ (DeleteAndNotify /\ a = It)
  PROVE  Stepped
<1>1. Memory /\ HeapOK /\ WellFormed(heap)
  BY DEF Going, Between, Memory
<1>2. CASE Express
  BY <1>2, SteppedExpress
<1>3. CASE GoOn
  BY <1>3, SteppedIdly DEF GoOn, solver_vars
<1>4. ASSUME NEW v \in Handle, add(v)
      PROVE  Stepped
  <2>1. /\ Idle /\ registered /\ handle[v] # Null /\ Asserted(handle[v])
        /\ heap' = Inc(heap, <<handle[v]>>)
        /\ UNCHANGED <<registered, backend, todo>>
    BY <1>4 DEF add, Calls
  <2>2. PICK y : y = handle[v]
    OBVIOUS
  <2>3. y \in Addr /\ heap[y].refs >= 1
    BY <1>1, <2>1, <2>2, HandleType
  <2>4. SameShapes
    <3>1. PICK ptrs : ptrs = <<y>>
      OBVIOUS
    <3>2. ptrs \in Seq(AddrOrNull)
      BY <2>3, <3>1 DEF AddrOrNull
    <3>3. heap' = Inc(heap, ptrs)
      BY <2>1, <2>2, <3>1
    <3> QED
      BY <1>1, <3>2, <3>3, IncEffect
  <2>5. Asserted(y)
    BY <2>1, <2>2
  <2> QED
    BY <2>1, <2>3, <2>4, <2>5, SteppedAsserted
<1>5. ASSUME NEW v \in Handle, add_moved(v)
      PROVE  Stepped
  <2>1. /\ Idle /\ registered /\ handle[v] # Null /\ Asserted(handle[v])
        /\ UNCHANGED <<heap, registered, backend, todo>>
    BY <1>5 DEF add_moved, Calls
  <2>2. handle[v] \in Addr /\ heap[handle[v]].refs >= 1
    BY <1>1, <2>1, HandleType
  <2>3. SameShapes
    BY <2>1 DEF SameShapes, ShapeAt
  <2> QED
    BY <2>1, <2>2, <2>3, SteppedAsserted
<1>6. CASE push
  BY <1>6, SteppedPush
<1>7. CASE pop
  BY <1>7, SteppedPop
<1>8. CASE reset
  BY <1>8, SteppedReset
<1>9. CASE check
  BY <1>9, SteppedIdly DEF check, solver_vars
<1>10. ASSUME NEW hs \in BoundedSeq({h \in Handle : handle[h] # Null}, MaxAssumptions),
              NEW room \in 0 .. MaxAssumptions,
              check_assumptions([i \in DOMAIN hs |-> handle[hs[i]]], room)
       PROVE  Stepped
  <2>1. PICK assumptions : assumptions = [i \in DOMAIN hs |-> handle[hs[i]]]
    OBVIOUS
  <2>2. \A a \in ToSet(assumptions) : a \in Addr /\ heap[a].refs >= 1
    BY <1>1, <2>1, AssumedLive
  <2>3. check_assumptions(assumptions, room)
    BY <1>10, <2>1
  <2> QED
    BY <2>2, <2>3, SteppedAssumptions
<1>11. CASE DecStep
  <2>1. ~DeleteAndNotify
    BY <1>11 DEF DecStep, dec, DeleteAndNotify, DeleteExpr, Doing
  <2> QED
    BY <1>11, <2>1, SteppedDec
<1>12. CASE DeleteAndNotify
  BY <1>12, SteppedDelete
<1>13. CASE __pop
  BY <1>13, Stepped__pop
<1>14. CASE __reset
  BY <1>14, Stepped__reset
<1>15. CASE Destroy
  BY <1>15, SteppedDestroy
<1>16. CASE Construct
  BY <1>16, SteppedIdly DEF Construct, client_vars
<1> QED
  BY <1>2, <1>3, <1>4, <1>5, <1>6, <1>7, <1>8, <1>9, <1>10, <1>11, <1>12, <1>13, <1>14, <1>15,
     <1>16 DEF Next

LEMMA SameKindOfSolver ==
  ASSUME Next
  PROVE  UNCHANGED <<backend, consing>>
<1>1. CASE Express
  BY <1>1 DEF Express, solver_vars, ExprNext, Copy, Move, Drop, ResetHandle, NewSymbol,
              NewNegation, NewBinary, make_shared_expr
<1>2. CASE \E v \in Handle : add(v) \/ add_moved(v)
  BY <1>2 DEF add, add_moved
<1>3. CASE GoOn \/ push \/ pop \/ reset \/ check \/ Destroy \/ Construct
  BY <1>3 DEF GoOn, push, pop, reset, check, Destroy, Construct, expr_vars, solver_vars
<1>4. CASE DecStep \/ DeleteAndNotify \/ __pop \/ __reset
  BY <1>4 DEF DecStep, DeleteAndNotify, __pop, __reset, dec, DeleteExpr, solver_vars
<1>5. ASSUME NEW assumptions, NEW room, check_assumptions(assumptions, room)
      PROVE  UNCHANGED <<backend, consing>>
  BY <1>5 DEF check_assumptions, expr_vars
<1> QED
  BY <1>1, <1>2, <1>3, <1>4, <1>5 DEF Next

LEMMA StackInStepNext ==
  ASSUME Invariant, Invariant', StackInStep, OnlySymbols, Next
  PROVE  StackInStep'
<1>1. Memory /\ Memory' /\ WellFormed(heap) /\ CacheOK
  BY DEF Invariant, StackInStep
<1>2. WellFormed(heap') /\ ShapesKept
  BY <1>1, ShapesNext
<1>3. UNCHANGED <<backend, consing>>
  BY SameKindOfSolver
<1>4. Between
  BY <1>1, <1>2, <1>3, ShapesKeptLast DEF Between
<1>5. Going
  BY <1>2, <1>4 DEF Going
<1>6. Stepped
  BY <1>5, DeletingNext, SteppedNext
<1>7. CacheOK'
  BY <1>1, <1>2, <1>3, <1>6, CacheNext DEF Stepped
<1> QED
  BY <1>2, <1>6, <1>7 DEF Stepped, StackInStep

LEMMA StackInStepInit ==
  Init => StackInStep
<1> SUFFICES ASSUME Init
             PROVE  StackInStep
  OBVIOUS
<1>1. heap = [a \in Addr |-> NoExpr] /\ todo = << >>
  BY DEF Init, ExprInit
<1>2. /\ registered = TRUE /\ assertions = << >> /\ marks = << >>
      /\ cache = [k \in {} |-> Nothing] /\ frames = <<{}>> /\ meant = << << >> >>
  BY DEF Init, SolverInit
<1>3. NoExpr.args = << >> /\ NoExpr.kind = "none"
  BY DEF NoExpr, Unreferenced, Shape
<1>4. WellFormed(heap)
  <2>1. ASSUME NEW a \in Addr
        PROVE  /\ heap[a].kind \in Kinds /\ heap[a].args \in Seq(Addr)
               /\ Len(heap[a].args) = Arity(heap[a].kind) /\ DOMAIN heap[a].args = {}
    <3>1. heap[a].args = << >> /\ heap[a].kind = "none"
      BY <1>1, <1>3
    <3> QED
      BY <3>1 DEF Kinds, Arity
  <2>2. PICK rank : rank = [a \in Addr |-> 0]
    OBVIOUS
  <2>3. rank \in [Addr -> 0 .. 0] /\ Ranks(heap, 0, rank)
    BY <2>1, <2>2 DEF Ranks
  <2> QED
    BY <2>1, <2>3 DEF WellFormed
<1>5. CacheOK
  <2>1. DOMAIN cache = {}
    BY <1>2
  <2> QED
    BY <2>1, FS_EmptySet DEF CacheOK
<1>6. OnlyLast(todo) /\ \A w : ~Due(w)
  BY <1>1, DueOnce DEF Due
<1>7. PICK lv : LevelsAre(lv) /\ lv = << << >> >>
  BY <1>2, OneLevel
<1>8. FramesAre(lv) /\ FramesOK
  BY <1>2, <1>6, <1>7, OneFrame
<1>9. Emptied /\ InLevels
  BY <1>6, <1>7, <1>8 DEF Emptied, InLevels
<1> QED
  BY <1>2, <1>4, <1>5, <1>6, <1>8, <1>9 DEF StackInStep

LEMMA StackInStepSame ==
  ASSUME Invariant, Invariant', StackInStep, UNCHANGED vars
  PROVE  StackInStep'
<1>1. /\ UNCHANGED <<expr_vars, heap, registered, backend, consing, assertions, marks, cache,
                      frames, meant>>
      /\ Memory /\ Memory' /\ WellFormed(heap) /\ CacheOK
  BY DEF vars, expr_vars, solver_vars, client_vars, Invariant, StackInStep
<1>2. SameShapes
  BY <1>1 DEF SameShapes, ShapeAt
<1>3. WellFormed(heap') /\ ShapesKept
  BY <1>1, <1>2, SameShapesKept
<1>4. Between
  BY <1>1, <1>3, ShapesKeptLast DEF Between
<1>5. Going
  BY <1>3, <1>4 DEF Going
<1>6. Stepped
  BY <1>1, <1>5, SteppedIdly
<1>7. CacheOK'
  BY <1>1, <1>3, <1>6, CacheNext DEF Stepped
<1> QED
  BY <1>3, <1>6, <1>7 DEF Stepped, StackInStep

(* The inductive invariant of the back end: through every call and every   *)
(* step of a destructor, the cache has the terms of expressions that are   *)
(* there or about to be deleted, and the back end's stack has, level by    *)
(* level, the terms of the assertions, but for the level that pop() has    *)
(* still to remove or what reset() has still to clear.                     *)
THEOREM SolverStackInStep ==
  ASSUME OnlySymbols
  PROVE  Spec => []StackInStep
<1>1. Invariant /\ Invariant' /\ StackInStep /\ [Next]_vars => StackInStep'
  <2> SUFFICES ASSUME Invariant, Invariant', StackInStep, [Next]_vars
               PROVE  StackInStep'
    OBVIOUS
  <2>1. CASE Next
    BY <2>1, StackInStepNext
  <2>2. CASE UNCHANGED vars
    BY <2>2, StackInStepSame
  <2> QED
    BY <2>1, <2>2
<1>2. Spec => []Invariant
  BY SolverInvariant
<1> QED
  BY <1>1, <1>2, StackInStepInit, PTL DEF Spec

-----------------------------------------------------------------------------
(* What follows.                                                           *)

(* CVC4's terms are about the variables it remembers. *)
LEMMA VariablesKnown ==
  ASSUME WellFormed(heap), CacheOK, backend = "cvc4", NEW a \in Addr, Settled(a)
  PROVE  \A x \in Term[a].over : \E k \in DOMAIN cache : cache[k] = Atom(x)
<1> DEFINE Known(b) == \A x \in Term[b].over : \E k \in DOMAIN cache : cache[k] = Atom(x)
           S == {b \in Addr : Settled(b) => Known(b)}
<1>1. ASSUME NEW b \in Addr, \A i \in DOMAIN heap[b].args : heap[b].args[i] \in S
      PROVE  b \in S
  <2> SUFFICES ASSUME Settled(b)
               PROVE  Known(b)
    OBVIOUS
  <2>1. Term[b] = TermBy(Term, b)
    BY TermsNow
  <2>2. \/ IsCached(b)
        \/ ~Caches(b) /\ \A i \in DOMAIN heap[b].args : Settled(heap[b].args[i])
    BY SettledBy
  <2>3. CASE IsCached(b)
    <3>1. Term[b] = cache[Key(b)] /\ Key(b) \in DOMAIN cache
      BY <2>1, <2>3 DEF TermBy, IsCached
    <3>2. PICK x \in Symbol \X Nat : cache[Key(b)] = Atom(x)
      BY <3>1 DEF CacheOK
    <3>3. Term[b].over = {x}
      BY <3>1, <3>2, AtomIsTerm
    <3> QED
      BY <3>1, <3>2, <3>3
  <2>4. CASE ~IsCached(b)
    <3>1. ~Caches(b) /\ \A i \in DOMAIN heap[b].args : Known(heap[b].args[i])
      BY <1>1, <2>2, <2>4
    <3>2. heap[b].kind # "symbol"
      BY <3>1 DEF Caches
    <3>3. CASE heap[b].kind = "lnot"
      <4>1. DOMAIN heap[b].args = {1}
        BY <3>3, OperandsOf
      <4>2. PICK t : t = Term[heap[b].args[1]]
        OBVIOUS
      <4>3. Term[b] = Negation(t)
        BY <2>1, <2>4, <3>3, <4>2 DEF TermBy
      <4>4. Term[b].over = t.over
        BY <4>3 DEF Negation
      <4> QED
        BY <3>1, <4>1, <4>2, <4>4
    <3>4. CASE heap[b].kind \in {"land", "lor"}
      <4>1. DOMAIN heap[b].args = {1, 2}
        BY <3>4, OperandsOf
      <4>2. PICK t, u : t = Term[heap[b].args[1]] /\ u = Term[heap[b].args[2]]
        OBVIOUS
      <4>3. Term[b] = Conjunction(t, u) \/ Term[b] = Disjunction(t, u)
        BY <2>1, <2>4, <3>4, <4>2 DEF TermBy
      <4>4. /\ Conjunction(t, u).over = t.over \union u.over
            /\ Disjunction(t, u).over = t.over \union u.over
        <5>1. \A p, q : Conjunction(p, q).over = p.over \union q.over
          BY DEF Conjunction
        <5>2. \A p : Negation(p).over = p.over
          BY DEF Negation
        <5> QED
          BY <5>1, <5>2 DEF Disjunction
      <4>5. Term[b].over = t.over \union u.over
        BY <4>3, <4>4
      <4> QED
        BY <3>1, <4>1, <4>2, <4>5
    <3>5. CASE heap[b].kind = "none"
      <4>1. Term[b] = Nothing
        BY <2>1, <2>4, <3>5 DEF TermBy
      <4> QED
        BY <4>1 DEF Nothing
    <3> QED
      BY <3>2, <3>3, <3>4, <3>5, OperandsOf DEF Kinds
  <2> QED
    BY <2>3, <2>4
<1>2. S \in SUBSET Addr
  OBVIOUS
<1>3. S = Addr
  <2> HIDE DEF S
  <2> QED
    BY <1>1, <1>2, ExpressionInduction
<1> QED
  BY <1>3

(* Between calls, the back end has the terms of the levels. *)
LEMMA FramesBetweenCalls ==
  ASSUME Idle, Keeps, NEW lv, LevelsAre(lv), FramesAre(lv), Invariant
  PROVE  /\ Len(frames) = Len(lv)
         /\ \A l \in 1 .. Len(lv) : frames[l] = TermsAt(lv, l) /\ SettledAt(lv, l)
         /\ lv \in Seq(Seq(Addr)) /\ Len(lv) \in Nat
<1>1. ~Due("reset") /\ ~Due("pop")
  BY IdleDue
<1>2. lv \in Seq(Seq(Addr)) /\ Len(lv) \in Nat
  BY LevelsType
<1> QED
  BY <1>1, <1>2 DEF FramesAre

LEMMA CachedMean ==
  Invariant /\ StackInStep => CacheCoherent
<1> SUFFICES ASSUME Invariant, StackInStep
             PROVE  CacheCoherent
  OBVIOUS
<1>1. /\ Memory /\ WellFormed(heap) /\ CacheOK /\ FramesOK /\ InLevels
      /\ heap \in [Addr -> Expr] /\ todo \in Seq(Pending)
  BY DEF Invariant, StackInStep, Memory, HeapOK, PointersOK
<1>2. ASSUME NEW k \in DOMAIN cache \intersect Addr
      PROVE  \/ heap[k].refs > 0 /\ MeaningOfTerm(cache[k]) = Meaning[k]
             \/ Step("delete", k) \in ToSet(todo)
  BY <1>1, <1>2 DEF CacheOK, Deleting, ToSet
<1>3. \A s \in DOMAIN cache \intersect Symbol : MeaningOfTerm(cache[s]) = Atom(s)
  BY <1>1 DEF CacheOK
<1>4. ASSUME backend = "cvc4", Idle, NEW x \in UNION {t.over : t \in AllFrames}
      PROVE  \E k \in DOMAIN cache : cache[k] = Atom(x)
  <2>1. PICK lv : LevelsAre(lv) /\ FramesAre(lv)
    BY <1>1 DEF InLevels
  <2>2. Keeps
    BY <1>4 DEF Keeps
  <2>3. /\ Len(frames) = Len(lv)
        /\ \A l \in 1 .. Len(lv) : frames[l] = TermsAt(lv, l) /\ SettledAt(lv, l)
        /\ lv \in Seq(Seq(Addr)) /\ Len(lv) \in Nat
    BY <1>4, <2>1, <2>2, FramesBetweenCalls
  <2>4. PICK l \in DOMAIN frames : \E t \in frames[l] : x \in t.over
    BY <1>4 DEF AllFrames
  <2>5. PICK t \in frames[l] : x \in t.over
    BY <2>4
  <2>6. l \in 1 .. Len(lv)
    BY <1>1, <2>3 DEF FramesOK
  <2>7. PICK i \in DOMAIN lv[l] : t = Term[lv[l][i]]
    BY <2>3, <2>5, <2>6 DEF TermsAt
  <2>8. lv[l][i] \in Addr /\ Settled(lv[l][i])
    BY <2>3, <2>6 DEF SettledAt
  <2> QED
    BY <1>1, <1>4, <2>5, <2>7, <2>8, VariablesKnown
<1> QED
  BY <1>2, <1>3, <1>4 DEF CacheCoherent

LEMMA StackMeans ==
  Invariant /\ StackInStep => BackEndInStep
<1> SUFFICES ASSUME Invariant, StackInStep
             PROVE  BackEndInStep
  OBVIOUS
<1>1. /\ Memory /\ HeapOK /\ WellFormed(heap) /\ CacheOK /\ FramesOK /\ InLevels
  BY DEF Invariant, StackInStep, Memory
<1>2. PICK lv : LevelsAre(lv) /\ FramesAre(lv)
  BY <1>1 DEF InLevels
<1>3. /\ lv \in Seq(Seq(Addr)) /\ Len(lv) >= 1 /\ Len(lv) \in Nat
      /\ FlattenSeq(lv) = assertions
  BY <1>2, LevelsType
<1>4. PICK f : f = Meaning
  OBVIOUS
<1>5. meant = EachLevel(f, lv)
  BY <1>2, <1>4 DEF LevelsAre
<1>6. FlattenSeq(meant) = Each(f, assertions)
  BY <1>3, <1>5, FlattenEach
<1>7. [i \in DOMAIN assertions |-> Meaning[assertions[i]]] = FlattenSeq(meant)
  BY <1>4, <1>6 DEF Each
<1>8. ASSUME Idle, Keeps
      PROVE  /\ Len(frames) = Len(meant)
             /\ \A l \in DOMAIN frames :
                  {MeaningOfTerm(t) : t \in frames[l]} = ToSet(meant[l])
  <2>1. /\ Len(frames) = Len(lv)
        /\ \A l \in 1 .. Len(lv) : frames[l] = TermsAt(lv, l) /\ SettledAt(lv, l)
    BY <1>2, <1>8, FramesBetweenCalls
  <2>2. PICK B : B = {f[a] : a \in Addr}
    OBVIOUS
  <2>3. Len(meant) = Len(lv) /\ \A l \in 1 .. Len(lv) : meant[l] = Each(f, lv[l])
    BY <1>3, <1>5, <2>2, EachLevelIs
  <2>4. DOMAIN frames = 1 .. Len(lv)
    BY <1>1, <2>1 DEF FramesOK
  <2>5. \A b \in Addr : MeaningOfTerm(Term[b]) = f[b]
    <3>1. IsFiniteSet(DOMAIN cache) /\ \A k \in DOMAIN cache : IsTerm(cache[k])
      BY <1>1 DEF CacheOK
    <3>2. IsFiniteSet(VariablesInUse)
      BY <1>1, <3>1, VariablesFinite
    <3>3. Deleting = {}
      BY <1>8, IdleNow
    <3> QED
      BY <1>1, <1>4, <3>2, <3>3, TermsMean
  <2>6. ASSUME NEW l \in 1 .. Len(lv)
        PROVE  {MeaningOfTerm(t) : t \in frames[l]} = ToSet(meant[l])
    <3>1. PICK s : s = lv[l] /\ s \in Seq(Addr)
      BY <1>3
    <3>2. frames[l] = {Term[s[i]] : i \in DOMAIN s}
      BY <2>1, <3>1 DEF TermsAt
    <3>3. {MeaningOfTerm(t) : t \in frames[l]} = {MeaningOfTerm(Term[s[i]]) : i \in DOMAIN s}
      BY <3>2
    <3>4. \A i \in DOMAIN s : MeaningOfTerm(Term[s[i]]) = f[s[i]]
      BY <2>5, <3>1
    <3>5. {MeaningOfTerm(Term[s[i]]) : i \in DOMAIN s} = {f[s[i]] : i \in DOMAIN s}
      BY <3>4
    <3>6. ToSet(meant[l]) = {f[s[i]] : i \in DOMAIN s}
      <4>1. PICK e : e = Each(f, s)
        OBVIOUS
      <4>2. DOMAIN e = DOMAIN s /\ \A i \in DOMAIN s : e[i] = f[s[i]]
        BY <4>1 DEF Each
      <4>3. ToSet(e) = {e[i] : i \in DOMAIN e}
        BY DEF ToSet
      <4>4. meant[l] = e
        BY <2>3, <3>1, <4>1
      <4> QED
        BY <4>2, <4>3, <4>4
    <3> QED
      BY <3>3, <3>5, <3>6
  <2> QED
    BY <2>1, <2>3, <2>4, <2>6
<1> QED
  BY <1>7, <1>8 DEF BackEndInStep

(* A term that a back end remembers, by the address of an expression or by *)
(* its name, means what the expression at that address means now, though   *)
(* others have been there before; and what CVC4 has asserted is about the  *)
(* variables that it would use for the symbols again.                      *)
THEOREM CachesCoherent ==
  ASSUME OnlySymbols
  PROVE  Spec => []CacheCoherent
BY SolverInvariant, SolverStackInStep, CachedMean, PTL

(* Between calls the back end's stack is the client's: as many levels, and *)
(* at each of them terms that mean what was asserted there and not taken   *)
(* back, whatever expressions came and went.                               *)
THEOREM BackEndsInStep ==
  ASSUME OnlySymbols
  PROVE  Spec => []BackEndInStep
BY SolverInvariant, SolverStackInStep, StackMeans, PTL

-----------------------------------------------------------------------------
(* What makes formulas true.                                               *)

(* M says which variables are true, perhaps of more than the formula's *)
Holds(M, f) == M \intersect f.over \in f.models

LEMMA ConsistentIs ==
  ASSUME NEW F
  PROVE  Consistent(F) <=> \E M : \A f \in F : Holds(M, f)
<1>1. PICK V : V = UNION {f.over : f \in F}
  OBVIOUS
<1>2. Consistent(F) <=> \E M \in SUBSET V : \A f \in F : Holds(M, f)
  BY <1>1 DEF Consistent, Holds
<1>3. ASSUME NEW M, \A f \in F : Holds(M, f)
      PROVE  \E N \in SUBSET V : \A f \in F : Holds(N, f)
  <2>1. PICK N : N = M \intersect V
    OBVIOUS
  <2>2. ASSUME NEW f \in F
        PROVE  N \intersect f.over = M \intersect f.over
    BY <1>1, <2>1
  <2>3. N \in SUBSET V /\ \A f \in F : Holds(N, f)
    BY <1>3, <2>1, <2>2 DEF Holds
  <2> QED
    BY <2>3
<1> QED
  BY <1>2, <1>3

LEMMA HoldsAtom ==
  ASSUME NEW M, NEW x
  PROVE  Holds(M, Atom(x)) <=> x \in M
<1>1. Atom(x).over = {x} /\ Atom(x).models = {{x}}
  BY DEF Atom
<1>2. M \intersect {x} = {x} <=> x \in M
  OBVIOUS
<1> QED
  BY <1>1, <1>2 DEF Holds

LEMMA HoldsNegation ==
  ASSUME NEW M, NEW f, IsFormula(f)
  PROVE  Holds(M, Negation(f)) <=> ~Holds(M, f)
<1>1. Negation(f).over = f.over /\ Negation(f).models = (SUBSET f.over) \ f.models
  BY NegationIs
<1>2. M \intersect f.over \in SUBSET f.over
  OBVIOUS
<1> QED
  BY <1>1, <1>2 DEF Holds

LEMMA HoldsConjunction ==
  ASSUME NEW M, NEW f, NEW g
  PROVE  Holds(M, Conjunction(f, g)) <=> Holds(M, f) /\ Holds(M, g)
<1>1. PICK V, c : V = f.over \union g.over /\ c = Conjunction(f, g)
  OBVIOUS
<1>2. /\ c.over = V
      /\ \A N \in SUBSET V :
           N \in c.models <=> N \intersect f.over \in f.models /\ N \intersect g.over \in g.models
  BY <1>1, ConjunctionIs
<1>3. PICK N : N = M \intersect V
  OBVIOUS
<1>4. /\ N \in SUBSET V /\ N \intersect f.over = M \intersect f.over
      /\ N \intersect g.over = M \intersect g.over
  BY <1>1, <1>3
<1> QED
  BY <1>1, <1>2, <1>3, <1>4 DEF Holds

LEMMA HoldsDisjunction ==
  ASSUME NEW M, NEW f, IsFormula(f), NEW g, IsFormula(g)
  PROVE  Holds(M, Disjunction(f, g)) <=> Holds(M, f) \/ Holds(M, g)
<1>1. PICK m, n, c : m = Negation(f) /\ n = Negation(g) /\ c = Conjunction(m, n)
  OBVIOUS
<1>2. IsFormula(c)
  BY <1>1, ConjunctionIs
<1>3. (Holds(M, m) <=> ~Holds(M, f)) /\ (Holds(M, n) <=> ~Holds(M, g))
  BY <1>1, HoldsNegation
<1>4. Holds(M, c) <=> Holds(M, m) /\ Holds(M, n)
  BY <1>1, HoldsConjunction
<1>5. Holds(M, Negation(c)) <=> ~Holds(M, c)
  BY <1>2, HoldsNegation
<1>6. Disjunction(f, g) = Negation(c)
  BY <1>1 DEF Disjunction
<1> QED
  BY <1>3, <1>4, <1>5, <1>6

LEMMA HoldsImplication ==
  ASSUME NEW M, NEW f, IsFormula(f), NEW g, IsFormula(g)
  PROVE  Holds(M, Implication(f, g)) <=> (Holds(M, f) => Holds(M, g))
<1>1. PICK n : n = Negation(f)
  OBVIOUS
<1>2. IsFormula(n) /\ (Holds(M, n) <=> ~Holds(M, f))
  BY <1>1, NegationIs, HoldsNegation
<1>3. Holds(M, Disjunction(n, g)) <=> Holds(M, n) \/ Holds(M, g)
  BY <1>2, HoldsDisjunction
<1>4. Implication(f, g) = Disjunction(n, g)
  BY <1>1 DEF Implication
<1> QED
  BY <1>2, <1>3, <1>4

LEMMA HoldsRenamed ==
  ASSUME NEW M, NEW f, NEW r
  PROVE  Holds(M, Renamed(f, r)) <=> Before(f, r, M) \in f.models
<1>1. PICK V, N : V = {r[x] : x \in f.over} /\ N = M \intersect V
  OBVIOUS
<1>2. /\ Renamed(f, r).over = V
      /\ \A K \in SUBSET V : K \in Renamed(f, r).models <=> Before(f, r, K) \in f.models
  BY <1>1, RenamedIs
<1>3. Before(f, r, N) = Before(f, r, M)
  BY <1>1 DEF Before
<1> QED
  BY <1>1, <1>2, <1>3 DEF Holds

-----------------------------------------------------------------------------
(* A back end's variables.                                                 *)

(* Only CVC4 makes more than one variable of a symbol. *)
PlainVariables == Symbol \X {0}

PlainCache == backend # "cvc4" => \A k \in DOMAIN cache : cache[k].over \subseteq PlainVariables

LEMMA PlainTerms ==
  ASSUME HeapOK, WellFormed(heap), PlainCache, backend # "cvc4", NEW b \in Addr
  PROVE  Term[b].over \subseteq PlainVariables
<1> DEFINE S == {a \in Addr : Term[a].over \subseteq PlainVariables}
<1>1. ASSUME NEW a \in Addr, \A i \in DOMAIN heap[a].args : heap[a].args[i] \in S
      PROVE  a \in S
  <2>1. Term[a] = TermBy(Term, a)
    BY TermsNow
  <2>2. CASE IsCached(a)
    <3>1. Term[a] = cache[Key(a)] /\ Key(a) \in DOMAIN cache
      BY <2>1, <2>2 DEF TermBy, IsCached
    <3> QED
      BY <3>1 DEF PlainCache
  <2>3. CASE ~IsCached(a) /\ heap[a].kind = "symbol"
    <3>1. Term[a] = Atom(Variable(heap[a].name)) /\ heap[a].name \in Symbol
      BY <2>1, <2>3 DEF TermBy, HeapOK
    <3>2. Variable(heap[a].name) = <<heap[a].name, 0>>
      BY DEF Variable
    <3>3. Term[a].over = {<<heap[a].name, 0>>}
      BY <3>1, <3>2 DEF Atom
    <3> QED
      BY <3>1, <3>3 DEF PlainVariables
  <2>4. CASE ~IsCached(a) /\ heap[a].kind = "lnot"
    <3>1. DOMAIN heap[a].args = {1}
      BY <2>4, OperandsOf
    <3>2. PICK t : t = Term[heap[a].args[1]]
      OBVIOUS
    <3>3. Term[a] = Negation(t)
      BY <2>1, <2>4, <3>2 DEF TermBy
    <3>4. Term[a].over = t.over
      BY <3>3 DEF Negation
    <3> QED
      BY <1>1, <3>1, <3>2, <3>4
  <2>5. CASE ~IsCached(a) /\ heap[a].kind \in {"land", "lor"}
    <3>1. DOMAIN heap[a].args = {1, 2}
      BY <2>5, OperandsOf
    <3>2. PICK t, u : t = Term[heap[a].args[1]] /\ u = Term[heap[a].args[2]]
      OBVIOUS
    <3>3. Term[a] = Conjunction(t, u) \/ Term[a] = Disjunction(t, u)
      BY <2>1, <2>5, <3>2 DEF TermBy
    <3>4. \A p : Negation(p).over = p.over
      BY DEF Negation
    <3>5. \A p, q : Conjunction(p, q).over = p.over \union q.over
      BY DEF Conjunction
    <3>6. Disjunction(t, u).over = t.over \union u.over
      BY <3>4, <3>5 DEF Disjunction
    <3>7. Term[a].over = t.over \union u.over
      BY <3>3, <3>5, <3>6
    <3> QED
      BY <1>1, <3>1, <3>2, <3>7
  <2>6. CASE ~IsCached(a) /\ heap[a].kind = "none"
    <3>1. Term[a] = Nothing
      BY <2>1, <2>6 DEF TermBy
    <3> QED
      BY <3>1 DEF Nothing
  <2> QED
    BY <2>2, <2>3, <2>4, <2>5, <2>6, OperandsOf DEF Kinds
<1>2. S \in SUBSET Addr
  OBVIOUS
<1>3. S = Addr
  <2> HIDE DEF S
  <2> QED
    BY <1>1, <1>2, ExpressionInduction
<1> QED
  BY <1>3

LEMMA CacheStepNext ==
  ASSUME Invariant, Invariant', StackInStep, OnlySymbols, Next
  PROVE  CacheStep /\ backend' = backend
<1>1. Memory /\ Memory' /\ WellFormed(heap)
  BY DEF Invariant, StackInStep
<1>2. WellFormed(heap') /\ ShapesKept
  BY <1>1, ShapesNext
<1>3. UNCHANGED <<backend, consing>>
  BY SameKindOfSolver
<1>4. Between
  BY <1>1, <1>2, <1>3, ShapesKeptLast DEF Between
<1>5. Going
  BY <1>2, <1>4 DEF Going
<1>6. Stepped
  BY <1>5, DeletingNext, SteppedNext
<1> QED
  BY <1>3, <1>6 DEF Stepped

LEMMA PlainCacheNext ==
  ASSUME Invariant, Invariant', StackInStep, OnlySymbols, PlainCache, [Next]_vars
  PROVE  PlainCache'
<1>1. CASE Next
  <2>1. CacheStep /\ backend' = backend /\ HeapOK /\ WellFormed(heap)
    BY <1>1, CacheStepNext DEF Invariant, Memory, StackInStep
  <2> SUFFICES ASSUME backend # "cvc4", NEW k \in DOMAIN cache'
               PROVE  cache'[k].over \subseteq PlainVariables
    BY <2>1 DEF PlainCache, PlainVariables
  <2>2. CASE k \in DOMAIN cache /\ cache'[k] = cache[k]
    BY <2>2 DEF PlainCache
  <2>3. CASE \E b \in Addr : k = Key(b) /\ Filed(b, cache'[k])
    BY <2>1, <2>3, PlainTerms DEF Filed
  <2> QED
    BY <2>1, <2>2, <2>3 DEF CacheStep
<1>2. CASE UNCHANGED vars
  BY <1>2 DEF vars, solver_vars, PlainCache, PlainVariables
<1> QED
  BY <1>1, <1>2

(* Between calls a back end has the terms of expressions. *)
LEMMA FramesAreTerms ==
  ASSUME Invariant, StackInStep, Idle, Keeps, NEW t \in AllFrames
  PROVE  \E a \in Addr : t = Term[a]
<1>1. PICK lv : LevelsAre(lv) /\ FramesAre(lv)
  BY DEF StackInStep, InLevels
<1>2. /\ Len(frames) = Len(lv)
      /\ \A l \in 1 .. Len(lv) : frames[l] = TermsAt(lv, l) /\ SettledAt(lv, l)
      /\ lv \in Seq(Seq(Addr)) /\ Len(lv) \in Nat
  BY <1>1, FramesBetweenCalls
<1>3. DOMAIN frames = 1 .. Len(lv)
  BY <1>2 DEF StackInStep, FramesOK
<1>4. PICK l \in DOMAIN frames : t \in frames[l]
  BY DEF AllFrames
<1>5. t \in TermsAt(lv, l)
  BY <1>2, <1>3, <1>4
<1>6. PICK i \in DOMAIN lv[l] : t = Term[lv[l][i]]
  BY <1>5 DEF TermsAt
<1>7. lv[l][i] \in Addr
  BY <1>2, <1>3
<1> QED
  BY <1>6, <1>7

(* Two variables that are in use between calls are of different symbols.  *)
LEMMA VariablesApart ==
  ASSUME Invariant, StackInStep, PlainCache, Idle, Keeps,
         NEW x \in UNION {t.over : t \in AllFrames}, NEW y \in UNION {t.over : t \in AllFrames},
         x[1] = y[1]
  PROVE  x = y
<1>1. /\ Memory /\ HeapOK /\ StoreOK /\ WellFormed(heap) /\ CacheOK /\ FramesOK /\ InLevels
      /\ Deleting = {}
  BY IdleNow DEF Invariant, StackInStep, Memory
<1>2. CASE backend # "cvc4"
  <2>1. ASSUME NEW z \in UNION {t.over : t \in AllFrames}
        PROVE  z \in PlainVariables
    <3>1. PICK t \in AllFrames : z \in t.over
      OBVIOUS
    <3>2. PICK a \in Addr : t = Term[a]
      BY FramesAreTerms
    <3> QED
      BY <1>1, <1>2, <3>1, <3>2, PlainTerms
  <2>2. x \in PlainVariables /\ y \in PlainVariables
    BY <2>1
  <2> QED
    BY <2>2 DEF PlainVariables
<1>3. CASE backend = "cvc4"
  <2>1. CacheCoherent
    BY CachedMean
  <2>2. PICK k \in DOMAIN cache, m \in DOMAIN cache : cache[k] = Atom(x) /\ cache[m] = Atom(y)
    BY <1>3, <2>1 DEF CacheCoherent
  <2>3. \A p, q : Atom(p) = Atom(q) => p = q
    BY DEF Atom
  <2>4. \A n \in DOMAIN cache : \E z \in Symbol \X Nat : cache[n] = Atom(z)
    BY <1>1, <1>3 DEF CacheOK
  <2>5. x \in Symbol \X Nat /\ y \in Symbol \X Nat
    BY <2>2, <2>3, <2>4
  <2>6. MeaningOfTerm(cache[k]) = Atom(x[1]) /\ MeaningOfTerm(cache[m]) = Atom(x[1])
    BY <2>2, <2>5, AtomIsTerm
  <2>7. k = m
    <3>1. CASE FiledBySymbol
      <4>1. k \in Symbol /\ m \in Symbol
        BY <1>1, <3>1 DEF CacheOK
      <4>2. Atom(k) = Atom(x[1]) /\ Atom(m) = Atom(x[1])
        BY <1>1, <2>6, <4>1 DEF CacheOK
      <4> QED
        BY <2>3, <4>2
    <3>2. CASE ~FiledBySymbol
      <4>1. consing
        BY <1>3, <3>2 DEF FiledBySymbol
      <4>2. k \in Addr /\ m \in Addr
        BY <1>1, <3>2 DEF CacheOK
      <4>3. ASSUME NEW n \in Addr, n \in DOMAIN cache, MeaningOfTerm(cache[n]) = Atom(x[1])
            PROVE  /\ heap[n].refs > 0 /\ heap[n].kind = "symbol" /\ heap[n].name = x[1]
                   /\ heap[n].args = << >>
        <5>1. /\ heap[n].refs > 0 /\ heap[n].kind = "symbol"
              /\ MeaningOfTerm(cache[n]) = Meaning[n]
          BY <1>1, <1>3, <4>3 DEF CacheOK
        <5>2. Meaning[n] = MeaningBy(heap, Meaning, n)
          BY <1>1, MeaningsAre, MeaningsNow
        <5>3. Meaning[n] = Atom(heap[n].name)
          BY <5>1, <5>2 DEF MeaningBy
        <5>4. heap[n].name = x[1]
          BY <2>3, <4>3, <5>1, <5>3
        <5>5. PICK e : e = heap[n].args
          OBVIOUS
        <5>6. e \in Seq(Addr) /\ Len(e) = 0
          BY <1>1, <5>1, <5>5 DEF WellFormed, Arity
        <5>7. e = << >>
          BY <5>6
        <5> QED
          BY <5>1, <5>4, <5>5, <5>7
      <4>4. ShapeAt(k) = ShapeAt(m)
        BY <2>6, <4>2, <4>3 DEF ShapeAt
      <4> QED
        BY <1>1, <2>6, <4>1, <4>2, <4>3, <4>4 DEF StoreOK
    <3> QED
      BY <3>1, <3>2
  <2> QED
    BY <2>2, <2>3, <2>7
<1> QED
  BY <1>2, <1>3

-----------------------------------------------------------------------------
(* Terms are consistent if their meanings are.                             *)

LEMMA ByMeaning ==
  ASSUME NEW t, IsTerm(t), NEW M, NEW N, \A x \in t.over : x \in N <=> x[1] \in M
  PROVE  Holds(N, t) <=> Holds(M, MeaningOfTerm(t))
<1>1. t.over \subseteq Symbol \X Nat
  BY DEF IsTerm
<1>2. \A x \in t.over : SymbolOf[x] = x[1]
  BY <1>1 DEF SymbolOf
<1>3. Before(t, SymbolOf, M) = N \intersect t.over
  BY <1>2 DEF Before
<1>4. Holds(M, MeaningOfTerm(t)) <=> Before(t, SymbolOf, M) \in t.models
  BY HoldsRenamed DEF MeaningOfTerm
<1> QED
  BY <1>3, <1>4 DEF Holds

LEMMA SameConsistency ==
  ASSUME NEW T, \A t \in T : IsTerm(t),
         \A x, y \in UNION {t.over : t \in T} : x[1] = y[1] => x = y
  PROVE  Consistent(T) <=> Consistent({MeaningOfTerm(t) : t \in T})
<1>1. PICK V, W : V = UNION {t.over : t \in T} /\ W = {MeaningOfTerm(t) : t \in T}
  OBVIOUS
<1>2. ASSUME NEW N, \A t \in T : Holds(N, t)
      PROVE  \E M : \A f \in W : Holds(M, f)
  <2>1. PICK M : M = {x[1] : x \in V \intersect N}
    OBVIOUS
  <2>2. ASSUME NEW t \in T
        PROVE  Holds(M, MeaningOfTerm(t))
    <3>1. ASSUME NEW x \in t.over
          PROVE  x \in N <=> x[1] \in M
      <4>1. x \in V
        BY <1>1
      <4>2. x[1] \in M => \E y \in V \intersect N : x[1] = y[1]
        BY <2>1
      <4> QED
        BY <1>1, <2>1, <4>1, <4>2
    <3> QED
      BY <1>2, <3>1, ByMeaning
  <2> QED
    BY <1>1, <2>2
<1>3. ASSUME NEW M, \A f \in W : Holds(M, f)
      PROVE  \E N : \A t \in T : Holds(N, t)
  <2>1. PICK N : N = {x \in V : x[1] \in M}
    OBVIOUS
  <2>2. ASSUME NEW t \in T
        PROVE  Holds(N, t)
    <3>1. \A x \in t.over : x \in N <=> x[1] \in M
      BY <1>1, <2>1
    <3>2. Holds(M, MeaningOfTerm(t))
      BY <1>1, <1>3
    <3> QED
      BY <3>1, <3>2, ByMeaning
  <2> QED
    BY <2>2
<1>4. /\ Consistent(T) <=> \E N : \A t \in T : Holds(N, t)
      /\ Consistent(W) <=> \E M : \A f \in W : Holds(M, f)
  BY ConsistentIs
<1> QED
  BY <1>1, <1>2, <1>3, <1>4

-----------------------------------------------------------------------------
(* Queries.                                                                *)

(* What the client has asserted, and what it asked about *)
AssertedNow == UNION {ToSet(meant[l]) : l \in DOMAIN meant}

BetweenCalls == Invariant /\ StackInStep /\ PlainCache /\ Idle /\ registered /\ Keeps

LEMMA TermsOfCalls ==
  ASSUME BetweenCalls, NEW a \in Addr
  PROVE  /\ IsTerm(Term[a]) /\ MeaningOfTerm(Term[a]) = Meaning[a]
         /\ backend # "cvc4" => Term[a].over \subseteq PlainVariables
<1>1. /\ HeapOK /\ WellFormed(heap) /\ CacheOK /\ FramesOK /\ PlainCache
      /\ Deleting = {}
  BY IdleNow DEF BetweenCalls, Invariant, StackInStep, Memory
<1>2. IsFiniteSet(DOMAIN cache) /\ \A k \in DOMAIN cache : IsTerm(cache[k])
  BY <1>1 DEF CacheOK
<1>3. IsFiniteSet(VariablesInUse)
  BY <1>1, <1>2, VariablesFinite
<1> QED
  BY <1>1, <1>3, TermsMean, PlainTerms

LEMMA FramesMean ==
  ASSUME BetweenCalls
  PROVE  /\ AssertedNow = {MeaningOfTerm(t) : t \in AllFrames}
         /\ \A t \in AllFrames : IsTerm(t)
         /\ backend # "cvc4" => \A t \in AllFrames : t.over \subseteq PlainVariables
<1>1. ASSUME NEW t \in AllFrames
      PROVE  IsTerm(t) /\ (backend # "cvc4" => t.over \subseteq PlainVariables)
  <2>1. PICK a \in Addr : t = Term[a]
    BY FramesAreTerms DEF BetweenCalls
  <2> QED
    BY <2>1, TermsOfCalls
<1>2. /\ Len(frames) = Len(meant)
      /\ \A l \in DOMAIN frames : {MeaningOfTerm(t) : t \in frames[l]} = ToSet(meant[l])
  BY StackMeans DEF BetweenCalls, BackEndInStep
<1>3. DOMAIN frames = DOMAIN meant
  <2>1. PICK lv : LevelsAre(lv)
    BY DEF BetweenCalls, StackInStep, InLevels
  <2>2. lv \in Seq(Seq(Addr)) /\ Len(lv) \in Nat
    BY <2>1, LevelsType DEF BetweenCalls
  <2>3. PICK f, B : f = Meaning /\ B = {f[a] : a \in Addr}
    OBVIOUS
  <2>4. meant = EachLevel(f, lv)
    BY <2>1, <2>3 DEF LevelsAre
  <2>5. DOMAIN meant = 1 .. Len(lv)
    BY <2>2, <2>4 DEF EachLevel
  <2>6. Len(meant) = Len(lv)
    BY <2>2, <2>3, <2>4, EachLevelIs
  <2>7. PICK S : frames \in Seq(S)
    BY DEF BetweenCalls, StackInStep, FramesOK
  <2> QED
    BY <1>2, <2>5, <2>6, <2>7
<1>4. {MeaningOfTerm(t) : t \in AllFrames} = UNION {{MeaningOfTerm(t) : t \in frames[l]} : l \in DOMAIN frames}
  BY DEF AllFrames
<1>5. {MeaningOfTerm(t) : t \in AllFrames} = AssertedNow
  BY <1>2, <1>3, <1>4 DEF AssertedNow
<1> QED
  BY <1>1, <1>5

(* check(): what the library has is consistent if what was asserted is.    *)
LEMMA ChecksAssertions ==
  ASSUME BetweenCalls
  PROVE  Consistent(AllFrames) <=> Consistent(AssertedNow)
<1>1. /\ AssertedNow = {MeaningOfTerm(t) : t \in AllFrames}
      /\ \A t \in AllFrames : IsTerm(t)
  BY FramesMean
<1>2. \A x, y \in UNION {t.over : t \in AllFrames} : x[1] = y[1] => x = y
  BY VariablesApart DEF BetweenCalls
<1>3. PICK T : T = AllFrames
  OBVIOUS
<1>4. (\A t \in T : IsTerm(t)) /\ \A x, y \in UNION {t.over : t \in T} : x[1] = y[1] => x = y
  BY <1>1, <1>2, <1>3
<1>5. Consistent(T) <=> Consistent({MeaningOfTerm(t) : t \in T})
  BY <1>4, SameConsistency
<1> QED
  BY <1>1, <1>3, <1>5

-----------------------------------------------------------------------------
(* The unsat core, by positions.                                           *)

IsAscending(s) == \A i, j \in DOMAIN s : i < j => s[i] < s[j]

(* Numbers can be put in order, *)
LEMMA InOrder ==
  ASSUME NEW n \in Nat, NEW S \in SUBSET (1 .. n)
  PROVE  /\ IsFiniteSet(S)
         /\ \E s \in [1 .. Cardinality(S) -> S] : IsAscending(s)
<1>1. IsFiniteSet(1 .. n)
  BY FS_Interval
<1>2. ASSUME NEW T \in SUBSET (1 .. n)
      PROVE  IsFiniteSet(T)
  BY <1>1, FS_Subset
<1> DEFINE Listed(T) == \E s \in [1 .. Cardinality(T) -> T] : IsAscending(s)
           N == {k \in Nat : k <= n => \A T \in SUBSET (1 .. k) : IsFiniteSet(T) /\ Listed(T)}
<1>3. 0 \in N
  <2>1. ASSUME NEW T \in SUBSET (1 .. 0)
        PROVE  IsFiniteSet(T) /\ Listed(T)
    <3>1. T = {}
      OBVIOUS
    <3>2. Cardinality(T) = 0 /\ IsFiniteSet(T)
      BY <3>1, FS_EmptySet
    <3>3. PICK s : s = [i \in 1 .. 0 |-> i]
      OBVIOUS
    <3>4. s \in [1 .. 0 -> T] /\ IsAscending(s)
      BY <3>1, <3>3 DEF IsAscending
    <3> QED
      BY <3>2, <3>4
  <2> QED
    BY <2>1
<1>4. ASSUME NEW k \in N
      PROVE  k + 1 \in N
  <2>0. k \in Nat
    OBVIOUS
  <2> SUFFICES ASSUME k + 1 <= n, NEW T \in SUBSET (1 .. k + 1)
               PROVE  IsFiniteSet(T) /\ Listed(T)
    BY <2>0
  <2>1. \A U \in SUBSET (1 .. k) : IsFiniteSet(U) /\ Listed(U)
    BY <2>0
  <2>2. CASE k + 1 \notin T
    <3>1. T \in SUBSET (1 .. k)
      BY <2>0, <2>2
    <3> QED
      BY <2>1, <3>1
  <2>3. CASE k + 1 \in T
    <3>1. PICK U : U = T \ {k + 1}
      OBVIOUS
    <3>2. U \in SUBSET (1 .. k) /\ T = U \union {k + 1} /\ k + 1 \notin U
      BY <2>0, <2>3, <3>1
    <3>3. IsFiniteSet(U) /\ Listed(U)
      BY <2>1, <3>2
    <3>4. PICK c \in Nat : c = Cardinality(U)
      BY <3>3, FS_CardinalityType
    <3>5. IsFiniteSet(T) /\ Cardinality(T) = c + 1
      BY <3>2, <3>3, <3>4, FS_AddElement
    <3>6. PICK s \in [1 .. c -> U] : IsAscending(s)
      BY <3>3, <3>4
    <3>7. PICK t : t = [i \in 1 .. c + 1 |-> IF i = c + 1 THEN k + 1 ELSE s[i]]
      OBVIOUS
    <3>8. t \in [1 .. c + 1 -> T]
      BY <3>2, <3>4, <3>6, <3>7
    <3>9. ASSUME NEW i \in 1 .. c + 1, NEW j \in 1 .. c + 1, i < j
          PROVE  t[i] < t[j]
      <4>1. i \in 1 .. c /\ t[i] = s[i] /\ s[i] \in 1 .. k
        <5>1. i \in 1 .. c /\ i # c + 1
          BY <3>9
        <5>2. t[i] = s[i]
          BY <3>7, <5>1
        <5>3. s[i] \in U
          BY <3>6, <5>1
        <5> QED
          BY <3>2, <5>1, <5>2, <5>3
      <4>2. CASE j = c + 1
        <5>1. t[j] = k + 1
          BY <3>7, <4>2
        <5> QED
          BY <2>0, <4>1, <5>1
      <4>3. CASE j # c + 1
        <5>1. j \in 1 .. c /\ t[j] = s[j]
          BY <3>4, <3>7, <4>3
        <5> QED
          BY <3>6, <3>9, <4>1, <5>1 DEF IsAscending
      <4> QED
        BY <4>2, <4>3
    <3>10. IsAscending(t)
      BY <3>8, <3>9 DEF IsAscending
    <3> QED
      BY <3>5, <3>8, <3>10
  <2> QED
    BY <2>2, <2>3
<1>5. N = Nat
  <2>1. N \in SUBSET Nat
    OBVIOUS
  <2> HIDE DEF N
  <2> QED
    BY <1>3, <1>4, <2>1, NumberInduction
<1>6. n \in N
  BY <1>5
<1> QED
  BY <1>6

(* and none is left out. *)
LEMMA AllInOrder ==
  ASSUME NEW n \in Nat, NEW S \in SUBSET (1 .. n),
         NEW s \in [1 .. Cardinality(S) -> S], IsAscending(s)
  PROVE  /\ Cardinality(S) \in Nat
         /\ {s[i] : i \in 1 .. Cardinality(S)} = S
<1>1. IsFiniteSet(S)
  BY InOrder
<1>2. PICK c \in Nat : c = Cardinality(S)
  BY <1>1, FS_CardinalityType
<1>3. PICK I : I = 1 .. c
  OBVIOUS
<1>4. IsFiniteSet(I) /\ Cardinality(I) = c
  BY <1>2, <1>3, FS_Interval
<1>5. s \in [I -> S]
  BY <1>2, <1>3
<1>6. \A i, j \in I : s[i] = s[j] => i = j
  <2> SUFFICES ASSUME NEW i \in I, NEW j \in I, i < j
               PROVE  s[i] # s[j]
    BY <1>2, <1>3
  <2>1. s[i] < s[j] /\ s[i] \in 1 .. n /\ s[j] \in 1 .. n
    BY <1>5 DEF IsAscending
  <2> QED
    BY <2>1
<1>7. s \in Injection(I, S)
  BY <1>5, <1>6 DEF Injection, IsInjective
<1>8. s \in Surjection(I, S)
  BY <1>1, <1>2, <1>4, <1>7, FS_Injection
<1>9. {s[i] : i \in I} = S
  BY <1>5, <1>8 DEF Surjection
<1> QED
  BY <1>2, <1>3, <1>9

(* The positions of the first ones among what is in the core *)
FirstIn(props, core) ==
  {i \in DOMAIN props : props[i] \in core /\ \A j \in 1 .. i - 1 : props[j] # props[i]}

LEMMA StoredCoreIs ==
  ASSUME NEW n \in Nat, NEW props, DOMAIN props = 1 .. n, NEW core, NEW room \in Nat,
         NEW stored, stored = StoredCore(props, core, room)
  PROVE  /\ Len(stored) \in Nat /\ Len(stored) <= room /\ DOMAIN stored = 1 .. Len(stored)
         /\ \A i \in DOMAIN stored : stored[i] \in 1 .. n
         /\ IsAscending(stored)
         /\ room >= n => {stored[i] : i \in DOMAIN stored} = FirstIn(props, core)
<1>1. PICK due : due = FirstIn(props, core)
  OBVIOUS
<1>2. due \in SUBSET (1 .. n)
  BY <1>1 DEF FirstIn
<1>3. IsFiniteSet(1 .. n) /\ Cardinality(1 .. n) = n
  BY FS_Interval
<1>4. PICK N : N = 1 .. n
  OBVIOUS
<1>5. Cardinality(due) <= n /\ Cardinality(due) \in Nat
  <2>1. IsFiniteSet(N) /\ Cardinality(N) = n /\ due \in SUBSET N
    BY <1>2, <1>3, <1>4
  <2>2. IsFiniteSet(due) /\ Cardinality(due) <= Cardinality(N)
    BY <2>1, FS_Subset
  <2> QED
    BY <2>1, <2>2, FS_CardinalityType
<1>6. PICK c \in Nat : c = Cardinality(due)
  BY <1>5
<1>7. \E s \in [1 .. c -> due] : IsAscending(s)
  BY <1>2, <1>6, InOrder
<1>8. PICK ordered : ordered = CHOOSE s \in [1 .. c -> due] : IsAscending(s)
  OBVIOUS
<1>9. ordered \in [1 .. c -> due] /\ IsAscending(ordered)
  BY <1>7, <1>8
<1>10. {ordered[i] : i \in 1 .. c} = due
  BY <1>2, <1>6, <1>9, AllInOrder
<1>11. ordered \in Seq(1 .. n) /\ Len(ordered) = c
  <2>1. ordered \in [1 .. c -> 1 .. n]
    BY <1>2, <1>9
  <2> QED
    BY <2>1
<1>12. PICK k : k = IF room < c THEN room ELSE c
  OBVIOUS
<1>13. k \in 0 .. c /\ k <= room
  BY <1>12
<1>14. stored = SubSeq(ordered, c - k + 1, c)
  BY <1>1, <1>6, <1>8, <1>11, <1>12 DEF StoredCore, FirstIn, IsAscending
<1>15. /\ stored \in Seq(1 .. n) /\ Len(stored) = k
       /\ \A i \in 1 .. k : stored[i] = ordered[c - k + i]
  BY <1>11, <1>13, <1>14
<1>16. IsAscending(stored)
  <2> SUFFICES ASSUME NEW i \in 1 .. k, NEW j \in 1 .. k, i < j
               PROVE  stored[i] < stored[j]
    BY <1>13, <1>15 DEF IsAscending
  <2>1. PICK m, o : m = c - k + i /\ o = c - k + j
    OBVIOUS
  <2>2. m \in 1 .. c /\ o \in 1 .. c /\ m < o
    BY <1>13, <2>1
  <2>3. ordered[m] < ordered[o]
    BY <1>9, <2>2 DEF IsAscending
  <2> QED
    BY <1>15, <2>1, <2>3
<1>17. ASSUME room >= n
       PROVE  {stored[i] : i \in DOMAIN stored} = due
  <2>1. k = c
    BY <1>5, <1>6, <1>12, <1>17
  <2>2. DOMAIN stored = 1 .. c /\ \A i \in 1 .. c : stored[i] = ordered[i]
    BY <1>15, <2>1
  <2> QED
    BY <1>10, <2>2
<1>18. Len(stored) \in Nat /\ DOMAIN stored = 1 .. Len(stored) /\ \A i \in DOMAIN stored : stored[i] \in 1 .. n
  BY <1>15
<1> QED
  BY <1>1, <1>13, <1>15, <1>16, <1>17, <1>18

-----------------------------------------------------------------------------
(* Queries under assumptions.                                              *)

(* The assumptions that some of the propositions stand for *)
StandFor(assumptions, core) ==
  {Meaning[assumptions[i]] : i \in {j \in DOMAIN assumptions : Props(assumptions)[j] \in core}}

LEMMA NullIsNoSymbol == Null \notin Symbol
BY ExpressionsAssumption

LEMMA PropIs ==
  ASSUME NEW assumptions, NEW i \in DOMAIN assumptions
  PROVE  /\ IsSymbol(assumptions[i]) => Props(assumptions)[i] = Term[assumptions[i]]
         /\ ~IsSymbol(assumptions[i]) => Props(assumptions)[i] = Atom(<<Null, i>>)
BY DEF Props

LEMMA ImpliedHolds ==
  ASSUME BetweenCalls, NEW assumptions, \A i \in DOMAIN assumptions : assumptions[i] \in Addr,
         NEW M
  PROVE  (\A f \in Implied(assumptions) : Holds(M, f))
         <=> \A i \in DOMAIN assumptions :
               ~IsSymbol(assumptions[i]) /\ <<Null, i>> \in M => Holds(M, Term[assumptions[i]])
<1>1. ASSUME NEW i \in DOMAIN assumptions
      PROVE  Holds(M, Implication(Atom(<<Null, i>>), Term[assumptions[i]]))
             <=> (<<Null, i>> \in M => Holds(M, Term[assumptions[i]]))
  <2>1. PICK t, x : t = Term[assumptions[i]] /\ x = <<Null, i>>
    OBVIOUS
  <2>2. IsFormula(t)
    BY <2>1, TermsOfCalls DEF IsTerm
  <2>3. IsFormula(Atom(x))
    BY DEF Atom, IsFormula
  <2>4. Holds(M, Implication(Atom(x), t)) <=> (Holds(M, Atom(x)) => Holds(M, t))
    BY <2>2, <2>3, HoldsImplication
  <2> QED
    BY <2>1, <2>4, HoldsAtom
<1> QED
  BY <1>1 DEF Implied

(* The terms asserted, the propositions defined, and some of them, are     *)
(* consistent if what was asserted is, with what they stand for.           *)
LEMMA AssumesAssumptions ==
  ASSUME BetweenCalls, backend \in {"z3", "msat"}, NEW assumptions,
         \A i \in DOMAIN assumptions : assumptions[i] \in Addr,
         NEW core \in SUBSET ToSet(Props(assumptions))
  PROVE  Consistent((AllFrames \union Implied(assumptions)) \union core)
         <=> Consistent(AssertedNow \union StandFor(assumptions, core))
<1>1. PICK D : D = {j \in DOMAIN assumptions : Props(assumptions)[j] \in core}
  OBVIOUS
<1>2. /\ AssertedNow = {MeaningOfTerm(t) : t \in AllFrames}
      /\ \A t \in AllFrames : IsTerm(t) /\ t.over \subseteq PlainVariables
  BY FramesMean
<1>3. \A i \in DOMAIN assumptions :
        /\ IsTerm(Term[assumptions[i]]) /\ Term[assumptions[i]].over \subseteq PlainVariables
        /\ MeaningOfTerm(Term[assumptions[i]]) = Meaning[assumptions[i]]
  BY TermsOfCalls
<1>4. \A p \in core : \E i \in D : p = Props(assumptions)[i]
  <2>1. DOMAIN Props(assumptions) = DOMAIN assumptions
    BY DEF Props
  <2> QED
    BY <1>1, <2>1 DEF ToSet
<1>5. PICK F, G : /\ F = (AllFrames \union Implied(assumptions)) \union core
                  /\ G = AssertedNow \union StandFor(assumptions, core)
  OBVIOUS
<1>6. ASSUME NEW N, \A f \in F : Holds(N, f)
      PROVE  \E M : \A g \in G : Holds(M, g)
  <2>1. PICK M : M = {x[1] : x \in PlainVariables \intersect N}
    OBVIOUS
  <2>2. ASSUME NEW t, IsTerm(t), t.over \subseteq PlainVariables
        PROVE  Holds(N, t) <=> Holds(M, MeaningOfTerm(t))
    <3>1. \A x \in PlainVariables : x \in N <=> x[1] \in M
      BY <2>1 DEF PlainVariables
    <3>2. \A x \in t.over : x \in N <=> x[1] \in M
      BY <2>2, <3>1
    <3> QED
      BY <2>2, <3>2, ByMeaning
  <2>3. ASSUME NEW g \in AssertedNow
        PROVE  Holds(M, g)
    <3>1. PICK t \in AllFrames : g = MeaningOfTerm(t)
      BY <1>2
    <3> QED
      BY <1>2, <1>5, <1>6, <2>2, <3>1
  <2>4. ASSUME NEW i \in D
        PROVE  Holds(M, Meaning[assumptions[i]])
    <3>1. i \in DOMAIN assumptions /\ Props(assumptions)[i] \in core
      BY <1>1
    <3>2. Holds(N, Props(assumptions)[i])
      BY <1>5, <1>6, <3>1
    <3>3. Holds(N, Term[assumptions[i]])
      <4>1. CASE IsSymbol(assumptions[i])
        BY <3>1, <3>2, <4>1, PropIs
      <4>2. CASE ~IsSymbol(assumptions[i])
        <5>1. <<Null, i>> \in N
          BY <3>1, <3>2, <4>2, PropIs, HoldsAtom
        <5>2. \A f \in Implied(assumptions) : Holds(N, f)
          BY <1>5, <1>6
        <5> QED
          BY <3>1, <4>2, <5>1, <5>2, ImpliedHolds
      <4> QED
        BY <4>1, <4>2
    <3> QED
      BY <1>3, <2>2, <3>1, <3>3
  <2>5. \A g \in StandFor(assumptions, core) : Holds(M, g)
    BY <1>1, <2>4 DEF StandFor
  <2> QED
    BY <1>5, <2>3, <2>5
<1>7. ASSUME NEW M, \A g \in G : Holds(M, g)
      PROVE  \E N : \A f \in F : Holds(N, f)
  <2>1. PICK N : N = {x \in PlainVariables : x[1] \in M} \union {<<Null, i>> : i \in D}
    OBVIOUS
  <2>2. \A i : <<Null, i>> \in N <=> i \in D
    <3>1. \A i : <<Null, i>> \notin PlainVariables
      BY NullIsNoSymbol DEF PlainVariables
    <3> QED
      BY <2>1, <3>1
  <2>3. ASSUME NEW t, IsTerm(t), t.over \subseteq PlainVariables
        PROVE  Holds(N, t) <=> Holds(M, MeaningOfTerm(t))
    <3>1. \A x \in PlainVariables : x \in N <=> x[1] \in M
      <4>1. \A x \in PlainVariables : x[1] # Null
        BY NullIsNoSymbol DEF PlainVariables
      <4>2. \A x \in PlainVariables : x \notin {<<Null, i>> : i \in D}
        BY <4>1
      <4> QED
        BY <2>1, <4>2
    <3>2. \A x \in t.over : x \in N <=> x[1] \in M
      BY <2>3, <3>1
    <3> QED
      BY <2>3, <3>2, ByMeaning
  <2>4. ASSUME NEW t \in AllFrames
        PROVE  Holds(N, t)
    <3>1. Holds(M, MeaningOfTerm(t))
      BY <1>2, <1>5, <1>7
    <3> QED
      BY <1>2, <2>3, <3>1
  <2>5. ASSUME NEW i \in D
        PROVE  i \in DOMAIN assumptions /\ Holds(N, Term[assumptions[i]])
    <3>1. i \in DOMAIN assumptions
      BY <1>1
    <3>2. Meaning[assumptions[i]] \in G
      BY <1>1, <1>5 DEF StandFor
    <3> QED
      BY <1>3, <1>7, <2>3, <3>1, <3>2
  <2>6. \A f \in Implied(assumptions) : Holds(N, f)
    BY <2>2, <2>5, ImpliedHolds
  <2>7. ASSUME NEW p \in core
        PROVE  Holds(N, p)
    <3>1. PICK i \in D : p = Props(assumptions)[i]
      BY <1>4
    <3>2. i \in DOMAIN assumptions /\ Holds(N, Term[assumptions[i]]) /\ <<Null, i>> \in N
      BY <2>2, <2>5
    <3> QED
      BY <3>1, <3>2, PropIs, HoldsAtom
  <2> QED
    BY <1>5, <2>4, <2>6, <2>7
<1>8. /\ Consistent(F) <=> \E N : \A f \in F : Holds(N, f)
      /\ Consistent(G) <=> \E M : \A g \in G : Holds(M, g)
  BY ConsistentIs
<1> QED
  BY <1>5, <1>6, <1>7, <1>8

(* Equal propositions stand for the same. *)
LEMMA PropsApart ==
  ASSUME BetweenCalls, backend \in {"z3", "msat"}, NEW assumptions,
         \A i \in DOMAIN assumptions : assumptions[i] \in Addr,
         NEW i \in DOMAIN assumptions, NEW j \in DOMAIN assumptions,
         Props(assumptions)[i] = Props(assumptions)[j]
  PROVE  Meaning[assumptions[i]] = Meaning[assumptions[j]]
<1>1. \A k \in DOMAIN assumptions :
        /\ MeaningOfTerm(Term[assumptions[k]]) = Meaning[assumptions[k]]
        /\ Term[assumptions[k]].over \subseteq PlainVariables
  BY TermsOfCalls
<1>2. \A k : Atom(<<Null, k>>).over = {<<Null, k>>} /\ <<Null, k>> \notin PlainVariables
  BY NullIsNoSymbol DEF Atom, PlainVariables
<1>3. CASE IsSymbol(assumptions[i]) /\ IsSymbol(assumptions[j])
  <2>1. Term[assumptions[i]] = Term[assumptions[j]]
    BY <1>3, PropIs
  <2> QED
    BY <1>1, <2>1
<1>4. CASE ~IsSymbol(assumptions[i]) /\ ~IsSymbol(assumptions[j])
  <2>1. Atom(<<Null, i>>).over = Atom(<<Null, j>>).over
    BY <1>4, PropIs
  <2>2. <<Null, i>> = <<Null, j>>
    BY <1>2, <2>1
  <2> QED
    BY <2>2
<1>5. ASSUME NEW m \in DOMAIN assumptions, NEW n \in DOMAIN assumptions,
             IsSymbol(assumptions[m]), ~IsSymbol(assumptions[n])
      PROVE  Props(assumptions)[m] # Props(assumptions)[n]
  <2>1. PICK t : t = Term[assumptions[m]]
    OBVIOUS
  <2>2. Props(assumptions)[m] = t /\ t.over \subseteq PlainVariables
    BY <1>1, <1>5, <2>1, PropIs
  <2>3. Props(assumptions)[n] = Atom(<<Null, n>>)
    BY <1>5, PropIs
  <2> QED
    BY <1>2, <2>2, <2>3
<1> QED
  BY <1>3, <1>4, <1>5

(* The first ones of a core stand for what all of it does. *)
LEMMA FirstStandFor ==
  ASSUME BetweenCalls, backend \in {"z3", "msat"}, NEW n \in Nat, NEW assumptions,
         DOMAIN assumptions = 1 .. n, \A i \in DOMAIN assumptions : assumptions[i] \in Addr,
         NEW core
  PROVE  StandFor(assumptions, core)
         = {Meaning[assumptions[i]] : i \in FirstIn(Props(assumptions), core)}
<1>1. DOMAIN Props(assumptions) = 1 .. n
  BY DEF Props
<1>2. ASSUME NEW i \in 1 .. n, Props(assumptions)[i] \in core
      PROVE  \E k \in FirstIn(Props(assumptions), core) :
               Meaning[assumptions[k]] = Meaning[assumptions[i]]
  <2>1. PICK K : K = {k \in 1 .. n : Props(assumptions)[k] = Props(assumptions)[i]}
    OBVIOUS
  <2>2. i \in K /\ K \in SUBSET (1 .. n)
    BY <2>1
  <2>3. PICK k \in K : \A m \in K : k <= m
    <3>1. K \in SUBSET Nat /\ K # {}
      BY <2>2
    <3> QED
      BY <3>1, LeastNumber
  <2>4. k \in 1 .. n /\ Props(assumptions)[k] = Props(assumptions)[i]
    BY <2>1
  <2>5. ASSUME NEW j \in 1 .. k - 1
        PROVE  Props(assumptions)[j] # Props(assumptions)[k]
    <3>1. j \in 1 .. n /\ ~(k <= j)
      BY <2>4
    <3> QED
      BY <2>1, <2>3, <2>4, <3>1
  <2>6. k \in FirstIn(Props(assumptions), core)
    BY <1>1, <1>2, <2>4, <2>5 DEF FirstIn
  <2>7. Meaning[assumptions[k]] = Meaning[assumptions[i]]
    BY <2>4, PropsApart
  <2> QED
    BY <2>6, <2>7
<1>3. \A i \in FirstIn(Props(assumptions), core) : i \in 1 .. n /\ Props(assumptions)[i] \in core
  BY <1>1 DEF FirstIn
<1> QED
  BY <1>2, <1>3 DEF StandFor

-----------------------------------------------------------------------------
(* The promise.                                                            *)

LEMMA FormulaIs ==
  ASSUME NEW V, NEW f
  PROVE  f \in FormulasOver(V)
         <=> IsFormula(f) /\ f.over \in SUBSET V /\ f.models \in SUBSET SUBSET f.over
<1>1. ASSUME f \in FormulasOver(V)
      PROVE  IsFormula(f) /\ f.over \in SUBSET V /\ f.models \in SUBSET SUBSET f.over
  <2>1. PICK U \in SUBSET V : f \in [over : {U}, models : SUBSET SUBSET U]
    BY <1>1 DEF FormulasOver
  <2> QED
    BY <2>1 DEF IsFormula
<1>2. ASSUME IsFormula(f), f.over \in SUBSET V, f.models \in SUBSET SUBSET f.over
      PROVE  f \in FormulasOver(V)
  <2>1. PICK U, m : U = f.over /\ m = f.models
    OBVIOUS
  <2>2. f = [over |-> U, models |-> m]
    BY <1>2, <2>1 DEF IsFormula
  <2>3. U \in SUBSET V /\ f \in [over : {U}, models : SUBSET SUBSET U]
    BY <1>2, <2>1, <2>2
  <2> QED
    BY <2>3 DEF FormulasOver
<1> QED
  BY <1>1, <1>2

(* What is asserted is a formula over symbols. *)
LEMMA MeaningsAreFormulas ==
  ASSUME HeapOK, WellFormed(heap), NEW b \in Addr
  PROVE  Meaning[b] \in FormulasOver(Symbol)
<1> DEFINE S == {a \in Addr : Meaning[a] \in FormulasOver(Symbol)}
<1>0. \A f : f \in FormulasOver(Symbol) =>
        /\ Negation(f) \in FormulasOver(Symbol)
        /\ \A g \in FormulasOver(Symbol) : Conjunction(f, g) \in FormulasOver(Symbol)
  <2>1. ASSUME NEW f \in FormulasOver(Symbol)
        PROVE  Negation(f) \in FormulasOver(Symbol)
    <3>1. IsFormula(f) /\ f.over \in SUBSET Symbol
      BY FormulaIs
    <3>2. PICK n : n = Negation(f)
      OBVIOUS
    <3>3. IsFormula(n) /\ n.over = f.over /\ n.models = (SUBSET f.over) \ f.models
      BY <3>1, <3>2, NegationIs
    <3>4. n.models \in SUBSET SUBSET n.over
      BY <3>3
    <3> QED
      BY <3>1, <3>2, <3>3, <3>4, FormulaIs
  <2>2. ASSUME NEW f \in FormulasOver(Symbol), NEW g \in FormulasOver(Symbol)
        PROVE  Conjunction(f, g) \in FormulasOver(Symbol)
    <3>1. f.over \in SUBSET Symbol /\ g.over \in SUBSET Symbol
      BY FormulaIs
    <3>2. PICK c : c = Conjunction(f, g)
      OBVIOUS
    <3>3. /\ IsFormula(c) /\ c.over = f.over \union g.over
          /\ c.models \in SUBSET SUBSET (f.over \union g.over)
      BY <3>2, ConjunctionIs
    <3>4. c.over \in SUBSET Symbol /\ c.models \in SUBSET SUBSET c.over
      BY <3>1, <3>3
    <3> QED
      BY <3>2, <3>3, <3>4, FormulaIs
  <2> QED
    BY <2>1, <2>2
<1>1. ASSUME NEW a \in Addr, \A i \in DOMAIN heap[a].args : heap[a].args[i] \in S
      PROVE  a \in S
  <2>1. Meaning[a] = MeaningBy(heap, Meaning, a)
    BY MeaningsAre, MeaningsNow
  <2>2. CASE heap[a].kind = "symbol"
    <3>1. PICK s : s = heap[a].name
      OBVIOUS
    <3>2. Meaning[a] = Atom(s) /\ s \in Symbol
      BY <2>1, <2>2, <3>1 DEF MeaningBy, HeapOK
    <3>3. Atom(s) = [over |-> {s}, models |-> {{s}}]
      BY DEF Atom
    <3>4. PICK c : c = Atom(s)
      OBVIOUS
    <3>5. IsFormula(c) /\ c.over = {s} /\ c.models = {{s}}
      BY <3>3, <3>4 DEF IsFormula
    <3>6. c.over \in SUBSET Symbol /\ c.models \in SUBSET SUBSET c.over
      BY <3>2, <3>5
    <3>7. c \in FormulasOver(Symbol)
      BY <3>5, <3>6, FormulaIs
    <3> QED
      BY <3>2, <3>4, <3>7
  <2>3. CASE heap[a].kind = "lnot"
    <3>1. DOMAIN heap[a].args = {1}
      BY <2>3, OperandsOf
    <3>2. Meaning[a] = Negation(Meaning[heap[a].args[1]])
      BY <2>1, <2>3 DEF MeaningBy
    <3> QED
      BY <1>0, <1>1, <3>1, <3>2
  <2>4. CASE heap[a].kind \in {"land", "lor"}
    <3>1. DOMAIN heap[a].args = {1, 2}
      BY <2>4, OperandsOf
    <3>2. PICK f, g : f = Meaning[heap[a].args[1]] /\ g = Meaning[heap[a].args[2]]
      OBVIOUS
    <3>3. f \in FormulasOver(Symbol) /\ g \in FormulasOver(Symbol)
      BY <1>1, <3>1, <3>2
    <3>4. Meaning[a] = Conjunction(f, g) \/ Meaning[a] = Disjunction(f, g)
      BY <2>1, <2>4, <3>2 DEF MeaningBy
    <3>5. Conjunction(f, g) \in FormulasOver(Symbol) /\ Disjunction(f, g) \in FormulasOver(Symbol)
      BY <1>0, <3>3 DEF Disjunction
    <3> QED
      BY <3>4, <3>5
  <2>5. CASE heap[a].kind = "none"
    <3>1. Meaning[a] = Nothing
      BY <2>1, <2>5 DEF MeaningBy
    <3>2. IsFormula(Nothing) /\ Nothing.over = {} /\ Nothing.models = {}
      BY DEF Nothing, IsFormula
    <3> QED
      BY <3>1, <3>2, FormulaIs
  <2> QED
    BY <2>2, <2>3, <2>4, <2>5, OperandsOf DEF Kinds
<1>2. S \in SUBSET Addr
  OBVIOUS
<1>3. S = Addr
  <2> HIDE DEF S
  <2> QED
    BY <1>1, <1>2, ExpressionInduction
<1> QED
  BY <1>3

LEMMA MeantIs ==
  ASSUME Invariant, StackInStep
  PROVE  /\ \E B : meant \in Seq(Seq(B))
         /\ Len(meant) = Len(marks) + 1 /\ Len(marks) \in Nat /\ marks \in Seq(Nat)
<1>1. PICK lv : LevelsAre(lv)
  BY DEF StackInStep, InLevels
<1>2. /\ lv \in Seq(Seq(Addr)) /\ Len(lv) = Len(marks) + 1
      /\ Len(marks) \in Nat /\ marks \in Seq(Nat)
  BY <1>1, LevelsType
<1>3. PICK f, B : f = Meaning /\ B = {f[a] : a \in Addr}
  OBVIOUS
<1>4. meant = EachLevel(f, lv)
  BY <1>1, <1>3 DEF LevelsAre
<1>5. meant \in Seq(Seq(B)) /\ Len(meant) = Len(lv)
  BY <1>2, <1>3, <1>4, EachLevelIs
<1> QED
  BY <1>2, <1>5

LEMMA PromiseOps ==
  /\ Promise!Asserted = AssertedNow
  /\ \A F : Promise!Consistent(F) <=> Consistent(F)
  /\ \A s : Promise!ToSet(s) = ToSet(s)
  /\ Promise!None = NoAnswer
  /\ Promise!vars = <<meant, answer>>
  /\ \A s : Promise!Last(s) = s[Len(s)]
  /\ \A s : Promise!Front(s) = Front(s)
<1>1. \A s : Promise!ToSet(s) = ToSet(s)
  BY DEF Promise!ToSet, ToSet
<1>2. Promise!Asserted = AssertedNow
  BY <1>1 DEF Promise!Asserted, AssertedNow
<1>3. \A F : Promise!Consistent(F) <=> Consistent(F)
  BY DEF Promise!Consistent, Consistent
<1> QED
  BY <1>1, <1>2, <1>3 DEF Promise!None, NoAnswer, Promise!vars, Promise!Last, Promise!Front, Front

(* What DeduceSolver deduces from the assertions is right. *)
DeductionRight ==
  backend = "deduce" =>
    \/ Deduced(assertions) = "unknown"
    \/ Deduced(assertions) = "unsat" /\ ~Consistent(AssertedNow)

Keeping == Invariant /\ StackInStep /\ PlainCache

LEMMA NothingAsserted ==
  ASSUME Keeping, assertions = << >>
  PROVE  AssertedNow = {}
<1>1. PICK lv : LevelsAre(lv)
  BY DEF Keeping, StackInStep, InLevels
<1>2. /\ lv \in Seq(Seq(Addr)) /\ Len(lv) \in Nat /\ Len(lv) >= 1
      /\ FlattenSeq(lv) = assertions
  BY <1>1, LevelsType DEF Keeping
<1>3. ASSUME NEW l \in 1 .. Len(lv), NEW i \in DOMAIN lv[l]
      PROVE  FALSE
  <2>1. \E j \in DOMAIN FlattenSeq(lv) : FlattenSeq(lv)[j] = lv[l][i]
    BY <1>2, FlattenHas
  <2>2. DOMAIN FlattenSeq(lv) = {}
    BY <1>2
  <2> QED
    BY <2>1, <2>2
<1>4. PICK f, B : f = Meaning /\ B = {f[a] : a \in Addr}
  OBVIOUS
<1>5. meant = EachLevel(f, lv)
  BY <1>1, <1>4 DEF LevelsAre
<1>6. DOMAIN meant = 1 .. Len(lv) /\ \A l \in 1 .. Len(lv) : DOMAIN meant[l] = DOMAIN lv[l]
  BY <1>2, <1>5 DEF EachLevel, Each
<1>7. ASSUME NEW l \in DOMAIN meant
      PROVE  ToSet(meant[l]) = {}
  BY <1>3, <1>6 DEF ToSet
<1> QED
  BY <1>7 DEF AssertedNow

LEMMA PromisePush ==
  ASSUME Keeping, push
  PROVE  Promise!Push
BY PromiseOps DEF push, Calls, Promise!Push

LEMMA PromisePop ==
  ASSUME Keeping, pop
  PROVE  Promise!Pop
<1>1. /\ answer = NoAnswer /\ answer' = answer /\ marks # << >> /\ meant' = Front(meant)
  BY DEF pop, Calls
<1>2. Len(meant) = Len(marks) + 1 /\ Len(marks) \in Nat /\ marks \in Seq(Nat)
  BY MeantIs DEF Keeping
<1>3. Len(meant) > 1
  BY <1>1, <1>2
<1> QED
  BY <1>1, <1>3, PromiseOps DEF Promise!Pop

LEMMA PromiseReset ==
  ASSUME reset \/ Destroy
  PROVE  Promise!Reset
BY PromiseOps DEF reset, Destroy, Calls, Promise!Reset

LEMMA PromiseAdd ==
  ASSUME Keeping, NEW y \in Addr, Asserted(y), answer = NoAnswer, answer' = answer
  PROVE  Promise!Add
<1>1. PICK m, n : m = Meaning[y] /\ n = Len(meant)
  OBVIOUS
<1>2. meant' = [meant EXCEPT ![n] = Append(@, m)]
  BY <1>1 DEF Asserted
<1>3. m \in FormulasOver(Symbol)
  BY <1>1, MeaningsAreFormulas DEF Keeping, Invariant, Memory, StackInStep
<1>4. PICK B : meant \in Seq(Seq(B))
  BY MeantIs DEF Keeping
<1>5. n \in Nat /\ n >= 1
  BY <1>1, MeantIs DEF Keeping
<1>6. PICK C : C = B \union {m}
  OBVIOUS
<1>7. meant \in Seq(Seq(C)) /\ meant[n] \in Seq(C) /\ m \in C
  <2>1. Seq(B) \subseteq Seq(C)
    BY <1>6
  <2>2. meant[n] \in Seq(B)
    BY <1>1, <1>4, <1>5
  <2> QED
    BY <1>4, <1>6, <2>1, <2>2
<1>8. PICK top : top = Append(meant[n], m)
  OBVIOUS
<1>9. top \in Seq(C) /\ Len(top) = Len(meant[n]) + 1
  BY <1>7, <1>8
<1>10. meant' = [meant EXCEPT ![n] = top]
  BY <1>2, <1>8
<1>11. Len(meant') = n /\ meant'[n] = top
  BY <1>1, <1>5, <1>7, <1>9, <1>10
<1>12. /\ Promise!Last(meant') = top /\ Promise!Last(meant) = meant[n]
  BY <1>1, <1>11, PromiseOps
<1>13. meant' = [meant EXCEPT ![Len(meant)] = Append(@, m)]
  BY <1>1, <1>2
<1> QED
  BY <1>1, <1>3, <1>9, <1>11, <1>12, <1>13, PromiseOps DEF Promise!Add

(* A query that has no answer *)
LEMMA PromiseUnknown ==
  ASSUME Keeping, answer' = Unknown, UNCHANGED meant
  PROVE  Promise!Ask
<1>1. /\ answer'.verdict = "unknown" /\ answer'.assumed = << >> /\ answer'.core = << >>
  BY DEF Unknown, NoAnswer
<1>2. MaxAssumptions \in Nat
  BY SolverAssumption
<1>3. Len(answer'.assumed) <= MaxAssumptions /\ Promise!ToSet(answer'.assumed) = {}
  BY <1>1, <1>2, PromiseOps DEF ToSet
<1> QED
  BY <1>1, <1>3 DEF Promise!Ask

(* check() *)
LEMMA PromiseCheck ==
  ASSUME Keeping, DeductionRight, check
  PROVE  Promise!Ask
<1>1. /\ Idle /\ registered /\ UNCHANGED meant
      /\ \E verdict \in IF assertions = << >> THEN {"sat"} ELSE __check :
           answer' = [NoAnswer EXCEPT !.verdict = verdict]
  BY DEF check, Calls
<1>2. PICK verdict : /\ verdict \in IF assertions = << >> THEN {"sat"} ELSE __check
                     /\ answer' = [NoAnswer EXCEPT !.verdict = verdict]
  BY <1>1
<1>3. /\ answer'.verdict = verdict /\ answer'.assumed = << >> /\ answer'.core = << >>
      /\ answer'.room = 0
  BY <1>2 DEF NoAnswer
<1>4. MaxAssumptions \in Nat
  BY SolverAssumption
<1>5. Len(answer'.assumed) <= MaxAssumptions /\ Promise!ToSet(answer'.assumed) = {}
  BY <1>3, <1>4, PromiseOps DEF ToSet
<1>6. /\ verdict \in {"sat", "unsat", "unknown"}
      /\ verdict = "sat" => Consistent(AssertedNow)
      /\ verdict = "unsat" => ~Consistent(AssertedNow)
  <2>1. CASE assertions = << >>
    <3>1. AssertedNow = {} /\ verdict = "sat"
      BY <1>2, <2>1, NothingAsserted
    <3>2. Consistent({})
      BY ConsistentIs
    <3> QED
      BY <3>1, <3>2
  <2>2. CASE assertions # << >> /\ Keeps
    <3>1. verdict \in Verdicts(AllFrames)
      BY <1>2, <2>2 DEF __check
    <3>2. Consistent(AllFrames) <=> Consistent(AssertedNow)
      BY <1>1, <2>2, ChecksAssertions DEF BetweenCalls, Keeping
    <3> QED
      BY <3>1, <3>2 DEF Verdicts
  <2>3. CASE assertions # << >> /\ ~Keeps
    <3>1. verdict = Deduced(assertions) /\ backend = "deduce"
      BY <1>2, <2>3 DEF __check, Keeps
    <3> QED
      BY <3>1 DEF DeductionRight
  <2> QED
    BY <2>1, <2>2, <2>3
<1>7. verdict = "unsat" =>
        /\ ~Consistent(AssertedNow \union {})
        /\ Promise!CoreIsRight(answer'.core, answer'.assumed, answer'.room)
  <2> SUFFICES ASSUME verdict = "unsat"
               PROVE  Promise!CoreIsRight(<< >>, << >>, 0)
    BY <1>3, <1>6
  <2>1. Len(<< >>) = 0 /\ DOMAIN << >> = {}
    OBVIOUS
  <2>2. {<< >>[<< >>[i]] : i \in DOMAIN << >>} = {}
    BY <2>1
  <2>3. ~Consistent(AssertedNow \union {<< >>[<< >>[i]] : i \in DOMAIN << >>})
    BY <1>6, <2>2
  <2> QED
    BY <2>1, <2>3, PromiseOps DEF Promise!CoreIsRight
<1>8. AssertedNow \union {} = AssertedNow
  OBVIOUS
<1> QED
  BY <1>1, <1>3, <1>5, <1>6, <1>7, <1>8, PromiseOps DEF Promise!Ask

(* check_assumptions(), where it is supported *)
LEMMA PromiseAnswers ==
  ASSUME Keeping, Idle, registered, backend \in {"z3", "msat"}, UNCHANGED meant,
         NEW n \in Nat, n <= MaxAssumptions, NEW assumptions, DOMAIN assumptions = 1 .. n,
         \A i \in DOMAIN assumptions : assumptions[i] \in Addr,
         NEW room \in Nat, answer' \in Answers(assumptions, Implied(assumptions), room)
  PROVE  Promise!Ask
<1>0. BetweenCalls
  BY DEF BetweenCalls, Keeping, Keeps
<1>1. PICK props, given, assumed :
        /\ props = Props(assumptions) /\ given = AllFrames \union Implied(assumptions)
        /\ assumed = [i \in DOMAIN assumptions |-> Meaning[assumptions[i]]]
  OBVIOUS
<1>2. DOMAIN props = 1 .. n /\ DOMAIN assumed = 1 .. n
  BY <1>1 DEF Props
<1>3. \A core \in SUBSET ToSet(props) :
        Consistent(given \union core) <=> Consistent(AssertedNow \union StandFor(assumptions, core))
  BY <1>0, <1>1, AssumesAssumptions
<1>4. assumed \in Seq(FormulasOver(Symbol)) /\ Len(assumed) = n
  <2>1. \A i \in 1 .. n : assumed[i] \in FormulasOver(Symbol)
    BY <1>1, MeaningsAreFormulas DEF Keeping, Invariant, Memory, StackInStep
  <2> QED
    BY <1>1, <1>2, <2>1
<1>5. StandFor(assumptions, ToSet(props)) = ToSet(assumed)
  BY <1>1, <1>2 DEF StandFor, ToSet
<1>6. ToSet(assumed) \subseteq FormulasOver(Symbol)
  BY <1>4 DEF ToSet
<1>7. Consistent(given \union ToSet(props)) <=> Consistent(AssertedNow \union ToSet(assumed))
  BY <1>3, <1>5
<1>8. CASE answer' = Unknown
  BY <1>8, PromiseUnknown
<1>9. CASE /\ Consistent(given \union ToSet(props))
           /\ answer' = [NoAnswer EXCEPT !.verdict = "sat", !.assumed = assumed]
  <2>1. answer'.verdict = "sat" /\ answer'.assumed = assumed /\ answer'.core = << >>
    BY <1>9 DEF NoAnswer
  <2> QED
    BY <1>4, <1>6, <1>7, <1>9, <2>1, PromiseOps DEF Promise!Ask
<1>10. ASSUME ~Consistent(given \union ToSet(props)),
              NEW core \in SUBSET ToSet(props), ~Consistent(given \union core),
              answer' = [verdict |-> "unsat", assumed |-> assumed, room |-> room,
                         core |-> StoredCore(props, core, room)]
       PROVE  Promise!Ask
  <2>1. PICK stored : stored = StoredCore(props, core, room)
    OBVIOUS
  <2>2. /\ answer'.verdict = "unsat" /\ answer'.assumed = assumed /\ answer'.room = room
        /\ answer'.core = stored
    BY <1>10, <2>1
  <2>3. /\ Len(stored) \in Nat /\ Len(stored) <= room /\ DOMAIN stored = 1 .. Len(stored)
        /\ \A i \in DOMAIN stored : stored[i] \in 1 .. n
        /\ IsAscending(stored)
        /\ room >= n => {stored[i] : i \in DOMAIN stored} = FirstIn(props, core)
    BY <1>2, <2>1, StoredCoreIs
  <2>4. ASSUME room >= n
        PROVE  ~Consistent(AssertedNow \union {assumed[stored[i]] : i \in DOMAIN stored})
    <3>1. ~Consistent(AssertedNow \union StandFor(assumptions, core))
      BY <1>3, <1>10
    <3>2. StandFor(assumptions, core) = {Meaning[assumptions[i]] : i \in FirstIn(props, core)}
      BY <1>0, <1>1, FirstStandFor
    <3>3. PICK S : S = {stored[i] : i \in DOMAIN stored}
      OBVIOUS
    <3>4. S = FirstIn(props, core)
      BY <2>3, <2>4, <3>3
    <3>5. \A i \in S : i \in 1 .. n
      BY <2>3, <3>3
    <3>6. {assumed[stored[i]] : i \in DOMAIN stored} = {assumed[i] : i \in S}
      BY <3>3
    <3>7. {assumed[i] : i \in S} = {Meaning[assumptions[i]] : i \in S}
      BY <1>1, <1>2, <3>5
    <3> QED
      BY <3>1, <3>2, <3>4, <3>6, <3>7
  <2>5. Promise!CoreIsRight(stored, assumed, room)
    <3>1. \A i, j \in DOMAIN stored : i < j => stored[i] < stored[j]
      BY <2>3 DEF IsAscending
    <3> QED
      BY <1>2, <1>4, <2>3, <2>4, <3>1, PromiseOps DEF Promise!CoreIsRight
  <2> QED
    BY <1>4, <1>6, <1>7, <1>10, <2>2, <2>5, PromiseOps DEF Promise!Ask
<1> QED
  <2>1. \/ answer' = Unknown
        \/ /\ Consistent(given \union ToSet(props))
           /\ answer' = [NoAnswer EXCEPT !.verdict = "sat", !.assumed = assumed]
        \/ /\ ~Consistent(given \union ToSet(props))
           /\ \E core \in SUBSET ToSet(props) :
                /\ ~Consistent(given \union core)
                /\ answer' = [verdict |-> "unsat", assumed |-> assumed, room |-> room,
                              core |-> StoredCore(props, core, room)]
    BY <1>1 DEF Answers
  <2> QED
    BY <1>8, <1>9, <1>10, <2>1

LEMMA PromiseAssumptions ==
  ASSUME Keeping, OnlySymbols,
         NEW hs \in BoundedSeq({h \in Handle : handle[h] # Null}, MaxAssumptions),
         NEW room \in 0 .. MaxAssumptions,
         NEW assumptions, assumptions = [i \in DOMAIN hs |-> handle[hs[i]]],
         check_assumptions(assumptions, room)
  PROVE  Promise!Ask
<1>1. MaxAssumptions \in Nat
  BY SolverAssumption
<1>2. PICK n \in 0 .. MaxAssumptions : hs \in [1 .. n -> {h \in Handle : handle[h] # Null}]
  BY <1>1 DEF BoundedSeq, SeqOf
<1>3. n \in Nat /\ n <= MaxAssumptions /\ DOMAIN assumptions = 1 .. n /\ room \in Nat
  BY <1>1, <1>2
<1>4. \A i \in DOMAIN assumptions : assumptions[i] \in Addr
  <2>1. \A a \in ToSet(assumptions) : a \in Addr
    BY AssumedLive DEF Keeping, Invariant
  <2> QED
    BY <2>1 DEF ToSet
<1>5. Idle /\ registered /\ UNCHANGED meant
  BY DEF check_assumptions, Calls
<1>6. CASE backend = "z3"
  <2>1. answer' \in Answers(assumptions, Implied(assumptions), room)
    BY <1>6 DEF check_assumptions, check_z3
  <2> QED
    BY <1>3, <1>4, <1>5, <1>6, <2>1, PromiseAnswers
<1>7. CASE backend = "msat"
  <2>1. check_msat(assumptions, room)
    BY <1>7 DEF check_assumptions
  <2>2. \A i \in DOMAIN assumptions : IsSymbol(assumptions[i])
    <3>1. ~AssumesAnyFormula
      BY <1>7 DEF Keeping, Invariant, StackOK, OnlySymbols
    <3> QED
      BY <2>1, <3>1 DEF check_msat
  <2>3. Equivalences(assumptions) = {} /\ Implied(assumptions) = {}
    BY <2>2 DEF Equivalences, Implied
  <2>4. answer' \in Answers(assumptions, Implied(assumptions), room)
    BY <2>1, <2>3 DEF check_msat
  <2> QED
    BY <1>3, <1>4, <1>5, <1>7, <2>4, PromiseAnswers
<1>8. CASE backend \notin {"z3", "msat"}
  <2>1. answer' = Unknown
    BY <1>8 DEF check_assumptions, check_unsupported
  <2> QED
    BY <1>5, <2>1, PromiseUnknown
<1> QED
  BY <1>6, <1>7, <1>8

LEMMA PromiseNext ==
  ASSUME Keeping, OnlySymbols, DeductionRight, [Next]_vars
  PROVE  [Promise!Next]_(Promise!vars)
<1>1. Memory /\ HeapOK
  BY DEF Keeping, Invariant, Memory
<1> SUFFICES Promise!Next \/ UNCHANGED <<meant, answer>>
  BY DEF Promise!vars
<1>2. CASE Express \/ DecStep \/ DeleteAndNotify \/ __pop \/ __reset \/ Construct \/ UNCHANGED vars
  BY <1>2 DEF Express, DecStep, DeleteAndNotify, __pop, __reset, Construct, client_vars, vars
<1>3. CASE GoOn
  BY <1>3, PromiseOps DEF GoOn, Promise!GoOn, Promise!Next
<1>4. ASSUME NEW v \in Handle, add(v) \/ add_moved(v)
      PROVE  Promise!Next
  <2>1. PICK y : y = handle[v]
    OBVIOUS
  <2>2. handle[v] # Null /\ Asserted(y) /\ answer = NoAnswer /\ answer' = answer
    BY <1>4, <2>1 DEF add, add_moved, Calls
  <2>3. y \in Addr
    BY <1>1, <2>1, <2>2, HandleType
  <2>4. Promise!Add
    BY <2>2, <2>3, PromiseAdd
  <2> QED
    BY <2>4 DEF Promise!Next
<1>5. CASE push
  BY <1>5, PromisePush DEF Promise!Next
<1>6. CASE pop
  BY <1>6, PromisePop DEF Promise!Next
<1>7. CASE reset \/ Destroy
  BY <1>7, PromiseReset DEF Promise!Next
<1>8. CASE check
  BY <1>8, PromiseCheck DEF Promise!Next
<1>9. ASSUME NEW hs \in BoundedSeq({h \in Handle : handle[h] # Null}, MaxAssumptions),
             NEW room \in 0 .. MaxAssumptions,
             check_assumptions([i \in DOMAIN hs |-> handle[hs[i]]], room)
      PROVE  Promise!Next
  <2>1. PICK assumptions : assumptions = [i \in DOMAIN hs |-> handle[hs[i]]]
    OBVIOUS
  <2>2. check_assumptions(assumptions, room)
    BY <1>9, <2>1
  <2>3. Promise!Ask
    BY <2>1, <2>2, PromiseAssumptions
  <2> QED
    BY <2>3 DEF Promise!Next
<1> QED
  BY <1>2, <1>3, <1>4, <1>5, <1>6, <1>7, <1>8, <1>9 DEF Next

LEMMA PromiseInit ==
  Init => Promise!Init
BY PromiseOps DEF Init, Promise!Init

-----------------------------------------------------------------------------
(* Functions defined along the operands of expressions.                    *)

(* F gives a value to each expression by those of its operands. *)
ByOperands(h, V, F) ==
  /\ F \in [[Addr -> V] -> [Addr -> V]]
  /\ \A f, g \in [Addr -> V] : \A a \in Addr :
       (\A i \in DOMAIN h[a].args : f[h[a].args[i]] = g[h[a].args[i]]) => F[f][a] = F[g][a]

LEMMA Recursion ==
  ASSUME NEW h, WellFormed(h), NEW V, V # {}, NEW F, ByOperands(h, V, F)
  PROVE  \E f \in [Addr -> V] : f = F[f]
<1>0. PICK n \in Nat : \E rank \in [Addr -> 0 .. n] : Ranks(h, n, rank)
  BY DEF WellFormed
<1>1. PICK rank \in [Addr -> 0 .. n] : Ranks(h, n, rank)
  BY <1>0
<1>2. F \in [[Addr -> V] -> [Addr -> V]]
  BY DEF ByOperands
<1> DEFINE Known(f, k) == \A a \in Addr : rank[a] < k => f[a] = F[f][a]
           N == {k \in Nat : \E f \in [Addr -> V] : Known(f, k)}
<1>3. 0 \in N
  <2>1. PICK v \in V : TRUE
    OBVIOUS
  <2>2. PICK f : f = [a \in Addr |-> v]
    OBVIOUS
  <2>3. f \in [Addr -> V] /\ Known(f, 0)
    BY <2>2
  <2> QED
    BY <2>3
<1>4. ASSUME NEW k \in N
      PROVE  k + 1 \in N
  <2>1. PICK f \in [Addr -> V] : Known(f, k)
    OBVIOUS
  <2>2. PICK g : g = F[f]
    OBVIOUS
  <2>3. g \in [Addr -> V]
    BY <1>2, <2>2
  <2>4. ASSUME NEW a \in Addr, rank[a] < k + 1
        PROVE  g[a] = F[g][a]
    <3>1. ASSUME NEW i \in DOMAIN h[a].args
          PROVE  f[h[a].args[i]] = g[h[a].args[i]]
      <4>1. h[a].args[i] \in Addr
        BY OperandsOf
      <4>2. rank[h[a].args[i]] < rank[a]
        BY <1>1 DEF Ranks
      <4>3. rank[h[a].args[i]] \in Nat /\ rank[a] \in Nat /\ k \in Nat
        BY <4>1
      <4>4. rank[h[a].args[i]] < k
        BY <2>4, <4>2, <4>3
      <4> QED
        BY <2>1, <2>2, <4>1, <4>4
    <3> QED
      BY <2>2, <2>3, <3>1 DEF ByOperands
  <2>5. Known(g, k + 1)
    BY <2>4
  <2>6. k + 1 \in Nat
    OBVIOUS
  <2> HIDE DEF Known
  <2> QED
    BY <2>3, <2>5, <2>6
<1>5. N = Nat
  <2>1. N \in SUBSET Nat
    OBVIOUS
  <2> HIDE DEF N
  <2> QED
    BY <1>3, <1>4, <2>1, NumberInduction
<1>6. PICK f \in [Addr -> V] : Known(f, n + 1)
  BY <1>5
<1>7. \A a \in Addr : rank[a] < n + 1
  OBVIOUS
<1>8. \A a \in Addr : f[a] = F[f][a]
  BY <1>6, <1>7
<1>9. F[f] \in [Addr -> V]
  BY <1>2
<1>10. f = F[f]
  BY <1>8, <1>9
<1> QED
  BY <1>10

-----------------------------------------------------------------------------
(* Conjunctions, and conjunctions below negations.                         *)

HasBy(h, f, a) ==
  \/ h[a].kind = "land"
  \/ \E i \in DOMAIN h[a].args : f[h[a].args[i]]

Has(h) == CHOOSE f : f = [a \in Addr |-> HasBy(h, f, a)]

NegatesBy(h, f, a) ==
  \/ h[a].kind = "lnot" /\ Has(h)[a]
  \/ \E i \in DOMAIN h[a].args : f[h[a].args[i]]

Negates(h) == CHOOSE f : f = [a \in Addr |-> NegatesBy(h, f, a)]

LEMMA HasNow == HasConjunction = Has(heap)
BY DEF HasConjunction, Has, HasBy

LEMMA HasThen == HasConjunction' = Has(heap')
BY DEF HasConjunction, Has, HasBy

LEMMA NegatesNow == NegatesConjunction = Negates(heap)
<1>1. PICK c : c = HasConjunction
  OBVIOUS
<1>2. Has(heap) = c
  BY <1>1, HasNow
<1>3. NegatesConjunction =
        CHOOSE f : f = [a \in Addr |-> \/ heap[a].kind = "lnot" /\ c[a]
                                       \/ \E i \in DOMAIN heap[a].args : f[heap[a].args[i]]]
  BY <1>1 DEF NegatesConjunction
<1>4. Negates(heap) =
        CHOOSE f : f = [a \in Addr |-> \/ heap[a].kind = "lnot" /\ c[a]
                                       \/ \E i \in DOMAIN heap[a].args : f[heap[a].args[i]]]
  BY <1>2 DEF Negates, NegatesBy
<1> QED
  BY <1>3, <1>4

LEMMA NegatesThen == NegatesConjunction' = Negates(heap')
<1>1. PICK c : c = HasConjunction'
  OBVIOUS
<1>2. Has(heap') = c
  BY <1>1, HasThen
<1>3. NegatesConjunction' =
        CHOOSE f : f = [a \in Addr |-> \/ heap'[a].kind = "lnot" /\ c[a]
                                       \/ \E i \in DOMAIN heap'[a].args : f[heap'[a].args[i]]]
  BY <1>1 DEF NegatesConjunction
<1>4. Negates(heap') =
        CHOOSE f : f = [a \in Addr |-> \/ heap'[a].kind = "lnot" /\ c[a]
                                       \/ \E i \in DOMAIN heap'[a].args : f[heap'[a].args[i]]]
  BY <1>2 DEF Negates, NegatesBy
<1> QED
  BY <1>3, <1>4

(* Either is a property of an expression that a property of its own gives  *)
(* it, or an operand.                                                      *)
SomeBy(h, p, f, a) == p[a] \/ \E i \in DOMAIN h[a].args : f[h[a].args[i]]

LEMMA SomeIs ==
  ASSUME NEW h, WellFormed(h), NEW p \in [Addr -> BOOLEAN]
  PROVE  \E f \in [Addr -> BOOLEAN] : f = [a \in Addr |-> SomeBy(h, p, f, a)]
<1>1. PICK F : F = [f \in [Addr -> BOOLEAN] |-> [a \in Addr |-> SomeBy(h, p, f, a)]]
  OBVIOUS
<1>2. \A f \in [Addr -> BOOLEAN] : F[f] = [a \in Addr |-> SomeBy(h, p, f, a)]
  BY <1>1
<1>3. \A f : \A a : SomeBy(h, p, f, a) \in BOOLEAN
  BY DEF SomeBy
<1>4. F \in [[Addr -> BOOLEAN] -> [Addr -> BOOLEAN]]
  <2>1. \A f \in [Addr -> BOOLEAN] : [a \in Addr |-> SomeBy(h, p, f, a)] \in [Addr -> BOOLEAN]
    BY <1>3
  <2> QED
    BY <1>1, <2>1
<1>5. ASSUME NEW f \in [Addr -> BOOLEAN], NEW g \in [Addr -> BOOLEAN], NEW a \in Addr,
             \A i \in DOMAIN h[a].args : f[h[a].args[i]] = g[h[a].args[i]]
      PROVE  F[f][a] = F[g][a]
  <2>1. SomeBy(h, p, f, a) = SomeBy(h, p, g, a)
    BY <1>5 DEF SomeBy
  <2>2. F[f] = [b \in Addr |-> SomeBy(h, p, f, b)] /\ F[g] = [b \in Addr |-> SomeBy(h, p, g, b)]
    BY <1>2
  <2>3. F[f][a] = SomeBy(h, p, f, a) /\ F[g][a] = SomeBy(h, p, g, a)
    BY <2>2
  <2> QED
    BY <2>1, <2>3
<1>6. ByOperands(h, BOOLEAN, F)
  BY <1>4, <1>5 DEF ByOperands
<1>7. PICK f \in [Addr -> BOOLEAN] : f = F[f]
  <2>1. PICK V : V = BOOLEAN
    OBVIOUS
  <2>2. V # {} /\ ByOperands(h, V, F)
    BY <1>6, <2>1
  <2>3. \E f \in [Addr -> V] : f = F[f]
    BY <2>2, Recursion
  <2> QED
    BY <2>1, <2>3
<1> QED
  BY <1>2, <1>7

LEMMA HasIs ==
  ASSUME NEW h, WellFormed(h)
  PROVE  /\ Has(h) = [a \in Addr |-> HasBy(h, Has(h), a)]
         /\ \A a \in Addr : Has(h)[a] <=> HasBy(h, Has(h), a)
<1>1. PICK p : p = [a \in Addr |-> h[a].kind = "land"]
  OBVIOUS
<1>2. p \in [Addr -> BOOLEAN]
  BY <1>1
<1>3. \A f : \A a \in Addr : SomeBy(h, p, f, a) = HasBy(h, f, a)
  BY <1>1 DEF SomeBy, HasBy
<1>4. \A f : [a \in Addr |-> SomeBy(h, p, f, a)] = [a \in Addr |-> HasBy(h, f, a)]
  BY <1>3
<1> DEFINE P(f) == f = [a \in Addr |-> HasBy(h, f, a)]
<1>5. \E f : P(f)
  BY <1>2, <1>4, SomeIs
<1>6. Has(h) = CHOOSE f : P(f)
  BY DEF Has
<1> HIDE DEF P
<1>7. P(Has(h))
  BY <1>5, <1>6
<1>8. Has(h) = [a \in Addr |-> HasBy(h, Has(h), a)]
  BY <1>7 DEF P
<1> QED
  BY <1>8

LEMMA NegatesIs ==
  ASSUME NEW h, WellFormed(h)
  PROVE  \A a \in Addr : Negates(h)[a] <=> NegatesBy(h, Negates(h), a)
<1>1. PICK p : p = [a \in Addr |-> h[a].kind = "lnot" /\ Has(h)[a]]
  OBVIOUS
<1>2. p \in [Addr -> BOOLEAN]
  BY <1>1
<1>3. \A f : \A a \in Addr : SomeBy(h, p, f, a) = NegatesBy(h, f, a)
  BY <1>1 DEF SomeBy, NegatesBy
<1>4. \A f : [a \in Addr |-> SomeBy(h, p, f, a)] = [a \in Addr |-> NegatesBy(h, f, a)]
  BY <1>3
<1> DEFINE P(f) == f = [a \in Addr |-> NegatesBy(h, f, a)]
<1>5. \E f : P(f)
  BY <1>2, <1>4, SomeIs
<1>6. Negates(h) = CHOOSE f : P(f)
  BY DEF Negates
<1> HIDE DEF P
<1>7. P(Negates(h))
  BY <1>5, <1>6
<1>8. Negates(h) = [a \in Addr |-> NegatesBy(h, Negates(h), a)]
  BY <1>7 DEF P
<1> QED
  BY <1>8

(* They depend on the shapes of the parts only. *)
LEMMA SameNegates ==
  ASSUME NEW h, WellFormed(h), NEW g, WellFormed(g), NEW S \in SUBSET Addr,
         \A a \in S : /\ g[a].kind = h[a].kind /\ g[a].args = h[a].args
                      /\ \A i \in DOMAIN h[a].args : h[a].args[i] \in S,
         NEW b \in S
  PROVE  Negates(g)[b] <=> Negates(h)[b]
<1> DEFINE T == {a \in Addr : a \in S => /\ Has(g)[a] <=> Has(h)[a]
                                         /\ Negates(g)[a] <=> Negates(h)[a]}
<1>1. ASSUME NEW a \in Addr, \A i \in DOMAIN h[a].args : h[a].args[i] \in T
      PROVE  a \in T
  <2> SUFFICES ASSUME a \in S
               PROVE  (Has(g)[a] <=> Has(h)[a]) /\ (Negates(g)[a] <=> Negates(h)[a])
    OBVIOUS
  <2>1. \A i \in DOMAIN h[a].args : /\ Has(g)[h[a].args[i]] <=> Has(h)[h[a].args[i]]
                                    /\ Negates(g)[h[a].args[i]] <=> Negates(h)[h[a].args[i]]
    BY <1>1
  <2>2. Has(g)[a] <=> HasBy(g, Has(g), a)
    BY HasIs
  <2>3. Has(h)[a] <=> HasBy(h, Has(h), a)
    BY HasIs
  <2>4. HasBy(g, Has(g), a) <=> HasBy(h, Has(h), a)
    BY <2>1 DEF HasBy
  <2>5. Negates(g)[a] <=> NegatesBy(g, Negates(g), a)
    BY NegatesIs
  <2>6. Negates(h)[a] <=> NegatesBy(h, Negates(h), a)
    BY NegatesIs
  <2>7. Has(g)[a] <=> Has(h)[a]
    BY <2>2, <2>3, <2>4
  <2>8. NegatesBy(g, Negates(g), a) <=> NegatesBy(h, Negates(h), a)
    BY <2>1, <2>7 DEF NegatesBy
  <2> QED
    BY <2>5, <2>6, <2>7, <2>8
<1>2. T \in SUBSET Addr
  OBVIOUS
<1>3. T = Addr
  <2> HIDE DEF T
  <2> QED
    BY <1>1, <1>2, ExpressionInduction
<1> QED
  BY <1>3

-----------------------------------------------------------------------------
(* What DeduceSolver propagates.                                           *)

Results == [facts : Facts, conflict : BOOLEAN]

(* Propagate for an operand, for each truth value and set of facts *)
Propagations == [BOOLEAN -> [Facts -> Results]]

BinaryBy(p, op, a, b, neg, facts) ==
  LET r == IF Forced(op, neg, facts, a) THEN p[b][neg][facts] ELSE Result(facts, FALSE)
  IN  IF ~r.conflict /\ Forced(op, neg, r.facts, b) THEN p[a][neg][r.facts] ELSE r

PropagateBy(p, a, neg, facts) ==
  LET args == heap[a].args
  IN  CASE heap[a].kind = "symbol" -> unit_propagate(facts, a, ~neg)
        [] heap[a].kind = "lnot" -> p[args[1]][~neg][facts]
        [] heap[a].kind \in {"land", "lor"} ->
             BinaryBy(p, heap[a].kind, args[1], args[2], neg, facts)
        [] OTHER -> Result(facts, FALSE)

PropagatesBy(p, a) == [neg \in BOOLEAN |-> [facts \in Facts |-> PropagateBy(p, a, neg, facts)]]

LEMMA PropagateIs ==
  Propagate = CHOOSE p : p = [a \in Addr |-> PropagatesBy(p, a)]
BY DEF Propagate, PropagatesBy, PropagateBy, BinaryBy

LEMMA OtherTruth ==
  ASSUME NEW neg \in BOOLEAN
  PROVE  (~neg) \in BOOLEAN
<1>1. CASE neg = TRUE
  BY <1>1
<1>2. CASE neg = FALSE
  BY <1>2
<1> QED
  BY <1>1, <1>2

LEMMA ResultType ==
  ASSUME NEW facts \in Facts, NEW c \in BOOLEAN
  PROVE  /\ Result(facts, c) \in Results
         /\ Result(facts, c).facts = facts /\ Result(facts, c).conflict = c
BY DEF Result, Results

LEMMA UnitType ==
  ASSUME NEW facts \in Facts, NEW a \in Addr, NEW fact \in BOOLEAN
  PROVE  unit_propagate(facts, a, fact) \in Results
<1>1. facts \union {<<a, fact>>} \in Facts
  BY DEF Facts
<1> QED
  BY <1>1, ResultType DEF unit_propagate

LEMMA BinaryType ==
  ASSUME NEW p, NEW op, NEW a, NEW b, p[a] \in Propagations, p[b] \in Propagations,
         NEW neg \in BOOLEAN, NEW facts \in Facts
  PROVE  BinaryBy(p, op, a, b, neg, facts) \in Results
<1>1. PICK r : r = IF Forced(op, neg, facts, a) THEN p[b][neg][facts] ELSE Result(facts, FALSE)
  OBVIOUS
<1>2. p[b][neg][facts] \in Results /\ \A f \in Facts : p[a][neg][f] \in Results
  BY DEF Propagations
<1>3. Result(facts, FALSE) \in Results
  BY ResultType
<1>4. r \in Results
  BY <1>1, <1>2, <1>3
<1>5. r.facts \in Facts
  BY <1>4 DEF Results
<1>6. BinaryBy(p, op, a, b, neg, facts)
        = IF ~r.conflict /\ Forced(op, neg, r.facts, b) THEN p[a][neg][r.facts] ELSE r
  BY <1>1 DEF BinaryBy
<1> QED
  BY <1>2, <1>4, <1>5, <1>6

LEMMA PropagateType ==
  ASSUME WellFormed(heap), NEW p, NEW a \in Addr,
         \A i \in DOMAIN heap[a].args : p[heap[a].args[i]] \in Propagations
  PROVE  PropagatesBy(p, a) \in Propagations
<1>1. ASSUME NEW neg \in BOOLEAN, NEW facts \in Facts
      PROVE  PropagateBy(p, a, neg, facts) \in Results
  <2>1. CASE heap[a].kind = "symbol"
    <3>1. PropagateBy(p, a, neg, facts) = unit_propagate(facts, a, ~neg)
      BY <2>1 DEF PropagateBy
    <3>2. (~neg) \in BOOLEAN
      BY OtherTruth
    <3> QED
      BY <3>1, <3>2, UnitType
  <2>2. CASE heap[a].kind = "lnot"
    <3>1. PropagateBy(p, a, neg, facts) = p[heap[a].args[1]][~neg][facts]
      BY <2>2 DEF PropagateBy
    <3>2. (~neg) \in BOOLEAN /\ p[heap[a].args[1]] \in Propagations
      BY <2>2, OperandsOf, OtherTruth
    <3>3. PICK n \in BOOLEAN : n = (~neg)
      BY <3>2
    <3>4. p[heap[a].args[1]][n] \in [Facts -> Results]
      BY <3>2 DEF Propagations
    <3> QED
      BY <3>1, <3>3, <3>4
  <2>3. CASE heap[a].kind \in {"land", "lor"}
    <3>1. PropagateBy(p, a, neg, facts)
            = BinaryBy(p, heap[a].kind, heap[a].args[1], heap[a].args[2], neg, facts)
      BY <2>3 DEF PropagateBy
    <3>2. p[heap[a].args[1]] \in Propagations /\ p[heap[a].args[2]] \in Propagations
      BY <2>3, OperandsOf
    <3> QED
      BY <3>1, <3>2, BinaryType
  <2>4. CASE heap[a].kind = "none"
    <3>1. PropagateBy(p, a, neg, facts) = Result(facts, FALSE)
      BY <2>4 DEF PropagateBy
    <3> QED
      BY <3>1, ResultType
  <2> QED
    BY <2>1, <2>2, <2>3, <2>4, OperandsOf DEF Kinds
<1>2. ASSUME NEW neg \in BOOLEAN
      PROVE  [facts \in Facts |-> PropagateBy(p, a, neg, facts)] \in [Facts -> Results]
  BY <1>1
<1> QED
  BY <1>2 DEF PropagatesBy, Propagations

LEMMA PropagateByOperands ==
  ASSUME WellFormed(heap), NEW p, NEW q, NEW a \in Addr,
         \A i \in DOMAIN heap[a].args : p[heap[a].args[i]] = q[heap[a].args[i]]
  PROVE  PropagatesBy(p, a) = PropagatesBy(q, a)
<1>1. ASSUME NEW neg \in BOOLEAN, NEW facts \in Facts
      PROVE  PropagateBy(p, a, neg, facts) = PropagateBy(q, a, neg, facts)
  <2>1. CASE heap[a].kind = "lnot"
    <3>1. p[heap[a].args[1]] = q[heap[a].args[1]]
      BY <2>1, OperandsOf
    <3> QED
      BY <2>1, <3>1 DEF PropagateBy
  <2>2. CASE heap[a].kind \in {"land", "lor"}
    <3>1. p[heap[a].args[1]] = q[heap[a].args[1]] /\ p[heap[a].args[2]] = q[heap[a].args[2]]
      BY <2>2, OperandsOf
    <3>2. PICK op, b, c : op = heap[a].kind /\ b = heap[a].args[1] /\ c = heap[a].args[2]
      OBVIOUS
    <3>3. BinaryBy(p, op, b, c, neg, facts) = BinaryBy(q, op, b, c, neg, facts)
      BY <3>1, <3>2 DEF BinaryBy
    <3>4. \A s : PropagateBy(s, a, neg, facts) = BinaryBy(s, op, b, c, neg, facts)
      BY <2>2, <3>2 DEF PropagateBy
    <3> QED
      BY <3>3, <3>4
  <2>3. CASE heap[a].kind \in {"none", "symbol"}
    BY <2>3 DEF PropagateBy
  <2> QED
    BY <2>1, <2>2, <2>3, OperandsOf DEF Kinds
<1>2. ASSUME NEW neg \in BOOLEAN
      PROVE  [facts \in Facts |-> PropagateBy(p, a, neg, facts)]
               = [facts \in Facts |-> PropagateBy(q, a, neg, facts)]
  BY <1>1
<1> QED
  BY <1>2 DEF PropagatesBy

LEMMA PropagateAre ==
  ASSUME WellFormed(heap)
  PROVE  \A a \in Addr : Propagate[a] \in Propagations /\ Propagate[a] = PropagatesBy(Propagate, a)
<1>1. PICK F : F = [p \in [Addr -> Propagations] |-> [a \in Addr |-> PropagatesBy(p, a)]]
  OBVIOUS
<1>2. \A p \in [Addr -> Propagations] : F[p] = [a \in Addr |-> PropagatesBy(p, a)]
  BY <1>1
<1>3. \A p \in [Addr -> Propagations] : \A a \in Addr : PropagatesBy(p, a) \in Propagations
  <2> SUFFICES ASSUME NEW p \in [Addr -> Propagations], NEW a \in Addr
               PROVE  PropagatesBy(p, a) \in Propagations
    OBVIOUS
  <2>1. \A i \in DOMAIN heap[a].args : p[heap[a].args[i]] \in Propagations
    BY OperandsOf
  <2> QED
    BY <2>1, PropagateType
<1>4. F \in [[Addr -> Propagations] -> [Addr -> Propagations]]
  <2>1. \A p \in [Addr -> Propagations] :
          [a \in Addr |-> PropagatesBy(p, a)] \in [Addr -> Propagations]
    BY <1>3
  <2> QED
    BY <1>1, <2>1
<1>5. ASSUME NEW p \in [Addr -> Propagations], NEW q \in [Addr -> Propagations], NEW a \in Addr,
             \A i \in DOMAIN heap[a].args : p[heap[a].args[i]] = q[heap[a].args[i]]
      PROVE  F[p][a] = F[q][a]
  <2>1. PropagatesBy(p, a) = PropagatesBy(q, a)
    BY <1>5, PropagateByOperands
  <2>2. /\ F[p] = [b \in Addr |-> PropagatesBy(p, b)]
        /\ F[q] = [b \in Addr |-> PropagatesBy(q, b)]
    BY <1>2
  <2> QED
    BY <2>1, <2>2
<1>6. ByOperands(heap, Propagations, F)
  BY <1>4, <1>5 DEF ByOperands
<1>7. Propagations # {}
  <2>1. PICK r : r = Result({}, FALSE)
    OBVIOUS
  <2>2. {} \in Facts
    BY DEF Facts
  <2>3. r \in Results
    BY <2>1, <2>2, ResultType
  <2>4. [neg \in BOOLEAN |-> [facts \in Facts |-> r]] \in Propagations
    BY <2>3 DEF Propagations
  <2> QED
    BY <2>4
<1>8. PICK p \in [Addr -> Propagations] : p = F[p]
  BY <1>6, <1>7, Recursion
<1> DEFINE P(f) == f = [a \in Addr |-> PropagatesBy(f, a)]
<1>9. P(p)
  BY <1>2, <1>8
<1>10. Propagate = CHOOSE f : P(f)
  BY PropagateIs
<1> HIDE DEF P
<1>11. P(Propagate)
  BY <1>9, <1>10
<1>12. \A a \in Addr : Propagate[a] = PropagatesBy(Propagate, a)
  BY <1>11 DEF P
<1> DEFINE S == {a \in Addr : Propagate[a] \in Propagations}
<1>13. ASSUME NEW a \in Addr, \A i \in DOMAIN heap[a].args : heap[a].args[i] \in S
       PROVE  a \in S
  BY <1>12, <1>13, PropagateType
<1>14. S \in SUBSET Addr
  OBVIOUS
<1>15. S = Addr
  <2> HIDE DEF S
  <2> QED
    BY <1>13, <1>14, ExpressionInduction
<1> QED
  BY <1>12, <1>15

(* What DeduceSolver propagates is right as long as no conjunction is      *)
(* below a negation.                                                       *)

SoundFor(M, facts) ==
  \A a \in Addr : /\ <<a, TRUE>> \in facts => Holds(M, Meaning[a])
                  /\ <<a, FALSE>> \in facts => ~Holds(M, Meaning[a])

RightFor(M, r) == r \in Results /\ ~r.conflict /\ SoundFor(M, r.facts)

PropagatesRight(M, a) ==
  \A neg \in BOOLEAN : \A facts \in Facts :
    /\ SoundFor(M, facts)
    /\ Holds(M, Meaning[a]) <=> ~neg
    /\ neg => ~Has(heap)[a]
    => RightFor(M, Propagate[a][neg][facts])

LEMMA NoChange ==
  ASSUME NEW M, NEW facts \in Facts, SoundFor(M, facts)
  PROVE  RightFor(M, Result(facts, FALSE))
BY ResultType DEF RightFor

LEMMA MoreFacts ==
  ASSUME NEW facts \in Facts, NEW a \in Addr, NEW fact \in BOOLEAN
  PROVE  facts \union {<<a, fact>>} \in Facts
BY DEF Facts

LEMMA UnitRight ==
  ASSUME NEW M, NEW facts \in Facts, SoundFor(M, facts), NEW a \in Addr, NEW neg \in BOOLEAN,
         Holds(M, Meaning[a]) <=> ~neg
  PROVE  RightFor(M, unit_propagate(facts, a, ~neg))
<1>1. CASE neg = TRUE
  <2>1. <<a, TRUE>> \notin facts
    BY <1>1 DEF SoundFor
  <2>2. PICK g : g = facts \union {<<a, FALSE>>}
    OBVIOUS
  <2>3. g \in Facts /\ SoundFor(M, g)
    <3>1. g \in Facts
      BY <2>2, MoreFacts
    <3>2. \A c \in Addr : /\ <<c, TRUE>> \in g => <<c, TRUE>> \in facts
                          /\ <<c, FALSE>> \in g => <<c, FALSE>> \in facts \/ c = a
      BY <2>2
    <3> QED
      BY <1>1, <3>1, <3>2 DEF SoundFor
  <2>4. unit_propagate(facts, a, FALSE) = Result(g, FALSE)
    BY <2>1, <2>2 DEF unit_propagate
  <2>5. (~neg) = FALSE
    BY <1>1
  <2> QED
    BY <2>3, <2>4, <2>5, NoChange
<1>2. CASE neg = FALSE
  <2>1. <<a, FALSE>> \notin facts
    BY <1>2 DEF SoundFor
  <2>2. PICK g : g = facts \union {<<a, TRUE>>}
    OBVIOUS
  <2>3. g \in Facts /\ SoundFor(M, g)
    <3>1. g \in Facts
      BY <2>2, MoreFacts
    <3>2. \A c \in Addr : /\ <<c, FALSE>> \in g => <<c, FALSE>> \in facts
                          /\ <<c, TRUE>> \in g => <<c, TRUE>> \in facts \/ c = a
      BY <2>2
    <3> QED
      BY <1>2, <3>1, <3>2 DEF SoundFor
  <2>4. unit_propagate(facts, a, TRUE) = Result(g, FALSE)
    BY <2>1, <2>2 DEF unit_propagate
  <2>5. (~neg) = TRUE
    BY <1>2
  <2> QED
    BY <2>3, <2>4, <2>5, NoChange
<1> QED
  BY <1>1, <1>2

(* An operand that is forced is as the other one leaves no choice. *)
LEMMA ForcedRight ==
  ASSUME NEW M, NEW op \in {"land", "lor"}, NEW a \in Addr, NEW b \in Addr, NEW neg \in BOOLEAN,
         ~(op = "land" /\ neg),
         op = "land" => Holds(M, Meaning[a]) /\ Holds(M, Meaning[b]),
         op = "lor" => ((Holds(M, Meaning[a]) \/ Holds(M, Meaning[b])) <=> ~neg),
         NEW facts \in Facts, SoundFor(M, facts)
  PROVE  /\ Forced(op, neg, facts, a) => (Holds(M, Meaning[b]) <=> ~neg)
         /\ Forced(op, neg, facts, b) => (Holds(M, Meaning[a]) <=> ~neg)
<1>1. /\ is_false(facts, a) => ~Holds(M, Meaning[a])
      /\ is_false(facts, b) => ~Holds(M, Meaning[b])
  BY DEF is_false, SoundFor
<1> QED
  BY <1>1 DEF Forced

LEMMA BinaryRight ==
  ASSUME NEW M, NEW op \in {"land", "lor"}, NEW a \in Addr, NEW b \in Addr, NEW neg \in BOOLEAN,
         ~(op = "land" /\ neg),
         op = "land" => Holds(M, Meaning[a]) /\ Holds(M, Meaning[b]),
         op = "lor" => ((Holds(M, Meaning[a]) \/ Holds(M, Meaning[b])) <=> ~neg),
         neg => ~Has(heap)[a] /\ ~Has(heap)[b],
         PropagatesRight(M, a), PropagatesRight(M, b),
         NEW facts \in Facts, SoundFor(M, facts)
  PROVE  RightFor(M, BinaryBy(Propagate, op, a, b, neg, facts))
<1>1. PICK r : r = IF Forced(op, neg, facts, a) THEN Propagate[b][neg][facts]
                   ELSE Result(facts, FALSE)
  OBVIOUS
<1>2. RightFor(M, r)
  <2>1. CASE Forced(op, neg, facts, a)
    <3>1. Holds(M, Meaning[b]) <=> ~neg
      BY <2>1, ForcedRight
    <3> QED
      BY <1>1, <2>1, <3>1 DEF PropagatesRight
  <2>2. CASE ~Forced(op, neg, facts, a)
    BY <1>1, <2>2, NoChange
  <2> QED
    BY <2>1, <2>2
<1>3. PICK g \in Facts : g = r.facts /\ SoundFor(M, g) /\ ~r.conflict
  BY <1>2 DEF RightFor, Results
<1>4. BinaryBy(Propagate, op, a, b, neg, facts)
        = IF ~r.conflict /\ Forced(op, neg, g, b) THEN Propagate[a][neg][g] ELSE r
  BY <1>1, <1>3 DEF BinaryBy
<1>5. CASE Forced(op, neg, g, b)
  <2>1. Holds(M, Meaning[a]) <=> ~neg
    BY <1>3, <1>5, ForcedRight
  <2>2. BinaryBy(Propagate, op, a, b, neg, facts) = Propagate[a][neg][g]
    BY <1>3, <1>4, <1>5
  <2> QED
    BY <1>3, <2>1, <2>2 DEF PropagatesRight
<1>6. CASE ~Forced(op, neg, g, b)
  BY <1>2, <1>4, <1>6
<1> QED
  BY <1>5, <1>6

LEMMA PropagatesAre ==
  ASSUME WellFormed(heap), NEW a \in Addr, NEW neg \in BOOLEAN, NEW facts \in Facts
  PROVE  /\ Propagate[a][neg][facts] = PropagateBy(Propagate, a, neg, facts)
         /\ Propagate[a][neg][facts] \in Results
<1>1. Propagate[a] = PropagatesBy(Propagate, a) /\ Propagate[a] \in Propagations
  BY PropagateAre
<1>2. PICK p, q : p = Propagate[a] /\ q = [f \in Facts |-> PropagateBy(Propagate, a, neg, f)]
  OBVIOUS
<1>3. p[neg] = q
  BY <1>1, <1>2 DEF PropagatesBy
<1>4. q[facts] = PropagateBy(Propagate, a, neg, facts)
  BY <1>2
<1>5. p[neg] \in [Facts -> Results]
  BY <1>1, <1>2 DEF Propagations
<1> QED
  BY <1>2, <1>3, <1>4, <1>5

LEMMA PropagateRight ==
  ASSUME HeapOK, WellFormed(heap), NEW M, NEW b \in Addr, ~NegatesConjunction[b]
  PROVE  PropagatesRight(M, b)
<1> DEFINE S == {a \in Addr : ~Negates(heap)[a] => PropagatesRight(M, a)}
<1>1. ASSUME NEW a \in Addr, \A i \in DOMAIN heap[a].args : heap[a].args[i] \in S
      PROVE  a \in S
  <2> SUFFICES ASSUME ~Negates(heap)[a], NEW neg \in BOOLEAN, NEW facts \in Facts,
                      SoundFor(M, facts), Holds(M, Meaning[a]) <=> ~neg, neg => ~Has(heap)[a]
               PROVE  RightFor(M, Propagate[a][neg][facts])
    BY DEF PropagatesRight
  <2>1. Propagate[a][neg][facts] = PropagateBy(Propagate, a, neg, facts)
    BY PropagatesAre
  <2>2. Meaning[a] = MeaningBy(heap, Meaning, a)
    BY MeaningsAre, MeaningsNow
  <2>3. ~NegatesBy(heap, Negates(heap), a) /\ (Has(heap)[a] <=> HasBy(heap, Has(heap), a))
    BY NegatesIs, HasIs
  <2>4. \A i \in DOMAIN heap[a].args : PropagatesRight(M, heap[a].args[i])
    BY <1>1, <2>3 DEF NegatesBy
  <2>5. \A c \in Addr : IsFormula(Meaning[c])
    BY MeaningsAreFormulas, FormulaIs
  <2>6. CASE heap[a].kind = "symbol"
    <3>1. PropagateBy(Propagate, a, neg, facts) = unit_propagate(facts, a, ~neg)
      BY <2>6 DEF PropagateBy
    <3> QED
      BY <2>1, <3>1, UnitRight
  <2>7. CASE heap[a].kind = "lnot"
    <3>1. PICK c \in Addr : c = heap[a].args[1] /\ 1 \in DOMAIN heap[a].args
      BY <2>7, OperandsOf
    <3>2. PropagateBy(Propagate, a, neg, facts) = Propagate[c][~neg][facts]
      BY <2>7, <3>1 DEF PropagateBy
    <3>3. Meaning[a] = Negation(Meaning[c])
      BY <2>2, <2>7, <3>1 DEF MeaningBy
    <3>4. Holds(M, Meaning[c]) <=> neg
      BY <2>5, <3>3, HoldsNegation
    <3>5. ~Has(heap)[c]
      BY <2>3, <2>7, <3>1 DEF NegatesBy, HasBy
    <3>6. PICK n \in BOOLEAN : n = (~neg)
      BY OtherTruth
    <3>7. Holds(M, Meaning[c]) <=> ~n
      BY <3>4, <3>6
    <3>8. RightFor(M, Propagate[c][n][facts])
      BY <2>4, <3>1, <3>5, <3>7 DEF PropagatesRight
    <3> QED
      BY <2>1, <3>2, <3>6, <3>8
  <2>8. CASE heap[a].kind \in {"land", "lor"}
    <3>1. PICK c \in Addr, d \in Addr : /\ c = heap[a].args[1] /\ d = heap[a].args[2]
                                        /\ {1, 2} \subseteq DOMAIN heap[a].args
      BY <2>8, OperandsOf
    <3>2. PICK op \in {"land", "lor"} : op = heap[a].kind
      BY <2>8
    <3>3. PropagateBy(Propagate, a, neg, facts) = BinaryBy(Propagate, op, c, d, neg, facts)
      BY <2>8, <3>1, <3>2 DEF PropagateBy
    <3>4. PropagatesRight(M, c) /\ PropagatesRight(M, d)
      BY <2>4, <3>1
    <3>5. ~(op = "land" /\ neg) /\ (neg => ~Has(heap)[c] /\ ~Has(heap)[d])
      BY <2>3, <3>1, <3>2 DEF HasBy
    <3>6. op = "land" => Holds(M, Meaning[c]) /\ Holds(M, Meaning[d])
      <4> SUFFICES ASSUME op = "land"
                   PROVE  Holds(M, Meaning[c]) /\ Holds(M, Meaning[d])
        OBVIOUS
      <4>1. Meaning[a] = Conjunction(Meaning[c], Meaning[d])
        BY <2>2, <3>1, <3>2 DEF MeaningBy
      <4>2. Holds(M, Meaning[a])
        BY <3>5
      <4> QED
        BY <4>1, <4>2, HoldsConjunction
    <3>7. op = "lor" => ((Holds(M, Meaning[c]) \/ Holds(M, Meaning[d])) <=> ~neg)
      <4> SUFFICES ASSUME op = "lor"
                   PROVE  (Holds(M, Meaning[c]) \/ Holds(M, Meaning[d])) <=> ~neg
        OBVIOUS
      <4>1. Meaning[a] = Disjunction(Meaning[c], Meaning[d])
        BY <2>2, <3>1, <3>2 DEF MeaningBy
      <4> QED
        BY <2>5, <4>1, HoldsDisjunction
    <3>8. RightFor(M, BinaryBy(Propagate, op, c, d, neg, facts))
      BY <3>4, <3>5, <3>6, <3>7, BinaryRight
    <3> QED
      BY <2>1, <3>3, <3>8
  <2>9. CASE heap[a].kind = "none"
    <3>1. PropagateBy(Propagate, a, neg, facts) = Result(facts, FALSE)
      BY <2>9 DEF PropagateBy
    <3> QED
      BY <2>1, <3>1, NoChange
  <2> QED
    BY <2>6, <2>7, <2>8, <2>9, OperandsOf DEF Kinds
<1>2. S \in SUBSET Addr
  OBVIOUS
<1>3. S = Addr
  <2> HIDE DEF S
  <2> QED
    BY <1>1, <1>2, ExpressionInduction
<1> QED
  BY <1>3, NegatesNow

-----------------------------------------------------------------------------
(* What DeduceSolver deduces, assertion by assertion and round by round.   *)

LEMMA Counting ==
  ASSUME NEW n \in Nat, NEW S, 0 \in S, \A i \in 1 .. n : i - 1 \in S => i \in S
  PROVE  \A i \in 0 .. n : i \in S
<1> DEFINE N == {k \in Nat : k \in 0 .. n => k \in S}
<1>1. 0 \in N
  OBVIOUS
<1>2. ASSUME NEW k \in N
      PROVE  k + 1 \in N
  <2>1. k + 1 \in Nat /\ (k + 1) - 1 = k
    OBVIOUS
  <2>2. k + 1 \in 0 .. n => k + 1 \in 1 .. n /\ k \in 0 .. n
    OBVIOUS
  <2> QED
    BY <2>1, <2>2
<1>3. N = Nat
  <2>1. N \in SUBSET Nat
    OBVIOUS
  <2> HIDE DEF N
  <2> QED
    BY <1>1, <1>2, <2>1, NumberInduction
<1> QED
  BY <1>3

CountedBy(v, F, f, i) == IF i = 0 THEN v ELSE F[i][f[i - 1]]

LEMMA CountedRecursion ==
  ASSUME NEW n \in Nat, NEW V, NEW v \in V, NEW F \in [1 .. n -> [V -> V]]
  PROVE  \E f \in [0 .. n -> V] : \A i \in 0 .. n : f[i] = CountedBy(v, F, f, i)
<1> DEFINE Known(f, k) ==
             \A i \in 0 .. n : i <= k => f[i] = IF i = 0 THEN v ELSE F[i][f[i - 1]]
           N == {k \in Nat : \E f \in [0 .. n -> V] : Known(f, k)}
<1>1. 0 \in N
  <2>1. PICK f : f = [i \in 0 .. n |-> v]
    OBVIOUS
  <2>2. f \in [0 .. n -> V] /\ Known(f, 0)
    BY <2>1
  <2> QED
    BY <2>2
<1>2. ASSUME NEW k \in N
      PROVE  k + 1 \in N
  <2>1. PICK f \in [0 .. n -> V] : Known(f, k)
    OBVIOUS
  <2>2. PICK g : g = [i \in 0 .. n |-> IF i = 0 THEN v ELSE F[i][f[i - 1]]]
    OBVIOUS
  <2>3. ASSUME NEW i \in 0 .. n, i # 0
        PROVE  i \in 1 .. n /\ i - 1 \in 0 .. n /\ F[i][f[i - 1]] \in V
    <3>1. i \in 1 .. n /\ i - 1 \in 0 .. n
      BY <2>3
    <3>2. F[i] \in [V -> V] /\ f[i - 1] \in V
      BY <3>1
    <3> QED
      BY <3>1, <3>2
  <2>4. g \in [0 .. n -> V]
    BY <2>2, <2>3
  <2>5. ASSUME NEW i \in 0 .. n, i <= k + 1
        PROVE  g[i] = IF i = 0 THEN v ELSE F[i][g[i - 1]]
    <3>1. CASE i = 0
      BY <2>2, <3>1
    <3>2. CASE i # 0
      <4>1. i - 1 \in 0 .. n /\ i - 1 <= k
        BY <2>5, <3>2
      <4>2. f[i - 1] = IF i - 1 = 0 THEN v ELSE F[i - 1][f[i - 1 - 1]]
        BY <2>1, <4>1
      <4>3. g[i - 1] = IF i - 1 = 0 THEN v ELSE F[i - 1][f[i - 1 - 1]]
        BY <2>2, <4>1
      <4> QED
        BY <2>2, <3>2, <4>2, <4>3
    <3> QED
      BY <3>1, <3>2
  <2>6. Known(g, k + 1)
    BY <2>5
  <2>7. k + 1 \in Nat
    OBVIOUS
  <2> HIDE DEF Known
  <2> QED
    BY <2>4, <2>6, <2>7
<1>3. N = Nat
  <2>1. N \in SUBSET Nat
    OBVIOUS
  <2> HIDE DEF N
  <2> QED
    BY <1>1, <1>2, <2>1, NumberInduction
<1>4. PICK f \in [0 .. n -> V] : Known(f, n)
  BY <1>3
<1>5. \A i \in 0 .. n : i <= n
  OBVIOUS
<1>6. \A i \in 0 .. n : f[i] = CountedBy(v, F, f, i)
  BY <1>4, <1>5 DEF CountedBy
<1> QED
  BY <1>6

LEMMA CountedResults ==
  ASSUME NEW n \in Nat, NEW v \in Results, NEW F \in [1 .. n -> [Results -> Results]]
  PROVE  \E f \in [0 .. n -> Results] : \A i \in 0 .. n : f[i] = CountedBy(v, F, f, i)
BY CountedRecursion

(* Steps until there is a conflict: G[i] is what the i-th step makes of    *)
(* facts.                                                                  *)
StepsBy(v, G, f, i) ==
  IF i = 0 THEN v
  ELSE LET r == f[i - 1] IN IF r.conflict THEN r ELSE G[i][r.facts]

Steps(n, v, G) == CHOOSE f : f = [i \in 0 .. n |-> StepsBy(v, G, f, i)]

StepsType(n, G) == G \in [1 .. n -> [Facts -> Results]]

LEMMA StepsAre ==
  ASSUME NEW n \in Nat, NEW v \in Results, NEW G, StepsType(n, G)
  PROVE  \A i \in 0 .. n : Steps(n, v, G)[i] = StepsBy(v, G, Steps(n, v, G), i)
<1>1. PICK F : F = [i \in 1 .. n |->
                      [r \in Results |-> IF r.conflict THEN r ELSE G[i][r.facts]]]
  OBVIOUS
<1>2. ASSUME NEW i \in 1 .. n, NEW r \in Results
      PROVE  (IF r.conflict THEN r ELSE G[i][r.facts]) \in Results
  <2>1. r.facts \in Facts /\ G[i] \in [Facts -> Results]
    BY DEF Results, StepsType
  <2> QED
    BY <2>1
<1>3. \A i \in 1 .. n : [r \in Results |-> IF r.conflict THEN r ELSE G[i][r.facts]]
                          \in [Results -> Results]
  BY <1>2
<1>4. F \in [1 .. n -> [Results -> Results]]
  BY <1>1, <1>3
<1>5. PICK f \in [0 .. n -> Results] : \A i \in 0 .. n : f[i] = CountedBy(v, F, f, i)
  BY <1>4, CountedResults
<1>6. ASSUME NEW i \in 0 .. n
      PROVE  f[i] = StepsBy(v, G, f, i)
  <2>1. f[i] = IF i = 0 THEN v ELSE F[i][f[i - 1]]
    BY <1>5 DEF CountedBy
  <2>2. CASE i = 0
    BY <2>1, <2>2 DEF StepsBy
  <2>3. CASE i # 0
    <3>1. i \in 1 .. n /\ i - 1 \in 0 .. n
      BY <2>3
    <3>2. PICK r \in Results : r = f[i - 1]
      BY <3>1
    <3>3. PICK e : e = [s \in Results |-> IF s.conflict THEN s ELSE G[i][s.facts]]
      OBVIOUS
    <3>4. F[i] = e /\ e[r] = IF r.conflict THEN r ELSE G[i][r.facts]
      BY <1>1, <3>1, <3>3
    <3> QED
      BY <2>1, <2>3, <3>2, <3>4 DEF StepsBy
  <2> QED
    BY <2>2, <2>3
<1> DEFINE P(g) == g = [i \in 0 .. n |-> StepsBy(v, G, g, i)]
<1>7. P(f)
  <2>1. f = [i \in 0 .. n |-> f[i]]
    OBVIOUS
  <2> QED
    BY <1>6, <2>1
<1>8. Steps(n, v, G) = CHOOSE g : P(g)
  BY DEF Steps
<1> HIDE DEF P
<1>9. P(CHOOSE g : P(g))
  BY <1>7
<1>10. P(Steps(n, v, G))
  BY <1>8, <1>9
<1> QED
  BY <1>10 DEF P

(* What each step keeps, all of them keep. *)
LEMMA StepsKeep ==
  ASSUME NEW n \in Nat, NEW G, StepsType(n, G),
         NEW K \in SUBSET Results, NEW v \in K,
         \A i \in 1 .. n : \A r \in K : ~r.conflict => G[i][r.facts] \in K
  PROVE  Steps(n, v, G)[n] \in K
<1>1. PICK f : f = Steps(n, v, G)
  OBVIOUS
<1>2. \A i \in 0 .. n : f[i] = StepsBy(v, G, f, i)
  BY <1>1, StepsAre
<1> DEFINE S == {i \in 0 .. n : f[i] \in K}
<1>3. 0 \in S
  BY <1>2 DEF StepsBy
<1>4. ASSUME NEW i \in 1 .. n, i - 1 \in S
      PROVE  i \in S
  <2>1. i \in 0 .. n /\ i # 0 /\ f[i - 1] \in K
    BY <1>4
  <2>2. PICK r \in K : r = f[i - 1]
    BY <2>1
  <2>3. f[i] = IF r.conflict THEN r ELSE G[i][r.facts]
    BY <1>2, <2>1, <2>2 DEF StepsBy
  <2> QED
    BY <2>1, <2>3
<1>5. \A i \in 0 .. n : i \in S
  <2> HIDE DEF S
  <2> QED
    BY <1>3, <1>4, Counting
<1> QED
  BY <1>1, <1>5

(* The assertions are propagated one after the other. *)
OneByOne(asserted) == [i \in 1 .. Len(asserted) |-> Propagate[asserted[i]][FALSE]]

LEMMA AllIs ==
  ASSUME NEW s \in Seq(Addr), NEW facts \in Facts
  PROVE  PropagateAll(s, facts) = Steps(Len(s), Result(facts, FALSE), OneByOne(s))[Len(s)]
<1>1. PICK n, G : n \in Nat /\ n = Len(s) /\ G = OneByOne(s)
  OBVIOUS
<1>2. ASSUME NEW f, NEW i \in 0 .. n
      PROVE  StepsBy(Result(facts, FALSE), G, f, i)
               = IF i = 0 THEN Result(facts, FALSE)
                 ELSE LET r == f[i - 1]
                      IN  IF r.conflict THEN r ELSE Propagate[s[i]][FALSE][r.facts]
  <2>1. i # 0 => i \in 1 .. n
    OBVIOUS
  <2>2. i # 0 => G[i] = Propagate[s[i]][FALSE]
    BY <1>1, <2>1 DEF OneByOne
  <2> QED
    BY <2>2 DEF StepsBy
<1>3. \A f : [i \in 0 .. n |-> StepsBy(Result(facts, FALSE), G, f, i)]
               = [i \in 0 .. n |->
                    IF i = 0 THEN Result(facts, FALSE)
                    ELSE LET r == f[i - 1]
                         IN  IF r.conflict THEN r ELSE Propagate[s[i]][FALSE][r.facts]]
  BY <1>2
<1>4. Steps(n, Result(facts, FALSE), G)
        = CHOOSE f : f = [i \in 0 .. n |->
                    IF i = 0 THEN Result(facts, FALSE)
                    ELSE LET r == f[i - 1]
                         IN  IF r.conflict THEN r ELSE Propagate[s[i]][FALSE][r.facts]]
  BY <1>3 DEF Steps
<1> QED
  BY <1>1, <1>4 DEF PropagateAll

LEMMA AllRight ==
  ASSUME HeapOK, WellFormed(heap), NEW s \in Seq(Addr), NEW facts \in Facts
  PROVE  /\ PropagateAll(s, facts) \in Results
         /\ \A M : /\ \A i \in DOMAIN s : ~NegatesConjunction[s[i]] /\ Holds(M, Meaning[s[i]])
                   /\ SoundFor(M, facts)
                   => RightFor(M, PropagateAll(s, facts))
<1>1. PICK n, G, v : n \in Nat /\ n = Len(s) /\ G = OneByOne(s) /\ v = Result(facts, FALSE)
  <2>1. Len(s) \in Nat
    OBVIOUS
  <2> QED
    BY <2>1, Zenon
<1>2. ASSUME NEW i \in 1 .. n
      PROVE  s[i] \in Addr /\ G[i] = Propagate[s[i]][FALSE] /\ G[i] \in [Facts -> Results]
  <2>1. s[i] \in Addr /\ G[i] = Propagate[s[i]][FALSE]
    BY <1>1 DEF OneByOne
  <2>2. Propagate[s[i]] \in Propagations
    BY <2>1, PropagateAre
  <2> QED
    BY <2>1, <2>2 DEF Propagations
<1>3. StepsType(n, G)
  BY <1>1, <1>2 DEF OneByOne, StepsType
<1>4. PropagateAll(s, facts) = Steps(n, v, G)[n]
  BY <1>1, AllIs
<1>5. v \in Results
  BY <1>1, ResultType
<1>6. PropagateAll(s, facts) \in Results
  <2>1. \A i \in 1 .. n : \A r \in Results : G[i][r.facts] \in Results
    BY <1>2 DEF Results
  <2>2. n \in Nat
    BY <1>1
  <2>3. Steps(n, v, G)[n] \in Results
    BY <1>3, <1>5, <2>1, <2>2, StepsKeep
  <2> QED
    BY <1>4, <2>3
<1>7. ASSUME NEW M, SoundFor(M, facts),
             \A i \in DOMAIN s : ~NegatesConjunction[s[i]] /\ Holds(M, Meaning[s[i]])
      PROVE  RightFor(M, PropagateAll(s, facts))
  <2>1. PICK K : K = {r \in Results : RightFor(M, r)}
    OBVIOUS
  <2>2. v \in K
    BY <1>1, <1>5, <1>7, <2>1, NoChange
  <2>3. ASSUME NEW i \in 1 .. n, NEW r \in K
        PROVE  G[i][r.facts] \in K
    <3>1. r.facts \in Facts /\ SoundFor(M, r.facts)
      BY <2>1 DEF RightFor, Results
    <3>2. i \in DOMAIN s
      BY <1>1
    <3>3. PropagatesRight(M, s[i])
      BY <1>2, <1>7, <3>2, PropagateRight
    <3>4. RightFor(M, Propagate[s[i]][FALSE][r.facts])
      BY <1>7, <3>1, <3>2, <3>3 DEF PropagatesRight
    <3> QED
      BY <1>2, <2>1, <3>4 DEF RightFor
  <2>4. Steps(n, v, G)[n] \in K
    BY <1>1, <1>3, <2>1, <2>2, <2>3, StepsKeep
  <2> QED
    BY <1>4, <2>1, <2>4
<1> QED
  BY <1>6, <1>7

RoundBy(s, f, i) ==
  IF i = 0 THEN Result({}, FALSE)
  ELSE LET r == f[i - 1] IN IF r.conflict THEN r ELSE PropagateAll(s, r.facts)

Rounds(s, n) == CHOOSE f : f = [i \in 0 .. n |-> RoundBy(s, f, i)]

LEMMA DeducedIs ==
  ASSUME NEW s, NEW n \in Nat, n = Cardinality(Addr) + 1
  PROVE  Deduced(s) = IF Rounds(s, n)[n].conflict THEN "unsat" ELSE "unknown"
BY DEF Deduced, Rounds, RoundBy

LEMMA RoundsAre ==
  ASSUME HeapOK, WellFormed(heap), NEW s \in Seq(Addr), NEW n \in Nat
  PROVE  \A i \in 0 .. n : Rounds(s, n)[i] = RoundBy(s, Rounds(s, n), i)
<1>1. PICK G, v : G = [i \in 1 .. n |-> [facts \in Facts |-> PropagateAll(s, facts)]]
                  /\ v = Result({}, FALSE)
  OBVIOUS
<1>2. v \in Results
  <2>1. {} \in Facts
    BY DEF Facts
  <2> QED
    BY <1>1, <2>1, ResultType
<1>3. \A facts \in Facts : PropagateAll(s, facts) \in Results
  BY AllRight
<1>4. [facts \in Facts |-> PropagateAll(s, facts)] \in [Facts -> Results]
  BY <1>3
<1>5. StepsType(n, G)
  BY <1>1, <1>4 DEF StepsType
<1>6. PICK f : f = Steps(n, v, G)
  OBVIOUS
<1>7. \A i \in 0 .. n : f[i] = StepsBy(v, G, f, i)
  BY <1>2, <1>5, <1>6, StepsAre
<1>8. \A i \in 1 .. n : \A facts \in Facts : G[i][facts] = PropagateAll(s, facts)
  <2>1. \A i \in 1 .. n : G[i] = [facts \in Facts |-> PropagateAll(s, facts)]
    BY <1>1
  <2> QED
    BY <2>1
<1> DEFINE S == {i \in 0 .. n : f[i] \in Results}
<1>9. 0 \in S
  BY <1>2, <1>7 DEF StepsBy
<1>10. ASSUME NEW i \in 1 .. n, i - 1 \in S
       PROVE  i \in S /\ f[i] = RoundBy(s, f, i)
  <2>1. i \in 0 .. n /\ i # 0 /\ f[i - 1] \in Results
    BY <1>10
  <2>2. PICK r \in Results : r = f[i - 1]
    BY <2>1
  <2>3. r.facts \in Facts
    BY DEF Results
  <2>4. f[i] = IF r.conflict THEN r ELSE PropagateAll(s, r.facts)
    BY <1>7, <1>8, <2>1, <2>2, <2>3 DEF StepsBy
  <2> QED
    BY <1>3, <2>1, <2>2, <2>3, <2>4 DEF RoundBy
<1>11. \A i \in 0 .. n : i \in S
  <2> HIDE DEF S
  <2> QED
    BY <1>9, <1>10, Counting
<1>12. ASSUME NEW i \in 0 .. n
       PROVE  f[i] = RoundBy(s, f, i)
  <2>1. CASE i = 0
    BY <1>1, <1>7, <2>1 DEF StepsBy, RoundBy
  <2>2. CASE i # 0
    <3>1. i \in 1 .. n /\ i - 1 \in 0 .. n
      BY <2>2
    <3>2. i - 1 \in S
      BY <1>11, <3>1
    <3> QED
      BY <1>10, <3>1, <3>2
  <2> QED
    BY <2>1, <2>2
<1> DEFINE P(g) == g = [i \in 0 .. n |-> RoundBy(s, g, i)]
<1>13. P([i \in 0 .. n |-> f[i]])
  <2>1. PICK g : g = [i \in 0 .. n |-> f[i]]
    OBVIOUS
  <2>2. ASSUME NEW i \in 0 .. n
        PROVE  g[i] = RoundBy(s, g, i)
    <3>1. i # 0 => i - 1 \in 0 .. n
      OBVIOUS
    <3>2. i # 0 => g[i - 1] = f[i - 1]
      BY <2>1, <3>1
    <3>3. RoundBy(s, g, i) = RoundBy(s, f, i)
      BY <3>2 DEF RoundBy
    <3> QED
      BY <1>12, <2>1, <3>3
  <2>3. g = [i \in 0 .. n |-> g[i]]
    BY <2>1
  <2>4. P(g)
    BY <2>2, <2>3
  <2> QED
    BY <2>1, <2>4
<1>14. Rounds(s, n) = CHOOSE g : P(g)
  BY DEF Rounds
<1> HIDE DEF P
<1>15. P(CHOOSE g : P(g))
  BY <1>13
<1>16. P(Rounds(s, n))
  BY <1>14, <1>15
<1> QED
  BY <1>16 DEF P

(* If all assertions are true of something, nothing contradicts them. *)
LEMMA RoundsRight ==
  ASSUME HeapOK, WellFormed(heap), NEW s \in Seq(Addr), NEW n \in Nat, NEW M,
         \A i \in DOMAIN s : ~NegatesConjunction[s[i]] /\ Holds(M, Meaning[s[i]])
  PROVE  RightFor(M, Rounds(s, n)[n])
<1>1. PICK f : f = Rounds(s, n)
  OBVIOUS
<1>2. \A i \in 0 .. n : f[i] = RoundBy(s, f, i)
  BY <1>1, RoundsAre
<1> DEFINE S == {i \in 0 .. n : RightFor(M, f[i])}
<1>3. 0 \in S
  <2>1. {} \in Facts /\ SoundFor(M, {})
    BY DEF Facts, SoundFor
  <2>2. f[0] = Result({}, FALSE)
    <3>1. 0 \in 0 .. n
      OBVIOUS
    <3> QED
      BY <1>2, <3>1 DEF RoundBy
  <2>3. RightFor(M, f[0])
    BY <2>1, <2>2, NoChange
  <2> QED
    BY <2>3
<1>4. ASSUME NEW i \in 1 .. n, i - 1 \in S
      PROVE  i \in S
  <2>1. i \in 0 .. n /\ i # 0 /\ RightFor(M, f[i - 1])
    BY <1>4
  <2>2. PICK r : r = f[i - 1] /\ RightFor(M, r)
    BY <2>1
  <2>3. r.facts \in Facts /\ SoundFor(M, r.facts) /\ ~r.conflict
    BY <2>2 DEF RightFor, Results
  <2>4. f[i] = PropagateAll(s, r.facts)
    BY <1>2, <2>1, <2>2, <2>3 DEF RoundBy
  <2>5. RightFor(M, f[i])
    BY <2>3, <2>4, AllRight
  <2> QED
    BY <2>1, <2>5
<1>5. \A i \in 0 .. n : i \in S
  <2> HIDE DEF S
  <2> QED
    BY <1>3, <1>4, Counting
<1> QED
  BY <1>1, <1>5

LEMMA DeductionSound ==
  ASSUME HeapOK, WellFormed(heap), NEW s \in Seq(Addr),
         \A i \in DOMAIN s : ~NegatesConjunction[s[i]],
         NEW F, \A i \in DOMAIN s : Meaning[s[i]] \in F
  PROVE  \/ Deduced(s) = "unknown"
         \/ Deduced(s) = "unsat" /\ ~Consistent(F)
<1>1. PICK n \in Nat : n = Cardinality(Addr) + 1
  <2>1. Cardinality(Addr) \in Nat
    BY ExpressionsAssumption, FS_CardinalityType
  <2> QED
    BY <2>1
<1>2. Deduced(s) = IF Rounds(s, n)[n].conflict THEN "unsat" ELSE "unknown"
  BY <1>1, DeducedIs
<1>3. ASSUME Consistent(F)
      PROVE  ~Rounds(s, n)[n].conflict
  <2>1. PICK M : \A f \in F : Holds(M, f)
    BY <1>3, ConsistentIs
  <2>2. RightFor(M, Rounds(s, n)[n])
    BY <2>1, RoundsRight
  <2> QED
    BY <2>2 DEF RightFor
<1> QED
  BY <1>2, <1>3

-----------------------------------------------------------------------------
(* No conjunction is below a negation in what DeduceSolver is given.       *)

NoneNegated ==
  backend = "deduce" /\ ~NegatesConjunctions =>
    \A i \in DOMAIN assertions : ~NegatesConjunction[assertions[i]]

LEMMA NegatesLast ==
  ASSUME Between, NEW a \in Lasting
  PROVE  NegatesConjunction'[a] <=> NegatesConjunction[a]
<1>1. PICK S \in SUBSET Addr : S = Lasting
  BY DEF Lasting
<1>2. \A b \in S : /\ heap'[b].kind = heap[b].kind /\ heap'[b].args = heap[b].args
                   /\ \A i \in DOMAIN heap[b].args : heap[b].args[i] \in S
  BY <1>1, OperandsLast DEF ShapesLast, Between
<1>3. WellFormed(heap) /\ WellFormed(heap')
  BY DEF Between
<1>4. Negates(heap')[a] <=> Negates(heap)[a]
  BY <1>1, <1>2, <1>3, SameNegates
<1> QED
  BY <1>4, NegatesNow, NegatesThen

(* Each assertion was one before, or is one that Asserted() lets through. *)
LEMMA NoneNegatedStep ==
  ASSUME Between, NoneNegated,
         \A j \in DOMAIN assertions' :
           \/ \E i \in DOMAIN assertions : assertions'[j] = assertions[i]
           \/ /\ assertions'[j] \in Addr /\ heap[assertions'[j]].refs >= 1
              /\ NegatesConjunctions \/ backend # "deduce" \/ ~NegatesConjunction[assertions'[j]]
  PROVE  NoneNegated'
<1>1. UNCHANGED backend
  BY DEF Between
<1>2. ASSUME backend = "deduce", ~NegatesConjunctions, NEW j \in DOMAIN assertions'
      PROVE  ~NegatesConjunction'[assertions'[j]]
  <2>1. PICK a : a = assertions'[j]
    OBVIOUS
  <2>2. a \in Addr /\ heap[a].refs >= 1 /\ ~NegatesConjunction[a]
    BY <1>2, <2>1, AssertedLive DEF NoneNegated, Between
  <2>3. heap'[a].refs >= 1
    BY <2>1, AssertedLiveThen DEF Between
  <2>4. a \in Lasting
    BY <2>2, <2>3 DEF Lasting
  <2> QED
    BY <2>1, <2>2, <2>4, NegatesLast
<1> QED
  BY <1>1, <1>2 DEF NoneNegated

LEMMA NoneNegatedAdd ==
  ASSUME Between, NoneNegated, NEW y \in Addr, heap[y].refs >= 1, Asserted(y)
  PROVE  NoneNegated'
<1>1. /\ assertions' = Append(assertions, y)
      /\ NegatesConjunctions \/ backend # "deduce" \/ ~NegatesConjunction[y]
  BY DEF Asserted
<1>2. assertions \in Seq(Addr)
  BY DEF Between, Memory, PointersOK
<1>3. \A j \in DOMAIN assertions' : assertions'[j] = y \/ \E i \in DOMAIN assertions : assertions'[j] = assertions[i]
  <2> SUFFICES ASSUME NEW j \in DOMAIN assertions'
               PROVE  assertions'[j] = y \/ \E i \in DOMAIN assertions : assertions'[j] = assertions[i]
    OBVIOUS
  <2>1. j \in 1 .. Len(assertions) + 1 /\ Len(assertions) \in Nat
    BY <1>1, <1>2
  <2>2. CASE j = Len(assertions) + 1
    BY <1>1, <1>2, <2>2
  <2>3. CASE j # Len(assertions) + 1
    <3>1. j \in DOMAIN assertions /\ assertions'[j] = assertions[j]
      BY <1>1, <1>2, <2>1, <2>3
    <3> QED
      BY <3>1
  <2> QED
    BY <2>2, <2>3
<1>4. \A j \in DOMAIN assertions' :
           \/ \E i \in DOMAIN assertions : assertions'[j] = assertions[i]
           \/ /\ assertions'[j] \in Addr /\ heap[assertions'[j]].refs >= 1
              /\ NegatesConjunctions \/ backend # "deduce" \/ ~NegatesConjunction[assertions'[j]]
  BY <1>1, <1>3
<1> QED
  BY <1>4, NoneNegatedStep

LEMMA NoneNegatedNext ==
  ASSUME Invariant, Invariant', StackInStep, NoneNegated, [Next]_vars
  PROVE  NoneNegated'
<1>1. Memory /\ Memory' /\ HeapOK /\ WellFormed(heap)
  BY DEF Invariant, StackInStep, Memory
<1>2. Between
  <2>1. CASE Next
    <3>1. WellFormed(heap') /\ ShapesKept
      BY <1>1, <2>1, ShapesNext
    <3>2. UNCHANGED <<backend, consing>>
      BY <2>1, SameKindOfSolver
    <3> QED
      BY <1>1, <3>1, <3>2, ShapesKeptLast DEF Between
  <2>2. CASE UNCHANGED vars
    <3>1. UNCHANGED <<heap, backend, consing>>
      BY <2>2 DEF vars, expr_vars, solver_vars
    <3>2. SameShapes
      BY <3>1 DEF SameShapes, ShapeAt
    <3>3. WellFormed(heap') /\ ShapesKept
      BY <1>1, <3>2, SameShapesKept
    <3> QED
      BY <1>1, <3>1, <3>3, ShapesKeptLast DEF Between
  <2> QED
    BY <2>1, <2>2
<1>3. CASE UNCHANGED assertions
  BY <1>2, <1>3, NoneNegatedStep
<1>4. CASE assertions' = << >>
  BY <1>2, <1>4, NoneNegatedStep
<1>5. CASE pop
  <2>1. assertions' = SubSeq(assertions, 1, Kept)
    BY <1>5 DEF pop
  <2>2. Kept \in 0 .. Len(assertions) /\ assertions \in Seq(Addr)
    BY <1>1, <1>5, StackPop DEF Memory, PointersOK
  <2>3. \A j \in DOMAIN assertions' : j \in DOMAIN assertions /\ assertions'[j] = assertions[j]
    BY <2>1, <2>2
  <2> QED
    BY <1>2, <2>3, NoneNegatedStep
<1>6. ASSUME NEW v \in Handle, add(v) \/ add_moved(v)
      PROVE  NoneNegated'
  <2>1. PICK y : y = handle[v]
    OBVIOUS
  <2>2. handle[v] # Null /\ Asserted(y)
    BY <1>6, <2>1 DEF add, add_moved
  <2>3. y \in Addr /\ heap[y].refs >= 1
    BY <1>1, <2>1, <2>2, HandleType
  <2> QED
    BY <1>2, <2>2, <2>3, NoneNegatedAdd
<1>7. CASE Express \/ DecStep \/ GoOn \/ Construct \/ UNCHANGED vars
  BY <1>3, <1>7 DEF Express, DecStep, GoOn, Construct, solver_vars, vars
<1>8. CASE push \/ check \/ DeleteAndNotify \/ __pop \/ __reset
  BY <1>3, <1>8 DEF push, check, DeleteAndNotify, __pop, __reset, solver_vars
<1>9. CASE reset \/ Destroy
  BY <1>4, <1>9 DEF reset, Destroy
<1>10. ASSUME NEW assumptions, NEW room, check_assumptions(assumptions, room)
       PROVE  NoneNegated'
  BY <1>3, <1>10 DEF check_assumptions
<1> QED
  BY <1>5, <1>6, <1>7, <1>8, <1>9, <1>10 DEF Next

LEMMA AssertedMeanings ==
  ASSUME Invariant, StackInStep
  PROVE  \A i \in DOMAIN assertions : Meaning[assertions[i]] \in AssertedNow
<1>1. PICK m : m = meant /\ Len(m) \in Nat /\ Len(m) >= 1
  <2>1. Len(meant) = Len(marks) + 1 /\ Len(marks) \in Nat
    BY MeantIs
  <2>2. Len(meant) \in Nat /\ Len(meant) >= 1
    BY <2>1
  <2> QED
    BY <2>2
<1>2. PICK B : m \in Seq(Seq(B))
  BY <1>1, MeantIs
<1>3. PICK S : S = AssertedNow
  OBVIOUS
<1>4. \A l \in 1 .. Len(m) : m[l] \in Seq(S)
  <2> SUFFICES ASSUME NEW l \in 1 .. Len(m)
               PROVE  m[l] \in Seq(S)
    OBVIOUS
  <2>1. m[l] \in Seq(B) /\ l \in DOMAIN m
    BY <1>1, <1>2
  <2>2. ToSet(m[l]) \subseteq S
    BY <1>1, <1>3, <2>1 DEF AssertedNow
  <2>3. \A i \in 1 .. Len(m[l]) : m[l][i] \in S
    BY <2>1, <2>2 DEF ToSet
  <2> QED
    BY <2>1, <2>3
<1>5. m \in Seq(Seq(S))
  BY <1>1, <1>2, <1>4
<1>6. FlattenSeq(m) \in Seq(S)
  BY <1>1, <1>5, FlatTypes
<1>7. [i \in DOMAIN assertions |-> Meaning[assertions[i]]] = FlattenSeq(m)
  BY <1>1, StackMeans DEF BackEndInStep
<1>8. PICK s : s = FlattenSeq(m)
  OBVIOUS
<1>9. DOMAIN s = DOMAIN assertions /\ \A i \in DOMAIN s : s[i] = Meaning[assertions[i]] /\ s[i] \in S
  BY <1>6, <1>7, <1>8
<1> QED
  BY <1>3, <1>9

(* DeduceSolver does not get negated conjunctions. *)
NoNegatedConjunctions == "deduce" \in Backend => ~NegatesConjunctions

LEMMA DeductionIsRight ==
  ASSUME NoNegatedConjunctions, Keeping, NoneNegated
  PROVE  DeductionRight
<1>1. HeapOK /\ WellFormed(heap) /\ backend \in Backend /\ assertions \in Seq(Addr)
  BY DEF Keeping, Invariant, StackInStep, Memory, PointersOK, StackOK
<1>2. ASSUME backend = "deduce"
      PROVE  \A i \in DOMAIN assertions : ~NegatesConjunction[assertions[i]]
  BY <1>1, <1>2 DEF NoNegatedConjunctions, NoneNegated
<1>3. \A i \in DOMAIN assertions : Meaning[assertions[i]] \in AssertedNow
  BY AssertedMeanings DEF Keeping
<1> QED
  BY <1>1, <1>2, <1>3, DeductionSound DEF DeductionRight

LEMMA PlainCacheInit == Init => PlainCache /\ NoneNegated
<1> SUFFICES ASSUME Init
             PROVE  PlainCache /\ NoneNegated
  OBVIOUS
<1>1. cache = [k \in {} |-> Nothing] /\ assertions = << >>
  BY DEF Init, SolverInit
<1>2. DOMAIN cache = {} /\ DOMAIN assertions = {}
  BY <1>1
<1> QED
  BY <1>2 DEF PlainCache, NoneNegated

(* The solver implements the assertion stack that its interface promises:  *)
(* every call that push(), pop(), reset(), add() or the destructor makes   *)
(* does to what the client has asserted what the interface says, every     *)
(* other step nothing, and every answer of check() and of                  *)
(* check_assumptions() is right for what is asserted then, an unsat core   *)
(* included, whichever back end gives it and whatever expressions came and *)
(* went before; as long as MathSAT gets no assumption but symbols and      *)
(* DeduceSolver no negated conjunction.                                    *)
THEOREM SolverPromise ==
  ASSUME OnlySymbols, NoNegatedConjunctions
  PROVE  Spec => SolverKeepsPromise
<1>1. Spec => []Invariant
  BY SolverInvariant
<1>2. Spec => []StackInStep
  BY SolverStackInStep
<1>3. /\ Invariant /\ Invariant' /\ StackInStep /\ PlainCache /\ NoneNegated /\ [Next]_vars
      => PlainCache' /\ NoneNegated'
  BY PlainCacheNext, NoneNegatedNext
<1>4. Spec => [](PlainCache /\ NoneNegated)
  BY <1>1, <1>2, <1>3, PlainCacheInit, PTL DEF Spec
<1>5. /\ Invariant /\ StackInStep /\ PlainCache /\ NoneNegated /\ [Next]_vars
      => [Promise!Next]_(Promise!vars)
  BY DeductionIsRight, PromiseNext DEF Keeping
<1> QED
  BY <1>1, <1>2, <1>4, <1>5, PromiseInit, PTL DEF Spec, SolverKeepsPromise, Promise!Spec
=============================================================================
