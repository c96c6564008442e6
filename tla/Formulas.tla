------------------------------ MODULE Formulas ------------------------------
(***************************************************************************)
(* The Boolean skeleton of formulas, by meaning: a formula is the set of   *)
(* variables it is over and the set of its models, each given by the       *)
(* variables it makes true.  This is what the Boolean operators of the     *)
(* expressions (include/smt.h) and of the solvers behind them denote.      *)
(***************************************************************************)
EXTENDS Naturals, Sequences, SequencesExt

(* The formulas over a set of variables *)
FormulasOver(V) ==
  UNION {[over : {U}, models : SUBSET SUBSET U] : U \in SUBSET V}

Atom(x) == [over |-> {x}, models |-> {{x}}]

Negation(f) == [f EXCEPT !.models = (SUBSET f.over) \ @]

(* The models of f, with every value of the variables it is not over *)
ModelsOver(f, V) == {M \in SUBSET V : M \intersect f.over \in f.models}

Conjunction(f, g) ==
  LET V == f.over \union g.over
  IN  [over |-> V, models |-> ModelsOver(f, V) \intersect ModelsOver(g, V)]

Disjunction(f, g) == Negation(Conjunction(Negation(f), Negation(g)))

Implication(f, g) == Disjunction(Negation(f), g)

Equivalence(f, g) == Conjunction(Implication(f, g), Implication(g, f))

Consistent(fs) ==
  LET V == UNION {f.over : f \in fs}
  IN  \E M \in SUBSET V : \A f \in fs : M \intersect f.over \in f.models

(* The formula with its variables renamed; distinct ones stay distinct     *)
(* where rename is injective, and are identified where it is not           *)
Renamed(f, rename) ==
  LET V == {rename[x] : x \in f.over}
  IN  [over   |-> V,
       models |-> {M \in SUBSET V : {x \in f.over : rename[x] \in M} \in f.models}]
=============================================================================
