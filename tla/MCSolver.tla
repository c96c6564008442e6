------------------------------ MODULE MCSolver ------------------------------
EXTENDS Solver, TLC

(* To keep the instance small, not every client makes every connective.    *)
(* Without any, expressions are symbols and negations.                     *)
ConnectivesPerBackend ==
  [b \in Backend |-> CASE b = "deduce" -> {"land", "lor"}
                       [] b = "msat" -> {"lor"}
                       [] OTHER -> {}]

(* Addresses and handles are interchangeable *)
Symmetry == Permutations(Addr) \union Permutations(Handle)
=============================================================================
