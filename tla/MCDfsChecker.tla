---------------------------- MODULE MCDfsChecker ----------------------------
(* DfsChecker for programs over two bits: branches test the first of them, *)
(* scopes the second one, and errors either bit or both.                   *)
EXTENDS DfsChecker

Bits == BOOLEAN \X BOOLEAN

Bit(i) == {v \in Bits : v[i]}

TestedBits ==
  [then   |-> {Bit(2)},
   branch |-> {Bit(1)},
   error  |-> {Bit(1) \union Bit(2)}]

NestedBits == [TestedBits EXCEPT !.then = {Bit(1), Bit(2)}]
=============================================================================
