---------------------------- MODULE ExecutionTree ----------------------------
(***************************************************************************)
(* The program under symbolic execution, as the path explorers of          *)
(* include/nse_sequential.h see it.                                        *)
(*                                                                         *)
(* A program is native C++ code that is run again for every path.  Its     *)
(* only contact with an explorer are calls of add_assertion, add_error,    *)
(* branch and force_branch; between two runs it differs only in the        *)
(* Boolean results branch and force_branch return.  It is therefore a      *)
(* decision tree: a node is named by the results returned so far, has a    *)
(* body (the calls made before the next branch on a term) and either       *)
(* branches or ends the run.                                               *)
(*                                                                         *)
(* An SMT term over the symbolic inputs is represented by its meaning, the *)
(* set of valuations of the inputs that make it true.                      *)
(***************************************************************************)
EXTENDS Naturals, Sequences

CONSTANTS
  Inputs,    \* valuations of the program's symbolic inputs
  Tree,      \* names of nodes: sequences of branch results
  Programs   \* the programs under consideration

Condition == SUBSET Inputs

(* add_assertion(c), add_error(c), or a call that a literal condition makes *)
(* do nothing: a branch on it, or adding it as an error.                    *)
Statement == [op : {"assertion", "error", "literal"}, cond : Condition]

(* hint is the direction_hint argument of branch; force_branch has none. *)
Node == [body : Seq(Statement),
         kind : {"branch", "force_branch", "exit"},
         cond : Condition,
         hint : BOOLEAN]

(* The node a run is at after the first k results of path p. *)
At(prog, p, k) == prog[SubSeq(p, 1, k)]

ASSUME TreeAssumption ==
  /\ Tree \subseteq Seq(BOOLEAN)
  /\ << >> \in Tree
  /\ Programs \subseteq [Tree -> Node]
  /\ \A prog \in Programs, p \in Tree :
        prog[p].kind # "exit" => \A b \in BOOLEAN : Append(p, b) \in Tree

-----------------------------------------------------------------------------
(* The concrete semantics of a program, which knows nothing of explorers.  *)

(* Input v makes every branch along p return the result recorded in p. *)
Follows(prog, p, v) ==
  \A k \in 1 .. Len(p) :
     /\ At(prog, p, k - 1).kind # "exit"
     /\ p[k] = (v \in At(prog, p, k - 1).cond)

(* Input v satisfies the assertions a run along p makes. *)
Admits(prog, p, v) ==
  \A k \in 0 .. Len(p) : \A i \in 1 .. Len(At(prog, p, k).body) :
     At(prog, p, k).body[i].op = "assertion" => v \in At(prog, p, k).body[i].cond

(* A complete run of the program. *)
IsPath(prog, p) ==
  /\ p \in Tree
  /\ prog[p].kind = "exit"
  /\ \A k \in 1 .. Len(p) : At(prog, p, k - 1).kind # "exit"

Paths(prog) == {p \in Tree : IsPath(prog, p)}

(* Input v drives the program along the complete path p. *)
Runs(prog, p, v) == IsPath(prog, p) /\ Follows(prog, p, v) /\ Admits(prog, p, v)

FeasiblePaths(prog) == {p \in Paths(prog) : \E v \in Inputs : Runs(prog, p, v)}

(* Input v makes an error condition true somewhere along p. *)
Fails(prog, p, v) ==
  \E k \in 0 .. Len(p) : \E i \in 1 .. Len(At(prog, p, k).body) :
     At(prog, p, k).body[i].op = "error" /\ v \in At(prog, p, k).body[i].cond
=============================================================================
