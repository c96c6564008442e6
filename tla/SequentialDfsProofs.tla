-------------------------- MODULE SequentialDfsProofs --------------------------
(***************************************************************************)
(* Proofs about SequentialDfs, for every set of inputs and every program,  *)
(* however many branches it makes.                                         *)
(***************************************************************************)
EXTENDS SequentialDfs, TLAPS

-----------------------------------------------------------------------------
(* Paths and the nodes along them.                                         *)

IsPrefixOf(p, q) ==
  /\ Len(p) <= Len(q)
  /\ \A j \in 1 .. Len(p) : p[j] = q[j]

(* Two paths pass through the same nodes as far as they agree. *)
LEMMA SameNodes ==
  ASSUME NEW g, NEW p \in Seq(BOOLEAN), NEW q \in Seq(BOOLEAN),
         NEW k \in 0 .. Len(p), k <= Len(q), \A j \in 1 .. k : p[j] = q[j]
  PROVE  At(g, p, k) = At(g, q, k)
<1>1. SubSeq(p, 1, k) = SubSeq(q, 1, k)
  OBVIOUS
<1> QED
  BY <1>1 DEF At

(* The last node of a path. *)
LEMMA LastNode ==
  ASSUME NEW g, NEW p \in Seq(BOOLEAN)
  PROVE  At(g, p, Len(p)) = g[p]
<1>1. SubSeq(p, 1, Len(p)) = p
  OBVIOUS
<1> QED
  BY <1>1 DEF At

-----------------------------------------------------------------------------
(* Type correctness.                                                       *)

LEMMA TypeInit == Init => TypeOK
BY TreeAssumption DEF Init, TypeOK, DfsInit, DfsTypeOK, node, Condition

(* A program is a tree of nodes. *)
LEMMA ProgramType ==
  ASSUME TypeOK, NEW p \in Tree
  PROVE  /\ prog[p] \in Node
         /\ prog[p].body \in Seq(Statement)
         /\ prog[p].kind \in {"branch", "force_branch", "exit"}
         /\ prog[p].cond \in Condition
         /\ prog[p].hint \in BOOLEAN
<1>1. prog \in [Tree -> Node]
  BY TreeAssumption DEF TypeOK
<1>2. prog[p] \in Node
  BY <1>1
<1> QED
  BY <1>2 DEF Node

(* A prefix of a sequence *)
LEMMA Prefix ==
  ASSUME NEW S, NEW s \in Seq(S), NEW n \in 1 .. Len(s)
  PROVE  SubSeq(s, 1, n) \in Seq(S) /\ Len(SubSeq(s, 1, n)) = n
OBVIOUS

(* The history of the flips *)
MadeTypeOK ==
  /\ made \in Seq([at : Tree, feasible : BOOLEAN])
  /\ Len(made) = Len(flips)

(* A step to the next node of the tree. *)
LEMMA TypeReturn ==
  ASSUME TypeOK, AtEndOfBody, node.kind # "exit", NEW d \in BOOLEAN, Return(d),
         DfsTypeOK', guards' \in Condition, is_feasible' \in BOOLEAN,
         MadeTypeOK'
  PROVE  TypeOK'
<1>1. /\ prog' = prog
      /\ path' = Append(path, d)
      /\ path' \in Tree
  BY TreeAssumption DEF TypeOK, Return, node, AtEndOfBody
<1>2. prog[path'].body \in Seq(Statement)
  BY <1>1, ProgramType
<1> QED
  BY <1>1, <1>2 DEF TypeOK, Return, node, MadeTypeOK

LEMMA TypeNext == TypeOK /\ [Next]_vars => TypeOK'
<1> SUFFICES ASSUME TypeOK, [Next]_vars
             PROVE  TypeOK'
  OBVIOUS
<1>1. /\ node \in Node
      /\ node.body \in Seq(Statement)
      /\ node.hint \in BOOLEAN
      /\ node.cond \in Condition
      /\ InBody => stmt \in Statement
  BY ProgramType DEF TypeOK, node, stmt, InBody
<1>2. ASSUME NEW d \in BOOLEAN, AddGuard(d)
      PROVE  guards' \in Condition
  BY <1>1, <1>2 DEF AddGuard, Side, TypeOK, Node, Condition
<1>3. ASSUME HasNext
      PROVE  NextDirection \in BOOLEAN /\ (TakeNext => DfsTypeOK')
  <2>1. flips[flip_index + 1] \in Flip
    BY <1>3 DEF HasNext, TypeOK, DfsTypeOK
  <2> QED
    BY <1>3, <2>1 DEF HasNext, NextDirection, TakeNext, TypeOK, DfsTypeOK, Flip
<1>4. ASSUME NEW d \in BOOLEAN, NEW frozen \in BOOLEAN, ~HasNext,
             AppendFlipHere(d, frozen)
      PROVE  DfsTypeOK' /\ MadeTypeOK'
  <2>1. DfsTypeOK'
    BY <1>4 DEF HasNext, AppendFlipHere, AppendFlip, TypeOK, DfsTypeOK, Flip
  <2>2. MadeTypeOK'
    BY <1>4 DEF AppendFlipHere, AppendFlip, TypeOK, DfsTypeOK, MadeTypeOK
  <2> QED
    BY <2>1, <2>2
<1>5. /\ UNCHANGED dfs_vars => DfsTypeOK'
      /\ UNCHANGED made /\ Len(flips') = Len(flips) => MadeTypeOK'
      /\ UNCHANGED dfs_vars => Len(flips') = Len(flips)
      /\ TakeNext => Len(flips') = Len(flips)
  BY DEF dfs_vars, TypeOK, DfsTypeOK, MadeTypeOK, TakeNext
<1>6. CASE BranchLiteral
  BY <1>1, <1>5, <1>6 DEF BranchLiteral, Step, InBody, TypeOK, node
<1>7. CASE AddAssertion
  BY <1>1, <1>5, <1>7 DEF AddAssertion, Step, InBody, TypeOK, node, Statement,
    Condition
<1>8. CASE AddError
  BY <1>1, <1>5, <1>8 DEF AddError, Step, InBody, TypeOK, node, Statement
<1>9. CASE BranchWhenInfeasible
  BY <1>5, <1>9, TypeReturn DEF BranchWhenInfeasible, AtBranch, TypeOK
<1>10. CASE BranchReplay
  BY <1>2, <1>3, <1>5, <1>10, TypeReturn DEF BranchReplay, AtBranch, TypeOK
<1>11. CASE BranchAsHinted
  BY <1>1, <1>2, <1>4, <1>11, TypeReturn
    DEF BranchAsHinted, AtNewBranch, AtBranch, TypeOK, Node
<1>12. CASE BranchAgainstHint
  BY <1>1, <1>2, <1>4, <1>12, TypeReturn
    DEF BranchAgainstHint, AtNewBranch, AtBranch, TypeOK, Node
<1>13. CASE BranchNowhere
  BY <1>5, <1>13, TypeReturn DEF BranchNowhere, AtNewBranch, AtBranch, TypeOK
<1>14. CASE ForceBranch
  BY <1>2, <1>3, <1>4, <1>5, <1>14, TypeReturn DEF ForceBranch, TypeOK
<1>15. CASE Check
  <2>1. solver' \in Condition /\ reported' \in SUBSET Tree
    BY <1>15 DEF Check, CheckErrors, TypeOK, Condition
  <2> QED
    BY <1>5, <1>15, <2>1 DEF Check, TypeOK, node
<1>16. CASE FindNextPath
  <2>1. PICK k \in 1 .. Len(flips) : flips' = Alternate(flips, k) /\ flip_index' = 0
    BY <1>16 DEF FindNextPath, DfsFindsPath
  <2>2. DfsTypeOK'
    <3>1. flips[k] \in Flip /\ SubSeq(flips, 1, k - 1) \in Seq(Flip)
      BY DEF TypeOK, DfsTypeOK
    <3>2. [direction |-> ~flips[k].direction, is_frozen |-> TRUE] \in Flip
      BY <3>1 DEF Flip
    <3> QED
      BY <2>1, <3>1, <3>2 DEF Alternate, DfsTypeOK
  <2>3. prog[<< >>].body \in Seq(Statement) /\ << >> \in Tree
    BY TreeAssumption, ProgramType
  <2>4. MadeTypeOK'
    <3>1. Len(flips') = k
      BY <2>1 DEF Alternate, TypeOK, DfsTypeOK
    <3>2. /\ made' = SubSeq(made, 1, k)
          /\ made \in Seq([at : Tree, feasible : BOOLEAN])
          /\ k \in 1 .. Len(made)
      BY <1>16, <3>1 DEF FindNextPath, TypeOK
    <3>3. /\ SubSeq(made, 1, k) \in Seq([at : Tree, feasible : BOOLEAN])
          /\ Len(SubSeq(made, 1, k)) = k
      BY <3>2, Prefix
    <3> QED
      BY <3>1, <3>2, <3>3 DEF MadeTypeOK
  <2> QED
    BY <1>16, <2>2, <2>3, <2>4 DEF MadeTypeOK, FindNextPath, ResetSolver, ResetGuards, ResetErrors,
      TypeOK, Condition, node
<1>17. CASE FindNoNextPath
  BY <1>17 DEF FindNoNextPath, DfsFindsNoPath, DfsReset, TypeOK, DfsTypeOK, node
<1>18. CASE Reset
  <2>1. prog[<< >>].body \in Seq(Statement) /\ << >> \in Tree
    BY TreeAssumption, ProgramType
  <2> QED
    BY <1>18, <2>1 DEF Reset, DfsReset, ResetSolver, ResetGuards, ResetErrors,
      TypeOK, DfsTypeOK, Condition, node
<1>19. CASE UNCHANGED vars
  BY <1>5, <1>19 DEF vars, TypeOK, node
<1> QED
  BY <1>6, <1>7, <1>8, <1>9, <1>10, <1>11, <1>12, <1>13, <1>14, <1>15, <1>16,
     <1>17, <1>18, <1>19 DEF Next, Analyse, ProgramStep

(* The explorer's state has the type its members declare: in particular    *)
(* m_flip_index never runs past m_flips, and a run never leaves the tree.  *)
THEOREM TypeCorrect == Spec => []TypeOK
BY TypeInit, TypeNext, PTL DEF Spec

-----------------------------------------------------------------------------
(* The path condition is exact.                                            *)

(* Until check() is called nothing but guards constrains a query. *)
SolverIsClean == phase = "run" => solver = Inputs

LEMMA SolverIsCleanNext == SolverIsClean /\ [Next]_vars => SolverIsClean'
BY DEF SolverIsClean, Next, Analyse, ProgramStep, Reset, ResetSolver, Step, Return,
  BranchLiteral, AddAssertion, AddError, BranchWhenInfeasible, BranchReplay,
  BranchAsHinted, BranchAgainstHint, BranchNowhere, ForceBranch, Check,
  FindNextPath, FindNoNextPath, vars

(* What one more branch result adds to the constraints of a run. *)
LEMMA OneMoreResult ==
  ASSUME TypeOK, AtEndOfBody, node.kind # "exit", NEW d \in BOOLEAN, Return(d),
         NEW v \in Inputs
  PROVE  /\ Follows(prog, path, v)' <=> Follows(prog, path, v) /\ v \in Side(d)
         /\ AdmitsSoFar(v)' <=> AdmitsSoFar(v)
<1>1. /\ prog' = prog
      /\ path \in Seq(BOOLEAN)
      /\ path' = Append(path, d)
      /\ path' \in Seq(BOOLEAN)
      /\ Len(path') = Len(path) + 1
      /\ path'[Len(path) + 1] = d
      /\ \A k \in 1 .. Len(path) : path'[k] = path[k]
      /\ pos' = 0
      /\ pos = Len(node.body)
  BY TreeAssumption DEF TypeOK, Return, AtEndOfBody
<1>2. /\ At(prog, path', Len(path)) = node
      /\ At(prog, path, Len(path)) = node
      /\ \A k \in 0 .. Len(path) : At(prog, path', k) = At(prog, path, k)
  <2>1. ASSUME NEW k \in 0 .. Len(path)
        PROVE  At(prog, path', k) = At(prog, path, k)
    <3>1. k <= Len(path') /\ \A j \in 1 .. k : path[j] = path'[j]
      BY <1>1
    <3>2. At(prog, path, k) = At(prog, path', k)
      BY <1>1, <3>1, SameNodes
    <3> QED
      BY <3>2
  <2> QED
    BY <1>1, <2>1, LastNode DEF node
<1>3. Follows(prog, path, v)' <=> Follows(prog, path, v) /\ v \in Side(d)
  <2>1. d = (v \in node.cond) <=> v \in Side(d)
    BY DEF Side
  <2>2. Follows(prog, path', v)
          <=> /\ \A k \in 1 .. Len(path) : /\ At(prog, path, k - 1).kind # "exit"
                                           /\ path[k] = (v \in At(prog, path, k - 1).cond)
              /\ d = (v \in node.cond)
    <3> DEFINE F(p, k) == /\ At(prog, p, k - 1).kind # "exit"
                          /\ p[k] = (v \in At(prog, p, k - 1).cond)
    <3>1. Follows(prog, path', v) <=> \A k \in 1 .. Len(path) + 1 : F(path', k)
      BY <1>1 DEF Follows
    <3>2. ASSUME NEW k \in 1 .. Len(path)
          PROVE  F(path', k) <=> F(path, k)
      BY <1>1, <1>2
    <3>3. F(path', Len(path) + 1) <=> d = (v \in node.cond)
      BY <1>1, <1>2
    <3>4. (\A k \in 1 .. Len(path) + 1 : F(path', k))
             <=> (\A k \in 1 .. Len(path) : F(path', k)) /\ F(path', Len(path) + 1)
      BY <1>1
    <3> QED
      BY <3>1, <3>2, <3>3, <3>4
  <2> QED
    BY <1>1, <2>1, <2>2 DEF Follows
<1>4. AdmitsSoFar(v)' <=> AdmitsSoFar(v)
  <2>1. AdmitsSoFar(v)' <=>
          \A k \in 0 .. Len(path) : \A i \in 1 .. Len(At(prog, path, k).body) :
             At(prog, path, k).body[i].op = "assertion"
               => v \in At(prog, path, k).body[i].cond
    BY <1>1, <1>2 DEF AdmitsSoFar
  <2> DEFINE A(n) == \A i \in 1 .. Len(n.body) :
                        n.body[i].op = "assertion" => v \in n.body[i].cond
  <2>2. (\A k \in 0 .. Len(path) : A(At(prog, path, k)))
          <=> (\A k \in 0 .. Len(path) - 1 : A(At(prog, path, k))) /\ A(node)
    BY <1>1, <1>2, SMTT(30)
  <2> QED
    BY <1>1, <2>1, <2>2 DEF AdmitsSoFar
<1> QED
  BY <1>3, <1>4

LEMMA GuardsInit == Init => GuardsCharacteriseRun
BY DEF Init, GuardsCharacteriseRun, Follows, AdmitsSoFar, node

(* The first node of a run has no constraints yet. *)
LEMMA GuardsAtRoot ==
  ASSUME path' = << >>, pos' = 0, guards' = Inputs, is_feasible' = TRUE
  PROVE  GuardsCharacteriseRun'
BY DEF GuardsCharacteriseRun, Follows, AdmitsSoFar

LEMMA GuardsNext ==
  TypeOK /\ SolverIsClean /\ GuardsCharacteriseRun /\ [Next]_vars
    => GuardsCharacteriseRun'
<1> SUFFICES ASSUME TypeOK, SolverIsClean, GuardsCharacteriseRun, [Next]_vars
             PROVE  GuardsCharacteriseRun'
  OBVIOUS
<1> DEFINE Now == {v \in Inputs : Follows(prog, path, v) /\ AdmitsSoFar(v)}
<1>1. guards = Now /\ (~is_feasible => guards = {})
  BY DEF GuardsCharacteriseRun
<1>2. ASSUME NEW d \in BOOLEAN, AtEndOfBody, node.kind # "exit", Return(d)
      PROVE  Now' = Now \intersect Side(d)
  BY <1>2, OneMoreResult DEF Side
<1>3. ASSUME NEW d \in BOOLEAN, AtEndOfBody, node.kind # "exit", Return(d),
             AddGuard(d), UNCHANGED is_feasible
      PROVE  GuardsCharacteriseRun'
  BY <1>1, <1>2, <1>3 DEF AddGuard, GuardsCharacteriseRun
<1>4. ASSUME NEW d \in BOOLEAN, AtEndOfBody, node.kind # "exit", Return(d),
             guards = {}, UNCHANGED guards
      PROVE  GuardsCharacteriseRun'
  BY <1>1, <1>2, <1>4 DEF GuardsCharacteriseRun
<1>5. ASSUME HasNext
      PROVE  NextDirection \in BOOLEAN
  <2>1. flips[flip_index + 1] \in Flip
    BY <1>5 DEF HasNext, TypeOK, DfsTypeOK
  <2> QED
    BY <2>1 DEF NextDirection, Flip
<1>6. node.hint \in BOOLEAN
  BY ProgramType DEF TypeOK, node
<1>7. ASSUME UNCHANGED <<prog, path, pos, guards>>, is_feasible' \in {is_feasible, TRUE}
      PROVE  GuardsCharacteriseRun'
  <2>1. ASSUME NEW v \in Inputs
        PROVE  AdmitsSoFar(v)' <=> AdmitsSoFar(v)
    BY <1>7 DEF AdmitsSoFar, node
  <2> QED
    BY <1>1, <1>7, <2>1 DEF GuardsCharacteriseRun
<1>8. ASSUME InBody, Step, UNCHANGED is_feasible,
             guards' = {v \in guards : stmt.op = "assertion" => v \in stmt.cond}
      PROVE  GuardsCharacteriseRun'
  <2>1. pos \in Nat /\ pos' = pos + 1
    BY <1>8 DEF Step, TypeOK, node
  <2>2. ASSUME NEW v \in Inputs
        PROVE  AdmitsSoFar(v)' <=> /\ AdmitsSoFar(v)
                                   /\ stmt.op = "assertion" => v \in stmt.cond
    BY <1>8, <2>1 DEF Step, AdmitsSoFar, node, stmt
  <2> QED
    BY <1>1, <1>8, <2>2 DEF GuardsCharacteriseRun, Step
<1>9. CASE BranchLiteral
  BY <1>8, <1>9 DEF BranchLiteral
<1>10. CASE AddAssertion
  BY <1>8, <1>10 DEF AddAssertion
<1>11. CASE AddError
  BY <1>8, <1>11 DEF AddError
<1>12. CASE BranchWhenInfeasible
  BY <1>1, <1>4, <1>12 DEF BranchWhenInfeasible, AtBranch
<1>13. CASE BranchReplay
  BY <1>3, <1>5, <1>13 DEF BranchReplay, AtBranch
<1>14. CASE BranchAsHinted
  BY <1>3, <1>6, <1>14 DEF BranchAsHinted, AtNewBranch, AtBranch
<1>15. CASE BranchAgainstHint
  BY <1>3, <1>6, <1>15 DEF BranchAgainstHint, AtNewBranch, AtBranch
<1>16. CASE BranchNowhere
  <2>1. solver = Inputs
    BY <1>16 DEF BranchNowhere, AtNewBranch, AtBranch, AtEndOfBody, SolverIsClean
  <2>2. guards = {}
    BY <1>1, <1>6, <1>16, <2>1 DEF BranchNowhere, MayBeUnsat, Side
  <2> QED
    BY <1>4, <1>16, <2>2 DEF BranchNowhere, AtNewBranch, AtBranch
<1>17. CASE ForceBranch
  BY <1>3, <1>5, <1>17 DEF ForceBranch
<1>18. CASE Check
  BY <1>7, <1>18 DEF Check
<1>19. CASE FindNextPath
  BY <1>19, GuardsAtRoot DEF FindNextPath, ResetGuards
<1>20. CASE FindNoNextPath
  BY <1>7, <1>20 DEF FindNoNextPath
<1>21. CASE Reset
  BY <1>21, GuardsAtRoot DEF Reset, ResetGuards
<1>22. CASE UNCHANGED vars
  BY <1>7, <1>22 DEF vars
<1> QED
  BY <1>9, <1>10, <1>11, <1>12, <1>13, <1>14, <1>15, <1>16, <1>17, <1>18, <1>19,
     <1>20, <1>21, <1>22 DEF Next, Analyse, ProgramStep

(* m_guards is at any time exactly the condition under which an input gets *)
(* where the run is, however much of the run was replayed from flips.      *)
THEOREM PathConditionExact == Spec => []GuardsCharacteriseRun
<1>1. Init => SolverIsClean
  BY DEF Init, SolverIsClean
<1> QED
  BY <1>1, TypeInit, TypeNext, SolverIsCleanNext, GuardsInit, GuardsNext, PTL DEF Spec

-----------------------------------------------------------------------------
(* How a run, its flips and the program's tree fit together.               *)

LEMMA DirectionsType ==
  ASSUME NEW fs \in Seq(Flip)
  PROVE  /\ Directions(fs) \in Seq(BOOLEAN)
         /\ Len(Directions(fs)) = Len(fs)
         /\ \A i \in 1 .. Len(fs) : Directions(fs)[i] = fs[i].direction
<1>1. \A i \in 1 .. Len(fs) : fs[i] \in Flip
  OBVIOUS
<1>2. \A i \in 1 .. Len(fs) : fs[i].direction \in BOOLEAN
  BY <1>1 DEF Flip
<1> QED
  BY <1>2 DEF Directions

(* A run has not left the program: it never went on from an exit. *)
RunOnTree == \A k \in 1 .. Len(path) : At(prog, path, k - 1).kind # "exit"

(* Neither will the replay of the flips. *)
FlipsOnTree ==
  \A i \in 1 .. Len(flips) : At(prog, Directions(flips), i - 1).kind # "exit"

(* A feasible run has replayed or appended a flip per branch; an infeasible *)
(* one goes on with false results only, for some of which there is a flip. *)
InStep ==
  /\ flip_index <= Len(path)
  /\ \A j \in 1 .. flip_index : path[j] = flips[j].direction
  /\ is_feasible => Len(path) = flip_index
  /\ ~is_feasible => /\ flip_index = Len(flips)
                     /\ \A j \in flip_index + 1 .. Len(path) : path[j] = FALSE

AtItsEnd ==
  phase = "checked" => flip_index = Len(flips) /\ prog[path].kind = "exit"

Shape == phase # "done" => RunOnTree /\ FlipsOnTree /\ InStep /\ AtItsEnd

(* The steps of a run by what they do to the flips. *)
StaysAtNode ==
  UNCHANGED <<dfs_vars, prog, path, phase, is_feasible, explored>>

Advances(d) == AtEndOfBody /\ node.kind # "exit" /\ Return(d)

Replays(d) ==
  /\ Advances(d)
  /\ is_feasible
  /\ HasNext
  /\ d = NextDirection
  /\ TakeNext
  /\ UNCHANGED is_feasible

Appends(d, frozen) ==
  /\ Advances(d)
  /\ flip_index = Len(flips)
  /\ AppendFlip(d, frozen)
  /\ is_feasible \/ (~d /\ ~frozen)
  /\ is_feasible /\ frozen => guards \intersect Side(~d) = {}
  /\ UNCHANGED is_feasible

Drifts ==
  /\ Advances(FALSE)
  /\ flip_index = Len(flips)
  /\ guards = {}
  /\ UNCHANGED dfs_vars
  /\ is_feasible' = FALSE

LEMMA StepsOfARun ==
  ASSUME TypeOK, SolverIsClean, GuardsCharacteriseRun, Shape, ProgramStep
  PROVE  \/ StaysAtNode
         \/ \E d \in BOOLEAN : Replays(d)
         \/ \E d, frozen \in BOOLEAN : Appends(d, frozen)
         \/ Drifts
<1>1. phase = "run" /\ solver = Inputs /\ InStep
  BY DEF ProgramStep, BranchLiteral, AddAssertion, AddError, InBody, AtEndOfBody,
    BranchWhenInfeasible, BranchReplay, BranchAsHinted, BranchAgainstHint,
    BranchNowhere, ForceBranch, AtNewBranch, AtBranch, Shape, SolverIsClean
<1>2. /\ flip_index \in 0 .. Len(flips)
      /\ Len(flips) \in Nat
      /\ node.hint \in BOOLEAN
      /\ guards \subseteq Inputs
  BY ProgramType DEF TypeOK, DfsTypeOK, node, Condition
<1>3. ~HasNext => flip_index = Len(flips)
  BY <1>2 DEF HasNext
<1>4. ASSUME HasNext
      PROVE  NextDirection \in BOOLEAN
  <2>1. flips[flip_index + 1] \in Flip
    BY <1>4 DEF HasNext, TypeOK, DfsTypeOK
  <2> QED
    BY <2>1 DEF NextDirection, Flip
<1>5. CASE BranchLiteral \/ AddAssertion \/ AddError
  BY <1>5 DEF BranchLiteral, AddAssertion, AddError, Step, StaysAtNode
<1>6. CASE BranchWhenInfeasible
  BY <1>1, <1>6 DEF BranchWhenInfeasible, AtBranch, Drifts, Advances, InStep,
    GuardsCharacteriseRun, TypeOK
<1>7. CASE BranchReplay
  BY <1>4, <1>7 DEF BranchReplay, AtBranch, Replays, Advances
<1>8. CASE BranchAsHinted
  <2>1. Appends(node.hint, FALSE)
    BY <1>3, <1>8 DEF BranchAsHinted, AtNewBranch, AtBranch, Appends, Advances,
      AppendFlipHere
  <2> QED
    BY <1>2, <2>1
<1>9. CASE BranchAgainstHint
  <2>1. guards \intersect Side(node.hint) = {}
    BY <1>1, <1>2, <1>9 DEF BranchAgainstHint, MayBeUnsat
  <2>2. Appends(~node.hint, TRUE)
    BY <1>2, <1>3, <1>9, <2>1
      DEF BranchAgainstHint, AtNewBranch, AtBranch, Appends, Advances,
        AppendFlipHere
  <2> QED
    BY <1>2, <2>2
<1>10. CASE BranchNowhere
  <2>1. guards = {}
    BY <1>1, <1>2, <1>10 DEF BranchNowhere, MayBeUnsat, Side
  <2> QED
    BY <1>3, <1>10, <2>1 DEF BranchNowhere, AtNewBranch, AtBranch, Drifts, Advances
<1>11. CASE ForceBranch
  <2>1. CASE HasNext /\ TakeNext /\ Return(NextDirection)
    BY <1>1, <1>2, <1>4, <1>11, <2>1
      DEF ForceBranch, Replays, Advances, HasNext, InStep
  <2>2. CASE ~HasNext /\ AppendFlipHere(FALSE, FALSE) /\ Return(FALSE)
    BY <1>3, <1>11, <2>2 DEF ForceBranch, Appends, Advances, AppendFlipHere
  <2> QED
    BY <1>11, <2>1, <2>2 DEF ForceBranch
<1> QED
  BY <1>5, <1>6, <1>7, <1>8, <1>9, <1>10, <1>11 DEF ProgramStep

(* The flips along a path and their types *)
LEMMA FlipsType ==
  ASSUME TypeOK
  PROVE  /\ flips \in Seq(Flip)
         /\ Len(flips) \in Nat
         /\ \A i \in 1 .. Len(flips) : /\ flips[i].direction \in BOOLEAN
                                       /\ flips[i].is_frozen \in BOOLEAN
         /\ flip_index \in 0 .. Len(flips)
         /\ path \in Seq(BOOLEAN)
         /\ Directions(flips) \in Seq(BOOLEAN)
         /\ Len(Directions(flips)) = Len(flips)
         /\ \A i \in 1 .. Len(flips) : Directions(flips)[i] = flips[i].direction
<1>1. /\ flips \in Seq(Flip) /\ flip_index \in 0 .. Len(flips)
      /\ path \in Seq(BOOLEAN)
  BY TreeAssumption DEF TypeOK, DfsTypeOK
<1>2. \A i \in 1 .. Len(flips) : flips[i] \in Flip
  BY <1>1
<1> QED
  BY <1>1, <1>2, DirectionsType DEF Flip

(* What a step to the next node does to the path *)
LEMMA PathGrows ==
  ASSUME TypeOK, NEW d \in BOOLEAN, Advances(d)
  PROVE  /\ prog' = prog /\ phase' = "run" /\ phase = "run" /\ explored' = explored
         /\ path' \in Seq(BOOLEAN)
         /\ Len(path') = Len(path) + 1
         /\ path'[Len(path) + 1] = d
         /\ \A j \in 1 .. Len(path) : path'[j] = path[j]
         /\ prog[path].kind # "exit"
         /\ \A k \in 0 .. Len(path) : At(prog, path', k) = At(prog, path, k)
         /\ At(prog, path, Len(path)) = prog[path]
<1>1. /\ path \in Seq(BOOLEAN)
      /\ path' = Append(path, d)
      /\ prog' = prog /\ phase' = "run" /\ phase = "run" /\ explored' = explored
      /\ prog[path].kind # "exit"
  BY FlipsType DEF Advances, Return, AtEndOfBody, node
<1>2. /\ path' \in Seq(BOOLEAN)
      /\ Len(path') = Len(path) + 1
      /\ path'[Len(path) + 1] = d
      /\ \A j \in 1 .. Len(path) : path'[j] = path[j]
  BY <1>1
<1>3. ASSUME NEW k \in 0 .. Len(path)
      PROVE  At(prog, path', k) = At(prog, path, k)
  <2>1. k <= Len(path') /\ \A j \in 1 .. k : path[j] = path'[j]
    BY <1>1, <1>2
  <2>2. At(prog, path, k) = At(prog, path', k)
    BY <1>1, <1>2, <2>1, SameNodes
  <2> QED
    BY <2>2
<1> QED
  BY <1>1, <1>2, <1>3, LastNode

(* What appending a flip does to the flips *)
LEMMA FlipsGrow ==
  ASSUME TypeOK, TypeOK', NEW d \in BOOLEAN, NEW frozen \in BOOLEAN,
         AppendFlip(d, frozen)
  PROVE  /\ Len(flips') = Len(flips) + 1
         /\ flip_index' = flip_index + 1
         /\ flips'[Len(flips) + 1].direction = d
         /\ flips'[Len(flips) + 1].is_frozen = frozen
         /\ \A i \in 1 .. Len(flips) : flips'[i] = flips[i]
BY FlipsType DEF AppendFlip

(* What alternating flip k does to the flips *)
LEMMA FlipsAlternate ==
  ASSUME TypeOK, NEW k \in 1 .. Len(flips), flips' = Alternate(flips, k)
  PROVE  /\ Len(flips') = k
         /\ flips'[k].direction = ~flips[k].direction
         /\ flips'[k].is_frozen = TRUE
         /\ \A i \in 1 .. k - 1 : flips'[i] = flips[i]
BY FlipsType DEF Alternate

LEMMA ShapeInit == Init => Shape
BY DEF Init, DfsInit, Shape, RunOnTree, FlipsOnTree, InStep, AtItsEnd

(* The replay of flips that share a prefix with the flips before. *)
LEMMA FlipsStayOnTree ==
  ASSUME TypeOK, TypeOK', FlipsOnTree, prog' = prog,
         NEW k \in 1 .. Len(flips), k <= Len(flips'),
         \A i \in 1 .. k - 1 : flips'[i].direction = flips[i].direction
  PROVE  At(prog, Directions(flips'), k - 1).kind # "exit"
<1>1. /\ Directions(flips') \in Seq(BOOLEAN)
      /\ Len(Directions(flips')) = Len(flips')
      /\ \A i \in 1 .. Len(flips') : Directions(flips')[i] = flips'[i].direction
      /\ Len(flips') \in Nat
  BY DirectionsType DEF TypeOK, DfsTypeOK
<1>2. k - 1 \in 0 .. Len(Directions(flips)) /\ k - 1 <= Len(Directions(flips'))
  BY <1>1, FlipsType
<1>3. \A j \in 1 .. k - 1 : Directions(flips)[j] = Directions(flips')[j]
  BY <1>1, FlipsType
<1>4. At(prog, Directions(flips), k - 1) = At(prog, Directions(flips'), k - 1)
  BY <1>1, <1>2, <1>3, FlipsType, SameNodes
<1> QED
  BY <1>4 DEF FlipsOnTree

LEMMA ShapeAdvances ==
  ASSUME TypeOK, TypeOK', Shape, NEW d \in BOOLEAN, Advances(d),
         (Replays(d) \/ (\E frozen \in BOOLEAN : Appends(d, frozen)))
           \/ (Drifts /\ ~d)
  PROVE  Shape'
<1>1. RunOnTree /\ FlipsOnTree /\ InStep
  BY PathGrows DEF Shape
<1>2. RunOnTree'
  <2>1. ASSUME NEW k \in 1 .. Len(path')
        PROVE  At(prog, path', k - 1).kind # "exit"
    <3>1. CASE k \in 1 .. Len(path)
      BY <1>1, <3>1, PathGrows, FlipsType DEF RunOnTree
    <3>2. CASE k = Len(path) + 1
      BY <3>2, PathGrows, FlipsType
    <3> QED
      BY <3>1, <3>2, PathGrows, FlipsType
  <2> QED
    BY <2>1, PathGrows DEF RunOnTree
<1>3. CASE Replays(d)
  <2>1. /\ flips' = flips /\ flip_index' = flip_index + 1
        /\ flip_index + 1 <= Len(flips)
        /\ d = flips[flip_index + 1].direction
        /\ is_feasible /\ is_feasible'
    BY <1>3, FlipsType DEF Replays, TakeNext, HasNext, NextDirection
  <2>2. FlipsOnTree'
    BY <1>1, <2>1, PathGrows DEF FlipsOnTree
  <2>3. InStep'
    BY <1>1, <2>1, PathGrows, FlipsType DEF InStep
  <2> QED
    BY <1>2, <2>2, <2>3, PathGrows DEF Shape, AtItsEnd
<1>4. CASE \E frozen \in BOOLEAN : Appends(d, frozen)
  <2>1. PICK frozen \in BOOLEAN : Appends(d, frozen)
    BY <1>4
  <2>2. /\ flip_index = Len(flips)
        /\ AppendFlip(d, frozen)
        /\ is_feasible' = is_feasible
        /\ is_feasible \/ ~d
    BY <2>1 DEF Appends
  <2>3. FlipsOnTree'
    <3>1. ASSUME NEW i \in 1 .. Len(flips')
          PROVE  At(prog, Directions(flips'), i - 1).kind # "exit"
      <4>1. CASE i \in 1 .. Len(flips)
        BY <1>1, <2>2, <4>1, FlipsStayOnTree, FlipsGrow, FlipsType, PathGrows,
          SMTT(30)
      <4>2. CASE i = Len(flips) + 1
        <5>1. /\ Directions(flips') \in Seq(BOOLEAN)
              /\ Len(Directions(flips')) = Len(flips) + 1
              /\ \A j \in 1 .. Len(flips) :
                    Directions(flips')[j] = flips[j].direction
          <6>1. flips' \in Seq(Flip)
            BY DEF TypeOK, DfsTypeOK
          <6>2. /\ Directions(flips') \in Seq(BOOLEAN)
                /\ Len(Directions(flips')) = Len(flips')
                /\ \A j \in 1 .. Len(flips') :
                      Directions(flips')[j] = flips'[j].direction
            BY <6>1, DirectionsType
          <6>3. /\ Len(flips') = Len(flips) + 1
                /\ \A j \in 1 .. Len(flips) : flips'[j] = flips[j]
            BY <2>2, FlipsGrow
          <6> QED
            BY <6>2, <6>3, FlipsType
        <5>2. /\ Len(flips) \in 0 .. Len(path)
              /\ \A j \in 1 .. Len(flips) : path[j] = Directions(flips')[j]
          BY <1>1, <2>2, <5>1, FlipsType DEF InStep
        <5>3. At(prog, path, Len(flips)) = At(prog, Directions(flips'), Len(flips))
          <6>1. /\ path \in Seq(BOOLEAN)
                /\ Len(flips) \in 0 .. Len(path)
                /\ Len(flips) <= Len(Directions(flips'))
            BY <5>1, <5>2, FlipsType
          <6> QED
            BY <5>1, <5>2, <6>1, SameNodes
        <5>4. At(prog, path, Len(flips)).kind # "exit"
          <6>1. CASE Len(flips) = Len(path)
            BY <6>1, PathGrows
          <6>2. CASE Len(flips) < Len(path)
            <7>1. Len(flips) + 1 \in 1 .. Len(path)
              BY <6>2, FlipsType
            <7> QED
              BY <1>1, <7>1, FlipsType DEF RunOnTree
          <6> QED
            BY <5>2, <6>1, <6>2, FlipsType
        <5> QED
          BY <4>2, <5>3, <5>4, FlipsType
      <4> QED
        BY <2>2, <4>1, <4>2, FlipsGrow, FlipsType
    <3> QED
      BY <3>1, PathGrows DEF FlipsOnTree
  <2>4. InStep'
    <3>1. /\ Len(flips') = Len(flips) + 1
          /\ flip_index' = Len(flips) + 1
          /\ flips'[Len(flips) + 1].direction = d
          /\ \A i \in 1 .. Len(flips) : flips'[i] = flips[i]
      BY <2>2, FlipsGrow
    <3>2. /\ Len(flips) <= Len(path)
          /\ \A j \in 1 .. Len(flips) : path[j] = flips[j].direction
          /\ is_feasible => Len(path) = Len(flips)
          /\ ~is_feasible => \A j \in Len(flips) + 1 .. Len(path) : path[j] = FALSE
      BY <1>1, <2>2 DEF InStep
    <3>3. path'[Len(flips) + 1] = d
      <4>1. CASE Len(flips) = Len(path)
        BY <4>1, PathGrows
      <4>2. CASE Len(flips) < Len(path)
        <5>1. Len(flips) + 1 \in 1 .. Len(path)
          BY <4>2, FlipsType
        <5>2. path[Len(flips) + 1] = FALSE /\ d = FALSE
          BY <2>2, <3>2, <4>2, <5>1
        <5> QED
          BY <5>1, <5>2, PathGrows
      <4> QED
        BY <3>2, <4>1, <4>2, FlipsType
    <3>4. \A j \in 1 .. flip_index' : path'[j] = flips'[j].direction
      BY <3>1, <3>2, <3>3, PathGrows, FlipsType
    <3>5. is_feasible' => Len(path') = flip_index'
      BY <2>2, <3>1, <3>2, PathGrows
    <3>6. ASSUME ~is_feasible', NEW j \in flip_index' + 1 .. Len(path')
          PROVE  path'[j] = FALSE
      <4>1. ~is_feasible /\ ~d
        BY <2>2, <3>6
      <4>2. /\ Len(path') = Len(path) + 1 /\ path'[Len(path) + 1] = d
            /\ \A i \in 1 .. Len(path) : path'[i] = path[i]
        BY PathGrows
      <4>3. j \in Len(flips) + 1 .. Len(path) + 1 /\ Len(path) \in Nat
        BY <3>1, <3>6, <4>2, FlipsType
      <4>4. CASE j = Len(path) + 1
        BY <4>1, <4>2, <4>4
      <4>5. CASE j # Len(path) + 1
        <5>1. j \in Len(flips) + 1 .. Len(path) /\ j \in 1 .. Len(path)
          BY <4>3, <4>5, FlipsType
        <5> QED
          BY <3>2, <4>1, <4>2, <5>1
      <4> QED
        BY <4>4, <4>5
    <3> QED
      BY <3>1, <3>2, <3>4, <3>5, <3>6, PathGrows, FlipsType, SMTT(30) DEF InStep
  <2> QED
    BY <1>2, <2>3, <2>4, PathGrows DEF Shape, AtItsEnd
<1>5. CASE Drifts /\ ~d
  <2>1. /\ flips' = flips /\ flip_index' = flip_index
        /\ flip_index = Len(flips)
        /\ ~is_feasible'
    BY <1>5 DEF Drifts, dfs_vars
  <2>2. FlipsOnTree'
    BY <1>1, <2>1, PathGrows DEF FlipsOnTree
  <2>3. InStep'
    <3>1. /\ Len(flips) <= Len(path)
          /\ \A j \in 1 .. Len(flips) : path[j] = flips[j].direction
      BY <1>1, <2>1 DEF InStep
    <3>2. \A j \in Len(flips) + 1 .. Len(path) : path[j] = FALSE
      BY <1>1, <2>1 DEF InStep
    <3>3. \A j \in Len(flips) + 1 .. Len(path') : path'[j] = FALSE
      BY <1>5, <3>2, PathGrows, FlipsType, SMTT(30)
    <3> QED
      BY <2>1, <3>1, <3>3, PathGrows, FlipsType DEF InStep
  <2> QED
    BY <1>2, <2>2, <2>3, PathGrows DEF Shape, AtItsEnd
<1> QED
  BY <1>3, <1>4, <1>5

(* A finished run has replayed all of its flips. *)
LEMMA AllReplayed ==
  ASSUME TypeOK, Shape, Check
  PROVE  flip_index = Len(flips)
<1>1. /\ FlipsOnTree /\ InStep
      /\ prog[path].kind = "exit"
  BY DEF Check, AtEndOfBody, Shape, node
<1>2. ASSUME flip_index # Len(flips)
      PROVE  FALSE
  <2>1. /\ is_feasible
        /\ Len(path) = flip_index
        /\ flip_index + 1 \in 1 .. Len(flips)
    BY <1>1, <1>2, FlipsType DEF InStep, TypeOK
  <2>2. At(prog, path, Len(path)) = At(prog, Directions(flips), Len(path))
    BY <1>1, <2>1, FlipsType, SameNodes DEF InStep
  <2>3. At(prog, Directions(flips), flip_index + 1 - 1).kind # "exit"
    BY <1>1, <2>1 DEF FlipsOnTree
  <2> QED
    BY <1>1, <2>1, <2>2, <2>3, LastNode, FlipsType
<1> QED
  BY <1>2

LEMMA ShapeNext ==
  TypeOK /\ TypeOK' /\ SolverIsClean /\ GuardsCharacteriseRun /\ Shape /\ [Next]_vars
    => Shape'
<1> SUFFICES ASSUME TypeOK, TypeOK', SolverIsClean, GuardsCharacteriseRun, Shape,
                    [Next]_vars
             PROVE  Shape'
  OBVIOUS
<1>1. CASE ProgramStep
  <2>1. CASE StaysAtNode
    BY <2>1 DEF StaysAtNode, dfs_vars, Shape, RunOnTree, FlipsOnTree, InStep, AtItsEnd
  <2>2. CASE \E d \in BOOLEAN : Replays(d)
    BY <2>2, ShapeAdvances DEF Replays
  <2>3. CASE \E d, frozen \in BOOLEAN : Appends(d, frozen)
    BY <2>3, ShapeAdvances DEF Appends
  <2>4. CASE Drifts
    BY <2>4, ShapeAdvances DEF Drifts
  <2> QED
    BY <1>1, <2>1, <2>2, <2>3, <2>4, StepsOfARun
<1>2. CASE Check
  BY <1>2, AllReplayed DEF Check, AtEndOfBody, dfs_vars, node, Shape, RunOnTree,
    FlipsOnTree, InStep, AtItsEnd
<1>3. CASE FindNextPath
  <2>1. PICK k \in 1 .. Len(flips) : flips' = Alternate(flips, k) /\ flip_index' = 0
    BY <1>3 DEF FindNextPath, DfsFindsPath
  <2>2. /\ FlipsOnTree
        /\ prog' = prog /\ path' = << >> /\ is_feasible' = TRUE /\ phase' = "run"
    BY <1>3 DEF FindNextPath, Shape
  <2>3. FlipsOnTree'
    <3>1. ASSUME NEW i \in 1 .. Len(flips')
          PROVE  At(prog, Directions(flips'), i - 1).kind # "exit"
      <4> Len(flips') = k /\ \A j \in 1 .. k - 1 : flips'[j] = flips[j]
        BY <2>1, FlipsAlternate
      <4>1. i \in 1 .. Len(flips) /\ i <= Len(flips')
        BY FlipsType
      <4>2. \A j \in 1 .. i - 1 : flips'[j].direction = flips[j].direction
        BY FlipsType
      <4> QED
        BY <2>2, <4>1, <4>2, FlipsStayOnTree
    <3> QED
      BY <2>2, <3>1 DEF FlipsOnTree
  <2> QED
    BY <2>1, <2>2, <2>3, FlipsAlternate DEF Shape, RunOnTree, InStep, AtItsEnd
<1>4. CASE FindNoNextPath
  BY <1>4 DEF FindNoNextPath, Shape
<1>5. CASE Reset
  BY <1>5 DEF Reset, DfsReset, Shape, RunOnTree, FlipsOnTree, InStep, AtItsEnd
<1>6. CASE UNCHANGED vars
  BY <1>6 DEF vars, dfs_vars, Shape, RunOnTree, FlipsOnTree, InStep, AtItsEnd
<1> QED
  BY <1>1, <1>2, <1>3, <1>4, <1>5, <1>6 DEF Next, Analyse

-----------------------------------------------------------------------------
(* Completeness and economy of the search.                                 *)

(* Path p is on the other side of flip i. *)
LeavesAt(p, i) ==
  /\ i <= Len(p)
  /\ \A j \in 1 .. i - 1 : p[j] = flips[j].direction
  /\ p[i] # flips[i].direction

(* An open flip will still be alternated towards q. *)
Pending(q) == \E i \in 1 .. Len(flips) : ~flips[i].is_frozen /\ LeavesAt(q, i)

(* A frozen flip keeps p in the past. *)
Behind(p) == \E i \in 1 .. Len(flips) : flips[i].is_frozen /\ LeavesAt(p, i)

(* The current run may yet turn out to be q. *)
Underway(q) ==
  /\ phase = "run"
  /\ is_feasible
  /\ IsPrefixOf(path, q)
  /\ IsPrefixOf(Directions(flips), q)

Complete ==
  \A q \in FeasiblePaths(prog) :
     q \in explored \/ (phase # "done" /\ (Pending(q) \/ Underway(q)))

Economical ==
  phase # "done" => \A p \in explored : Behind(p) \/ (phase = "checked" /\ p = path)

(* A feasible path that the run has not left goes on where the run does,   *)
(* in a direction the path condition allows.                               *)
LEMMA UnderwayGoesOn ==
  ASSUME TypeOK, GuardsCharacteriseRun, Shape, AtEndOfBody,
         NEW q \in FeasiblePaths(prog), Underway(q), node.kind # "exit"
  PROVE  /\ Len(path) + 1 <= Len(q)
         /\ q[Len(path) + 1] \in BOOLEAN
         /\ guards \intersect Side(q[Len(path) + 1]) # {}
<1>1. PICK v \in Inputs : Runs(prog, q, v)
  BY DEF FeasiblePaths
<1>2. /\ q \in Seq(BOOLEAN)
      /\ prog[q].kind = "exit"
      /\ path \in Seq(BOOLEAN)
      /\ Len(path) <= Len(q)
      /\ \A j \in 1 .. Len(path) : path[j] = q[j]
      /\ pos = Len(node.body)
  BY <1>1, TreeAssumption, FlipsType
    DEF Runs, IsPath, Underway, IsPrefixOf, AtEndOfBody
<1>3. ASSUME NEW k \in 0 .. Len(path)
      PROVE  At(prog, path, k) = At(prog, q, k)
  BY <1>2, SameNodes
<1>4. At(prog, path, Len(path)) = node /\ At(prog, q, Len(q)) = prog[q]
  BY <1>2, LastNode DEF node
<1>5. Len(path) # Len(q)
  BY <1>2, <1>3, <1>4
<1>6. Len(path) + 1 \in 1 .. Len(q)
  BY <1>2, <1>5
<1>7. /\ q[Len(path) + 1] = (v \in node.cond)
      /\ \A k \in 1 .. Len(path) : /\ At(prog, q, k - 1).kind # "exit"
                                   /\ q[k] = (v \in At(prog, q, k - 1).cond)
  BY <1>1, <1>2, <1>3, <1>4, <1>6 DEF Runs, Follows
<1>8. Follows(prog, path, v)
  BY <1>2, <1>3, <1>7 DEF Follows
<1>9. AdmitsSoFar(v)
  <2>1. \A k \in 0 .. Len(path) : \A i \in 1 .. Len(At(prog, path, k).body) :
           At(prog, path, k).body[i].op = "assertion"
             => v \in At(prog, path, k).body[i].cond
    BY <1>1, <1>2, <1>3 DEF Runs, Admits
  <2> QED
    BY <1>2, <1>4, <2>1, SMTT(30) DEF AdmitsSoFar
<1>10. v \in guards
  BY <1>8, <1>9 DEF GuardsCharacteriseRun
<1> QED
  BY <1>1, <1>2, <1>6, <1>7, <1>10 DEF Side

(* Which side of flip i a path is on depends on the flips up to i only. *)
LEMMA LeavesAtStable ==
  ASSUME NEW p, NEW i \in Nat, \A j \in 1 .. i : flips'[j] = flips[j], 1 <= i
  PROVE  LeavesAt(p, i)' <=> LeavesAt(p, i)
BY DEF LeavesAt

LEMMA CompleteAppends ==
  ASSUME TypeOK, TypeOK', GuardsCharacteriseRun, Shape,
         NEW d \in BOOLEAN, NEW frozen \in BOOLEAN, Appends(d, frozen),
         NEW q \in FeasiblePaths(prog), Pending(q) \/ Underway(q)
  PROVE  Pending(q)' \/ Underway(q)'
<1>1. /\ Advances(d)
      /\ AppendFlip(d, frozen)
      /\ flip_index = Len(flips)
      /\ is_feasible' = is_feasible
  BY DEF Appends
<1>2. /\ Len(flips') = Len(flips) + 1
      /\ flips'[Len(flips) + 1].direction = d
      /\ flips'[Len(flips) + 1].is_frozen = frozen
      /\ \A i \in 1 .. Len(flips) : flips'[i] = flips[i]
  BY <1>1, FlipsGrow
<1>3. CASE Pending(q)
  <2>1. PICK i \in 1 .. Len(flips) : ~flips[i].is_frozen /\ LeavesAt(q, i)
    BY <1>3 DEF Pending
  <2>2. LeavesAt(q, i)'
    BY <1>2, <2>1, LeavesAtStable, FlipsType
  <2>3. i \in 1 .. Len(flips') /\ ~flips'[i].is_frozen
    BY <1>2, <2>1, FlipsType
  <2> QED
    BY <2>2, <2>3 DEF Pending
<1>4. CASE Underway(q)
  <2>1. /\ is_feasible
        /\ Len(path) = Len(flips)
        /\ Len(path) \in Nat
    BY <1>1, <1>4, FlipsType DEF Underway, Shape, InStep
  <2> PICK n \in Nat : n = Len(path) + 1
    BY <2>1
  <2>2. /\ n <= Len(q) /\ q[n] \in BOOLEAN
        /\ guards \intersect Side(q[n]) # {}
    BY <1>1, <1>4, UnderwayGoesOn DEF Advances
  <2>3. \A j \in 1 .. Len(flips) : q[j] = flips[j].direction
    BY <1>4, FlipsType DEF Underway, IsPrefixOf
  <2>4. CASE q[n] = d
    <3>1. IsPrefixOf(path', q)
      BY <1>1, <1>4, <2>1, <2>2, <2>4, PathGrows DEF Underway, IsPrefixOf
    <3>2. /\ Len(Directions(flips')) = Len(flips')
          /\ \A i \in 1 .. Len(flips') : Directions(flips')[i] = flips'[i].direction
      BY DirectionsType DEF TypeOK, DfsTypeOK
    <3>3. IsPrefixOf(Directions(flips'), q)
      BY <1>2, <2>1, <2>2, <2>3, <2>4, <3>2 DEF IsPrefixOf
    <3> QED
      BY <1>1, <2>1, <3>1, <3>3, PathGrows DEF Underway
  <2>5. CASE q[n] # d
    <3>1. ~frozen
      <4>1. q[n] = ~d
        BY <2>2, <2>5
      <4> QED
        BY <2>1, <2>2, <4>1 DEF Appends
    <3>2. LeavesAt(q, n)'
      BY <1>2, <2>1, <2>2, <2>3, <2>5 DEF LeavesAt
    <3> QED
      BY <1>2, <2>1, <3>1, <3>2 DEF Pending
  <2> QED
    BY <2>4, <2>5
<1> QED
  BY <1>3, <1>4

LEMMA CompleteReplays ==
  ASSUME TypeOK, TypeOK', GuardsCharacteriseRun, Shape,
         NEW d \in BOOLEAN, Replays(d),
         NEW q \in FeasiblePaths(prog), Pending(q) \/ Underway(q)
  PROVE  Pending(q)' \/ Underway(q)'
<1>1. /\ Advances(d)
      /\ flips' = flips
      /\ is_feasible /\ is_feasible'
      /\ flip_index + 1 \in 1 .. Len(flips)
      /\ d = flips[flip_index + 1].direction
      /\ Len(path) = flip_index
  <2>1. Advances(d) /\ is_feasible /\ HasNext /\ TakeNext /\ d = NextDirection
    BY DEF Replays
  <2>2. InStep
    BY <2>1, PathGrows DEF Shape
  <2> QED
    BY <2>1, <2>2, FlipsType DEF Replays, HasNext, TakeNext, NextDirection, InStep
<1>2. CASE Pending(q)
  BY <1>1, <1>2 DEF Pending, LeavesAt
<1>3. CASE Underway(q)
  <2>1. q[flip_index + 1] = d /\ flip_index + 1 <= Len(q)
    <3>1. q \in Seq(BOOLEAN)
      BY TreeAssumption DEF FeasiblePaths, Paths, IsPath
    <3> QED
      BY <1>1, <1>3, <3>1, FlipsType DEF Underway, IsPrefixOf
  <2>2. IsPrefixOf(path', q)
    <3>1. /\ Len(path') = flip_index + 1
          /\ path'[flip_index + 1] = d
          /\ \A j \in 1 .. flip_index : path'[j] = path[j]
      BY <1>1, PathGrows
    <3>2. \A j \in 1 .. flip_index : path[j] = q[j]
      BY <1>1, <1>3 DEF Underway, IsPrefixOf
    <3> QED
      BY <2>1, <3>1, <3>2, FlipsType DEF IsPrefixOf
  <2> QED
    BY <1>1, <1>3, <2>2, PathGrows DEF Underway
<1> QED
  BY <1>2, <1>3

(* A finished run that was under way to q has been q. *)
LEMMA CompleteCheck ==
  ASSUME TypeOK, Shape, Check, NEW q \in FeasiblePaths(prog), Underway(q)
  PROVE  q = path
<1>1. /\ q \in Seq(BOOLEAN) /\ path \in Seq(BOOLEAN)
      /\ prog[path].kind = "exit"
      /\ Len(path) <= Len(q)
      /\ \A j \in 1 .. Len(path) : path[j] = q[j]
      /\ \A k \in 1 .. Len(q) : At(prog, q, k - 1).kind # "exit"
  BY TreeAssumption, FlipsType
    DEF FeasiblePaths, Paths, IsPath, Underway, IsPrefixOf, Check, node
<1>2. At(prog, q, Len(path)).kind = "exit"
  <2>1. At(prog, path, Len(path)) = At(prog, q, Len(path))
    BY <1>1, SameNodes
  <2> QED
    BY <1>1, <2>1, LastNode
<1>3. Len(path) = Len(q)
  <2>1. ASSUME Len(path) < Len(q)
        PROVE  FALSE
    <3>1. Len(path) + 1 \in 1 .. Len(q)
      BY <1>1, <2>1
    <3> QED
      BY <1>1, <1>2, <3>1
  <2> QED
    BY <1>1, <2>1
<1> QED
  BY <1>1, <1>3

LEMMA CompleteFindNextPath ==
  ASSUME TypeOK, TypeOK', FindNextPath, NEW q \in FeasiblePaths(prog), Pending(q)
  PROVE  Pending(q)' \/ Underway(q)'
<1>1. PICK k \in 1 .. Len(flips) : IsDeepestOpen(flips, k) /\ flips' = Alternate(flips, k)
  BY DEF FindNextPath, DfsFindsPath
<1>2. PICK i \in 1 .. Len(flips) : ~flips[i].is_frozen /\ LeavesAt(q, i)
  BY DEF Pending
<1>3. /\ Len(flips') = k
      /\ flips'[k].direction = ~flips[k].direction
      /\ \A j \in 1 .. k - 1 : flips'[j] = flips[j]
  BY <1>1, FlipsAlternate
<1>4. i <= k
  BY <1>1, <1>2, FlipsType DEF IsDeepestOpen
<1>5. CASE i < k
  <2>1. i \in 1 .. k - 1
    BY <1>4, <1>5, FlipsType
  <2>2. LeavesAt(q, i)'
    BY <1>2, <1>3, <2>1, LeavesAtStable, FlipsType
  <2> QED
    BY <1>2, <1>3, <2>1, <2>2, FlipsType DEF Pending
<1>6. CASE i = k
  <2>1. /\ Len(Directions(flips')) = Len(flips')
        /\ \A j \in 1 .. Len(flips') : Directions(flips')[j] = flips'[j].direction
    BY DirectionsType DEF TypeOK, DfsTypeOK
  <2>2. q \in Seq(BOOLEAN)
    BY TreeAssumption DEF FeasiblePaths, Paths, IsPath
  <2>3. /\ k <= Len(q)
        /\ \A j \in 1 .. k - 1 : q[j] = flips[j].direction
        /\ q[k] # flips[k].direction
    BY <1>2, <1>6 DEF LeavesAt
  <2>4. q[k] = flips'[k].direction
    BY <1>3, <2>2, <2>3, FlipsType
  <2>5. IsPrefixOf(Directions(flips'), q)
    BY <1>3, <2>1, <2>3, <2>4, FlipsType, SMTT(30) DEF IsPrefixOf
  <2>6. IsPrefixOf(path', q)
    BY <2>2 DEF FindNextPath, IsPrefixOf
  <2> QED
    BY <2>5, <2>6 DEF FindNextPath, Underway
<1> QED
  BY <1>4, <1>5, <1>6, FlipsType

(* Before any direction is chosen, every path is still possible. *)
LEMMA RootLeadsAnywhere ==
  ASSUME NEW P \in Programs, NEW q \in FeasiblePaths(P)
  PROVE  IsPrefixOf(<< >>, q) /\ IsPrefixOf(Directions(<< >>), q)
<1>1. Len(q) \in Nat
  BY TreeAssumption DEF FeasiblePaths, Paths, IsPath
<1> QED
  BY <1>1 DEF IsPrefixOf, Directions

(* Everything the search depends on *)
IInv ==
  /\ TypeOK
  /\ SolverIsClean
  /\ GuardsCharacteriseRun
  /\ Shape
  /\ Complete
  /\ Economical

LEMMA CompleteNext == IInv /\ TypeOK' /\ [Next]_vars => Complete'
<1> SUFFICES ASSUME IInv, TypeOK', [Next]_vars
             PROVE  Complete'
  OBVIOUS
<1> USE DEF IInv
<1>1. CASE UNCHANGED <<prog, explored>> /\ phase # "done" /\ phase' # "done" /\
           \A q \in FeasiblePaths(prog) :
              Pending(q) \/ Underway(q) => Pending(q)' \/ Underway(q)'
  BY <1>1 DEF Complete
<1>2. CASE ProgramStep
  <2>1. phase = "run"
    BY <1>2 DEF ProgramStep, BranchLiteral, AddAssertion, AddError, InBody,
      AtEndOfBody, BranchWhenInfeasible, BranchReplay, BranchAsHinted,
      BranchAgainstHint, BranchNowhere, ForceBranch, AtNewBranch, AtBranch
  <2>2. CASE StaysAtNode
    BY <2>1, <2>2 DEF StaysAtNode, dfs_vars, Complete, Pending, LeavesAt, Underway
  <2>3. CASE \E d \in BOOLEAN : Replays(d)
    BY <1>1, <2>3, CompleteReplays, PathGrows DEF Replays
  <2>4. CASE \E d, frozen \in BOOLEAN : Appends(d, frozen)
    BY <1>1, <2>4, CompleteAppends, PathGrows DEF Appends
  <2>5. CASE Drifts
    <3>1. ASSUME NEW q \in FeasiblePaths(prog), Pending(q) \/ Underway(q)
          PROVE  Pending(q)'
      <4>1. ~Underway(q)
        BY <2>5, UnderwayGoesOn DEF Drifts, Advances
      <4> QED
        BY <2>5, <3>1, <4>1 DEF Drifts, dfs_vars, Pending, LeavesAt
    <3> QED
      BY <1>1, <2>5, <3>1, PathGrows DEF Drifts
  <2> QED
    BY <1>2, <2>2, <2>3, <2>4, <2>5, StepsOfARun
<1>3. CASE Check
  <2>1. /\ prog' = prog /\ flips' = flips
        /\ phase' = "checked"
        /\ explored' = explored \union {path}
    BY <1>3 DEF Check, dfs_vars
  <2>2. ASSUME NEW q \in FeasiblePaths(prog), Pending(q)
        PROVE  Pending(q)'
    BY <2>1, <2>2 DEF Pending, LeavesAt
  <2> QED
    BY <1>3, <2>1, <2>2, CompleteCheck DEF Complete
<1>4. CASE FindNextPath
  <2>1. \A q \in FeasiblePaths(prog) : ~Underway(q)
    BY <1>4 DEF FindNextPath, Underway
  <2> QED
    BY <1>1, <1>4, <2>1, CompleteFindNextPath DEF FindNextPath
<1>5. CASE FindNoNextPath
  <2>1. \A q \in FeasiblePaths(prog) : ~Underway(q) /\ ~Pending(q)
    BY <1>5 DEF FindNoNextPath, DfsFindsNoPath, AllFrozen, Underway, Pending
  <2> QED
    BY <1>5, <2>1 DEF FindNoNextPath, Complete
<1>6. CASE Reset
  <2>1. /\ phase' = "run" /\ is_feasible' = TRUE
        /\ flips' = << >> /\ path' = << >>
        /\ prog' = prog /\ prog \in Programs
    BY <1>6 DEF Reset, DfsReset, TypeOK
  <2> QED
    BY <2>1, RootLeadsAnywhere DEF Complete, Underway
<1>7. CASE UNCHANGED vars
  BY <1>7 DEF vars, dfs_vars, Complete, Pending, LeavesAt, Underway
<1> QED
  BY <1>2, <1>3, <1>4, <1>5, <1>6, <1>7 DEF Next, Analyse

LEMMA EconomicalNext == IInv /\ TypeOK' /\ [Next]_vars => Economical'
<1> SUFFICES ASSUME IInv, TypeOK', [Next]_vars
             PROVE  Economical'
  OBVIOUS
<1> USE DEF IInv
<1>1. ASSUME phase = "run", explored' = explored, flips' = flips
      PROVE  Economical'
  BY <1>1 DEF Economical, Behind, LeavesAt
<1>2. CASE ProgramStep
  <2>1. phase = "run"
    BY <1>2 DEF ProgramStep, BranchLiteral, AddAssertion, AddError, InBody,
      AtEndOfBody, BranchWhenInfeasible, BranchReplay, BranchAsHinted,
      BranchAgainstHint, BranchNowhere, ForceBranch, AtNewBranch, AtBranch
  <2>2. CASE StaysAtNode
    BY <1>1, <2>1, <2>2 DEF StaysAtNode, dfs_vars
  <2>3. CASE \E d \in BOOLEAN : Replays(d)
    BY <1>1, <2>1, <2>3, PathGrows DEF Replays, TakeNext
  <2>4. CASE \E d, frozen \in BOOLEAN : Appends(d, frozen)
    <3>1. PICK d, frozen \in BOOLEAN : Appends(d, frozen)
      BY <2>4
    <3>2. /\ Len(flips') = Len(flips) + 1
          /\ \A i \in 1 .. Len(flips) : flips'[i] = flips[i]
          /\ explored' = explored
      BY <3>1, FlipsGrow, PathGrows DEF Appends
    <3>3. ASSUME NEW p \in explored
          PROVE  Behind(p)'
      <4>1. PICK i \in 1 .. Len(flips) : flips[i].is_frozen /\ LeavesAt(p, i)
        BY <2>1, <3>3 DEF Economical, Behind
      <4>2. LeavesAt(p, i)'
        BY <3>2, <4>1, LeavesAtStable, FlipsType
      <4> QED
        BY <3>2, <4>1, <4>2, FlipsType DEF Behind
    <3> QED
      BY <3>2, <3>3 DEF Economical
  <2>5. CASE Drifts
    BY <1>1, <2>1, <2>5, PathGrows DEF Drifts, dfs_vars
  <2> QED
    BY <1>2, <2>2, <2>3, <2>4, <2>5, StepsOfARun
<1>3. CASE Check
  BY <1>3 DEF Check, AtEndOfBody, dfs_vars, Economical, Behind, LeavesAt
<1>4. CASE FindNextPath
  <2>1. PICK k \in 1 .. Len(flips) : /\ IsDeepestOpen(flips, k)
                                     /\ flips' = Alternate(flips, k)
    BY <1>4 DEF FindNextPath, DfsFindsPath
  <2>2. /\ Len(flips') = k
        /\ flips'[k].direction = ~flips[k].direction
        /\ flips'[k].is_frozen = TRUE
        /\ \A i \in 1 .. k - 1 : flips'[i] = flips[i]
    BY <2>1, FlipsAlternate
  <2>3. ASSUME NEW p, k <= Len(p), \A j \in 1 .. k : p[j] = flips[j].direction
        PROVE  Behind(p)'
    BY <2>2, <2>3, FlipsType, SMTT(30) DEF Behind, LeavesAt
  <2>4. ASSUME NEW p \in explored
        PROVE  Behind(p)'
    <3>1. CASE p = path
      <4>1. /\ Len(flips) <= Len(path)
            /\ \A j \in 1 .. Len(flips) : path[j] = flips[j].direction
        BY <1>4 DEF FindNextPath, Shape, AtItsEnd, InStep
      <4> QED
        BY <2>3, <3>1, <4>1, FlipsType
    <3>2. CASE Behind(p)
      <4>1. PICK i \in 1 .. Len(flips) : flips[i].is_frozen /\ LeavesAt(p, i)
        BY <3>2 DEF Behind
      <4>2. CASE i < k
        <5>1. i \in 1 .. k - 1
          BY <4>2, FlipsType
        <5>2. LeavesAt(p, i)'
          BY <2>2, <4>1, <5>1, LeavesAtStable, FlipsType
        <5> QED
          BY <2>2, <4>1, <5>1, <5>2, FlipsType DEF Behind
      <4>3. CASE k < i
        <5>1. p \in Seq(BOOLEAN)
          BY <2>4, TreeAssumption DEF TypeOK
        <5>2. k <= Len(p)
          BY <4>1, <4>3, <5>1, FlipsType DEF LeavesAt
        <5>3. \A j \in 1 .. k : p[j] = flips[j].direction
          BY <4>1, <4>3, FlipsType DEF LeavesAt
        <5> QED
          BY <2>3, <5>2, <5>3
      <4>4. i # k
        BY <2>1, <4>1 DEF IsDeepestOpen
      <4> QED
        BY <4>2, <4>3, <4>4, FlipsType
    <3> QED
      BY <1>4, <2>4, <3>1, <3>2 DEF FindNextPath, Economical
  <2> QED
    BY <1>4, <2>4 DEF FindNextPath, Economical
<1>5. CASE FindNoNextPath
  BY <1>5 DEF FindNoNextPath, Economical
<1>6. CASE Reset
  BY <1>6 DEF Reset, Economical
<1>7. CASE UNCHANGED vars
  BY <1>7 DEF vars, dfs_vars, Economical, Behind, LeavesAt
<1> QED
  BY <1>2, <1>3, <1>4, <1>5, <1>6, <1>7 DEF Next, Analyse

LEMMA IInvInit == Init => IInv
<1> SUFFICES ASSUME Init
             PROVE  IInv
  OBVIOUS
<1>1. Complete
  BY RootLeadsAnywhere DEF Init, DfsInit, Complete, Underway
<1>2. SolverIsClean /\ Economical
  BY DEF Init, SolverIsClean, Economical
<1> QED
  BY <1>1, <1>2, TypeInit, GuardsInit, ShapeInit DEF IInv

LEMMA IInvNext == IInv /\ [Next]_vars => IInv'
<1> SUFFICES ASSUME IInv, [Next]_vars
             PROVE  IInv'
  OBVIOUS
<1>1. TypeOK' /\ SolverIsClean' /\ GuardsCharacteriseRun'
  BY TypeNext, SolverIsCleanNext, GuardsNext DEF IInv
<1>2. Shape'
  BY <1>1, ShapeNext DEF IInv
<1>3. Complete' /\ Economical'
  BY <1>1, CompleteNext, EconomicalNext
<1> QED
  BY <1>1, <1>2, <1>3 DEF IInv

THEOREM SearchInvariant == Spec => []IInv
BY IInvInit, IInvNext, PTL DEF Spec

-----------------------------------------------------------------------------
(* The exploration implements the abstract one.                            *)

(* The steps that matter to the abstract specification *)
LEMMA OtherStepsStutter ==
  ASSUME TypeOK, [Next]_vars, ~Check, ~FindNoNextPath, ~Reset
  PROVE  /\ prog' = prog
         /\ explored' = explored
         /\ (phase' = "done") <=> (phase = "done")
<1>1. CASE ProgramStep
  BY <1>1 DEF ProgramStep, BranchLiteral, AddAssertion, AddError, Step, Return,
    BranchWhenInfeasible, BranchReplay, BranchAsHinted, BranchAgainstHint,
    BranchNowhere, ForceBranch
<1>2. CASE FindNextPath
  BY <1>2 DEF FindNextPath
<1>3. CASE UNCHANGED vars
  BY <1>3 DEF vars
<1> QED
  BY <1>1, <1>2, <1>3 DEF Next, Analyse

(* The path of a run that ends is a path of the program and a new one.     *)
LEMMA CheckExplores ==
  ASSUME IInv, Check
  PROVE  path \in Paths(prog) \ explored
<1>1. /\ phase = "run" /\ prog[path].kind = "exit"
      /\ path \in Tree
      /\ TypeOK /\ Shape /\ Economical
  BY DEF Check, AtEndOfBody, node, IInv, TypeOK
<1>2. path \in Paths(prog)
  BY <1>1 DEF Shape, RunOnTree, Paths, IsPath
<1>3. ASSUME path \in explored
      PROVE  FALSE
  <2>1. PICK i \in 1 .. Len(flips) : LeavesAt(path, i)
    BY <1>1, <1>3 DEF Economical, Behind
  <2>2. \A j \in 1 .. Len(flips) : path[j] = flips[j].direction
    BY <1>1, AllReplayed DEF Shape, InStep
  <2> QED
    BY <2>1, <2>2 DEF LeavesAt
<1> QED
  BY <1>2, <1>3

LEMMA AbstractInit == Init => Abstract!Init
BY Zenon DEF Init, Abstract!Init, FeasiblePaths

LEMMA AbstractNext == IInv /\ IInv' /\ [Next]_vars => [Abstract!Next]_Abstract!vars
<1> SUFFICES ASSUME IInv, IInv', [Next]_vars
             PROVE  [Abstract!Next]_Abstract!vars
  OBVIOUS
<1> USE DEF Abstract!Next, Abstract!vars
<1>1. CASE Check
  <2>1. path \in Paths(prog) \ explored
    BY <1>1, CheckExplores
  <2>2. /\ ~(phase = "done") /\ ~(phase' = "done")
        /\ prog' = prog
        /\ explored' = explored \union {path}
    BY <1>1 DEF Check, AtEndOfBody
  <2> QED
    BY <2>1, <2>2, Zenon DEF Abstract!Explore
<1>2. CASE FindNoNextPath
  <2>1. /\ ~(phase = "done") /\ phase' = "done"
        /\ prog' = prog
        /\ explored' = explored
    BY <1>2 DEF FindNoNextPath
  <2>2. FeasiblePaths(prog) \subseteq explored
    BY <2>1 DEF IInv, Complete
  <2> QED
    BY <2>1, <2>2, Zenon DEF Abstract!Finish
<1>3. CASE Reset
  <2>1. /\ phase = "done" /\ ~(phase' = "done")
        /\ explored' = {}
    BY <1>3 DEF Reset
  <2>2. FeasiblePaths(prog') \subseteq Paths(prog')
    BY Zenon DEF FeasiblePaths
  <2> QED
    BY <2>1, <2>2, Zenon DEF Abstract!Restart, FeasiblePaths
<1>4. CASE ~Check /\ ~FindNoNextPath /\ ~Reset
  <2>1. /\ prog' = prog
        /\ explored' = explored
        /\ (phase' = "done") <=> (phase = "done")
    BY <1>4, OtherStepsStutter DEF IInv
  <2>2. (phase' = "done") = (phase = "done")
    BY <2>1
  <2> QED
    BY <2>1, <2>2, Zenon
<1> QED
  BY <1>1, <1>2, <1>3, <1>4

(* For every set of programs and inputs: the checker runs complete paths   *)
(* only, none of them twice, and find_next_path() returns false only when  *)
(* every path that some input takes has been run.                          *)
THEOREM ExploresOnce == Spec => ExploresEveryFeasiblePathOnce
<1>1. Spec => []IInv
  BY SearchInvariant
<1> QED
  BY <1>1, AbstractInit, AbstractNext, PTL
    DEF Spec, ExploresEveryFeasiblePathOnce, Abstract!Spec

-----------------------------------------------------------------------------
(* What a replay does, and which errors are reported.                      *)

(* A flip appended in a feasible run names the call that appended it by    *)
(* the directions of the flips before it.                                  *)
MadeInStep ==
  phase # "done" =>
    \A k \in 1 .. Len(flips) :
       made[k].feasible => made[k].at = SubSeq(Directions(flips), 1, k - 1)

(* What the steps of a run do to the history of the flips *)
LEMMA StepsMake ==
  ASSUME TypeOK, ProgramStep
  PROVE  /\ phase = "run" /\ phase' = "run"
         /\ \/ UNCHANGED <<flips, made>>
            \/ \E d, frozen \in BOOLEAN : ~HasNext /\ AppendFlipHere(d, frozen)
<1>1. node.hint \in BOOLEAN
  BY ProgramType DEF TypeOK, node
<1>2. CASE BranchLiteral \/ AddAssertion \/ AddError
  BY <1>2 DEF BranchLiteral, AddAssertion, AddError, InBody, Step, dfs_vars
<1>3. CASE BranchWhenInfeasible \/ BranchNowhere
  BY <1>3 DEF BranchWhenInfeasible, BranchNowhere, AtNewBranch, AtBranch,
    AtEndOfBody, Return, dfs_vars
<1>4. CASE BranchReplay
  BY <1>4 DEF BranchReplay, AtBranch, AtEndOfBody, Return, TakeNext
<1>5. CASE BranchAsHinted \/ BranchAgainstHint
  BY <1>1, <1>5 DEF BranchAsHinted, BranchAgainstHint, AtNewBranch, AtBranch,
    AtEndOfBody, Return
<1>6. CASE ForceBranch
  BY <1>6 DEF ForceBranch, AtEndOfBody, Return, TakeNext
<1> QED
  BY <1>2, <1>3, <1>4, <1>5, <1>6 DEF ProgramStep

(* A feasible run is where its flips lead. *)
LEMMA FeasibleRunInStep ==
  ASSUME IInv, is_feasible, phase # "done"
  PROVE  path = SubSeq(Directions(flips), 1, flip_index)
<1>1. /\ path \in Seq(BOOLEAN)
      /\ flips \in Seq(Flip)
      /\ flip_index \in 0 .. Len(flips)
  BY TreeAssumption DEF IInv, TypeOK, DfsTypeOK
<1>2. /\ Len(path) = flip_index
      /\ \A j \in 1 .. flip_index : path[j] = flips[j].direction
  BY DEF IInv, Shape, InStep
<1>3. /\ Directions(flips) \in Seq(BOOLEAN)
      /\ Len(Directions(flips)) = Len(flips)
      /\ \A j \in 1 .. flip_index : path[j] = Directions(flips)[j]
  BY <1>1, <1>2, DirectionsType
<1> QED
  BY <1>1, <1>2, <1>3

(* Directions that two sequences of flips begin with *)
LEMMA SameDirections ==
  ASSUME NEW fs \in Seq(Flip), NEW gs \in Seq(Flip),
         NEW n \in Nat, n <= Len(fs), n <= Len(gs),
         \A j \in 1 .. n : fs[j].direction = gs[j].direction
  PROVE  SubSeq(Directions(fs), 1, n) = SubSeq(Directions(gs), 1, n)
<1>1. /\ Directions(fs) \in Seq(BOOLEAN) /\ Len(Directions(fs)) = Len(fs)
      /\ Directions(gs) \in Seq(BOOLEAN) /\ Len(Directions(gs)) = Len(gs)
      /\ \A j \in 1 .. n : Directions(fs)[j] = Directions(gs)[j]
  BY DirectionsType
<1> QED
  BY <1>1

LEMMA MadeInStepNext == IInv /\ IInv' /\ MadeInStep /\ [Next]_vars => MadeInStep'
<1> SUFFICES ASSUME IInv, IInv', MadeInStep, [Next]_vars, phase' # "done",
                    NEW k \in 1 .. Len(flips'), made'[k].feasible
             PROVE  made'[k].at = SubSeq(Directions(flips'), 1, k - 1)
  BY DEF MadeInStep
<1>1. /\ flips \in Seq(Flip) /\ flips' \in Seq(Flip)
      /\ Len(flips) \in Nat /\ Len(flips') \in Nat
      /\ made \in Seq([at : Tree, feasible : BOOLEAN])
      /\ Len(made) = Len(flips)
      /\ flip_index \in 0 .. Len(flips)
      /\ TypeOK
  BY DEF IInv, TypeOK, DfsTypeOK
(* A flip that was there before is where it was. *)
<1>2. ASSUME phase # "done", k <= Len(flips), made'[k] = made[k],
             \A j \in 1 .. k - 1 : flips'[j].direction = flips[j].direction
      PROVE  made'[k].at = SubSeq(Directions(flips'), 1, k - 1)
  <2>1. made[k].at = SubSeq(Directions(flips), 1, k - 1)
    BY <1>1, <1>2 DEF MadeInStep
  <2>2. SubSeq(Directions(flips'), 1, k - 1) = SubSeq(Directions(flips), 1, k - 1)
    <3>1. k - 1 \in Nat /\ k - 1 <= Len(flips) /\ k - 1 <= Len(flips')
      BY <1>1, <1>2
    <3> QED
      BY <1>1, <1>2, <3>1, SameDirections
  <2> QED
    BY <1>2, <2>1, <2>2
<1>3. CASE phase # "done" /\ UNCHANGED <<flips, made>>
  BY <1>1, <1>2, <1>3
<1>4. ASSUME NEW d \in BOOLEAN, NEW frozen \in BOOLEAN, ~HasNext,
             AppendFlipHere(d, frozen), phase # "done"
      PROVE  made'[k].at = SubSeq(Directions(flips'), 1, k - 1)
  <2>1. /\ flips' = Append(flips, [direction |-> d, is_frozen |-> frozen])
        /\ made' = Append(made, [at |-> path, feasible |-> is_feasible])
        /\ flip_index = Len(flips)
    BY <1>1, <1>4 DEF AppendFlipHere, AppendFlip, HasNext
  <2>2. CASE k <= Len(flips)
    BY <1>1, <1>2, <1>4, <2>1, <2>2
  <2>3. CASE k = Len(flips) + 1
    <3>1. is_feasible /\ made'[k].at = path
      BY <1>1, <2>1, <2>3
    <3>2. path = SubSeq(Directions(flips), 1, k - 1)
      BY <1>1, <1>4, <2>1, <2>3, <3>1, FeasibleRunInStep
    <3>3. \A j \in 1 .. k - 1 : flips'[j].direction = flips[j].direction
      BY <1>1, <2>1, <2>3
    <3>4. SubSeq(Directions(flips'), 1, k - 1) = SubSeq(Directions(flips), 1, k - 1)
      BY <1>1, <2>3, <3>3, SameDirections
    <3> QED
      BY <3>1, <3>2, <3>4
  <2> QED
    BY <1>1, <2>1, <2>2, <2>3
<1>5. CASE ProgramStep
  BY <1>1, <1>3, <1>4, <1>5, StepsMake
<1>6. CASE Check
  BY <1>3, <1>6 DEF Check, AtEndOfBody, dfs_vars
<1>7. CASE FindNextPath
  <2>1. PICK i \in 1 .. Len(flips) : flips' = Alternate(flips, i)
    BY <1>7 DEF FindNextPath, DfsFindsPath
  <2>2. Len(flips') = i /\ \A j \in 1 .. i - 1 : flips'[j] = flips[j]
    BY <1>1, <2>1 DEF Alternate
  <2>3. made'[k] = made[k]
    BY <1>1, <1>7, <2>2 DEF FindNextPath
  <2> QED
    BY <1>1, <1>2, <1>7, <2>2, <2>3 DEF FindNextPath
<1>8. CASE FindNoNextPath \/ Reset
  BY <1>8 DEF FindNoNextPath, Reset, DfsReset
<1>9. CASE UNCHANGED vars
  BY <1>3, <1>9 DEF vars, dfs_vars
<1> QED
  BY <1>5, <1>6, <1>7, <1>8, <1>9 DEF Next, Analyse

(* As long as a run is feasible, branch and force_branch have returned the *)
(* directions of the flips replayed or appended so far, one flip per call, *)
(* and a flip appended in a feasible run is taken by the call that         *)
(* appended it.                                                            *)
THEOREM ReplayInStep == Spec => []ReplayFollowsFlips
<1>1. Init => MadeInStep
  BY DEF Init, DfsInit, MadeInStep
<1>2. IInv /\ MadeInStep => ReplayFollowsFlips
  <2> SUFFICES ASSUME IInv, MadeInStep, is_feasible, phase # "done"
               PROVE  /\ path = SubSeq(Directions(flips), 1, flip_index)
                      /\ \A k \in 1 .. flip_index :
                            made[k].feasible => made[k].at = SubSeq(path, 1, k - 1)
    BY DEF ReplayFollowsFlips
  <2>1. path = SubSeq(Directions(flips), 1, flip_index)
    BY FeasibleRunInStep
  <2>2. /\ flip_index \in 0 .. Len(flips) /\ Len(flips) \in Nat
        /\ Directions(flips) \in Seq(BOOLEAN)
        /\ Len(Directions(flips)) = Len(flips)
    BY FlipsType DEF IInv
  <2>3. ASSUME NEW k \in 1 .. flip_index, made[k].feasible
        PROVE  made[k].at = SubSeq(path, 1, k - 1)
    <3>1. made[k].at = SubSeq(Directions(flips), 1, k - 1)
      BY <2>2, <2>3 DEF MadeInStep
    <3>2. SubSeq(path, 1, k - 1) = SubSeq(Directions(flips), 1, k - 1)
      BY <2>1, <2>2
    <3> QED
      BY <3>1, <3>2
  <2> QED
    BY <2>1, <2>3
<1> QED
  BY <1>1, <1>2, MadeInStepNext, SearchInvariant, PTL DEF Spec

-----------------------------------------------------------------------------
(* The errors of a run.                                                    *)

(* Input v satisfies an error the current run has added so far. *)
FailsSoFar(v) ==
  \/ \E k \in 0 .. Len(path) - 1 : \E i \in 1 .. Len(At(prog, path, k).body) :
        /\ At(prog, path, k).body[i].op = "error"
        /\ v \in At(prog, path, k).body[i].cond
  \/ \E i \in 1 .. pos : node.body[i].op = "error" /\ v \in node.body[i].cond

(* m_errors holds, as a disjunction, for just the inputs that have failed. *)
ErrorsCharacteriseRun == \A v \in Inputs : v \in UNION errors <=> FailsSoFar(v)

(* At the end of a body the constraints so far are those of the path.      *)
LEMMA PathSoFar ==
  ASSUME TypeOK, AtEndOfBody, NEW v \in Inputs
  PROVE  /\ AdmitsSoFar(v) <=> Admits(prog, path, v)
         /\ FailsSoFar(v) <=> Fails(prog, path, v)
<1>1. /\ path \in Seq(BOOLEAN)
      /\ Len(path) \in Nat
      /\ pos = Len(node.body)
      /\ At(prog, path, Len(path)) = node
  BY TreeAssumption, LastNode DEF TypeOK, AtEndOfBody, node
<1> DEFINE A(n) == \A i \in 1 .. Len(n.body) :
                      n.body[i].op = "assertion" => v \in n.body[i].cond
           E(n) == \E i \in 1 .. Len(n.body) :
                      n.body[i].op = "error" /\ v \in n.body[i].cond
<1>2. (\A k \in 0 .. Len(path) : A(At(prog, path, k)))
        <=> (\A k \in 0 .. Len(path) - 1 : A(At(prog, path, k))) /\ A(node)
  <2> HIDE DEF A
  <2> QED
    BY <1>1
<1>3. (\E k \in 0 .. Len(path) : E(At(prog, path, k)))
        <=> (\E k \in 0 .. Len(path) - 1 : E(At(prog, path, k))) \/ E(node)
  <2> HIDE DEF E
  <2> QED
    BY <1>1
<1> QED
  BY <1>1, <1>2, <1>3 DEF AdmitsSoFar, Admits, FailsSoFar, Fails

(* Going on to the next node adds no error. *)
LEMMA FailsAfterResult ==
  ASSUME TypeOK, AtEndOfBody, node.kind # "exit", NEW d \in BOOLEAN, Return(d),
         NEW v \in Inputs
  PROVE  FailsSoFar(v)' <=> FailsSoFar(v)
<1>1. /\ prog' = prog
      /\ path \in Seq(BOOLEAN)
      /\ path' = Append(path, d)
      /\ path' \in Seq(BOOLEAN)
      /\ Len(path') = Len(path) + 1
      /\ \A k \in 1 .. Len(path) : path'[k] = path[k]
      /\ pos' = 0
      /\ pos = Len(node.body)
  BY TreeAssumption DEF TypeOK, Return, AtEndOfBody
<1>2. \A k \in 0 .. Len(path) : At(prog, path', k) = At(prog, path, k)
  <2>1. ASSUME NEW k \in 0 .. Len(path)
        PROVE  At(prog, path', k) = At(prog, path, k)
    <3>1. k <= Len(path') /\ \A j \in 1 .. k : path[j] = path'[j]
      BY <1>1
    <3>2. At(prog, path, k) = At(prog, path', k)
      BY <1>1, <3>1, SameNodes
    <3> QED
      BY <3>2
  <2> QED
    BY <2>1
<1> DEFINE E(n) == \E i \in 1 .. Len(n.body) :
                      n.body[i].op = "error" /\ v \in n.body[i].cond
<1>3. FailsSoFar(v)' <=> \E k \in 0 .. Len(path) : E(At(prog, path, k))
  <2>1. FailsSoFar(v)' <=> \E k \in 0 .. Len(path) : E(At(prog, path', k))
    BY <1>1 DEF FailsSoFar
  <2> HIDE DEF E
  <2> QED
    BY <1>2, <2>1
<1>4. Fails(prog, path, v) <=> \E k \in 0 .. Len(path) : E(At(prog, path, k))
  BY DEF Fails
<1> QED
  BY <1>3, <1>4, PathSoFar

(* An analysis starts with no error.                                     *)
LEMMA ErrorsInit == Init => ErrorsCharacteriseRun
BY DEF Init, ErrorsCharacteriseRun, FailsSoFar

(* Every step keeps m_errors exact: only add_error extends it, only the    *)
(* start of another run empties it.                                        *)
LEMMA ErrorsNext ==
  TypeOK /\ ErrorsCharacteriseRun /\ [Next]_vars => ErrorsCharacteriseRun'
<1> SUFFICES ASSUME TypeOK, ErrorsCharacteriseRun, [Next]_vars
             PROVE  ErrorsCharacteriseRun'
  OBVIOUS
<1>1. ASSUME NEW d \in BOOLEAN, AtEndOfBody, node.kind # "exit", Return(d)
      PROVE  ErrorsCharacteriseRun'
  <2>1. errors' = errors
    BY <1>1 DEF Return
  <2> QED
    BY <1>1, <2>1, FailsAfterResult DEF ErrorsCharacteriseRun
<1>2. ASSUME HasNext
      PROVE  NextDirection \in BOOLEAN
  <2>1. flips[flip_index + 1] \in Flip
    BY <1>2 DEF HasNext, TypeOK, DfsTypeOK
  <2> QED
    BY <2>1 DEF NextDirection, Flip
<1>3. node.hint \in BOOLEAN
  BY ProgramType DEF TypeOK, node
<1>4. ASSUME UNCHANGED <<prog, path, pos, errors>>
      PROVE  ErrorsCharacteriseRun'
  BY <1>4 DEF ErrorsCharacteriseRun, FailsSoFar, node
<1>5. ASSUME path' = << >>, pos' = 0, errors' = {}
      PROVE  ErrorsCharacteriseRun'
  BY <1>5 DEF ErrorsCharacteriseRun, FailsSoFar
<1>6. ASSUME InBody, Step,
             errors' = IF stmt.op = "error" THEN errors \union {stmt.cond} ELSE errors
      PROVE  ErrorsCharacteriseRun'
  <2>1. pos \in Nat /\ pos' = pos + 1
    BY <1>6 DEF Step, TypeOK, node
  <2>2. ASSUME NEW v \in Inputs
        PROVE  FailsSoFar(v)' <=> \/ FailsSoFar(v)
                                  \/ stmt.op = "error" /\ v \in stmt.cond
    BY <1>6, <2>1 DEF Step, FailsSoFar, node, stmt
  <2>3. ASSUME NEW v \in Inputs
        PROVE  v \in UNION errors' <=> \/ v \in UNION errors
                                       \/ stmt.op = "error" /\ v \in stmt.cond
    BY <1>6
  <2> QED
    BY <2>2, <2>3 DEF ErrorsCharacteriseRun
<1>7. CASE ProgramStep
  <2>1. CASE BranchLiteral
    BY <1>6, <2>1 DEF BranchLiteral
  <2>2. CASE AddAssertion
    BY <1>6, <2>2 DEF AddAssertion
  <2>3. CASE AddError
    BY <1>6, <2>3 DEF AddError
  <2>4. CASE BranchWhenInfeasible
    BY <1>1, <2>4 DEF BranchWhenInfeasible, AtBranch
  <2>5. CASE BranchReplay
    BY <1>1, <1>2, <2>5 DEF BranchReplay, AtBranch
  <2>6. CASE BranchAsHinted
    BY <1>1, <1>3, <2>6 DEF BranchAsHinted, AtNewBranch, AtBranch
  <2>7. CASE BranchAgainstHint
    BY <1>1, <1>3, <2>7 DEF BranchAgainstHint, AtNewBranch, AtBranch
  <2>8. CASE BranchNowhere
    BY <1>1, <2>8 DEF BranchNowhere, AtNewBranch, AtBranch
  <2>9. CASE ForceBranch
    BY <1>1, <1>2, <2>9 DEF ForceBranch
  <2> QED
    BY <1>7, <2>1, <2>2, <2>3, <2>4, <2>5, <2>6, <2>7, <2>8, <2>9 DEF ProgramStep
<1>8. CASE Check
  BY <1>4, <1>8 DEF Check
<1>9. CASE FindNextPath
  BY <1>5, <1>9 DEF FindNextPath, ResetErrors
<1>10. CASE FindNoNextPath
  BY <1>4, <1>10 DEF FindNoNextPath
<1>11. CASE Reset
  BY <1>5, <1>11 DEF Reset, ResetErrors
<1>12. CASE UNCHANGED vars
  BY <1>4, <1>12 DEF vars
<1> QED
  BY <1>7, <1>8, <1>9, <1>10, <1>11, <1>12 DEF Next, Analyse

-----------------------------------------------------------------------------
(* What check() reports.                                                   *)

(* No path with a failing input is passed over by a solver that decides.   *)
AllReported ==
  ~gives_up => \A p \in explored, v \in Inputs :
                  Runs(prog, p, v) /\ Fails(prog, p, v) => p \in reported

(* Only check() reports anything; a new analysis starts with nothing.      *)
LEMMA OtherStepsReportNothing ==
  ASSUME [Next]_vars, ~Check
  PROVE  /\ UNCHANGED <<prog, gives_up>>
         /\ \/ UNCHANGED <<explored, reported>>
            \/ explored' = {} /\ reported' = {}
<1>1. CASE ProgramStep
  BY <1>1 DEF ProgramStep, BranchLiteral, AddAssertion, AddError, Step, Return,
    BranchWhenInfeasible, BranchReplay, BranchAsHinted, BranchAgainstHint,
    BranchNowhere, ForceBranch
<1>2. CASE FindNextPath \/ FindNoNextPath \/ Reset
  BY <1>2 DEF FindNextPath, FindNoNextPath, Reset
<1>3. CASE UNCHANGED vars
  BY <1>3 DEF vars
<1> QED
  BY <1>1, <1>2, <1>3 DEF Next, Analyse

(* When check() is called, the path condition and the errors are those of  *)
(* the complete path, and nothing else is in m_solver.                     *)
LEMMA WhatCheckDecides ==
  ASSUME IInv, ErrorsCharacteriseRun, Check, NEW v \in Inputs
  PROVE  v \in solver \intersect guards \intersect UNION errors
           <=> /\ Follows(prog, path, v)
               /\ Admits(prog, path, v)
               /\ Fails(prog, path, v)
<1>1. TypeOK /\ AtEndOfBody /\ solver = Inputs /\ GuardsCharacteriseRun
  BY DEF IInv, Check, AtEndOfBody, SolverIsClean
<1>2. v \in guards <=> Follows(prog, path, v) /\ AdmitsSoFar(v)
  BY <1>1 DEF GuardsCharacteriseRun
<1>3. v \in UNION errors <=> FailsSoFar(v)
  BY DEF ErrorsCharacteriseRun
<1> QED
  BY <1>1, <1>2, <1>3, PathSoFar

(* A path is reported only by check(), which has found an input failing it. *)
LEMMA NoFalseAlarmNext ==
  ASSUME IInv, ErrorsCharacteriseRun, NoFalseAlarm, [Next]_vars
  PROVE  NoFalseAlarm'
<1>1. CASE Check
  <2>1. prog' = prog /\ reported' \subseteq reported \union {path}
    BY <1>1 DEF Check, CheckErrors
  <2>2. ASSUME reported' # reported
        PROVE  \E v \in Inputs : v \in solver \intersect guards \intersect UNION errors
    <3>1. solver \intersect guards \intersect UNION errors # {}
      BY <1>1, <2>2 DEF Check, CheckErrors
    <3>2. guards \subseteq Inputs
      BY DEF IInv, TypeOK, Condition
    <3> QED
      BY <3>1, <3>2
  <2> QED
    BY <1>1, <2>1, <2>2, WhatCheckDecides DEF NoFalseAlarm
<1>2. CASE ~Check
  BY <1>2, OtherStepsReportNothing DEF NoFalseAlarm
<1> QED
  BY <1>1, <1>2

(* check() lets no path with a failing input go by.                        *)
LEMMA AllReportedNext ==
  ASSUME IInv, ErrorsCharacteriseRun, AllReported, [Next]_vars
  PROVE  AllReported'
<1>1. CASE Check
  <2>1. /\ UNCHANGED <<prog, gives_up>>
        /\ explored' = explored \union {path}
        /\ reported \subseteq reported'
    BY <1>1 DEF Check, CheckErrors
  <2>2. ASSUME ~gives_up, NEW v \in Inputs, Runs(prog, path, v), Fails(prog, path, v)
        PROVE  path \in reported'
    <3>1. v \in solver \intersect guards \intersect UNION errors
      BY <1>1, <2>2, WhatCheckDecides DEF Runs
    <3> QED
      BY <1>1, <2>2, <3>1 DEF Check, CheckErrors
  <2> QED
    BY <2>1, <2>2 DEF AllReported
<1>2. CASE ~Check
  BY <1>2, OtherStepsReportNothing DEF AllReported
<1> QED
  BY <1>1, <1>2

(* check() answers sat only on paths that some input takes and fails on,   *)
(* although infeasible paths are run and m_solver is shared by all runs.   *)
THEOREM ReportsOnlyErrors == Spec => []NoFalseAlarm
<1>1. Init => NoFalseAlarm
  BY DEF Init, NoFalseAlarm
<1> QED
  BY <1>1, SearchInvariant, ErrorsInit, ErrorsNext, NoFalseAlarmNext, PTL DEF Spec, IInv

(* When the exploration is over, the path of every failing input has been  *)
(* reported, if the solver decides: no program hides an error from it.     *)
THEOREM ReportsAllErrors == Spec => []ReportsEveryError
<1>1. Init => AllReported
  BY DEF Init, AllReported
<1>2. IInv /\ AllReported => ReportsEveryError
  <2> SUFFICES ASSUME IInv, AllReported, phase = "done", ~gives_up,
                      NEW p \in Paths(prog), NEW v \in Inputs,
                      Runs(prog, p, v), Fails(prog, p, v)
               PROVE  p \in reported
    BY DEF ReportsEveryError
  <2>1. p \in explored
    BY DEF FeasiblePaths, IInv, Complete
  <2> QED
    BY <2>1 DEF AllReported
<1> QED
  BY <1>1, <1>2, SearchInvariant, ErrorsInit, ErrorsNext, AllReportedNext, PTL
    DEF Spec, IInv
=============================================================================
