-------------------------- MODULE BacktrackDfsProofs --------------------------
(***************************************************************************)
(* Proofs about BacktrackDfs, for every set of inputs and every program,   *)
(* however many branches it makes, whatever unsat cores the solver returns *)
(* and wherever the user calls check().                                    *)
(***************************************************************************)
EXTENDS BacktrackDfs, DfsProofs

-----------------------------------------------------------------------------
(* How a run, its flips, its guards and the program's tree fit together.   *)

(* A run has not left the program: it never went on from an exit. *)
RunOnTree == \A k \in 1 .. Len(path) : At(prog, path, k - 1).kind # "exit"

(* Neither will the replay of the flips. *)
FlipsOnTree ==
  \A i \in 1 .. Len(flips) : At(prog, Directions(flips), i - 1).kind # "exit"

(* The run has made the decisions of the flips it has replayed. *)
Followed ==
  /\ Len(path) = flip_index
  /\ \A j \in 1 .. flip_index : path[j] = flips[j].direction

(* Inputs for which the branch after the first k results of p returns d    *)
Choice(p, k, d) == {v \in Inputs : d = (v \in At(prog, p, k).cond)}

(* Each guard is the condition of the flip it was made for. *)
GuardsMatch ==
  /\ Len(guards) <= Len(flips)
  /\ \A j \in 1 .. Len(guards) :
        guards[j] = Choice(Directions(flips), j - 1, flips[j].direction)

Running ==
  /\ allow
  /\ solver = Inputs
  /\ Len(guards) = flip_index
  /\ HasNext => replaying

(* After the program's end the flips are those of the path, or of the next *)
(* one once backtracking has found it, or none once it found there is none.*)
Ended ==
  /\ prog[path].kind = "exit"
  /\ pos = Len(node.body)
  /\ allow => flip_index = Len(flips)
  /\ ~allow /\ found_path => flip_index = 0
  /\ ~allow /\ ~found_path => flips = << >> /\ phase # "backtrack"
  /\ allow \/ found_path => Len(guards) = Len(flips)

Shape ==
  phase # "done" =>
    /\ RunOnTree
    /\ FlipsOnTree
    /\ allow => Followed
    /\ allow \/ found_path => GuardsMatch
    /\ phase = "run" => Running
    /\ phase # "run" => Ended

-----------------------------------------------------------------------------
(* Type correctness.                                                       *)

LEMMA TypeInit == Init => TypeOK
<1> SUFFICES ASSUME Init
             PROVE  TypeOK
  OBVIOUS
<1>1. prog \in [Tree -> Node] /\ << >> \in Tree
  BY TreeAssumption DEF Init
<1>2. Len(prog[<< >>].body) \in Nat
  BY <1>1 DEF Node
<1>3. DfsTypeOK
  BY DEF Init, DfsInit, DfsTypeOK
<1>4. guards \in Seq(Condition)
  BY DEF Init
<1>5. pos \in 0 .. Len(node.body)
  BY <1>2 DEF Init, node
<1> QED
  BY <1>1, <1>3, <1>4, <1>5 DEF Init, TypeOK, Condition

(* A program is a tree of nodes. *)
LEMMA ProgramType ==
  ASSUME TypeOK, NEW p \in Tree
  PROVE  /\ prog[p] \in Node
         /\ prog[p].body \in Seq(Statement)
         /\ Len(prog[p].body) \in Nat
         /\ prog[p].kind \in {"branch", "force_branch", "exit"}
         /\ prog[p].cond \in Condition
<1>1. prog \in [Tree -> Node]
  BY TreeAssumption DEF TypeOK
<1>2. prog[p] \in Node
  BY <1>1
<1> QED
  BY <1>2 DEF Node

(* The current node *)
LEMMA NodeType ==
  ASSUME TypeOK
  PROVE  /\ path \in Seq(BOOLEAN)
         /\ << >> \in Tree
         /\ node.body \in Seq(Statement)
         /\ Len(node.body) \in Nat
         /\ Len(prog[<< >>].body) \in Nat
         /\ node.cond \in Condition
         /\ pos \in 0 .. Len(node.body)
         /\ InBody => stmt \in Statement
         /\ At(prog, path, Len(path)) = node
<1>1. path \in Seq(BOOLEAN) /\ path \in Tree /\ << >> \in Tree
  BY TreeAssumption DEF TypeOK
<1>2. SubSeq(path, 1, Len(path)) = path
  BY <1>1
<1>3. /\ node.body \in Seq(Statement)
      /\ Len(node.body) \in Nat
      /\ Len(prog[<< >>].body) \in Nat
      /\ node.cond \in Condition
  BY <1>1, ProgramType DEF node
<1>4. pos \in 0 .. Len(node.body)
  BY DEF TypeOK
<1>5. InBody => stmt \in Statement
  BY <1>3, <1>4 DEF stmt, InBody
<1> QED
  BY <1>1, <1>2, <1>3, <1>4, <1>5 DEF At, node

Advances(d) == AtBranch /\ Return(d) /\ AddGuard(d)

(* The steps of a run by what they do to the flips *)
Replays(d) == Advances(d) /\ HasNext /\ d = NextDirection /\ TakeNext /\ UNCHANGED replaying

Appends(d) == Advances(d) /\ ~HasNext /\ AppendFlip(d, FALSE) /\ replaying' = FALSE

StaysAtNode == InBody /\ Step /\ UNCHANGED guards

LEMMA StepsOfARun ==
  ASSUME TypeOK, ProgramStep
  PROVE  \/ StaysAtNode
         \/ \E d \in BOOLEAN : Replays(d)
         \/ Appends(FALSE)
<1>1. CASE BranchLiteral \/ AddAssertion \/ AddError
  BY <1>1 DEF BranchLiteral, AddAssertion, AddError, StaysAtNode, checker_vars
<1>2. CASE BranchReplay
  <2>1. NextDirection \in BOOLEAN
    BY <1>2, DfsNext DEF BranchReplay, TypeOK
  <2> QED
    BY <1>2, <2>1 DEF BranchReplay, Advances, Replays
<1>3. CASE BranchNew
  BY <1>3 DEF BranchNew, Advances, Appends
<1> QED
  BY <1>1, <1>2, <1>3 DEF ProgramStep

(* A step to the next node of the tree *)
LEMMA PathGrows ==
  ASSUME TypeOK, NEW d \in BOOLEAN, Advances(d)
  PROVE  /\ path' \in Tree
         /\ path' \in Seq(BOOLEAN)
         /\ Len(path') = Len(path) + 1
         /\ path'[Len(path) + 1] = d
         /\ \A j \in 1 .. Len(path) : path'[j] = path[j]
         /\ \A k \in 0 .. Len(path) : At(prog, path', k) = At(prog, path, k)
         /\ pos' = 0
         /\ pos' \in 0 .. Len(node'.body)
         /\ guards' = Append(guards, Choice(path, Len(path), d))
         /\ Choice(path, Len(path), d) \in Condition
<1>1. /\ path' = Append(path, d) /\ pos' = 0 /\ prog' = prog
      /\ node.kind # "exit" /\ path \in Tree
  BY DEF Advances, Return, AtBranch, AtEndOfBody, TypeOK
<1>2. path' \in Tree
  BY <1>1, TreeAssumption DEF TypeOK, node
<1>3. /\ path' \in Seq(BOOLEAN)
      /\ Len(path') = Len(path) + 1
      /\ path'[Len(path) + 1] = d
      /\ \A j \in 1 .. Len(path) : path'[j] = path[j]
  BY <1>1, NodeType
<1>4. ASSUME NEW k \in 0 .. Len(path)
      PROVE  At(prog, path', k) = At(prog, path, k)
  <2>1. path \in Seq(BOOLEAN) /\ k <= Len(path') /\ \A j \in 1 .. k : path[j] = path'[j]
    BY <1>3, NodeType
  <2> QED
    BY <1>3, <2>1, SamePrefix DEF At
<1>5. Len(node'.body) \in Nat
  BY <1>1, <1>2, ProgramType DEF node
<1>6. guards' = Append(guards, Choice(path, Len(path), d))
  <2>1. node.cond \subseteq Inputs /\ At(prog, path, Len(path)) = node
    BY NodeType DEF Condition
  <2>2. (IF d THEN node.cond ELSE Inputs \ node.cond) = Choice(path, Len(path), d)
    <3>1. CASE d = TRUE
      BY <2>1, <3>1 DEF Choice
    <3>2. CASE d = FALSE
      BY <2>1, <3>2 DEF Choice
    <3> QED
      BY <3>1, <3>2
  <2> QED
    BY <2>2 DEF Advances, AddGuard
<1>7. Choice(path, Len(path), d) \in Condition
  BY DEF Choice, Condition
<1>8. pos' \in 0 .. Len(node'.body)
  BY <1>1, <1>5
<1> QED
  BY <1>1, <1>2, <1>3, <1>4, <1>6, <1>7, <1>8

LEMMA TypeAdvances ==
  ASSUME TypeOK, NEW d \in BOOLEAN, Advances(d), DfsTypeOK', replaying' \in BOOLEAN
  PROVE  TypeOK'
<1>1. guards' \in Seq(Condition) /\ path' \in Tree /\ pos' \in 0 .. Len(node'.body)
  <2>1. guards \in Seq(Condition)
    BY DEF TypeOK
  <2>2. path' \in Tree
    BY PathGrows
  <2>3. pos' \in 0 .. Len(node'.body)
    BY PathGrows
  <2>4. guards' \in Seq(Condition)
    BY <2>1, PathGrows
  <2> QED
    BY <2>2, <2>3, <2>4
<1> QED
  BY <1>1 DEF TypeOK, Advances, Return, history_vars

LEMMA TypeNext == TypeOK /\ Shape /\ [Next]_vars => TypeOK'
<1> SUFFICES ASSUME TypeOK, Shape, [Next]_vars
             PROVE  TypeOK'
  OBVIOUS
<1> USE NodeType
<1>1. UNCHANGED dfs_vars => DfsTypeOK'
  BY DEF dfs_vars, TypeOK, DfsTypeOK
<1>2. CASE BranchLiteral
  BY <1>1, <1>2 DEF BranchLiteral, Step, InBody, TypeOK, node, checker_vars, history_vars
<1>3. CASE AddAssertion
  BY <1>1, <1>3 DEF AddAssertion, Step, InBody, TypeOK, node, history_vars, Condition
<1>4. CASE AddError
  <2>1. stmt.cond \in Condition
    BY <1>4 DEF AddError, Statement
  <2> QED
    BY <1>1, <1>4, <2>1 DEF AddError, GuardedError, Step, InBody, TypeOK, node,
      history_vars, Condition
<1>5. CASE BranchReplay \/ BranchNew
  <2>1. CASE \E d \in BOOLEAN : Replays(d)
    BY <2>1, DfsNext, TypeAdvances DEF Replays, TypeOK
  <2>2. CASE Appends(FALSE)
    <3>1. flip_index = Len(flips)
      BY <2>2 DEF Appends, HasNext, TypeOK, DfsTypeOK
    <3> QED
      BY <2>2, <3>1, DfsAppend, TypeAdvances DEF Appends, TypeOK
  <2>3. ~StaysAtNode
    <3>1. pos = Len(node.body)
      BY <1>5 DEF BranchReplay, BranchNew, AtBranch, AtEndOfBody
    <3> QED
      BY <3>1 DEF StaysAtNode, InBody
  <2> QED
    BY <1>5, <2>1, <2>2, <2>3, StepsOfARun DEF ProgramStep
<1>6. CASE Check \/ FindNextPathBacktracks
  BY <1>1, <1>6 DEF Check, FindNextPathBacktracks, EnterBacktrackCheck, TypeOK, node,
    checker_vars, control_vars, history_vars, Condition
<1>7. CASE CheckNothing \/ SkipCheck \/ CheckPathInfeasible
  BY <1>1, <1>7 DEF CheckNothing, SkipCheck, CheckPathInfeasible, Resume, TypeOK, node,
    checker_vars, control_vars
<1>8. CASE CheckErrors
  BY <1>1, <1>8 DEF CheckErrors, Resume, TypeOK, node, checker_vars, control_vars, Condition
<1>9. CASE BacktrackNoCore
  BY <1>1, <1>9 DEF BacktrackNoCore, LeaveLoop, TypeOK, node, control_vars, history_vars
<1>10. CASE BacktrackExhausted
  <2>1. guards' \in Seq(Condition) /\ DfsTypeOK'
    BY <1>10 DEF BacktrackExhausted, DfsFindsNoPath, DfsReset, TypeOK, DfsTypeOK
  <2> QED
    BY <1>10, <2>1 DEF BacktrackExhausted, LeaveLoop, TypeOK, node, control_vars,
      history_vars
<1>11. CASE BacktrackFlip
  <2>1. PICK m \in 1 .. Len(guards) : DfsFindsPath(SubSeq(flips, 1, m))
    BY <1>11 DEF BacktrackFlip, Popped
  <2>2. Len(guards) = Len(flips) /\ DfsTypeOK
    BY <1>11 DEF BacktrackFlip, Shape, Ended, TypeOK
  <2>3. DfsTypeOK' /\ \E k \in 1 .. m : CutAt(k, m)
    BY <2>1, <2>2, DfsCut
  <2>4. Len(flips') \in 1 .. Len(guards)
    BY <2>1, <2>3 DEF CutAt
  <2>5. guards' \in Seq(Condition)
    <3>1. Inputs \ guards[Len(flips')] \in Condition
      BY DEF Condition
    <3>2. SubSeq(guards, 1, Len(flips') - 1) \in Seq(Condition)
      BY <2>4 DEF TypeOK
    <3> QED
      BY <1>11, <3>1, <3>2 DEF BacktrackFlip
  <2> QED
    BY <1>11, <2>3, <2>5 DEF BacktrackFlip, TypeOK, node, control_vars, history_vars
<1>12. CASE FindNextPath
  <2>1. DfsTypeOK'
    <3>1. CASE allow
      <4>1. DfsTypeOK /\ Len(flips) \in 0 .. Len(flips)
        BY DfsFlips DEF TypeOK
      <4>2. DfsFindsPath(SubSeq(flips, 1, Len(flips)))
        BY <1>12, <3>1, <4>1, WholeStack DEF FindNextPath, Move
      <4> QED
        BY <4>1, <4>2, DfsCut
    <3>2. CASE ~allow
      BY <1>1, <1>12, <3>2 DEF FindNextPath, Move
    <3> QED
      BY <3>1, <3>2
  <2> QED
    BY <1>12, <2>1 DEF FindNextPath, ResetChecker, TypeOK, Condition, node, history_vars
<1>13. CASE FindNoNextPath
  <2>1. DfsTypeOK'
    <3>1. CASE allow
      BY <1>13, <3>1 DEF FindNoNextPath, Move, DfsFindsNoPath, DfsReset, DfsTypeOK
    <3>2. CASE ~allow
      BY <1>1, <1>13, <3>2 DEF FindNoNextPath, Move
    <3> QED
      BY <3>1, <3>2
  <2> QED
    BY <1>13, <2>1 DEF FindNoNextPath, TypeOK, node, checker_vars, control_vars, history_vars
<1>14. CASE Reset
  <2>1. DfsTypeOK' /\ guards' \in Seq(Condition)
    BY <1>14 DEF Reset, DfsReset, ResetChecker, DfsTypeOK
  <2>2. pos' \in 0 .. Len(node'.body)
    BY <1>14 DEF Reset, node
  <2> QED
    BY <1>14, <2>1, <2>2 DEF Reset, ResetChecker, TypeOK, Condition
<1>15. CASE UNCHANGED vars
  BY <1>1, <1>15 DEF vars, TypeOK, node, checker_vars, control_vars, history_vars
<1> QED
  BY <1>2, <1>3, <1>4, <1>5, <1>6, <1>7, <1>8, <1>9, <1>10, <1>11, <1>12, <1>13,
     <1>14, <1>15 DEF Next, Analyse, ProgramStep, Checking

-----------------------------------------------------------------------------
(* The shape is kept.                                                      *)

LEMMA ShapeInit == Init => Shape
BY DEF Init, DfsInit, Shape, RunOnTree, FlipsOnTree, Followed, GuardsMatch, Running, HasNext

(* A run that follows its flips is at the node they lead to. *)
LEMMA SameNode ==
  ASSUME TypeOK, Followed
  PROVE  /\ At(prog, Directions(flips), flip_index) = node
         /\ Choice(Directions(flips), flip_index, TRUE) = Choice(path, Len(path), TRUE)
         /\ Choice(Directions(flips), flip_index, FALSE) = Choice(path, Len(path), FALSE)
<1>1. At(prog, Directions(flips), flip_index) = At(prog, path, Len(path))
  <2>1. /\ path \in Seq(BOOLEAN) /\ DfsTypeOK /\ flip_index \in Nat
        /\ flip_index <= Len(flips) /\ flip_index <= Len(path)
        /\ \A j \in 1 .. flip_index : path[j] = flips[j].direction
        /\ Len(path) = flip_index
    BY NodeType, DfsFlips DEF TypeOK, Followed
  <2> QED
    BY <2>1, FollowedDirections DEF At
<1> QED
  BY <1>1, NodeType DEF Choice

(* A run that ends has replayed all of its flips. *)
LEMMA AllReplayed ==
  ASSUME TypeOK, Shape, AtExit
  PROVE  flip_index = Len(flips)
<1>1. FlipsOnTree /\ Followed
  BY DEF AtExit, AtEndOfBody, Shape, Running
<1>2. ASSUME flip_index # Len(flips)
      PROVE  FALSE
  <2>1. flip_index + 1 \in 1 .. Len(flips) /\ flip_index \in Nat
    BY <1>2, DfsFlips DEF TypeOK
  <2>2. At(prog, Directions(flips), (flip_index + 1) - 1).kind # "exit"
    BY <1>1, <2>1 DEF FlipsOnTree
  <2>3. (flip_index + 1) - 1 = flip_index
    BY <2>1
  <2> QED
    BY <1>1, <2>2, <2>3, SameNode DEF AtExit
<1> QED
  BY <1>2

(* Flips and guards that are kept still fit together. *)
LEMMA KeptFlips ==
  ASSUME TypeOK, DfsTypeOK', FlipsOnTree, prog' = prog,
         NEW i \in 1 .. Len(flips), i <= Len(flips'),
         \A j \in 1 .. i - 1 : flips'[j] = flips[j]
  PROVE  At(prog, Directions(flips'), i - 1) = At(prog, Directions(flips), i - 1)
<1>1. i - 1 \in Nat /\ i - 1 <= Len(flips) /\ i - 1 <= Len(flips') /\ DfsTypeOK
  BY DfsFlips DEF TypeOK, DfsTypeOK
<1> QED
  BY <1>1, SameDirections DEF At

LEMMA RunStaysOnTree ==
  ASSUME TypeOK, NEW d \in BOOLEAN, Advances(d), RunOnTree
  PROVE  RunOnTree'
<1> prog' = prog /\ node.kind # "exit"
  BY DEF Advances, AtBranch, Return
<1>1. ASSUME NEW k \in 1 .. Len(path')
      PROVE  At(prog, path', k - 1).kind # "exit"
  <2>1. k - 1 \in 0 .. Len(path) /\ Len(path) \in Nat
    BY PathGrows, NodeType
  <2>2. At(prog, path', k - 1) = At(prog, path, k - 1)
    BY <2>1, PathGrows
  <2>3. CASE k - 1 = Len(path)
    BY <2>2, <2>3, NodeType
  <2>4. CASE k \in 1 .. Len(path)
    BY <2>2, <2>4 DEF RunOnTree
  <2> QED
    BY <2>1, <2>3, <2>4
<1> QED
  BY <1>1 DEF RunOnTree

LEMMA ShapeReplays ==
  ASSUME TypeOK, TypeOK', Shape, NEW d \in BOOLEAN, Replays(d)
  PROVE  Shape'
<1>1. /\ RunOnTree /\ FlipsOnTree /\ Followed /\ GuardsMatch
      /\ phase = "run" /\ phase' = "run" /\ allow /\ allow' /\ prog' = prog
      /\ solver = Inputs /\ solver' = Inputs /\ Len(guards) = flip_index
      /\ flips' = flips /\ flip_index' = flip_index + 1
      /\ replaying /\ replaying'
      /\ Advances(d) /\ HasNext
      /\ node.kind # "exit"
  BY DEF Replays, Advances, AtBranch, AtEndOfBody, Return, TakeNext, Shape, Running
<1>2. /\ flip_index + 1 \in 1 .. Len(flips) /\ d = flips[flip_index + 1].direction
      /\ flip_index \in Nat /\ Len(flips) \in Nat
  BY <1>1, DfsNext, DfsFlips DEF Replays, TypeOK
<1>3. RunOnTree'
  BY <1>1, RunStaysOnTree
<1>4. Followed'
  BY <1>1, <1>2, PathGrows, NodeType DEF Followed
<1>5. GuardsMatch' /\ Len(guards') = flip_index'
  <2>1. guards' = Append(guards, Choice(path, Len(path), d)) /\ guards \in Seq(Condition)
    BY <1>1, PathGrows DEF TypeOK
  <2>2. Choice(path, Len(path), d) = Choice(Directions(flips), flip_index, d)
    <3>1. d = TRUE \/ d = FALSE
      OBVIOUS
    <3> QED
      BY <1>1, <3>1, SameNode
  <2>3. /\ Len(guards') = flip_index + 1
        /\ guards'[flip_index + 1] = Choice(Directions(flips), flip_index, d)
        /\ \A j \in 1 .. flip_index : guards'[j] = guards[j]
    BY <1>1, <1>2, <2>1, <2>2
  <2>4. ASSUME NEW j \in 1 .. flip_index + 1
        PROVE  guards'[j] = Choice(Directions(flips), j - 1, flips[j].direction)
    <3>1. CASE j \in 1 .. flip_index
      BY <1>1, <2>3, <3>1 DEF GuardsMatch
    <3>2. CASE j = flip_index + 1
      <4>1. j - 1 = flip_index
        BY <1>2, <3>2
      <4> QED
        BY <1>2, <2>3, <3>2, <4>1
    <3> QED
      BY <1>2, <3>1, <3>2
  <2>5. ASSUME NEW j \in 1 .. Len(guards')
        PROVE  guards'[j] = Choice(Directions(flips), j - 1, flips[j].direction)'
    BY <1>1, <2>3, <2>4 DEF Choice
  <2> QED
    BY <1>1, <1>2, <2>3, <2>5 DEF GuardsMatch
<1> QED
  BY <1>1, <1>3, <1>4, <1>5 DEF Shape, Running, FlipsOnTree

LEMMA ShapeAppends ==
  ASSUME TypeOK, TypeOK', Shape, NEW d \in BOOLEAN, Appends(d)
  PROVE  Shape'
<1>1. /\ RunOnTree /\ FlipsOnTree /\ Followed /\ GuardsMatch
      /\ phase = "run" /\ phase' = "run" /\ allow /\ allow' /\ prog' = prog
      /\ solver = Inputs /\ solver' = Inputs /\ Len(guards) = flip_index
      /\ Advances(d) /\ ~HasNext /\ AppendFlip(d, FALSE)
      /\ node.kind # "exit"
  BY DEF Appends, Advances, AtBranch, AtEndOfBody, Return, Shape, Running
<1>2. /\ flip_index = Len(flips) /\ Len(flips) \in Nat
      /\ DfsTypeOK /\ DfsTypeOK'
  BY <1>1, DfsFlips DEF HasNext, TypeOK
<1>3. /\ Len(flips') = Len(flips) + 1
      /\ flip_index' = Len(flips')
      /\ flips'[Len(flips) + 1].direction = d
      /\ \A i \in 1 .. Len(flips) : flips'[i] = flips[i]
  BY <1>1, <1>2, DfsAppend
<1>4. RunOnTree'
  BY <1>1, RunStaysOnTree
<1>5. Followed'
  <2>1. ASSUME NEW j \in 1 .. flip_index'
        PROVE  path'[j] = flips'[j].direction
    <3>1. CASE j \in 1 .. Len(flips)
      BY <1>1, <1>2, <1>3, <3>1, PathGrows, NodeType DEF Followed
    <3>2. CASE j = Len(flips) + 1
      BY <1>1, <1>2, <1>3, <3>2, PathGrows, NodeType DEF Followed
    <3> QED
      BY <1>2, <1>3, <3>1, <3>2
  <2> QED
    BY <1>1, <1>2, <1>3, <2>1, PathGrows, NodeType DEF Followed
<1>6. At(prog, Directions(flips'), Len(flips)) = node
  <2>1. SubSeq(Directions(flips'), 1, Len(flips)) = SubSeq(Directions(flips), 1, Len(flips))
    BY <1>2, <1>3, SameDirections
  <2> QED
    BY <1>1, <1>2, <2>1, SameNode DEF At
<1>7. FlipsOnTree'
  <2>1. ASSUME NEW i \in 1 .. Len(flips')
        PROVE  At(prog, Directions(flips'), i - 1).kind # "exit"
    <3>1. CASE i \in 1 .. Len(flips)
      <4>1. At(prog, Directions(flips'), i - 1) = At(prog, Directions(flips), i - 1)
        BY <1>1, <1>2, <1>3, <3>1, KeptFlips
      <4> QED
        BY <1>1, <3>1, <4>1 DEF FlipsOnTree
    <3>2. CASE i = Len(flips) + 1
      <4>1. i - 1 = Len(flips)
        BY <1>2, <3>2
      <4> QED
        BY <1>1, <1>6, <4>1
    <3> QED
      BY <1>2, <1>3, <3>1, <3>2
  <2> QED
    BY <1>1, <2>1 DEF FlipsOnTree
<1>8. GuardsMatch' /\ Len(guards') = flip_index'
  <2>1. guards' = Append(guards, Choice(path, Len(path), d)) /\ guards \in Seq(Condition)
    BY <1>1, PathGrows DEF TypeOK
  <2>2. Choice(path, Len(path), d)
          = {v \in Inputs : d = (v \in At(prog, Directions(flips'), Len(flips)).cond)}
    BY <1>6, NodeType DEF Choice
  <2>3. /\ Len(guards') = Len(flips) + 1
        /\ guards'[Len(flips) + 1] = Choice(path, Len(path), d)
        /\ \A j \in 1 .. Len(flips) : guards'[j] = guards[j]
    BY <1>1, <1>2, <2>1
  <2>4. ASSUME NEW j \in 1 .. Len(guards')
        PROVE  guards'[j] = Choice(Directions(flips), j - 1, flips[j].direction)'
    <3>1. CASE j \in 1 .. Len(flips)
      <4>1. At(prog, Directions(flips'), j - 1) = At(prog, Directions(flips), j - 1)
        BY <1>1, <1>2, <1>3, <3>1, KeptFlips
      <4>2. guards[j] = Choice(Directions(flips), j - 1, flips[j].direction)
        BY <1>1, <1>2, <3>1 DEF GuardsMatch
      <4> QED
        BY <1>1, <1>3, <2>3, <3>1, <4>1, <4>2 DEF Choice
    <3>2. CASE j = Len(flips) + 1
      <4>1. j - 1 = Len(flips)
        BY <1>2, <3>2
      <4> QED
        BY <1>1, <1>3, <2>2, <2>3, <3>2, <4>1 DEF Choice
    <3> QED
      BY <1>2, <2>3, <3>1, <3>2
  <2> QED
    BY <1>2, <1>3, <2>3, <2>4 DEF GuardsMatch
<1>9. ~HasNext'
  BY <1>3, <1>2 DEF HasNext
<1> QED
  BY <1>1, <1>4, <1>5, <1>7, <1>8, <1>9 DEF Shape, Running

(* A branch that does not return d returns the other result. *)
LEMMA OtherChoice ==
  ASSUME NEW p, NEW k, NEW d \in BOOLEAN
  PROVE  Inputs \ Choice(p, k, d) = Choice(p, k, ~d)
<1>1. CASE d = TRUE
  <2>1. Choice(p, k, TRUE) = {v \in Inputs : v \in At(prog, p, k).cond}
    BY DEF Choice
  <2>2. Choice(p, k, FALSE) = {v \in Inputs : v \notin At(prog, p, k).cond}
    BY DEF Choice
  <2>3. ~d = FALSE
    BY <1>1
  <2> QED
    BY <1>1, <2>1, <2>2, <2>3
<1>2. CASE d = FALSE
  BY <1>2 DEF Choice
<1> QED
  BY <1>1, <1>2

LEMMA ShapeFlip ==
  ASSUME TypeOK, TypeOK', Shape, BacktrackFlip
  PROVE  Shape'
<1>1. /\ RunOnTree /\ FlipsOnTree /\ GuardsMatch /\ Ended
      /\ phase = "backtrack" /\ phase' = "backtrack" /\ ~allow' /\ found_path'
      /\ prog' = prog /\ path' = path /\ pos' = pos
      /\ Len(guards) = Len(flips)
  BY DEF BacktrackFlip, Shape, Ended, control_vars, TypeOK
<1>2. PICK m \in 1 .. Len(guards) : DfsFindsPath(SubSeq(flips, 1, m))
  BY DEF BacktrackFlip, Popped
<1>3. /\ m \in 0 .. Len(flips) /\ Len(flips) \in Nat
      /\ DfsTypeOK /\ DfsTypeOK'
  BY <1>1, <1>2, DfsFlips DEF TypeOK
<1>4. flip_index' = 0 /\ \E k \in 1 .. m : CutAt(k, m)
  BY <1>2, <1>3, DfsCut
<1>5. PICK k \in 1 .. m : CutAt(k, m)
  BY <1>4
<1>6. /\ k \in 1 .. Len(flips)
      /\ Len(flips') = k
      /\ flips'[k].direction = ~flips[k].direction
      /\ flips[k].direction \in BOOLEAN
      /\ \A j \in 1 .. k - 1 : flips'[j] = flips[j]
  BY <1>3, <1>5, DfsFlips DEF CutAt
<1>7. ASSUME NEW i \in 1 .. k
      PROVE  At(prog, Directions(flips'), i - 1) = At(prog, Directions(flips), i - 1)
  <2>1. i \in 1 .. Len(flips) /\ i <= Len(flips')
    BY <1>6
  <2>2. \A j \in 1 .. i - 1 : flips'[j] = flips[j]
    BY <1>6
  <2> QED
    BY <1>1, <1>3, <2>1, <2>2, KeptFlips
<1>8. FlipsOnTree'
  <2>1. ASSUME NEW i \in 1 .. Len(flips')
        PROVE  At(prog, Directions(flips'), i - 1).kind # "exit"
    <3>1. i \in 1 .. k /\ i \in 1 .. Len(flips)
      BY <1>6
    <3> QED
      BY <1>1, <1>7, <3>1 DEF FlipsOnTree
  <2> QED
    BY <1>1, <2>1 DEF FlipsOnTree
<1>9. GuardsMatch' /\ Len(guards') = Len(flips')
  <2>1. guards' = Append(SubSeq(guards, 1, k - 1), Inputs \ guards[k]) /\ guards \in Seq(Condition)
    BY <1>6 DEF BacktrackFlip, TypeOK
  <2>2. /\ Len(guards') = k
        /\ guards'[k] = Inputs \ guards[k]
        /\ \A j \in 1 .. k - 1 : guards'[j] = guards[j]
    BY <1>1, <1>6, <2>1
  <2>3. \A j \in 1 .. k : guards[j] = Choice(Directions(flips), j - 1, flips[j].direction)
    BY <1>1, <1>6 DEF GuardsMatch
  <2>4. Inputs \ guards[k] = Choice(Directions(flips), k - 1, ~flips[k].direction)
    BY <1>6, <2>3, OtherChoice
  <2>5. ASSUME NEW j \in 1 .. Len(guards')
        PROVE  guards'[j] = Choice(Directions(flips), j - 1, flips[j].direction)'
    <3>1. j \in 1 .. k /\ At(prog, Directions(flips'), j - 1) = At(prog, Directions(flips), j - 1)
      BY <1>7, <2>2
    <3>2. CASE j \in 1 .. k - 1
      BY <1>1, <1>6, <2>2, <2>3, <3>1, <3>2 DEF Choice
    <3>3. CASE j = k
      BY <1>1, <1>6, <2>2, <2>4, <3>1, <3>3 DEF Choice
    <3> QED
      BY <3>1, <3>2, <3>3
  <2> QED
    BY <1>6, <2>2, <2>5 DEF GuardsMatch
<1>10. Ended'
  BY <1>1, <1>4, <1>9 DEF Ended, node
<1> QED
  BY <1>1, <1>8, <1>9, <1>10 DEF Shape, RunOnTree

(* The same for find_next_path() when nothing was cut: the next run starts.*)
LEMMA ShapeFindNextPath ==
  ASSUME TypeOK, TypeOK', Shape, FindNextPath
  PROVE  Shape'
<1>1. /\ RunOnTree /\ FlipsOnTree
      /\ ~allow /\ found_path => flip_index = 0
      /\ phase # "run" /\ phase # "done"
      /\ phase' = "run" /\ allow' /\ solver' = Inputs /\ guards' = << >>
      /\ prog' = prog /\ path' = << >> /\ replaying'
  BY DEF FindNextPath, ReadyToMove, ResetChecker, Shape, Ended
<1>2. FlipsOnTree' /\ flip_index' = 0
  <2>1. CASE allow
    <3>1. DfsTypeOK /\ DfsTypeOK' /\ Len(flips) \in 0 .. Len(flips)
      BY DfsFlips DEF TypeOK
    <3>2. DfsFindsPath(SubSeq(flips, 1, Len(flips)))
      BY <2>1, <3>1, WholeStack DEF FindNextPath, Move
    <3>3. flip_index' = 0 /\ \E k \in 1 .. Len(flips) : CutAt(k, Len(flips))
      BY <3>1, <3>2, DfsCut
    <3>4. PICK k \in 1 .. Len(flips) : CutAt(k, Len(flips))
      BY <3>3
    <3>5. Len(flips') = k /\ \A j \in 1 .. k - 1 : flips'[j] = flips[j]
      BY <3>4 DEF CutAt
    <3>6. ASSUME NEW i \in 1 .. Len(flips')
          PROVE  At(prog, Directions(flips'), i - 1).kind # "exit"
      <4>1. i \in 1 .. Len(flips) /\ i <= Len(flips') /\ \A j \in 1 .. i - 1 : flips'[j] = flips[j]
        BY <3>5
      <4>2. At(prog, Directions(flips'), i - 1) = At(prog, Directions(flips), i - 1)
        BY <1>1, <3>1, <4>1, KeptFlips
      <4> QED
        BY <1>1, <4>1, <4>2 DEF FlipsOnTree
    <3> QED
      BY <1>1, <3>3, <3>6 DEF FlipsOnTree
  <2>2. CASE ~allow
    BY <1>1, <2>2 DEF FindNextPath, Move, dfs_vars, FlipsOnTree
  <2> QED
    BY <2>1, <2>2
<1>3. Len(flips') \in Nat
  BY DEF TypeOK, DfsTypeOK
<1> QED
  BY <1>1, <1>2, <1>3 DEF Shape, RunOnTree, Followed, GuardsMatch, Running

(* Steps that leave the flips, the guards and the path alone *)
LEMMA ShapeStays ==
  ASSUME Shape, phase # "done", UNCHANGED <<dfs_vars, prog, path, guards>>,
         allow' = allow, found_path' = found_path,
         phase' = "run" => Running',
         phase' # "run" => Ended'
  PROVE  Shape'
BY DEF Shape, dfs_vars, RunOnTree, FlipsOnTree, Followed, GuardsMatch, Choice

LEMMA ShapeNext == TypeOK /\ TypeOK' /\ Shape /\ [Next]_vars => Shape'
<1> SUFFICES ASSUME TypeOK, TypeOK', Shape, [Next]_vars
             PROVE  Shape'
  OBVIOUS
<1>1. CASE ProgramStep
  <2>1. CASE StaysAtNode
    <3>1. /\ phase = "run" /\ phase' = "run"
          /\ UNCHANGED <<dfs_vars, prog, path, guards, allow, found_path, solver, replaying>>
      BY <2>1 DEF StaysAtNode, InBody, Step
    <3>2. Running'
      BY <3>1 DEF Shape, Running, dfs_vars, HasNext
    <3> QED
      BY <3>1, <3>2, ShapeStays
  <2>2. CASE \E d \in BOOLEAN : Replays(d)
    BY <2>2, ShapeReplays
  <2>3. CASE Appends(FALSE)
    BY <2>3, ShapeAppends
  <2> QED
    BY <1>1, <2>1, <2>2, <2>3, StepsOfARun
<1>2. CASE Check \/ CheckNothing \/ SkipCheck
  <2>1. AtExit /\ flip_index = Len(flips)
    BY <1>2, AllReplayed DEF Check, CheckNothing, SkipCheck
  <2>2. /\ phase = "run" /\ phase' # "run"
        /\ UNCHANGED <<dfs_vars, prog, path, pos, guards, allow, found_path>>
    BY <1>2, <2>1 DEF Check, CheckNothing, SkipCheck, EnterBacktrackCheck, Resume,
      AtExit, AtEndOfBody, checker_vars, control_vars
  <2>3. allow /\ Len(guards) = flip_index
    BY <2>2 DEF Shape, Running
  <2>4. Ended'
    BY <2>1, <2>2, <2>3 DEF Ended, AtExit, AtEndOfBody, dfs_vars, node
  <2> QED
    BY <2>2, <2>4, ShapeStays
<1>3. CASE FindNextPathBacktracks \/ CheckPathInfeasible \/ CheckErrors
  <2>1. /\ phase # "run" /\ phase # "done" /\ Ended
    BY <1>3 DEF FindNextPathBacktracks, CheckPathInfeasible, CheckErrors, Shape
  <2>2. /\ UNCHANGED <<dfs_vars, prog, path, pos, guards, allow, found_path>>
        /\ phase' # "run" /\ (phase' = "backtrack" => allow)
    BY <1>3, <2>1 DEF FindNextPathBacktracks, CheckPathInfeasible, CheckErrors,
      EnterBacktrackCheck, Resume, checker_vars, control_vars, Ended, node
  <2>3. Ended'
    BY <2>1, <2>2 DEF Ended, dfs_vars, node
  <2> QED
    BY <2>1, <2>2, <2>3, ShapeStays
<1>4. CASE BacktrackNoCore
  <2>1. /\ phase = "backtrack" /\ phase' = "backtracked" /\ Ended
        /\ UNCHANGED <<dfs_vars, prog, path, pos, guards, allow, found_path>>
    BY <1>4 DEF BacktrackNoCore, LeaveLoop, control_vars, Shape
  <2>2. Ended'
    BY <2>1 DEF Ended, dfs_vars, node
  <2> QED
    BY <2>1, <2>2, ShapeStays
<1>5. CASE BacktrackExhausted
  <2>1. /\ phase = "backtrack" /\ phase' = "backtracked" /\ Ended /\ RunOnTree
        /\ UNCHANGED <<prog, path, pos>> /\ ~allow' /\ ~found_path'
        /\ flips' = << >>
    BY <1>5 DEF BacktrackExhausted, LeaveLoop, DfsFindsNoPath, DfsReset, control_vars, Shape
  <2> QED
    BY <2>1 DEF Shape, Ended, node, RunOnTree, FlipsOnTree
<1>6. CASE BacktrackFlip
  BY <1>6, ShapeFlip
<1>7. CASE FindNextPath
  BY <1>7, ShapeFindNextPath
<1>8. CASE FindNoNextPath
  BY <1>8 DEF FindNoNextPath, Shape
<1>9. CASE Reset
  BY <1>9 DEF Reset, DfsReset, ResetChecker, Shape, RunOnTree, FlipsOnTree, Followed,
    GuardsMatch, Running, HasNext
<1>10. CASE UNCHANGED vars
  BY <1>10 DEF vars, dfs_vars, checker_vars, control_vars, Shape, RunOnTree, FlipsOnTree,
    Followed, GuardsMatch, Choice, Running, Ended, HasNext, node
<1> QED
  BY <1>1, <1>2, <1>3, <1>4, <1>5, <1>6, <1>7, <1>8, <1>9, <1>10 DEF Next, Analyse, Checking

THEOREM ShapeInvariant == Spec => [](TypeOK /\ Shape)
<1>1. Init => TypeOK /\ Shape
  BY TypeInit, ShapeInit
<1>2. TypeOK /\ Shape /\ [Next]_vars => (TypeOK /\ Shape)'
  BY TypeNext, ShapeNext
<1> QED
  BY <1>1, <1>2, PTL DEF Spec

(* The checker's state has the type its members declare, for every program *)
(* and every core the solver may return: a run never leaves the program    *)
(* and backtracking never leaves the guards.                               *)
THEOREM TypeCorrect == Spec => []TypeOK
BY ShapeInvariant, PTL

(* The assertions in the code hold: backtracking and replay always find a  *)
(* guard for each flip, if it is between two runs that check() is called   *)
(* and not by the program (as it may be in CheckingSpec).                  *)
THEOREM AssertionsHold == Spec => []CodeAssertions
<1>1. TypeOK /\ Shape => CodeAssertions
  <2> SUFFICES ASSUME TypeOK, Shape
               PROVE  CodeAssertions
    OBVIOUS
  <2>1. AtExit => Len(guards) = Len(flips)
    BY AllReplayed DEF AtExit, AtEndOfBody, Shape, Running
  <2> QED
    BY <2>1 DEF CodeAssertions, AtBranch, AtEndOfBody, Shape, Running, Ended, TypeOK
<1> QED
  BY <1>1, ShapeInvariant, PTL

(* Outside backtracking a run has gone where the flips it replayed say.    *)
THEOREM ReplayIsFaithful == Spec => []ReplayFollowsFlips
<1>1. TypeOK /\ Shape => ReplayFollowsFlips
  <2> SUFFICES ASSUME TypeOK, Shape, phase = "run"
               PROVE  path = SubSeq(Directions(flips), 1, flip_index)
    BY DEF ReplayFollowsFlips
  <2>1. /\ path \in Seq(BOOLEAN) /\ DfsTypeOK /\ flip_index \in Nat
        /\ flip_index <= Len(flips) /\ flip_index = Len(path)
        /\ \A j \in 1 .. flip_index : path[j] = flips[j].direction
    BY NodeType, DfsFlips DEF TypeOK, Shape, Running, Followed
  <2>2. SubSeq(path, 1, flip_index) = SubSeq(Directions(flips), 1, flip_index)
    BY <2>1, FollowedDirections
  <2>3. SubSeq(path, 1, flip_index) = path
    BY <2>1
  <2> QED
    BY <2>2, <2>3
<1> QED
  BY <1>1, ShapeInvariant, PTL

-----------------------------------------------------------------------------
(* What the checker knows of a run.                                        *)

(* The program has made statement s in this run. *)
IsMade(s) ==
  \/ \E k \in 0 .. Len(path) - 1 : \E i \in 1 .. Len(At(prog, path, k).body) :
        s = At(prog, path, k).body[i]
  \/ \E i \in 1 .. pos : s = node.body[i]

Admitted(v) == \A s : IsMade(s) /\ s.op = "assertion" => v \in s.cond

Failed(v) == \E s : IsMade(s) /\ s.op = "error" /\ v \in s.cond

(* m_assertions and, on the path, m_errors mean what the program said. *)
Exact ==
  /\ assertions = {v \in Inputs : Admitted(v)}
  /\ \A v \in Inputs : Follows(prog, path, v) => (v \in UNION errors <=> Failed(v))

LEMMA MadeSoFar ==
  ASSUME TypeOK, pos = Len(node.body), NEW v \in Inputs
  PROVE  /\ Admits(prog, path, v) <=> Admitted(v)
         /\ Fails(prog, path, v) <=> Failed(v)
<1>1. Len(path) \in Nat /\ At(prog, path, Len(path)) = node
  BY NodeType
<1>2. ASSUME NEW s
      PROVE  IsMade(s) <=> \E k \in 0 .. Len(path) : \E i \in 1 .. Len(At(prog, path, k).body) :
                              s = At(prog, path, k).body[i]
  <2>1. 0 .. Len(path) = (0 .. Len(path) - 1) \union {Len(path)}
    BY <1>1
  <2> QED
    BY <1>1, <2>1 DEF IsMade
<1>3. Admits(prog, path, v) <=> Admitted(v)
  BY <1>2 DEF Admits, Admitted
<1>4. Fails(prog, path, v) <=> Failed(v)
  BY <1>2 DEF Fails, Failed
<1> QED
  BY <1>3, <1>4

(* One more branch result makes no statement and adds one constraint. *)
LEMMA OneMoreResult ==
  ASSUME TypeOK, NEW d \in BOOLEAN, Advances(d), NEW v \in Inputs
  PROVE  /\ Follows(prog, path, v)' => Follows(prog, path, v)
         /\ Admitted(v)' <=> Admitted(v)
         /\ Failed(v)' <=> Failed(v)
<1>1. /\ prog' = prog /\ pos' = 0 /\ pos = Len(node.body)
      /\ Len(path) \in Nat /\ Len(path') = Len(path) + 1
      /\ At(prog, path, Len(path)) = node
      /\ \A k \in 0 .. Len(path) : At(prog, path', k) = At(prog, path, k)
      /\ \A k \in 1 .. Len(path) : path'[k] = path[k]
  BY PathGrows, NodeType DEF Advances, Return, AtBranch, AtEndOfBody
<1>2. ASSUME NEW s
      PROVE  IsMade(s)' <=> IsMade(s)
  <2>1. 0 .. Len(path') - 1 = (0 .. Len(path) - 1) \union {Len(path)}
    BY <1>1
  <2>2. IsMade(s)' <=> \E k \in 0 .. Len(path') - 1 : \E i \in 1 .. Len(At(prog, path', k).body) :
                         s = At(prog, path', k).body[i]
    BY <1>1 DEF IsMade
  <2>3. \A k \in 0 .. Len(path') - 1 : At(prog, path', k) = At(prog, path, k)
    BY <1>1, <2>1
  <2>4. IsMade(s)' <=> \E k \in 0 .. Len(path') - 1 : \E i \in 1 .. Len(At(prog, path, k).body) :
                         s = At(prog, path, k).body[i]
    BY <2>2, <2>3
  <2> QED
    BY <1>1, <2>1, <2>4 DEF IsMade
<1>3. Follows(prog, path, v)' => Follows(prog, path, v)
  <2>1. \A k \in 1 .. Len(path) : k \in 1 .. Len(path') /\ k - 1 \in 0 .. Len(path)
    BY <1>1
  <2> QED
    BY <1>1, <2>1 DEF Follows
<1> QED
  BY <1>2, <1>3 DEF Admitted, Failed

(* A call in a body makes one statement. *)
LEMMA OneMoreStatement ==
  ASSUME TypeOK, InBody, Step, NEW s
  PROVE  IsMade(s)' <=> IsMade(s) \/ s = stmt
<1>1. pos \in Nat /\ pos' = pos + 1 /\ UNCHANGED <<prog, path>>
  BY NodeType DEF Step, TypeOK
<1>2. 1 .. pos' = (1 .. pos) \union {pos + 1}
  BY <1>1
<1> QED
  BY <1>1, <1>2 DEF IsMade, stmt, node

(* A guard holds for the inputs that make the decision it was made for. *)
LEMMA GuardAlong ==
  ASSUME TypeOK, GuardsMatch, NEW q \in Seq(BOOLEAN), NEW j \in 1 .. Len(guards), j <= Len(q),
         \A i \in 1 .. j : q[i] = flips[i].direction, NEW v \in Inputs
  PROVE  v \in guards[j] <=> q[j] = (v \in At(prog, q, j - 1).cond)
<1>1. DfsTypeOK /\ j - 1 \in Nat /\ j - 1 <= Len(flips) /\ j - 1 <= Len(q)
  BY DfsFlips DEF TypeOK, GuardsMatch
<1>2. \A i \in 1 .. j - 1 : q[i] = flips[i].direction
  OBVIOUS
<1>3. At(prog, q, j - 1) = At(prog, Directions(flips), j - 1)
  BY <1>1, <1>2, FollowedDirections DEF At
<1>4. guards[j] = Choice(Directions(flips), j - 1, q[j])
  BY DEF GuardsMatch
<1> QED
  BY <1>3, <1>4 DEF Choice

(* Inputs that go where the flips lead satisfy the guards. *)
LEMMA FollowersSatisfyGuards ==
  ASSUME TypeOK, GuardsMatch, NEW q \in Seq(BOOLEAN), NEW m \in Nat,
         m <= Len(guards), m <= Len(q),
         \A i \in 1 .. m : q[i] = flips[i].direction,
         NEW v \in Inputs, Follows(prog, q, v)
  PROVE  \A j \in 1 .. m : v \in guards[j]
<1> SUFFICES ASSUME NEW j \in 1 .. m
             PROVE  v \in guards[j]
  OBVIOUS
<1>1. j \in 1 .. Len(guards) /\ j <= Len(q) /\ j \in 1 .. Len(q)
  BY DEF TypeOK
<1>2. \A i \in 1 .. j : q[i] = flips[i].direction
  OBVIOUS
<1>3. q[j] = (v \in At(prog, q, j - 1).cond)
  BY <1>1 DEF Follows
<1> QED
  BY <1>1, <1>2, <1>3, GuardAlong

(* The guards of a run hold for the inputs that get there. *)
LEMMA GuardsAreThePath ==
  ASSUME TypeOK, RunOnTree, Followed, GuardsMatch, Len(guards) = flip_index,
         NEW v \in Inputs
  PROVE  (\A i \in DOMAIN guards : v \in guards[i]) <=> Follows(prog, path, v)
<1>1. /\ DOMAIN guards = 1 .. Len(path) /\ Len(guards) = Len(path)
      /\ path \in Seq(BOOLEAN) /\ Len(path) \in Nat
  BY NodeType DEF Followed, TypeOK
<1>2. ASSUME NEW k \in 1 .. Len(path)
      PROVE  v \in guards[k] <=> path[k] = (v \in At(prog, path, k - 1).cond)
  <2>1. k \in 1 .. Len(guards) /\ \A i \in 1 .. k : path[i] = flips[i].direction
    BY <1>1 DEF Followed
  <2> QED
    BY <1>1, <2>1, GuardAlong
<1>3. \A k \in 1 .. Len(path) : At(prog, path, k - 1).kind # "exit"
  BY DEF RunOnTree
<1> QED
  BY <1>1, <1>2, <1>3 DEF Follows

LEMMA ExactAtRoot ==
  ASSUME path' = << >>, pos' = 0, assertions' = Inputs, errors' = {}
  PROVE  Exact'
<1>1. \A s : ~IsMade(s)'
  BY DEF IsMade
<1> QED
  BY <1>1 DEF Exact, Admitted, Failed

LEMMA ExactStays ==
  ASSUME Exact, UNCHANGED <<prog, path, pos, assertions, errors>>
  PROVE  Exact'
<1>1. \A s : IsMade(s)' <=> IsMade(s)
  BY DEF IsMade, node
<1> QED
  BY <1>1 DEF Exact, Admitted, Failed

LEMMA ExactInit == Init => Exact
<1> SUFFICES ASSUME Init
             PROVE  Exact
  OBVIOUS
<1>1. \A s : ~IsMade(s)
  BY DEF Init, IsMade
<1> QED
  BY <1>1 DEF Init, Exact, Admitted, Failed

LEMMA ExactNext == TypeOK /\ Shape /\ Exact /\ [Next]_vars => Exact'
<1> SUFFICES ASSUME TypeOK, Shape, Exact, [Next]_vars
             PROVE  Exact'
  OBVIOUS
<1>1. CASE BranchLiteral
  <2>1. \A s : IsMade(s)' <=> IsMade(s) \/ s = stmt
    BY <1>1, OneMoreStatement DEF BranchLiteral
  <2>2. stmt.op = "literal" /\ UNCHANGED <<prog, path, assertions, errors>>
    BY <1>1 DEF BranchLiteral, Step, checker_vars
  <2> QED
    BY <2>1, <2>2 DEF Exact, Admitted, Failed
<1>2. CASE AddAssertion
  <2>1. \A s : IsMade(s)' <=> IsMade(s) \/ s = stmt
    BY <1>2, OneMoreStatement DEF AddAssertion
  <2>2. /\ stmt.op = "assertion" /\ UNCHANGED <<prog, path, errors>>
        /\ assertions' = assertions \intersect stmt.cond
    BY <1>2 DEF AddAssertion, Step
  <2>3. ASSUME NEW v \in Inputs
        PROVE  /\ Admitted(v)' <=> Admitted(v) /\ v \in stmt.cond
               /\ Failed(v)' <=> Failed(v)
    BY <2>1, <2>2 DEF Admitted, Failed
  <2> QED
    BY <2>2, <2>3 DEF Exact
<1>3. CASE AddError
  <2>1. \A s : IsMade(s)' <=> IsMade(s) \/ s = stmt
    BY <1>3, OneMoreStatement DEF AddError
  <2>2. /\ stmt.op = "error" /\ UNCHANGED <<prog, path, assertions>>
        /\ errors' = errors \union {stmt.cond \intersect Meet(guards, DOMAIN guards)}
        /\ phase = "run"
    BY <1>3 DEF AddError, GuardedError, Step, InBody
  <2>3. ASSUME NEW v \in Inputs
        PROVE  /\ Admitted(v)' <=> Admitted(v)
               /\ Failed(v)' <=> Failed(v) \/ v \in stmt.cond
    BY <2>1, <2>2 DEF Admitted, Failed
  <2>4. ASSUME NEW v \in Inputs, Follows(prog, path, v)
        PROVE  v \in Meet(guards, DOMAIN guards)
    BY <2>2, <2>4, GuardsAreThePath DEF Shape, Running, Meet
  <2>5. ASSUME NEW v \in Inputs, Follows(prog, path, v)
        PROVE  v \in UNION errors' <=> v \in UNION errors \/ v \in stmt.cond
    BY <2>2, <2>4, <2>5
  <2> QED
    BY <2>2, <2>3, <2>5 DEF Exact
<1>4. CASE BranchReplay \/ BranchNew
  <2>1. \E d \in BOOLEAN : Advances(d)
    <3>1. ~StaysAtNode
      <4>1. pos = Len(node.body)
        BY <1>4 DEF BranchReplay, BranchNew, AtBranch, AtEndOfBody
      <4> QED
        BY <4>1, NodeType DEF StaysAtNode, InBody
    <3> QED
      BY <1>4, <3>1, StepsOfARun DEF ProgramStep, Replays, Appends
  <2>2. PICK d \in BOOLEAN : Advances(d)
    BY <2>1
  <2>3. UNCHANGED <<prog, assertions, errors>>
    BY <2>2 DEF Advances, Return
  <2> QED
    BY <2>2, <2>3, OneMoreResult DEF Exact
<1>5. CASE Check \/ CheckNothing \/ SkipCheck \/ CheckPathInfeasible \/ CheckErrors
           \/ FindNextPathBacktracks
  BY <1>5, ExactStays DEF Check, CheckNothing, SkipCheck, CheckPathInfeasible, CheckErrors,
    FindNextPathBacktracks, EnterBacktrackCheck, checker_vars, control_vars
<1>6. CASE BacktrackNoCore \/ BacktrackExhausted \/ BacktrackFlip \/ FindNoNextPath
  BY <1>6, ExactStays DEF BacktrackNoCore, BacktrackExhausted, BacktrackFlip, LeaveLoop,
    FindNoNextPath, checker_vars, control_vars
<1>7. CASE FindNextPath \/ Reset
  BY <1>7, ExactAtRoot DEF FindNextPath, Reset, ResetChecker
<1>8. CASE UNCHANGED vars
  BY <1>8, ExactStays DEF vars, checker_vars, control_vars
<1> QED
  BY <1>1, <1>2, <1>3, <1>4, <1>5, <1>6, <1>7, <1>8 DEF Next, Analyse, ProgramStep, Checking

-----------------------------------------------------------------------------
(* Verdicts of check().                                                    *)

InCheck == phase \in {"backtrack", "backtracked"} /\ caller = "check"

(* check() starts from the assertions alone ... *)
ChecksAssertions == InCheck => solver = assertions /\ errors # {}

(* ... and moves to another path only if no input takes this one. *)
CutsInfeasible == InCheck /\ ~allow => \A v \in Inputs : ~Runs(prog, path, v)

(* Wherever check() was called on a path some input takes and fails on, it *)
(* returned sat.                                                           *)
NoneOverlooked ==
  precise => \A p \in explored, v \in Inputs :
               Runs(prog, p, v) /\ Fails(prog, p, v) => p \in reported \union unchecked

(* The guards up to the last one of a core contradict m_solver. *)
LEMMA CoreContradicts ==
  ASSUME NEW m \in 1 .. Len(guards), IsCoreTop(m), Len(guards) \in Nat,
         NEW v \in solver, v \in Inputs
  PROVE  \E j \in 1 .. m : v \notin guards[j]
<1> SUFFICES ASSUME \A j \in 1 .. m : v \in guards[j]
             PROVE  FALSE
  OBVIOUS
<1>1. CASE precise
  <2>1. PICK C \in SUBSET (1 .. m - 1) : solver \intersect Meet(guards, C) \intersect guards[m] = {}
    BY <1>1 DEF IsCoreTop
  <2>2. \A i \in C : i \in 1 .. m
    OBVIOUS
  <2>3. v \in Meet(guards, C)
    BY <2>2 DEF Meet
  <2> QED
    BY <2>1, <2>3
<1>2. CASE ~precise
  <2>1. v \in Meet(guards, 1 .. m)
    BY DEF Meet
  <2> QED
    BY <1>2, <2>1 DEF IsCoreTop
<1> QED
  BY <1>1, <1>2

(* Inputs that run the path are among the assertions. *)
LEMMA RunnersAreAsserted ==
  ASSUME TypeOK, Ended, Exact, NEW v \in Inputs, Runs(prog, path, v)
  PROVE  v \in assertions
BY MadeSoFar DEF Ended, Exact, Runs

LEMMA VerdictsInit == Init => ChecksAssertions /\ CutsInfeasible /\ NoneOverlooked
BY DEF Init, InCheck, ChecksAssertions, CutsInfeasible, NoneOverlooked

(* A core rules the path out, if nothing was cut from it before. *)
LEMMA CutIsJustified ==
  ASSUME TypeOK, Shape, Exact, ChecksAssertions, InCheck, allow, phase = "backtrack",
         NEW m \in 1 .. Len(guards), IsCoreTop(m), NEW v \in Inputs
  PROVE  ~Runs(prog, path, v)
<1> SUFFICES ASSUME Runs(prog, path, v)
             PROVE  FALSE
  OBVIOUS
<1>1. Ended /\ Followed /\ GuardsMatch
  BY DEF Shape
<1>2. v \in solver
  BY <1>1, RunnersAreAsserted DEF ChecksAssertions
<1>3. /\ path \in Seq(BOOLEAN) /\ m \in Nat /\ Len(guards) \in Nat
      /\ m <= Len(guards) /\ m <= Len(path)
      /\ \A i \in 1 .. m : path[i] = flips[i].direction
  BY <1>1, NodeType, DfsFlips DEF Followed, Ended, TypeOK
<1>4. \A j \in 1 .. m : v \in guards[j]
  BY <1>1, <1>3, FollowersSatisfyGuards DEF Runs
<1> QED
  BY <1>2, <1>3, <1>4, CoreContradicts

LEMMA ChecksAssertionsNext ==
  TypeOK /\ Shape /\ ChecksAssertions /\ [Next]_vars => ChecksAssertions'
<1> SUFFICES ASSUME TypeOK, Shape, ChecksAssertions, [Next]_vars
             PROVE  ChecksAssertions'
  OBVIOUS
<1>1. CASE ProgramStep
  <2>1. phase' = "run"
    BY <1>1 DEF ProgramStep, BranchLiteral, AddAssertion, AddError, BranchReplay, BranchNew,
      Step, Return, InBody, AtBranch, AtEndOfBody
  <2> QED
    BY <2>1 DEF ChecksAssertions, InCheck
<1>2. CASE Check
  <2>1. solver = Inputs /\ assertions \subseteq Inputs
    BY <1>2 DEF Check, AtExit, AtEndOfBody, Shape, Running, TypeOK, Condition
  <2> QED
    BY <1>2, <2>1 DEF Check, EnterBacktrackCheck, ChecksAssertions, checker_vars
<1>3. CASE CheckNothing \/ SkipCheck \/ CheckPathInfeasible \/ CheckErrors
           \/ FindNextPath \/ FindNoNextPath \/ Reset
  <2>1. phase' \notin {"backtrack", "backtracked"}
    BY <1>3 DEF CheckNothing, SkipCheck, CheckPathInfeasible, CheckErrors, Resume,
      FindNextPath, FindNoNextPath, Reset
  <2> QED
    BY <2>1 DEF ChecksAssertions, InCheck
<1>4. CASE FindNextPathBacktracks
  BY <1>4 DEF FindNextPathBacktracks, EnterBacktrackCheck, ChecksAssertions, InCheck
<1>5. CASE BacktrackNoCore \/ BacktrackExhausted \/ BacktrackFlip
  BY <1>5 DEF BacktrackNoCore, BacktrackExhausted, BacktrackFlip, LeaveLoop,
    ChecksAssertions, InCheck
<1>6. CASE UNCHANGED vars
  BY <1>6 DEF vars, checker_vars, ChecksAssertions, InCheck
<1> QED
  BY <1>1, <1>2, <1>3, <1>4, <1>5, <1>6 DEF Next, Analyse, Checking

LEMMA CutsInfeasibleNext ==
  TypeOK /\ Shape /\ Exact /\ ChecksAssertions /\ CutsInfeasible /\ [Next]_vars
    => CutsInfeasible'
<1> SUFFICES ASSUME TypeOK, Shape, Exact, ChecksAssertions, CutsInfeasible, [Next]_vars
             PROVE  CutsInfeasible'
  OBVIOUS
<1>1. CASE ProgramStep
  <2>1. phase' = "run"
    BY <1>1 DEF ProgramStep, BranchLiteral, AddAssertion, AddError, BranchReplay, BranchNew,
      Step, Return, InBody, AtBranch, AtEndOfBody
  <2> QED
    BY <2>1 DEF CutsInfeasible, InCheck
<1>2. CASE Check \/ FindNextPathBacktracks
  BY <1>2 DEF Check, FindNextPathBacktracks, EnterBacktrackCheck, CutsInfeasible
<1>3. CASE CheckNothing \/ SkipCheck \/ CheckPathInfeasible \/ CheckErrors
           \/ FindNextPath \/ FindNoNextPath \/ Reset
  <2>1. phase' \notin {"backtrack", "backtracked"}
    BY <1>3 DEF CheckNothing, SkipCheck, CheckPathInfeasible, CheckErrors, Resume,
      FindNextPath, FindNoNextPath, Reset
  <2> QED
    BY <2>1 DEF CutsInfeasible, InCheck
<1>4. CASE BacktrackNoCore
  BY <1>4 DEF BacktrackNoCore, LeaveLoop, CutsInfeasible, InCheck, control_vars
<1>5. CASE BacktrackExhausted \/ BacktrackFlip
  <2>1. /\ phase = "backtrack"
        /\ \E m \in 1 .. Len(guards) : IsCoreTop(m)
        /\ UNCHANGED <<prog, path, caller>>
    BY <1>5 DEF BacktrackExhausted, BacktrackFlip, LeaveLoop, control_vars
  <2>2. ASSUME InCheck, NEW v \in Inputs
        PROVE  ~Runs(prog, path, v)
    BY <2>1, <2>2, CutIsJustified DEF CutsInfeasible
  <2> QED
    BY <2>1, <2>2 DEF CutsInfeasible, InCheck
<1>6. CASE UNCHANGED vars
  BY <1>6 DEF vars, control_vars, CutsInfeasible, InCheck
<1> QED
  BY <1>1, <1>2, <1>3, <1>4, <1>5, <1>6 DEF Next, Analyse, Checking

LEMMA NoneOverlookedNext ==
  TypeOK /\ Shape /\ Exact /\ ChecksAssertions /\ CutsInfeasible /\ NoneOverlooked /\ [Next]_vars
    => NoneOverlooked'
<1> SUFFICES ASSUME TypeOK, Shape, Exact, ChecksAssertions, CutsInfeasible, NoneOverlooked,
                    [Next]_vars
             PROVE  NoneOverlooked'
  OBVIOUS
<1>1. ASSUME UNCHANGED <<prog, precise>>, explored' = explored \union {path},
             reported \subseteq reported', unchecked \subseteq unchecked',
             precise => \A v \in Inputs : Runs(prog, path, v) /\ Fails(prog, path, v)
                                            => path \in reported' \union unchecked'
      PROVE  NoneOverlooked'
  BY <1>1 DEF NoneOverlooked
<1>2. ASSUME UNCHANGED <<prog, precise, explored, reported, unchecked>>
      PROVE  NoneOverlooked'
  BY <1>2 DEF NoneOverlooked
<1>3. CASE ProgramStep \/ Check \/ FindNextPathBacktracks \/ FindNextPath \/ FindNoNextPath
           \/ BacktrackNoCore \/ BacktrackExhausted \/ BacktrackFlip
  BY <1>2, <1>3 DEF ProgramStep, BranchLiteral, AddAssertion, AddError, BranchReplay,
    BranchNew, Step, Return, Check, FindNextPathBacktracks, FindNextPath, FindNoNextPath,
    BacktrackNoCore, BacktrackExhausted, BacktrackFlip, LeaveLoop, EnterBacktrackCheck,
    control_vars, history_vars
<1>4. CASE CheckNothing
  <2>1. errors = {} /\ pos = Len(node.body) /\ node.kind = "exit"
    BY <1>4 DEF CheckNothing, AtExit, AtEndOfBody, Shape, Running
  <2>2. ASSUME NEW v \in Inputs, Runs(prog, path, v)
        PROVE  ~Fails(prog, path, v)
    BY <2>1, <2>2, MadeSoFar DEF Exact, Runs
  <2> QED
    BY <1>1, <1>4, <2>1, <2>2 DEF CheckNothing, Resume, control_vars
<1>5. CASE SkipCheck
  BY <1>1, <1>5 DEF SkipCheck, AtExit, Resume, control_vars
<1>6. CASE CheckPathInfeasible
  <2>1. Ended /\ \A v \in Inputs : ~Runs(prog, path, v)
    BY <1>6 DEF CheckPathInfeasible, CutsInfeasible, InCheck, Shape
  <2> QED
    BY <1>1, <1>6, <2>1 DEF CheckPathInfeasible, Resume, Ended, node, control_vars
<1>7. CASE CheckErrors
  <2>1. Ended /\ solver = assertions
    BY <1>7 DEF CheckErrors, ChecksAssertions, InCheck, Shape
  <2>2. ASSUME precise, NEW v \in Inputs, Runs(prog, path, v), Fails(prog, path, v)
        PROVE  path \in reported'
    <3>1. v \in assertions
      BY <2>1, <2>2, RunnersAreAsserted
    <3>2. v \in UNION errors
      BY <2>1, <2>2, MadeSoFar DEF Exact, Runs, Ended
    <3>3. solver' # {}
      BY <1>7, <2>1, <3>1, <3>2 DEF CheckErrors
    <3> QED
      BY <1>7, <2>2, <3>3 DEF CheckErrors
  <2>3. /\ UNCHANGED <<prog, precise>> /\ explored' = explored \union {path}
        /\ reported \subseteq reported' /\ unchecked \subseteq unchecked'
    BY <1>7, <2>1 DEF CheckErrors, Resume, Ended, node, control_vars
  <2> QED
    BY <1>1, <2>2, <2>3
<1>8. CASE Reset
  BY <1>8 DEF Reset, NoneOverlooked
<1>9. CASE UNCHANGED vars
  BY <1>2, <1>9 DEF vars, control_vars, history_vars
<1> QED
  BY <1>3, <1>4, <1>5, <1>6, <1>7, <1>8, <1>9 DEF Next, Analyse, Checking

(* What check() says, for every program and every core the solver returns. *)
VInv ==
  /\ TypeOK
  /\ Shape
  /\ Exact
  /\ ChecksAssertions
  /\ CutsInfeasible
  /\ NoneOverlooked

LEMMA VInvInit == Init => VInv
BY TypeInit, ShapeInit, ExactInit, VerdictsInit DEF VInv

LEMMA VInvNext == VInv /\ [Next]_vars => VInv'
<1> SUFFICES ASSUME VInv, [Next]_vars
             PROVE  VInv'
  OBVIOUS
<1>1. TypeOK'
  BY TypeNext DEF VInv
<1>2. Shape' /\ Exact' /\ ChecksAssertions'
  BY <1>1, ShapeNext, ExactNext, ChecksAssertionsNext DEF VInv
<1>3. CutsInfeasible' /\ NoneOverlooked'
  BY CutsInfeasibleNext, NoneOverlookedNext DEF VInv
<1> QED
  BY <1>1, <1>2, <1>3 DEF VInv

(* Of the paths that were run, none is overlooked: check() returned sat on *)
(* each one that an input takes and fails on, if it was called there and   *)
(* the solver could decide.                                                *)
THEOREM ReportsWhatItRuns == Spec => []NoneOverlooked
<1>1. VInv => NoneOverlooked
  BY DEF VInv
<1> QED
  BY <1>1, VInvInit, VInvNext, PTL DEF Spec

-----------------------------------------------------------------------------
(* No false alarm.                                                         *)

(* The program adds errors only after its last branch.  An error added     *)
(* before keeps the guards made until then, and check() blames the rest of *)
(* the path for it.                                                        *)
ErrorsLast ==
  \A p \in Tree : prog[p].kind # "exit" =>
     \A i \in 1 .. Len(prog[p].body) : prog[p].body[i].op # "error"

(* Errors are errors of the whole path. *)
ErrorsOfPath ==
  errors # {} =>
    /\ node.kind = "exit"
    /\ \A e \in errors : \A v \in e : v \in Inputs /\ Follows(prog, path, v)

LEMMA ErrorsOfPathNext ==
  VInv /\ ErrorsLast /\ ErrorsOfPath /\ [Next]_vars => ErrorsOfPath'
<1> SUFFICES ASSUME VInv, ErrorsLast, ErrorsOfPath, [Next]_vars
             PROVE  ErrorsOfPath'
  OBVIOUS
<1> USE DEF VInv
<1>1. ASSUME UNCHANGED <<prog, path, errors>>
      PROVE  ErrorsOfPath'
  BY <1>1 DEF ErrorsOfPath, node
<1>2. CASE BranchLiteral \/ AddAssertion
  BY <1>1, <1>2 DEF BranchLiteral, AddAssertion, Step, checker_vars
<1>3. CASE AddError
  <2>1. /\ stmt.op = "error" /\ UNCHANGED <<prog, path>> /\ phase = "run"
        /\ errors' = errors \union {stmt.cond \intersect Meet(guards, DOMAIN guards)}
    BY <1>3 DEF AddError, GuardedError, Step, InBody
  <2>2. node.kind = "exit"
    <3>1. pos + 1 \in 1 .. Len(prog[path].body) /\ path \in Tree
      BY <1>3, NodeType DEF AddError, InBody, node, TypeOK
    <3> QED
      BY <2>1, <3>1 DEF ErrorsLast, stmt, node
  <2>3. ASSUME NEW v \in Meet(guards, DOMAIN guards)
        PROVE  v \in Inputs /\ Follows(prog, path, v)
    BY <2>1, <2>3, GuardsAreThePath DEF Shape, Running, Meet
  <2> QED
    BY <2>1, <2>2, <2>3 DEF ErrorsOfPath, node
<1>4. CASE BranchReplay \/ BranchNew
  <2>1. errors' = errors /\ node.kind # "exit"
    BY <1>4 DEF BranchReplay, BranchNew, AtBranch, Return
  <2> QED
    BY <2>1 DEF ErrorsOfPath
<1>5. CASE Check \/ CheckNothing \/ SkipCheck \/ CheckPathInfeasible \/ CheckErrors
           \/ FindNextPathBacktracks
  BY <1>1, <1>5 DEF Check, CheckNothing, SkipCheck, CheckPathInfeasible, CheckErrors,
    FindNextPathBacktracks, EnterBacktrackCheck, checker_vars, control_vars
<1>6. CASE BacktrackNoCore \/ BacktrackExhausted \/ BacktrackFlip \/ FindNoNextPath
  BY <1>1, <1>6 DEF BacktrackNoCore, BacktrackExhausted, BacktrackFlip, LeaveLoop,
    FindNoNextPath, checker_vars, control_vars
<1>7. CASE FindNextPath \/ Reset
  BY <1>7 DEF FindNextPath, Reset, ResetChecker, ErrorsOfPath
<1>8. CASE UNCHANGED vars
  BY <1>1, <1>8 DEF vars, checker_vars, control_vars
<1> QED
  BY <1>2, <1>3, <1>4, <1>5, <1>6, <1>7, <1>8 DEF Next, Analyse, ProgramStep, Checking

LEMMA ProgramStays == [Next]_vars => prog' = prog /\ precise' = precise
BY DEF Next, Analyse, ProgramStep, Checking, Reset, BranchLiteral, AddAssertion, AddError,
  Step, BranchReplay, BranchNew, Return, Check, CheckNothing, SkipCheck, CheckPathInfeasible,
  CheckErrors, FindNextPathBacktracks, EnterBacktrackCheck, BacktrackNoCore,
  BacktrackExhausted, BacktrackFlip, LeaveLoop, FindNextPath, FindNoNextPath, control_vars,
  vars

LEMMA ErrorsLastNext == ErrorsLast /\ [Next]_vars => ErrorsLast'
BY ProgramStays DEF ErrorsLast

LEMMA NoFalseAlarmNext ==
  VInv /\ ErrorsOfPath /\ NoFalseAlarm /\ [Next]_vars => NoFalseAlarm'
<1> SUFFICES ASSUME VInv, ErrorsOfPath, NoFalseAlarm, [Next]_vars
             PROVE  NoFalseAlarm'
  OBVIOUS
<1>1. ASSUME UNCHANGED <<prog, reported>>
      PROVE  NoFalseAlarm'
  BY <1>1 DEF NoFalseAlarm
<1>2. CASE CheckErrors
  <2>1. Ended /\ solver = assertions
    BY <1>2 DEF CheckErrors, VInv, ChecksAssertions, InCheck, Shape
  <2>2. ASSUME NEW v \in assertions \intersect UNION errors
        PROVE  v \in Inputs /\ Follows(prog, path, v) /\ Admits(prog, path, v) /\ Fails(prog, path, v)
    <3>1. v \in Inputs /\ Follows(prog, path, v)
      BY <2>2 DEF ErrorsOfPath
    <3>2. Admitted(v) /\ Failed(v)
      BY <2>2, <3>1 DEF VInv, Exact
    <3> QED
      BY <2>1, <3>1, <3>2, MadeSoFar DEF VInv, Ended
  <2>3. prog' = prog
    BY <1>2 DEF CheckErrors, control_vars
  <2> QED
    BY <1>2, <2>1, <2>2, <2>3 DEF CheckErrors, NoFalseAlarm
<1>3. CASE Reset
  BY <1>3 DEF Reset, NoFalseAlarm
<1>4. CASE reported' = reported
  BY <1>1, <1>4, ProgramStays
<1>5. CheckErrors \/ Reset \/ reported' = reported
  BY DEF Next, Analyse, ProgramStep, Checking, BranchLiteral, AddAssertion, AddError,
    Step, BranchReplay, BranchNew, Return, Check, CheckNothing, SkipCheck,
    CheckPathInfeasible, FindNextPathBacktracks, EnterBacktrackCheck, BacktrackNoCore,
    BacktrackExhausted, BacktrackFlip, LeaveLoop, FindNextPath, FindNoNextPath,
    history_vars, vars
<1> QED
  BY <1>2, <1>3, <1>4, <1>5

(* If errors come last, check() returns sat only where some input takes    *)
(* the path and makes an error on it.                                      *)
THEOREM AlarmsAreReal == Spec /\ ErrorsLast => []NoFalseAlarm
<1> DEFINE Inv == VInv /\ ErrorsLast /\ ErrorsOfPath /\ NoFalseAlarm
<1>1. Init /\ ErrorsLast => Inv
  <2>1. Init => ErrorsOfPath /\ NoFalseAlarm
    BY DEF Init, ErrorsOfPath, NoFalseAlarm
  <2> QED
    BY <2>1, VInvInit
<1>2. Inv /\ [Next]_vars => Inv'
  BY VInvNext, ErrorsLastNext, ErrorsOfPathNext, NoFalseAlarmNext
<1>3. Inv => NoFalseAlarm
  OBVIOUS
<1> HIDE DEF Inv
<1> QED
  BY <1>1, <1>2, <1>3, PTL DEF Spec

-----------------------------------------------------------------------------
(* No path is explored twice.                                              *)

(* The past of the run: paths on the other side of a frozen flip, and, if  *)
(* nothing was cut from it, the path itself.                               *)
Past(p) == Behind(p) \/ (phase # "run" /\ allow /\ p = path)

Economical ==
  phase # "done" /\ (allow \/ found_path) =>
    /\ \A p \in explored : Past(p)
    /\ phase # "run" => Past(path)

(* The run is part of the history once check() is over. *)
Recorded ==
  /\ phase = "checked" => path \in explored
  /\ phase \in {"backtrack", "backtracked"} =>
       (path \in explored <=> caller = "find_next_path")

(* A run that comes to its end is a new path. *)
LEMMA EndsAnew ==
  ASSUME VInv, Economical, AtExit
  PROVE  path \in Paths(prog) \ explored
<1>1. /\ phase = "run" /\ allow /\ RunOnTree /\ Followed /\ path \in Tree /\ TypeOK
      /\ flip_index = Len(flips)
  BY AllReplayed DEF VInv, AtExit, AtEndOfBody, Shape, Running, TypeOK
<1>2. path \in Paths(prog)
  BY <1>1 DEF AtExit, node, RunOnTree, Paths, IsPath
<1>3. ASSUME path \in explored
      PROVE  FALSE
  <2>1. PICK i \in 1 .. Len(flips) : LeavesAt(path, i)
    BY <1>1, <1>3 DEF Economical, Past, Behind
  <2> QED
    BY <1>1, <2>1 DEF Followed, LeavesAt
<1> QED
  BY <1>2, <1>3

LEMMA RecordedNext == VInv /\ Economical /\ Recorded /\ [Next]_vars => Recorded'
<1> SUFFICES ASSUME VInv, Economical, Recorded, [Next]_vars
             PROVE  Recorded'
  OBVIOUS
<1>1. CASE ProgramStep \/ FindNextPath \/ FindNoNextPath \/ Reset
  <2>1. phase' \in {"run", "done"}
    BY <1>1 DEF ProgramStep, BranchLiteral, AddAssertion, AddError, BranchReplay, BranchNew,
      Step, Return, InBody, AtBranch, AtEndOfBody, FindNextPath, FindNoNextPath, Reset
  <2> QED
    BY <2>1 DEF Recorded
<1>2. CASE Check
  BY <1>2, EndsAnew DEF Check, EnterBacktrackCheck, control_vars, history_vars, Recorded
<1>3. CASE FindNextPathBacktracks
  BY <1>3 DEF FindNextPathBacktracks, EnterBacktrackCheck, control_vars, history_vars, Recorded
<1>4. CASE CheckNothing \/ SkipCheck \/ CheckPathInfeasible \/ CheckErrors
  <2>1. node.kind = "exit"
    BY <1>4 DEF CheckNothing, SkipCheck, CheckPathInfeasible, CheckErrors, AtExit, VInv,
      Shape, Ended, node
  <2> QED
    BY <1>4, <2>1 DEF CheckNothing, SkipCheck, CheckPathInfeasible, CheckErrors, Resume,
      control_vars, Recorded
<1>5. CASE BacktrackNoCore \/ BacktrackExhausted \/ BacktrackFlip
  BY <1>5 DEF BacktrackNoCore, BacktrackExhausted, BacktrackFlip, LeaveLoop, control_vars,
    history_vars, Recorded
<1>6. CASE UNCHANGED vars
  BY <1>6 DEF vars, control_vars, history_vars, Recorded
<1> QED
  BY <1>1, <1>2, <1>3, <1>4, <1>5, <1>6 DEF Next, Analyse, Checking

(* Alternating a flip puts the run and its past behind it. *)
LEMMA PastIsLeft ==
  ASSUME TypeOK, DfsTypeOK', Shape, phase # "run", phase # "done",
         NEW m \in 0 .. Len(flips), NEW k \in 1 .. m, CutAt(k, m),
         NEW p \in Tree, Past(p)
  PROVE  Behind(p)'
<1>1. DfsTypeOK /\ p \in Seq(BOOLEAN)
  BY TreeAssumption DEF TypeOK
<1>2. CASE Behind(p)
  BY <1>1, <1>2, CutKeepsBehind
<1>3. CASE allow /\ p = path
  <2>1. k <= Len(path) /\ \A j \in 1 .. k : path[j] = flips[j].direction
    BY <1>1, <1>3, DfsFlips DEF Shape, Ended, Followed
  <2> QED
    BY <1>1, <1>3, <2>1, CutLeavesBehind
<1> QED
  BY <1>2, <1>3 DEF Past

LEMMA AppendsGrows ==
  ASSUME DfsTypeOK, NEW d \in BOOLEAN, Appends(d)
  PROVE  /\ Len(flips) \in Nat
         /\ Len(flips') = Len(flips) + 1
         /\ flips'[Len(flips) + 1].direction = d
         /\ ~flips'[Len(flips) + 1].is_frozen
         /\ \A i \in 1 .. Len(flips) : flips'[i] = flips[i]
<1>1. ~HasNext /\ AppendFlip(d, FALSE)
  BY DEF Appends
<1>2. flip_index = Len(flips) /\ Len(flips) \in Nat
  BY <1>1, DfsFlips DEF HasNext
<1> QED
  BY <1>1, <1>2, DfsAppend

LEMMA EconomicalNext == VInv /\ VInv' /\ Economical /\ [Next]_vars => Economical'
<1> SUFFICES ASSUME VInv, VInv', Economical, [Next]_vars
             PROVE  Economical'
  OBVIOUS
<1>1. TypeOK /\ Shape /\ TypeOK' /\ DfsTypeOK /\ DfsTypeOK'
  BY DEF VInv, TypeOK
<1>2. ASSUME flips' = flips, NEW p
      PROVE  Behind(p)' <=> Behind(p)
  BY <1>2 DEF Behind, LeavesAt
<1>3. CASE ProgramStep
  <2>1. phase = "run" /\ phase' = "run" /\ explored' = explored /\ allow
    BY <1>1, <1>3 DEF ProgramStep, BranchLiteral, AddAssertion, AddError, BranchReplay,
      BranchNew, Step, Return, InBody, AtBranch, AtEndOfBody, history_vars, Shape, Running
  <2>2. CASE flips' = flips
    BY <1>2, <2>1, <2>2 DEF Economical, Past
  <2>3. CASE Appends(FALSE)
    <3>1. Len(flips) <= Len(flips') /\ \A i \in 1 .. Len(flips) : flips'[i] = flips[i]
      <4>1. \E d \in BOOLEAN : Appends(d)
        BY <2>3
      <4>2. Len(flips) \in Nat /\ Len(flips') = Len(flips) + 1
        BY <1>1, <4>1, AppendsGrows
      <4>3. \A i \in 1 .. Len(flips) : flips'[i] = flips[i]
        BY <1>1, <4>1, AppendsGrows
      <4> QED
        BY <4>2, <4>3
    <3> QED
      BY <1>1, <2>1, <3>1, SidesGrow DEF Economical, Past
  <2> QED
    BY <1>1, <1>3, <2>2, <2>3, StepsOfARun DEF StaysAtNode, Step, Replays, TakeNext, dfs_vars
<1>4. CASE Check \/ FindNextPathBacktracks \/ BacktrackNoCore
  <2>1. /\ flips' = flips /\ explored' = explored /\ allow' = allow /\ path' = path
        /\ found_path' = found_path /\ phase # "done"
        /\ phase' # "run" /\ (phase = "run" => allow)
    BY <1>4 DEF Check, FindNextPathBacktracks, EnterBacktrackCheck, BacktrackNoCore,
      LeaveLoop, dfs_vars, control_vars, history_vars, AtExit, AtEndOfBody
  <2> QED
    BY <1>2, <2>1 DEF Economical, Past
<1>5. CASE CheckNothing \/ SkipCheck \/ CheckPathInfeasible \/ CheckErrors
  <2>1. /\ flips' = flips /\ explored' = explored \union {path} /\ allow' = allow
        /\ found_path' = found_path /\ path' = path /\ phase' = "checked" /\ phase # "done"
        /\ (phase = "run" => allow)
    BY <1>1, <1>5 DEF CheckNothing, SkipCheck, CheckPathInfeasible, CheckErrors, Resume,
      AtExit, AtEndOfBody, Shape, Running, Ended, node, dfs_vars, control_vars
  <2> QED
    BY <1>2, <2>1 DEF Economical, Past
<1>6. CASE BacktrackExhausted
  BY <1>6 DEF BacktrackExhausted, Economical
<1>7. CASE BacktrackFlip
  <2>1. /\ phase = "backtrack" /\ phase' = "backtrack" /\ explored' = explored
        /\ path' = path /\ Len(guards) = Len(flips) /\ Len(flips) \in Nat
        /\ allow \/ found_path
    BY <1>1, <1>7, DfsFlips DEF BacktrackFlip, Shape, Ended, control_vars, history_vars, TypeOK
  <2>2. PICK m \in 1 .. Len(guards) : DfsFindsPath(SubSeq(flips, 1, m))
    BY <1>7 DEF BacktrackFlip, Popped
  <2>3. m \in 0 .. Len(flips)
    BY <2>1
  <2>4. PICK k \in 1 .. m : CutAt(k, m)
    BY <1>1, <2>2, <2>3, DfsCut
  <2>5. \A p \in explored \union {path} : p \in Tree /\ Past(p)
    BY <2>1 DEF Economical, VInv, TypeOK
  <2>6. \A p \in explored \union {path} : Behind(p)'
    BY <1>1, <2>1, <2>3, <2>4, <2>5, PastIsLeft
  <2> QED
    BY <2>1, <2>6 DEF Economical, Past
<1>8. CASE FindNextPath
  <2>1. /\ phase # "run" /\ phase # "done" /\ phase' = "run" /\ explored' = explored
        /\ \A p \in explored : p \in Tree
    BY <1>8 DEF FindNextPath, ReadyToMove, history_vars, VInv, TypeOK
  <2>2. CASE allow
    <3>1. Len(flips) \in 0 .. Len(flips)
      BY <1>1, DfsFlips
    <3>2. DfsFindsPath(SubSeq(flips, 1, Len(flips)))
      BY <1>1, <1>8, <2>2, WholeStack DEF FindNextPath, Move
    <3>3. PICK k \in 1 .. Len(flips) : CutAt(k, Len(flips))
      BY <1>1, <3>1, <3>2, DfsCut
    <3>4. \A p \in explored : Behind(p)'
      BY <1>1, <2>1, <2>2, <3>1, <3>3, PastIsLeft DEF Economical
    <3> QED
      BY <2>1, <3>4 DEF Economical, Past
  <2>3. CASE ~allow
    <3>1. flips' = flips /\ found_path
      BY <1>8, <2>3 DEF FindNextPath, Move, dfs_vars
    <3> QED
      BY <1>2, <2>1, <2>3, <3>1 DEF Economical, Past
  <2> QED
    BY <2>2, <2>3
<1>9. CASE FindNoNextPath
  BY <1>9 DEF FindNoNextPath, Economical
<1>10. CASE Reset
  BY <1>10 DEF Reset, Economical
<1>11. CASE UNCHANGED vars
  BY <1>2, <1>11 DEF vars, dfs_vars, control_vars, history_vars, Economical, Past
<1> QED
  BY <1>3, <1>4, <1>5, <1>6, <1>7, <1>8, <1>9, <1>10, <1>11 DEF Next, Analyse, Checking

(* The steps that end a run *)
EndsRun == CheckNothing \/ SkipCheck \/ CheckPathInfeasible \/ CheckErrors

LEMMA EndsRunExplores ==
  ASSUME VInv, Economical, Recorded, EndsRun
  PROVE  /\ path \in Paths(prog) \ explored
         /\ explored' = explored \union {path}
         /\ phase # "done" /\ phase' # "done"
<1>1. CASE CheckNothing \/ SkipCheck
  BY <1>1, EndsAnew DEF CheckNothing, SkipCheck, Resume, AtExit, AtEndOfBody
<1>2. CASE CheckPathInfeasible \/ CheckErrors
  <2>1. phase = "backtracked" /\ caller = "check"
    BY <1>2 DEF CheckPathInfeasible, CheckErrors
  <2>2. path \in Tree /\ RunOnTree /\ prog[path].kind = "exit"
    BY <2>1 DEF VInv, TypeOK, Shape, Ended
  <2> QED
    BY <1>2, <2>1, <2>2 DEF CheckPathInfeasible, CheckErrors, Resume, node, Recorded, Paths,
      IsPath, RunOnTree
<1> QED
  BY <1>1, <1>2 DEF EndsRun

(* All others but the last of a program leave the exploration as it is. *)
LEMMA OtherStepsStutter ==
  ASSUME [Next]_vars, ~EndsRun, ~FindNoNextPath, ~Reset
  PROVE  /\ explored' = explored
         /\ (phase' = "done") <=> (phase = "done")
<1>1. CASE ProgramStep
  BY <1>1 DEF ProgramStep, BranchLiteral, AddAssertion, AddError, Step, BranchReplay,
    BranchNew, Return, history_vars
<1>2. CASE Check \/ FindNextPathBacktracks
  BY <1>2 DEF Check, FindNextPathBacktracks, EnterBacktrackCheck, history_vars, AtExit,
    AtEndOfBody
<1>3. CASE BacktrackNoCore \/ BacktrackExhausted \/ BacktrackFlip
  BY <1>3 DEF BacktrackNoCore, BacktrackExhausted, BacktrackFlip, LeaveLoop, history_vars
<1>4. CASE FindNextPath
  BY <1>4 DEF FindNextPath, ReadyToMove, history_vars
<1>5. CASE UNCHANGED vars
  BY <1>5 DEF vars, history_vars
<1> QED
  BY <1>1, <1>2, <1>3, <1>4, <1>5 DEF Next, Analyse, Checking, EndsRun

(* What holds of the search whatever the program *)
EInv == VInv /\ Economical /\ Recorded

LEMMA EInvInit == Init => EInv
BY VInvInit DEF Init, EInv, Economical, Recorded

LEMMA EInvNext == EInv /\ [Next]_vars => EInv'
BY VInvNext, EconomicalNext, RecordedNext DEF EInv

Once == INSTANCE PathExploration
          WITH paths <- Paths(prog), required <- {}, explored <- explored,
               done <- (phase = "done")

LEMMA OnceNext == EInv /\ [Next]_vars => [Once!Next]_Once!vars
<1> SUFFICES ASSUME EInv, [Next]_vars
             PROVE  [Once!Next]_Once!vars
  OBVIOUS
<1> USE DEF Once!Next, Once!vars
<1>1. prog' = prog
  BY ProgramStays
<1>2. CASE EndsRun
  <2>1. /\ path \in Paths(prog) \ explored /\ explored' = explored \union {path}
        /\ phase # "done" /\ phase' # "done"
    BY <1>2, EndsRunExplores DEF EInv
  <2> QED
    BY <1>1, <2>1, Zenon DEF Once!Explore
<1>3. CASE FindNoNextPath
  <2>1. phase # "done" /\ phase' = "done" /\ explored' = explored
    BY <1>3 DEF FindNoNextPath, ReadyToMove, history_vars
  <2> QED
    BY <1>1, <2>1, Zenon DEF Once!Finish
<1>4. CASE Reset
  <2>1. phase = "done" /\ phase' # "done" /\ explored' = {}
    BY <1>4 DEF Reset
  <2> QED
    BY <2>1, Zenon DEF Once!Restart
<1>5. CASE ~EndsRun /\ ~FindNoNextPath /\ ~Reset
  <2>1. /\ explored' = explored
        /\ (phase' = "done") = (phase = "done")
    BY <1>5, OtherStepsStutter
  <2> QED
    BY <1>1, <2>1, Zenon
<1> QED
  BY <1>2, <1>3, <1>4, <1>5

(* Whatever the program and the cores, the checker runs complete paths     *)
(* only, and none of them twice.                                           *)
THEOREM NoPathTwice == Spec => Once!Spec
<1>1. Init => Once!Init
  BY Zenon DEF Init, Once!Init
<1> QED
  BY <1>1, EInvInit, EInvNext, OnceNext, PTL DEF Spec, Once!Spec

-----------------------------------------------------------------------------
(* No path that some input takes is missed.                                *)

(* The program makes its assertions before its first branch.  A later one  *)
(* holds for one path only, but may be in a core that rules out others.    *)
AssertionsFirst ==
  \A p \in Tree : p # << >> =>
     \A i \in 1 .. Len(prog[p].body) : prog[p].body[i].op # "assertion"

(* Input v satisfies them. *)
IsAdmitted(v) ==
  \A i \in 1 .. Len(prog[<< >>].body) :
     prog[<< >>].body[i].op = "assertion" => v \in prog[<< >>].body[i].cond

(* m_assertions rules out no other input, *)
AssertsNoMore == \A v \in Inputs : IsAdmitted(v) => v \in assertions

(* errors come from the program, *)
ErrorsAdded == errors # {} => AddsErrors

(* and m_solver is empty after a run or has its errors. *)
SolverAtEnd ==
  phase = "checked" /\ allow =>
    solver = Inputs \/ (errors # {} /\ solver \subseteq UNION errors)

Decides == precise \/ ~AddsErrors

(* Backtracking asks about all the inputs, or finds no core. *)
Lossless ==
  phase = "backtrack" /\ Decides =>
    \/ \A v \in Inputs : IsAdmitted(v) => v \in solver
    \/ \A k \in 1 .. Len(guards) : ~IsCoreTop(k)

LInv == AssertionsFirst /\ AssertsNoMore /\ ErrorsAdded /\ SolverAtEnd /\ Lossless

LEMMA RunnersAreAdmitted ==
  ASSUME NEW q \in Seq(BOOLEAN), NEW v, Runs(prog, q, v)
  PROVE  IsAdmitted(v)
<1>1. SubSeq(q, 1, 0) = << >> /\ Len(q) \in Nat
  OBVIOUS
<1>2. /\ At(prog, q, 0) = prog[<< >>]
      /\ 0 \in 0 .. Len(q)
  <2>1. 0 \in 0 .. Len(q)
    BY <1>1
  <2> QED
    BY <1>1, <2>1, Zenon DEF At
<1> QED
  BY <1>2 DEF Runs, Admits, IsAdmitted

LEMMA AssertionsFirstNext == AssertionsFirst /\ [Next]_vars => AssertionsFirst'
BY ProgramStays DEF AssertionsFirst

LEMMA AssertsNoMoreNext ==
  TypeOK /\ AssertionsFirst /\ AssertsNoMore /\ [Next]_vars => AssertsNoMore'
<1> SUFFICES ASSUME TypeOK, AssertionsFirst, AssertsNoMore, [Next]_vars
             PROVE  AssertsNoMore'
  OBVIOUS
<1>1. ASSUME UNCHANGED <<prog, assertions>>
      PROVE  AssertsNoMore'
  BY <1>1 DEF AssertsNoMore, IsAdmitted
<1>2. CASE AddAssertion
  <2>1. /\ stmt.op = "assertion" /\ prog' = prog
        /\ assertions' = assertions \intersect stmt.cond
        /\ pos + 1 \in 1 .. Len(prog[path].body) /\ path \in Tree
    BY <1>2, NodeType DEF AddAssertion, InBody, Step, node, TypeOK
  <2>2. path = << >>
    BY <2>1 DEF AssertionsFirst, stmt, node
  <2>3. \A v \in Inputs : IsAdmitted(v) => v \in stmt.cond
    BY <2>1, <2>2 DEF IsAdmitted, stmt, node
  <2> QED
    BY <2>1, <2>3 DEF AssertsNoMore, IsAdmitted
<1>3. CASE FindNextPath \/ Reset
  BY <1>3 DEF FindNextPath, Reset, ResetChecker, AssertsNoMore
<1>4. AddAssertion \/ FindNextPath \/ Reset \/ assertions' = assertions
  BY DEF Next, Analyse, ProgramStep, Checking, BranchLiteral, AddError, Step, BranchReplay,
    BranchNew, Return, Check, CheckNothing, SkipCheck, CheckPathInfeasible, CheckErrors,
    FindNextPathBacktracks, EnterBacktrackCheck, BacktrackNoCore, BacktrackExhausted,
    BacktrackFlip, LeaveLoop, FindNoNextPath, checker_vars, vars
<1> QED
  BY <1>1, <1>2, <1>3, <1>4, ProgramStays

LEMMA ErrorsAddedNext == TypeOK /\ ErrorsAdded /\ [Next]_vars => ErrorsAdded'
<1> SUFFICES ASSUME TypeOK, ErrorsAdded, [Next]_vars
             PROVE  ErrorsAdded'
  OBVIOUS
<1>1. AddsErrors' <=> AddsErrors
  BY ProgramStays DEF AddsErrors
<1>2. CASE AddError
  <2>1. /\ stmt.op = "error" /\ pos + 1 \in 1 .. Len(prog[path].body) /\ path \in Tree
    BY <1>2, NodeType DEF AddError, InBody, node, TypeOK
  <2> QED
    BY <1>1, <2>1 DEF ErrorsAdded, AddsErrors, stmt, node
<1>3. CASE FindNextPath \/ Reset
  BY <1>3 DEF FindNextPath, Reset, ResetChecker, ErrorsAdded
<1>4. AddError \/ FindNextPath \/ Reset \/ errors' = errors
  BY DEF Next, Analyse, ProgramStep, Checking, BranchLiteral, AddAssertion, Step,
    BranchReplay, BranchNew, Return, Check, CheckNothing, SkipCheck, CheckPathInfeasible,
    CheckErrors, FindNextPathBacktracks, EnterBacktrackCheck, BacktrackNoCore,
    BacktrackExhausted, BacktrackFlip, LeaveLoop, FindNoNextPath, checker_vars, vars
<1> QED
  BY <1>1, <1>2, <1>3, <1>4 DEF ErrorsAdded

LEMMA SolverAtEndNext == VInv /\ SolverAtEnd /\ [Next]_vars => SolverAtEnd'
<1> SUFFICES ASSUME VInv, SolverAtEnd, [Next]_vars
             PROVE  SolverAtEnd'
  OBVIOUS
<1>1. CASE CheckNothing \/ SkipCheck
  BY <1>1 DEF CheckNothing, SkipCheck, AtExit, AtEndOfBody, VInv, Shape, Running, SolverAtEnd
<1>2. CASE CheckErrors
  BY <1>2 DEF CheckErrors, VInv, ChecksAssertions, InCheck, SolverAtEnd, checker_vars
<1>3. CASE CheckPathInfeasible
  BY <1>3 DEF CheckPathInfeasible, SolverAtEnd
<1>4. CASE ProgramStep \/ Check \/ FindNextPathBacktracks \/ FindNextPath \/ FindNoNextPath
           \/ BacktrackNoCore \/ BacktrackExhausted \/ BacktrackFlip \/ Reset
  <2>1. phase' # "checked"
    BY <1>4 DEF ProgramStep, BranchLiteral, AddAssertion, AddError, BranchReplay, BranchNew,
      Step, Return, InBody, AtBranch, AtEndOfBody, Check, FindNextPathBacktracks,
      EnterBacktrackCheck, FindNextPath, FindNoNextPath, BacktrackNoCore, BacktrackExhausted,
      BacktrackFlip, LeaveLoop, Reset
  <2> QED
    BY <2>1 DEF SolverAtEnd
<1>5. CASE UNCHANGED vars
  BY <1>5 DEF vars, checker_vars, SolverAtEnd
<1> QED
  BY <1>1, <1>2, <1>3, <1>4, <1>5 DEF Next, Analyse, Checking

(* Inputs that make an error of the path satisfy all of its guards, so     *)
(* none of these is to blame.                                              *)
LEMMA NoGuardToBlame ==
  ASSUME VInv, ErrorsOfPath, phase = "checked", allow, precise, errors # {},
         NEW k \in 1 .. Len(guards), NEW v \in UNION errors
  PROVE  v \in guards[k]
<1>1. /\ TypeOK /\ GuardsMatch /\ Followed
      /\ path \in Seq(BOOLEAN) /\ Len(path) = Len(guards) /\ Len(guards) \in Nat
      /\ \A i \in 1 .. Len(guards) : path[i] = flips[i].direction
  BY NodeType DEF VInv, Shape, Ended, Followed, TypeOK
<1>2. v \in Inputs /\ Follows(prog, path, v)
  BY DEF ErrorsOfPath
<1> QED
  BY <1>1, <1>2, FollowersSatisfyGuards

LEMMA LosslessNext ==
  VInv /\ ErrorsOfPath /\ LInv /\ [Next]_vars => Lossless'
<1> SUFFICES ASSUME VInv, ErrorsOfPath, LInv, [Next]_vars
             PROVE  Lossless'
  OBVIOUS
<1>1. (Decides' <=> Decides) /\ \A v : IsAdmitted(v)' <=> IsAdmitted(v)
  BY ProgramStays DEF Decides, AddsErrors, IsAdmitted
<1>2. ASSUME \A v \in Inputs : IsAdmitted(v) => v \in solver'
      PROVE  Lossless'
  BY <1>1, <1>2 DEF Lossless
<1>3. ASSUME phase' # "backtrack"
      PROVE  Lossless'
  BY <1>3 DEF Lossless
<1>4. CASE Check
  <2>1. solver = Inputs /\ solver' = solver \intersect assertions
    BY <1>4 DEF Check, EnterBacktrackCheck, AtExit, AtEndOfBody, VInv, Shape, Running
  <2> QED
    BY <1>2, <2>1 DEF LInv, AssertsNoMore
<1>5. CASE FindNextPathBacktracks
  <2>1. /\ phase = "checked" /\ allow /\ solver' = solver \intersect assertions
        /\ guards' = guards /\ precise' = precise
    BY <1>5 DEF FindNextPathBacktracks, EnterBacktrackCheck, checker_vars
  <2>2. CASE solver = Inputs
    BY <1>2, <2>1, <2>2 DEF LInv, AssertsNoMore
  <2>3. CASE errors # {} /\ solver \subseteq UNION errors
    <3>1. ASSUME precise
          PROVE  \A k \in 1 .. Len(guards') : ~IsCoreTop(k)'
      <4>1. ASSUME NEW k \in 1 .. Len(guards), NEW v \in solver'
            PROVE  v \in guards[k]
        BY <2>1, <2>3, <3>1, <4>1, NoGuardToBlame
      <4>2. ASSUME NEW k \in 1 .. Len(guards), IsCoreTop(k)'
            PROVE  \E v \in solver' : v \notin guards[k]
        BY <2>1, <3>1, <4>2 DEF IsCoreTop, Meet
      <4> QED
        BY <2>1, <4>1, <4>2
    <3>2. ~precise => ~Decides
      BY <2>3 DEF LInv, ErrorsAdded, Decides
    <3> QED
      BY <1>1, <3>1, <3>2 DEF Lossless
  <2> QED
    BY <2>1, <2>2, <2>3 DEF LInv, SolverAtEnd
<1>6. CASE BacktrackFlip
  <2>1. phase = "backtrack" /\ solver' = solver /\ \E k \in 1 .. Len(guards) : IsCoreTop(k)
    BY <1>6 DEF BacktrackFlip
  <2>2. Decides => \A v \in Inputs : IsAdmitted(v) => v \in solver
    BY <2>1 DEF LInv, Lossless
  <2> QED
    BY <1>1, <2>1, <2>2 DEF Lossless
<1>7. CASE ProgramStep \/ CheckNothing \/ SkipCheck \/ CheckPathInfeasible \/ CheckErrors
           \/ BacktrackNoCore \/ BacktrackExhausted \/ FindNextPath \/ FindNoNextPath \/ Reset
  <2>1. phase' # "backtrack"
    BY <1>7 DEF ProgramStep, BranchLiteral, AddAssertion, AddError, BranchReplay, BranchNew,
      Step, Return, InBody, AtBranch, AtEndOfBody, CheckNothing, SkipCheck,
      CheckPathInfeasible, CheckErrors, Resume, BacktrackNoCore, BacktrackExhausted,
      LeaveLoop, FindNextPath, FindNoNextPath, Reset
  <2> QED
    BY <1>3, <2>1
<1>8. CASE UNCHANGED vars
  BY <1>1, <1>8 DEF vars, checker_vars, LInv, Lossless, IsCoreTop, Meet
<1> QED
  BY <1>4, <1>5, <1>6, <1>7, <1>8 DEF Next, Analyse, Checking

-----------------------------------------------------------------------------
(* A path is still to come if an open flip will be alternated towards it,  *)
(* or the flips lead to it and have not been given up.                     *)
ToCome(q) == phase # "done" /\ (Pending(q) \/ ((allow \/ found_path) /\ Agrees(q)))

Complete == \A q \in Required : q \in explored \/ ToCome(q)

LEMMA RequiredStays == [Next]_vars => Required' = Required
BY ProgramStays DEF Required, AddsErrors

LEMMA RequiredPaths ==
  ASSUME TypeOK, NEW q \in Required
  PROVE  /\ Decides
         /\ q \in Tree /\ q \in Seq(BOOLEAN) /\ IsPath(prog, q)
         /\ \E v \in Inputs : Runs(prog, q, v)
BY TreeAssumption DEF Required, Decides, FeasiblePaths, Paths

(* A path through the current node goes on below it or ends there. *)
LEMMA PathsThroughNode ==
  ASSUME TypeOK, NEW q \in Tree, IsPath(prog, q), Len(path) <= Len(q),
         \A j \in 1 .. Len(path) : q[j] = path[j]
  PROVE  (node.kind = "exit") <=> q = path
<1>1. /\ path \in Seq(BOOLEAN) /\ q \in Seq(BOOLEAN) /\ Len(path) \in Nat /\ Len(q) \in Nat
      /\ At(prog, path, Len(path)) = node
  BY NodeType, TreeAssumption
<1>2. At(prog, q, Len(path)) = node
  <2>1. Len(path) \in 0 .. Len(path) /\ \A j \in 1 .. Len(path) : path[j] = q[j]
    BY <1>1
  <2>2. SubSeq(path, 1, Len(path)) = SubSeq(q, 1, Len(path))
    BY <1>1, <2>1, SamePrefix
  <2> QED
    BY <1>1, <2>2 DEF At
<1>3. CASE Len(q) = Len(path)
  <2>1. q = path
    BY <1>1, <1>3
  <2> QED
    BY <2>1 DEF node, IsPath
<1>4. CASE Len(path) < Len(q)
  <2>1. Len(path) + 1 \in 1 .. Len(q) /\ (Len(path) + 1) - 1 = Len(path)
    BY <1>1, <1>4
  <2>2. At(prog, q, (Len(path) + 1) - 1).kind # "exit"
    BY <2>1 DEF IsPath
  <2> QED
    BY <1>2, <1>4, <2>1, <2>2
<1> QED
  BY <1>1, <1>3, <1>4

(* Steps that leave the flips alone *)
LEMMA CompleteStays ==
  ASSUME Complete, flips' = flips, explored \subseteq explored', Required' = Required,
         phase' # "done", allow \/ found_path => allow' \/ found_path'
  PROVE  Complete'
BY DEF Complete, ToCome, Pending, LeavesAt, Agrees

(* At the end of a run the flips lead to its path. *)
LEMMA EndOfPath ==
  ASSUME TypeOK, Shape, Ended, Followed, allow, NEW q \in Tree, IsPath(prog, q), Agrees(q)
  PROVE  q = path
<1>1. /\ Len(path) = Len(flips) /\ \A j \in 1 .. Len(path) : path[j] = flips[j].direction
      /\ node.kind = "exit"
  BY DEF Ended, Followed, node
<1>2. Len(path) <= Len(q) /\ \A j \in 1 .. Len(path) : q[j] = path[j]
  BY <1>1, DfsFlips DEF Agrees, IsPrefixOf, TypeOK
<1> QED
  BY <1>1, <1>2, PathsThroughNode

LEMMA CompleteAppends ==
  ASSUME VInv, VInv', Complete, Required' = Required, NEW d \in BOOLEAN, Appends(d)
  PROVE  Complete'
<1>1. /\ TypeOK /\ DfsTypeOK /\ DfsTypeOK' /\ Followed /\ allow /\ allow'
      /\ phase' # "done" /\ explored' = explored /\ node.kind # "exit"
      /\ ~HasNext
  BY DEF VInv, TypeOK, Appends, Advances, AtBranch, AtEndOfBody, Return, Shape, Running,
    history_vars
<1>2. /\ Len(flips) \in Nat /\ Len(flips') = Len(flips) + 1
      /\ flips'[Len(flips) + 1].direction = d
      /\ ~flips'[Len(flips) + 1].is_frozen
      /\ \A i \in 1 .. Len(flips) : flips'[i] = flips[i]
  BY <1>1, AppendsGrows
<1>3. /\ Len(path) = Len(flips) /\ \A j \in 1 .. Len(path) : path[j] = flips[j].direction
  BY <1>1, DfsFlips DEF Followed, HasNext
<1>4. ASSUME NEW q \in Required, Pending(q)
      PROVE  Pending(q)'
  BY <1>1, <1>2, <1>4, SidesGrow
<1>5. ASSUME NEW q \in Required, Agrees(q)
      PROVE  Pending(q)' \/ Agrees(q)'
  <2>1. q \in Tree /\ q \in Seq(BOOLEAN) /\ IsPath(prog, q)
    BY <1>1, RequiredPaths
  <2>2. Len(path) <= Len(q) /\ \A j \in 1 .. Len(path) : q[j] = path[j]
    BY <1>1, <1>3, <1>5, DfsFlips DEF Agrees, IsPrefixOf
  <2>3. Len(path) # Len(q)
    <3>1. ASSUME Len(path) = Len(q)
          PROVE  q = path
      BY <1>1, <2>1, <2>2, <3>1, NodeType
    <3> QED
      BY <1>1, <2>1, <2>2, <3>1, PathsThroughNode
  <2>4. Len(flips) + 1 \in 1 .. Len(q) /\ q[Len(flips) + 1] \in BOOLEAN
    BY <1>2, <1>3, <2>1, <2>2, <2>3
  <2>5. \A j \in 1 .. Len(flips) : q[j] = flips'[j].direction
    BY <1>2, <1>3, <2>2
  <2>6. CASE q[Len(flips) + 1] = d
    <3>1. \A j \in 1 .. Len(flips') : q[j] = flips'[j].direction
      BY <1>2, <2>5, <2>6
    <3>2. /\ Len(Directions(flips')) = Len(flips')
          /\ \A j \in 1 .. Len(flips') : Directions(flips')[j] = flips'[j].direction
      BY <1>1, DirectionsType DEF DfsTypeOK
    <3> QED
      BY <1>2, <2>4, <3>1, <3>2 DEF Agrees, IsPrefixOf
  <2>7. CASE q[Len(flips) + 1] # d
    <3>1. PICK n \in Nat : n = Len(flips) + 1
      BY <1>2
    <3>2. /\ n \in 1 .. Len(flips') /\ n - 1 = Len(flips) /\ n <= Len(q)
          /\ ~flips'[n].is_frozen /\ q[n] # flips'[n].direction
      BY <1>2, <2>4, <2>7, <3>1
    <3>3. LeavesAt(q, n)'
      BY <2>5, <3>2 DEF LeavesAt
    <3> QED
      BY <3>2, <3>3 DEF Pending
  <2> QED
    BY <2>6, <2>7
<1> QED
  BY <1>1, <1>4, <1>5 DEF Complete, ToCome

(* A path on which backtracking depends satisfies no core, so it leaves    *)
(* the flips before the core's last guard.                                 *)
LEMMA LeavesBeforeCore ==
  ASSUME VInv, LInv, phase = "backtrack", NEW m \in 1 .. Len(guards), IsCoreTop(m),
         NEW q \in Required
  PROVE  /\ Len(guards) = Len(flips)
         /\ ~Agrees(q)
         /\ \A i \in 1 .. Len(flips) : LeavesAt(q, i) => i <= m
<1>1. /\ TypeOK /\ Ended /\ GuardsMatch /\ Len(guards) = Len(flips)
      /\ Len(guards) \in Nat /\ m \in Nat /\ m <= Len(guards)
  BY DEF VInv, Shape, Ended, TypeOK
<1>2. q \in Seq(BOOLEAN) /\ Len(q) \in Nat /\ Decides
  BY <1>1, RequiredPaths
<1>3. PICK v \in Inputs : Runs(prog, q, v)
  BY <1>1, RequiredPaths
<1>4. v \in solver
  BY <1>2, <1>3, RunnersAreAdmitted DEF LInv, Lossless
<1>5. PICK j \in 1 .. m : v \notin guards[j]
  BY <1>1, <1>4, CoreContradicts
<1>6. ~(m <= Len(q) /\ \A i \in 1 .. m : q[i] = flips[i].direction)
  BY <1>1, <1>2, <1>3, <1>5, FollowersSatisfyGuards DEF Runs
<1>7. ~Agrees(q)
  BY <1>1, <1>2, <1>6, DfsFlips DEF Agrees, IsPrefixOf, TypeOK
<1>8. ASSUME NEW i \in 1 .. Len(flips), LeavesAt(q, i), m < i
      PROVE  FALSE
  BY <1>1, <1>2, <1>6, <1>8 DEF LeavesAt
<1> QED
  BY <1>1, <1>7, <1>8

LEMMA CompleteFlip ==
  ASSUME VInv, VInv', LInv, Complete, Required' = Required, BacktrackFlip
  PROVE  Complete'
<1>1. PICK m \in 1 .. Len(guards) : IsCoreTop(m) /\ DfsFindsPath(SubSeq(flips, 1, m))
  BY DEF BacktrackFlip, Popped
<1>2. /\ phase = "backtrack" /\ phase' = "backtrack" /\ found_path' /\ explored' = explored
      /\ TypeOK /\ DfsTypeOK /\ DfsTypeOK' /\ Len(guards) = Len(flips) /\ Len(flips) \in Nat
  BY DfsFlips DEF BacktrackFlip, VInv, TypeOK, Shape, Ended, history_vars
<1>3. m \in 0 .. Len(flips)
  BY <1>2
<1>4. \E k \in 1 .. m : CutAt(k, m)
  BY <1>1, <1>2, <1>3, DfsCut
<1>5. PICK k \in 1 .. m : CutAt(k, m)
  BY <1>4
<1>6. ASSUME NEW q \in Required, q \notin explored
      PROVE  Pending(q)' \/ Agrees(q)'
  <2>1. ~Agrees(q) /\ \A i \in 1 .. Len(flips) : LeavesAt(q, i) => i <= m
    BY <1>1, <1>2, LeavesBeforeCore
  <2>2. Pending(q)
    BY <1>6, <2>1 DEF Complete, ToCome
  <2>3. PICK i \in 1 .. Len(flips) : ~flips[i].is_frozen /\ LeavesAt(q, i)
    BY <2>2 DEF Pending
  <2>4. i \in 1 .. m /\ q \in Seq(BOOLEAN)
    BY <1>2, <2>1, <2>3, RequiredPaths
  <2> QED
    BY <1>2, <1>3, <1>5, <2>3, <2>4, CutKeepsPending
<1> QED
  BY <1>2, <1>6 DEF Complete, ToCome

LEMMA CompleteExhausted ==
  ASSUME VInv, LInv, Complete, Required' = Required, BacktrackExhausted
  PROVE  Complete'
<1>1. PICK m \in 1 .. Len(guards) : IsCoreTop(m) /\ AllFrozen(SubSeq(flips, 1, m))
  BY DEF BacktrackExhausted, DfsFindsNoPath
<1>2. /\ phase = "backtrack" /\ explored' = explored /\ flips \in Seq(Flip)
      /\ Len(guards) = Len(flips) /\ Len(flips) \in Nat
  BY DfsFlips DEF BacktrackExhausted, LeaveLoop, VInv, TypeOK, Shape, Ended, history_vars
<1>3. \A j \in 1 .. m : flips[j].is_frozen
  <2>1. Len(SubSeq(flips, 1, m)) = m /\ \A j \in 1 .. m : SubSeq(flips, 1, m)[j] = flips[j]
    BY <1>2
  <2> QED
    BY <1>1, <2>1 DEF AllFrozen
<1>4. ASSUME NEW q \in Required
      PROVE  q \in explored
  <2>1. ~Agrees(q) /\ \A i \in 1 .. Len(flips) : LeavesAt(q, i) => i <= m
    BY <1>1, <1>2, LeavesBeforeCore
  <2>2. ~Pending(q)
    BY <1>2, <1>3, <2>1 DEF Pending
  <2> QED
    BY <2>1, <2>2 DEF Complete, ToCome
<1> QED
  BY <1>2, <1>4 DEF Complete

(* find_next_path() on the flips of the path that was run *)
LEMMA CompleteMove ==
  ASSUME VInv, Recorded, Complete, ReadyToMove, allow, NEW q \in Required, q \notin explored
  PROVE  Pending(q)
<1>1. TypeOK /\ Shape /\ Ended /\ Followed /\ path \in explored
  BY DEF VInv, ReadyToMove, Shape, Recorded
<1>2. q \in Tree /\ IsPath(prog, q)
  BY <1>1, RequiredPaths
<1>3. ~Agrees(q)
  BY <1>1, <1>2, EndOfPath
<1> QED
  BY <1>3 DEF Complete, ToCome

LEMMA CompleteNext ==
  EInv /\ EInv' /\ LInv /\ Complete /\ [Next]_vars => Complete'
<1> SUFFICES ASSUME EInv, EInv', LInv, Complete, [Next]_vars
             PROVE  Complete'
  OBVIOUS
<1>1. /\ VInv /\ VInv' /\ Recorded /\ Required' = Required
      /\ TypeOK /\ DfsTypeOK /\ DfsTypeOK' /\ flips \in Seq(Flip) /\ Len(flips) \in 0 .. Len(flips)
  BY RequiredStays, DfsFlips DEF EInv, VInv, TypeOK
<1>2. CASE ProgramStep
  <2>1. CASE StaysAtNode \/ \E d \in BOOLEAN : Replays(d)
    <3>1. /\ flips' = flips /\ explored' = explored /\ phase' = "run" /\ allow' = allow
          /\ found_path' = found_path
      BY <2>1 DEF StaysAtNode, InBody, Step, Replays, Advances, AtBranch, AtEndOfBody, Return,
        TakeNext, dfs_vars, history_vars
    <3> QED
      BY <1>1, <3>1, CompleteStays
  <2>2. CASE \E d \in BOOLEAN : Appends(d)
    BY <1>1, <2>2, CompleteAppends
  <2> QED
    BY <1>1, <1>2, <2>1, <2>2, StepsOfARun
<1>3. CASE Check \/ FindNextPathBacktracks \/ BacktrackNoCore \/ EndsRun
  <2>1. /\ flips' = flips /\ explored \subseteq explored' /\ allow' = allow
        /\ found_path' = found_path /\ phase' # "done"
    BY <1>3 DEF Check, FindNextPathBacktracks, EnterBacktrackCheck, BacktrackNoCore,
      LeaveLoop, EndsRun, CheckNothing, SkipCheck, CheckPathInfeasible, CheckErrors, Resume,
      dfs_vars, history_vars
  <2> QED
    BY <1>1, <2>1, CompleteStays
<1>4. CASE BacktrackFlip
  BY <1>1, <1>4, CompleteFlip
<1>5. CASE BacktrackExhausted
  BY <1>1, <1>5, CompleteExhausted
<1>6. CASE FindNextPath
  <2>1. CASE ~allow
    BY <1>1, <1>6, <2>1, CompleteStays DEF FindNextPath, Move, dfs_vars, history_vars
  <2>2. CASE allow
    <3>1. /\ ReadyToMove /\ phase' # "done" /\ allow' /\ explored' = explored
          /\ DfsFindsPath(SubSeq(flips, 1, Len(flips)))
      BY <1>1, <1>6, <2>2, WholeStack DEF FindNextPath, Move, history_vars
    <3>2. \E k \in 1 .. Len(flips) : CutAt(k, Len(flips))
      BY <1>1, <3>1, DfsCut
    <3>3. PICK k \in 1 .. Len(flips) : CutAt(k, Len(flips))
      BY <3>2
    <3>4. ASSUME NEW q \in Required, q \notin explored
          PROVE  Pending(q)' \/ Agrees(q)'
      <4>1. Pending(q) /\ q \in Seq(BOOLEAN)
        BY <1>1, <2>2, <3>1, <3>4, CompleteMove, RequiredPaths
      <4>2. PICK i \in 1 .. Len(flips) : ~flips[i].is_frozen /\ LeavesAt(q, i)
        BY <4>1 DEF Pending
      <4> QED
        BY <1>1, <3>3, <4>1, <4>2, CutKeepsPending
    <3> QED
      BY <1>1, <3>1, <3>4 DEF Complete, ToCome
  <2> QED
    BY <2>1, <2>2
<1>7. CASE FindNoNextPath
  <2>1. ReadyToMove /\ Move(FALSE) /\ explored' = explored
    BY <1>7 DEF FindNoNextPath, history_vars
  <2>2. ASSUME NEW q \in Required
        PROVE  q \in explored
    <3>1. CASE allow
      <4>1. \A i \in 1 .. Len(flips) : flips[i].is_frozen
        BY <2>1, <3>1 DEF Move, DfsFindsNoPath, AllFrozen
      <4>2. ~Pending(q)
        BY <4>1 DEF Pending
      <4> QED
        BY <1>1, <2>1, <3>1, <4>2, CompleteMove
    <3>2. CASE ~allow
      <4>1. ~found_path /\ phase \notin {"run", "done"}
        BY <2>1, <3>2 DEF Move, ReadyToMove
      <4>2. flips = << >>
        BY <1>1, <3>2, <4>1 DEF VInv, Shape, Ended
      <4>3. ~Pending(q)
        BY <4>2 DEF Pending
      <4> QED
        BY <3>2, <4>1, <4>3 DEF Complete, ToCome
    <3> QED
      BY <3>1, <3>2
  <2> QED
    BY <1>1, <2>1, <2>2 DEF Complete
<1>8. CASE Reset
  <2>1. /\ flips' = << >> /\ allow' /\ phase' = "run"
    BY <1>8 DEF Reset, DfsReset
  <2>2. \A q \in Required : Agrees(q)'
    <3>1. Len(Directions(flips')) = 0
      BY <1>1, <2>1, DirectionsType DEF DfsTypeOK
    <3>2. \A q \in Required : Len(q) \in Nat
      BY <1>1, RequiredPaths
    <3> QED
      BY <3>1, <3>2 DEF Agrees, IsPrefixOf
  <2> QED
    BY <1>1, <2>1, <2>2 DEF Complete, ToCome
<1>9. CASE UNCHANGED vars
  BY <1>1, <1>9 DEF vars, dfs_vars, history_vars, Complete, ToCome, Pending, LeavesAt, Agrees
<1> QED
  BY <1>2, <1>3, <1>4, <1>5, <1>6, <1>7, <1>8, <1>9 DEF Next, Analyse, Checking, EndsRun

(* What holds of the programs whose assertions come first and whose errors *)
(* come last                                                               *)
CInv ==
  /\ EInv
  /\ ErrorsLast
  /\ ErrorsOfPath
  /\ LInv
  /\ Complete

LEMMA CInvInit == Init /\ ErrorsLast /\ AssertionsFirst => CInv
<1> SUFFICES ASSUME Init, ErrorsLast, AssertionsFirst
             PROVE  CInv
  OBVIOUS
<1>1. EInv /\ TypeOK
  BY EInvInit, TypeInit
<1>2. ErrorsOfPath /\ LInv
  BY DEF Init, ErrorsOfPath, LInv, AssertsNoMore, ErrorsAdded, SolverAtEnd, Lossless
<1>3. \A q \in Required : Agrees(q)
  <2>1. Len(Directions(flips)) = 0 /\ \A q \in Required : Len(q) \in Nat
    BY <1>1, DfsFlips, RequiredPaths DEF Init, DfsInit, TypeOK
  <2> QED
    BY <2>1 DEF Agrees, IsPrefixOf
<1>4. Complete
  BY <1>3 DEF Init, Complete, ToCome
<1> QED
  BY <1>1, <1>2, <1>4 DEF CInv

LEMMA CInvNext == CInv /\ [Next]_vars => CInv'
<1> SUFFICES ASSUME CInv, [Next]_vars
             PROVE  CInv'
  OBVIOUS
<1>1. VInv /\ TypeOK /\ LInv
  BY DEF CInv, EInv, VInv
<1>2. EInv' /\ ErrorsLast' /\ ErrorsOfPath'
  BY <1>1, EInvNext, ErrorsLastNext, ErrorsOfPathNext DEF CInv
<1>3. LInv'
  BY <1>1, AssertionsFirstNext, AssertsNoMoreNext, ErrorsAddedNext, SolverAtEndNext,
    LosslessNext DEF LInv, CInv
<1>4. Complete'
  BY <1>2, CompleteNext DEF CInv
<1> QED
  BY <1>2, <1>3, <1>4 DEF CInv

LEMMA AbstractNext == CInv /\ CInv' /\ [Next]_vars => [Abstract!Next]_Abstract!vars
<1> SUFFICES ASSUME CInv, CInv', [Next]_vars
             PROVE  [Abstract!Next]_Abstract!vars
  OBVIOUS
<1> USE DEF Abstract!Next, Abstract!vars
<1>1. prog' = prog /\ Required' = Required
  BY ProgramStays, RequiredStays
<1>2. CASE EndsRun
  <2>1. /\ path \in Paths(prog) \ explored /\ explored' = explored \union {path}
        /\ phase # "done" /\ phase' # "done"
    BY <1>2, EndsRunExplores DEF CInv, EInv
  <2> QED
    BY <1>1, <2>1, Zenon DEF Abstract!Explore
<1>3. CASE FindNoNextPath
  <2>1. phase # "done" /\ phase' = "done" /\ explored' = explored
    BY <1>3 DEF FindNoNextPath, ReadyToMove, history_vars
  <2>2. Required \subseteq explored
    BY <1>1, <2>1 DEF CInv, Complete, ToCome
  <2> QED
    BY <1>1, <2>1, <2>2, Zenon DEF Abstract!Finish
<1>4. CASE Reset
  <2>1. phase = "done" /\ phase' # "done" /\ explored' = {}
    BY <1>4 DEF Reset
  <2>2. Required' \subseteq Paths(prog')
    BY <1>1 DEF Required, FeasiblePaths
  <2> QED
    BY <2>1, <2>2, Zenon DEF Abstract!Restart
<1>5. CASE ~EndsRun /\ ~FindNoNextPath /\ ~Reset
  <2>1. /\ explored' = explored
        /\ (phase' = "done") = (phase = "done")
    BY <1>5, OtherStepsStutter
  <2> QED
    BY <1>1, <2>1, Zenon
<1> QED
  BY <1>2, <1>3, <1>4, <1>5

(* Although backtracking cuts whole subtrees off, every path that some     *)
(* input takes is run, none is run twice, and find_next_path() returns     *)
(* false only then: for the programs that make their assertions before the *)
(* first branch and their errors after the last one, and any set of        *)
(* inputs.  Of a program with errors whose cores need not be minimal it    *)
(* says only that no path is run twice (Required).                         *)
THEOREM ExploresOnce ==
  Spec /\ ErrorsLast /\ AssertionsFirst => ExploresEveryFeasiblePathOnce
<1>1. Init => Abstract!Init
  <2>1. Init => Required \subseteq Paths(prog)
    BY DEF Required, FeasiblePaths
  <2> QED
    BY <2>1, Zenon DEF Init, Abstract!Init
<1> QED
  BY <1>1, CInvInit, CInvNext, AbstractNext, PTL
     DEF Spec, ExploresEveryFeasiblePathOnce, Abstract!Spec

(* For these programs find_next_path() returns false only when every path  *)
(* that some input takes has been run, under a third condition: all unsat  *)
(* cores of the analysis are minimal, or the program has no errors ...     *)
THEOREM MissesNothing ==
  Spec /\ ErrorsLast /\ AssertionsFirst
  => [](phase = "done" /\ (precise \/ ~AddsErrors) => FeasiblePaths(prog) \subseteq explored)
<1>1. CInv => (phase = "done" /\ (precise \/ ~AddsErrors) => FeasiblePaths(prog) \subseteq explored)
  BY DEF CInv, Complete, ToCome, Required
<1> QED
  BY <1>1, CInvInit, CInvNext, PTL DEF Spec

(* ... and when the solver decides every query with minimal cores, check() *)
(* has returned sat on the path of every input that makes an error, except *)
(* where it was not called.                                                *)
THEOREM ReportsAll ==
  Spec /\ ErrorsLast /\ AssertionsFirst => []ReportsEveryError
<1>1. CInv => ReportsEveryError
  BY DEF CInv, EInv, VInv, NoneOverlooked, Complete, ToCome, Required, ReportsEveryError
<1> QED
  BY <1>1, CInvInit, CInvNext, PTL DEF Spec
=============================================================================
