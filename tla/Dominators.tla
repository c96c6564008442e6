------------------------------ MODULE Dominators ------------------------------
(***************************************************************************)
(* Encoder::immediate_dominator_map (include/crv.h) for the events of one  *)
(* thread, given in the order they were recorded.  Events are denoted by   *)
(* their positions; the result is a set of pairs <<event, dominator>>.     *)
(* The predicate that selects events is the set of kinds it admits.        *)
(*                                                                         *)
(* The code's loop over the threads has one worklist for all of them, and  *)
(* asserts that it is empty before it looks at a thread of two events or   *)
(* more.  So either the program aborts there, see WorklistAssertionHolds,  *)
(* or the loop does for each thread what it would do for that one alone.   *)
(***************************************************************************)
EXTENDS Integers, Sequences, SequencesExt, FiniteSetsExt

(* Fault: events of one level are taken to be in the same branch. *)
SameLevel(e, d) == TRUE

(* Blocks are numbered; a new branch or another if-statement is a new one. *)
SameBranch(e, d) == e.block_id = d.block_id

(* What is left of the worklist, which is popped from its end. *)
RestOfWorklist(es, worklist, scope_level) ==
  SubSeq(worklist, 1,
         Max({0} \union {k \in DOMAIN worklist :
                           es[worklist[k]].scope_level < scope_level}))

(* One iteration for the event at position d, the candidate dominator of   *)
(* the event acc.e after it.                                               *)
DominatorStep(es, kinds, d, acc) ==
  LET scope_level == es[d].scope_level
      e == es[acc.e]
      rest == RestOfWorklist(es, acc.worklist, scope_level)
      popped == SubSeq(acc.worklist, Len(rest) + 1, Len(acc.worklist))
      later == [acc EXCEPT !.worklist = Append(@, acc.e), !.e = d]
  IN  IF es[d].kind \notin kinds THEN acc
      ELSE IF scope_level > e.scope_level THEN later
      ELSE IF scope_level < e.scope_level
      THEN [map |-> acc.map \union {<<k, d>> : k \in ToSet(popped) \union {acc.e}},
            worklist |-> rest, e |-> d]
      ELSE IF SameBranch(e, es[d])
      THEN [acc EXCEPT !.map = @ \union {<<acc.e, d>>}, !.e = d]
      ELSE later

Dominated(es, kinds) ==
  FoldRight(LAMBDA d, acc : DominatorStep(es, kinds, d, acc),
            [d \in 1 .. Len(es) - 1 |-> d],
            [map |-> {}, worklist |-> << >>, e |-> Len(es)])

ImmediateDominatorMap(es, kinds) ==
  IF Len(es) < 2 THEN {} ELSE Dominated(es, kinds).map

(* What the loop over the thread's events leaves on the worklist *)
DominatorWorklist(es, kinds) ==
  IF Len(es) < 2 THEN << >> ELSE Dominated(es, kinds).worklist

(* Threads that leave something on the worklist *)
LeavingWork(threads, kinds) ==
  {t \in DOMAIN threads : DominatorWorklist(threads[t], kinds) # << >>}

(* assert(worklist.empty()) holds whenever it is reached.  The threads are *)
(* visited in the order of an unordered_map, so any of them may be next.   *)
WorklistAssertionHolds(threads, kinds) ==
  \A t \in LeavingWork(threads, kinds), u \in DOMAIN threads :
     u # t => Len(threads[u]) < 2
=============================================================================
