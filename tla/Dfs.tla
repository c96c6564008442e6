-------------------------------- MODULE Dfs --------------------------------
(***************************************************************************)
(* class Dfs of include/nse_sequential.h: the stack of control-flow        *)
(* decisions that depth-first path exploration replays and alternates.     *)
(* The three path explorers (SequentialDfsChecker, BacktrackDfsChecker and *)
(* DfsChecker) each own one; this module is what their modules extend.     *)
(***************************************************************************)
EXTENDS Naturals, Sequences

VARIABLES
  flips,       \* m_flips: decisions of the current path, oldest first
  flip_index   \* m_flip_index: how many of them the current run replayed

dfs_vars == <<flips, flip_index>>

(* A frozen flip has had its other direction tried or ruled out. *)
Flip == [direction : BOOLEAN, is_frozen : BOOLEAN]

DfsTypeOK ==
  /\ flips \in Seq(Flip)
  /\ flip_index \in 0 .. Len(flips)

DfsInit ==
  /\ flips = << >>
  /\ flip_index = 0

(* Dfs::reset *)
DfsReset ==
  /\ flips' = << >>
  /\ flip_index' = 0

Directions(fs) == [i \in 1 .. Len(fs) |-> fs[i].direction]

(* Fault: the last flip is not replayed. *)
HasNextButOne == flip_index + 1 < Len(flips)

HasNext == flip_index < Len(flips)

NextDirection == flips[flip_index + 1].direction

(* Dfs::next, called with HasNext *)
TakeNext ==
  /\ flip_index' = flip_index + 1
  /\ UNCHANGED flips

AppendFlip(direction, is_frozen) ==
  /\ flips' = Append(flips, [direction |-> direction, is_frozen |-> is_frozen])
  /\ flip_index' = flip_index + 1

(* The flip k of fs that popping frozen flips off the back stops at. *)
IsDeepestOpen(fs, k) ==
  /\ k \in 1 .. Len(fs)
  /\ ~fs[k].is_frozen
  /\ \A j \in k + 1 .. Len(fs) : fs[j].is_frozen

AllFrozen(fs) == \A k \in 1 .. Len(fs) : fs[k].is_frozen

(* Fault: the alternated flip stays open. *)
AlternateUnfrozen(fs, k) ==
  Append(SubSeq(fs, 1, k - 1),
         [direction |-> ~fs[k].direction, is_frozen |-> FALSE])

(* Fault: the frozen flips behind the alternated one stay. *)
AlternateUnpopped(fs, k) ==
  [fs EXCEPT ![k] = [direction |-> ~fs[k].direction, is_frozen |-> TRUE]]

Alternate(fs, k) ==
  Append(SubSeq(fs, 1, k - 1),
         [direction |-> ~fs[k].direction, is_frozen |-> TRUE])

(* Fault: the next run does not replay from the first flip. *)
DfsFindsPathInPlace(fs) ==
  \E k \in 1 .. Len(fs) :
     /\ IsDeepestOpen(fs, k)
     /\ flips' = Alternate(fs, k)
     /\ UNCHANGED flip_index

(* Dfs::find_next_path returning true ... *)
DfsFindsPath(fs) ==
  \E k \in 1 .. Len(fs) :
     /\ IsDeepestOpen(fs, k)
     /\ flips' = Alternate(fs, k)
     /\ flip_index' = 0

(* ... and returning false *)
DfsFindsNoPath(fs) ==
  /\ AllFrozen(fs)
  /\ DfsReset
=============================================================================
