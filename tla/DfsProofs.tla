------------------------------- MODULE DfsProofs -------------------------------
(***************************************************************************)
(* Lemmas about the stack of flips, for the proofs about the path          *)
(* explorers that own one.  A path is a sequence of branch results; what   *)
(* matters is on which side of which flip it is.                           *)
(***************************************************************************)
EXTENDS Dfs, TLAPS

IsPrefixOf(p, q) ==
  /\ Len(p) <= Len(q)
  /\ \A j \in 1 .. Len(p) : p[j] = q[j]

(* Path p is on the other side of flip i. *)
LeavesAt(p, i) ==
  /\ i <= Len(p)
  /\ \A j \in 1 .. i - 1 : p[j] = flips[j].direction
  /\ p[i] # flips[i].direction

(* An open flip will still be alternated towards q. *)
Pending(q) == \E i \in 1 .. Len(flips) : ~flips[i].is_frozen /\ LeavesAt(q, i)

(* A frozen flip keeps p in the past. *)
Behind(p) == \E i \in 1 .. Len(flips) : flips[i].is_frozen /\ LeavesAt(p, i)

(* Replaying the flips leads towards q. *)
Agrees(q) == IsPrefixOf(Directions(flips), q)

(* The flips after m are dropped and the deepest open one left, k, is      *)
(* alternated.                                                             *)
CutAt(k, m) ==
  /\ ~flips[k].is_frozen
  /\ \A j \in k + 1 .. m : flips[j].is_frozen
  /\ Len(flips') = k
  /\ flips'[k] = [direction |-> ~flips[k].direction, is_frozen |-> TRUE]
  /\ \A j \in 1 .. k - 1 : flips'[j] = flips[j]

-----------------------------------------------------------------------------
(* Two paths have the same prefix as far as they agree. *)
LEMMA SamePrefix ==
  ASSUME NEW p \in Seq(BOOLEAN), NEW q \in Seq(BOOLEAN),
         NEW k \in 0 .. Len(p), k <= Len(q), \A j \in 1 .. k : p[j] = q[j]
  PROVE  SubSeq(p, 1, k) = SubSeq(q, 1, k)
OBVIOUS

LEMMA DirectionsType ==
  ASSUME NEW fs \in Seq(Flip)
  PROVE  /\ Directions(fs) \in Seq(BOOLEAN)
         /\ Len(Directions(fs)) = Len(fs)
         /\ \A i \in 1 .. Len(fs) : Directions(fs)[i] = fs[i].direction
<1>1. \A i \in 1 .. Len(fs) : fs[i] \in Flip
  OBVIOUS
<1>2. \A i \in 1 .. Len(fs) : fs[i].direction \in BOOLEAN
  BY <1>1 DEF Flip
<1> QED
  BY <1>2 DEF Directions

(* The flips and their types *)
LEMMA DfsFlips ==
  ASSUME DfsTypeOK
  PROVE  /\ flips \in Seq(Flip)
         /\ Len(flips) \in Nat
         /\ \A i \in 1 .. Len(flips) : /\ flips[i].direction \in BOOLEAN
                                       /\ flips[i].is_frozen \in BOOLEAN
         /\ flip_index \in 0 .. Len(flips)
         /\ Directions(flips) \in Seq(BOOLEAN)
         /\ Len(Directions(flips)) = Len(flips)
         /\ \A i \in 1 .. Len(flips) : Directions(flips)[i] = flips[i].direction
<1>1. \A i \in 1 .. Len(flips) : flips[i] \in Flip
  BY DEF DfsTypeOK
<1> QED
  BY <1>1, DirectionsType DEF DfsTypeOK, Flip

(* Replaying flips up to n that are the same leads to the same place ... *)
LEMMA SameDirections ==
  ASSUME DfsTypeOK, DfsTypeOK', NEW n \in Nat, n <= Len(flips), n <= Len(flips'),
         \A j \in 1 .. n : flips'[j] = flips[j]
  PROVE  SubSeq(Directions(flips'), 1, n) = SubSeq(Directions(flips), 1, n)
<1>1. /\ Directions(flips') \in Seq(BOOLEAN)
      /\ Len(Directions(flips')) = Len(flips')
      /\ \A i \in 1 .. Len(flips') : Directions(flips')[i] = flips'[i].direction
  BY DirectionsType DEF DfsTypeOK
<1>2. /\ Directions(flips) \in Seq(BOOLEAN)
      /\ \A j \in 1 .. n : Directions(flips')[j] = Directions(flips)[j]
  BY <1>1, DfsFlips
<1>3. n \in 0 .. Len(Directions(flips')) /\ n <= Len(Directions(flips))
  BY <1>1, DfsFlips
<1> QED
  BY <1>1, <1>2, <1>3, SamePrefix

(* ... and so does following them. *)
LEMMA FollowedDirections ==
  ASSUME DfsTypeOK, NEW p \in Seq(BOOLEAN), NEW n \in Nat, n <= Len(flips), n <= Len(p),
         \A j \in 1 .. n : p[j] = flips[j].direction
  PROVE  SubSeq(p, 1, n) = SubSeq(Directions(flips), 1, n)
BY DfsFlips, SamePrefix

(* The next flip to replay *)
LEMMA DfsNext ==
  ASSUME DfsTypeOK, HasNext
  PROVE  /\ flip_index + 1 \in 1 .. Len(flips)
         /\ NextDirection \in BOOLEAN
         /\ NextDirection = flips[flip_index + 1].direction
         /\ TakeNext => DfsTypeOK'
<1>1. flips[flip_index + 1] \in Flip
  BY DEF HasNext, DfsTypeOK
<1> QED
  BY <1>1 DEF HasNext, NextDirection, TakeNext, DfsTypeOK, Flip

(* What appending a flip does *)
LEMMA DfsAppend ==
  ASSUME DfsTypeOK, flip_index = Len(flips), NEW d \in BOOLEAN, NEW frozen \in BOOLEAN,
         AppendFlip(d, frozen)
  PROVE  /\ DfsTypeOK'
         /\ Len(flips') = Len(flips) + 1
         /\ flip_index' = Len(flips')
         /\ flips'[Len(flips) + 1].direction = d
         /\ flips'[Len(flips) + 1].is_frozen = frozen
         /\ \A i \in 1 .. Len(flips) : flips'[i] = flips[i]
BY DEF AppendFlip, DfsTypeOK, Flip

(* What dropping the flips after m and alternating one does *)
LEMMA DfsCut ==
  ASSUME DfsTypeOK, NEW m \in 0 .. Len(flips), DfsFindsPath(SubSeq(flips, 1, m))
  PROVE  /\ DfsTypeOK'
         /\ flip_index' = 0
         /\ \E k \in 1 .. m : CutAt(k, m)
<1> DEFINE fs == SubSeq(flips, 1, m)
<1>1. fs \in Seq(Flip) /\ Len(fs) = m /\ \A j \in 1 .. m : fs[j] = flips[j]
  BY DEF DfsTypeOK
<1> HIDE DEF fs
<1>2. PICK k \in 1 .. Len(fs) : IsDeepestOpen(fs, k) /\ flips' = Alternate(fs, k)
  BY DEF DfsFindsPath, fs
<1>3. k \in 1 .. m /\ k \in Nat
  BY <1>1, <1>2
<1>4. fs[k] \in Flip /\ SubSeq(fs, 1, k - 1) \in Seq(Flip)
  BY <1>1, <1>3
<1>5. [direction |-> ~fs[k].direction, is_frozen |-> TRUE] \in Flip
  BY <1>4 DEF Flip
<1>6. /\ Len(flips') = k
      /\ flips' \in Seq(Flip)
      /\ flips'[k] = [direction |-> ~fs[k].direction, is_frozen |-> TRUE]
      /\ \A j \in 1 .. k - 1 : flips'[j] = fs[j]
  BY <1>1, <1>2, <1>3, <1>4, <1>5 DEF Alternate
<1>7. CutAt(k, m)
  <2>1. ~fs[k].is_frozen /\ \A j \in k + 1 .. m : fs[j].is_frozen
    BY <1>1, <1>2 DEF IsDeepestOpen
  <2>2. /\ fs[k] = flips[k]
        /\ \A j \in k + 1 .. m : fs[j] = flips[j]
        /\ \A j \in 1 .. k - 1 : fs[j] = flips[j]
    BY <1>1, <1>3
  <2> QED
    BY <1>6, <2>1, <2>2 DEF CutAt
<1>8. flip_index' = 0
  BY DEF DfsFindsPath
<1>9. DfsTypeOK'
  BY <1>3, <1>6, <1>8 DEF DfsTypeOK
<1> QED
  BY <1>3, <1>7, <1>8, <1>9

(* find_next_path() looks at the whole stack. *)
LEMMA WholeStack ==
  ASSUME DfsTypeOK
  PROVE  SubSeq(flips, 1, Len(flips)) = flips
BY DEF DfsTypeOK

-----------------------------------------------------------------------------
(* Which side of flip i a path is on depends on the flips up to i only. *)
LEMMA LeavesAtStable ==
  ASSUME NEW p, NEW i \in Nat, \A j \in 1 .. i : flips'[j] = flips[j], 1 <= i
  PROVE  LeavesAt(p, i)' <=> LeavesAt(p, i)
BY DEF LeavesAt

(* More flips change nothing for the paths that have left. *)
LEMMA SidesGrow ==
  ASSUME DfsTypeOK, DfsTypeOK', Len(flips) <= Len(flips'),
         \A j \in 1 .. Len(flips) : flips'[j] = flips[j], NEW p
  PROVE  /\ Pending(p) => Pending(p)'
         /\ Behind(p) => Behind(p)'
<1>1. Len(flips) \in Nat /\ Len(flips') \in Nat
  BY DEF DfsTypeOK
<1>2. ASSUME NEW i \in 1 .. Len(flips), LeavesAt(p, i)
      PROVE  i \in 1 .. Len(flips') /\ flips'[i] = flips[i] /\ LeavesAt(p, i)'
  BY <1>1, <1>2, LeavesAtStable
<1> QED
  BY <1>2 DEF Pending, Behind

(* A path that replaying leads towards is behind the flip that is          *)
(* alternated.                                                             *)
LEMMA CutLeavesBehind ==
  ASSUME DfsTypeOK, DfsTypeOK', NEW m \in 0 .. Len(flips), NEW k \in 1 .. m, CutAt(k, m),
         NEW p, k <= Len(p), \A j \in 1 .. k : p[j] = flips[j].direction
  PROVE  Behind(p)'
<1>1. /\ k \in 1 .. Len(flips)
      /\ k \in 1 .. Len(flips')
      /\ flips'[k].is_frozen
      /\ flips'[k].direction = ~flips[k].direction
      /\ flips[k].direction \in BOOLEAN
      /\ \A j \in 1 .. k - 1 : flips'[j] = flips[j]
  BY DfsFlips DEF CutAt
<1>2. LeavesAt(p, k)'
  BY <1>1 DEF LeavesAt
<1> QED
  BY <1>1, <1>2 DEF Behind

(* Paths of the past stay there. *)
LEMMA CutKeepsBehind ==
  ASSUME DfsTypeOK, DfsTypeOK', NEW m \in 0 .. Len(flips), NEW k \in 1 .. m, CutAt(k, m),
         NEW p \in Seq(BOOLEAN), Behind(p)
  PROVE  Behind(p)'
<1>1. PICK i \in 1 .. Len(flips) : flips[i].is_frozen /\ LeavesAt(p, i)
  BY DEF Behind
<1>2. i \in Nat /\ k \in Nat /\ Len(p) \in Nat /\ k \in 1 .. Len(flips')
  BY DfsFlips DEF CutAt
<1>3. i # k
  BY <1>1 DEF CutAt
<1>4. CASE i < k
  <2>1. \A j \in 1 .. i : flips'[j] = flips[j]
    BY <1>2, <1>4 DEF CutAt
  <2>2. LeavesAt(p, i)'
    BY <1>1, <1>2, <2>1, LeavesAtStable
  <2>3. i \in 1 .. Len(flips') /\ flips'[i].is_frozen
    BY <1>1, <1>2, <1>4, <2>1
  <2> QED
    BY <2>2, <2>3 DEF Behind
<1>5. CASE k < i
  <2>1. k <= Len(p) /\ \A j \in 1 .. k : p[j] = flips[j].direction
    BY <1>1, <1>2, <1>5 DEF LeavesAt
  <2> QED
    BY <2>1, CutLeavesBehind
<1> QED
  BY <1>2, <1>3, <1>4, <1>5

(* A path beyond an open flip that is not dropped stays pending, or is     *)
(* where the next run leads.                                               *)
LEMMA CutKeepsPending ==
  ASSUME DfsTypeOK, DfsTypeOK', NEW m \in 0 .. Len(flips), NEW k \in 1 .. m, CutAt(k, m),
         NEW q \in Seq(BOOLEAN),
         NEW i \in 1 .. m, ~flips[i].is_frozen, LeavesAt(q, i)
  PROVE  Pending(q)' \/ Agrees(q)'
<1>1. i \in 1 .. Len(flips) /\ i \in Nat /\ k \in Nat /\ k \in 1 .. Len(flips)
  BY DfsFlips
<1>2. i <= k
  BY <1>1 DEF CutAt
<1>3. CASE i < k
  <2>1. \A j \in 1 .. i : flips'[j] = flips[j]
    BY <1>1, <1>3 DEF CutAt
  <2>2. LeavesAt(q, i)'
    BY <1>1, <2>1, LeavesAtStable
  <2>3. i \in 1 .. Len(flips') /\ ~flips'[i].is_frozen
    BY <1>1, <1>3, <2>1 DEF CutAt
  <2> QED
    BY <2>2, <2>3 DEF Pending
<1>4. CASE i = k
  <2>1. /\ k <= Len(q)
        /\ \A j \in 1 .. k - 1 : q[j] = flips[j].direction
        /\ q[k] # flips[k].direction
        /\ q[k] \in BOOLEAN
    BY <1>1, <1>4 DEF LeavesAt
  <2>2. flips'[k].direction = ~flips[k].direction /\ flips[k].direction \in BOOLEAN
    BY <1>1, DfsFlips DEF CutAt
  <2>3. /\ Len(flips') = k
        /\ \A j \in 1 .. k : q[j] = flips'[j].direction
    <3>1. ASSUME NEW j \in 1 .. k
          PROVE  q[j] = flips'[j].direction
      <4>1. CASE j = k
        BY <2>1, <2>2, <4>1
      <4>2. CASE j \in 1 .. k - 1
        BY <2>1, <4>2 DEF CutAt
      <4> QED
        BY <1>1, <4>1, <4>2
    <3> QED
      BY <3>1 DEF CutAt
  <2>4. /\ Len(Directions(flips')) = Len(flips')
        /\ \A j \in 1 .. Len(flips') : Directions(flips')[j] = flips'[j].direction
    BY DirectionsType DEF DfsTypeOK
  <2> QED
    BY <2>1, <2>3, <2>4 DEF Agrees, IsPrefixOf
<1> QED
  BY <1>1, <1>2, <1>3, <1>4
=============================================================================
