--------------------------------- MODULE MMR ---------------------------------
(***************************************************************************)
(* The Merkle Mountain Range of a chain's order leaves: 1-based positions, *)
(* peaks, the node cache, bagging, and inclusion proofs.                   *)
(*                                                                         *)
(* A field element is a tuple: <<n>> for the number n, and the tuple of    *)
(* its inputs for a Poseidon2 hash, which has no tag but its arity; hashes *)
(* are free of collisions and nothing else is assumed of them.             *)
(***************************************************************************)
EXTENDS Integers, Sequences, SequencesExt, Bitwise

CONSTANT FieldModulus   \* the BN254 scalar field's size

Field(n) == <<n>>
Zero == Field(0)

\* DOMAIN_TAG, an element no order hash equals.
DomainTag == Field(FieldModulus - 1)

Poseidon2(inputs) == inputs

\* field_mod: an order hash is 256 bits, a field element less.
FieldMod(e) == IF Len(e) = 1 THEN Field(e[1] % FieldModulus) ELSE e

HashLeaf(index, data) == Poseidon2(<<Field(index), data>>)

HashBranch(index, left, right) == Poseidon2(<<Field(index), left, right>>)

\* encode_leaf: the value appended binds the side the leaf unlocks.
EncodeLeaf(orderHash, side) == Poseidon2(<<FieldMod(orderHash), Field(side)>>)

-----------------------------------------------------------------------------

\* num_of_peaks: one step per set bit.
RECURSIVE NumOfPeaks(_)
NumOfPeaks(width) ==
  IF width = 0 THEN 0 ELSE 1 + NumOfPeaks(width & (width - 1))

CalcSize(width) == 2 * width - NumOfPeaks(width)

\* The least h >= 1 that ends the loop "while 2^h <= bound".
RECURSIVE HeightPast(_, _)
HeightPast(h, width) == IF 2^h <= width THEN HeightPast(h + 1, width) ELSE h

RECURSIVE PeaksFrom(_, _, _)
PeaksFrom(width, i, running) ==
  IF i = 0 THEN <<>>
  ELSE IF (width & 2^(i - 1)) = 0 THEN PeaksFrom(width, i - 1, running)
  ELSE <<running + 2^i - 1>> \o PeaksFrom(width, i - 1, running + 2^i - 1)

\* get_peak_indexes: the mountains from the highest to the lowest.
PeakIndexes(width) == PeaksFrom(width, HeightPast(1, width), 0)

\* get_leaf_index: the position of the width-th leaf.
LeafIndex(width) ==
  IF width % 2 = 1 THEN CalcSize(width) ELSE CalcSize(width - 1) + 1

\* mountain_height
RECURSIVE MountainHeightFrom(_, _)
MountainHeightFrom(h, size) ==
  IF 2^h <= size + h THEN MountainHeightFrom(h + 1, size) ELSE h - 1

MountainHeight(size) == MountainHeightFrom(1, size)

RECURSIVE ReduceHeight(_, _, _)
ReduceHeight(reduced, peak, height) ==
  IF reduced > peak
  THEN LET r == reduced - (2^height - 1)
           h == MountainHeight(r)
       IN ReduceHeight(r, 2^h - 1, h)
  ELSE height - (peak - reduced)

\* height_at: 1 for a leaf.
HeightAt(index) == ReduceHeight(index, 0, 0)

\* get_children, of a node that is no leaf.
LeftChild(index)  == index - 2^(HeightAt(index) - 1)
RightChild(index) == index - 1

-----------------------------------------------------------------------------

\* get_or_create_node: the cache with this node and what it needs filled in.
RECURSIVE Create(_, _)
Create(nodes, index) ==
  IF nodes[index] # Zero THEN nodes
  ELSE LET l == LeftChild(index)
           r == RightChild(index)
           n == Create(Create(nodes, l), r)
       IN [n EXCEPT ![index] = HashBranch(index, n[l], n[r])]

\* Mutant: the size is not bound into the root.
BagUnsized(width, peaks) ==
  IF width = 0 THEN Zero
  ELSE FoldLeft(LAMBDA acc, peak : Poseidon2(<<acc, peak>>), Head(peaks), Tail(peaks))

\* peak_bagging: the peaks folded from the first, then bound to the size.
PeakBagging(width, peaks) ==
  IF width = 0 THEN Zero
  ELSE Poseidon2(<<DomainTag, Field(CalcSize(width)),
                   FoldLeft(LAMBDA acc, peak : Poseidon2(<<acc, peak>>),
                            Head(peaks), Tail(peaks))>>)

\* get_peaks
Peaks(nodes, width) ==
  [i \in 1..NumOfPeaks(width) |-> nodes[PeakIndexes(width)[i]]]

\* append: the cache after the width-th leaf.
AppendNodes(nodes, width, data) ==
  FoldLeft(Create,
           [nodes EXCEPT ![LeafIndex(width)] = HashLeaf(LeafIndex(width), FieldMod(data))],
           PeakIndexes(width))

-----------------------------------------------------------------------------

\* The positions from a peak down to a position; empty when a leaf that is not
\* the position is reached, where get_children panics.
RECURSIVE PathDown(_, _)
PathDown(cursor, index) ==
  IF cursor = index THEN <<cursor>>
  ELSE IF HeightAt(cursor) = 1 THEN <<>>
  ELSE LET rest == PathDown(IF index > LeftChild(cursor) THEN RightChild(cursor)
                            ELSE LeftChild(cursor), index)
       IN IF rest = <<>> THEN <<>> ELSE <<cursor>> \o rest

\* Mutant: a leaf that is its own mountain's peak is looked for further right.
PeakPast(width, index) ==
  LET idx == PeakIndexes(width)
      at  == {i \in 1..Len(idx) : idx[i] > index}
  IN IF at = {} THEN 0 ELSE CHOOSE i \in at : \A j \in at : i <= j

\* The first mountain that reaches the position, or 0.
PeakOver(width, index) ==
  LET idx == PeakIndexes(width)
      at  == {i \in 1..Len(idx) : idx[i] >= index}
  IN IF at = {} THEN 0 ELSE CHOOSE i \in at : \A j \in at : i <= j

SiblingOf(parent, child) ==
  IF child = RightChild(parent) THEN LeftChild(parent) ELSE RightChild(parent)

\* get_merkle_proof's panics.
NoProof == [bag |-> <<>>, siblings |-> <<>>]

\* get_merkle_proof: the bag and the siblings from the leaf up.
MerkleProof(nodes, width, index) ==
  LET peak == PeakOver(width, index)
      path == PathDown(PeakIndexes(width)[peak], index)
  IN IF index > CalcSize(width) \/ HeightAt(index) # 1 \/ peak = 0 THEN NoProof
     ELSE [bag      |-> Peaks(nodes, width),
           siblings |-> Reverse([i \in 1..Len(path) - 1 |->
                                   nodes[SiblingOf(path[i], path[i + 1])]])]

\* verify_inclusion's walk up: level h of the path, bottom first; a level the
\* walk down did not reach is position 0.
RECURSIVE WalkUp(_, _, _, _, _)
WalkUp(path, h, value, siblings, node) ==
  IF h > Len(path) - 1 THEN node
  ELSE LET cursor == path[h + 1]
           next   == IF h = 0 THEN HashLeaf(cursor, value)
                     ELSE IF cursor - 1 = path[h]
                     THEN HashBranch(cursor, siblings[h], node)
                     ELSE HashBranch(cursor, node, siblings[h])
       IN WalkUp(path, h + 1, value, siblings, next)

\* verify_inclusion: true, or the panic of one of its assertions.
VerifyInclusion(root, width, index, value, bag, siblings) ==
  LET i    == PeakOver(width, index)
      down == PathDown(PeakIndexes(width)[i], index)
      h    == Len(siblings) + 1 - Len(down)
      path == [k \in 1..Len(siblings) + 1 |->
                 IF k <= h THEN 0 ELSE Reverse(down)[k - h]]
  IN /\ CalcSize(width) >= index
     /\ Len(bag) = NumOfPeaks(width)
     /\ root = PeakBagging(width, bag)
     /\ i # 0
     /\ bag[i] # Zero
     /\ down # <<>>
     /\ h >= 0
     /\ WalkUp(path, h, value, siblings, Zero) = bag[i]

-----------------------------------------------------------------------------

\* What the range computes, without a cache or bit tricks: a mountain over the
\* 2^k leaves after the first lo, whose nodes come after base others.
RECURSIVE Mountain(_, _, _, _)
Mountain(leaves, lo, n, base) ==
  IF n = 1 THEN HashLeaf(base + 1, leaves[lo + 1])
  ELSE HashBranch(base + 2 * n - 1,
                  Mountain(leaves, lo, n \div 2, base),
                  Mountain(leaves, lo + n \div 2, n \div 2, base + n - 1))

\* The mountains of a leaf sequence: the largest that fits, then the rest.
RECURSIVE Mountains(_, _, _)
Mountains(leaves, lo, base) ==
  LET rest == Len(leaves) - lo
      n    == CHOOSE p \in {2^k : k \in 0..rest} : p <= rest /\ 2 * p > rest
  IN IF rest = 0 THEN <<>>
     ELSE <<Mountain(leaves, lo, n, base)>>
          \o Mountains(leaves, lo + n, base + 2 * n - 1)

\* The root a leaf sequence commits to, and the number of nodes it has.
ReferenceSize(leaves) ==
  Cardinality({<<k, i>> \in (0..Len(leaves)) \X (1..Len(leaves)) :
                 i * 2^k <= Len(leaves)})

ReferenceRoot(leaves) ==
  LET m == Mountains(leaves, 0, 0)
  IN IF leaves = <<>> THEN Zero
     ELSE <<DomainTag, Field(ReferenceSize(leaves)),
            FoldLeft(LAMBDA acc, peak : <<acc, peak>>, Head(m), Tail(m))>>
==============================================================================
