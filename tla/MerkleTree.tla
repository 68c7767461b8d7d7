------------------------------- MODULE MerkleTree -------------------------------
(***************************************************************************)
(* The Merkle tree of the transparency log: merkle.rs of                   *)
(* confium-transparency.  A hash is the term that was hashed, so that two  *)
(* hashes are equal exactly if what they stand for is.  levels[1] holds    *)
(* the leaf hashes and the last level the root.                            *)
(***************************************************************************)
EXTENDS Integers, SequencesExt

HashLeaf(entry) == <<"leaf", entry>>

HashInternal(left, right) == <<"node", left, right>>

ZeroHash == <<"zero">>

EmptyTree == [entries |-> <<>>, levels |-> <<>>, cached_root |-> ZeroHash]

PowersOfTwo(n) == {2 ^ i : i \in 0 .. n} \cap 1 .. n

LargestPow2StrictlyLessThan(n) == Max({0} \cup (PowersOfTwo(n) \ {n}))

-----------------------------------------------------------------------------
(* The loop of append_level: the tail of level j determines the tail of    *)
(* the level above it, which is replaced or appended.                      *)
RECURSIVE Climb(_, _)
Climb(levels, j) ==
  LET n == Len(levels[j])
      up == IF n % 2 = 0 THEN HashInternal(levels[j][n - 1], levels[j][n])
                         ELSE levels[j][n]
      target == (n + 1) \div 2
      higher == IF j = Len(levels) THEN Append(levels, <<up>>)
                ELSE IF Len(levels[j + 1]) = target
                THEN [levels EXCEPT ![j + 1][target] = up]
                ELSE [levels EXCEPT ![j + 1] = Append(@, up)]
  IN IF Len(higher[j + 1]) = 1 THEN higher ELSE Climb(higher, j + 1)

AppendLevel(levels, leaf) ==
  IF levels = <<>> THEN <<<<leaf>>>>
  ELSE Climb([levels EXCEPT ![1] = Append(@, leaf)], 1)

(* append: an entry that has no number gets that of its place.             *)
AppendEntry(tree, entry) ==
  LET placed == IF entry.sequence = 0 /\ tree.entries # <<>>
                THEN [entry EXCEPT !.sequence = Len(tree.entries)] ELSE entry
      levels == AppendLevel(tree.levels, HashLeaf(placed))
  IN [entries |-> Append(tree.entries, placed), levels |-> levels,
      cached_root |-> Last(levels)[1]]

(* rebuild_levels, which the tests compare append with. *)
RECURSIVE RebuildLevels(_)
RebuildLevels(level) ==
  LET n == Len(level)
      pairs == [i \in 1 .. (n + 1) \div 2 |->
                  IF 2 * i <= n THEN HashInternal(level[2 * i - 1], level[2 * i])
                                ELSE level[n]]
  IN IF n <= 1 THEN <<level>> ELSE <<level>> \o RebuildLevels(pairs)

-----------------------------------------------------------------------------
(* inclusion_proof of a sequence that is in range: the sibling at every    *)
(* level below the root, if the node has one.                              *)
InclusionProof(tree, sequence) ==
  FlattenSeq([j \in 1 .. Len(tree.levels) - 1 |->
    LET level == tree.levels[j]
        idx == sequence \div 2 ^ (j - 1)
    IN IF idx % 2 = 1 THEN <<[sibling |-> level[idx], side |-> "Left"]>>
       ELSE IF idx + 1 < Len(level)
       THEN <<[sibling |-> level[idx + 2], side |-> "Right"]>>
       ELSE <<>>])

VerifyInclusion(entry, steps, root) ==
  root = FoldLeft(LAMBDA current, step :
                    IF step.side = "Left"
                    THEN HashInternal(step.sibling, current)
                    ELSE HashInternal(current, step.sibling),
                  HashLeaf(entry), steps)

-----------------------------------------------------------------------------
(* perfect_subtree_root: read from the cached level, or recomputed. *)
PerfectSubtreeRoot(levels, start, size) ==
  LET j == CHOOSE i \in 0 .. size : 2 ^ i = size
      idx == start \div size
  IN IF j < Len(levels) /\ idx < Len(levels[j + 1])
     THEN levels[j + 1][idx + 1]
     ELSE Last(RebuildLevels(SubSeq(levels[1], start + 1, start + size)))[1]

(* The perfect subtrees of decreasing size that cover a range. *)
RECURSIVE Frontier(_, _, _)
Frontier(levels, offset, remaining) ==
  IF remaining = 0 THEN <<>>
  ELSE LET k == Max(PowersOfTwo(remaining))
       IN <<PerfectSubtreeRoot(levels, offset, k)>> \o
          Frontier(levels, offset + k, remaining - k)

(* Mutant of SubtreeRoot: the frontier is folded from the left. *)
SubtreeRootLeft(levels, start, size) ==
  LET frontier == Frontier(levels, start, size)
  IN IF size = 0 THEN ZeroHash
     ELSE FoldLeft(HashInternal, Head(frontier), Tail(frontier))

SubtreeRoot(levels, start, size) ==
  LET frontier == Frontier(levels, start, size)
  IN IF size = 0 THEN ZeroHash
     ELSE FoldRight(HashInternal, Front(frontier), Last(frontier))

RootAtSize(tree, size) ==
  IF size = 0 \/ size > Len(tree.entries) THEN ZeroHash
  ELSE SubtreeRoot(tree.levels, 0, size)

RECURSIVE ConsistencyRec(_, _, _, _)
ConsistencyRec(levels, start, old_size, new_size) ==
  LET k == LargestPow2StrictlyLessThan(new_size)
  IN IF old_size = new_size THEN <<>>
     ELSE IF old_size <= k
     THEN Append(ConsistencyRec(levels, start, old_size, k),
                 SubtreeRoot(levels, start + k, new_size - k))
     ELSE <<SubtreeRoot(levels, start, k)>> \o
          ConsistencyRec(levels, start + k, old_size - k, new_size - k)

(* consistency_proof for an old size that is not out of range. *)
ConsistencyProof(tree, old_size) ==
  IF old_size = 0 THEN <<>>
  ELSE ConsistencyRec(tree.levels, 0, old_size, Len(tree.entries))

(* MerkleTree::verify_consistency recomputes both roots. *)
VerifyConsistency(tree, old_root, new_root, old_size, new_size) ==
  \/ old_size = 0
  \/ /\ new_size = Len(tree.entries)
     /\ old_size <= new_size
     /\ RootAtSize(tree, old_size) = old_root
     /\ tree.cached_root = new_root

-----------------------------------------------------------------------------
(* The reference: the Merkle tree hash of RFC 6962, section 2.1. *)
RECURSIVE MerkleTreeHash(_)
MerkleTreeHash(entries) ==
  LET n == Len(entries)
      k == LargestPow2StrictlyLessThan(n)
  IN IF n = 0 THEN ZeroHash
     ELSE IF n = 1 THEN HashLeaf(entries[1])
     ELSE HashInternal(MerkleTreeHash(SubSeq(entries, 1, k)),
                       MerkleTreeHash(SubSeq(entries, k + 1, n)))
================================================================================
