------------------------------- MODULE Sealed -------------------------------
(***************************************************************************)
(* What a seal stands for: of a log or a mutable tree it keeps the size,   *)
(* per algorithm the peaks (`frontiers`) and the timeline (`epochs`).  Its *)
(* roots are folded from these, and fill rebuilds one algorithm's tree     *)
(* from the payloads and compares the root.                                *)
(***************************************************************************)
EXTENDS CombinedRoot

\* The member roots a seal's peaks fold to.
MemberRoots(seal) == [b \in DOMAIN seal.frontiers |-> BagPeaks(b, seal.frontiers[b])]

\* The binding roots of a seal: combined roots of its member roots, over its
\* whole timeline.
BindingRoot(seal, a) == CombinedRoot(a, MemberRoots(seal), seal.epochs, seal.size)

-----------------------------------------------------------------------------
(* Filling *)

RunExtents(size) == SelectSeq(FrontierForSize(size), LAMBDA c : c[2] >= 1)

\* The run extents and the single positions left out of them, by position.
CommittedPartition(size) ==
  SortSeq(RunExtents(size) \o SelectSeq(FrontierForSize(size), LAMBDA c : c[2] = 0),
          LAMBDA c, d : c[1] < d[1])

\* The root of a perfect subtree over payloads.
SubtreeRoot(a, data, height) ==
  LET node[h \in 0..height, j \in 1..BlockSize(height)] ==
        IF h = 0 THEN LeafHash(a, data[j])
        ELSE NaryMr(a, [c \in 1..Arity |-> node[h - 1, (j - 1) * Arity + c]])
  IN  node[height, 1]

\* The gapless tree of one algorithm over the data.
RebuiltRoot(seal, a, data) ==
  LET at == CommittedPartition(seal.size)
  IN  BagPeaks(a, [n \in DOMAIN at |->
                     SubtreeRoot(a, SubSeq(data, at[n][1] + 1, at[n][1] + BlockSize(at[n][2])),
                                 at[n][2])])

\* The rebuilt root is not put in the place of the committed one.
RebuiltBindingRootCommitted(seal, a, data) == BindingRoot(seal, a)

\* The binding root with the rebuilt member root among the committed ones.
RebuiltBindingRoot(seal, a, data) ==
  CombinedRoot(a, [MemberRoots(seal) EXCEPT ![a] = RebuiltRoot(seal, a, data)],
               seal.epochs, seal.size)

\* fill returns a tree and no error.
Fills(seal, a, data) ==
  /\ a \in DOMAIN seal.frontiers
  /\ Len(data) = seal.size
  /\ seal.size = FoldLeft(LAMBDA n, c : n + BlockSize(c[2]), 0, CommittedPartition(seal.size))
  /\ RebuiltBindingRoot(seal, a, data) = BindingRoot(seal, a)
=============================================================================
