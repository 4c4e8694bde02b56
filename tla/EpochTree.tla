------------------------------ MODULE EpochTree ------------------------------
(***************************************************************************)
(* The epoch tree: the mutable tree with a combined root over the member   *)
(* roots of its algorithms.  Every one of them is shown as active from     *)
(* genesis on, one that was added to a single cell or to cells that were   *)
(* there before it as well.                                                *)
(***************************************************************************)
EXTENDS MutableTree, Sealed

OpenTimeline(ids) == [a \in ids |-> <<<<0, Open>>>>]

\* The combined root of the live tree; an empty tree has none.
TreeCombinedRoot(a) ==
  IF Size = 0 THEN NoRoot ELSE CombinedRoot(a, root, OpenTimeline(Registered), Size)

\* The structural seal with the timeline.
EpochSeal == [size |-> sealed.size, frontiers |-> sealed.frontiers,
              epochs |-> OpenTimeline(DOMAIN sealed.frontiers)]

-----------------------------------------------------------------------------

\* The cells an algorithm has not hashed, unless they hash to what stands there.
Unhashed(a) == {i \in 0..Size - 1 \ hashed[a] : LeafHash(a, cells[i + 1]) # Null(a)}

\* The peaks fold to the member roots, and the binding roots are the combined roots
\* the tree last showed.
SealFoldsToRoots ==
  sealed # NoSeal =>
    /\ MemberRoots(EpochSeal) = root
    /\ \A a \in DOMAIN sealed.frontiers : BindingRoot(EpochSeal, a) = TreeCombinedRoot(a)

\* The cells fill a seal for exactly the algorithms that hashed them all.
SealFilledByCells ==
  sealed # NoSeal =>
    \A a \in DOMAIN sealed.frontiers : Fills(EpochSeal, a, cells) <=> Unhashed(a) = {}

\* A seal stands for the tree it was made of, whatever was overwritten and
\* however its algorithms came in.
SealKeepsRoots == SealFoldsToRoots /\ SealFilledByCells
=============================================================================
