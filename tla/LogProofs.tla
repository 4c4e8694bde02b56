----------------------------- MODULE LogProofs ------------------------------
(***************************************************************************)
(* Inclusion and consistency proofs of one algorithm's tree: the producer  *)
(* reads the store as it is now, for a size the log had at any time; the   *)
(* verifier has the sizes, the roots and the proof, and derives from the   *)
(* sizes alone which shape the proof must have.                            *)
(***************************************************************************)
EXTENDS PolydigestLog, InclusionPaths

NoProof == [refused |-> TRUE, path |-> <<>>]
NoRoots == [old |-> NoRoot, new |-> NoRoot]

-----------------------------------------------------------------------------
(* Paths *)

\* The peak whose mountain covers position i.
MountainOf(i, at) == CHOOSE f \in DOMAIN at : at[f][1] <= i /\ i < at[f][1] + BlockSize(at[f][2])

\* The steps from the peak down.
ClimbDownwards(a, left, height, i, from) ==
  [n \in 1..height - from |->
     LET h == height - n + 1
         block == left + ((i - left) \div BlockSize(h)) * BlockSize(h)
         child(j) == block + (j - 1) * BlockSize(h - 1)
     IN  StepFrom((i - block) \div BlockSize(h - 1) + 1,
                  [j \in 1..Arity |-> GetNodeHash(a, epochs[a], child(j), h - 1)])]

\* The steps from the node of height `from` that starts at position i up to the
\* peak <<left, height>> above it.
Climb(a, left, height, i, from) ==
  [n \in 1..height - from |->
     LET h == from + n
         block == left + ((i - left) \div BlockSize(h)) * BlockSize(h)
         child(j) == block + (j - 1) * BlockSize(h - 1)
     IN  StepFrom((i - block) \div BlockSize(h - 1) + 1,
                  [j \in 1..Arity |-> GetNodeHash(a, epochs[a], child(j), h - 1)])]

\* The steps from peak f up to the root.
BagPath(a, peaks, f) == TreePath(BagTree(a, peaks), f, Len(peaks))

\* The shapes of the steps from position i to the root in a log of that size:
\* the digits of its offset in its mountain, then the bagging.
MountainSkeleton(size, i) ==
  LET at == FrontierForSize(size)
      f == MountainOf(i, at)
      bag == BagPath(Genesis, at, f)
  IN  [n \in 1..at[f][2] |->
         [position |-> ((i - at[f][1]) \div BlockSize(n - 1)) % Arity, siblings |-> Arity - 1]]
        \o [n \in DOMAIN bag |-> Shape(bag[n])]

\* The step below the leaf: from one payload of a structured item.
WithinSubtreePath(a, item, j) ==
  IF Len(item) = 1 THEN <<>>
  ELSE <<StepFrom(j, [m \in 1..Len(item) |-> LeafHash(a, item[m])])>>

-----------------------------------------------------------------------------
(* Producers *)

Unreadable(path) == \E n \in DOMAIN path : Corrupted \in ToSet(path[n].siblings)

InclusionProof(a, i, size) ==
  LET at == FrontierForSize(size)
      f == MountainOf(i, at)
      peaks == FrontierPeaks(a, epochs[a], size)
      path == Climb(a, at[f][1], at[f][2], i, 0) \o BagPath(a, peaks, f)
  IN  IF i >= size \/ size > TreeSize(epochs[a], count) THEN NoProof
      ELSE IF Corrupted \in ToSet(peaks) \/ Unreadable(path) THEN NoProof
      ELSE [path |-> path]

\* From the smallest peak of the old log into the mountain of the new one that
\* absorbed it.
ConsistencyProof(a, old, new) ==
  LET boundary == Last(FrontierForSize(old))
      at == FrontierForSize(new)
      f == MountainOf(boundary[1], at)
      start == GetNodeHash(a, epochs[a], boundary[1], boundary[2])
      path == Climb(a, at[f][1], at[f][2], boundary[1], boundary[2])
      peaks == FrontierPeaks(a, epochs[a], new)
  IN  IF old = 0 \/ old >= new \/ new > TreeSize(epochs[a], count) THEN NoProof
      ELSE IF at[f][2] < boundary[2] \/ Corrupted \in {start} \cup ToSet(peaks) \/ Unreadable(path)
           THEN NoProof
      ELSE [boundary |-> start, path |-> path, peaks |-> peaks, split |-> f]

-----------------------------------------------------------------------------
(* Verifiers *)

\* The merged peaks are gathered in the order of the path.
MergedPeaksUpwards(path) ==
  FlattenSeq([n \in DOMAIN path |-> SubSeq(path[n].siblings, 1, path[n].position)])

\* The old peaks that merged with the boundary: the siblings to the left, from
\* the tallest down.
MergedPeaks(path) ==
  FlattenSeq(Reverse([n \in DOMAIN path |-> SubSeq(path[n].siblings, 1, path[n].position)]))

\* The old and the new root a consistency proof leads to.
ReconstructConsistencyRoots(a, old, new, proof) ==
  LET boundary == Last(FrontierForSize(old))
      at == FrontierForSize(new)
      mountain == at[proof.split]
      climb == SubSeq(MountainSkeleton(new, boundary[1]), boundary[2] + 1, mountain[2])
      wellFormed ==
        /\ old # 0 /\ old < new
        /\ Len(proof.peaks) = Len(at) /\ proof.split \in DOMAIN at
        /\ mountain[1] <= boundary[1] /\ boundary[1] < mountain[1] + BlockSize(mountain[2])
        /\ boundary[2] <= mountain[2]
        /\ Len(proof.path) = Len(climb)
        /\ ReconstructInclusionRoot(a, proof.boundary, climb, proof.path) = proof.peaks[proof.split]
  IN  IF ~wellFormed THEN NoRoots
      ELSE [old |-> BagPeaks(a, SubSeq(proof.peaks, 1, proof.split - 1)
                                  \o MergedPeaks(proof.path) \o <<proof.boundary>>),
            new |-> BagPeaks(a, proof.peaks)]

-----------------------------------------------------------------------------

\* The member root a from-scratch build of the first `size` positions has.
ReferenceRoot(a, size) ==
  LET at == FrontierForSize(size)
  IN  BagPeaks(a, [f \in DOMAIN at |-> ReferenceNode(a, at[f][1], at[f][2])])

\* However the log went on since, every position has a proof in every size its
\* algorithm has had, from each payload of its item (from null where the
\* algorithm was not active), to the root of that size; and that is the root
\* root_for_at reports, if the algorithm was active then.
InclusionProofsVerify ==
  \A a \in Algs : \A size \in 1..TreeSize(epochs[a], count) :
    LET root == ReferenceRoot(a, size)
    IN  /\ a \in ActiveAlgsAt(size) => RootForAt(a, size) = root
        /\ \A i \in 0..size - 1 :
             LET proof == InclusionProof(a, i, size)
                 skeleton == MountainSkeleton(size, i)
                 item == IF IsActiveAt(epochs[a], i) THEN history[i + 1] ELSE <<NullPayload>>
             IN  /\ proof # NoProof
                 /\ \A j \in DOMAIN item :
                      root = ReconstructInclusionRoot(a, LeafHash(a, item[j]), skeleton,
                               WithinSubtreePath(a, item, j) \o proof.path)

\* Any two sizes have a consistency proof that leads to the roots of both,
\* across gaps and collapsed blocks.
ConsistencyProofsVerify ==
  \A a \in Algs :
    LET roots == [size \in 1..TreeSize(epochs[a], count) |-> ReferenceRoot(a, size)]
    IN  \A new \in DOMAIN roots : \A old \in 1..new - 1 :
          LET proof == ConsistencyProof(a, old, new)
          IN  /\ proof # NoProof
              /\ ReconstructConsistencyRoots(a, old, new, proof)
                   = [old |-> roots[old], new |-> roots[new]]

\* A witness is durable: the part of a proof below the peak is, unchanged, the
\* beginning of the proof for the next size (hence for every later one), so only
\* what is above it has to be renewed.
WitnessesDurable ==
  \A a \in Algs : \A size \in 1..TreeSize(epochs[a], count) - 1 : \A i \in 0..size - 1 :
    LET at == FrontierForSize(size)
        height == at[MountainOf(i, at)][2]
    IN  SubSeq(InclusionProof(a, i, size).path, 1, height)
          = SubSeq(InclusionProof(a, i, size + 1).path, 1, height)
=============================================================================
