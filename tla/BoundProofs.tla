---------------------------- MODULE BoundProofs -----------------------------
(***************************************************************************)
(* Proofs against a combined root instead of a member root.  A coupling    *)
(* proof opens a combined root to the member roots and the committed       *)
(* timeline; once it is authenticated, the member root of an algorithm     *)
(* takes an inclusion proof, and the timeline decides whether an algorithm *)
(* was active at a position at all.  The verifier's trusted inputs are the *)
(* combined roots the log showed while it had the size in question.        *)
(*                                                                         *)
(* Left out: the limits of VerifierConfig on the length of a proof, which  *)
(* are the verifier's policy, and the order of its entries, which are      *)
(* functions here.                                                         *)
(***************************************************************************)
EXTENDS LogProofs

NoCoupling == [roots |-> <<>>, epochs |-> <<>>]

-----------------------------------------------------------------------------
(* coupling_proof_at *)

\* The timeline of now goes with the roots of then.
CouplingProofAtNow(size) ==
  LET roots == [a \in ActiveAlgsAt(size) |-> RootForAt(a, size)]
  IN  IF DOMAIN roots = {} \/ \E a \in DOMAIN roots : roots[a] = Corrupted THEN NoCoupling
      ELSE [roots |-> roots, epochs |-> CommittedEpochsAt(count)]

\* The member roots and the committed timeline of a size.
CouplingProofAt(size) ==
  LET roots == [a \in ActiveAlgsAt(size) |-> RootForAt(a, size)]
  IN  IF DOMAIN roots = {} \/ \E a \in DOMAIN roots : roots[a] = Corrupted THEN NoCoupling
      ELSE [roots |-> roots, epochs |-> CommittedEpochsAt(size)]

-----------------------------------------------------------------------------
(* Verifiers *)

Listed(timeline) == {a \in DOMAIN timeline : timeline[a] # <<>>}

\* A timeline that can be one of a log of that size.
ValidCommittedEpochs(timeline, size) == \A a \in Listed(timeline) : ValidEpochs(timeline[a], size)

\* The proof opens `root`, a combined root under a's hash of a log of that size
\* in which the algorithms of `active` were active.
Authenticated(a, proof, size, root, active) ==
  /\ size > 0
  /\ DOMAIN proof.roots = active
  /\ ValidCommittedEpochs(proof.epochs, size)
  /\ CommittedActiveAlgs(proof.epochs, size) = DOMAIN proof.roots
  /\ CombinedRoot(a, proof.roots, proof.epochs, size) = root

\* Intervals taken as closed at their end.
CommittedActiveAtEnd(timeline, a, i) ==
  \E e \in DOMAIN timeline[a] : timeline[a][e][1] <= i /\ i <= timeline[a][e][2]

CommittedActiveAt(timeline, a, i) ==
  \E e \in DOMAIN timeline[a] : timeline[a][e][1] <= i /\ i < timeline[a][e][2]

\* verify_inclusion_with_coupling: `digest` is a's leaf at position i.
VerifyInclusionWithCoupling(a, digest, i, size, path, proof, root, active) ==
  /\ a \in DOMAIN proof.roots
  /\ Authenticated(a, proof, size, root, active)
  /\ a \in Listed(proof.epochs)
  /\ ~CommittedActiveAt(proof.epochs, a, i) => digest = Null(a)
  /\ ReconstructInclusionRoot(a, digest, MountainSkeleton(size, i), path) = proof.roots[a]

\* verify_inactivity_with_coupling, for a root under h's hash: position i is
\* null for a.  An algorithm without a member root has no path to show.
VerifyInactivityWithCoupling(h, a, i, size, path, proof, root, active) ==
  /\ i < size
  /\ Authenticated(h, proof, size, root, active)
  /\ a \in Listed(proof.epochs) /\ ~CommittedActiveAt(proof.epochs, a, i)
  /\ IF a \in DOMAIN proof.roots
     THEN ReconstructInclusionRoot(h, Null(h), MountainSkeleton(size, i), path) = proof.roots[a]
     ELSE path = <<>>

-----------------------------------------------------------------------------

\* The combined roots a client was last shown for a size.
ShownRoots(size) ==
  IF size < count THEN outgrown[size + 1]
  ELSE [a \in ActiveAlgsAt(count) |-> LiveCombinedRoot(a)]

\* A coupling proof made now for any size opens every combined root shown at
\* that size, and opens none shown at another size unless it is the very proof
\* of that size too (equal items can leave a tree's root as it was).
CouplingOpensShownRoots ==
  \A size \in 1..count :
    LET shown == ShownRoots(size)
        proof == CouplingProofAt(size)
    IN  /\ \A a \in DOMAIN shown : Authenticated(a, proof, size, shown[a], DOMAIN shown)
        /\ \A other \in 1..count \ {size} : \A a \in DOMAIN ShownRoots(other) :
             Authenticated(a, proof, other, ShownRoots(other)[a], DOMAIN ShownRoots(other))
               => proof.roots = CouplingProofAt(other).roots

\* Whatever happened since, for every algorithm the log knew at a size and every
\* position below it exactly one of two claims can be proved to a client that
\* kept the combined roots of that size: that the algorithm was inactive there,
\* or, as long as it has a member root, that the item's digest is its leaf.
ActivityProvable ==
  \A size \in 1..count :
    LET shown == ShownRoots(size)
        proof == CouplingProofAt(size)
        active == DOMAIN shown
    IN  \A a \in Listed(CommittedEpochsAt(size)) : \A i \in 0..size - 1 :
          LET path == IF a \in active THEN InclusionProof(a, i, size).path ELSE <<>>
              was == IsActiveAt(epochs[a], i)
              item == history[i + 1]
          IN  /\ \A h \in IF a \in active THEN {a} ELSE active :
                   VerifyInactivityWithCoupling(h, a, i, size, path, proof, shown[h], active) <=> ~was
              /\ a \in active => \A j \in DOMAIN item :
                   VerifyInclusionWithCoupling(a, LeafHash(a, item[j]), i, size,
                     WithinSubtreePath(a, item, j) \o path, proof, shown[a], active) <=> was
=============================================================================
