----------------------------- MODULE SealProofs -----------------------------
(***************************************************************************)
(* What can be verified against a seal.  A binding proof shows that the    *)
(* trusted binding roots of several algorithms are of the same member      *)
(* roots and timeline; a snapshot proof adds leaves that lead to those     *)
(* member roots; fill rebuilds one algorithm's tree from the items and     *)
(* compares the root.  All of them have nothing but the seal and what the  *)
(* caller supplies, never the log's store.                                 *)
(***************************************************************************)
EXTENDS SealedLog

-----------------------------------------------------------------------------
(* Binding and snapshot proofs *)

\* The leaf is hashed from the item, whether the algorithm was active or not.
LeafProofOfItem(a, i, size) ==
  LET proof == InclusionProof(a, i, size)
  IN  IF proof = NoProof THEN NoProof
      ELSE [alg |-> a, index |-> i, size |-> size, digest |-> Evaluate(a, history[i + 1]),
            path |-> proof.path]

\* The digest at a position with its path to the root of a size.
LeafProof(a, i, size) ==
  LET proof == InclusionProof(a, i, size)
      digest == GetNodeHash(a, epochs[a], i, 0)
  IN  IF proof = NoProof \/ digest = Corrupted THEN NoProof
      ELSE [alg |-> a, index |-> i, size |-> size, digest |-> digest, path |-> proof.path]

\* `trusted` has a trusted binding root for each algorithm of its domain.
VerifyBinding(seal, trusted) ==
  LET members == MemberRoots(seal)
  IN  /\ DOMAIN trusted # {} /\ DOMAIN trusted \subseteq DOMAIN members
      /\ \A a \in DOMAIN seal.epochs : seal.epochs[a] # <<>> => ValidEpochs(seal.epochs[a], seal.size)
      /\ \A a \in DOMAIN trusted : CombinedRoot(a, members, seal.epochs, seal.size) = trusted[a]

\* The leaf leads to the seal's member root of its algorithm.
ClaimVerified(seal, c) ==
  /\ c.alg \in DOMAIN seal.frontiers
  /\ c.index < c.size
  /\ ReconstructInclusionRoot(c.alg, c.digest, MountainSkeleton(c.size, c.index), c.path)
       = MemberRoots(seal)[c.alg]

\* The binding, the agreement of members and timeline, and every claimed leaf.
VerifySnapshot(seal, trusted, claims) ==
  /\ VerifyBinding(seal, trusted)
  /\ DOMAIN seal.frontiers = CommittedActiveAlgs(seal.epochs, seal.size)
  /\ \A c \in claims : ClaimVerified(seal, c)

-----------------------------------------------------------------------------

\* A seal taken now, of the log or of the resumed log, is verified with the
\* combined roots the log showed before, and with it every leaf the log can
\* still prove, but no leaf in the place of its neighbour; as long as the seal keeps
\* just the algorithms active at the last position.
SnapshotProofsVerify ==
  LET seal == SealOfLog
      trusted == [a \in DOMAIN seal.frontiers |-> LiveCombinedRoot(a)]
      claims == {LeafProof(p[1], p[2], count) : p \in (DOMAIN trusted) \X (0..count - 1)}
                  \ {NoProof}
  IN  DOMAIN trusted # {} /\ DOMAIN trusted = ActiveAlgsAt(count) /\ Sealable(seal) =>
        /\ VerifySnapshot(seal, trusted, claims)
        /\ \A c, d \in claims : d.alg = c.alg /\ d.index = (c.index + 1) % count =>
             (ClaimVerified(seal, [c EXCEPT !.digest = d.digest]) <=> c.digest = d.digest)

\* Filling a seal taken now with the items appended, before and after an earlier
\* seal, succeeds for exactly the algorithms active at every position, and
\* then fails with the first or the last item exchanged.
FillAcceptsTheItems ==
  LET seal == SealOfLog
      data == [i \in 1..count |-> history[i][1]]
  IN  Sealable(seal) /\ (\A i \in 1..count : Len(history[i]) = 1) =>
        \A a \in DOMAIN seal.frontiers :
          sealed = NoSeal \/ Uninterrupted(a) \/ RegisteredSince(a) =>
            IF \A i \in 0..count - 1 : IsActiveAt(epochs[a], i)
            THEN /\ Fills(seal, a, data)
                 /\ \A i \in {1, count} : ~Fills(seal, a, [data EXCEPT ![i] = "another"])
            ELSE ~Fills(seal, a, data)
=============================================================================
