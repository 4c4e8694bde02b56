----------------------------- MODULE SealedLog ------------------------------
(***************************************************************************)
(* Sealing a log and resuming it in a fresh store.  A seal keeps, of the   *)
(* whole store, the peaks of the algorithms active at its size and the     *)
(* committed timeline.  The resumed log starts from those peaks: it cannot *)
(* read what is below them, and appends, freezes and resumptions go on.    *)
(*                                                                         *)
(* seal consumes the log and resume is one atomic Storage::apply, so the   *)
(* two are one step here: a crash in between leaves the seal, from which   *)
(* resume can be called again.  `history` keeps the items of both logs, so *)
(* the reference of PolydigestLog is that of a log that was never sealed.  *)
(***************************************************************************)
EXTENDS LogProofs, Sealed

VARIABLE sealed       \* the seal the log was resumed from, or NoSeal

sealVars == <<vars, sealed>>

NoSeal == [size |-> 0, frontiers |-> <<>>, epochs |-> <<>>]

\* The algorithms a seal keeps: those whose committed intervals cover the
\* position after the last.
SealedAlgs(timeline, size) == {a \in DOMAIN timeline : size > 0 /\ IsActiveAt(timeline[a], size)}

\* The peaks of the smaller subtrees come first.
SealedPeaksReversed(a, size) == Reverse(FrontierPeaks(a, epochs[a], size))

\* The peaks a seal keeps of one algorithm, tallest first.
SealedPeaks(a, size) == FrontierPeaks(a, epochs[a], size)

\* The seal of the log as it is.
SealOfLog ==
  [size |-> count,
   frontiers |-> [a \in SealedAlgs(CommittedEpochsAt(count), count) |-> SealedPeaks(a, count)],
   epochs |-> IF count = 0 THEN <<>> ELSE CommittedEpochsAt(count)]

Sealable(seal) ==
  \A a \in DOMAIN seal.frontiers : Corrupted \notin ToSet(seal.frontiers[a])

\* The peaks by coordinate, as far as the algorithm was active all over them.
SeededNodesWhole(frontiers, timeline, at) ==
  LET stored == {s \in (DOMAIN frontiers) \X (DOMAIN at) :
                   FullyActive(timeline[s[1]], at[s[2]][1], at[s[2]][1] + BlockSize(at[s[2]][2]))}
  IN  [c \in {<<s[1], at[s[2]][1], at[s[2]][2]>> : s \in stored} |->
         frontiers[c[1]][CHOOSE i \in DOMAIN at : at[i] = <<c[2], c[3]>>]]

\* What resume stores: the peaks with an active position below them, by
\* coordinate.
SeededNodes(frontiers, timeline, at) ==
  LET stored == {s \in (DOMAIN frontiers) \X (DOMAIN at) :
                   ActiveRange(timeline[s[1]], at[s[2]][1], at[s[2]][1] + BlockSize(at[s[2]][2]))}
  IN  [c \in {<<s[1], at[s[2]][1], at[s[2]][2]>> : s \in stored} |->
         frontiers[c[1]][CHOOSE i \in DOMAIN at : at[i] = <<c[2], c[3]>>]]

-----------------------------------------------------------------------------

SealInit == Init /\ sealed = NoSeal

\* Every kept algorithm restarts with one open interval from the genesis.
SealAndResumeRestarting ==
  LET seal == SealOfLog
      at == FrontierForSize(count)
      kept == DOMAIN seal.frontiers
  IN  /\ sealed = NoSeal
      /\ Sealable(seal)
      /\ sealed' = seal
      /\ kind' = "subtree"
      /\ epochs' = [a \in Algs |-> IF a \in kept THEN <<<<0, Open>>>> ELSE <<>>]
      /\ coords' = [a \in Algs |-> IF a \in kept THEN at ELSE <<>>]
      /\ frontier' = [a \in Algs |-> IF a \in kept THEN seal.frontiers[a] ELSE <<>>]
      /\ leaves' = <<>>
      /\ metas' = epochs'
      /\ nodes' = SeededNodes(seal.frontiers, seal.epochs, at)
      /\ UNCHANGED <<count, storedCount, observers>>

\* seal, then resume into a fresh store.  Bound: once.
SealAndResume ==
  LET seal == SealOfLog
      at == FrontierForSize(count)
      kept == DOMAIN seal.frontiers
  IN  /\ sealed = NoSeal
      /\ Sealable(seal)
      /\ sealed' = seal
      /\ kind' = "subtree"
      /\ epochs' = [a \in Algs |-> IF a \in kept THEN seal.epochs[a] ELSE <<>>]
      /\ coords' = [a \in Algs |-> IF a \in kept THEN at ELSE <<>>]
      /\ frontier' = [a \in Algs |-> IF a \in kept THEN seal.frontiers[a] ELSE <<>>]
      /\ leaves' = <<>>
      /\ metas' = epochs'
      /\ nodes' = SeededNodes(seal.frontiers, seal.epochs, at)
      /\ UNCHANGED <<count, storedCount, observers>>

SealNext == SealAndResume \/ (Next /\ UNCHANGED sealed)

SealSpec == SealInit /\ [][SealNext]_sealVars

-----------------------------------------------------------------------------

\* The algorithm came through the seal and was not frozen and resumed since.
Uninterrupted(a) ==
  a \in DOMAIN sealed.frontiers /\ Len(epochs[a]) = Len(sealed.epochs[a])

\* The algorithm was registered since the seal.
RegisteredSince(a) == Registered(a) /\ epochs[a][1][1] >= sealed.size

\* Sealing and resuming is invisible to an algorithm that stays active or is
\* frozen for good: its frontier goes on as that of the log never sealed.  For
\* an algorithm registered afterwards the sealed past is null.
SealInvisible ==
  \A a \in Algs : Uninterrupted(a) \/ RegisteredSince(a) =>
    /\ coords[a] = FrontierForSize(TreeSize(epochs[a], count))
    /\ frontier[a] = [i \in DOMAIN coords[a] |->
                        ReferenceNode(a, coords[a][i][1], coords[a][i][2])]

\* An algorithm the seal kept has the frontier it would have had without the
\* seal, also after it was frozen and resumed since.
ResumptionReplays ==
  \A a \in DOMAIN sealed.frontiers :
    frontier[a] = [i \in DOMAIN coords[a] |->
                     ReferenceNode(a, coords[a][i][1], coords[a][i][2])]

\* A consistency proof bridges the seal: from the sealed size, or any later one,
\* to any size of the resumed log, to the roots of the log never sealed.
ConsistencyBridgesResume ==
  \A a \in Algs : Uninterrupted(a) =>
    LET last == TreeSize(epochs[a], count)
        roots == [size \in sealed.size..last |-> ReferenceRoot(a, size)]
    IN  \A new \in DOMAIN roots : \A old \in sealed.size..new - 1 :
          LET proof == ConsistencyProof(a, old, new)
          IN  /\ proof # NoProof
              /\ ReconstructConsistencyRoots(a, old, new, proof)
                   = [old |-> roots[old], new |-> roots[new]]

\* Until something changes, the resumed log's live combined roots are the
\* binding roots of its seal, as long as the seal kept every algorithm of the
\* timeline (all active) and each covers the last position.
BindingRootReproduced ==
  LET kept == DOMAIN sealed.frontiers
      untouched == /\ count = sealed.size
                   /\ \A b \in Algs : /\ Len(epochs[b]) = Len(sealed.epochs[b])
                                      /\ Registered(b) => IsActive(epochs[b])
                   /\ \A b \in Algs : Registered(b) => b \in kept
                   /\ kept = CommittedActiveAlgs(sealed.epochs, sealed.size)
  IN  \A a \in kept : untouched => LiveCombinedRoot(a) = BindingRoot(sealed, a)
=============================================================================
