------------------------------ MODULE LogAudit ------------------------------
(***************************************************************************)
(* Auditing a log against its own store: verify_audit_payload replays the  *)
(* log's data under the timeline of a payload published earlier, and       *)
(* verify_non_divergence (from genesis) replays it under the log's own and *)
(* compares every stored digest on the way.  Both are exercised on honest  *)
(* logs and on a store in which one digest was damaged or lost.            *)
(***************************************************************************)
EXTENDS LogProofs

VARIABLES
  audit,        \* a payload the log published, or NoAudit
  damaged       \* coordinates <<a, left, height>> of the damaged digests, at most one

auditVars == <<vars, audit, damaged>>

NoAudit == [size |-> 0]

-----------------------------------------------------------------------------
(* Replaying *)

Fresh == [peaks |-> <<>>, at |-> <<>>, made |-> <<>>]

\* Positions before the algorithm's first activity are skipped, so that its
\* merges follow its own index instead of the log's.
ReplayFromActivation(a, base, size, start, cells) ==
  LET own == SelectSeq(cells, LAMBDA c : c # Null(a))
      after[n \in 0..Len(own)] ==
        IF n = 0 THEN base
        ELSE LET s == after[n - 1]
                 c == Push(a, s.peaks, s.at, start + n - 1, size + n - 1, own[n])
             IN  [c EXCEPT !.made = Over(@, s.made)]
  IN  after[Len(own)]

\* The peaks after pushing the cells of the positions from `start` on, one by
\* one, onto those of a tree of that size, and every digest made.
Replay(a, base, size, start, cells) ==
  LET after[n \in 0..Len(cells)] ==
        IF n = 0 THEN base
        ELSE LET s == after[n - 1]
                 c == Push(a, s.peaks, s.at, start + n - 1, size + n - 1, cells[n])
             IN  [c EXCEPT !.made = Over(@, s.made)]
  IN  after[Len(cells)]

StoredDigest(a, left, height) ==
  IF <<a, left, height>> \in DOMAIN nodes THEN nodes[<<a, left, height>>] ELSE Corrupted

-----------------------------------------------------------------------------
(* verify_audit_payload *)

\* The payload's cell digests of one algorithm: activity from the payload's
\* timeline, data from the store.
AuditCells(p, a) ==
  [i \in 1..p.size |->
     IF ~IsActiveAt(p.epochs[a], i - 1) THEN Null(a)
     ELSE IF kind = "flat" THEN Evaluate(a, leaves[i])
     ELSE IF StoredDigest(a, i - 1, 0) # Corrupted THEN StoredDigest(a, i - 1, 0)
     ELSE Null(a)]

\* A stored leaf digest is taken as it is.
CellUnchecked(p, a, i) ==
  \/ StoredDigest(a, i - 1, 0) # Corrupted
  \/ kind = "subtree" /\ IsActiveAt(p.epochs[a], i - 1) => a \notin p.active

\* A stored leaf digest may not contradict its cell; only the leaf digests of
\* a subtree log's algorithms active at the end must exist.
CellAccepted(p, a, i) ==
  \/ StoredDigest(a, i - 1, 0) = AuditCells(p, a)[i]
  \/ /\ StoredDigest(a, i - 1, 0) = Corrupted
     /\ kind = "subtree" /\ IsActiveAt(p.epochs[a], i - 1) => a \notin p.active

\* TRUE is the verdict Ok(true); Ok(false) and errors are FALSE.
VerifyAuditPayload(p) ==
  LET listed == {a \in Algs : p.epochs[a] # <<>>}
      members == [a \in p.active |-> BagPeaks(a, Replay(a, Fresh, 0, 0, AuditCells(p, a)).peaks)]
  IN  /\ p.size \in 1..count
      /\ listed = {a \in Algs : EpochsAt(epochs[a], p.size) # <<>>}
      /\ \A a \in listed : ValidEpochs(p.epochs[a], p.size)
      /\ p.active = CommittedActiveAlgs(p.epochs, p.size)
      /\ DOMAIN p.roots = p.active
      /\ \A a \in listed : \A i \in 1..p.size : CellAccepted(p, a, i)
      /\ \A a \in p.active : p.roots[a] = CombinedRoot(a, members, p.epochs, p.size)

-----------------------------------------------------------------------------
(* verify_non_divergence, from a checkpoint of `start` positions (0 for none) *)
(* with the member roots a client trusts for it.                             *)

\* The cells from `start` up to the log's end or to where the algorithm was
\* frozen.
ReplayedCells(a, start) ==
  LET cell(i) == IF ~IsActiveAt(epochs[a], i) THEN Null(a)
                 ELSE IF kind = "flat" THEN Evaluate(a, leaves[i + 1])
                 ELSE GetNodeHash(a, epochs[a], i, 0)
  IN  [n \in 1..Max({start, TreeSize(epochs[a], count)}) - start |-> cell(start + n - 1)]

\* The tree at the checkpoint, if it had any position by then, is consistent
\* with the present one.
CheckpointConsistent(a, start, trusted) ==
  LET first == FirstActivation(epochs[a])
      old == IF start <= first THEN 0 ELSE EffectiveSizeAt(epochs[a], start)
      new == EffectiveSizeAt(epochs[a], count)
      oldRoot == IF old = 0 THEN Empty(a) ELSE trusted[a]
      newRoot == RootForAt(a, count)
  IN  start < count /\ first < count =>
        /\ old > 0 => a \in DOMAIN trusted
        /\ newRoot # Corrupted
        /\ 0 < old /\ old < new =>
             LET proof == ConsistencyProof(a, old, new)
             IN  /\ proof # NoProof
                 /\ ReconstructConsistencyRoots(a, old, new, proof) = [old |-> oldRoot, new |-> newRoot]
        /\ old = new => oldRoot = newRoot

\* Only the final roots are compared, not the stored digests on the way.
NotDivergedRootsOnly(a, start, trusted) ==
  LET size == EffectiveSizeAt(epochs[a], start)
      base == [Fresh EXCEPT !.peaks = FrontierPeaks(a, epochs[a], size), !.at = FrontierForSize(size)]
      replay == Replay(a, base, size, start, ReplayedCells(a, start))
  IN  BagPeaks(a, replay.peaks) = RootForAt(a, count)

\* The stored peaks of the checkpoint fold to the trusted root, and replaying
\* from them gives the stored digests and the present root.
NotDiverged(a, start, trusted) ==
  LET size == EffectiveSizeAt(epochs[a], start)
      base == [Fresh EXCEPT !.peaks = FrontierPeaks(a, epochs[a], size), !.at = FrontierForSize(size)]
      expected == IF a \in DOMAIN trusted THEN trusted[a]
                  ELSE IF size = 0 THEN Empty(a) ELSE Null(a)
      replay == Replay(a, base, size, start, ReplayedCells(a, start))
      stored(c) == GetNodeHash(a, epochs[a], c[2], c[3])
      frozen == TreeSize(epochs[a], count)
  IN  /\ ~IsActive(epochs[a]) /\ frozen < count => <<a, frozen, 0>> \notin DOMAIN nodes
      /\ Corrupted \notin ToSet(base.peaks)
      /\ start > 0 => /\ a \in DOMAIN trusted \/ size = 0 \/ start <= FirstActivation(epochs[a])
                      /\ BagPeaks(a, base.peaks) = expected
      /\ \A c \in DOMAIN replay.made :
           /\ stored(c) # Corrupted
           /\ replay.made[c] = stored(c)
      /\ BagPeaks(a, replay.peaks) = RootForAt(a, count)

\* TRUE is the verdict Ok(true) again.
VerifyNonDivergence(start, trusted) ==
  /\ start <= count
  /\ \A a \in Algs : Registered(a) =>
       /\ start > 0 => CheckpointConsistent(a, start, trusted)
       /\ NotDiverged(a, start, trusted)

-----------------------------------------------------------------------------

AuditInit == Init /\ audit = NoAudit /\ damaged = {}

\* audit_payload; refused on an empty log and when nothing was active last.  The
\* client also notes the member roots (root_for_at), to check from here on later.
TakeAudit ==
  /\ damaged = {}
  /\ ActiveAlgsAt(count) # {}
  /\ audit' = [size   |-> count,
               active |-> ActiveAlgsAt(count),
               epochs |-> CommittedEpochsAt(count),
               roots  |-> [a \in ActiveAlgsAt(count) |-> CombinedRootAt(a, count)],
               members |-> [a \in {b \in Algs : Registered(b)} |-> RootForAt(a, count)]]
  /\ UNCHANGED <<vars, damaged>>

\* Outside the program: the backend returns another digest, or none, for one
\* coordinate.
Damage(c) ==
  /\ damaged = {}
  /\ damaged' = {c}
  /\ \/ nodes' = [nodes EXCEPT ![c] = <<"damaged", c[1]>>]
     \/ nodes' = Restrict(nodes, DOMAIN nodes \ {c})
  /\ UNCHANGED <<handle, storedCount, leaves, metas, observers, audit>>

AuditNext ==
  \/ damaged = {} /\ Next /\ UNCHANGED <<audit, damaged>>
  \/ TakeAudit
  \/ \E c \in DOMAIN nodes : Damage(c)

AuditSpec == AuditInit /\ [][AuditNext]_auditVars

-----------------------------------------------------------------------------

\* A payload the log published is accepted by the log ever after, whatever was
\* appended, frozen, resumed or restarted since, unless an algorithm was
\* registered at the very size it was published for.
PublishedAuditAccepted ==
  damaged = {} /\ audit # NoAudit
  /\ {a \in Algs : EpochsAt(epochs[a], audit.size) # <<>>} = {a \in Algs : audit.epochs[a] # <<>>}
  => VerifyAuditPayload(audit)

\* A damaged or lost leaf digest of an algorithm active at the payload's end
\* makes the replay of that payload fail; a flat log only notices damage, its
\* leaf digests being a cache.
AuditNoticesDamagedCell ==
  audit # NoAudit =>
    \A c \in damaged : c[3] = 0 /\ c[2] < audit.size /\ c[1] \in audit.active
                       /\ (kind = "subtree" \/ c \in DOMAIN nodes)
      => ~VerifyAuditPayload(audit)

\* The algorithms whose own tree is as large as the log's root for them says.
Settled(a) == EffectiveSizeAt(epochs[a], count) = TreeSize(epochs[a], count)

\* The algorithms in no gap at a checkpoint: active at its last position, or
\* frozen for good before it.
Unbroken(a, size) ==
  EffectiveSizeAt(epochs[a], size) \in {size, TreeSize(epochs[a], count)}

\* An honest log verifies against its own store after any operations, as long
\* as no algorithm is between two intervals or in an empty one: from genesis, and
\* from any checkpoint with no algorithm between two intervals either.
SettledLogVerifies ==
  damaged = {} /\ (\A a \in Algs : Registered(a) => Settled(a)) =>
    /\ VerifyNonDivergence(0, <<>>)
    /\ audit # NoAudit /\ (\A a \in Algs : Registered(a) => Unbroken(a, audit.size))
         => VerifyNonDivergence(audit.size, audit.members)

\* The same without the exception.
HonestLogVerifies == damaged = {} => VerifyNonDivergence(0, <<>>)

\* In a flat log no stored digest can be damaged or lost unnoticed from genesis;
\* from a checkpoint its algorithm did not miss, none that covers later positions
\* or is a peak there.
FlatDamageNoticed ==
  kind = "flat" => \A c \in damaged :
    /\ ~VerifyNonDivergence(0, <<>>)
    /\ audit # NoAudit /\ Unbroken(c[1], audit.size)
       /\ (\/ c[2] + BlockSize(c[3]) > audit.size
           \/ <<c[2], c[3]>> \in ToSet(FrontierForSize(EffectiveSizeAt(epochs[c[1]], audit.size))))
       => ~VerifyNonDivergence(audit.size, audit.members)
=============================================================================
