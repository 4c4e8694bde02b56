--------------------------- MODULE PolydigestLog ---------------------------
(***************************************************************************)
(* NaryMerkleLog: an append-only log with several hash algorithms over one *)
(* shared store.  The store holds the payloads once, and per algorithm its *)
(* intervals and node digests; the handle holds, per algorithm, the        *)
(* intervals again and the frontier, the stack of peak digests the next    *)
(* append merges into.  Everything else (roots at any size, proofs) is     *)
(* read back from the store on demand, so the store and the frontier have  *)
(* to agree after every sequence of operations.                            *)
(*                                                                         *)
(* Each operation is one step.  It writes the store with one atomic        *)
(* Storage::apply and only then replaces the handle's fields, without      *)
(* another suspension point, and `&mut self` excludes every other          *)
(* operation on the handle: an error leaves both as they were, and a crash *)
(* in between is a completed operation followed by a crash.  A crash loses *)
(* the handle; Reopen is what comes after it.                              *)
(***************************************************************************)
EXTENDS CombinedRoot

CONSTANTS
  Algs,         \* algorithm identifiers
  Genesis,      \* the algorithm `new` registers (id 0 in the code)
  MaxCount,     \* the log's capacity (2^47 in the code)
  MaxToggles,   \* bound: how often each algorithm is removed or resumed
  Offer         \* bound: Offer[i + 1], the items a client may append at position i

ASSUME LogAssumption ==
  /\ Genesis \in Algs /\ Algs \subseteq Nat
  /\ MaxCount \in Nat /\ MaxCount < Open
  /\ MaxToggles \in [Algs -> Nat]
  /\ Offer \in [1..MaxCount -> SUBSET Seq(STRING)]

VARIABLES
  count, kind,              \* the handle: positions, and "flat" or "subtree"
  epochs, frontier,         \* the handle, per algorithm: intervals and peak digests
  coords,                   \* the handle, per algorithm: coordinates of those peaks
  storedCount, leaves,      \* the store: append count and payloads (flat logs)
  metas, nodes,             \* the store: intervals, and digests by <<a, left, height>>
  history,                  \* observer: every item appended, whatever the kind
  outgrown                  \* observer: outgrown[n + 1], the last live combined roots at size n

handle == <<count, kind, epochs, frontier, coords>>
store == <<storedCount, leaves, metas, nodes>>
observers == <<history, outgrown>>
vars == <<handle, store, observers>>

Registered(a) == epochs[a] # <<>>
Toggles(a) == 2 * Len(epochs[a]) - (IF IsActive(epochs[a]) THEN 1 ELSE 0)

\* A family of functions as one function: where several are defined they agree.
Merged(family) ==
  [c \in UNION {DOMAIN family[i] : i \in DOMAIN family} |->
     family[CHOOSE i \in DOMAIN family : c \in DOMAIN family[i]][c]]

\* What f says, and g where f says nothing.
Over(f, g) == [c \in DOMAIN f \cup DOMAIN g |-> IF c \in DOMAIN f THEN f[c] ELSE g[c]]

\* One node's digest.
Only(c, digest) == [x \in {c} |-> digest]

-----------------------------------------------------------------------------
(* Reading the store *)

\* The digest at a coordinate, for an algorithm with intervals `eps`: null over
\* a range with no active position, else what is stored; nothing stored there
\* is corruption.
GetNodeHash(a, eps, left, height) ==
  IF ~ActiveRange(eps, left, left + BlockSize(height)) THEN Null(a)
  ELSE IF <<a, left, height>> \in DOMAIN nodes THEN nodes[<<a, left, height>>]
  ELSE Corrupted

\* The peaks of an algorithm's tree at `size`.
FrontierPeaks(a, eps, size) ==
  LET at == FrontierForSize(size)
  IN  [i \in 1..Len(at) |-> GetNodeHash(a, eps, at[i][1], at[i][2])]

\* A root folded from stored peaks, or Corrupted when one could not be read.
RootOfPeaks(a, peaks) ==
  IF \E i \in DOMAIN peaks : peaks[i] = Corrupted THEN Corrupted ELSE BagPeaks(a, peaks)

\* The member root at a past size, read at the log's size instead of the
\* algorithm's own.
RootForAtGlobal(a, size) ==
  RootOfPeaks(a, FrontierPeaks(a, epochs[a], size))

\* The member root of a at a past size, from the store.
RootForAt(a, size) ==
  RootOfPeaks(a, FrontierPeaks(a, epochs[a], EffectiveSizeAt(epochs[a], size)))

\* The member root of a now, from the handle.
RootFor(a) == BagPeaks(a, frontier[a])

CommittedEpochsAt(size) == [a \in Algs |-> EpochsAt(epochs[a], size)]

\* The algorithms active now.
ActiveAlgsAtNow(size) == {a \in Algs : size > 0 /\ IsActive(epochs[a])}

ActiveAlgsAt(size) == {a \in Algs : size > 0 /\ IsActiveAt(epochs[a], size - 1)}

\* The combined root under a's hash at a past size, from the store; refused
\* when a was not active there.
CombinedRootAt(a, size) ==
  IF size = 0 THEN Empty(a)
  ELSE IF a \notin ActiveAlgsAt(size) THEN <<"frozen", a>>
  ELSE LET members == [b \in ActiveAlgsAt(size) |-> RootForAt(b, size)]
       IN  IF \E b \in DOMAIN members : members[b] = Corrupted THEN Corrupted
           ELSE CombinedRoot(a, members, CommittedEpochsAt(size), size)

\* The combined root under a's hash now, from the handle.
LiveCombinedRoot(a) ==
  IF count = 0 THEN Empty(a)
  ELSE CombinedRoot(a, [b \in ActiveAlgsAt(count) |-> RootFor(b)],
                    CommittedEpochsAt(count), count)

-----------------------------------------------------------------------------
(* Writing: the carry of an append and the rebuild of a resumption *)

\* An appended item is a sequence of payloads: one payload is a leaf, several
\* are a structured subtree with a leaf under its root for each.
Evaluate(a, item) == NaryMr(a, [i \in 1..Len(item) |-> LeafHash(a, item[i])])

\* What `digest` at position i makes of the peaks of n items and of their
\* coordinates: merged from the right, as often as the schedule says.  `made`
\* are the digest itself and the parents that came of it, by coordinate.
Push(a, peaks, at, i, n, digest) ==
  LET after[m \in Nat] ==
        IF m = 0 THEN [peaks |-> Append(peaks, digest),
                       at    |-> Append(at, <<i, 0>>),
                       made  |-> Only(<<a, i, 0>>, digest)]
        ELSE LET s == after[m - 1]
                 first == Len(s.peaks) - Arity + 1
                 parent == NaryMr(a, SubSeq(s.peaks, first, Len(s.peaks)))
                 left == s.at[first][1]
                 height == s.at[first][2] + 1
             IN  [peaks |-> Append(SubSeq(s.peaks, 1, first - 1), parent),
                  at    |-> Append(SubSeq(s.at, 1, first - 1), <<left, height>>),
                  made  |-> Over(Only(<<a, left, height>>, parent), s.made)]
  IN  after[ReductionCount(n)]

\* Appending the item of position i.
Carry(a, peaks, at, i, digest) == Push(a, peaks, at, i, i, digest)

\* What an append stores of the digests it made: a parent equal to the null
\* constant is not stored.
Persisted(made) == Restrict(made, {c \in DOMAIN made : c[3] = 0 \/ made[c] # Null(c[1])})

\* The payloads a flat log received while the algorithm was frozen are not
\* told from the others.
RebuildLeafAlways(a, eps, i) ==
  IF kind = "flat" THEN Evaluate(a, leaves[i + 1])
  ELSE IF IsActiveAt(eps, i) /\ <<a, i, 0>> \in DOMAIN nodes THEN nodes[<<a, i, 0>>] ELSE Null(a)

\* The leaf below a resumed algorithm: from the payload in a flat log, from the
\* stored digest (null when there is none) in a subtree log.
RebuildLeaf(a, eps, i) ==
  IF ~IsActiveAt(eps, i) THEN Null(a)
  ELSE IF kind = "flat" THEN Evaluate(a, leaves[i + 1])
  ELSE IF <<a, i, 0>> \in DOMAIN nodes THEN nodes[<<a, i, 0>>] ELSE Null(a)

\* A stored node is trusted wherever the algorithm was active at all.
RebuildTrustingPartial(a, eps, left, height) ==
  LET rebuild[h \in Nat] ==
        IF h = 0 THEN [l \in Nat |-> [root |-> RebuildLeaf(a, eps, l), mixed |-> <<>>]]
        ELSE [l \in Nat |->
           IF ~ActiveRange(eps, l, l + BlockSize(h)) THEN [root |-> Null(a), mixed |-> <<>>]
           ELSE IF <<a, l, h>> \in DOMAIN nodes THEN [root |-> nodes[<<a, l, h>>], mixed |-> <<>>]
           ELSE [root |-> Null(a), mixed |-> Only(<<a, l, h>>, Null(a))]]
  IN  rebuild[height][left]

\* The root of a perfect subtree recomputed for intervals `eps`, with the
\* `mixed` nodes on the way that were not wholly active and have to be stored.
Rebuild(a, eps, left, height) ==
  LET rebuild[h \in Nat] ==
        IF h = 0 THEN [l \in Nat |-> [root |-> RebuildLeaf(a, eps, l), mixed |-> <<>>]]
        ELSE [l \in Nat |->
           IF ~ActiveRange(eps, l, l + BlockSize(h)) THEN [root |-> Null(a), mixed |-> <<>>]
           ELSE IF FullyActive(eps, l, l + BlockSize(h)) /\ <<a, l, h>> \in DOMAIN nodes
                THEN [root |-> nodes[<<a, l, h>>], mixed |-> <<>>]
           ELSE LET below == [j \in 1..Arity |-> rebuild[h - 1][l + (j - 1) * BlockSize(h - 1)]]
                    root == NaryMr(a, [j \in 1..Arity |-> below[j].root])
                IN  [root  |-> root,
                     mixed |-> Over(Only(<<a, l, h>>, root), Merged([j \in 1..Arity |-> below[j].mixed]))]]
  IN  rebuild[height][left]

-----------------------------------------------------------------------------
(* Operations *)

Init ==
  /\ count = 0 /\ kind = "flat"
  /\ epochs = [a \in Algs |-> IF a = Genesis THEN <<<<0, Open>>>> ELSE <<>>]
  /\ frontier = [a \in Algs |-> <<>>]
  /\ coords = [a \in Algs |-> <<>>]
  /\ storedCount = 0 /\ leaves = <<>> /\ metas = epochs /\ nodes = <<>>
  /\ history = <<>> /\ outgrown = <<>>

\* What append_leaf and append_subtree share: every active algorithm carries
\* the item's digest; frozen ones keep their frontier.
AppendItem(item) ==
  LET active == {a \in Algs : IsActive(epochs[a])}
      carried == [a \in active |-> Carry(a, frontier[a], coords[a], count,
                    IF IsActiveAt(epochs[a], count) THEN Evaluate(a, item) ELSE Null(a))]
  IN  /\ active # {}
      /\ nodes' = Over(Merged([a \in active |-> Persisted(carried[a].made)]), nodes)
      /\ frontier' = [a \in Algs |-> IF a \in active THEN carried[a].peaks ELSE frontier[a]]
      /\ coords' = [a \in Algs |-> IF a \in active THEN carried[a].at ELSE coords[a]]
      /\ storedCount' = count + 1
      /\ count' = count + 1
      /\ history' = Append(history, item)
      /\ outgrown' = Append(outgrown, [a \in ActiveAlgsAt(count) |-> LiveCombinedRoot(a)])
      /\ UNCHANGED <<epochs, metas>>

AppendLeaf ==
  /\ count > 0 => kind = "flat"
  /\ count < MaxCount
  /\ \E item \in {i \in Offer[count + 1] : Len(i) = 1} :
       AppendItem(item) /\ leaves' = Append(leaves, item)
  /\ kind' = "flat"

AppendSubtree ==
  /\ count > 0 => kind = "subtree"
  /\ count < MaxCount
  /\ \E item \in Offer[count + 1] : AppendItem(item)
  /\ kind' = "subtree"
  /\ UNCHANGED leaves

SetEpochs(a, eps) == epochs' = [epochs EXCEPT ![a] = eps] /\ metas' = [metas EXCEPT ![a] = eps]

\* A new algorithm's whole past is null; nothing of it is stored.
AddAlgorithm(a) ==
  /\ ~Registered(a)
  /\ SetEpochs(a, <<<<count, Open>>>>)
  /\ coords' = [coords EXCEPT ![a] = FrontierForSize(count)]
  /\ frontier' = [frontier EXCEPT ![a] = [i \in DOMAIN coords'[a] |-> Null(a)]]
  /\ UNCHANGED <<count, kind, storedCount, leaves, nodes, observers>>

\* The interval is closed in the handle only.
RemoveAlgorithmUnsaved(a) ==
  /\ IsActive(epochs[a])
  /\ Toggles(a) <= MaxToggles[a]
  /\ epochs' = [epochs EXCEPT ![a][Len(epochs[a])][2] = count]
  /\ UNCHANGED <<count, kind, frontier, coords, store, observers>>

RemoveAlgorithm(a) ==
  /\ IsActive(epochs[a])
  /\ Toggles(a) <= MaxToggles[a]
  /\ SetEpochs(a, [epochs[a] EXCEPT ![Len(epochs[a])][2] = count])
  /\ UNCHANGED <<count, kind, frontier, coords, storedCount, leaves, nodes, observers>>

\* The rebuilt peaks become the frontier but the mixed nodes are not stored.
ResumeAlgorithmUnstored(a) ==
  LET eps == Append(epochs[a], <<count, Open>>)
      at == FrontierForSize(count)
  IN  /\ Registered(a) /\ ~IsActive(epochs[a])
      /\ Toggles(a) <= MaxToggles[a]
      /\ SetEpochs(a, eps)
      /\ coords' = [coords EXCEPT ![a] = at]
      /\ frontier' = [frontier EXCEPT ![a] =
                        [i \in DOMAIN at |-> Rebuild(a, eps, at[i][1], at[i][2]).root]]
      /\ UNCHANGED <<count, kind, storedCount, leaves, nodes, observers>>

ResumeAlgorithm(a) ==
  LET eps == Append(epochs[a], <<count, Open>>)
      at == FrontierForSize(count)
      rebuilt == [i \in DOMAIN at |-> Rebuild(a, eps, at[i][1], at[i][2])]
  IN  /\ Registered(a) /\ ~IsActive(epochs[a])
      /\ Toggles(a) <= MaxToggles[a]
      /\ SetEpochs(a, eps)
      /\ coords' = [coords EXCEPT ![a] = at]
      /\ frontier' = [frontier EXCEPT ![a] = [i \in DOMAIN at |-> rebuilt[i].root]]
      /\ nodes' = Over(Merged([i \in DOMAIN at |-> rebuilt[i].mixed]), nodes)
      /\ UNCHANGED <<count, kind, storedCount, leaves, observers>>

-----------------------------------------------------------------------------
(* Reopening: from_storage *)

\* A frozen algorithm's peaks are looked for at the log's size.
StoredCoordsAtCount(a) == FrontierForSize(storedCount)

\* An algorithm's peaks as the store holds them at the size its tree had when
\* it was last active.
StoredCoords(a) == FrontierForSize(TreeSize(metas[a], storedCount))

StoredFrontier(a) ==
  LET at == StoredCoords(a)
  IN  [i \in 1..Len(at) |-> GetNodeHash(a, metas[a], at[i][1], at[i][2])]

\* from_storage would not report corruption.
Reopenable ==
  \A a \in Algs : metas[a] # <<>> =>
    /\ ValidEpochs(metas[a], storedCount)
    /\ \A i \in DOMAIN StoredFrontier(a) : StoredFrontier(a)[i] # Corrupted

\* The handle is lost and a new one is read from the store.  A log without
\* leaves is taken for a subtree log.
Reopen ==
  /\ Reopenable
  /\ count' = storedCount
  /\ kind' = IF leaves # <<>> THEN "flat" ELSE "subtree"
  /\ epochs' = metas
  /\ coords' = [a \in Algs |-> StoredCoords(a)]
  /\ frontier' = [a \in Algs |-> StoredFrontier(a)]
  /\ UNCHANGED <<storedCount, leaves, metas, nodes, observers>>

Next ==
  \/ AppendLeaf
  \/ AppendSubtree
  \/ \E a \in Algs : AddAlgorithm(a) \/ RemoveAlgorithm(a) \/ ResumeAlgorithm(a)
  \/ Reopen

Spec == Init /\ [][Next]_vars

-----------------------------------------------------------------------------
(* What the log has to be: a reference that uses neither the store nor the   *)
(* frontier, only what was appended and when each algorithm was active.      *)

\* The root over one perfect subtree of a tree with these leaves.
PerfectRoot(a, leaf, left, height) ==
  LET node[h \in Nat] ==
        IF h = 0 THEN leaf
        ELSE [l \in Nat |->
                NaryMr(a, [j \in 1..Arity |-> node[h - 1][l + (j - 1) * BlockSize(h - 1)]])]
  IN  node[height][left]

ReferenceLeaf(a, i) == IF IsActiveAt(epochs[a], i) THEN Evaluate(a, history[i + 1]) ELSE Null(a)

\* The root over the positions of one perfect subtree.
ReferenceNode(a, left, height) ==
  PerfectRoot(a, [i \in Nat |-> ReferenceLeaf(a, i)], left, height)

\* The coordinates <<left, height>> of every perfect subtree within `size`
\* positions: what the logs of all sizes up to it have as peaks, and what their
\* inclusion proofs have as siblings.
PerfectSubtrees(size) ==
  {c \in (0..size) \X (0..size) :
     c[1] % BlockSize(c[2]) = 0 /\ c[1] + BlockSize(c[2]) <= size}

-----------------------------------------------------------------------------

\* However appends, freezes, gaps, resumptions and restarts alternate, every
\* algorithm's frontier is the sequence of peaks a from-scratch build over the
\* same history and the same activity would have.
FrontierIsReference ==
  \A a \in Algs : Registered(a) =>
    /\ coords[a] = FrontierForSize(TreeSize(epochs[a], count))
    /\ frontier[a] = [i \in DOMAIN coords[a] |->
                        ReferenceNode(a, coords[a][i][1], coords[a][i][2])]

\* Every perfect subtree a root or a proof at any past size may ask for can be
\* read back, and reads as the reference says: no operation forgets to store a
\* node that get_node_hash would then report as missing.
StoredNodesComplete ==
  \A a \in Algs : \A c \in PerfectSubtrees(TreeSize(epochs[a], count)) :
    GetNodeHash(a, epochs[a], c[1], c[2]) = ReferenceNode(a, c[1], c[2])

\* Losing the handle loses nothing: at any time from_storage accepts the store
\* and rebuilds the handle that was lost, the kind included once it matters.
ReopenLossless ==
  /\ Reopenable
  /\ storedCount = count /\ metas = epochs
  /\ \A a \in Algs : Registered(a) =>
       StoredCoords(a) = coords[a] /\ StoredFrontier(a) = frontier[a]
  /\ count > 0 => kind = IF leaves # <<>> THEN "flat" ELSE "subtree"

\* The blocks committed as an algorithm's null runs at any size are disjoint
\* nodes of its tree, null there, and cover exactly the positions it was
\* inactive at.
NullRunsAreTheInactivePositions ==
  \A a \in Algs : \A size \in 0..count :
    LET runs == NullRuns(EpochsAt(epochs[a], size), size)
        block(r) == r[1]..r[1] + BlockSize(r[2]) - 1
    IN  /\ runs \subseteq PerfectSubtrees(size)
        /\ \A r, q \in runs : r # q => block(r) \cap block(q) = {}
        /\ UNION {block(r) : r \in runs} = {i \in 0..size - 1 : ~IsActiveAt(epochs[a], i)}
        /\ Registered(a) => \A r \in runs : ReferenceNode(a, r[1], r[2]) = Null(a)

\* A node once stored is never given another digest, although a resumption
\* stores nodes that an append or an earlier resumption already stored.
StoredNodesFixed ==
  [][\A c \in DOMAIN nodes : c \in DOMAIN nodes' /\ nodes'[c] = nodes[c]]_vars

\* Append-only: the combined roots the log last showed at a size before it grew
\* past it, under every algorithm active there, are what combined_root_at
\* reports for that size ever after.
OutgrownRootsFixed ==
  \A size \in 1..count - 1 :
    [a \in ActiveAlgsAt(size) |-> CombinedRootAt(a, size)] = outgrown[size + 1]

\* Seen without its digests the log is the activation timeline, whose promises
\* to clients it therefore keeps.
Timeline == INSTANCE EpochTimeline WITH
  checkpoint <- [size |-> 0, epochs |-> [a \in Algs |-> IF a = Genesis THEN <<<<0, Open>>>> ELSE <<>>]]

TimelineSpec == Timeline!Spec
=============================================================================
