# A TLA+ model of eml

eml is a family of Rust crates around one data structure: an append-only Merkle
log that several hash algorithms cover at once, where algorithms are registered,
frozen and resumed while the log grows. This directory models the log, its
sealing, its audits, its three storage backends and the crash recovery of the git
one, and the mutable tree next to it; TLC checks the
models on small instances, and the `*Proofs` modules prove the central invariants
for all instances.

`PROJECT.json` names, for every definition, the lines of the repository it was
translated from, and lists runs, mutants, findings, hazards and theorems.

## 1. Inventory

| part | source | state | operations | models |
|---|---|---|---|---|
| hashing, folding, topology | `spine/src/{hasher,mr,topology}.rs`, `cml/src/schedule.rs` | none | leaf, node, null, k-ary fold with null collapse, frontier coordinates, carry schedule | `Spine` |
| proof verification | `spine/src/{proof,mr,subtree}.rs` | none | shape check and root reconstruction of inclusion paths, paths within an item | `InclusionPaths`, `LogProofs` |
| seal, leaf proof, metadata types | `spine/src/{seal,leaf_proof,metadata}.rs` | none | peaks, member roots and run extents of a seal; leaf proofs; opaque metadata, carried untouched | `Sealed`, `SealedLog`, `SealProofs` |
| frontier engine | `cml/src/engine.rs` | `AlgView`: intervals and frontier of one algorithm | carry, node reads, subtree rebuild, peaks, view reconstruction, timeline algebra; inclusion and consistency proofs | `Epochs`, `PolydigestLog`, `LogProofs` |
| mountains, consistency | `cml/src/{mountain,consistency}.rs` | none | peak bagging, skeletons, consistency verification | `Spine`, `InclusionPaths`, `LogProofs` |
| the log | `polydigest/src/tree.rs` | handle: count, kind, per-algorithm view; everything else in the store | `new`, `append_leaf`, `append_subtree`, `add/remove/resume_algorithm`, `from_storage`, roots live and at a size, audits, self check, proofs | `EpochTimeline`, `PolydigestLog`, `LogProofs`, `BoundProofs`, `LogAudit` |
| combined root | `polydigest/src/root.rs` | none | null runs, triviality, combined root, coupling proofs and the verifiers under them | `CombinedRoot`, `BoundProofs` |
| epoch evolution | `polydigest/src/evolution.rs` | none | may a verifier accept this timeline after that one | `Epochs`, `EpochTimeline` |
| seal and resume | `polydigest/src/{seal,sealed,snapshot}.rs`, `resume` in `tree.rs` | the seal: size, peaks, committed timeline | `seal`, `resume`, binding roots | `Sealed`, `SealedLog` |
| binding and snapshot proofs | `polydigest/src/{binding_proof,snapshot_proof}.rs` | none | the two verifiers | `SealProofs` |
| filling | `polydigest/src/filling.rs` | none | rebuild an algorithm's tree from the items and compare with the sealed binding root | `Sealed`, checked in `SealProofs` and `EpochTree` |
| storage contract, memory | `polydigest/src/storage.rs` | leaves, nodes, intervals, count | `apply` of a batch, reads | `StorageApply`, `StoredTimeline`; the writes of the log also in `PolydigestLog` |
| git storage | `storage-git/src/*` | refs and objects of a git repository; handle: the tip it saw | `new` (recovery), `apply`, `checkpoint` | `GitStore`, `DurableLog`; key paths, checks and reads of a tree in `StorageApply` |
| fjall storage | `storage-fjall/src/lib.rs` | three keyspaces | `apply` as one write batch, reads | `StorageApply`, `StoredTimeline` |
| mutable tree | `cmt/src/*` | cells; per algorithm the digests of all nodes | `register_algorithm`, `set`, `add_algorithm_at`, `seal`, inclusion and non-membership proofs | `MutableTree` |
| epoch tree | `polydigest/src/mutable.rs` | a mutable tree | the same, a combined root, a seal with a timeline | `EpochTree` on `MutableTree` |
| facades | `eml`, `emt` | none | re-exports, arity 2 | not modelled: no logic of their own |
| Lean corpus, fuzz, examples, paper | `proofs`, `fuzz`, `examples`, `docs` | | | not part of the running system |

**Interaction.** A client owns the log (`&mut self`, so one operation at a time).
The log calls the engine for the digests of an operation, hands the storage one
atomic `apply`, and only when that succeeded replaces its own fields. Reads go to
the storage. With `GitStorage` the storage is a git repository that other
processes may have open too; the staging ref is the only thing they meet at, and
its compare-and-swap the only synchronisation.

**What is hard.**
* The store holds just the nodes over active positions and just those that are
  not null, so an absent node means "null" or "corruption" depending on a
  timeline that changes. Frontiers are rebuilt across gaps from a mix of stored
  subtrees and null blocks.
* Roots, timelines and audits of every past size are answered from present
  state.
* Crashes: between the store's `apply` and the next call; power losses between
  any two syncs of a checkpoint, or during the recovery from an earlier one.
* Several processes recovering and checkpointing one repository.
* Three backends that check and write a batch each in its own way, under one
  contract; a log must run on any of them.

`PROJECT.json` lists these hazards one by one with the properties for each.

## 2. The modules

**Spine** has digests as terms (`<<"leaf", a, x>>`, `<<"node", a, children>>`), with
the equalities the code creates on purpose: the fold of equal children (null or
not) is that child, the fold of one child is the child, `leaf(b"null")` is `null()`. Distinct
terms stand for distinct digests, i.e. the hash functions are collision-free.
Frontier coordinates and the number of carries are recursive functions.

**Epochs** is the algebra of half-open activity intervals (`AlgView` in engine.rs,
`validate_epochs`, `verify_epoch_evolution`). `Open` stands for `u64::MAX`.

**EpochTimeline** abstracts the log from all digests: a count and the intervals.
A client takes a checkpoint (size and committed timeline, the part of an
`AuditPayload` that concerns activity) and compares it with the log later.

**PolydigestLog** is the log itself. `count, kind, epochs, frontier, coords` are
the handle, `storedCount, leaves, metas, nodes` the store; `history` and
`outgrown` only observe (the items appended, and the last live combined roots at
each size). Each public operation is one action, which writes the store and the
handle; there is no suspension point between the two at which another operation
could run, and a crash there equals a completed operation followed by a crash.
`Reopen` is `from_storage`, for which the intervals and digests are read back and
the frontiers rebuilt. `ReferenceNode` is the digest of a block computed from
`history` alone.

**CombinedRoot** computes null runs and combined roots from committed timelines.

**InclusionPaths** has what every producer and verifier of an inclusion proof shares:
the steps of a path, their shapes, and the reconstruction of a root from them.

**LogProofs** has the inclusion and consistency proofs the engine makes and the
verifiers. A producer reads the store as it is now; a verifier has the proof, the
sizes, and the shapes (`MountainSkeleton`) it derives from them. The properties
quantify over every algorithm, position and pair of sizes in every state, so a proof
is made and verified after whatever the log went through, and for each payload of a
structured item. `NoProof` stands for `None` and for a failed read alike: an honest
log has neither.

**BoundProofs** has the proofs against a combined root, which is what a client keeps:
`coupling_proof_at` opens it to the member roots and the timeline of that size, and
the verifiers accept an inclusion under it or the inactivity of an algorithm. The
trusted roots are those the log showed while it had the size (`outgrown`).

**LogAudit** adds a published audit payload and one damaged or lost digest in the
store. A client also keeps the member roots of the size it took the payload at, and
may start the self check from there instead of from genesis: the roots are compared
by a consistency proof, the stored peaks of that size with the trusted root, and
everything later is replayed on top of them.

**Sealed** has what can be computed from a seal alone: member roots, binding roots,
and `fill`. **SealedLog** adds a seal to the log and the resumption from it in a fresh
store; the item history goes on, so that the sealed and resumed log is compared with
one that never was. **SealProofs** adds what is verified against a seal: binding
proofs, and snapshot proofs with their leaves.

**StorageApply** has `Storage::apply` of the three backends as operators from a store
and a batch to a store: what is refused, what is written under which key, and what is
read back. Memory and git project the count and the known algorithms through the
batch while they check it; fjall checks every operation against the store as it was.
Git's keys become paths without their leading zero bytes; a byte has `ByteValues`
values (256 in the code), so that small positions reach paths of several lengths, and
entries whose paths contain one another would overwrite each other as in a git tree.
The encoding of payloads, digests and the meta blob is left out. **StoredTimeline**
runs the timeline of a new or a resumed log over all three at once; every operation
gives each of them the same batch of one write. Its handle goes on whatever the
stores say, so a refusal shows. `Batches` are the batches of one or two operations any
other caller of the public trait might come with; they are tried in every state, on
the stores as they are, but not followed, as nothing in the code sends them. The
properties about them look at one of the states that differ only in the client's
checkpoint (`Looked`).

**MutableTree** is the in-memory tree whose cells may be overwritten. `cells` and, per
registered algorithm, `cache` and `root` are its state; a node is cached under the
positions it covers. `set` is one action for both its cases: appending hashes all
cells anew, overwriting repairs one path from the cached siblings.
`add_algorithm_at` seeds every position with null and hashes one cell. `hashed`
observes which cells an algorithm has hashed; without it a reference could not be
stated. The fall-back that hashes a node missing from the cache is left out:
`CacheIsReference` shows that none is ever missing. `seal` consumes the tree.
**EpochTree** adds the combined root of the live tree and the timeline a seal of it gets.

**GitStore** models `GitStorage::new`, `apply` and `checkpoint` as sequences of
steps, one for each access to the repository that another process or a crash can
come before. `staging, ckpts, objects` are the repository as processes see it,
`stagingDisk, ckptDisk, objectsDisk` what a power loss may leave: a ref written
without a sync may afterwards have any value since its last sync, or be torn; an
object not synced may be gone. `Fail` is any `?` of the code, `Crash` the death of
a process, `PowerLoss` that of the machine. A tree is the sequence of the batches
in it, its objects one for the tree and one per batch; the objects of an `apply`
and the move of the ref are one step because nothing reads objects no ref leads to.
A process re-applies the same batch to the same tree, so equal trees recur, as
they do in the code (trees are content-addressed and have no author or time).
Calls of git (`gix`) and the file system are external and modelled from how
`storage-git` uses them; a checkpoint ref that a power loss left unreadable counts
as absent, for listing and for creation.

**DurableLog** is what the git store promises to a single process: the batches
applied, the part that is durable, and power losses that go back to any earlier
state containing all of that part. `GitStore!DurableLogSpec` is the refinement.

Composition: `Spine`, `Epochs` ← `CombinedRoot` ← `PolydigestLog` ← `LogProofs` ←
`BoundProofs`, `LogAudit`, `SealedLog` ← `SealProofs`; `Spine` ← `InclusionPaths` ←
`LogProofs`, `MutableTree` ← `EpochTree`; `CombinedRoot` ← `Sealed` ← `SealedLog`,
`EpochTree`; `Epochs` ← `EpochTimeline`, `StorageApply` ← `StoredTimeline`;
`PolydigestLog` implements `EpochTimeline` (`TimelineSpec`), `GitStore` implements
`DurableLog`.

## 3. The runs

| run | bounds | shows |
|---|---|---|
| MCStoredTimeline | 2 algorithms, 3 positions, up to 2 and 4 toggles, new logs and logs resumed from every size; 2 values of a byte; batches of 1 or 2 operations | timelines valid; every later timeline accepted by a verifier with any earlier one; the committed past never changes; no backend refuses or misrecords what the log writes, and all read alike; memory and git take the same batches, fjall too where no operation is about what another did to the algorithms; no batch takes anything back |
| MCPolydigestLog | arity 2, 2 algorithms with up to 2 and 3 toggles, 6 items, leaves and structured subtrees, equal payloads | frontiers and stored nodes equal the reference; reopening after any call gives the lost handle back; the roots shown at outgrown sizes are still read from the store; null runs name exactly the inactive positions; a stored digest never changes; implements `EpochTimeline` |
| MCPolydigestLogK3Long | arity 3, 9 items (one structured), one algorithm always active, one with up to 3 toggles | where three subtrees merge, on two levels: every inclusion and every consistency proof leads to the roots of a from-scratch build; a witness keeps its part below the peak when the log grows; a coupling proof of any size opens the combined roots shown at it; of inclusion and inactivity at a position exactly one can be proved |
| MCLogAudit | arity 2, 4 items, an audit at any size, one damaged or lost digest | audits verify later; an honest log passes its self check, from genesis and from any checkpoint no algorithm missed; damage is noticed where the code looks |
| MCSealedLog | arity 2, 5 items, a seal at any time, a freeze of one algorithm, and of the other up to 4 toggles | the resumed log goes on as if never sealed; consistency proofs bridge the seal; a seal of either log verifies with the roots shown and with its leaves, and only its own items fill it |
| MCMutableTree | arity 2, 2 algorithms, 5 cells, 2 overwrites, an ordinary and the null payload | repaired digests equal those of a from-scratch tree with null for cells not hashed; inclusion and non-membership proofs lead to the root; a seal's peaks fold to it, its binding roots are the combined roots last shown, and the cells fill it for just the algorithms that hashed them all |
| MCGitStore | 2 processes, 2 batches, 3 generations, 1 power loss, symmetric processes | see below |
| MCGitStoreAlone | 1 process, 3 batches, 4 generations, 2 power losses | the store implements `DurableLog`; clients that repeat their calls come to have what they applied durable (`SettlesDurable`) |

The bounds are small because the cases are: with arity 2, six positions have every
shape of frontier with up to two peaks more than one level apart, carries of zero,
one and two levels, gaps inside, at and across a block, and the toggles make empty
intervals and gaps that end or begin at block boundaries (one freeze and one
resumption already do; a late registration or a second pair puts two gaps in one mountain). Nine positions at arity 3
complete a tree of height two. Two processes suffice for every pair of overlapping
calls; the checkpoint code keeps two generations, so three are the first at which
it deletes; two power losses reach the second recovery. Three positions make paths of
one and two bytes, positions up to four are asked for, and a second append to each
log finds the keys of the first.

MCLogAudit does not check deadlock: its behaviours end at the damage; nor does
MCMutableTree, whose tree is consumed by its seal. All other runs do. All actions of
all next-state relations fire in some passing run.

`MCGitStore` checks that a checkpoint never names an object a power loss can take
(`CheckpointObjectsDurable`); that recovery, which reads only what staging adds over the
checkpoint, arrives at a complete tree (`RecoveryComplete`); that a written
checkpoint is not reverted (`CheckpointKept`) and no writer replaces the work of
another (`AppliedKept`), unless two calls of `new` or `checkpoint` overlapped. The
exclusion is needed, see section 5.

Liveness is stated for the git store only. A call is synchronous code that returns:
its one loop, the retries of `update_ref`, is bounded by a constant and ends in an
error. `FairSpec` is therefore weak fairness of `Proceed(p)`, the next step of the call
process p is in, and of a client that repeats what failed: it opens the store while
it has no handle, gives the handle up when the tip is not the store's, and calls
`checkpoint` while its tip was not reported durable. `SettlesDurable` says that when errors,
crashes and power losses stop and nothing is applied any more, such clients come to
rest with their tips reported durable: no leftover wedges the store. It leaves out, by
name, a store that lost objects or its ref before the first durable checkpoint
(`Unrecoverable`: it cannot be opened, or not checkpointed), and the bound on
generations. Both are part of the consequent: they are outcomes of the code or the
bound, not excluded behaviours. The property is checked for one process; two can in the
code make each other's calls fail for as long as both apply. Nothing else has fairness:
which operation of a log comes next is its owner's choice, and every operation
completes.

## 4. The theorems

tlapm proves them for every value of the constants that satisfies the named
assumptions of the modules (`ArityAssumption`, `OpenAssumption`,
`TimelineAssumption`, `LogAssumption`, `GitStoreAssumption`, `ByteAssumption`,
`StoredAssumption`: the set of algorithms is finite, for the stores only;
`KeyAssumption`: positions fit a key of eight bytes, as a `u64` does).

* **TopologyProofs** has the lemmas about the operators the rest is built from: what
  closing and resuming an interval does to a valid timeline, to its activity at a position
  and to what is committed of it; induction in the form the provers take (`SetInduction`: a
  set of naturals that has zero and every successor has all of them); powers of the arity
  and multiples of them, frontier coordinates as the one cover of a size by aligned blocks,
  tallest first (`FrontierCovers`, `CoverUnique`), the carries of an append as the way from
  the cover of a size to that of the next (`Siblings`, `PushedCovers`), what a fold of
  digests is, and the line of nodes from a peak to the root of a bagging (`BagLined`).
* **StoredTimelineProofs**, the timeline alone: `TypeCorrect`, `TimelinesReload` (every timeline passes
  `validate_epochs`), `HonestEvolutionAccepted` (a verifier accepts the present
  timeline after any checkpoint), `PastActivityKept`, `PastTimelineKept`. The
  invariant is `TypeOK /\ EpochsValid /\ CheckpointHeld`: evolution is not inductive
  alone, what is inductive is that the checkpoint's timeline is the one the log
  would still show for its size, which needs the intervals to be in order.
* **PolydigestLogProofs**, without hypotheses: `StoreMirrors` (the intervals and the
  count in the store equal those of the handle) and, with it, `ImplementsTimeline`: the
  log with its hashes and store implements `EpochTimeline`. `StoreMirrors` is needed
  because `Reopen` takes the intervals from the store.
* **PolydigestLogProofs**, the digests of the log: `FrontierAlwaysReference`,
  `StoreComplete`, `NothingLostByRestart`, `ShownRootsStay` and `StoredNodesStay`, that is
  `FrontierIsReference`, `StoredNodesComplete`, `ReopenLossless`, `OutgrownRootsFixed` and
  the action property `StoredNodesFixed`, for any arity, capacity, payloads and set of
  algorithms. Their one hypothesis, `NoNullItems`, says that no item offered consists of
  null payloads only. It is the case in which the code departs from the properties: the run
  MCPolydigestLogNull shows it (section 5), and the runs that check the properties offer no
  such item.

  None of them is inductive, and they hang together: a rebuild reads the store, a restart
  rebuilds the frontier from it, an append carries the frontier into the store. The
  invariant `LogInv` says of every algorithm that its frontier has the reference's peaks
  for its tree, that every digest the store holds of it is the reference's of a block within
  the tree and that no block it was active in is missing (`Held`), and that the roots shown
  at every outgrown size are what the reference gives for it now. The argument goes through one notion: a function from blocks
  to digests is a tree over its leaves if every block is the fold of its children
  (`TreeOf`).
  1. The reference is one (`RootsAreTree`), and two trees that agree on the leaves below a
     size agree on every block within it (`SameBlocks`). An operation changes the reference
     leaf of no position below the size of the log, so all stored digests and shown roots
     stay right.
  2. The carry of an append pops and pushes peaks, and whatever it makes is a member of the
     tree: `PushBuilds`, by induction over the carries, where `PushedCovers` says that the
     arity topmost peaks are siblings each time.
  3. The rebuild of a resumption takes a block from the store, takes it as null, or folds
     the rebuilt children; whatever it returns is a member of the tree, and the mixed blocks
     it made are those missing from the store (`RebuildFinds`, `RebuildIs`, by induction over
     the height).

  `NullRunsAlwaysInactive` is `NullRunsAreTheInactivePositions` and needs neither
  `NoNullItems` nor `LogInv`, only that the timelines are valid (`TimelineKept`). A gap is a
  maximal inactive span, so two gaps that share a position are the same (`GapsApart`) and
  every inactive position is in one (`GapAround`). The greedy decomposition of a gap exists
  because each block is followed by a later position (`DecompositionExists`) and tiles the gap
  (`GapTiled`, by induction over what is left of it). A block of null leaves is null
  (`NullRoots`). The timeline committed for a size shows the activity the log had below it
  (`CommittedActivity`).

  Induction over data is done with the sets of naturals for which a statement holds, and
  the recursive functions in `Push`, `Rebuild`, `PerfectRoot` and `DecomposeGap` are unfolded once each.
* **LogPathProofs**, the proofs a log gives out: `EveryPositionProvable`,
  `EverySizeConsistent`, `WitnessNeverStale`, `CouplingAlwaysOpens` and
  `ActivityAlwaysProvable`, that is `InclusionProofsVerify`, `ConsistencyProofsVerify`,
  `WitnessesDurable`, `CouplingOpensShownRoots` and `ActivityProvable`, for any arity,
  capacity, payloads and algorithms, from `LogInv`.
  1. A path leads from one digest to another if each of its steps takes a child to its
     parent (`Leads`). Climbing within a mountain does, since every block read from the
     store is the reference's, and the reference is a tree (`ClimbLeads`). The bagging path
     does: `FoldFrontier` merges the peaks in rounds whose widths follow from their number
     (`Rounds`, `First`), so there is a line of nodes from every peak to the root, and
     `Crossed` finds just that line (`CrossedIs`, `BagLined`).
  2. The verifier has only the size and the position. The shapes it derives from them are
     those of the path (`SkeletonIs`), because the rounds of a bagging depend on the number
     of peaks and not on their digests.
  3. A consistency proof climbs from the last old peak. To the left of that climb are the
     old peaks it merges with, once each and from the tallest down (`OldPeaksGathered`);
     with the new peaks before its mountain they cover the old size, and a cover is unique.
  4. A coupling proof has the member roots that were hashed. The parent of children that
     are all alike is that child, so equal combined roots need not have equal children; that
     they do is because the children are digests of different algorithms (`OfAlgorithm`,
     `SameMembers`).

  All need `NoNullItems`, as `LogInv` does. `ActivityAlwaysProvable` needs
  `NoNullPayloads`, that no payload within an item has the null digest: such a payload
  would prove as a leaf where the algorithm was inactive. `CouplingAlwaysOpens` assumes that
  the algorithms are finitely many; the order of the members is by id.
* **LogAuditProofs**, the audits of a log and of one with a damaged store:
  `PublishedAlwaysAccepted`, `SettledAlwaysVerifies`, `FlatDamageAlwaysNoticed` and
  `DamagedCellAlwaysNoticed`, that is `PublishedAuditAccepted`, `SettledLogVerifies`,
  `FlatDamageNoticed` and `AuditNoticesDamagedCell`, under `NoNullItems`; the last one for
  finitely many algorithms, as the members of a combined root are ordered by id.

  The invariant (`AuditInv`) has four parts. While nothing is damaged it is `LogInv` with
  `StoredActive`, that nothing is stored of a block its algorithm was never active in: the
  audit refuses a leaf digest where the payload's timeline has none. Types and the
  items appended (`HistoryKept`) hold in any case. Of the payload (`AuditKept`) what it says of
  its size is still what the reference says: the activity below it, the roots, the member
  roots the client noted. Of a damaged digest (`DamagedAt`), that it was the only one: every
  other still is the reference's.
  1. No operation changes the past: activity and effective sizes up to the size of the
     log, and the reference's leaves below it (`PastKept`). So the payload stays right.
  2. A replay is as many carries as there are cells (`ReplayRuns`), and replaying the
     leaves of a tree on its peaks gives the later peaks and the digests of exactly
     the blocks between (`ReplayBuilds`). What the self check compares is therefore every
     stored block beyond the checkpoint; a damaged one differs from what was replayed.
  3. A damaged digest that the audit takes for a cell shows in the root: a damaged one
     was hashed into it, and into no root of the reference (`Sound`, carried through
     folds, baggings and combined roots in both directions). Where the audit reads no
     digest, the cell is refused.
* **SealedLogProofs**, the log sealed and resumed: `SealAlwaysInvisible`,
  `BindingRootAlwaysReproduced` and `ConsistencyAlwaysBridgesResume`, that is
  `SealInvisible`, `BindingRootReproduced` and `ConsistencyBridgesResume`, under
  `NoNullItems`. Until the seal the invariant is `LogInv`, and it is no more afterwards: the
  fresh store has, of an algorithm the seal kept, nothing below its peaks. `AlgKept` says of
  one algorithm that its handle has the reference's peaks and that its store holds no digest
  but the reference's and misses none that is asked for from a size on: the peaks of that
  size and the blocks that end after it (`Asked`). The size is the seal's for an algorithm
  the seal kept, and 0, so that nothing is missing, for one registered since (`From`).
  1. Every operation keeps `AlgKept` of every algorithm, except a resumption of one whose
     store does not begin at 0: its rebuild would ask for leaves below the seal. The
     invariant (`ResumedInv`) speaks therefore of the algorithms that are `Sound`: not kept, or
     kept and with as many intervals as in the seal, or kept with no position before it.
  2. An append asks for nothing, and adds the blocks that end with the item: those a larger
     size asks for (`AppendHoldsFrom`). A restart asks for the peaks of the present size,
     and each of them ends after the seal or was a peak already (`PeaksAsked`).
  3. Different algorithms write under different keys (`OwnKeysApart`), which is what keeps
     an unsound one from spoiling the others.
  4. The seal's peaks are the reference's at its size, where all of the log could still be
     read (`SealMakes`); what resume stores of them is what is asked for (`SeedsAre`,
     `SealSeeds`), and an algorithm that starts at the very size of the seal has nothing
     below it to ask for (`NothingBefore`).
  5. A consistency proof from the sealed size on climbs from the boundary block and reads
     only siblings (`Reads`). One to the left is a peak of the old size, one to the right
     ends after it, so the climb asks for nothing that the seal left behind. The
     consistency lemmas of LogPathProofs assume no more than that (`RightFrom`): the digests
     asked for from the old size on are the reference's (`KeptIsRight`). A log never
     sealed is the case of size 0.
* **StoredTimelineProofs**, the stores: `StoresMirror`, the stores of all three backends give back the
  count and the intervals of the handle in every reachable state of a new or resumed
  log. That needs three facts of every operation: no backend refuses it, it does to the
  count and the intervals in the store what the log does to its own, and git's projection
  of the intervals to the count changes nothing. The last rests on the invariant
  of the timeline. A batch is folded, and the fold of the community modules is a
  recursive function on sets of indices, so each operator folded over a batch of one has a
  lemma that unfolds it (`MemoryProjectOnce`, ...).

  The same module has `LogsReadAlike`, that is `BackendsReadAlike`: count, intervals,
  payloads, digests and kind read the same from all three backends. The argument is
  about git's paths. A key without its leading zero bytes starts with a byte that is not
  zero, after the byte that says how many follow, so no path is the beginning of another
  and two keys of one length share a path only if they are equal (`KeyPathsApart`,
  `NodePathsApart`). Then an upsert overwrites no other entry, and the tree is an overlay
  of paths over what was there. `KeyAssumption` (a position fits the eight bytes of a
  key) is what makes `KeyPath` injective. The powers of `ByteValues` are a recursive
  function (`Place`), as the provers know nothing of `^`.
  Last come `MemoryAndGitTakeTheSame`, `FjallTakesPlainBatches` and
  `BatchesTakeNothing`, the three promises about the batches any other caller may send.
  They follow from the invariant of `LogsReadAlike` (`Alike`), operation by operation: what the
  first write of a batch does to a projection of memory and of git is the same, and the
  second is checked against projections that agree again. `Batches` has batches of one
  and two operations, so each fold is unfolded twice.
* **GitStoreProofs**: `TypeCorrect`, `CheckpointsNameDurableTrees`,
  `RecoveryFindsAll`, for any number of processes, batches, generations and power
  losses. The inductive invariant adds what a call in progress knows:
  what it listed is durable, the tip it is to reset to is a durable tree, and from
  the sync to the creation of the ref the tip's objects are durable. Recovery
  looks only at what staging adds; that this is enough follows since the rest is
  shared with a checkpoint, whose objects are durable.
  Then `CheckpointsAreKept`, `UpdatesAreKept` and
  `ImplementsDurableLog`. Neither of the first two is inductive: whether a new checkpoint
  extends the older ones depends on what the staging ref may still be left with after a
  power loss. The invariant (`Kept`) says that the disk holds states in order: the trees
  checkpoint refs hold or may be left with grow with the generation, and every value
  staging may be left with is torn or extends all of them; and between the two is what a
  call in progress is about to checkpoint or to reset to. It holds as long as no two
  calls of `new` or `checkpoint` overlapped, which is the condition the two properties
  carry, and which section 5 shows they need. `ImplementsDurableLog` is the refinement of
  `DurableLog`, for one process: that is its hypothesis, as the abstract log has one
  writer.

* **MutableTreeProofs**: `CacheAlwaysReference`, `ProofsAlwaysVerify` and
  `SealAlwaysFolds`, that is `CacheIsReference`, `ProofsVerify` and the first part of
  `SealKeepsRoots` (`SealFoldsToRoots`), for any arity, payloads, algorithms and number of
  cells, without hypotheses on the payloads. The invariant is `Indexed /\ Referenced`:
  every registered algorithm has a cache, a root and the positions hashed under it, and
  the first two are those of the tree over these positions.
  1. Overwriting a cell walks the tree over the cells but reads digests that were cached
     for a tree with other leaves. That is right because both have the same shape. Two
     nodes are of the same shape if they are a pair of a set of pairs that is closed under
     taking the children one by one (`Twins`); perfect subtrees, folds and whole trees of
     one size are, whatever their leaves (`PerfectTwins`, `FoldTwins`, `BuildTwins`).
  2. The cache has a digest per set of positions, so a node must be known by what it
     covers (`TreeOver`): on a level of the tree no two nodes share a position
     (`OnePerLevel`), and a node of a lower level covers fewer (`LowerIsSmaller`). The
     nodes of two trees over the same positions are therefore the same sets of positions,
     with the same children (`Alike`).
  3. `RecomputePath` is the only function that has the old digests off the path and hashes
     the children on it, by induction on the number of positions a node covers
     (`RepairedOnce`, with `FromTheLeaves`), and the digests of the tree with the new leaf
     are such a function (`DigestsRepair`).
  4. A proof is the line of nodes from a leaf to the root, in the tree whose nodes give the
     siblings, mirrored in the tree the cache is of (`LineMirrored`); the verifier's shapes
     are those of a third tree of the size, of null leaves.
  5. The peaks of a seal are nodes of the tree (`FoldedAreNodes`), so their digests are in
     the cache, and a fold has a digest that depends on the digests folded only
     (`FoldDigestOnly`).

Only model-checked: `DurableLogSpec` for several processes, `SettlesDurable` (liveness
is out of the prover's reach), the two properties of `SealProofs`, and
`SealFilledByCells`, the second part of `SealKeepsRoots`: that a tree with null for some
cells has another root is not a fact of each node, since equal children collapse (trees
over p, q, p, q and p, p, q, q have one root); it takes a weight that a digest has
however it came about, and so induction over digests.

## 5. Where code and words differ

Four runs show a sentence of the repository that the code does not keep; each is a
finding in `PROJECT.json`, with the lines.

* **MCPolydigestLogNull**: a block full of items whose digest is the null digest has
  no stored parent, and the log cannot be reopened.
* **MCLogAuditUnsettled**: the self check rejects an honest log while an algorithm
  is resumed but not appended to, or was frozen where it was registered.
* **MCSealedLogResumed**: freezing and resuming an algorithm that came through a seal
  loses its sealed peaks.
* **MCGitStoreReported**: `checkpoint()` may find the ref that an earlier, failed call
  created and did not sync, and report it as durable.

Met while modelling, without a run of their own:

* Two processes recover the same store after a power loss; the reset of one comes after
  the other applied and checkpointed. A torn staging ref is overwritten whatever it is
  by then (lib.rs:240), and a readable one may again have the value that was read, so
  the reset succeeds and takes the checkpointed state back, against lib.rs:226-228.
  `CheckpointKept` excludes this with `overlap`.
* After `add_algorithm_at`, `Cmt::inclusion_proof` for a cell not hashed under that
  algorithm returns the digest of its payload as the leaf (cmt tree.rs:259) while the
  root has null there, so the path does not verify, although tree.rs:246-247 says it
  does; and `non_membership_proof`, which is documented for a position that carries no
  value, finds none (tree.rs:306). `ProofsVerify` is about hashed cells only. The next
  append then hashes all cells (tree.rs:162).
* Two overlapping calls of `checkpoint` can give an older state the higher
  generation: the staging ref is read before the refs are listed (lib.rs:352, 361),
  while lib.rs:329-331 says generations order states. This is what `CheckpointKept`
  excludes with `overlap`.
* An audit payload published at the size at which an algorithm is then registered is
  rejected afterwards: the log's timeline for that size has one algorithm more
  (tree.rs:1150-1155). `PublishedAuditAccepted` excludes it.
* The self check from a checkpoint fails on an honest log if an algorithm was frozen
  before the checkpoint and resumed after it. The replay starts with the size the
  algorithm's tree had (tree.rs:1592) but pushes from the position of the checkpoint on,
  so that size and position no longer agree and it merges other blocks than the log did.
  tree.rs:1475-1477 says `Some(n)` verifies [n, count), without that exception.
  `SettledLogVerifies` excludes such checkpoints (`Unbroken`).
* In a log of subtrees, a damaged digest that is a peak of its own (height 0) is
  compared with itself and not noticed (tree.rs:1683-1684); hence
  `FlatDamageNoticed` is stated for logs of leaves.
* A binding root of a seal is not reproduced by the resumed log if an algorithm
  of the timeline was already frozen (tree.rs:196-198): the resumed log no longer
  knows it. `BindingRootReproduced` excludes it.
* seal.rs:24-25 says an algorithm is kept if its interval covers the final position;
  the code asks for the position after it (seal.rs:85). The verifier of a snapshot proof
  asks for the last one (snapshot_proof.rs:209, root.rs:310), so it refuses an honest
  seal taken right after an algorithm was registered, resumed or frozen.
  `SnapshotProofsVerify` excludes such seals.
* filling.rs:271 says the fill closes an algorithm's gaps. The rebuilt tree is without
  gaps indeed, and therefore its root is not the committed one if there was a gap:
  `fill` then returns `BindingRootMismatch`. `FillAcceptsTheItems` states it so.

* The fjall backend checks a batch against the store as it was before it. It takes two
  registrations of one algorithm in a batch, refuses a registration and a freeze of it in
  one, and takes a `SeedFrontier` on a store that has positions, whose count it then sets
  back; storage.rs:194-197 promises the same checks for every backend, and the parity
  test (storage-git/tests/apply_precondition_parity.rs:1-45) compares memory and git only.
  No log sends such a batch: each operation is one write, and `resume` looks at count and
  intervals first (tree.rs:164-171). `FjallAgreesOnPlainBatches` and `BatchesOnlyAppend`
  leave these batches out for fjall.
* Memory appends payloads to a vector, fjall and git store them under their position. A
  payload appended behind positions that have none (after subtrees, or a seed) is read
  back at another position from memory. Git alone cuts intervals at the count and
  refuses a batch that leaves an algorithm none. A log does neither; `Ordinary` leaves
  both out.
* If a power loss takes the objects of a batch before the first checkpoint, while the
  tree that staging names survives, `new` opens the store but every `checkpoint` fails,
  as it cannot read what it has to sync. `SettlesDurable` names this case.
* An algorithm that `add_algorithm_at` added to one cell of a mutable tree is sealed with
  the timeline of one active since genesis (mutable.rs:33-35, 209-212); no coverage child
  says which cells it never hashed, and `fill` with the true cells then fails.
  `SealKeepsRoots` states it so.

## 6. Plan

Done: all modules of section 2, and the proofs of section 4. Next, in this order:

1. Proofs: `SnapshotProofsVerify`, which needs an invariant for algorithms kept by a seal
   and resumed again since, whose stores are not the reference's; then
   `FillAcceptsTheItems` and `SealFilledByCells`, from one weight of digests.
2. A batch of several operations as steps of `StoredTimeline`, should the log ever send
   one.
3. `SettlesDurable` for two processes that stop applying, with larger bounds.

Not modelled: the encodings of blobs and metadata, the limits of `VerifierConfig` and the
widths of digests, which no property tells apart; the facades `eml` and `emt`, which
re-export with a fixed arity; the Lean corpus, the fuzz targets, the examples and the
paper, which are not part of the running system.
