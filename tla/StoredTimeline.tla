--------------------------- MODULE StoredTimeline ---------------------------
(***************************************************************************)
(* The activation timeline of a log together with the store under it, once *)
(* for each backend: every operation of the log hands a batch of one write *)
(* operation to MemoryStorage, FjallStorage and GitStorage alike.  The log *)
(* is new, or was resumed from a seal, which seeds the stores.  It then    *)
(* has no payloads below its size and appends subtrees only.               *)
(*                                                                         *)
(* The handle goes on whatever the stores say, so a batch that one of them *)
(* refuses shows as a store that no longer mirrors the handle.             *)
(*                                                                         *)
(* Storage::apply is public and takes batches of any length.  `Batches`    *)
(* are short ones any caller could come with in any state.                 *)
(***************************************************************************)
EXTENDS EpochTimeline, StorageApply

ASSUME StoredAssumption == IsFiniteSet(Algs)

\* Every position is a key of eight bytes (u64).
ASSUME KeyAssumption == MaxCount + 1 < Place[8]

VARIABLES memory, fjall, git

stores == <<memory, fjall, git>>
storedVars == <<vars, stores>>

-----------------------------------------------------------------------------

Commit(op) ==
  /\ memory' = MemoryApply(memory, <<op>>)
  /\ fjall' = FjallApply(fjall, <<op>>)
  /\ git' = GitApply(git, <<op>>)

\* `new` registers the genesis algorithm in an empty store.
NewLog ==
  LET op == AddOp(Genesis, <<<<0, Open>>>>)
  IN  /\ Init
      /\ memory = MemoryApply(EmptyStore, <<op>>)
      /\ fjall = FjallApply(EmptyStore, <<op>>)
      /\ git = GitApply(EmptyStore, <<op>>)

\* Timelines a seal of n positions may carry for an algorithm it keeps.
SealedTimelines(n) == {<<<<0, Open>>>>, <<<<0, n - 1>>, <<n, Open>>>>}

\* `resume` seeds an empty store with the algorithms of the seal, in any order.
ResumedFrom(n, kept, timeline, order) ==
  LET seeds == [i \in DOMAIN order |-> <<order[i], timeline[order[i]]>>]
      op == SeedOp(n, seeds, [k \in {<<a, 1, 0>> : a \in kept} |-> "peak"])
  IN  /\ count = n
      /\ epochs = [a \in Algs |-> IF a \in kept THEN timeline[a] ELSE <<>>]
      /\ checkpoint = [size |-> n, epochs |-> epochs]
      /\ memory = MemoryApply(EmptyStore, <<op>>)
      /\ fjall = FjallApply(EmptyStore, <<op>>)
      /\ git = GitApply(EmptyStore, <<op>>)

ResumedLog ==
  \E n \in 1..MaxCount : \E kept \in SUBSET Algs : \E timeline \in [kept -> SealedTimelines(n)] :
    \E order \in SetToSeqs(kept) : ResumedFrom(n, kept, timeline, order)

\* The digests an append writes: the new position's, of each active algorithm.
PositionNodes == [k \in {<<a, 0, count>> : a \in {b \in Algs : IsActive(epochs[b])}} |-> "digest"]

\* A log is of leaves or of subtrees; only an empty one is neither yet.
HasLeaves == memory.leaves # <<>>

StoredLeaf ==
  /\ count = 0 \/ HasLeaves
  /\ AppendPosition
  /\ Commit(LeafOp(count, count, PositionNodes))

StoredSubtree ==
  /\ ~HasLeaves
  /\ AppendPosition
  /\ Commit(SubtreeOp(count, PositionNodes))

StoredAdd(a) == AddAlgorithm(a) /\ Commit(AddOp(a, epochs'[a]))
StoredRemove(a) == RemoveAlgorithm(a) /\ Commit(RemoveOp(a, epochs'[a]))

\* A resumption writes digests too, those of blocks that span the gap.
StoredResume(a) ==
  /\ ResumeAlgorithm(a)
  /\ Commit(ResumeOp(a, epochs'[a], [k \in {<<a, 1, 0>>} |-> "mixed"]))

StoredNext ==
  \/ StoredLeaf \/ StoredSubtree
  \/ TakeCheckpoint /\ UNCHANGED stores
  \/ \E a \in Algs : StoredAdd(a) \/ StoredRemove(a) \/ StoredResume(a)

StoredSpec == (NewLog \/ ResumedLog) /\ [][StoredNext]_storedVars

-----------------------------------------------------------------------------

\* The intervals of the algorithms that have any.
Recorded == [a \in {b \in Algs : Registered(b)} |-> epochs[a]]
Mirrors(store) == store.count = count /\ store.metas = Recorded

\* No backend ever refuses what the log writes, and each gives back the count
\* and the intervals of the handle: what git projects them to is what they are.
StoresMirrorTimeline == Mirrors(memory) /\ Mirrors(fjall) /\ Mirrors(git)

Positions == 0..MaxCount + 1
Asked == (Algs \X {0} \X Positions) \cup (Algs \X {1} \X {0})

\* A log reads the same from every backend: each payload at its position, each
\* digest at its node, and a number of payloads from which the kind of the log
\* is derived.
BackendsReadAlike ==
  /\ MemoryReads(memory, Positions, Asked) = FjallReads(fjall, Positions, Asked)
  /\ MemoryReads(memory, Positions, Asked) = GitReads(git, Positions, Asked)

-----------------------------------------------------------------------------
(* Batches that callers other than the log may come with. *)

Operations(n) ==
  LET node(a, left) == [k \in {<<a, 0, left>>} |-> "other"]
      next == {n, n + 1}
  IN  {LeafOp(i, MaxCount + 1, node(Genesis, i)) : i \in next}
      \cup {SubtreeOp(i, node(Genesis, i)) : i \in next}
      \cup {AddOp(a, <<<<i, Open>>>>) : a \in Algs, i \in next}
      \cup {RemoveOp(a, <<<<0, n>>>>) : a \in Algs}
      \cup {ResumeOp(a, <<<<0, 0>>, <<n, Open>>>>, node(a, 0)) : a \in Algs}
      \cup {SeedOp(size, seeds, node(Genesis, 0)) :
              size \in {1, 2}, seeds \in {[i \in 1..m |-> <<Genesis, <<<<0, Open>>>>>>] : m \in 0..2}}

Batches(n) ==
  {<<op>> : op \in Operations(n)} \cup {<<first, second>> : first, second \in Operations(n)}

\* The stores do not depend on the client's checkpoint, so of the states that
\* differ in it alone one is looked at, which TakeCheckpoint leads to.
Looked == checkpoint = [size |-> count, epochs |-> CommittedEpochsAt(count)]

\* The intervals of a batch are those of its end, so that git finds nothing to
\* project, and a payload is not appended behind positions that have none.
Ordinary(store, ops) ==
  LET after == FoldLeft(FjallWrite, store, ops)
  IN  /\ \A a \in DOMAIN after.metas : EpochsAt(after.metas[a], after.count) = after.metas[a]
      /\ after.leaves # <<>> => DOMAIN after.leaves = 0..after.count - 1

Agree(m, g, ops) ==
  Ordinary(m, ops) =>
    /\ MemoryAccepts(m, ops) <=> GitAccepts(g, ops)
    /\ MemoryReads(MemoryApply(m, ops), Positions, Asked) = GitReads(GitApply(g, ops), Positions, Asked)

FreshStoresAgree == \A n \in 0..2 : \A ops \in Batches(n) : Agree(EmptyStore, EmptyStore, ops)

\* Memory and git take the same batches, and read the same afterwards.
MemoryAndGitAgree ==
  FreshStoresAgree /\ (Looked => \A ops \in Batches(count) : Agree(memory, git, ops))

\* A batch that does not seed, nor name an algorithm that it registers again.
Plain(ops) ==
  /\ \A i \in DOMAIN ops : ~IsSeed(ops[i])
  /\ \A i, j \in DOMAIN ops :
       i # j /\ ops[i].kind = "AddAlgorithm" => Named(ops[i]) \cap Named(ops[j]) = {}

\* So does fjall as long as no operation of the batch is about what an earlier
\* one did to the algorithms, and none is a seed.
FjallAgreesOnPlainBatches ==
  Looked => \A ops \in {b \in Batches(count) : Plain(b)} :
    Ordinary(fjall, ops) =>
      /\ MemoryAccepts(memory, ops) <=> FjallAccepts(fjall, ops)
      /\ MemoryReads(MemoryApply(memory, ops), Positions, Asked)
           = FjallReads(FjallApply(fjall, ops), Positions, Asked)

\* Whatever batch is accepted, a store that has positions or algorithms keeps
\* them: no count goes back, no payload is replaced, no algorithm forgotten.
BatchesOnlyAppend ==
  LET keeps(old, new) ==
        /\ old.count <= new.count
        /\ DOMAIN old.metas \subseteq DOMAIN new.metas
        /\ \A i \in DOMAIN old.leaves : i \in DOMAIN new.leaves /\ new.leaves[i] = old.leaves[i]
  IN  Looked => \A ops \in Batches(count) :
        /\ keeps(memory, MemoryApply(memory, ops))
        /\ keeps(git, GitApply(git, ops))
        /\ (\A i \in DOMAIN ops : ~IsSeed(ops[i])) => keeps(fjall, FjallApply(fjall, ops))
=============================================================================
