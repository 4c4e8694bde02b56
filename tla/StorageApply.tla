---------------------------- MODULE StorageApply ----------------------------
(***************************************************************************)
(* Storage::apply, the only way to change a store, in its three backends.  *)
(* A batch of write operations is checked, then written as a whole:        *)
(* MemoryStorage in two passes over its maps, FjallStorage as one write    *)
(* batch of its keyspaces, GitStorage as a new tree whose entries lie at   *)
(* paths derived from their keys.  What each then reads back is            *)
(* `MemoryReads`, `FjallReads` and `GitReads`.                             *)
(*                                                                         *)
(* Payloads and digests are opaque.  Committing a write batch or moving    *)
(* the staging ref is one step (GitStore takes the latter apart).          *)
(***************************************************************************)
EXTENDS Epochs, SequencesExt

CONSTANT ByteValues     \* how many values a byte of a key has (256 in the code)

ASSUME ByteAssumption == ByteValues \in Nat \ {0, 1}

-----------------------------------------------------------------------------
(* Write operations.  `at` is the position of an append and the size of a  *)
(* seed, `metas` the algorithms named with their intervals, `nodes` the    *)
(* digests by <<algorithm, height, left>>.                                 *)

WriteOp(kind, at, data, metas, nodes) ==
  [kind |-> kind, at |-> at, data |-> data, metas |-> metas, nodes |-> nodes]

LeafOp(at, data, nodes) == WriteOp("AppendLeaf", at, data, <<>>, nodes)
SubtreeOp(at, nodes) == WriteOp("AppendSubtree", at, 0, <<>>, nodes)
AddOp(a, eps) == WriteOp("AddAlgorithm", 0, 0, <<<<a, eps>>>>, <<>>)
RemoveOp(a, eps) == WriteOp("RemoveAlgorithm", 0, 0, <<<<a, eps>>>>, <<>>)
ResumeOp(a, eps, nodes) == WriteOp("ResumeAlgorithm", 0, 0, <<<<a, eps>>>>, nodes)
SeedOp(size, metas, nodes) == WriteOp("SeedFrontier", size, 0, metas, nodes)

IsAppend(op) == op.kind \in {"AppendLeaf", "AppendSubtree"}
IsSeed(op) == op.kind = "SeedFrontier"
Named(op) == {m[1] : m \in ToSet(op.metas)}

\* The last of the intervals an operation gives for an algorithm stands.
NamedEpochs(op) ==
  [a \in Named(op) |-> op.metas[Max({i \in DOMAIN op.metas : op.metas[i][1] = a})][2]]

-----------------------------------------------------------------------------
(* A store: append count, payloads, digests and intervals, each by key. *)

EmptyStore == [count |-> 0, leaves |-> <<>>, nodes |-> <<>>, metas |-> <<>>]

\* f with the entries of g in place of its own.
Overlay(f, g) == [x \in DOMAIN f \cup DOMAIN g |-> IF x \in DOMAIN g THEN g[x] ELSE f[x]]
Entry(key, value) == [x \in {key} |-> value]

CountAfter(count, op) ==
  IF IsAppend(op) THEN count + 1 ELSE IF IsSeed(op) THEN op.at ELSE count

-----------------------------------------------------------------------------
(* What is refused.  Memory and git check each operation against the count *)
(* and the algorithms as the earlier operations of the batch leave them.   *)

\* SeedFrontier is let through on any store.
RefusedUnlessSeed(op, count, known) ==
  \/ IsAppend(op) /\ op.at # count
  \/ op.kind = "AddAlgorithm" /\ Named(op) \cap known # {}
  \/ op.kind \in {"RemoveAlgorithm", "ResumeAlgorithm"} /\ ~(Named(op) \subseteq known)

Refused(op, count, known) ==
  \/ RefusedUnlessSeed(op, count, known)
  \/ IsSeed(op) /\ (count # 0 \/ known # {} \/ Cardinality(Named(op)) < Len(op.metas))

Start(store) == [ok |-> TRUE, count |-> store.count, known |-> DOMAIN store.metas]

MemoryProject(p, op) ==
  [ok    |-> p.ok /\ ~Refused(op, p.count, p.known),
   count |-> CountAfter(p.count, op),
   known |-> p.known \cup Named(op)]

MemoryAccepts(store, ops) == FoldLeft(MemoryProject, Start(store), ops).ok

\* An algorithm registered by the batch itself is not remembered.
GitProjectForgetting(p, op) ==
  [ok |-> p.ok /\ ~Refused(op, p.count, p.known), count |-> CountAfter(p.count, op), known |-> p.known]

\* The algorithms with an entry in the tree, and those of this batch.
GitProject(p, op) ==
  [ok    |-> p.ok /\ ~Refused(op, p.count, p.known),
   count |-> CountAfter(p.count, op),
   known |-> p.known \cup Named(op)]

\* Every append of a batch is held against the count before it.
FjallProjectStatic(p, op) == [p EXCEPT !.ok = @ /\ ~RefusedUnlessSeed(op, p.count, p.known)]

\* Fjall asks its committed metadata, whatever the batch registers, and has no
\* condition on a seed, which its running count does not follow either.
FjallProject(p, op) ==
  [p EXCEPT !.ok = @ /\ ~RefusedUnlessSeed(op, p.count, p.known),
            !.count = IF IsAppend(op) THEN @ + 1 ELSE @]

FjallAccepts(store, ops) == FoldLeft(FjallProject, Start(store), ops).ok

-----------------------------------------------------------------------------
(* What is written. *)

Write(store, op, leafKey) ==
  [count  |-> CountAfter(store.count, op),
   leaves |-> IF op.kind = "AppendLeaf" THEN Overlay(store.leaves, Entry(leafKey, op.data))
                                        ELSE store.leaves,
   nodes  |-> Overlay(store.nodes, op.nodes),
   metas  |-> Overlay(store.metas, NamedEpochs(op))]

\* Memory pushes a payload behind the ones it has, fjall puts it at its key.
MemoryWrite(store, op) == Write(store, op, Cardinality(DOMAIN store.leaves))
FjallWrite(store, op) == Write(store, op, op.at)

MemoryApply(store, ops) ==
  IF MemoryAccepts(store, ops) THEN FoldLeft(MemoryWrite, store, ops) ELSE store
FjallApply(store, ops) ==
  IF FjallAccepts(store, ops) THEN FoldLeft(FjallWrite, store, ops) ELSE store

\* What a one is worth in each of the eight bytes of a key, the last byte first.
Place[i \in 0..8] == IF i = 0 THEN 1 ELSE ByteValues * Place[i - 1]

\* How many bytes are left of a key without its leading zeros.
Significant(key) == CHOOSE n \in 1..8 : key < Place[n] /\ (n > 1 => key >= Place[n - 1])

\* The path of a key has no segment for its length.
KeyPathUnprefixed(key) ==
  [i \in 1..Significant(key) |-> (key \div Place[Significant(key) - i]) % ByteValues]

\* The path of a key: the number of its significant bytes, then these bytes.
KeyPath(key) ==
  LET bytes == Significant(key)
  IN  <<bytes>> \o [i \in 1..bytes |-> (key \div Place[bytes - i]) % ByteValues]

NodePath(node) == <<node[1], node[2]>> \o KeyPath(node[3])

\* The tree editor: an entry takes the place of one at its path, and of those
\* that would need the path, or a part of it, to be a blob and a tree at once.
Upsert(tree, entries) ==
  LET clash(p, q) == IsPrefix(p, q) \/ IsPrefix(q, p)
      kept == {p \in DOMAIN tree : \A q \in DOMAIN entries : ~clash(p, q)}
  IN  Overlay([p \in kept |-> tree[p]], entries)

GitWrite(store, op) ==
  LET written == {NodePath(n) : n \in DOMAIN op.nodes}
  IN  [count  |-> CountAfter(store.count, op),
       leaves |-> IF op.kind = "AppendLeaf" THEN Upsert(store.leaves, Entry(KeyPath(op.at), op.data))
                                            ELSE store.leaves,
       nodes  |-> Upsert(store.nodes, [p \in written |->
                    op.nodes[CHOOSE n \in DOMAIN op.nodes : NodePath(n) = p]]),
       metas  |-> Overlay(store.metas, NamedEpochs(op))]

\* The intervals are projected to the position before the count.
ProjectEpochsEarly(store) ==
  [store EXCEPT !.metas = [a \in DOMAIN @ |-> EpochsAt(@[a], Max({1, store.count}) - 1)]]

\* Git writes the intervals of every algorithm anew, as they stand at the count
\* it arrives at, and refuses if there are none by then.
ProjectEpochs(store) ==
  [store EXCEPT !.metas = [a \in DOMAIN @ |-> EpochsAt(@[a], store.count)]]

GitAccepts(store, ops) ==
  /\ FoldLeft(GitProject, Start(store), ops).ok
  /\ LET written == ProjectEpochs(FoldLeft(GitWrite, store, ops))
     IN  \A a \in DOMAIN written.metas : written.metas[a] # <<>>

GitApply(store, ops) ==
  IF GitAccepts(store, ops) THEN ProjectEpochs(FoldLeft(GitWrite, store, ops)) ELSE store

-----------------------------------------------------------------------------
(* What is read back: append_count, load_algorithm_metas, len, get_leaf of *)
(* every position and get_node of every node asked for.                    *)

\* What is at a key, or nothing.
NotFound == <<>>
Get(f, key) == IF key \in DOMAIN f THEN <<f[key]>> ELSE NotFound

MemoryReads(store, positions, asked) ==
  [count |-> store.count, metas |-> store.metas,
   len   |-> Cardinality(DOMAIN store.leaves),
   leaf  |-> [i \in positions |-> Get(store.leaves, i)],
   node  |-> [n \in asked |-> Get(store.nodes, n)]]

\* len is one more than the last key.
FjallReads(store, positions, asked) ==
  [count |-> store.count, metas |-> store.metas,
   len   |-> Max({0} \cup {i + 1 : i \in DOMAIN store.leaves}),
   leaf  |-> [i \in positions |-> Get(store.leaves, i)],
   node  |-> [n \in asked |-> Get(store.nodes, n)]]

\* len is the count if there is any payload, and no payload is read beyond it.
GitReads(store, positions, asked) ==
  LET len == IF store.leaves = <<>> THEN 0 ELSE store.count
  IN  [count |-> store.count, metas |-> store.metas, len |-> len,
       leaf  |-> [i \in positions |-> IF i < len THEN Get(store.leaves, KeyPath(i)) ELSE NotFound],
       node  |-> [n \in asked |-> Get(store.nodes, NodePath(n))]]
=============================================================================
