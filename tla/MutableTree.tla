----------------------------- MODULE MutableTree -----------------------------
(***************************************************************************)
(* The Canonical Mutable Tree: cells in memory, and for every registered   *)
(* algorithm the digests of all nodes of the tree over the cells, which    *)
(* overwriting a cell repairs along one path.  An algorithm may be added   *)
(* to a single cell; the others count as null until they are hashed under  *)
(* it.                                                                     *)
(*                                                                         *)
(* The digest of a node is cached under the positions it covers.           *)
(***************************************************************************)
EXTENDS InclusionPaths

CONSTANTS
  Algs,         \* algorithm ids
  Payloads,     \* payloads of cells
  MaxSize,      \* bound: cells
  MaxWrites     \* bound: cells overwritten

ASSUME MutableAssumption == MaxSize \in Nat /\ MaxWrites \in Nat

VARIABLES
  cells,        \* the payloads
  cache,        \* per registered algorithm, the digest of every node
  root,         \* per registered algorithm, the member root, or NoRoot
  sealed,       \* the seal the tree was consumed into, or NoSeal
  hashed,       \* observer: per registered algorithm, the positions hashed under it
  writes        \* cells overwritten so far

vars == <<cells, cache, root, sealed, hashed, writes>>

NoSeal == [size |-> 0, frontiers |-> <<>>]

Registered == DOMAIN cache
Size == Len(cells)

\* f with the value of `a` set to v.
With(f, a, v) == [b \in DOMAIN f \cup {a} |-> IF b = a THEN v ELSE f[b]]

-----------------------------------------------------------------------------
(* The tree over `size` positions, with leaf digests from `leaf` *)

Perfect(a, leaf, left, height) ==
  LET level[h \in 0..height] ==
        [i \in 0..BlockSize(height - h) - 1 |->
           IF h = 0 THEN [covers |-> {left + i}, digest |-> leaf[left + i], children |-> <<>>]
           ELSE Inner(a, [j \in 1..Arity |-> level[h - 1][i * Arity + j - 1]])]
  IN  level[height][0]

Build(a, leaf, size) ==
  LET at == FrontierForSize(size)
  IN  FoldFrontier(a, [f \in DOMAIN at |-> Perfect(a, leaf, at[f][1], at[f][2])])

\* The nodes of a tree over `size` positions.
NodesOf(tree, size) ==
  LET below[d \in 0..size] ==
        IF d = 0 THEN {tree} ELSE UNION {ToSet(n.children) : n \in below[d - 1]}
  IN  UNION {below[d] : d \in 0..size}

Digests(tree, size) ==
  LET nodes == NodesOf(tree, size)
  IN  [c \in {n.covers : n \in nodes} |-> (CHOOSE n \in nodes : n.covers = c).digest]

Leaves(a, payloads) == [i \in 0..Len(payloads) - 1 |-> LeafHash(a, payloads[i + 1])]

\* A whole new cache.
RecomputeFull(a, payloads) ==
  IF payloads = <<>> THEN <<>>
  ELSE Digests(Build(a, Leaves(a, payloads), Len(payloads)), Len(payloads))

\* Every node as if no cell had been hashed.
SeedNull(a, size) == Digests(Build(a, [i \in 0..size - 1 |-> Null(a)], size), size)

\* Only the leaf and its parents up to, and without, the root are computed anew.
RecomputePathBelowRoot(a, known, payloads, i) ==
  LET nodes == NodesOf(Build(a, Leaves(a, payloads), Len(payloads)), Len(payloads))
      children(c) == (CHOOSE n \in nodes : n.covers = c).children
      repaired[c \in DOMAIN known] ==
        IF i \notin c \/ (c = 0..Len(payloads) - 1 /\ c # {i}) THEN known[c]
        ELSE IF c = {i} THEN LeafHash(a, payloads[i + 1])
        ELSE NaryMr(a, [j \in DOMAIN children(c) |-> repaired[children(c)[j].covers]])
  IN  repaired

\* The cache with the path to position i computed anew, from the cached digests
\* off the path.
RecomputePath(a, known, payloads, i) ==
  LET nodes == NodesOf(Build(a, Leaves(a, payloads), Len(payloads)), Len(payloads))
      children(c) == (CHOOSE n \in nodes : n.covers = c).children
      repaired[c \in DOMAIN known] ==
        IF i \notin c THEN known[c]
        ELSE IF c = {i} THEN LeafHash(a, payloads[i + 1])
        ELSE NaryMr(a, [j \in DOMAIN children(c) |-> repaired[children(c)[j].covers]])
  IN  repaired

\* The digest of the root, which covers every position.
TopOf(known, size) == IF size = 0 THEN NoRoot ELSE known[0..size - 1]

-----------------------------------------------------------------------------

Init ==
  /\ cells = <<>> /\ cache = <<>> /\ root = <<>> /\ hashed = <<>>
  /\ sealed = NoSeal /\ writes = 0

\* A new algorithm hashes every cell there is.
RegisterAlgorithm(a) ==
  /\ sealed = NoSeal /\ a \notin Registered
  /\ cache' = With(cache, a, RecomputeFull(a, cells))
  /\ root' = With(root, a, TopOf(cache'[a], Size))
  /\ hashed' = With(hashed, a, 0..Size - 1)
  /\ UNCHANGED <<cells, sealed, writes>>

\* Writes cell i: the one after the last is appended, which changes the shape, so
\* every algorithm hashes every cell; another one is overwritten.
Set(i, payload) ==
  LET appended == i = Size
  IN  /\ sealed = NoSeal /\ i <= Size
      /\ Size < MaxSize \/ ~appended
      /\ writes < MaxWrites \/ appended
      /\ cells' = IF appended THEN Append(cells, payload) ELSE [cells EXCEPT ![i + 1] = payload]
      /\ cache' = [a \in Registered |->
                     IF appended THEN RecomputeFull(a, cells')
                     ELSE RecomputePath(a, cache[a], cells', i)]
      /\ root' = [a \in Registered |-> TopOf(cache'[a], Len(cells'))]
      /\ hashed' = [a \in Registered |-> IF appended THEN 0..Size ELSE hashed[a] \cup {i}]
      /\ writes' = IF appended THEN writes ELSE writes + 1
      /\ UNCHANGED sealed

\* The digests off the path are those of the cells.
AddAlgorithmAtUnseeded(a, i) ==
  /\ sealed = NoSeal /\ a \notin Registered /\ i < Size
  /\ cache' = With(cache, a, RecomputePath(a, RecomputeFull(a, cells), cells, i))
  /\ root' = With(root, a, TopOf(cache'[a], Size))
  /\ hashed' = With(hashed, a, {i})
  /\ UNCHANGED <<cells, sealed, writes>>

\* A new algorithm hashes only cell i.
AddAlgorithmAt(a, i) ==
  /\ sealed = NoSeal /\ a \notin Registered /\ i < Size
  /\ cache' = With(cache, a, RecomputePath(a, SeedNull(a, Size), cells, i))
  /\ root' = With(root, a, TopOf(cache'[a], Size))
  /\ hashed' = With(hashed, a, {i})
  /\ UNCHANGED <<cells, sealed, writes>>

\* The peaks hashed from the cells, not read from the cache.
PeaksHashed(a) ==
  LET at == FrontierForSize(Size)
  IN  [f \in DOMAIN at |-> Perfect(a, Leaves(a, cells), at[f][1], at[f][2]).digest]

Peaks(a) ==
  LET at == FrontierForSize(Size)
  IN  [f \in DOMAIN at |-> cache[a][at[f][1]..at[f][1] + BlockSize(at[f][2]) - 1]]

\* Consumes the tree.
Seal ==
  /\ sealed = NoSeal /\ Size > 0
  /\ sealed' = [size |-> Size, frontiers |-> [a \in Registered |-> Peaks(a)]]
  /\ UNCHANGED <<cells, cache, root, hashed, writes>>

Next ==
  \/ \E a \in Algs : RegisterAlgorithm(a) \/ \E i \in 0..MaxSize - 1 : AddAlgorithmAt(a, i)
  \/ \E i \in 0..MaxSize, payload \in Payloads : Set(i, payload)
  \/ Seal

Spec == Init /\ [][Next]_vars

-----------------------------------------------------------------------------
(* What is read from it *)

\* The path to cell i: the shape is that of any tree of the size, the siblings are
\* the cached digests.
InclusionProof(a, i) ==
  LET crossed == Crossed(Build(a, Leaves(a, cells), Size), i, Size)
  IN  [leaf |-> LeafHash(a, cells[i + 1]),
       path |-> [n \in DOMAIN crossed |->
                   StepFrom(Toward(crossed[n], i),
                            [j \in DOMAIN crossed[n].children |->
                               cache[a][crossed[n].children[j].covers]])]]

HasNonMembershipProof(a, i) == LeafHash(a, cells[i + 1]) = Null(a)

\* The shapes of the steps from position i to the root of a tree of that size.
RebalancedSkeleton(a, size, i) ==
  LET path == TreePath(Build(a, [j \in 0..size - 1 |-> Null(a)], size), i, size)
  IN  [n \in DOMAIN path |-> Shape(path[n])]

-----------------------------------------------------------------------------
(* Properties *)

\* However cells were written and algorithms added, an algorithm's digests are
\* those of a tree built from scratch in which the cells never hashed under it
\* are null: none is missing, none is left from an earlier shape or payload.
CacheIsReference ==
  \A a \in Registered : Size > 0 =>
    LET leaf == [i \in 0..Size - 1 |->
                   IF i \in hashed[a] THEN LeafHash(a, cells[i + 1]) ELSE Null(a)]
        reference == Build(a, leaf, Size)
    IN  cache[a] = Digests(reference, Size) /\ root[a] = reference.digest

\* A proof for a cell hashed under the algorithm leads to its root.  A position
\* for which there is a non-membership proof is null in the tree, and the proof
\* leads to the root, also if it was never hashed.
ProofsVerify ==
  \A a \in Registered : \A i \in 0..Size - 1 :
    i \in hashed[a] \/ HasNonMembershipProof(a, i) =>
      LET proof == InclusionProof(a, i)
      IN  /\ HasNonMembershipProof(a, i) => cache[a][{i}] = Null(a)
          /\ root[a] = ReconstructInclusionRoot(a, proof.leaf, RebalancedSkeleton(a, Size, i),
                                                proof.path)
=============================================================================
