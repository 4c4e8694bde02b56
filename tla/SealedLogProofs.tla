-------------------------- MODULE SealedLogProofs --------------------------
(***************************************************************************)
(* Theorems about a log that is sealed and resumed, for any arity, any set *)
(* of algorithms, any capacity and any payloads, when no appended item has *)
(* the null digest (NoNullItems).                                          *)
(*                                                                         *)
(* Until the seal the log is that of PolydigestLogProofs, and LogInv says  *)
(* that handle and store are what the reference says.  The resumed log has *)
(* less in its store: of an algorithm the seal kept, the peaks of the      *)
(* sealed size and the blocks that end after it.  AlgKept says that of one *)
(* algorithm, so that each operation can be shown to keep it, and of which *)
(* algorithms it is said (SealedInv) leaves out those that the seal kept   *)
(* and that were frozen and resumed since: their rebuild misses the leaves *)
(* below the seal.                                                         *)
(***************************************************************************)
EXTENDS SealedLog, LogPathProofs

-----------------------------------------------------------------------------
(* One algorithm of a log whose store begins at a size *)

\* Of algorithm a with these intervals the store holds only digests of blocks
\* within n positions, those of the reference, and misses none of those asked for
\* that it was active in.
HeldFrom(nd, a, eps, n, ref, from) ==
  /\ \A c \in Coordinates : Node(a, c) \in DOMAIN nd => c \in Blocks(n) /\ nd[Node(a, c)] = ref[c]
  /\ \A c \in Blocks(n) : Asked(from, c) /\ ActiveRange(eps, c[1], End(c)) => Node(a, c) \in DOMAIN nd

\* The handle and the store are right about algorithm a, whose store begins at
\* size `from`.
AlgKept(a, from) ==
  /\ from \in 0..Size(a)
  /\ coords[a] = FrontierForSize(Size(a)) /\ frontier[a] = PeaksOf(Ref(a), Size(a))
  /\ HeldFrom(nodes, a, epochs[a], Size(a), Ref(a), from)

\* What both logs have in common, whichever algorithms are resumed.
BasicsKept == LogTypeOK /\ StoreMirrorsHandle /\ HistoryKept

\* A store that begins at 0 holds everything.
LEMMA HeldFromStart ==
  ASSUME NEW nd, NEW a, NEW eps, NEW n \in Nat, NEW ref
  PROVE  HeldFrom(nd, a, eps, n, ref, 0) <=> Held(nd, a, eps, n, ref)
  <1>1. \A c \in Blocks(n) : Asked(0, c)
    BY CoordinateIsPair DEF Asked, Blocks
  <1> QED
    BY <1>1 DEF HeldFrom, Held

\* And one that holds everything holds what a resumed log asks for.
LEMMA HeldIsMore ==
  ASSUME NEW nd, NEW a, NEW eps, NEW n, NEW ref, NEW from, Held(nd, a, eps, n, ref)
  PROVE  HeldFrom(nd, a, eps, n, ref, from)
  BY DEF HeldFrom, Held

\* The log never sealed is right about every algorithm.
LEMMA KeptUnsealed ==
  ASSUME LogInv, NEW a \in Algs
  PROVE  AlgKept(a, 0) /\ BasicsKept
  <1>1. LogTypeOK /\ FrontierKept /\ Held(nodes, a, epochs[a], Size(a), Ref(a))
    BY DEF LogInv, StoreKept
  <1>2. Size(a) \in Nat
    BY <1>1, SizeKnown
  <1>3. HeldFrom(nodes, a, epochs[a], Size(a), Ref(a), 0)
    <2> DEFINE n == Size(a)
    <2>1. n \in Nat /\ Held(nodes, a, epochs[a], n, Ref(a))
      BY <1>1, <1>2
    <2> HIDE DEF n
    <2>2. HeldFrom(nodes, a, epochs[a], n, Ref(a), 0)
      BY <2>1, HeldFromStart
    <2> QED
      BY <2>2 DEF n
  <1>4. 0 \in 0..Size(a)
    BY <1>2
  <1> QED
    BY <1>1, <1>3, <1>4 DEF AlgKept, FrontierKept, BasicsKept, LogInv

-----------------------------------------------------------------------------
(* Reading a store that begins at a size *)

\* What is asked for reads as the reference says.
LEMMA KeptReads ==
  ASSUME BasicsKept, NEW a \in Algs, NEW from, AlgKept(a, from), NEW c \in Blocks(Size(a)), Asked(from, c)
  PROVE  /\ GetNodeHash(a, epochs[a], c[1], c[2]) = Ref(a)[c]
         /\ Ref(a)[c] # Corrupted
  <1>1. LogTypeOK /\ HistoryKept /\ HeldFrom(nodes, a, epochs[a], Size(a), Ref(a), from)
    BY DEF BasicsKept, AlgKept
  <1>2. c \in Coordinates
    BY DEF Blocks
  <1>3. Stored(a, c)
    BY <1>1, <1>2 DEF Stored, HeldFrom
  <1> QED
    BY <1>1, <1>3, ReadsAsReference
-----------------------------------------------------------------------------
(* Steps that leave the history alone *)

\* The peaks of a size that the references agree below are the same.
LEMMA KeptPeaks ==
  ASSUME LogTypeOK, NEW a \in Algs, SameBelow(Ref(a), Ref(a)', count), NEW n \in 0..count
  PROVE  PeaksOf(Ref(a), n) = PeaksOf(Ref(a)', n)
  <1> DEFINE r == Ref(a)
             q == Ref(a)'
  <1>1. TreeOf(a, r) /\ TreeOf(a, q)
    BY References
  <1>2. count \in Nat
    BY SizeKnown
  <1> HIDE DEF r, q
  <1>3. SameBelow(r, q, count)
    BY DEF r, q
  <1>4. PeaksOf(r, n) = PeaksOf(q, n)
    BY <1>1, <1>2, <1>3, PeaksAgree
  <1> QED
    BY <1>4 DEF r, q

\* An algorithm whose handle and store a step leaves alone.
LEMMA KeptAlike ==
  ASSUME BasicsKept, NEW a \in Algs, NEW from, AlgKept(a, from),
         count' = count, epochs'[a] = epochs[a], history' = history,
         coords'[a] = coords[a], frontier'[a] = frontier[a], SameNodes(nodes', a)
  PROVE  AlgKept(a, from)'
  <1>1. Ref(a)' = Ref(a) /\ Size(a)' = Size(a)
    BY DEF Ref, LeafOf, ReferenceLeaf, Size
  <1>2. HeldFrom(nodes', a, epochs[a], Size(a), Ref(a), from)
    <2>1. HeldFrom(nodes, a, epochs[a], Size(a), Ref(a), from)
      BY DEF AlgKept
    <2>2. Blocks(Size(a)) \subseteq Coordinates
      BY DEF Blocks
    <2> QED
      BY <2>1, <2>2 DEF HeldFrom, SameNodes
  <1> QED
    BY <1>1, <1>2 DEF AlgKept

\* An algorithm that gets other intervals with the same activity below the log's
\* size, and a tree that spans the log.
LEMMA KeptChanged ==
  ASSUME BasicsKept, NEW a \in Algs, NEW eps, NEW from \in 0..count,
         count' = count, epochs'[a] = eps, TreeSize(eps, count) = count,
         SameBelow(Ref(a), Ref(a)', count),
         coords'[a] = FrontierForSize(count), frontier'[a] = PeaksOf(Ref(a), count),
         HeldFrom(nodes', a, eps, count, Ref(a), from)
  PROVE  AlgKept(a, from)'
  <1> DEFINE r == Ref(a)
             q == Ref(a)'
  <1>1. Size(a)' = count
    BY DEF Size
  <1>2. TreeOf(a, r) /\ TreeOf(a, q)
    BY References
  <1>3. count \in Nat /\ LogTypeOK
    BY SizeKnown DEF BasicsKept
  <1>4. PeaksOf(r, count) = PeaksOf(q, count)
    BY <1>3, KeptPeaks
  <1> HIDE DEF r, q
  <1>5. SameBelow(r, q, count) /\ HeldFrom(nodes', a, eps, count, r, from)
    BY DEF r, q
  <1>6. \A c \in Blocks(count) : r[c] = q[c]
    BY <1>2, <1>3, <1>5, SameBlocks
  <1>7. HeldFrom(nodes', a, eps, count, q, from)
    BY <1>5, <1>6 DEF HeldFrom
  <1>8. frontier'[a] = PeaksOf(q, count)
    BY <1>4 DEF r
  <1> QED
    BY <1>1, <1>7, <1>8 DEF AlgKept, q

\* What add, remove and resume do to the intervals and the history.
Changes(a, eps) ==
  /\ epochs' = [epochs EXCEPT ![a] = eps] /\ metas' = [metas EXCEPT ![a] = eps]
  /\ UNCHANGED <<count, kind, storedCount, leaves, observers>>
  /\ eps \in Seq(Interval) /\ ValidEpochs(eps, count) /\ TreeSize(eps, count) = count
  /\ \A i \in 0..count - 1 : IsActiveAt(eps, i) <=> IsActiveAt(epochs[a], i)

\* It leaves every reference as it is below the log's size.
LEMMA ChangesKeep ==
  ASSUME BasicsKept, NEW a \in Algs, NEW eps, Changes(a, eps),
         frontier' = [b \in Algs |-> frontier'[b]], coords' = [b \in Algs |-> coords'[b]]
  PROVE  /\ BasicsKept' /\ epochs'[a] = eps
         /\ \A b \in Algs : SameBelow(Ref(b), Ref(b)', count)
         /\ \A b \in Algs \ {a} : epochs'[b] = epochs[b]
  <1>1. LogTypeOK /\ StoreMirrorsHandle /\ HistoryKept
    BY DEF BasicsKept
  <1>2. epochs'[a] = eps /\ \A b \in Algs \ {a} : epochs'[b] = epochs[b]
    BY <1>1 DEF Changes, LogTypeOK
  <1>3. LogTypeOK'
    <2>1. epochs' \in [Algs -> Seq(Interval)]
      BY <1>1 DEF Changes, LogTypeOK
    <2>2. \A b \in Algs : Registered(b)' => ValidEpochs(epochs'[b], count)
      BY <1>1, <1>2 DEF Changes, LogTypeOK, Registered
    <2> QED
      BY <1>1, <2>1, <2>2 DEF Changes, LogTypeOK
  <1>4. StoreMirrorsHandle' /\ HistoryKept'
    BY <1>1 DEF StoreMirrorsHandle, HistoryKept, Changes, observers
  <1>5. ASSUME NEW b \in Algs PROVE SameBelow(Ref(b), Ref(b)', count)
    <2>1. \A i \in 0..count - 1 : /\ IsActiveAt(epochs'[b], i) <=> IsActiveAt(epochs[b], i)
                                  /\ history'[i + 1] = history[i + 1]
      BY <1>2 DEF Changes, observers
    <2>2. count \in Nat
      BY <1>1, SizeKnown
    <2> QED
      BY <2>1, <2>2, ReferencesAgree
  <1> QED
    BY <1>2, <1>3, <1>4, <1>5 DEF BasicsKept

\* A step that leaves an algorithm's handle and store alone.
Untouched(a) == coords'[a] = coords[a] /\ frontier'[a] = frontier[a] /\ SameNodes(nodes', a)

\* Handle entries for every algorithm, before and after.
HandlesSame == frontier' = [b \in Algs |-> frontier'[b]] /\ coords' = [b \in Algs |-> coords'[b]]

\* add_algorithm: the peaks it starts from are null, and so is all its past.
LEMMA AddKeepsAlg ==
  ASSUME BasicsKept, NEW a \in Algs, AddAlgorithm(a)
  PROVE  /\ Changes(a, <<<<count, Open>>>>) /\ HandlesSame
         /\ \A b \in Algs \ {a} : Untouched(b)
         /\ AlgKept(a, 0) => AlgKept(a, 0)'
  <1> DEFINE eps == <<<<count, Open>>>>
  <1>1. LogTypeOK /\ epochs[a] = <<>>
    BY DEF BasicsKept, AddAlgorithm, Registered
  <1>2. /\ count \in Nat /\ count < Open /\ <<>> \in Seq(Interval)
        /\ TreeSize(Resumed(<<>>, count), count) = count
    BY <1>1, SizeKnown
  <1>3. eps = Resumed(<<>>, count) /\ eps \in Seq(Interval)
    <2>1. <<count, Open>> \in Interval
      BY <1>2, OpenAssumption DEF Interval
    <2> QED
      BY <2>1 DEF Resumed
  <1>4. ValidEpochs(eps, count)
    BY <1>2, OpenAssumption DEF ValidEpochs
  <1>5. /\ epochs' = [epochs EXCEPT ![a] = eps] /\ metas' = [metas EXCEPT ![a] = eps]
        /\ coords' = [coords EXCEPT ![a] = FrontierForSize(count)]
        /\ frontier' = [frontier EXCEPT ![a] = [i \in DOMAIN coords'[a] |-> Null(a)]]
        /\ UNCHANGED <<count, kind, storedCount, leaves, nodes, observers>>
    BY DEF AddAlgorithm, SetEpochs
  <1>6. \A i \in 0..count - 1 : IsActiveAt(eps, i) <=> IsActiveAt(epochs[a], i)
    BY <1>1, <1>2, <1>3, ResumeActivity
  <1>7. TreeSize(eps, count) = count
    BY <1>2, <1>3
  <1>8. Changes(a, eps)
    BY <1>3, <1>4, <1>5, <1>6, <1>7 DEF Changes
  <1>9. HandlesSame
    BY <1>1, <1>5 DEF LogTypeOK, HandlesSame
  <1>10. \A b \in Algs \ {a} : Untouched(b)
    BY <1>1, <1>5 DEF LogTypeOK, Untouched, SameNodes
  <1>11. ASSUME AlgKept(a, 0) PROVE AlgKept(a, 0)'
    <2> DEFINE at == FrontierForSize(count)
               r == Ref(a)
    <2>1. coords'[a] = at /\ frontier'[a] = [i \in DOMAIN at |-> Null(a)]
      BY <1>1, <1>5 DEF LogTypeOK
    <2>2. Covers(at, 0, count)
      BY <1>2, FrontierCovers
    <2> HIDE DEF at
    <2>3. DOMAIN at = 1..Len(at) /\ at \in Seq(Coordinates)
      BY <2>2 DEF Covers
    <2>4. TreeOf(a, r) /\ \A j \in Nat : r[<<j, 0>>] = Null(a)
      <3>1. \A j : ~IsActiveAt(epochs[a], j)
        <4>1. \A j : ~IsActiveAt(<<>>, j)
          BY DEF IsActiveAt
        <4> QED
          BY <1>1, <4>1
      <3>2. \A j \in Nat : ReferenceLeaf(a, j) = Null(a)
        BY <3>1 DEF ReferenceLeaf
      <3> QED
        BY <3>2, References
    <2> HIDE DEF r
    <2>5. ASSUME NEW i \in 1..Len(at) PROVE r[at[i]] = Null(a)
      <3> DEFINE c == at[i]
      <3>1. c \in Coordinates
        BY <2>3
      <3> HIDE DEF c
      <3>2. c = <<c[1], c[2]>> /\ c[1] \in Nat /\ c[2] \in Nat
        BY <3>1, CoordinateIsPair
      <3>3. \A j \in Under(c[1], c[2]) : r[<<j, 0>>] = Null(a)
        BY <2>4 DEF Under
      <3>4. r[<<c[1], c[2]>>] = Null(a)
        BY <2>4, <3>2, <3>3, NullRoots
      <3> QED
        BY <3>2, <3>4 DEF c
    <2>6. frontier'[a] = PeaksOf(r, count)
      BY <2>1, <2>3, <2>5 DEF PeaksOf, at
    <2>7. Size(a) = 0
      BY <1>1 DEF Size, TreeSize
    <2>8. \A c \in Coordinates : Node(a, c) \notin DOMAIN nodes
      <3>1. \A c \in Coordinates : c \notin Blocks(0)
        BY CoordinateIsPair DEF Blocks
      <3> QED
        BY <1>11, <2>7, <3>1 DEF AlgKept, HeldFrom
    <2>9. \A c \in Blocks(count) : ~ActiveRange(eps, c[1], End(c))
      <3>1. \A c \in Blocks(count) : End(c) \in Nat /\ End(c) <= count
        BY CoordinateIsPair DEF Blocks
      <3>2. \A e \in DOMAIN eps : eps[e][1] = count
        OBVIOUS
      <3> QED
        BY <1>2, <3>1, <3>2 DEF ActiveRange
    <2>10. HeldFrom(nodes', a, eps, count, r, 0)
      <3>1. nodes' = nodes
        BY <1>5
      <3> HIDE DEF eps
      <3> QED
        BY <2>8, <2>9, <3>1 DEF HeldFrom
    <2>11. SameBelow(Ref(a), Ref(a)', count) /\ epochs'[a] = eps
      BY <1>8, <1>9, ChangesKeep DEF HandlesSame
    <2>12. 0 \in 0..count /\ count' = count
      BY <1>2, <1>5
    <2>13. coords'[a] = FrontierForSize(count) /\ frontier'[a] = PeaksOf(Ref(a), count)
           /\ HeldFrom(nodes', a, eps, count, Ref(a), 0)
      BY <2>1, <2>6, <2>10 DEF at, r
    <2> HIDE DEF eps
    <2> QED
      BY <1>7, <2>11, <2>12, <2>13, KeptChanged
  <1> QED
    BY <1>8, <1>9, <1>10, <1>11

\* remove_algorithm changes no activity below the log's size.
LEMMA RemoveKeepsAlg ==
  ASSUME BasicsKept, NEW a \in Algs, RemoveAlgorithm(a)
  PROVE  /\ Changes(a, Closed(epochs[a], count)) /\ HandlesSame
         /\ \A b \in Algs \ {a} : Untouched(b)
         /\ \A from : AlgKept(a, from) => AlgKept(a, from)'
  <1> DEFINE eps == Closed(epochs[a], count)
  <1>1. LogTypeOK /\ IsActive(epochs[a])
    BY DEF BasicsKept, RemoveAlgorithm
  <1>2. /\ count \in Nat /\ count < Open /\ epochs[a] \in Seq(Interval)
        /\ Size(a) = count /\ TreeSize(eps, count) = count
    BY <1>1, SizeKnown
  <1>3. epochs[a] # <<>> /\ ValidEpochs(epochs[a], count)
    BY <1>1 DEF LogTypeOK, Registered, IsActive
  <1>4. eps \in Seq(Interval) /\ ValidEpochs(eps, count)
    BY <1>1, <1>2, <1>3, CloseLast, CloseValid
  <1>5. /\ epochs' = [epochs EXCEPT ![a] = eps] /\ metas' = [metas EXCEPT ![a] = eps]
        /\ UNCHANGED <<count, kind, frontier, coords, storedCount, leaves, nodes, observers>>
    BY DEF RemoveAlgorithm, SetEpochs, Closed
  <1>6. \A i \in 0..count - 1 : IsActiveAt(eps, i) <=> IsActiveAt(epochs[a], i)
    BY <1>1, <1>2, CloseActivity
  <1>7. Changes(a, eps)
    BY <1>2, <1>4, <1>5, <1>6 DEF Changes
  <1>8. HandlesSame
    BY <1>1, <1>5 DEF LogTypeOK, HandlesSame
  <1>9. \A b \in Algs \ {a} : Untouched(b)
    BY <1>5 DEF Untouched, SameNodes
  <1>10. ASSUME NEW from, AlgKept(a, from) PROVE AlgKept(a, from)'
    <2>1. /\ from \in 0..count /\ coords[a] = FrontierForSize(count) /\ frontier[a] = PeaksOf(Ref(a), count)
          /\ HeldFrom(nodes, a, epochs[a], count, Ref(a), from)
      BY <1>2, <1>10 DEF AlgKept
    <2>2. ASSUME NEW c \in Blocks(count)
          PROVE  ActiveRange(eps, c[1], End(c)) <=> ActiveRange(epochs[a], c[1], End(c))
      <3>1. c[1] \in Nat /\ End(c) \in Nat /\ c[1] < End(c) /\ End(c) <= count
        BY CoordinateIsPair DEF Blocks
      <3> QED
        BY <1>1, <1>2, <3>1, CloseRange
    <2>3. HeldFrom(nodes', a, eps, count, Ref(a), from)
      BY <1>5, <2>1, <2>2 DEF HeldFrom
    <2>4. SameBelow(Ref(a), Ref(a)', count) /\ epochs'[a] = eps
      BY <1>7, <1>8, ChangesKeep DEF HandlesSame
    <2>5. coords'[a] = FrontierForSize(count) /\ frontier'[a] = PeaksOf(Ref(a), count) /\ count' = count
      BY <1>5, <2>1
    <2> HIDE DEF eps
    <2> QED
      BY <1>2, <2>1, <2>3, <2>4, <2>5, KeptChanged
  <1> QED
    BY <1>7, <1>8, <1>9, <1>10

-----------------------------------------------------------------------------
(* Keys: no algorithm writes where another one reads *)

OwnKeys(md, a) == \A x \in DOMAIN md : x[1] = a

\* What a rebuild stores are the algorithm's own nodes.
LEMMA RebuildOwnKeys ==
  ASSUME NEW a, NEW eps, NEW h \in Nat
  PROVE  \A l \in Nat : OwnKeys(Rebuild(a, eps, l, h).mixed, a)
  <1> DEFINE S == {g \in Nat : \A l \in Nat : OwnKeys(Rebuild(a, eps, l, g).mixed, a)}
  <1>1. RebuildsFromLeaves(a, eps)
    BY RebuildRuns
  <1>2. OwnKeys(<<>>, a)
    BY DEF OwnKeys
  <1>3. 0 \in S
    <2> SUFFICES ASSUME NEW l \in Nat PROVE OwnKeys(Rebuild(a, eps, l, 0).mixed, a)
      OBVIOUS
    <2>1. Rebuild(a, eps, l, 0) = [root |-> RebuildLeaf(a, eps, l), mixed |-> <<>>]
      BY <1>1 DEF RebuildsFromLeaves
    <2> QED
      BY <1>2, <2>1
  <1>4. ASSUME NEW g \in Nat, g \in S PROVE g + 1 \in S
    <2> SUFFICES ASSUME NEW l \in Nat PROVE OwnKeys(Rebuild(a, eps, l, g + 1).mixed, a)
      OBVIOUS
    <2> DEFINE below == [j \in 1..Arity |-> Rebuild(a, eps, l + (j - 1) * BlockSize(g), g)]
               root == NaryMr(a, [j \in 1..Arity |-> below[j].root])
               fam == [j \in 1..Arity |-> below[j].mixed]
               key == <<a, l, g + 1>>
               got == Rebuild(a, eps, l, g + 1)
    <2>1. got = RebuildStep(a, eps, l, g + 1, below)
      BY <1>1 DEF RebuildsFromLeaves
    <2>2. \A j \in 1..Arity : OwnKeys(below[j].mixed, a)
      <3> SUFFICES ASSUME NEW j \in 1..Arity PROVE OwnKeys(below[j].mixed, a)
        OBVIOUS
      <3> DEFINE x == l + (j - 1) * BlockSize(g)
      <3>1. x \in Nat
        BY Children
      <3> HIDE DEF x
      <3>2. OwnKeys(Rebuild(a, eps, x, g).mixed, a)
        BY <1>4, <3>1
      <3> QED
        BY <3>2 DEF x
    <2>3. DOMAIN fam = 1..Arity /\ \A j \in 1..Arity : OwnKeys(fam[j], a)
      BY <2>2
    <2>4. got = [root |-> Null(a), mixed |-> <<>>]
          \/ got = [root |-> nodes[key], mixed |-> <<>>]
          \/ got = [root |-> root, mixed |-> Over(Only(key, root), Merged(fam))]
      <3> HIDE DEF below
      <3> QED
        BY <2>1 DEF RebuildStep
    <2> HIDE DEF fam, root, below, got
    <2>5. got.mixed = <<>> \/ got.mixed = Over(Only(key, root), Merged(fam))
      BY <2>4
    <2>6. ASSUME NEW x \in DOMAIN Over(Only(key, root), Merged(fam)) PROVE x[1] = a
      <3>1. x \in DOMAIN Only(key, root) \/ x \in DOMAIN Merged(fam)
        BY OverHas
      <3>2. CASE x \in DOMAIN Only(key, root)
        BY <3>2 DEF Only
      <3>3. CASE x \in DOMAIN Merged(fam)
        <4>1. PICK j \in DOMAIN fam : x \in DOMAIN fam[j]
          BY <3>3, MergedOnly
        <4> QED
          BY <2>3, <4>1 DEF OwnKeys
      <3> QED
        BY <3>1, <3>2, <3>3
    <2>7. OwnKeys(got.mixed, a)
      BY <1>2, <2>5, <2>6 DEF OwnKeys
    <2> QED
      BY <2>7 DEF got
  <1> HIDE DEF S
  <1>5. \A g \in Nat : g \in S
    BY <1>3, <1>4, SetInduction
  <1> QED
    BY <1>5 DEF S

\* So do the digests a carry makes.
LEMMA PushOwnKeys ==
  ASSUME NEW a, NEW peaks, NEW at, NEW i, NEW n \in Nat, NEW digest
  PROVE  OwnKeys(Push(a, peaks, at, i, n, digest).made, a)
  <1>1. PICK after : Merges(after, a, peaks, at, i, digest)
    BY PushRuns
  <1> DEFINE S == {m \in Nat : OwnKeys(after[m].made, a)}
  <1>2. 0 \in S
    <2>1. after[0].made = Only(<<a, i, 0>>, digest)
      BY <1>1 DEF Merges, PushStart
    <2> QED
      BY <2>1 DEF OwnKeys, Only
  <1>3. ASSUME NEW m \in Nat, m \in S PROVE m + 1 \in S
    <2> DEFINE s == after[m]
    <2>1. after[m + 1] = PushStep(a, s)
      BY <1>1 DEF Merges
    <2>2. \E l, h, parent : PushStep(a, s).made = Over(Only(<<a, l, h>>, parent), s.made)
      BY Zenon DEF PushStep
    <2>3. PICK l, h, parent : after[m + 1].made = Over(Only(<<a, l, h>>, parent), s.made)
      BY <2>1, <2>2
    <2>4. OwnKeys(s.made, a)
      BY <1>3
    <2> HIDE DEF s
    <2>5. ASSUME NEW x \in DOMAIN Over(Only(<<a, l, h>>, parent), s.made) PROVE x[1] = a
      <3>1. x \in DOMAIN Only(<<a, l, h>>, parent) \/ x \in DOMAIN s.made
        BY OverHas
      <3> QED
        BY <2>4, <3>1 DEF Only, OwnKeys
    <2>6. OwnKeys(after[m + 1].made, a)
      BY <2>3, <2>5 DEF OwnKeys
    <2> QED
      BY <2>6
  <1> HIDE DEF S
  <1>4. \A m \in Nat : m \in S
    BY <1>2, <1>3, SetInduction
  <1>5. Push(a, peaks, at, i, n, digest) = after[ReductionCount(n)] /\ ReductionCount(n) \in Nat
    BY <1>1, Reductions DEF Merges
  <1> QED
    BY <1>4, <1>5 DEF S

\* What several algorithms store, each under its own keys: of one of them the store
\* gains what it made, and of the others nothing.
LEMMA OwnKeysApart ==
  ASSUME NEW fam, \A b \in DOMAIN fam : OwnKeys(fam[b], b), NEW md, md = Over(Merged(fam), nodes),
         NEW a, NEW x, x[1] = a
  PROVE  /\ x \in DOMAIN md <=> (a \in DOMAIN fam /\ x \in DOMAIN fam[a]) \/ x \in DOMAIN nodes
         /\ a \in DOMAIN fam /\ x \in DOMAIN fam[a] => md[x] = fam[a][x]
         /\ x \in DOMAIN nodes /\ ~(a \in DOMAIN fam /\ x \in DOMAIN fam[a]) => md[x] = nodes[x]
  <1> DEFINE new == Merged(fam)
  <1>1. /\ x \in DOMAIN md <=> x \in DOMAIN new \/ x \in DOMAIN nodes
        /\ x \in DOMAIN new => md[x] = new[x]
        /\ x \in DOMAIN nodes /\ x \notin DOMAIN new => md[x] = nodes[x]
    <2> HIDE DEF new
    <2> QED
      BY OverHas DEF new
  <1>2. \A b \in DOMAIN fam : x \in DOMAIN fam[b] => b = a
    BY DEF OwnKeys
  <1>3. ASSUME x \in DOMAIN new PROVE a \in DOMAIN fam /\ x \in DOMAIN fam[a]
    <2>1. PICK b \in DOMAIN fam : x \in DOMAIN fam[b]
      BY <1>3, MergedOnly
    <2> QED
      BY <1>2, <2>1
  <1>4. ASSUME a \in DOMAIN fam, x \in DOMAIN fam[a] PROVE x \in DOMAIN new /\ new[x] = fam[a][x]
    <2>1. Agreeing(fam, x)
      BY <1>2 DEF Agreeing
    <2> QED
      BY <1>4, <2>1, MergedIs
  <1> HIDE DEF new
  <1> QED
    BY <1>1, <1>3, <1>4

-----------------------------------------------------------------------------
(* Resuming, appending and reopening *)

\* resume_algorithm: other algorithms are not touched; one that was held in full is
\* rebuilt in full.
LEMMA ResumeKeepsAlg ==
  ASSUME BasicsKept, NEW a \in Algs, ResumeAlgorithm(a)
  PROVE  /\ Changes(a, Resumed(epochs[a], count)) /\ HandlesSame
         /\ \A b \in Algs \ {a} : Untouched(b)
         /\ AlgKept(a, 0) => AlgKept(a, 0)'
  <1> DEFINE eps == Resumed(epochs[a], count)
             at == FrontierForSize(count)
             built == [i \in DOMAIN at |-> Rebuild(a, eps, at[i][1], at[i][2])]
             fam == [i \in DOMAIN at |-> built[i].mixed]
             r == Ref(a)
  <1>1. LogTypeOK /\ HistoryKept /\ epochs[a] # <<>> /\ ~IsActive(epochs[a])
    BY DEF BasicsKept, ResumeAlgorithm, Registered
  <1>2. /\ count \in Nat /\ count < Open /\ epochs[a] \in Seq(Interval)
        /\ TreeSize(eps, count) = count /\ Size(a) \in Nat
    BY <1>1, SizeKnown
  <1>3. eps \in Seq(Interval) /\ ValidEpochs(eps, count)
    BY <1>1, <1>2, StartAnother, ResumeValid DEF LogTypeOK, Registered
  <1>4. /\ epochs' = [epochs EXCEPT ![a] = eps] /\ metas' = [metas EXCEPT ![a] = eps]
        /\ coords' = [coords EXCEPT ![a] = at]
        /\ frontier' = [frontier EXCEPT ![a] = [i \in DOMAIN at |-> built[i].root]]
        /\ nodes' = Over(Merged(fam), nodes)
        /\ UNCHANGED <<count, kind, storedCount, leaves, observers>>
    BY DEF ResumeAlgorithm, SetEpochs, Resumed
  <1>5. \A i \in 0..count - 1 : IsActiveAt(eps, i) <=> IsActiveAt(epochs[a], i)
    BY <1>2, ResumeActivity
  <1>6. Changes(a, eps)
    BY <1>2, <1>3, <1>4, <1>5 DEF Changes
  <1>7. HandlesSame
    BY <1>1, <1>4 DEF LogTypeOK, HandlesSame
  <1>8. Covers(at, 0, count) /\ DOMAIN at = 1..Len(at) /\ at \in Seq(Coordinates)
    <2>1. Covers(at, 0, count)
      BY <1>2, FrontierCovers
    <2> QED
      BY <2>1 DEF Covers
  <1>9. coords'[a] = at /\ frontier'[a] = [i \in 1..Len(at) |-> built[i].root]
    BY <1>1, <1>4, <1>8 DEF LogTypeOK
  <1>10. \A b \in Algs \ {a} : coords'[b] = coords[b] /\ frontier'[b] = frontier[b]
    BY <1>1, <1>4 DEF LogTypeOK
  <1> HIDE DEF at
  <1>11. \A i \in 1..Len(at) : built[i] = Rebuild(a, eps, at[i][1], at[i][2]) /\ fam[i] = built[i].mixed
    BY <1>8
  <1>12. DOMAIN fam = 1..Len(at)
    BY <1>8
  <1> HIDE DEF built, fam
  <1>13. \A i \in DOMAIN fam : OwnKeys(fam[i], a)
    <2> SUFFICES ASSUME NEW i \in 1..Len(at) PROVE OwnKeys(fam[i], a)
      BY <1>12
    <2>1. at[i] \in Coordinates
      BY <1>8
    <2>2. at[i][1] \in Nat /\ at[i][2] \in Nat
      BY <2>1 DEF Coordinates
    <2> QED
      BY <1>11, <2>2, RebuildOwnKeys
  <1>14. \A b \in Algs \ {a} : Untouched(b)
    <2> SUFFICES ASSUME NEW b \in Algs \ {a}, NEW c \in Coordinates
                 PROVE  /\ Node(b, c) \in DOMAIN nodes' <=> Node(b, c) \in DOMAIN nodes
                        /\ Node(b, c) \in DOMAIN nodes => nodes'[Node(b, c)] = nodes[Node(b, c)]
      BY <1>10 DEF Untouched, SameNodes
    <2>1. Node(b, c) \notin DOMAIN Merged(fam)
      <3> SUFFICES ASSUME Node(b, c) \in DOMAIN Merged(fam) PROVE FALSE
        OBVIOUS
      <3>1. PICK i \in DOMAIN fam : Node(b, c) \in DOMAIN fam[i]
        BY MergedOnly
      <3>2. Node(b, c)[1] = b
        BY DEF Node
      <3> QED
        BY <1>13, <3>1, <3>2 DEF OwnKeys
    <2> QED
      BY <1>4, <2>1, OverHas
  <1>15. ASSUME AlgKept(a, 0) PROVE AlgKept(a, 0)'
    <2>1. Held(nodes, a, epochs[a], Size(a), r)
      <3> DEFINE n == Size(a)
      <3>1. n \in Nat /\ HeldFrom(nodes, a, epochs[a], n, r, 0)
        BY <1>2, <1>15 DEF AlgKept
      <3> HIDE DEF n, r
      <3>2. Held(nodes, a, epochs[a], n, r)
        BY <3>1, HeldFromStart
      <3> QED
        BY <3>2 DEF n
    <2>2. ASSUME NEW i \in 1..Len(at)
          PROVE  Rebuilt(a, eps, r, at[i][1], at[i][2], built[i]) /\ built[i].root = r[at[i]]
      <3> DEFINE c == at[i]
      <3>1. c \in Blocks(count)
        BY <1>2, <1>8, PeaksAreBlocks
      <3>2. built[i] = Rebuild(a, eps, c[1], c[2])
        BY <1>11
      <3> HIDE DEF c
      <3>3. eps = Resumed(epochs[a], count)
        OBVIOUS
      <3> HIDE DEF eps
      <3>4. Rebuilt(a, eps, Ref(a), c[1], c[2], built[i])
        BY <1>1, <2>1, <3>1, <3>2, <3>3, RebuildIs
      <3>5. c = <<c[1], c[2]>>
        BY <3>1, CoordinateIsPair DEF Blocks
      <3> QED
        BY <3>4, <3>5 DEF Rebuilt, c
    <2> HIDE DEF r
    <2>3. frontier'[a] = PeaksOf(r, count)
      BY <1>9, <2>2 DEF PeaksOf, at
    <2>4. SameBelow(Ref(a), Ref(a)', count) /\ epochs'[a] = eps /\ count' = count
      BY <1>4, <1>6, <1>7, ChangesKeep DEF HandlesSame
    <2> HIDE DEF eps
    <2>5. AllRebuilt(a, eps, r, at, built)
      BY <2>2 DEF AllRebuilt
    <2>6. MixedOf(fam, at, built)
      BY <1>11, <1>12 DEF MixedOf
    <2>7. nodes' = Over(Merged(fam), nodes)
      BY <1>4
    <2>8. Held(nodes', a, eps, count, r)
      BY <1>1, <1>8, <2>1, <2>5, <2>6, <2>7, ResumeStores
    <2>9. HeldFrom(nodes', a, eps, count, r, 0)
      BY <1>2, <2>8, HeldFromStart
    <2>10. 0 \in 0..count
      BY <1>2
    <2>11. coords'[a] = FrontierForSize(count) /\ frontier'[a] = PeaksOf(Ref(a), count)
           /\ HeldFrom(nodes', a, eps, count, Ref(a), 0)
      BY <1>9, <2>3, <2>9 DEF at, r
    <2> QED
      BY <1>2, <2>4, <2>10, <2>11, KeptChanged
  <1> QED
    BY <1>6, <1>7, <1>14, <1>15

\* from_storage: the peaks are read back as they were.
LEMMA ReopenKeepsAlg ==
  ASSUME BasicsKept, Reopen
  PROVE  /\ BasicsKept' /\ count' = count /\ epochs' = epochs /\ history' = history
         /\ \A a \in Algs : Ref(a)' = Ref(a)
         /\ \A a \in Algs : \A from : AlgKept(a, from) => AlgKept(a, from)'
  <1>1. LogTypeOK /\ StoreMirrorsHandle /\ HistoryKept
    BY DEF BasicsKept
  <1>2. /\ count' = count /\ epochs' = epochs /\ metas' = metas /\ storedCount' = storedCount
        /\ kind' = IF leaves # <<>> THEN "flat" ELSE "subtree"
        /\ coords' = [a \in Algs |-> StoredCoords(a)] /\ frontier' = [a \in Algs |-> StoredFrontier(a)]
        /\ UNCHANGED <<leaves, nodes, history, outgrown>>
    BY <1>1 DEF Reopen, StoreMirrorsHandle, observers
  <1>3. LogTypeOK'
    BY <1>1, <1>2 DEF LogTypeOK, Registered
  <1>4. StoreMirrorsHandle'
    BY <1>1, <1>2 DEF StoreMirrorsHandle
  <1>5. HistoryKept'
    BY <1>1, <1>2 DEF HistoryKept, LogTypeOK
  <1>6. \A a \in Algs : Ref(a)' = Ref(a) /\ Size(a)' = Size(a)
    BY <1>2 DEF Ref, LeafOf, ReferenceLeaf, Size
  <1>7. ASSUME NEW a \in Algs, NEW from, AlgKept(a, from) PROVE AlgKept(a, from)'
    <2> DEFINE at == FrontierForSize(Size(a))
               n == Size(a)
    <2>1. /\ from \in 0..n /\ coords[a] = at /\ frontier[a] = PeaksOf(Ref(a), n)
      BY <1>7 DEF AlgKept
    <2>2. n \in Nat /\ Covers(at, 0, n)
      BY <1>1, SizeKnown, FrontierCovers
    <2>3. StoredCoords(a) = at
      BY <1>1 DEF StoredCoords, Size, StoreMirrorsHandle
    <2> HIDE DEF at
    <2>4. \A i \in 1..Len(at) : at[i] \in Blocks(n) /\ Asked(from, at[i])
      <3> HIDE DEF n
      <3> QED
        BY <2>1, <2>2, PeaksAsked
    <2>5. \A i \in 1..Len(at) : GetNodeHash(a, epochs[a], at[i][1], at[i][2]) = Ref(a)[at[i]]
      BY <1>7, <2>4, KeptReads
    <2>6. StoredFrontier(a) = [i \in 1..Len(at) |-> GetNodeHash(a, epochs[a], at[i][1], at[i][2])]
      BY <1>1, <2>3 DEF StoredFrontier, StoreMirrorsHandle
    <2>7. StoredFrontier(a) = PeaksOf(Ref(a), n)
      BY <2>5, <2>6 DEF PeaksOf, at
    <2>8. coords'[a] = coords[a] /\ frontier'[a] = frontier[a]
      BY <1>2, <2>1, <2>3, <2>7
    <2>9. SameNodes(nodes', a) /\ count' = count /\ epochs'[a] = epochs[a] /\ history' = history
      BY <1>2 DEF SameNodes
    <2> QED
      BY <1>7, <2>8, <2>9, KeptAlike
  <1> QED
    BY <1>2, <1>3, <1>4, <1>5, <1>6, <1>7 DEF BasicsKept

\* What an append makes of a store that begins at a size.
LEMMA AppendHoldsFrom ==
  ASSUME NEW nd, NEW md, NEW a, NEW eps, NEW n \in Nat, NEW r, NEW s, NEW from,
         HeldFrom(nd, a, eps, n, r, from), TreeOf(a, r), TreeOf(a, s), SameBelow(r, s, n),
         NEW made, made = MadeOf(a, n, s),
         \A c \in Coordinates : Node(a, c) \in DOMAIN md
                                  <=> Node(a, c) \in DOMAIN made \/ Node(a, c) \in DOMAIN nd,
         \A c \in Coordinates : Node(a, c) \in DOMAIN md =>
           md[Node(a, c)] = IF Node(a, c) \in DOMAIN made THEN made[Node(a, c)] ELSE nd[Node(a, c)]
  PROVE  HeldFrom(md, a, eps, n + 1, s, from)
  <1> DEFINE r0 == ReductionCount(n)
             New == {<<n + 1 - BlockSize(j), j>> : j \in 0..r0}
  <1>1. Blocks(n + 1) = Blocks(n) \cup New
    BY NewBlocks
  <1>2. \A c \in Blocks(n) : r[c] = s[c]
    BY SameBlocks
  <1>3. Blocks(n + 1) \subseteq Coordinates /\ Blocks(n) \subseteq Coordinates
    BY DEF Blocks
  <1>4. ASSUME NEW c \in Coordinates
        PROVE  /\ Node(a, c) \in DOMAIN made <=> c \in New
               /\ Node(a, c) \in DOMAIN made => made[Node(a, c)] = s[c]
    <2>1. DOMAIN made = {<<a, n + 1 - BlockSize(j), j>> : j \in 0..r0}
      BY DEF MadeOf, EndingAt
    <2>2. c = <<c[1], c[2]>> /\ Node(a, c)[2] = c[1] /\ Node(a, c)[3] = c[2]
      BY CoordinateIsPair DEF Node
    <2>3. Node(a, c) \in DOMAIN made => made[Node(a, c)] = s[<<Node(a, c)[2], Node(a, c)[3]>>]
      BY DEF MadeOf
    <2> HIDE DEF r0
    <2>4. Node(a, c) \in DOMAIN made <=> \E j \in 0..r0 : c[1] = n + 1 - BlockSize(j) /\ c[2] = j
      BY <2>1 DEF Node
    <2>5. c \in New <=> \E j \in 0..r0 : c[1] = n + 1 - BlockSize(j) /\ c[2] = j
      BY <2>2
    <2> QED
      BY <2>2, <2>3, <2>4, <2>5
  <1> HIDE DEF New
  <1>5. ASSUME NEW c \in Coordinates, Node(a, c) \in DOMAIN md
        PROVE  c \in Blocks(n + 1) /\ md[Node(a, c)] = s[c]
    BY <1>1, <1>2, <1>4, <1>5 DEF HeldFrom
  <1>6. ASSUME NEW c \in Blocks(n + 1), Asked(from, c), ActiveRange(eps, c[1], End(c))
        PROVE  Node(a, c) \in DOMAIN md
    BY <1>1, <1>3, <1>4, <1>6 DEF HeldFrom
  <1> QED
    BY <1>5, <1>6 DEF HeldFrom

\* An append: the carry of an active algorithm makes the new peaks from the old ones
\* and stores the blocks that end with the item, from wherever its store begins.
LEMMA AppendKeepsAlg ==
  ASSUME BasicsKept, NoNullItems, AppendLeaf \/ AppendSubtree
  PROVE  /\ BasicsKept' /\ count' = count + 1 /\ epochs' = epochs
         /\ \A a \in Algs : SameBelow(Ref(a), Ref(a)', count)
         /\ \A a \in Algs : \A from : AlgKept(a, from) => AlgKept(a, from)'
  <1>1. PICK item \in Offer[count + 1] : AppendItem(item)
    BY DEF AppendLeaf, AppendSubtree
  <1> DEFINE active == {a \in Algs : IsActive(epochs[a])}
             carried == [a \in active |-> Carry(a, frontier[a], coords[a], count,
                           IF IsActiveAt(epochs[a], count) THEN Evaluate(a, item) ELSE Null(a))]
             fam == [a \in active |-> Persisted(carried[a].made)]
  <1>2. /\ nodes' = Over(Merged(fam), nodes)
        /\ frontier' = [a \in Algs |-> IF a \in active THEN carried[a].peaks ELSE frontier[a]]
        /\ coords' = [a \in Algs |-> IF a \in active THEN carried[a].at ELSE coords[a]]
        /\ count' = count + 1 /\ history' = Append(history, item) /\ UNCHANGED <<epochs, metas>>
    BY <1>1 DEF AppendItem
  <1>3. LogTypeOK /\ StoreMirrorsHandle /\ HistoryKept
    BY DEF BasicsKept
  <1>4. BasicsKept'
    BY <1>3, AppendBasics DEF BasicsKept
  <1>5. count < MaxCount /\ count \in Nat
    BY <1>3, LogAssumption DEF AppendLeaf, AppendSubtree, LogTypeOK
  <1>6. Appends(item)
    BY <1>1, <1>2, <1>5 DEF Appends
  <1>7. \A a \in Algs : SameBelow(Ref(a), Ref(a)', count)
    BY <1>3, <1>6, AppendLeavesBelow
  <1>8. DOMAIN fam = active /\ \A b \in DOMAIN fam : OwnKeys(fam[b], b)
    <2> SUFFICES ASSUME NEW b \in active PROVE OwnKeys(fam[b], b)
      OBVIOUS
    <2> DEFINE made == carried[b].made
    <2>1. \E digest : carried[b] = Push(b, frontier[b], coords[b], count, count, digest)
      <3> DEFINE digest == IF IsActiveAt(epochs[b], count) THEN Evaluate(b, item) ELSE Null(b)
      <3>1. carried[b] = Carry(b, frontier[b], coords[b], count, digest)
        OBVIOUS
      <3> QED
        BY <3>1 DEF Carry
    <2>2. fam[b] = Persisted(made)
      OBVIOUS
    <2> HIDE DEF carried, fam
    <2>3. OwnKeys(made, b)
      BY <1>5, <2>1, PushOwnKeys
    <2> HIDE DEF made
    <2> QED
      BY <2>2, <2>3 DEF OwnKeys, Persisted, Restrict
  <1>9. ASSUME NEW a \in Algs, NEW from, AlgKept(a, from) PROVE AlgKept(a, from)'
    <2> DEFINE r == Ref(a)
               q == Ref(a)'
               n == Size(a)
               eps == epochs[a]
    <2>1. TreeOf(a, r) /\ TreeOf(a, q) /\ SameBelow(r, q, count)
      BY <1>7, References
    <2>2. /\ n \in 0..count /\ n \in Nat
          /\ IsActive(eps) => n = count /\ IsActiveAt(eps, count)
          /\ ~IsActive(eps) => TreeSize(eps, count + 1) = n
      BY <1>3, SizeKnown
    <2>3. /\ from \in 0..n /\ coords[a] = FrontierForSize(n) /\ frontier[a] = PeaksOf(r, n)
          /\ HeldFrom(nodes, a, eps, n, r, from)
      BY <1>9 DEF AlgKept
    <2>4. Size(a)' = TreeSize(eps, count + 1) /\ epochs'[a] = eps
      BY <1>2 DEF Size
    <2>5. CASE a \in active
      <3>1. IsActive(eps) /\ n = count /\ Size(a)' = count + 1
        <4>1. IsActive(eps)
          BY <2>5
        <4> QED
          BY <2>2, <2>4, <4>1 DEF TreeSize, IsActive
      <3> DEFINE s == carried[a]
                 made == MadeOf(a, count, q)
      <3>2. s = Carry(a, frontier[a], coords[a], count, Evaluate(a, item))
        BY <2>2, <2>5, <3>1
      <3>3. fam[a] = Persisted(s.made)
        BY <2>5
      <3>4. frontier'[a] = s.peaks /\ coords'[a] = s.at
        BY <1>2, <2>5
      <3> HIDE DEF s, fam, carried, active
      <3>5. coords[a] = FrontierForSize(count) /\ frontier[a] = PeaksOf(Ref(a), count) /\ IsActive(epochs[a])
        BY <2>3, <3>1
      <3>6. /\ s.at = FrontierForSize(count + 1)
            /\ s.peaks = PeaksOf(Ref(a)', count + 1)
            /\ Persisted(s.made) = MadeOf(a, count, Ref(a)')
        BY <1>3, <1>6, <3>2, <3>5, CarryIs
      <3>7. fam[a] = made /\ a \in DOMAIN fam
        BY <1>8, <2>5, <3>3, <3>6
      <3>8. \A c \in Coordinates :
              /\ Node(a, c) \in DOMAIN nodes' <=> Node(a, c) \in DOMAIN made \/ Node(a, c) \in DOMAIN nodes
              /\ Node(a, c) \in DOMAIN nodes' =>
                   nodes'[Node(a, c)] = IF Node(a, c) \in DOMAIN made
                                        THEN made[Node(a, c)] ELSE nodes[Node(a, c)]
        <4> HIDE DEF made
        <4> SUFFICES ASSUME NEW x, x[1] = a
                     PROVE  /\ x \in DOMAIN nodes' <=> x \in DOMAIN made \/ x \in DOMAIN nodes
                            /\ x \in DOMAIN nodes' =>
                                 nodes'[x] = IF x \in DOMAIN made THEN made[x] ELSE nodes[x]
          BY DEF Node
        <4>1. /\ x \in DOMAIN nodes' <=> (a \in DOMAIN fam /\ x \in DOMAIN fam[a]) \/ x \in DOMAIN nodes
              /\ a \in DOMAIN fam /\ x \in DOMAIN fam[a] => nodes'[x] = fam[a][x]
              /\ x \in DOMAIN nodes /\ ~(a \in DOMAIN fam /\ x \in DOMAIN fam[a]) => nodes'[x] = nodes[x]
          BY <1>2, <1>8, OwnKeysApart
        <4> QED
          BY <3>7, <4>1
      <3>9. HeldFrom(nodes, a, eps, count, r, from)
        BY <2>3, <3>1
      <3> HIDE DEF r, q, n, eps
      <3>10. made = MadeOf(a, count, q)
        OBVIOUS
      <3> HIDE DEF made
      <3>11. HeldFrom(nodes', a, eps, count + 1, q, from)
        BY <1>5, <2>1, <3>8, <3>9, <3>10, AppendHoldsFrom
      <3>12. from \in 0..count + 1
        BY <1>5, <2>3, <3>1
      <3> QED
        BY <2>4, <3>1, <3>4, <3>6, <3>11, <3>12 DEF AlgKept, q
    <2>6. CASE a \notin active
      <3>1. ~IsActive(eps) /\ Size(a)' = n /\ coords'[a] = coords[a] /\ frontier'[a] = frontier[a]
        BY <1>2, <2>2, <2>4, <2>6
      <3>2. PeaksOf(r, n) = PeaksOf(q, n)
        BY <1>3, <2>1, <2>2, KeptPeaks
      <3>3. SameNodes(nodes', a)
        <4> HIDE DEF fam, active
        <4> SUFFICES ASSUME NEW x, x[1] = a
                     PROVE  /\ x \in DOMAIN nodes' <=> x \in DOMAIN nodes
                            /\ x \in DOMAIN nodes => nodes'[x] = nodes[x]
          BY DEF Node, SameNodes
        <4>1. /\ x \in DOMAIN nodes' <=> (a \in DOMAIN fam /\ x \in DOMAIN fam[a]) \/ x \in DOMAIN nodes
              /\ x \in DOMAIN nodes /\ ~(a \in DOMAIN fam /\ x \in DOMAIN fam[a]) => nodes'[x] = nodes[x]
          BY <1>2, <1>8, OwnKeysApart
        <4> QED
          BY <1>8, <2>6, <4>1
      <3> HIDE DEF r, q, n, eps
      <3>4. \A c \in Blocks(n) : r[c] = q[c]
        <4>1. SameBelow(r, q, n)
          <5>1. \A i \in 0..n - 1 : i \in 0..count - 1
            BY <1>5, <2>2
          <5> QED
            BY <2>1, <5>1 DEF SameBelow
        <4> QED
          BY <2>1, <2>2, <4>1, SameBlocks
      <3>5. HeldFrom(nodes', a, eps, n, q, from)
        <4>1. Blocks(n) \subseteq Coordinates
          BY DEF Blocks
        <4> QED
          BY <2>3, <3>3, <3>4, <4>1 DEF HeldFrom, SameNodes
      <3> QED
        BY <2>3, <2>4, <3>1, <3>2, <3>5 DEF AlgKept, q, n
    <2> QED
      BY <2>5, <2>6
  <1> QED
    BY <1>2, <1>4, <1>7, <1>9

-----------------------------------------------------------------------------
(* The inductive invariant of a sealed log *)

\* Where the store of an algorithm begins: at the seal's size for one the seal kept
\* with a position of its own below it.
From(a) ==
  IF a \in DOMAIN sealed.frontiers /\ sealed.epochs[a][1][1] < sealed.size THEN sealed.size ELSE 0

\* The handle is right about an algorithm unless it was kept and, since, resumed.
Sound(a) ==
  a \in DOMAIN sealed.frontiers => Len(epochs[a]) = Len(sealed.epochs[a]) \/ From(a) = 0

\* The intervals of an algorithm go on from those of the seal, or begin after it.
TimelineGoesOn(a) ==
  IF a \in DOMAIN sealed.frontiers
  THEN /\ sealed.epochs[a] # <<>> /\ Len(epochs[a]) >= Len(sealed.epochs[a])
       /\ epochs[a][1][1] = sealed.epochs[a][1][1]
       /\ Len(epochs[a]) = Len(sealed.epochs[a]) /\ IsActive(epochs[a]) => epochs[a] = sealed.epochs[a]
  ELSE epochs[a] # <<>> => epochs[a][1][1] >= sealed.size

\* What the seal says.
SealKept ==
  /\ sealed.size \in 1..count /\ DOMAIN sealed.frontiers \subseteq Algs
  /\ sealed.epochs \in [Algs -> Seq(Interval)]
  /\ \A a \in DOMAIN sealed.frontiers : sealed.frontiers[a] = PeaksOf(Ref(a), sealed.size)

ResumedInv ==
  /\ BasicsKept /\ SealKept
  /\ \A a \in Algs : TimelineGoesOn(a)
  /\ \A a \in Algs : Sound(a) => AlgKept(a, From(a))

\* Before the seal the log is as any other.
SealedInv ==
  IF sealed.size = 0 THEN LogInv /\ DOMAIN sealed.frontiers = {} ELSE ResumedInv

\* What a step of the resumed log has to keep.
LEMMA ResumedGoesOn ==
  ASSUME ResumedInv, sealed' = sealed, BasicsKept', count' \in Nat, count <= count',
         \A a \in Algs : SameBelow(Ref(a), Ref(a)', count) \/ Ref(a)' = Ref(a),
         \A a \in Algs : TimelineGoesOn(a)',
         \A a \in Algs : Sound(a)' => \A f : f = From(a) => AlgKept(a, f)'
  PROVE  ResumedInv'
  <1>1. LogTypeOK /\ SealKept
    BY DEF ResumedInv, BasicsKept
  <1>2. count \in Nat /\ sealed.size \in 1..count
    BY <1>1, LogAssumption DEF LogTypeOK, SealKept
  <1>3. sealed.size \in 1..count' /\ sealed.size \in 0..count
    BY <1>2
  <1>4. ASSUME NEW a \in DOMAIN sealed.frontiers
        PROVE  sealed.frontiers[a] = PeaksOf(Ref(a)', sealed.size)
    <2>1. a \in Algs /\ sealed.frontiers[a] = PeaksOf(Ref(a), sealed.size)
      BY <1>1 DEF SealKept
    <2>2. CASE Ref(a)' = Ref(a)
      BY <2>1, <2>2
    <2>3. CASE SameBelow(Ref(a), Ref(a)', count)
      <3>1. PeaksOf(Ref(a), sealed.size) = PeaksOf(Ref(a)', sealed.size)
        BY <1>1, <1>3, <2>1, <2>3, KeptPeaks
      <3> QED
        BY <2>1, <3>1
    <2> QED
      BY <2>1, <2>2, <2>3
  <1>5. SealKept'
    BY <1>1, <1>3, <1>4 DEF SealKept
  <1>6. ASSUME NEW a \in Algs, Sound(a)' PROVE AlgKept(a, From(a))'
    <2>1. PICK f : f = From(a)
      OBVIOUS
    <2>2. AlgKept(a, f)' /\ From(a)' = f
      BY <1>6, <2>1 DEF From
    <2> QED
      BY <2>2 DEF AlgKept
  <1> QED
    BY <1>5, <1>6 DEF ResumedInv

\* The first of a timeline's intervals starts where it did when one is closed or begun.
LEMMA FirstStays ==
  ASSUME NEW eps \in Seq(Interval), eps # <<>>, NEW n \in Nat
  PROVE  /\ Closed(eps, n)[1][1] = eps[1][1] /\ Resumed(eps, n)[1][1] = eps[1][1]
         /\ Len(Closed(eps, n)) = Len(eps) /\ Len(Resumed(eps, n)) = Len(eps) + 1
         /\ Closed(eps, n) # <<>> /\ Resumed(eps, n) # <<>>
         /\ n < Open => ~IsActive(Closed(eps, n))
  <1>1. Len(eps) \in Nat \ {0} /\ 1 \in 1..Len(eps)
    BY CloseLast
  <1>2. Closed(eps, n)[1][1] = eps[1][1]
    <2>1. CASE Len(eps) = 1
      BY <2>1, CloseLast
    <2>2. CASE Len(eps) # 1
      <3>1. \A m \in Nat \ {0} : m # 1 => 1 \in 1..m - 1
        OBVIOUS
      <3>2. 1 \in 1..Len(eps) - 1
        BY <1>1, <2>2, <3>1
      <3> QED
        BY <3>2, CloseLast
    <2> QED
      BY <2>1, <2>2
  <1>3. Resumed(eps, n)[1][1] = eps[1][1]
    BY ZenonT(60), <1>1, StartAnother
  <1>4. Len(Closed(eps, n)) = Len(eps) /\ Closed(eps, n)[Len(eps)][2] = n
    BY CloseLast
  <1>5. Len(Resumed(eps, n)) = Len(eps) + 1
    BY StartAnother
  <1>6. Closed(eps, n) # <<>> /\ Resumed(eps, n) # <<>>
    BY <1>1, <1>4, <1>5
  <1>7. ASSUME n < Open PROVE ~IsActive(Closed(eps, n))
    BY <1>4, <1>7, OpenAssumption DEF IsActive, LastEpoch
  <1> QED
    BY <1>2, <1>3, <1>4, <1>5, <1>6, <1>7

\* A step that gives one algorithm other intervals keeps the others.
LEMMA OthersGoOn ==
  ASSUME ResumedInv, sealed' = sealed, NEW a \in Algs, NEW eps, Changes(a, eps), HandlesSame,
         \A b \in Algs \ {a} : Untouched(b)
  PROVE  /\ BasicsKept' /\ count' = count /\ count \in Nat /\ epochs'[a] = eps
         /\ \A b \in Algs : SameBelow(Ref(b), Ref(b)', count)
         /\ \A b \in Algs \ {a} : /\ TimelineGoesOn(b)'
                                  /\ Sound(b)' => \A f : f = From(b) => AlgKept(b, f)'
  <1>1. BasicsKept /\ LogTypeOK
    BY DEF ResumedInv, BasicsKept
  <1>2. /\ BasicsKept' /\ epochs'[a] = eps
        /\ \A b \in Algs : SameBelow(Ref(b), Ref(b)', count)
        /\ \A b \in Algs \ {a} : epochs'[b] = epochs[b]
    BY <1>1, ChangesKeep DEF HandlesSame
  <1>3. count' = count /\ history' = history
    BY DEF Changes, observers
  <1>4. count \in Nat
    BY <1>1, LogAssumption DEF LogTypeOK
  <1>5. ASSUME NEW b \in Algs \ {a} PROVE TimelineGoesOn(b)'
    BY <1>2, <1>3 DEF ResumedInv, TimelineGoesOn
  <1>6. ASSUME NEW b \in Algs \ {a}, Sound(b)', NEW f, f = From(b) PROVE AlgKept(b, f)'
    <2>1. Sound(b)
      BY <1>2, <1>6 DEF Sound, From
    <2>2. AlgKept(b, f)
      BY <1>6, <2>1 DEF ResumedInv
    <2>3. coords'[b] = coords[b] /\ frontier'[b] = frontier[b] /\ SameNodes(nodes', b)
      BY DEF Untouched
    <2> QED
      BY <1>1, <1>2, <1>3, <2>2, <2>3, KeptAlike
  <1> QED
    BY <1>2, <1>3, <1>4, <1>5, <1>6

\* add_algorithm after the seal.
LEMMA AddGoesOn ==
  ASSUME ResumedInv, sealed' = sealed, NEW a \in Algs, AddAlgorithm(a)
  PROVE  ResumedInv'
  <1> DEFINE eps == <<<<count, Open>>>>
  <1>1. BasicsKept /\ SealKept /\ TimelineGoesOn(a) /\ (Sound(a) => AlgKept(a, From(a)))
    BY DEF ResumedInv
  <1>2. /\ Changes(a, eps) /\ HandlesSame
        /\ \A b \in Algs \ {a} : Untouched(b)
        /\ AlgKept(a, 0) => AlgKept(a, 0)'
    BY <1>1, AddKeepsAlg
  <1>3. epochs[a] = <<>>
    BY DEF AddAlgorithm, Registered
  <1>4. eps[1][1] = count
    OBVIOUS
  <1> HIDE DEF eps
  <1>5. /\ BasicsKept' /\ count' = count /\ count \in Nat /\ epochs'[a] = eps
        /\ \A b \in Algs : SameBelow(Ref(b), Ref(b)', count)
        /\ \A b \in Algs \ {a} : /\ TimelineGoesOn(b)'
                                 /\ Sound(b)' => \A f : f = From(b) => AlgKept(b, f)'
    BY <1>2, OthersGoOn
  <1>6. a \notin DOMAIN sealed.frontiers
    <2> SUFFICES ASSUME a \in DOMAIN sealed.frontiers PROVE FALSE
      OBVIOUS
    <2>1. sealed.epochs[a] # <<>> /\ sealed.epochs[a] \in Seq(Interval) /\ Len(<<>>) >= Len(sealed.epochs[a])
      BY <1>1, <1>3 DEF TimelineGoesOn, SealKept
    <2>2. Len(sealed.epochs[a]) \in Nat \ {0}
      BY <2>1, CloseLast, OpenAssumption
    <2> QED
      BY <2>1, <2>2
  <1>7. TimelineGoesOn(a)'
    <2>1. count >= sealed.size
      BY <1>1, <1>5 DEF SealKept
    <2> QED
      BY <1>4, <1>5, <1>6, <2>1 DEF TimelineGoesOn
  <1>8. From(a) = 0 /\ Sound(a)
    BY <1>6 DEF From, Sound
  <1>9. AlgKept(a, 0)
    BY <1>1, <1>8
  <1>10. count <= count'
    BY <1>5
  <1>11. \A b \in Algs : TimelineGoesOn(b)'
    BY <1>5, <1>7
  <1>12. \A b \in Algs : Sound(b)' => \A f : f = From(b) => AlgKept(b, f)'
    BY <1>2, <1>5, <1>8, <1>9
  <1> QED
    BY <1>5, <1>10, <1>11, <1>12, ResumedGoesOn

\* remove_algorithm after the seal.
LEMMA RemoveGoesOn ==
  ASSUME ResumedInv, sealed' = sealed, NEW a \in Algs, RemoveAlgorithm(a)
  PROVE  ResumedInv'
  <1> DEFINE eps == Closed(epochs[a], count)
  <1>1. BasicsKept /\ LogTypeOK /\ SealKept /\ TimelineGoesOn(a) /\ (Sound(a) => AlgKept(a, From(a)))
    BY DEF ResumedInv, BasicsKept
  <1>2. /\ Changes(a, eps) /\ HandlesSame
        /\ \A b \in Algs \ {a} : Untouched(b)
        /\ \A from : AlgKept(a, from) => AlgKept(a, from)'
    BY <1>1, RemoveKeepsAlg
  <1>3. epochs[a] # <<>> /\ epochs[a] \in Seq(Interval) /\ count < Open
    BY <1>1, SizeKnown DEF RemoveAlgorithm, IsActive
  <1>4. /\ BasicsKept' /\ count' = count /\ count \in Nat /\ epochs'[a] = eps
        /\ \A b \in Algs : SameBelow(Ref(b), Ref(b)', count)
        /\ \A b \in Algs \ {a} : /\ TimelineGoesOn(b)'
                                 /\ Sound(b)' => \A f : f = From(b) => AlgKept(b, f)'
    <2> HIDE DEF eps
    <2> QED
      BY <1>2, OthersGoOn
  <1>5. eps[1][1] = epochs[a][1][1] /\ Len(eps) = Len(epochs[a]) /\ eps # <<>> /\ ~IsActive(eps)
    BY <1>3, <1>4, FirstStays
  <1> HIDE DEF eps
  <1>6. TimelineGoesOn(a)'
    BY <1>1, <1>3, <1>4, <1>5 DEF TimelineGoesOn
  <1>7. ASSUME Sound(a)', NEW f, f = From(a) PROVE AlgKept(a, f)'
    <2>1. Sound(a)
      BY <1>4, <1>5, <1>7 DEF Sound, From
    <2> QED
      BY <1>1, <1>2, <1>7, <2>1
  <1>8. count <= count'
    BY <1>4
  <1>9. \A b \in Algs : TimelineGoesOn(b)'
    BY <1>4, <1>6
  <1>10. \A b \in Algs : Sound(b)' => \A f : f = From(b) => AlgKept(b, f)'
    BY <1>4, <1>7
  <1> QED
    BY <1>4, <1>8, <1>9, <1>10, ResumedGoesOn

\* resume_algorithm after the seal: what was kept and held positions of its own is not
\* sound any more.
LEMMA ResumeGoesOn ==
  ASSUME ResumedInv, sealed' = sealed, NEW a \in Algs, ResumeAlgorithm(a)
  PROVE  ResumedInv'
  <1> DEFINE eps == Resumed(epochs[a], count)
  <1>1. BasicsKept /\ LogTypeOK /\ SealKept /\ TimelineGoesOn(a) /\ (Sound(a) => AlgKept(a, From(a)))
    BY DEF ResumedInv, BasicsKept
  <1>2. /\ Changes(a, eps) /\ HandlesSame
        /\ \A b \in Algs \ {a} : Untouched(b)
        /\ AlgKept(a, 0) => AlgKept(a, 0)'
    BY <1>1, ResumeKeepsAlg
  <1>3. epochs[a] # <<>> /\ epochs[a] \in Seq(Interval) /\ count < Open /\ Len(epochs[a]) \in Nat
    BY <1>1, SizeKnown DEF ResumeAlgorithm, Registered
  <1>4. /\ BasicsKept' /\ count' = count /\ count \in Nat /\ epochs'[a] = eps
        /\ \A b \in Algs : SameBelow(Ref(b), Ref(b)', count)
        /\ \A b \in Algs \ {a} : /\ TimelineGoesOn(b)'
                                 /\ Sound(b)' => \A f : f = From(b) => AlgKept(b, f)'
    <2> HIDE DEF eps
    <2> QED
      BY <1>2, OthersGoOn
  <1>5. eps[1][1] = epochs[a][1][1] /\ Len(eps) = Len(epochs[a]) + 1 /\ eps # <<>>
    BY <1>3, <1>4, FirstStays
  <1> HIDE DEF eps
  <1>6. a \in DOMAIN sealed.frontiers => /\ Len(eps) # Len(sealed.epochs[a])
                                         /\ Len(eps) >= Len(sealed.epochs[a])
    <2> SUFFICES ASSUME a \in DOMAIN sealed.frontiers
                 PROVE Len(eps) # Len(sealed.epochs[a]) /\ Len(eps) >= Len(sealed.epochs[a])
      OBVIOUS
    <2>1. Len(epochs[a]) >= Len(sealed.epochs[a]) /\ sealed.epochs[a] \in Seq(Interval)
      BY <1>1 DEF TimelineGoesOn, SealKept
    <2>2. Len(sealed.epochs[a]) \in Nat
      BY <2>1
    <2> QED
      BY <1>3, <1>5, <2>1, <2>2
  <1>7. TimelineGoesOn(a)'
    BY <1>1, <1>3, <1>4, <1>5, <1>6 DEF TimelineGoesOn
  <1>8. ASSUME Sound(a)', NEW f, f = From(a) PROVE AlgKept(a, f)'
    <2>1. From(a) = 0 /\ Sound(a)
      BY <1>4, <1>6, <1>8 DEF Sound, From
    <2> QED
      BY <1>1, <1>2, <1>8, <2>1
  <1>9. count <= count'
    BY <1>4
  <1>10. \A b \in Algs : TimelineGoesOn(b)'
    BY <1>4, <1>7
  <1>11. \A b \in Algs : Sound(b)' => \A f : f = From(b) => AlgKept(b, f)'
    BY <1>4, <1>8
  <1> QED
    BY <1>4, <1>9, <1>10, <1>11, ResumedGoesOn

\* Every operation of the resumed log keeps its invariant.
LEMMA ResumedStep ==
  ASSUME NoNullItems, ResumedInv, sealed' = sealed, [Next]_vars
  PROVE  ResumedInv'
  <1>1. BasicsKept /\ LogTypeOK
    BY DEF ResumedInv, BasicsKept
  <1>2. count \in Nat
    BY <1>1, LogAssumption DEF LogTypeOK
  <1>3. ASSUME epochs' = epochs PROVE \A a \in Algs : /\ TimelineGoesOn(a)'
                                                      /\ Sound(a)' => Sound(a)
    BY <1>3 DEF ResumedInv, TimelineGoesOn, Sound, From
  <1>4. CASE AppendLeaf \/ AppendSubtree
    <2>1. /\ BasicsKept' /\ count' = count + 1 /\ epochs' = epochs
          /\ \A a \in Algs : SameBelow(Ref(a), Ref(a)', count)
          /\ \A a \in Algs : \A from : AlgKept(a, from) => AlgKept(a, from)'
      BY <1>1, <1>4, AppendKeepsAlg
    <2>2. count' \in Nat /\ count <= count'
      BY <1>2, <2>1
    <2>3. \A a \in Algs : Sound(a)' => \A f : f = From(a) => AlgKept(a, f)'
      BY <1>3, <2>1 DEF ResumedInv
    <2>4. \A a \in Algs : TimelineGoesOn(a)'
      BY <1>3, <2>1
    <2> QED
      BY <2>1, <2>2, <2>3, <2>4, ResumedGoesOn
  <1>5. CASE \E a \in Algs : AddAlgorithm(a) \/ RemoveAlgorithm(a) \/ ResumeAlgorithm(a)
    BY <1>5, AddGoesOn, RemoveGoesOn, ResumeGoesOn
  <1>6. CASE Reopen
    <2>1. /\ BasicsKept' /\ count' = count /\ epochs' = epochs
          /\ \A a \in Algs : Ref(a)' = Ref(a)
          /\ \A a \in Algs : \A from : AlgKept(a, from) => AlgKept(a, from)'
      BY <1>1, <1>6, ReopenKeepsAlg
    <2>2. count' \in Nat /\ count <= count'
      BY <1>2, <2>1
    <2>3. \A a \in Algs : Sound(a)' => \A f : f = From(a) => AlgKept(a, f)'
      BY <1>3, <2>1 DEF ResumedInv
    <2>4. \A a \in Algs : TimelineGoesOn(a)'
      BY <1>3, <2>1
    <2> QED
      BY <2>1, <2>2, <2>3, <2>4, ResumedGoesOn
  <1>7. CASE UNCHANGED vars
    <2>1. /\ count' = count /\ epochs' = epochs /\ history' = history
          /\ coords' = coords /\ frontier' = frontier /\ nodes' = nodes
          /\ UNCHANGED <<kind, storedCount, leaves, metas>>
      BY <1>7 DEF vars, handle, store, observers
    <2>2. BasicsKept'
      BY <1>1, <2>1 DEF BasicsKept, LogTypeOK, Registered, StoreMirrorsHandle, HistoryKept
    <2>3. \A a \in Algs : Ref(a)' = Ref(a)
      BY <2>1 DEF Ref, LeafOf, ReferenceLeaf
    <2>4. ASSUME NEW a \in Algs, NEW f, AlgKept(a, f) PROVE AlgKept(a, f)'
      <3>1. SameNodes(nodes', a)
        BY <2>1 DEF SameNodes
      <3> QED
        BY <1>1, <2>1, <2>4, <3>1, KeptAlike
    <2>5. \A a \in Algs : Sound(a)' => \A f : f = From(a) => AlgKept(a, f)'
      BY <1>3, <2>1, <2>4 DEF ResumedInv
    <2>6. \A a \in Algs : TimelineGoesOn(a)'
      BY <1>3, <2>1
    <2>7. count' \in Nat /\ count <= count'
      BY <1>2, <2>1
    <2> QED
      BY <2>1, <2>2, <2>3, <2>5, <2>6, <2>7, ResumedGoesOn
  <1> QED
    BY <1>4, <1>5, <1>6, <1>7 DEF Next

-----------------------------------------------------------------------------
(* The seal *)

\* A log can be read in full at its size, by the algorithms the seal keeps: those
\* active now.
LEMMA SealKeeps ==
  ASSUME LogInv
  PROVE  /\ CommittedEpochsAt(count) = epochs
         /\ SealedAlgs(CommittedEpochsAt(count), count) = {a \in Algs : count > 0 /\ IsActive(epochs[a])}
         /\ \A a \in Algs : IsActive(epochs[a]) =>
              Size(a) = count /\ SealedPeaks(a, count) = PeaksOf(Ref(a), count)
  <1>1. LogTypeOK
    BY DEF LogInv
  <1>2. count \in Nat /\ count < Open
    BY <1>1, LogAssumption, OpenAssumption DEF LogTypeOK
  <1>3. \A a \in Algs : /\ epochs[a] \in Seq(Interval)
                        /\ epochs[a] # <<>> => ValidEpochs(epochs[a], count)
    BY <1>1 DEF LogTypeOK, Registered
  <1>4. CommittedEpochsAt(count) = epochs
    <2>1. \A a \in Algs : EpochsAt(epochs[a], count) = epochs[a]
      BY <1>2, <1>3, CommittedNow
    <2>2. epochs = [a \in Algs |-> epochs[a]]
      BY <1>1 DEF LogTypeOK
    <2> QED
      BY <2>1, <2>2 DEF CommittedEpochsAt
  <1>5. ASSUME NEW a \in Algs PROVE IsActiveAt(epochs[a], count) <=> IsActive(epochs[a])
    <2>1. IsActive(epochs[a]) => IsActiveAt(epochs[a], count)
      BY <1>1, SizeKnown
    <2>2. ASSUME IsActiveAt(epochs[a], count) PROVE IsActive(epochs[a])
      <3>1. PICK e \in DOMAIN epochs[a] : count < epochs[a][e][2]
        BY <2>2 DEF IsActiveAt
      <3>2. e \in 1..Len(epochs[a]) /\ epochs[a] # <<>>
        BY <1>3, <3>1
      <3>3. /\ epochs[a][e][2] \in Nat
            /\ epochs[a][e][2] = Open => e = Len(epochs[a])
            /\ epochs[a][e][2] # Open => epochs[a][e][2] <= count
        BY <1>2, <1>3, <3>2, ValidInterval
      <3>4. epochs[a][e][2] = Open /\ e = Len(epochs[a])
        BY <1>2, <3>1, <3>3
      <3> QED
        BY <3>2, <3>4 DEF IsActive, LastEpoch
    <2> QED
      BY <2>1, <2>2
  <1>6. SealedAlgs(CommittedEpochsAt(count), count) = {a \in Algs : count > 0 /\ IsActive(epochs[a])}
    <2>1. DOMAIN epochs = Algs
      BY <1>1 DEF LogTypeOK
    <2> QED
      BY <1>4, <1>5, <2>1 DEF SealedAlgs
  <1>7. ASSUME NEW a \in Algs, IsActive(epochs[a])
        PROVE  Size(a) = count /\ SealedPeaks(a, count) = PeaksOf(Ref(a), count)
    <2> DEFINE at == FrontierForSize(count)
    <2>1. Size(a) = count
      BY <1>1, <1>7, SizeKnown
    <2>2. Covers(at, 0, count)
      BY <1>2, FrontierCovers
    <2>3. SealedPeaks(a, count) = [i \in 1..Len(at) |-> GetNodeHash(a, epochs[a], at[i][1], at[i][2])]
      BY DEF SealedPeaks, FrontierPeaks
    <2>4. PeaksOf(Ref(a), count) = [i \in 1..Len(at) |-> Ref(a)[at[i]]]
      BY DEF PeaksOf
    <2> HIDE DEF at
    <2>5. ASSUME NEW i \in 1..Len(at) PROVE GetNodeHash(a, epochs[a], at[i][1], at[i][2]) = Ref(a)[at[i]]
      <3>1. at[i] \in Blocks(Size(a))
        BY <1>2, <2>1, <2>2, PeaksAreBlocks
      <3> QED
        BY <3>1, ReadBack
    <2> QED
      BY <2>1, <2>3, <2>4, <2>5
  <1> QED
    BY <1>4, <1>6, <1>7

\* What the step makes, in these terms.
Reseals(kept, at) ==
  /\ sealed'.size = count /\ DOMAIN sealed'.frontiers = kept
  /\ \A a \in kept : sealed'.frontiers[a] = PeaksOf(Ref(a), count)
  /\ count > 0 => sealed'.epochs = epochs
  /\ kind' = "subtree" /\ leaves' = <<>> /\ metas' = epochs'
  /\ epochs' = [a \in Algs |-> IF a \in kept THEN epochs[a] ELSE <<>>]
  /\ coords' = [a \in Algs |-> IF a \in kept THEN at ELSE <<>>]
  /\ frontier' = [a \in Algs |-> IF a \in kept THEN PeaksOf(Ref(a), count) ELSE <<>>]
  /\ nodes' = SeededNodes(sealed'.frontiers, sealed'.epochs, at)
  /\ UNCHANGED <<count, storedCount, observers>>

LEMMA SealMakes ==
  ASSUME LogInv, SealAndResume
  PROVE  Reseals({a \in Algs : count > 0 /\ IsActive(epochs[a])}, FrontierForSize(count))
  <1> DEFINE at == FrontierForSize(count)
             kept == {a \in Algs : count > 0 /\ IsActive(epochs[a])}
             seal == SealOfLog
  <1>1. seal = [size |-> count, frontiers |-> [a \in kept |-> SealedPeaks(a, count)],
                epochs |-> IF count = 0 THEN <<>> ELSE epochs]
    BY SealKeeps DEF SealOfLog
  <1>2. \A a \in kept : SealedPeaks(a, count) = PeaksOf(Ref(a), count)
    BY SealKeeps
  <1>3. /\ sealed' = seal /\ kind' = "subtree" /\ leaves' = <<>> /\ metas' = epochs'
        /\ epochs' = [a \in Algs |-> IF a \in DOMAIN seal.frontiers THEN seal.epochs[a] ELSE <<>>]
        /\ coords' = [a \in Algs |-> IF a \in DOMAIN seal.frontiers THEN at ELSE <<>>]
        /\ frontier' = [a \in Algs |-> IF a \in DOMAIN seal.frontiers THEN seal.frontiers[a] ELSE <<>>]
        /\ nodes' = SeededNodes(seal.frontiers, seal.epochs, at)
        /\ UNCHANGED <<count, storedCount, observers>>
    BY DEF SealAndResume
  <1>4. kept # {} => count > 0
    OBVIOUS
  <1>5. count \in Nat
    BY LogAssumption DEF LogInv, LogTypeOK
  <1> HIDE DEF kept, at, seal
  <1>6. /\ seal.size = count /\ DOMAIN seal.frontiers = kept
        /\ \A a \in kept : seal.frontiers[a] = PeaksOf(Ref(a), count)
        /\ count > 0 => seal.epochs = epochs
    BY <1>1, <1>2, <1>5
  <1>7. /\ \A a \in Algs : a \in kept => seal.epochs[a] = epochs[a]
    BY <1>4, <1>6
  <1>8. Reseals(kept, at)
    BY <1>3, <1>6, <1>7 DEF Reseals
  <1> QED
    BY <1>8 DEF kept, at

\* Nothing has peaks.
LEMMA NoPeaks ==
  /\ FrontierForSize(0) = <<>> /\ \A ref : PeaksOf(ref, 0) = <<>>
  /\ \A n \in Nat : Blocks(n) \subseteq Coordinates
  /\ Blocks(0) = {}
  <1>1. FrontierForSize(0) = <<>>
    <2>1. Covers(FrontierForSize(0), 0, 0)
      BY FrontierCovers
    <2>2. Covers(<<>>, 0, 0)
      BY DEF Covers
    <2> QED
      BY <2>1, <2>2, CoverUnique
  <1>2. \A ref : PeaksOf(ref, 0) = <<>>
    BY <1>1 DEF PeaksOf
  <1>3. \A n \in Nat : Blocks(n) \subseteq Coordinates
    BY DEF Blocks
  <1>4. \A c \in Coordinates : c \notin Blocks(0)
    BY CoordinateIsPair DEF Blocks
  <1> QED
    BY <1>1, <1>2, <1>3, <1>4

\* An empty log is sealed into an empty one.
LEMMA SealEmpty ==
  ASSUME LogInv, SealAndResume, count = 0
  PROVE  LogInv' /\ DOMAIN sealed'.frontiers = {} /\ sealed'.size = 0
  <1> DEFINE kept == {a \in Algs : count > 0 /\ IsActive(epochs[a])}
             at == FrontierForSize(count)
  <1>1. Reseals(kept, at)
    BY SealMakes
  <1>2. kept = {} /\ at = <<>>
    BY NoPeaks
  <1> HIDE DEF kept, at
  <1>3. /\ count' = 0 /\ kind' = "subtree" /\ leaves' = <<>> /\ metas' = epochs' /\ storedCount' = storedCount
        /\ history' = history /\ outgrown' = outgrown
        /\ epochs' = [a \in Algs |-> <<>>] /\ coords' = [a \in Algs |-> <<>>]
        /\ frontier' = [a \in Algs |-> <<>>]
        /\ DOMAIN sealed'.frontiers = {} /\ sealed'.size = 0
        /\ nodes' = SeededNodes(sealed'.frontiers, sealed'.epochs, at)
    BY <1>1, <1>2 DEF Reseals, observers
  <1>4. DOMAIN nodes' = {}
    <2>1. (DOMAIN sealed'.frontiers) \X (DOMAIN at) = {}
      BY <1>3
    <2> QED
      BY <1>3, <2>1 DEF SeededNodes
  <1>5. LogTypeOK'
    <2>1. <<>> \in Seq(Interval)
      OBVIOUS
    <2>2. epochs' \in [Algs -> Seq(Interval)]
      BY <1>3, <2>1
    <2>3. 0 \in 0..MaxCount
      BY LogAssumption
    <2> QED
      BY <1>3, <2>2, <2>3 DEF LogTypeOK, Registered
  <1>6. StoreMirrorsHandle'
    BY <1>3 DEF LogInv, StoreMirrorsHandle
  <1>7. HistoryKept'
    BY <1>3 DEF LogInv, HistoryKept
  <1>8. \A a \in Algs : Size(a)' = 0
    BY <1>3 DEF Size, TreeSize
  <1>9. FrontierKept'
    BY <1>3, <1>8, NoPeaks DEF FrontierKept
  <1>10. StoreKept'
    BY <1>4, <1>8, NoPeaks DEF StoreKept, Held
  <1>11. OutgrownKept'
    <2>1. 1..0 = {} /\ 1..0 - 1 = {}
      OBVIOUS
    <2>2. outgrown = [i \in 1..0 |-> outgrown[i]]
      BY DEF LogInv, OutgrownKept
    <2> QED
      BY <1>3, <2>1, <2>2 DEF OutgrownKept
  <1> QED
    BY <1>3, <1>5, <1>6, <1>7, <1>9, <1>10, <1>11 DEF LogInv

\* The peaks of a size are those of its frontier.
LEMMA PeakIsListed ==
  ASSUME NEW n \in Nat, NEW c \in Coordinates, Peak(c[1], c[2], n), NEW at, Covers(at, 0, n)
  PROVE  \E i \in 1..Len(at) : at[i] = c
  <1>1. c = <<c[1], c[2]>> /\ c[1] \in Nat /\ c[2] \in Nat
        /\ BlockSize(c[2]) \in Nat \ {0} /\ End(c) \in Nat /\ End(c) = c[1] + BlockSize(c[2])
    BY CoordinateIsPair DEF End
  <1>2. Multiple(c[1], BlockSize(c[2])) /\ c[1] + BlockSize(c[2]) <= n
    BY DEF Peak
  <1>3. PICK i \in 1..Len(at) : at[i][1] <= c[1] /\ c[1] + BlockSize(c[2]) <= End(at[i]) /\ c[2] <= at[i][2]
    BY <1>1, <1>2, UnderPeak
  <1>4. at[i] \in Coordinates /\ Peak(at[i][1], at[i][2], n)
    BY DEF Covers
  <1> DEFINE l == at[i][1]
             h == at[i][2]
  <1>5. at[i] = <<l, h>> /\ l \in Nat /\ h \in Nat /\ End(at[i]) = l + BlockSize(h) /\ BlockSize(h) \in Nat \ {0}
    BY <1>4, CoordinateIsPair DEF End
  <1>6. Multiple(l, BlockSize(h)) /\ l + BlockSize(h) <= n
    BY <1>4 DEF Peak
  <1>7. l <= c[1] /\ c[1] + BlockSize(c[2]) <= l + BlockSize(h) /\ c[2] <= h
    BY <1>3, <1>5
  <1> HIDE DEF l, h
  <1>8. h = c[2]
    <2> SUFFICES ASSUME c[2] < h PROVE FALSE
      BY <1>1, <1>5, <1>7
    <2> DEFINE g == c[2] + 1
               d == BlockSize(g)
    <2>1. g \in Nat /\ g <= h /\ d \in Nat \ {0}
      BY SMTT(30), <1>1, <1>5, BlockSizes
    <2>2. Multiple(BlockSize(h), d) /\ d <= BlockSize(h)
      <3> HIDE DEF g
      <3> QED
        BY <1>5, <2>1, TallerBlocks DEF d
    <2>3. \A b \in Nat : Multiple(b, d) /\ b <= c[1] /\ c[1] < b + d => n < b + d
      BY DEF Peak
    <2> HIDE DEF d, g
    <2>4. PICK b \in Nat : Multiple(b, d) /\ b <= c[1] /\ c[1] < b + d
      BY <1>1, <2>1, Floor
    <2>5. Multiple(l, d) /\ Multiple(l + BlockSize(h), d)
      <3>1. Multiple(l, d)
        BY <1>5, <1>6, <2>1, <2>2, MultipleTransitive
      <3>2. PICK q \in Nat : l = q * d
        BY <3>1 DEF Multiple
      <3>3. PICK p \in Nat : BlockSize(h) = p * d
        BY <2>2 DEF Multiple
      <3>4. l + BlockSize(h) = (q + p) * d /\ q + p \in Nat
        BY <2>1, <3>2, <3>3
      <3> QED
        BY <3>1, <3>4 DEF Multiple
    <2>6. b < l + BlockSize(h)
      <3>1. \A x, y, z, w \in Nat : x <= y /\ w > 0 /\ y + w <= z => x < z
        OBVIOUS
      <3>2. l + BlockSize(h) \in Nat
        BY <1>5
      <3>3. BlockSize(c[2]) > 0 /\ BlockSize(c[2]) \in Nat
        <4>1. \A w \in Nat \ {0} : w > 0
          OBVIOUS
        <4> QED
          BY <1>1, <4>1
      <3> QED
        BY <1>1, <1>7, <2>4, <3>1, <3>2, <3>3
    <2>7. b + d <= l + BlockSize(h)
      <3> DEFINE e == l + BlockSize(h)
      <3>1. e \in Nat /\ b < e /\ Multiple(e, d)
        BY <1>5, <2>5, <2>6
      <3> HIDE DEF e
      <3>2. b + d <= e
        BY <2>1, <2>4, <3>1, MultiplesApart
      <3> QED
        BY <3>2 DEF e
    <2>8. n < b + d
      BY <2>3, <2>4
    <2> QED
      BY <1>5, <1>6, <2>1, <2>4, <2>7, <2>8
  <1>9. l = c[1]
    BY <1>1, <1>5, <1>7, <1>8
  <1> QED
    BY <1>1, <1>5, <1>8, <1>9

\* A valid timeline has nothing before its first interval.
LEMMA NothingBefore ==
  ASSUME NEW eps \in Seq(Interval), NEW n \in Nat, ValidEpochs(eps, n),
         NEW lo \in Nat, NEW hi \in Nat, hi <= eps[1][1]
  PROVE  ~ActiveRange(eps, lo, hi)
  <1> SUFFICES ASSUME NEW e \in 1..Len(eps), eps[e][1] < hi PROVE FALSE
    BY DEF ActiveRange
  <1>1. /\ 1 \in 1..Len(eps) /\ eps[1][1] \in Nat /\ eps[1][2] \in Nat /\ eps[1][1] <= eps[1][2]
        /\ eps[e][1] \in Nat
    <2>1. 1 \in 1..Len(eps)
      OBVIOUS
    <2> QED
      BY <2>1, ValidInterval
  <1>2. CASE e = 1
    BY <1>1, <1>2
  <1>3. CASE e # 1
    <2>1. 1 < e
      BY <1>3
    <2>2. eps[1][2] <= eps[e][1]
      BY <1>1, <2>1, StartsGrow
    <2> QED
      BY <1>1, <2>2
  <1> QED
    BY <1>2, <1>3

\* What resume stores: of the kept algorithms the peaks, as far as they are active there.
LEMMA SeedsAre ==
  ASSUME NEW n \in Nat, NEW at, at = FrontierForSize(n), NEW fr, NEW timeline,
         NEW md, md = SeededNodes(fr, timeline, at), NEW a, NEW c \in Coordinates
  PROVE  /\ Node(a, c) \in DOMAIN md <=>
              /\ a \in DOMAIN fr /\ Peak(c[1], c[2], n)
              /\ ActiveRange(timeline[a], c[1], End(c))
         /\ Node(a, c) \in DOMAIN md => \E i \in 1..Len(at) : at[i] = c /\ md[Node(a, c)] = fr[a][i]
  <1>1. Covers(at, 0, n)
    BY FrontierCovers
  <1>2. at \in Seq(Coordinates) /\ DOMAIN at = 1..Len(at)
    BY <1>1 DEF Covers
  <1> DEFINE stored == {s \in (DOMAIN fr) \X (DOMAIN at) :
                          ActiveRange(timeline[s[1]], at[s[2]][1], at[s[2]][1] + BlockSize(at[s[2]][2]))}
             keys == {<<s[1], at[s[2]][1], at[s[2]][2]>> : s \in stored}
  <1>3. md = [x \in keys |-> fr[x[1]][CHOOSE i \in DOMAIN at : at[i] = <<x[2], x[3]>>]]
    BY DEF SeededNodes
  <1>4. c = <<c[1], c[2]>> /\ End(c) = c[1] + BlockSize(c[2])
    BY CoordinateIsPair DEF End
  <1>5. Node(a, c) \in keys <=>
          \E i \in DOMAIN at : /\ at[i] = c /\ a \in DOMAIN fr
                               /\ ActiveRange(timeline[a], c[1], End(c))
    <2>1. ASSUME Node(a, c) \in keys
          PROVE  \E i \in DOMAIN at : /\ at[i] = c /\ a \in DOMAIN fr
                                      /\ ActiveRange(timeline[a], c[1], End(c))
      <3>1. PICK s \in stored : Node(a, c) = <<s[1], at[s[2]][1], at[s[2]][2]>>
        BY <2>1
      <3>2. /\ s[1] \in DOMAIN fr /\ s[2] \in DOMAIN at
            /\ ActiveRange(timeline[s[1]], at[s[2]][1], at[s[2]][1] + BlockSize(at[s[2]][2]))
        BY <3>1
      <3>3. s[1] = a /\ at[s[2]][1] = c[1] /\ at[s[2]][2] = c[2]
        BY <3>1 DEF Node
      <3>4. at[s[2]] \in Coordinates
        BY <1>2, <3>2
      <3>5. at[s[2]] = c
        BY <1>4, <3>3, <3>4, CoordinateIsPair
      <3> QED
        BY <1>4, <3>2, <3>3, <3>5
    <2>2. ASSUME NEW i \in DOMAIN at, at[i] = c, a \in DOMAIN fr, ActiveRange(timeline[a], c[1], End(c))
          PROVE  Node(a, c) \in keys
      <3>1. <<a, i>> \in stored
        BY <1>4, <2>2
      <3> QED
        BY <2>2, <3>1 DEF Node
    <2> QED
      BY <2>1, <2>2
  <1>6. ASSUME NEW i \in DOMAIN at, at[i] = c PROVE Peak(c[1], c[2], n)
    BY <1>1, <1>2, <1>6 DEF Covers
  <1>7. Peak(c[1], c[2], n) => \E i \in DOMAIN at : at[i] = c
    BY <1>1, <1>2, PeakIsListed
  <1>8. DOMAIN md = keys
    BY <1>3
  <1>9. ASSUME Node(a, c) \in DOMAIN md
        PROVE  \E i \in 1..Len(at) : at[i] = c /\ md[Node(a, c)] = fr[a][i]
    <2> DEFINE i == CHOOSE i \in DOMAIN at : at[i] = <<c[1], c[2]>>
    <2>1. i \in DOMAIN at /\ at[i] = c
      BY <1>4, <1>5, <1>8, <1>9
    <2>2. md[Node(a, c)] = fr[a][i]
      <3> HIDE DEF keys
      <3>1. md[Node(a, c)] = fr[Node(a, c)[1]][CHOOSE k \in DOMAIN at : at[k] = <<Node(a, c)[2], Node(a, c)[3]>>]
        BY <1>3, <1>8, <1>9
      <3>2. Node(a, c)[1] = a /\ Node(a, c)[2] = c[1] /\ Node(a, c)[3] = c[2]
        BY DEF Node
      <3> QED
        BY <3>1, <3>2
    <2> QED
      BY <1>2, <2>1, <2>2
  <1> HIDE DEF keys, stored
  <1> QED
    BY <1>5, <1>6, <1>7, <1>8, <1>9

\* What resume makes is right about every algorithm: one the seal kept goes on from
\* its peaks, and of the others nothing is left.
LEMMA SealSeeds ==
  ASSUME LogInv, NEW kept, kept = {a \in Algs : count > 0 /\ IsActive(epochs[a])},
         NEW at, at = FrontierForSize(count), Reseals(kept, at), count > 0,
         NEW a \in Algs, NEW f, f = From(a)'
  PROVE  AlgKept(a, f)'
  <1>1. LogTypeOK
    BY DEF LogInv
  <1>2. count \in Nat /\ epochs[a] \in Seq(Interval)
    BY <1>1, SizeKnown
  <1>3. Covers(at, 0, count)
    BY <1>2, FrontierCovers
  <1>4. /\ count' = count /\ history' = history
        /\ epochs'[a] = IF a \in kept THEN epochs[a] ELSE <<>>
        /\ coords'[a] = IF a \in kept THEN at ELSE <<>>
        /\ frontier'[a] = IF a \in kept THEN PeaksOf(Ref(a), count) ELSE <<>>
        /\ sealed'.size = count /\ DOMAIN sealed'.frontiers = kept /\ sealed'.epochs = epochs
        /\ \A b \in kept : sealed'.frontiers[b] = PeaksOf(Ref(b), count)
        /\ nodes' = SeededNodes(sealed'.frontiers, epochs, at)
    BY DEF Reseals, observers
  <1>5. \A c \in Coordinates :
          /\ Node(a, c) \in DOMAIN nodes' <=>
               a \in kept /\ Peak(c[1], c[2], count) /\ ActiveRange(epochs[a], c[1], End(c))
          /\ Node(a, c) \in DOMAIN nodes' => \E i \in 1..Len(at) : at[i] = c /\ nodes'[Node(a, c)] = sealed'.frontiers[a][i]
    <2> SUFFICES ASSUME NEW c \in Coordinates
                 PROVE /\ Node(a, c) \in DOMAIN nodes' <=>
                            a \in kept /\ Peak(c[1], c[2], count) /\ ActiveRange(epochs[a], c[1], End(c))
                       /\ Node(a, c) \in DOMAIN nodes' =>
                            \E i \in 1..Len(at) : at[i] = c /\ nodes'[Node(a, c)] = sealed'.frontiers[a][i]
      OBVIOUS
    <2> DEFINE fr == sealed'.frontiers
               md == nodes'
    <2>1. md = SeededNodes(fr, epochs, at) /\ DOMAIN fr = kept
      BY <1>4
    <2> HIDE DEF fr, md
    <2>2. /\ Node(a, c) \in DOMAIN md <=>
               a \in DOMAIN fr /\ Peak(c[1], c[2], count) /\ ActiveRange(epochs[a], c[1], End(c))
          /\ Node(a, c) \in DOMAIN md => \E i \in 1..Len(at) : at[i] = c /\ md[Node(a, c)] = fr[a][i]
      BY <1>2, <2>1, SeedsAre
    <2> QED
      BY <2>1, <2>2 DEF fr, md
  <1>6. Ref(a)' = Ref(a) \/ a \notin kept
    BY <1>4 DEF Ref, LeafOf, ReferenceLeaf
  <1>7. CASE a \in kept
    <2> DEFINE r == Ref(a)
    <2>1. Size(a)' = count
      <3>1. Size(a)' = Size(a)
        BY <1>4, <1>7 DEF Size
      <3>2. IsActive(epochs[a])
        BY <1>7
      <3> QED
        BY <1>1, <3>1, <3>2, SizeKnown
    <2>2. f = IF epochs[a][1][1] < count THEN count ELSE 0
      BY <1>4, <1>7 DEF From
    <2>3. f \in 0..count
      BY <1>2, <2>2
    <2>4. ASSUME NEW c \in Coordinates, Node(a, c) \in DOMAIN nodes'
          PROVE  c \in Blocks(count) /\ nodes'[Node(a, c)] = r[c]
      <3>1. PICK i \in 1..Len(at) : at[i] = c /\ nodes'[Node(a, c)] = PeaksOf(Ref(a), count)[i]
        BY <1>4, <1>5, <1>7, <2>4
      <3>2. PeaksOf(Ref(a), count)[i] = r[at[i]]
        BY DEF PeaksOf
      <3>3. at[i] \in Blocks(count)
        BY <1>2, <1>3, PeaksAreBlocks
      <3> QED
        BY <3>1, <3>2, <3>3
    <2>5. ASSUME NEW c \in Blocks(count), Asked(f, c), ActiveRange(epochs[a], c[1], End(c))
          PROVE  Node(a, c) \in DOMAIN nodes'
      <3>1. c \in Coordinates /\ End(c) <= count
        BY DEF Blocks
      <3>2. End(c) \in Nat /\ c[1] \in Nat
        BY <3>1, CoordinateIsPair
      <3>3. CASE epochs[a][1][1] < count
        <4>1. f = count
          BY <2>2, <3>3
        <4>2. Peak(c[1], c[2], count)
          BY <1>2, <2>5, <3>1, <3>2, <4>1 DEF Asked
        <4> QED
          BY <1>5, <1>7, <2>5, <3>1, <4>2
      <3>4. CASE ~(epochs[a][1][1] < count)
        <4>1. ValidEpochs(epochs[a], count) /\ epochs[a] # <<>>
          BY <1>1, <1>7 DEF LogTypeOK, Registered, IsActive
        <4>2. epochs[a][1][1] \in Nat
          <5>1. 1 \in 1..Len(epochs[a])
            BY <1>2, <4>1
          <5> QED
            BY <1>2, <4>1, <5>1, ValidInterval
        <4>3. End(c) <= epochs[a][1][1]
          BY <1>2, <3>1, <3>2, <3>4, <4>2
        <4> QED
          BY <1>2, <2>5, <3>2, <4>1, <4>3, NothingBefore
      <3> QED
        BY <3>3, <3>4
    <2>6. HeldFrom(nodes', a, epochs[a], count, Ref(a), f)
      BY <2>4, <2>5 DEF HeldFrom
    <2> HIDE DEF r
    <2> QED
      BY <1>4, <1>6, <1>7, <2>1, <2>3, <2>6 DEF AlgKept
  <1>8. CASE a \notin kept
    <2>1. Size(a)' = 0
      BY <1>4, <1>8 DEF Size, TreeSize
    <2>2. f = 0
      BY <1>4, <1>8 DEF From
    <2>3. HeldFrom(nodes', a, <<>>, 0, Ref(a)', 0)
      BY <1>5, <1>8, NoPeaks DEF HeldFrom
    <2> QED
      BY <1>4, <1>8, <2>1, <2>2, <2>3, NoPeaks DEF AlgKept
  <1> QED
    BY <1>7, <1>8

\* A log with items, sealed and resumed.
LEMMA SealResumes ==
  ASSUME LogInv, SealAndResume, count > 0
  PROVE  ResumedInv' /\ sealed'.size # 0
  <1> DEFINE kept == {a \in Algs : count > 0 /\ IsActive(epochs[a])}
             at == FrontierForSize(count)
  <1>1. Reseals(kept, at)
    BY SealMakes
  <1>2. kept \subseteq Algs /\ \A a \in kept : epochs[a] # <<>>
    BY DEF IsActive
  <1>3. LogTypeOK /\ StoreMirrorsHandle /\ HistoryKept
    BY DEF LogInv
  <1>4. count \in Nat /\ count \in 1..count
    BY <1>3, LogAssumption DEF LogTypeOK
  <1>5. at = FrontierForSize(count)
    OBVIOUS
  <1>6. kept = {a \in Algs : count > 0 /\ IsActive(epochs[a])}
    OBVIOUS
  <1> HIDE DEF kept, at
  <1>7. /\ count' = count /\ storedCount' = storedCount /\ history' = history
        /\ sealed'.size = count /\ DOMAIN sealed'.frontiers = kept /\ sealed'.epochs = epochs
        /\ \A a \in kept : sealed'.frontiers[a] = PeaksOf(Ref(a), count)
        /\ kind' = "subtree" /\ leaves' = <<>> /\ metas' = epochs'
        /\ epochs' = [a \in Algs |-> IF a \in kept THEN epochs[a] ELSE <<>>]
        /\ coords' = [a \in Algs |-> IF a \in kept THEN at ELSE <<>>]
        /\ frontier' = [a \in Algs |-> IF a \in kept THEN PeaksOf(Ref(a), count) ELSE <<>>]
    BY <1>1 DEF Reseals, observers
  <1>8. BasicsKept'
    <2>1. \A a \in Algs : epochs[a] \in Seq(Interval) /\ (epochs[a] # <<>> => ValidEpochs(epochs[a], count))
      BY <1>3 DEF LogTypeOK, Registered
    <2>2. epochs' \in [Algs -> Seq(Interval)]
      <3>1. <<>> \in Seq(Interval)
        OBVIOUS
      <3> QED
        BY <1>7, <2>1, <3>1
    <2>3. \A a \in Algs : epochs'[a] # <<>> => ValidEpochs(epochs'[a], count)
      BY <1>7, <2>1
    <2>4. LogTypeOK'
      BY <1>3, <1>7, <2>2, <2>3 DEF LogTypeOK, Registered
    <2>5. StoreMirrorsHandle'
      BY <1>3, <1>7 DEF StoreMirrorsHandle
    <2>6. HistoryKept'
      BY <1>3, <1>7 DEF HistoryKept
    <2> QED
      BY <2>4, <2>5, <2>6 DEF BasicsKept
  <1>9. SealKept'
    <2>1. \A a \in kept : Ref(a)' = Ref(a)
      BY <1>2, <1>7 DEF Ref, LeafOf, ReferenceLeaf, kept
    <2>2. epochs \in [Algs -> Seq(Interval)]
      BY <1>3 DEF LogTypeOK
    <2> QED
      BY <1>2, <1>4, <1>7, <2>1, <2>2 DEF SealKept, kept
  <1>10. ASSUME NEW a \in Algs PROVE TimelineGoesOn(a)'
    <2>1. CASE a \in kept
      <3>1. epochs[a] # <<>> /\ Len(epochs[a]) \in Nat
        BY <1>2, <1>3, <2>1 DEF LogTypeOK, kept
      <3>2. Len(epochs[a]) >= Len(epochs[a])
        BY <3>1
      <3> QED
        BY <1>7, <2>1, <3>1, <3>2 DEF TimelineGoesOn
    <2>2. CASE a \notin kept
      BY <1>7, <2>2 DEF TimelineGoesOn
    <2> QED
      BY <2>1, <2>2
  <1>11. ASSUME NEW a \in Algs PROVE AlgKept(a, From(a))'
    <2>1. PICK f : f = From(a)'
      OBVIOUS
    <2>2. AlgKept(a, f)'
      BY <1>1, <1>5, <1>6, <2>1, SealSeeds
    <2> QED
      BY <2>1, <2>2 DEF AlgKept
  <1> QED
    BY <1>4, <1>7, <1>8, <1>9, <1>10, <1>11 DEF ResumedInv

\* Every step of the log, its seal or after it.
LEMMA SealedStep ==
  ASSUME NoNullItems, SealedInv, [SealNext]_sealVars
  PROVE  SealedInv'
  <1>1. CASE SealAndResume
    <2>1. sealed.size = 0
      BY <1>1 DEF SealAndResume, NoSeal
    <2>2. LogInv
      BY <2>1 DEF SealedInv
    <2>3. count \in Nat
      BY <2>2, LogAssumption DEF LogInv, LogTypeOK
    <2>4. CASE count = 0
      BY <1>1, <2>2, <2>4, SealEmpty DEF SealedInv
    <2>5. CASE count > 0
      BY <1>1, <2>2, <2>5, SealResumes DEF SealedInv
    <2> QED
      BY <2>3, <2>4, <2>5
  <1>2. CASE [Next]_vars /\ sealed' = sealed
    <2>1. CASE sealed.size = 0
      <3>1. LogInv /\ DOMAIN sealed.frontiers = {}
        BY <2>1 DEF SealedInv
      <3>2. LogInv'
        BY <1>2, <3>1, LogStep
      <3> QED
        BY <1>2, <2>1, <3>1, <3>2 DEF SealedInv
    <2>2. CASE sealed.size # 0
      <3>1. ResumedInv
        BY <2>2 DEF SealedInv
      <3>2. ResumedInv'
        BY <1>2, <3>1, ResumedStep
      <3> QED
        BY <1>2, <2>2, <3>2 DEF SealedInv
    <2> QED
      BY <2>1, <2>2
  <1> QED
    BY <1>1, <1>2 DEF SealNext, sealVars

\* The invariant holds in every reachable state, before the seal and after it.
LEMMA SealedInvariant ==
  ASSUME NoNullItems
  PROVE  SealSpec => []SealedInv
  <1>1. SealInit => SealedInv
    <2> SUFFICES ASSUME SealInit PROVE SealedInv
      OBVIOUS
    <2>1. LogInv
      BY InitKeeps DEF SealInit
    <2>2. sealed.size = 0 /\ DOMAIN sealed.frontiers = {}
      BY DEF SealInit, NoSeal
    <2> QED
      BY <2>1, <2>2 DEF SealedInv
  <1>2. SealedInv /\ [SealNext]_sealVars => SealedInv'
    BY SealedStep
  <1> QED
    BY <1>1, <1>2, PTL DEF SealSpec

-----------------------------------------------------------------------------
(* The theorems *)

\* An algorithm of which the handle is right has the frontier of the log never sealed.
LEMMA KeptSaid ==
  ASSUME NEW a \in Algs, NEW f, AlgKept(a, f), Size(a) \in Nat
  PROVE  /\ coords[a] = FrontierForSize(TreeSize(epochs[a], count))
         /\ frontier[a] = [i \in DOMAIN coords[a] |-> ReferenceNode(a, coords[a][i][1], coords[a][i][2])]
  <1> DEFINE at == FrontierForSize(Size(a))
  <1>1. coords[a] = at /\ frontier[a] = PeaksOf(Ref(a), Size(a))
    BY DEF AlgKept
  <1>2. at \in Seq(Coordinates) /\ DOMAIN at = 1..Len(at)
    BY FrontierCovers DEF Covers
  <1>3. frontier[a] = [i \in 1..Len(at) |-> Ref(a)[at[i]]]
    BY <1>1 DEF PeaksOf
  <1>4. coords[a] = FrontierForSize(TreeSize(epochs[a], count))
    BY <1>1 DEF Size
  <1> HIDE DEF at
  <1>5. ASSUME NEW i \in 1..Len(at) PROVE ReferenceNode(a, at[i][1], at[i][2]) = Ref(a)[at[i]]
    <2>1. at[i] \in Coordinates
      BY <1>2
    <2>2. at[i] = <<at[i][1], at[i][2]>> /\ at[i][1] \in Nat /\ at[i][2] \in Nat
      BY <2>1, CoordinateIsPair
    <2>3. \A l \in Nat, h \in Nat : ReferenceNode(a, l, h) = Ref(a)[<<l, h>>]
      BY References
    <2>4. ReferenceNode(a, at[i][1], at[i][2]) = Ref(a)[<<at[i][1], at[i][2]>>]
      BY <2>2, <2>3
    <2> QED
      BY <2>2, <2>4
  <1> QED
    BY <1>1, <1>2, <1>3, <1>4, <1>5

\* Of every algorithm the property speaks of the handle is right.
LEMMA SealInvisibleSaid ==
  ASSUME SealedInv
  PROVE  SealInvisible
  <1> SUFFICES ASSUME NEW a \in Algs, Uninterrupted(a) \/ RegisteredSince(a)
               PROVE  /\ coords[a] = FrontierForSize(TreeSize(epochs[a], count))
                      /\ frontier[a] = [i \in DOMAIN coords[a] |->
                                          ReferenceNode(a, coords[a][i][1], coords[a][i][2])]
    BY DEF SealInvisible
  <1>1. CASE sealed.size = 0
    <2>1. LogInv
      BY <1>1 DEF SealedInv
    <2>2. AlgKept(a, 0) /\ LogTypeOK
      BY <2>1, KeptUnsealed DEF BasicsKept
    <2>3. Size(a) \in Nat
      BY <2>2, SizeKnown
    <2> QED
      BY <2>2, <2>3, KeptSaid
  <1>2. CASE sealed.size # 0
    <2>1. ResumedInv
      BY <1>2 DEF SealedInv
    <2>2. LogTypeOK /\ SealKept /\ TimelineGoesOn(a)
      BY <2>1 DEF ResumedInv, BasicsKept
    <2>3. Sound(a)
      <3>1. CASE Uninterrupted(a)
        BY <3>1 DEF Uninterrupted, Sound
      <3>2. CASE RegisteredSince(a)
        <4> SUFFICES ASSUME a \in DOMAIN sealed.frontiers PROVE From(a) = 0
          BY DEF Sound
        <4>1. epochs[a][1][1] >= sealed.size /\ epochs[a][1][1] = sealed.epochs[a][1][1]
          BY <2>2, <3>2 DEF RegisteredSince, TimelineGoesOn
        <4>2. epochs[a] # <<>> /\ epochs[a] \in Seq(Interval)
          BY <2>2, <3>2 DEF RegisteredSince, Registered, LogTypeOK
        <4>3. epochs[a][1] \in Interval
          BY <4>2
        <4>4. epochs[a][1][1] \in Nat /\ sealed.size \in Nat
          BY SMTT(30), <2>2, <4>3, IntervalIsPair, LogAssumption DEF SealKept, LogTypeOK
        <4>5. ~(sealed.epochs[a][1][1] < sealed.size)
          BY <4>1, <4>4
        <4> QED
          BY <4>5 DEF From
      <3> QED
        BY <3>1, <3>2
    <2>4. PICK f : f = From(a)
      OBVIOUS
    <2>5. AlgKept(a, f)
      BY <2>1, <2>3, <2>4 DEF ResumedInv
    <2>6. Size(a) \in Nat
      BY <2>2, SizeKnown
    <2> QED
      BY <2>5, <2>6, KeptSaid
  <1> QED
    BY <1>1, <1>2

\* Sealing a log and resuming it is invisible: an algorithm the seal kept, until it is
\* resumed again after a freeze, and one registered since, have the frontier they
\* would have had without the seal, whatever was appended since.
THEOREM SealAlwaysInvisible ==
  ASSUME NoNullItems
  PROVE  SealSpec => []SealInvisible
  <1>1. SealedInv => SealInvisible
    BY SealInvisibleSaid
  <1> QED
    BY <1>1, SealedInvariant, PTL

\* While nothing changed the resumed log has the timeline and the peaks of its seal.
LEMMA BindingRootSaid ==
  ASSUME SealedInv
  PROVE  BindingRootReproduced
  <1> DEFINE kept == DOMAIN sealed.frontiers
  <1> SUFFICES ASSUME NEW a \in kept, count = sealed.size,
                      \A b \in Algs : /\ Len(epochs[b]) = Len(sealed.epochs[b])
                                      /\ Registered(b) => IsActive(epochs[b]),
                      \A b \in Algs : Registered(b) => b \in kept,
                      kept = CommittedActiveAlgs(sealed.epochs, sealed.size)
               PROVE  LiveCombinedRoot(a) = BindingRoot(sealed, a)
    BY DEF BindingRootReproduced
  <1>1. sealed.size # 0 /\ ResumedInv
    BY DEF SealedInv
  <1>2. /\ LogTypeOK /\ SealKept /\ \A b \in Algs : TimelineGoesOn(b)
        /\ \A b \in Algs : Sound(b) => AlgKept(b, From(b))
    BY <1>1 DEF ResumedInv, BasicsKept
  <1>3. /\ count \in Nat /\ count < Open /\ count # 0 /\ kept \subseteq Algs
        /\ sealed.epochs \in [Algs -> Seq(Interval)] /\ epochs \in [Algs -> Seq(Interval)]
    BY <1>1, <1>2, LogAssumption, OpenAssumption DEF LogTypeOK, SealKept
  <1>4. ASSUME NEW b \in Algs PROVE epochs[b] = sealed.epochs[b]
    <2>1. CASE b \in kept
      <3>1. sealed.epochs[b] # <<>> /\ sealed.epochs[b] \in Seq(Interval) /\ Len(epochs[b]) = Len(sealed.epochs[b])
        BY <1>2, <1>3, <2>1 DEF TimelineGoesOn
      <3>2. epochs[b] # <<>>
        <4>1. Len(sealed.epochs[b]) \in Nat \ {0}
          BY <3>1, CloseLast, OpenAssumption
        <4>2. Len(<<>>) = 0
          OBVIOUS
        <4> QED
          BY <3>1, <4>1, <4>2
      <3> QED
        BY <1>2, <2>1, <3>1, <3>2 DEF TimelineGoesOn, Registered
    <2>2. CASE b \notin kept
      <3>1. epochs[b] = <<>>
        BY <2>2 DEF Registered
      <3>2. sealed.epochs[b] \in Seq(Interval) /\ Len(sealed.epochs[b]) = 0
        BY <1>3, <3>1
      <3> QED
        BY <3>1, <3>2
    <2> QED
      BY <2>1, <2>2
  <1>5. sealed.epochs = epochs
    BY <1>3, <1>4
  <1>6. CommittedEpochsAt(count) = epochs
    <2>1. \A b \in Algs : EpochsAt(epochs[b], count) = epochs[b]
      BY <1>2, <1>3, CommittedNow DEF LogTypeOK, Registered
    <2>2. epochs = [b \in Algs |-> epochs[b]]
      BY <1>3
    <2> QED
      BY <2>1, <2>2 DEF CommittedEpochsAt
  <1>7. ActiveAlgsAt(count) = kept
    <2>1. DOMAIN epochs = Algs /\ count > 0
      BY <1>3
    <2> QED
      BY <1>5, <2>1 DEF ActiveAlgsAt, CommittedActiveAlgs
  <1>8. ASSUME NEW b \in kept PROVE frontier[b] = sealed.frontiers[b]
    <2>1. b \in Algs /\ Sound(b)
      BY <1>3 DEF Sound
    <2>2. epochs[b] # <<>>
      BY <1>2, <1>4, <2>1 DEF TimelineGoesOn
    <2>3. Size(b) = count
      BY <1>2, <2>1, <2>2, SizeKnown DEF Registered
    <2>4. frontier[b] = PeaksOf(Ref(b), Size(b))
      BY <1>2, <2>1 DEF AlgKept
    <2> QED
      BY <1>2, <2>3, <2>4 DEF SealKept
  <1> HIDE DEF kept
  <1>9. [b \in kept |-> RootFor(b)] = [b \in kept |-> BagPeaks(b, sealed.frontiers[b])]
    BY <1>8 DEF RootFor
  <1>10. LiveCombinedRoot(a) = CombinedRoot(a, [b \in kept |-> RootFor(b)], epochs, count)
    BY <1>3, <1>6, <1>7 DEF LiveCombinedRoot
  <1>11. BindingRoot(sealed, a) = CombinedRoot(a, [b \in kept |-> BagPeaks(b, sealed.frontiers[b])], epochs, count)
    BY <1>5 DEF BindingRoot, MemberRoots, kept
  <1> QED
    BY <1>9, <1>10, <1>11

\* Until something changes, the combined roots the resumed log shows are the binding
\* roots of the seal it was resumed from.
THEOREM BindingRootAlwaysReproduced ==
  ASSUME NoNullItems
  PROVE  SealSpec => []BindingRootReproduced
  <1>1. SealedInv => BindingRootReproduced
    BY BindingRootSaid
  <1> QED
    BY <1>1, SealedInvariant, PTL

\* An algorithm of which handle and store are right reads right from where its store
\* begins.
LEMMA KeptIsRight ==
  ASSUME BasicsKept, NEW a \in Algs, NEW f, AlgKept(a, f)
  PROVE  RightFrom(a, f)
  <1>1. Size(a) \in Nat
    BY SizeKnown DEF BasicsKept
  <1>2. \A c \in Blocks(Size(a)) : Asked(f, c) => ReadsAt(a, Ref(a), c)
    BY KeptReads DEF ReadsAt
  <1> QED
    BY <1>1, <1>2 DEF RightFrom, AlgKept

\* The seal's peaks and what came since are all a consistency proof from the seal's
\* size on asks for.
LEMMA ConsistencyBridgesSaid ==
  ASSUME SealedInv
  PROVE  ConsistencyBridgesResume
  <1> SUFFICES ASSUME NEW a \in Algs, Uninterrupted(a)
               PROVE  LET roots == [size \in sealed.size..Size(a) |-> ReferenceRoot(a, size)]
                      IN  \A new \in DOMAIN roots : \A old \in sealed.size..new - 1 :
                            LET proof == ConsistencyProof(a, old, new)
                            IN  /\ proof # NoProof
                                /\ ReconstructConsistencyRoots(a, old, new, proof)
                                     = [old |-> roots[old], new |-> roots[new]]
    BY Zenon DEF ConsistencyBridgesResume, Size
  <1> DEFINE roots == [size \in sealed.size..Size(a) |-> ReferenceRoot(a, size)]
  <1>1. a \in DOMAIN sealed.frontiers /\ Sound(a)
    BY DEF Uninterrupted, Sound
  <1>2. ResumedInv
    BY <1>1 DEF SealedInv
  <1>3. BasicsKept /\ sealed.size \in 1..count /\ count \in Nat
    BY <1>2, LogAssumption DEF ResumedInv, SealKept, BasicsKept, LogTypeOK
  <1>4. PICK f : f = From(a)
    OBVIOUS
  <1>5. RightFrom(a, f)
    BY <1>1, <1>2, <1>3, <1>4, KeptIsRight DEF ResumedInv
  <1>6. f <= sealed.size /\ sealed.size \in Nat \ {0} /\ Size(a) \in Nat
    BY <1>3, <1>4, <1>5 DEF From, RightFrom
  <1>7. DOMAIN roots = sealed.size..Size(a)
        /\ \A size \in sealed.size..Size(a) : roots[size] = ReferenceRoot(a, size)
    OBVIOUS
  <1> HIDE DEF roots
  <1>8. ASSUME NEW new \in DOMAIN roots, NEW old \in sealed.size..new - 1
        PROVE  /\ ConsistencyProof(a, old, new) # NoProof
               /\ ReconstructConsistencyRoots(a, old, new, ConsistencyProof(a, old, new))
                    = [old |-> roots[old], new |-> roots[new]]
    <2>1. new \in sealed.size..Size(a)
      BY <1>7
    <2>2. new \in 1..Size(a) /\ old \in 1..new - 1 /\ sealed.size <= old /\ old \in sealed.size..Size(a)
      BY <1>6, <2>1
    <2>3. f <= old
      BY <1>5, <1>6, <2>2 DEF RightFrom
    <2>4. Consistent(a, old, new)
      BY <1>5, <2>2, <2>3, ConsistentFrom
    <2>5. roots[old] = ReferenceRoot(a, old) /\ roots[new] = ReferenceRoot(a, new)
      BY <1>7, <2>1, <2>2
    <2> QED
      BY <2>4, <2>5 DEF Consistent
  <1> QED
    BY <1>8, Zenon DEF roots

\* A consistency proof bridges the seal: for an algorithm that came through it and was
\* not resumed since, from the sealed size or any later one to any size of the resumed
\* log, the log has a proof, and it leads to the roots of the log never sealed, although
\* the blocks below the seal are gone.
THEOREM ConsistencyAlwaysBridgesResume ==
  ASSUME NoNullItems
  PROVE  SealSpec => []ConsistencyBridgesResume
  <1>1. SealedInv => ConsistencyBridgesResume
    BY ConsistencyBridgesSaid
  <1> QED
    BY <1>1, SealedInvariant, PTL
=============================================================================
