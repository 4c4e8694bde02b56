------------------------ MODULE PolydigestLogProofs ------------------------
(***************************************************************************)
(* Theorems about NaryMerkleLog for any arity, any set of algorithms, any  *)
(* capacity and any payloads: the store mirrors the handle between any two *)
(* operations and the log implements the activation timeline; and, when no *)
(* appended item has the null digest (NoNullItems), what the handle and    *)
(* the store hold is what a from-scratch build over the history would      *)
(* hold, whatever the operations were.  The null runs that a combined root *)
(* commits to are the inactive positions, with or without that hypothesis. *)
(*                                                                         *)
(* The argument: the digests of all perfect subtrees form a tree over the  *)
(* leaves (TreeOf); the carry of an append and the rebuild of a resumption *)
(* each produce members of that tree (PushBuilds, RebuildIs); a step       *)
(* changes no leaf below the log's size (SameBelow), hence no member of    *)
(* the tree within it (SameBlocks).  LogInv puts this together.            *)
(***************************************************************************)
EXTENDS PolydigestLog, TopologyProofs

\* The store has the handle's count and the handle's intervals.
StoreMirrorsHandle == storedCount = count /\ metas = epochs

\* An append changes neither the store's intervals nor the handle's, and counts
\* one position in both.
LEMMA AppendSteps ==
  ASSUME AppendLeaf \/ AppendSubtree
  PROVE  /\ count < MaxCount
         /\ \E a \in Algs : IsActive(epochs[a])
         /\ count' = count + 1 /\ storedCount' = count + 1
         /\ UNCHANGED <<epochs, metas>>
  <1>1. PICK item : AppendItem(item)
    BY DEF AppendLeaf, AppendSubtree
  <1>2. count < MaxCount
    BY DEF AppendLeaf, AppendSubtree
  <1> QED
    BY <1>1, <1>2 DEF AppendItem

\* Whatever the operation, handle and store change together.
LEMMA MirrorStep == StoreMirrorsHandle /\ [Next]_vars => StoreMirrorsHandle'
  <1> SUFFICES ASSUME StoreMirrorsHandle, [Next]_vars PROVE StoreMirrorsHandle'
    OBVIOUS
  <1> USE DEF StoreMirrorsHandle
  <1>1. CASE AppendLeaf \/ AppendSubtree
    BY <1>1, AppendSteps
  <1>2. ASSUME NEW a \in Algs, AddAlgorithm(a) PROVE StoreMirrorsHandle'
    BY <1>2 DEF AddAlgorithm, SetEpochs
  <1>3. ASSUME NEW a \in Algs, RemoveAlgorithm(a) PROVE StoreMirrorsHandle'
    BY <1>3 DEF RemoveAlgorithm, SetEpochs
  <1>4. ASSUME NEW a \in Algs, ResumeAlgorithm(a) PROVE StoreMirrorsHandle'
    BY <1>4 DEF ResumeAlgorithm, SetEpochs
  <1>5. CASE Reopen
    BY <1>5 DEF Reopen
  <1>6. CASE UNCHANGED vars
    BY <1>6 DEF vars, handle, store
  <1> QED
    BY <1>1, <1>2, <1>3, <1>4, <1>5, <1>6 DEF Next

\* At every moment the store carries the count and the intervals the handle
\* works with: a restart at any point resumes at the same size with the same
\* timeline.
THEOREM StoreMirrors == Spec => []StoreMirrorsHandle
  <1>1. Init => StoreMirrorsHandle
    BY DEF Init, StoreMirrorsHandle
  <1> QED
    BY <1>1, MirrorStep, PTL DEF Spec

\* The operations of the log are operations of the timeline, and a restart is
\* invisible to it.
THEOREM ImplementsTimeline == Spec => TimelineSpec
  <1>1. Init => Timeline!Init
    BY DEF Init, Timeline!Init
  <1>2. StoreMirrorsHandle /\ [Next]_vars => [Timeline!Next]_Timeline!vars
    <2> SUFFICES ASSUME StoreMirrorsHandle, [Next]_vars
                 PROVE  [Timeline!Next]_Timeline!vars
      OBVIOUS
    <2>1. CASE AppendLeaf \/ AppendSubtree
      <3>1. Timeline!AppendPosition
        BY <2>1, AppendSteps DEF Timeline!AppendPosition, Timeline!IsActive, Timeline!LastEpoch,
                                 IsActive, LastEpoch
      <3> QED
        BY <3>1 DEF Timeline!Next
    <2>2. ASSUME NEW a \in Algs, AddAlgorithm(a) PROVE Timeline!AddAlgorithm(a)
      BY <2>2 DEF AddAlgorithm, SetEpochs, Registered,
                  Timeline!AddAlgorithm, Timeline!Registered
    <2>3. ASSUME NEW a \in Algs, RemoveAlgorithm(a) PROVE Timeline!RemoveAlgorithm(a)
      BY <2>3 DEF RemoveAlgorithm, SetEpochs, Toggles, IsActive, LastEpoch,
                  Timeline!RemoveAlgorithm, Timeline!Toggles, Timeline!IsActive, Timeline!LastEpoch
    <2>4. ASSUME NEW a \in Algs, ResumeAlgorithm(a) PROVE Timeline!ResumeAlgorithm(a)
      BY <2>4 DEF ResumeAlgorithm, SetEpochs, Registered, Toggles, IsActive, LastEpoch,
                  Timeline!ResumeAlgorithm, Timeline!Registered, Timeline!Toggles,
                  Timeline!IsActive, Timeline!LastEpoch
    <2>5. CASE Reopen
      BY <2>5 DEF Reopen, StoreMirrorsHandle, Timeline!vars
    <2>6. CASE UNCHANGED vars
      BY <2>6 DEF vars, handle, Timeline!vars
    <2> QED
      BY <2>1, <2>2, <2>3, <2>4, <2>5, <2>6 DEF Next, Timeline!Next
  <1> QED
    BY <1>1, <1>2, StoreMirrors, PTL DEF Spec, TimelineSpec, Timeline!Spec

-----------------------------------------------------------------------------
(* The carry of an append *)

\* The carry before its first merge.
PushStart(a, peaks, at, i, digest) ==
  [peaks |-> Append(peaks, digest), at |-> Append(at, <<i, 0>>), made |-> Only(<<a, i, 0>>, digest)]

\* One merge of the carry.
PushStep(a, s) ==
  LET first == Len(s.peaks) - Arity + 1
      parent == NaryMr(a, SubSeq(s.peaks, first, Len(s.peaks)))
      left == s.at[first][1]
      height == s.at[first][2] + 1
  IN  [peaks |-> Append(SubSeq(s.peaks, 1, first - 1), parent),
       at    |-> Append(SubSeq(s.at, 1, first - 1), <<left, height>>),
       made  |-> Over(Only(<<a, left, height>>, parent), s.made)]

\* after[m] is what m merges make.
Merges(after, a, peaks, at, i, digest) ==
  /\ after[0] = PushStart(a, peaks, at, i, digest)
  /\ \A m \in Nat : after[m + 1] = PushStep(a, after[m])
  /\ \A n : Push(a, peaks, at, i, n, digest) = after[ReductionCount(n)]

\* Push is as many steps of merging as the schedule says.
LEMMA PushRuns ==
  ASSUME NEW a, NEW peaks, NEW at, NEW i, NEW digest
  PROVE  \E after : Merges(after, a, peaks, at, i, digest)
  <1> DEFINE base == PushStart(a, peaks, at, i, digest)
             next(m, x) == PushStep(a, x)
             body(f) == [m \in Nat |-> IF m = 0 THEN base ELSE next(m, f[m - 1])]
             Starts(f, n) == \A m \in 0..n : f[m] = IF m = 0 THEN base ELSE next(m, f[m - 1])
             Start(n) == CHOOSE f : Starts(f, n)
             whole == [n \in Nat |-> Start(n)[n]]
  <1> HIDE DEF base, next
  <1>1. \A n \in Nat : \E f : Starts(f, n)
    <2> DEFINE S == {n \in Nat : \E f : Starts(f, n)}
    <2>1. 0 \in S
      <3>1. Starts([m \in {0} |-> base], 0)
        OBVIOUS
      <3> QED
        BY <3>1
    <2>2. ASSUME NEW n \in Nat, n \in S PROVE n + 1 \in S
      <3>1. PICK f : Starts(f, n)
        BY <2>2
      <3> DEFINE g == [m \in 0..n + 1 |-> IF m <= n THEN f[m] ELSE next(n + 1, f[n])]
      <3>2. Starts(g, n + 1)
        <4>1. \A m \in 0..n + 1 : g[m] = IF m <= n THEN f[m] ELSE next(n + 1, f[n])
          OBVIOUS
        <4> HIDE DEF g
        <4> SUFFICES ASSUME NEW m \in 0..n + 1
                     PROVE  g[m] = IF m = 0 THEN base ELSE next(m, g[m - 1])
          OBVIOUS
        <4>2. CASE m <= n
          BY <3>1, <4>1, <4>2
        <4>3. CASE m = n + 1
          BY <4>1, <4>3
        <4> QED
          BY <4>2, <4>3
      <3>3. n + 1 \in Nat
        OBVIOUS
      <3> HIDE DEF Starts, g
      <3> QED
        BY <3>2, <3>3
    <2> HIDE DEF S
    <2>3. \A n \in Nat : n \in S
      BY <2>1, <2>2, SetInduction
    <2> QED
      BY <2>3 DEF S
  <1>2. \A n \in Nat : Starts(Start(n), n)
    BY <1>1
  <1> HIDE DEF Start
  <1>3. ASSUME NEW n \in Nat PROVE Start(n + 1)[n] = Start(n)[n]
    <2> DEFINE f == Start(n)
               g == Start(n + 1)
               S == {m \in Nat : m <= n => f[m] = g[m]}
    <2>1. Starts(f, n) /\ Starts(g, n + 1)
      <3>1. n + 1 \in Nat
        OBVIOUS
      <3> HIDE DEF Starts
      <3> QED
        BY <1>2, <3>1
    <2> HIDE DEF f, g
    <2>2. 0 \in S
      BY <2>1
    <2>3. ASSUME NEW m \in Nat, m \in S PROVE m + 1 \in S
      BY <2>1, <2>3
    <2> HIDE DEF S
    <2>4. \A m \in Nat : m \in S
      BY <2>2, <2>3, SetInduction
    <2> QED
      BY <2>4 DEF S, f, g
  <1>4. whole = body(whole)
    <2>1. ASSUME NEW m \in Nat PROVE whole[m] = IF m = 0 THEN base ELSE next(m, whole[m - 1])
      <3>1. Starts(Start(m), m) /\ m \in 0..m
        BY <1>2
      <3>2. CASE m = 0
        BY <3>1, <3>2
      <3>3. CASE m # 0
        <4>1. Start(m)[m] = next(m, Start(m)[m - 1])
          BY <3>1, <3>3
        <4>2. m - 1 \in Nat /\ (m - 1) + 1 = m
          BY <3>3
        <4>3. Start(m)[m - 1] = Start(m - 1)[m - 1]
          BY <1>3, <4>2
        <4> QED
          BY <3>3, <4>1, <4>2, <4>3
      <3> QED
        BY <3>2, <3>3
    <2> HIDE DEF whole
    <2>2. whole = [m \in Nat |-> whole[m]]
      BY DEF whole
    <2> QED
      BY <2>1, <2>2
  <1> HIDE DEF whole, Start, Starts
  <1> DEFINE chosen == CHOOSE f : f = body(f)
  <1>5. chosen = body(chosen)
    BY <1>4
  <1> HIDE DEF chosen
  <1>6. \A m \in Nat : chosen[m] = IF m = 0 THEN base ELSE next(m, chosen[m - 1])
    BY <1>5
  <1>7. \A m \in Nat : m + 1 \in Nat /\ m + 1 # 0 /\ (m + 1) - 1 = m
    OBVIOUS
  <1>8. chosen[0] = base /\ \A m \in Nat : chosen[m + 1] = next(m + 1, chosen[m])
    BY <1>6, <1>7
  <1>9. \A n : Push(a, peaks, at, i, n, digest) = chosen[ReductionCount(n)]
    BY DEF Push, PushStart, PushStep, chosen, base, next
  <1>10. chosen[0] = PushStart(a, peaks, at, i, digest)
         /\ \A m \in Nat : chosen[m + 1] = PushStep(a, chosen[m])
    BY <1>8 DEF base, next
  <1>11. Merges(chosen, a, peaks, at, i, digest)
    BY <1>9, <1>10 DEF Merges
  <1> QED
    BY <1>11

\* `ref` gives every block the hash of the blocks it consists of.
TreeOf(a, ref) ==
  \A l \in Nat, h \in Nat :
    ref[<<l, h + 1>>] = NaryMr(a, [j \in 1..Arity |-> ref[<<l + (j - 1) * BlockSize(h), h>>]])

\* The blocks that end with the item of position n, up to height m.
EndingAt(a, n, m) == {<<a, n + 1 - BlockSize(j), j>> : j \in 0..m}

\* The state of the carry at position n after m merges: p peaks are left.
Merging(a, ref, peaks, at, n, m, p, s) ==
  /\ EndsAt(at, p, n + 1 - BlockSize(m)) /\ n + 1 - BlockSize(m) \in Nat
  /\ s.at = [i \in 1..p + 1 |-> IF i <= p THEN at[i] ELSE <<n + 1 - BlockSize(m), m>>]
  /\ s.peaks = [i \in 1..p + 1 |-> IF i <= p THEN peaks[i] ELSE ref[<<n + 1 - BlockSize(m), m>>]]
  /\ s.made = [x \in EndingAt(a, n, m) |-> ref[<<x[2], x[3]>>]]

\* Before the first merge the new item is the last peak, and the only digest made.
LEMMA MergeStart ==
  ASSUME NEW n \in Nat, NEW a, NEW ref, NEW at, Covers(at, 0, n),
         NEW peaks, peaks = [i \in 1..Len(at) |-> ref[at[i]]]
  PROVE  Merging(a, ref, peaks, at, n, 0, Len(at), PushStart(a, peaks, at, n, ref[<<n, 0>>]))
  <1> DEFINE p == Len(at)
             s == PushStart(a, peaks, at, n, ref[<<n, 0>>])
  <1>1. at \in Seq(Coordinates) /\ p \in Nat /\ at = [i \in 1..p |-> at[i]]
    BY DEF Covers
  <1>2. BlockSize(0) = 1 /\ n + 1 - BlockSize(0) = n
    BY BlockSizes
  <1>3. EndsAt(at, p, n)
    <2>1. CASE at = <<>>
      BY <2>1 DEF Covers, EndsAt
    <2>2. CASE at # <<>>
      <3>1. p # 0
        BY <1>1, <2>2
      <3> QED
        BY <2>2, <3>1 DEF Covers, EndsAt
    <2> QED
      BY <2>1, <2>2
  <1>4. peaks = [i \in 1..p |-> peaks[i]]
    OBVIOUS
  <1> HIDE DEF p
  <1>5. s.at = [i \in 1..p + 1 |-> IF i <= p THEN at[i] ELSE <<n, 0>>]
    BY <1>1, AppendIs DEF PushStart
  <1>6. s.peaks = [i \in 1..p + 1 |-> IF i <= p THEN peaks[i] ELSE ref[<<n, 0>>]]
    BY <1>1, <1>4, AppendIs DEF PushStart
  <1>7. s.made = [x \in EndingAt(a, n, 0) |-> ref[<<x[2], x[3]>>]]
    <2>1. EndingAt(a, n, 0) = {<<a, n, 0>>}
      <3>1. \A j : j \in 0..0 <=> j = 0
        OBVIOUS
      <3> QED
        BY <1>2, <3>1 DEF EndingAt
    <2>2. s.made = [x \in {<<a, n, 0>>} |-> ref[<<n, 0>>]]
      <3> DEFINE c == <<a, n, 0>>
                 e == ref[<<n, 0>>]
      <3>1. s.made = Only(c, e)
        BY DEF PushStart
      <3> HIDE DEF c, e, s
      <3>2. s.made = [x \in {c} |-> e]
        BY <3>1 DEF Only
      <3> QED
        BY <3>2 DEF c, e
    <2>3. \A x \in {<<a, n, 0>>} : ref[<<x[2], x[3]>>] = ref[<<n, 0>>]
      OBVIOUS
    <2> HIDE DEF s
    <2> QED
      BY <2>1, <2>2, <2>3
  <1> HIDE DEF s
  <1>8. Merging(a, ref, peaks, at, n, 0, p, s)
    BY SMTT(30), <1>2, <1>3, <1>5, <1>6, <1>7 DEF Merging
  <1> QED
    BY <1>8 DEF p, s

\* The first q elements of a sequence, and another one: as sequences, and as a
\* function.
CutAnd(v, q, e) == Append(SubSeq(v, 1, q), e)
\* The first q of w and e.
FirstAnd(w, q, e) == [i \in 1..q + 1 |-> IF i <= q THEN w[i] ELSE e]

Agree(v, w, q) == \A i \in 1..q : v[i] = w[i]

\* The first q entries of a sequence and one more are those of any sequence that
\* agrees with it there, and one more.
LEMMA CutAndAppend ==
  ASSUME NEW r \in Nat, NEW q \in 0..r, NEW v, v = [i \in 1..r |-> v[i]], NEW e,
         NEW w, Agree(v, w, q)
  PROVE  CutAnd(v, q, e) = FirstAnd(w, q, e)
  <1> DEFINE u == SubSeq(v, 1, q)
  <1>1. 1 \in 1..r + 1 /\ q \in 1 - 1..r /\ q \in Nat
    OBVIOUS
  <1>2. u = [i \in 1..q - 1 + 1 |-> v[1 + i - 1]]
    BY <1>1, SubSeqIs
  <1>3. u = [i \in 1..q |-> w[i]]
    <2>1. q - 1 + 1 = q
      BY <1>1
    <2>2. \A i \in 1..q : 1 + i - 1 = i
      BY <1>1
    <2>3. \A i \in 1..q : v[1 + i - 1] = w[i]
      BY <2>2 DEF Agree
    <2> QED
      BY <1>2, <2>1, <2>3
  <1>4. u = [i \in 1..q |-> u[i]]
    BY <1>3
  <1> HIDE DEF u
  <1>5. Append(u, e) = [i \in 1..q + 1 |-> IF i <= q THEN u[i] ELSE e]
    BY <1>1, <1>4, AppendIs
  <1>6. \A i \in 1..q : u[i] = w[i]
    BY <1>3
  <1>7. \A i \in 1..q + 1 : i <= q => i \in 1..q
    BY <1>1
  <1> QED
    BY <1>5, <1>6, <1>7 DEF u, CutAnd, FirstAnd

\* One more merge takes the last k peaks, the blocks of height m that make up the
\* block of height m + 1 ending with the new item, and leaves that block for them.
LEMMA MergeStep ==
  ASSUME NEW n \in Nat, NEW a, NEW ref, TreeOf(a, ref), NEW at, Covers(at, 0, n),
         NEW peaks, peaks = [i \in 1..Len(at) |-> ref[at[i]]],
         NEW m \in Nat, Multiple(n + 1, BlockSize(m + 1)),
         NEW p \in 0..Len(at), NEW s, Merging(a, ref, peaks, at, n, m, p, s)
  PROVE  /\ p - (Arity - 1) \in 0..Len(at)
         /\ Merging(a, ref, peaks, at, n, m + 1, p - (Arity - 1), PushStep(a, s))
  <1> DEFINE d == BlockSize(m)
             l == n + 1 - BlockSize(m + 1)
             q == p - (Arity - 1)
             first == Len(s.peaks) - Arity + 1
             parent == NaryMr(a, SubSeq(s.peaks, first, Len(s.peaks)))
  <1>0. Arity \in Nat /\ Arity >= 2 /\ d \in Nat \ {0} /\ BlockSize(m + 1) = Arity * d
    BY BlockSizes, ArityAssumption
  <1>1. at \in Seq(Coordinates) /\ Len(at) \in Nat
    BY DEF Covers
  <1>2. /\ \A j \in 1..Arity - 1 : j <= p /\ at[p + 1 - j] = <<n + 1 - (j + 1) * d, m>>
        /\ q \in 0..Len(at) /\ EndsAt(at, q, l) /\ l \in Nat /\ Arity - 1 <= p
    <2>1. EndsAt(at, p, n + 1 - BlockSize(m))
      BY DEF Merging
    <2>2. /\ \A j \in 1..Arity - 1 : j <= p /\ at[p + 1 - j] = <<n + 1 - (j + 1) * BlockSize(m), m>>
          /\ Arity - 1 <= p /\ EndsAt(at, p - (Arity - 1), n + 1 - BlockSize(m + 1))
          /\ n + 1 - BlockSize(m + 1) \in Nat
      BY <2>1, Siblings
    <2>3. q \in 0..Len(at)
      BY <1>0, <1>1, <2>2
    <2> QED
      BY <2>2, <2>3
  <1>3. /\ s.at = [i \in 1..p + 1 |-> IF i <= p THEN at[i] ELSE <<n + 1 - d, m>>]
        /\ s.peaks = [i \in 1..p + 1 |-> IF i <= p THEN peaks[i] ELSE ref[<<n + 1 - d, m>>]]
        /\ s.made = [x \in EndingAt(a, n, m) |-> ref[<<x[2], x[3]>>]]
    BY DEF Merging
  <1>4. p \in Nat /\ p + 1 \in Nat /\ q \in Nat /\ q + Arity = p + 1 /\ q + 1 \in 1..p /\ q + 1 \in 1..p + 1
    <2>1. p \in Nat /\ p <= Len(at)
      BY <1>1
    <2> HIDE DEF d, l
    <2>2. Arity \in Nat /\ Arity >= 2 /\ Arity - 1 <= p
      BY <1>0, <1>2
    <2> QED
      BY <2>1, <2>2
  <1>5. s.at = [i \in 1..p + 1 |-> s.at[i]] /\ s.peaks = [i \in 1..p + 1 |-> s.peaks[i]]
    BY <1>3
  <1>6. Len(s.peaks) = p + 1 /\ first = q + 1
    <2> DEFINE r == p + 1
    <2>1. r \in Nat /\ s.peaks = [i \in 1..r |-> s.peaks[i]]
      BY <1>4, <1>5
    <2> HIDE DEF r
    <2>2. Len(s.peaks) = r
      BY <2>1, FcnIsSeq
    <2> QED
      BY <1>0, <1>4, <2>2 DEF r
  <1>7. s.at[q + 1] = <<l, m>>
    <2>1. Arity - 1 \in 1..Arity - 1 /\ p + 1 - (Arity - 1) = q + 1
      BY <1>0
    <2>2. at[q + 1] = <<n + 1 - ((Arity - 1) + 1) * d, m>>
      BY <1>2, <2>1
    <2>3. ((Arity - 1) + 1) * d = Arity * d
      BY <1>0
    <2> QED
      BY <1>0, <1>3, <1>4, <2>2, <2>3
  <1>8. parent = ref[<<l, m + 1>>]
    <2> DEFINE k == SubSeq(s.peaks, first, Len(s.peaks))
    <2>1. k = [j \in 1..Arity |-> s.peaks[q + j]]
      <3> DEFINE r == p + 1
                 x == q + 1
                 v == s.peaks
      <3>1. /\ r \in Nat /\ v = [i \in 1..r |-> v[i]] /\ x \in 1..r + 1 /\ r \in x - 1..r
            /\ r - x + 1 = Arity /\ k = SubSeq(v, x, r)
        <4>1. r \in Nat /\ x \in 1..r + 1 /\ r \in x - 1..r /\ r - x + 1 = Arity
          <5> HIDE DEF q
          <5> QED
            BY <1>0, <1>4
        <4>2. v = [i \in 1..r |-> v[i]]
          BY <1>5
        <4>3. k = SubSeq(v, x, r)
          BY <1>6
        <4> QED
          BY <4>1, <4>2, <4>3
      <3> HIDE DEF r, x, v, k
      <3>4. SubSeq(v, x, r) = [i \in 1..r - x + 1 |-> v[x + i - 1]]
        BY SMTT(30), <3>1, SubSeqIs
      <3>2. k = [i \in 1..Arity |-> v[x + i - 1]]
        BY <3>1, <3>4
      <3>3. \A i \in 1..Arity : x + i - 1 = q + i
        BY <1>0, <1>4 DEF x
      <3> QED
        BY <3>2, <3>3 DEF v
    <2>2. ASSUME NEW j \in 1..Arity PROVE s.peaks[q + j] = ref[<<l + (j - 1) * d, m>>]
      <3>1. q + j \in 1..p + 1
        BY <1>0, <1>2, <1>4
      <3>2. CASE j = Arity
        <4>1. l + (j - 1) * d = n + 1 - d
          BY <1>0, <3>2
        <4>2. q + j = p + 1 /\ ~(q + j <= p)
          BY <1>4, <3>2
        <4>3. s.peaks[q + j] = ref[<<n + 1 - d, m>>]
          BY <1>3, <3>1, <4>2
        <4> QED
          BY <4>1, <4>3
      <3>3. CASE j # Arity
        <4> DEFINE e == Arity - j
        <4>1. e \in 1..Arity - 1 /\ p + 1 - e = q + j /\ q + j <= p /\ q + j \in 1..Len(at)
          <5> HIDE DEF d, l
          <5>1. q \in Nat /\ p <= Len(at)
            BY <1>1, <1>2
          <5>2. j \in Nat /\ 1 <= j /\ j < Arity
            BY <1>0, <3>3
          <5> QED
            BY <1>0, <1>1, <1>4, <5>1, <5>2
        <4>2. at[q + j] = <<n + 1 - (e + 1) * d, m>>
          <5>1. at[p + 1 - e] = <<n + 1 - (e + 1) * d, m>>
            <6> HIDE DEF e
            <6> QED
              BY <1>2, <4>1
          <5> QED
            BY <4>1, <5>1
        <4>3. n + 1 - (e + 1) * d = l + (j - 1) * d
          BY SMTT(30), <1>0
        <4>4. s.peaks[q + j] = ref[at[q + j]]
          BY <1>3, <3>1, <4>1
        <4> HIDE DEF e
        <4> QED
          BY <4>2, <4>3, <4>4
      <3> QED
        BY <3>2, <3>3
    <2>3. k = [j \in 1..Arity |-> ref[<<l + (j - 1) * d, m>>]]
      BY <2>1, <2>2
    <2>4. ref[<<l, m + 1>>] = NaryMr(a, [j \in 1..Arity |-> ref[<<l + (j - 1) * d, m>>]])
      BY <1>2 DEF TreeOf
    <2> HIDE DEF k, l, d
    <2>5. NaryMr(a, k) = ref[<<l, m + 1>>]
      BY <2>3, <2>4
    <2> QED
      BY <2>5 DEF k
  <1> DEFINE t == PushStep(a, s)
  <1>9. /\ t.at = Append(SubSeq(s.at, 1, first - 1), <<s.at[first][1], s.at[first][2] + 1>>)
        /\ t.peaks = Append(SubSeq(s.peaks, 1, first - 1), parent)
        /\ t.made = Over(Only(<<a, s.at[first][1], s.at[first][2] + 1>>, parent), s.made)
    BY DEF PushStep
  <1> HIDE DEF t, parent, first, d
  <1>10. /\ t.at = Append(SubSeq(s.at, 1, q), <<l, m + 1>>)
         /\ t.peaks = Append(SubSeq(s.peaks, 1, q), ref[<<l, m + 1>>])
         /\ t.made = Over(Only(<<a, l, m + 1>>, ref[<<l, m + 1>>]), s.made)
    <2>1. first - 1 = q /\ s.at[first][1] = l /\ s.at[first][2] = m
      BY <1>4, <1>2, <1>6, <1>7
    <2> QED
      BY <1>8, <1>9, <2>1
  <1>12. t.at = [i \in 1..q + 1 |-> IF i <= q THEN at[i] ELSE <<l, m + 1>>]
    <2> DEFINE r == p + 1
               v == s.at
               e == <<l, m + 1>>
    <2>1. Agree(v, at, q)
      <3>1. \A i \in 1..q : i \in 1..p + 1 /\ i <= p
        <4> HIDE DEF q
        <4> QED
          BY <1>4
      <3> QED
        BY <1>3, <3>1 DEF Agree
    <2>2. t.at = CutAnd(v, q, e)
      BY <1>10 DEF CutAnd
    <2>3. r \in Nat /\ v = [i \in 1..r |-> v[i]]
      BY <1>4, <1>5
    <2>4. q \in 0..r
      <3> HIDE DEF q
      <3> QED
        BY <1>4
    <2> HIDE DEF v, e, q, r
    <2>5. CutAnd(v, q, e) = FirstAnd(at, q, e)
      BY <2>1, <2>3, <2>4, CutAndAppend
    <2> QED
      BY <2>2, <2>5 DEF e, FirstAnd
  <1>13. t.peaks = [i \in 1..q + 1 |-> IF i <= q THEN peaks[i] ELSE ref[<<l, m + 1>>]]
    <2> DEFINE r == p + 1
               v == s.peaks
               e == ref[<<l, m + 1>>]
    <2>1. Agree(v, peaks, q)
      <3>1. \A i \in 1..q : i \in 1..p + 1 /\ i <= p
        <4> HIDE DEF q
        <4> QED
          BY <1>4
      <3> QED
        BY <1>3, <3>1 DEF Agree
    <2>2. t.peaks = CutAnd(v, q, e)
      BY <1>10 DEF CutAnd
    <2>3. r \in Nat /\ v = [i \in 1..r |-> v[i]]
      BY <1>4, <1>5
    <2>4. q \in 0..r
      <3> HIDE DEF q
      <3> QED
        BY <1>4
    <2> HIDE DEF v, e, q, r
    <2>5. CutAnd(v, q, e) = FirstAnd(peaks, q, e)
      BY <2>1, <2>3, <2>4, CutAndAppend
    <2> QED
      BY <2>2, <2>5 DEF e, FirstAnd
  <1>14. t.made = [x \in EndingAt(a, n, m + 1) |-> ref[<<x[2], x[3]>>]]
    <2> DEFINE c == <<a, l, m + 1>>
    <2>1. EndingAt(a, n, m + 1) = {c} \cup EndingAt(a, n, m)
      <3>1. \A j : j \in 0..m + 1 <=> j \in 0..m \/ j = m + 1
        OBVIOUS
      <3> QED
        BY <3>1 DEF EndingAt
    <2>2. t.made = [x \in {c} \cup EndingAt(a, n, m) |->
                      IF x \in {c} THEN ref[<<l, m + 1>>] ELSE s.made[x]]
      <3> DEFINE e == ref[<<l, m + 1>>]
                 g == s.made
                 f == Only(c, e)
      <3>1. DOMAIN g = EndingAt(a, n, m) /\ t.made = Over(f, g)
        BY <1>3, <1>10
      <3> HIDE DEF c, e, g
      <3>2. f = [y \in {c} |-> e]
        BY DEF Only
      <3>3. DOMAIN f = {c} /\ f[c] = e
        BY <3>2
      <3> HIDE DEF f
      <3>4. t.made = [x \in {c} \cup EndingAt(a, n, m) |-> IF x \in {c} THEN f[x] ELSE g[x]]
        BY <3>1, <3>3 DEF Over
      <3>5. \A x \in {c} : f[x] = e
        BY <3>3
      <3>6. t.made = [x \in {c} \cup EndingAt(a, n, m) |-> IF x \in {c} THEN e ELSE g[x]]
        BY <3>4, <3>5
      <3> QED
        BY <3>6 DEF e, g
    <2>3. c[2] = l /\ c[3] = m + 1
      OBVIOUS
    <2>4. \A x \in EndingAt(a, n, m) : s.made[x] = ref[<<x[2], x[3]>>]
      BY <1>3
    <2> HIDE DEF c
    <2>5. \A x \in {c} \cup EndingAt(a, n, m) :
            (IF x \in {c} THEN ref[<<l, m + 1>>] ELSE s.made[x]) = ref[<<x[2], x[3]>>]
      BY <2>3, <2>4
    <2>6. t.made = [x \in {c} \cup EndingAt(a, n, m) |-> ref[<<x[2], x[3]>>]]
      BY <2>2, <2>5
    <2> QED
      BY <2>1, <2>6
  <1> QED
    BY <1>2, <1>12, <1>13, <1>14 DEF Merging, t

\* The digests of the peaks of n items.
PeaksOf(ref, size) == [i \in 1..Len(FrontierForSize(size)) |-> ref[FrontierForSize(size)[i]]]

\* The peaks' digests are the reference's.
DigestsOf(peaks, ref, at) == peaks = [i \in 1..Len(at) |-> ref[at[i]]]

\* The digests of the blocks that end with the item of position n.
MadeOf(a, n, ref) == [x \in EndingAt(a, n, ReductionCount(n)) |-> ref[<<x[2], x[3]>>]]

\* An append from the peaks of n items gives the peaks of n + 1 items and makes
\* the digests of the blocks that end with the new item.
LEMMA PushBuilds ==
  ASSUME NEW n \in Nat, NEW a, NEW ref, TreeOf(a, ref), NEW at, Covers(at, 0, n),
         NEW peaks, DigestsOf(peaks, ref, at),
         NEW s, s = Push(a, peaks, at, n, n, ref[<<n, 0>>])
  PROVE  s.at = FrontierForSize(n + 1) /\ s.peaks = PeaksOf(ref, n + 1) /\ s.made = MadeOf(a, n, ref)
  <1>0. peaks = [i \in 1..Len(at) |-> ref[at[i]]]
    BY DEF DigestsOf
  <1> DEFINE c == ReductionCount(n)
  <1>1. /\ c \in Nat /\ Multiple(n + 1, BlockSize(c))
        /\ \A h \in Nat : Multiple(n + 1, BlockSize(h)) => h <= c
    BY Reductions
  <1>2. PICK after : /\ after[0] = PushStart(a, peaks, at, n, ref[<<n, 0>>])
                     /\ \A m \in Nat : after[m + 1] = PushStep(a, after[m])
                     /\ \A x : Push(a, peaks, at, n, x, ref[<<n, 0>>]) = after[ReductionCount(x)]
    <2> DEFINE digest == ref[<<n, 0>>]
    <2> HIDE DEF digest
    <2>1. PICK after : Merges(after, a, peaks, at, n, digest)
      BY PushRuns
    <2> QED
      BY <2>1 DEF Merges, digest
  <1>3. Len(at) \in Nat
    BY DEF Covers
  <1> DEFINE Reached(m) == \E p \in 0..Len(at) : Merging(a, ref, peaks, at, n, m, p, after[m])
             S == {m \in Nat : m <= c => Reached(m)}
  <1> HIDE DEF c
  <1>4. 0 \in S
    <2>1. Merging(a, ref, peaks, at, n, 0, Len(at), after[0])
      BY <1>0, <1>2, MergeStart
    <2>2. Len(at) \in 0..Len(at)
      BY <1>3
    <2> QED
      BY <2>1, <2>2
  <1>5. ASSUME NEW m \in Nat, m \in S PROVE m + 1 \in S
    <2> SUFFICES ASSUME m + 1 <= c PROVE Reached(m + 1)
      <3> HIDE DEF Reached
      <3> QED
        OBVIOUS
    <2>1. PICK p \in 0..Len(at) : Merging(a, ref, peaks, at, n, m, p, after[m])
      BY <1>1, <1>5
    <2>2. Multiple(n + 1, BlockSize(m + 1))
      <3> DEFINE d == BlockSize(c)
                 e == BlockSize(m + 1)
      <3>1. Multiple(d, e) /\ d \in Nat /\ e \in Nat
        <4> DEFINE k == m + 1
        <4>1. k \in Nat /\ k <= c /\ c \in Nat
          BY <1>1
        <4> HIDE DEF k
        <4>2. Multiple(BlockSize(c), BlockSize(k)) /\ BlockSize(c) \in Nat /\ BlockSize(k) \in Nat
          BY <4>1, TallerBlocks, BlockSizes
        <4> QED
          BY <4>2 DEF k
      <3>2. Multiple(n + 1, d) /\ n + 1 \in Nat
        BY <1>1
      <3> HIDE DEF d, e
      <3>3. Multiple(n + 1, e)
        BY <3>1, <3>2, MultipleTransitive
      <3> QED
        BY <3>3 DEF e
    <2>3. /\ p - (Arity - 1) \in 0..Len(at)
          /\ Merging(a, ref, peaks, at, n, m + 1, p - (Arity - 1), PushStep(a, after[m]))
      BY <1>0, <2>1, <2>2, MergeStep
    <2> QED
      BY <1>2, <2>3
  <1> HIDE DEF S
  <1>6. \A m \in Nat : m \in S
    BY <1>4, <1>5, SetInduction
  <1>7. PICK p \in 0..Len(at) : Merging(a, ref, peaks, at, n, c, p, after[c])
    BY <1>1, <1>6 DEF S
  <1>8. s = after[c]
    BY <1>2 DEF c
  <1> DEFINE e == <<n + 1 - BlockSize(c), c>>
             t == s.at
  <1>9. /\ EndsAt(at, p, n + 1 - BlockSize(c)) /\ n + 1 - BlockSize(c) \in Nat
        /\ t = [i \in 1..p + 1 |-> IF i <= p THEN at[i] ELSE e]
        /\ s.peaks = [i \in 1..p + 1 |-> IF i <= p THEN peaks[i] ELSE ref[e]]
        /\ s.made = [x \in EndingAt(a, n, c) |-> ref[<<x[2], x[3]>>]]
    BY <1>7, <1>8 DEF Merging
  <1>10. Covers(t, 0, n + 1)
    <2>1. ~Multiple(n + 1, BlockSize(c + 1))
      BY <1>1
    <2>2. t = [i \in 1..p + 1 |-> IF i <= p THEN at[i] ELSE <<n + 1 - BlockSize(c), c>>]
      BY <1>9
    <2> HIDE DEF t
    <2> QED
      BY <1>0, <1>1, <1>9, <2>1, <2>2, PushedCovers
  <1>11. t = FrontierForSize(n + 1)
    <2>1. Covers(FrontierForSize(n + 1), 0, n + 1)
      BY FrontierCovers
    <2> HIDE DEF t
    <2>2. n + 1 \in Nat
      OBVIOUS
    <2> QED
      BY <1>10, <2>1, <2>2, CoverUnique
  <1>12. Len(t) = p + 1
    <2> DEFINE r == p + 1
    <2> HIDE DEF t, e
    <2>1. r \in Nat /\ t = [i \in 1..r |-> t[i]]
      BY <1>3, <1>9
    <2> HIDE DEF r
    <2>2. Len(t) = r
      BY <2>1, FcnIsSeq
    <2> QED
      BY <2>2 DEF r
  <1>13. s.peaks = [i \in 1..Len(t) |-> ref[t[i]]]
    <2>1. \A i \in 1..p : peaks[i] = ref[at[i]]
      BY <1>0, <1>3
    <2>2. \A i \in 1..p + 1 : i <= p => i \in 1..p
      BY <1>3
    <2> HIDE DEF e, t
    <2>3. \A i \in 1..p + 1 : (IF i <= p THEN peaks[i] ELSE ref[e]) = ref[t[i]]
      BY <1>9, <2>1, <2>2
    <2> QED
      BY <1>9, <1>12, <2>3
  <1> QED
    BY <1>9, <1>11, <1>13 DEF c, PeaksOf, MadeOf

-----------------------------------------------------------------------------
(* The reference *)

\* What PerfectRoot makes of a leaf and of a taller block.
RootsFromLeaves(a, leaf) ==
  /\ \A l \in Nat : PerfectRoot(a, leaf, l, 0) = leaf[l]
  /\ \A l \in Nat, h \in Nat : PerfectRoot(a, leaf, l, h + 1) =
       NaryMr(a, [j \in 1..Arity |-> PerfectRoot(a, leaf, l + (j - 1) * BlockSize(h), h)])

\* The root over a block is the hash of the roots over the blocks it consists of.
LEMMA PerfectRoots ==
  ASSUME NEW a, NEW leaf
  PROVE  RootsFromLeaves(a, leaf)
  <1> DEFINE base == leaf
             next(m, x) == [l \in Nat |-> NaryMr(a, [j \in 1..Arity |-> x[l + (j - 1) * BlockSize(m - 1)]])]
             body(f) == [m \in Nat |-> IF m = 0 THEN base ELSE next(m, f[m - 1])]
             Starts(f, n) == \A m \in 0..n : f[m] = IF m = 0 THEN base ELSE next(m, f[m - 1])
             Start(n) == CHOOSE f : Starts(f, n)
             whole == [n \in Nat |-> Start(n)[n]]
  <1> HIDE DEF base, next
  <1>1. \A n \in Nat : \E f : Starts(f, n)
    <2> DEFINE S == {n \in Nat : \E f : Starts(f, n)}
    <2>1. 0 \in S
      <3>1. Starts([m \in {0} |-> base], 0)
        OBVIOUS
      <3> QED
        BY <3>1
    <2>2. ASSUME NEW n \in Nat, n \in S PROVE n + 1 \in S
      <3>1. PICK f : Starts(f, n)
        BY <2>2
      <3> DEFINE g == [m \in 0..n + 1 |-> IF m <= n THEN f[m] ELSE next(n + 1, f[n])]
      <3>2. Starts(g, n + 1)
        <4>1. \A m \in 0..n + 1 : g[m] = IF m <= n THEN f[m] ELSE next(n + 1, f[n])
          OBVIOUS
        <4> HIDE DEF g
        <4> SUFFICES ASSUME NEW m \in 0..n + 1
                     PROVE  g[m] = IF m = 0 THEN base ELSE next(m, g[m - 1])
          OBVIOUS
        <4>2. CASE m <= n
          BY <3>1, <4>1, <4>2
        <4>3. CASE m = n + 1
          BY <4>1, <4>3
        <4> QED
          BY <4>2, <4>3
      <3>3. n + 1 \in Nat
        OBVIOUS
      <3> HIDE DEF Starts, g
      <3> QED
        BY <3>2, <3>3
    <2> HIDE DEF S
    <2>3. \A n \in Nat : n \in S
      BY <2>1, <2>2, SetInduction
    <2> QED
      BY <2>3 DEF S
  <1>2. \A n \in Nat : Starts(Start(n), n)
    BY <1>1
  <1> HIDE DEF Start
  <1>3. ASSUME NEW n \in Nat PROVE Start(n + 1)[n] = Start(n)[n]
    <2> DEFINE f == Start(n)
               g == Start(n + 1)
               S == {m \in Nat : m <= n => f[m] = g[m]}
    <2>1. Starts(f, n) /\ Starts(g, n + 1)
      <3>1. n + 1 \in Nat
        OBVIOUS
      <3> HIDE DEF Starts
      <3> QED
        BY <1>2, <3>1
    <2> HIDE DEF f, g
    <2>2. 0 \in S
      BY <2>1
    <2>3. ASSUME NEW m \in Nat, m \in S PROVE m + 1 \in S
      BY <2>1, <2>3
    <2> HIDE DEF S
    <2>4. \A m \in Nat : m \in S
      BY <2>2, <2>3, SetInduction
    <2> QED
      BY <2>4 DEF S, f, g
  <1>4. whole = body(whole)
    <2>1. ASSUME NEW m \in Nat PROVE whole[m] = IF m = 0 THEN base ELSE next(m, whole[m - 1])
      <3>1. Starts(Start(m), m) /\ m \in 0..m
        BY <1>2
      <3>2. CASE m = 0
        BY <3>1, <3>2
      <3>3. CASE m # 0
        <4>1. Start(m)[m] = next(m, Start(m)[m - 1])
          BY <3>1, <3>3
        <4>2. m - 1 \in Nat /\ (m - 1) + 1 = m
          BY <3>3
        <4>3. Start(m)[m - 1] = Start(m - 1)[m - 1]
          BY <1>3, <4>2
        <4> QED
          BY <3>3, <4>1, <4>2, <4>3
      <3> QED
        BY <3>2, <3>3
    <2> HIDE DEF whole
    <2>2. whole = [m \in Nat |-> whole[m]]
      BY DEF whole
    <2> QED
      BY <2>1, <2>2
  <1> HIDE DEF whole, Start, Starts
  <1> DEFINE chosen == CHOOSE f : f = body(f)
  <1>5. chosen = body(chosen)
    BY <1>4
  <1> HIDE DEF chosen
  <1>6. \A m \in Nat : chosen[m] = IF m = 0 THEN base ELSE next(m, chosen[m - 1])
    BY <1>5
  <1>7. \A m \in Nat : m + 1 \in Nat /\ m + 1 # 0 /\ (m + 1) - 1 = m
    OBVIOUS
  <1>8. chosen[0] = base /\ \A m \in Nat : chosen[m + 1] = next(m + 1, chosen[m])
    BY <1>6, <1>7
  <1>9. \A l, h : PerfectRoot(a, leaf, l, h) = chosen[h][l]
    BY DEF PerfectRoot, chosen, base, next
  <1>10. \A l \in Nat : PerfectRoot(a, leaf, l, 0) = leaf[l]
    BY <1>8, <1>9 DEF base
  <1>11. ASSUME NEW l \in Nat, NEW h \in Nat
         PROVE  PerfectRoot(a, leaf, l, h + 1) =
                  NaryMr(a, [j \in 1..Arity |-> PerfectRoot(a, leaf, l + (j - 1) * BlockSize(h), h)])
    <2>1. chosen[h + 1] = [x \in Nat |->
             NaryMr(a, [j \in 1..Arity |-> chosen[h][x + (j - 1) * BlockSize(h)]])]
      <3>1. (h + 1) - 1 = h
        OBVIOUS
      <3> QED
        BY <1>8, <3>1 DEF next
    <2>2. chosen[h + 1][l] = NaryMr(a, [j \in 1..Arity |-> chosen[h][l + (j - 1) * BlockSize(h)]])
      BY <2>1
    <2> QED
      BY <1>9, <2>2
  <1> QED
    BY <1>10, <1>11 DEF RootsFromLeaves

\* An item's digest is a digest, and not the null one when a payload of the item
\* is not the null payload.
LEMMA Evaluated ==
  ASSUME NEW a, NEW item \in Seq(STRING)
  PROVE  /\ Evaluate(a, item) # Corrupted
         /\ (item = <<>> \/ \E i \in DOMAIN item : item[i] # NullPayload)
              => Evaluate(a, item) # Null(a)
  <1> DEFINE n == Len(item)
             s == [i \in 1..Len(item) |-> LeafHash(a, item[i])]
  <1>1. n \in Nat /\ DOMAIN item = 1..n /\ s = [i \in 1..n |-> s[i]]
    OBVIOUS
  <1>2. \A i \in 1..n : s[i] = LeafHash(a, item[i])
    OBVIOUS
  <1>3. Evaluate(a, item) = NaryMr(a, s)
    BY DEF Evaluate
  <1>4. CASE n = 0
    <2>1. s = <<>>
      BY <1>4
    <2>2. NaryMr(a, s) = Empty(a)
      BY <2>1 DEF NaryMr
    <2> QED
      BY <1>3, <2>2, Forms
  <1>5. CASE n # 0
    <2>1. n \in Nat \ {0} /\ 1 \in 1..n /\ item # <<>>
      BY <1>1, <1>5
    <2> HIDE DEF n, s
    <2>2. CASE \A i \in 1..n : s[i] = s[1]
      <3>1. NaryMr(a, s) = s[1]
        BY <1>1, <2>1, <2>2, NaryOf
      <3>2. s[1] # Corrupted
        BY <1>2, <2>1, Forms
      <3>3. ASSUME NEW i \in 1..n, item[i] # NullPayload PROVE s[1] # Null(a)
        BY <1>2, <2>2, <3>3, Forms
      <3> QED
        BY <1>1, <1>3, <2>1, <3>1, <3>2, <3>3
    <2>3. CASE \E i \in 1..n : s[i] # s[1]
      <3>1. NaryMr(a, s) = NodeHash(a, s)
        BY <1>1, <2>1, <2>3, NaryOf
      <3> QED
        BY <1>3, <3>1, Forms
    <2> QED
      BY <2>2, <2>3
  <1> QED
    BY <1>4, <1>5

\* A block of height h + 1 consists of blocks of height h.
LEMMA Children ==
  ASSUME NEW l \in Nat, NEW h \in Nat, NEW j \in 1..Arity
  PROVE  /\ l + (j - 1) * BlockSize(h) \in Nat
         /\ l <= l + (j - 1) * BlockSize(h)
         /\ l + (j - 1) * BlockSize(h) + BlockSize(h) <= l + BlockSize(h + 1)
         /\ Multiple(l, BlockSize(h + 1)) => Multiple(l + (j - 1) * BlockSize(h), BlockSize(h))
  <1> DEFINE d == BlockSize(h)
             e == BlockSize(h + 1)
  <1>1. d \in Nat \ {0} /\ e = Arity * d /\ e \in Nat /\ Arity \in Nat
    BY BlockSizes, ArityAssumption
  <1>2. j \in Nat /\ j - 1 \in Nat /\ j <= Arity
    BY ArityAssumption
  <1> HIDE DEF d, e
  <1>3. (j - 1) * d \in Nat /\ (j - 1) * d + d <= e
    <2>1. (j - 1) * d + d = j * d
      BY <1>1, <1>2
    <2>2. j * d <= Arity * d
      BY <1>1, <1>2
    <2>3. (j - 1) * d \in Nat
      BY <1>1, <1>2
    <2> QED
      BY <1>1, <2>1, <2>2, <2>3
  <1>4. ASSUME Multiple(l, e) PROVE Multiple(l + (j - 1) * d, d)
    <2> DEFINE i == j - 1
    <2>1. Multiple(e, d)
      BY <1>1 DEF Multiple
    <2>2. Multiple(l, d)
      BY <1>1, <1>4, <2>1, MultipleTransitive
    <2>3. i \in Nat
      BY <1>2
    <2> HIDE DEF i
    <2>4. Multiple(l + i * d, d)
      BY <1>1, <2>2, <2>3, MultipleAdd
    <2> QED
      BY <2>4 DEF i
  <1>5. l + (j - 1) * d \in Nat /\ l <= l + (j - 1) * d /\ l + (j - 1) * d + d <= l + e
    <2> DEFINE x == (j - 1) * d
    <2>1. x \in Nat /\ x + d <= e
      BY <1>3
    <2> HIDE DEF x
    <2>2. l + x \in Nat /\ l <= l + x /\ l + x + d <= l + e
      BY <1>1, <2>1
    <2> QED
      BY <2>2 DEF x
  <1> QED
    BY <1>4, <1>5 DEF d, e

\* Every position of a block is in one of the blocks it consists of.
LEMMA ChildAt ==
  ASSUME NEW l \in Nat, NEW h \in Nat, NEW i \in Nat, l <= i, i < l + BlockSize(h + 1)
  PROVE  \E j \in 1..Arity : /\ l + (j - 1) * BlockSize(h) <= i
                             /\ i < l + (j - 1) * BlockSize(h) + BlockSize(h)
  <1> DEFINE d == BlockSize(h)
             x == i - l
  <1>1. d \in Nat \ {0} /\ BlockSize(h + 1) = Arity * d /\ Arity \in Nat
    BY BlockSizes, ArityAssumption
  <1>2. x \in Nat /\ i = l + x /\ x < Arity * d
    BY <1>1
  <1> HIDE DEF d, x
  <1>3. PICK b \in Nat : Multiple(b, d) /\ b <= x /\ x < b + d
    BY <1>1, <1>2, Floor
  <1>4. PICK q \in Nat : b = q * d
    BY <1>3 DEF Multiple
  <1>5. q < Arity
    BY <1>1, <1>2, <1>3, <1>4
  <1> DEFINE j == q + 1
  <1>6. j \in 1..Arity /\ j - 1 = q
    BY <1>1, <1>5
  <1>7. l + q * d <= i /\ i < l + q * d + d
    <2>1. b \in Nat /\ i = l + x
      BY <1>2
    <2>2. l + b <= i /\ i < l + b + d
      BY <1>1, <1>2, <1>3
    <2> QED
      BY <1>4, <2>2
  <1> HIDE DEF j
  <1>8. l + (j - 1) * d <= i /\ i < l + (j - 1) * d + d
    BY <1>6, <1>7
  <1> QED
    BY <1>6, <1>8 DEF d

\* The roots over all blocks of a tree with these leaves.
RootsOf(a, leaf) == [c \in Coordinates |-> PerfectRoot(a, leaf, c[1], c[2])]

\* The roots over perfect subtrees form a tree over the leaves.
LEMMA RootsAreTree ==
  ASSUME NEW a, NEW leaf
  PROVE  /\ TreeOf(a, RootsOf(a, leaf))
         /\ \A l \in Nat : RootsOf(a, leaf)[<<l, 0>>] = leaf[l]
         /\ \A l \in Nat, h \in Nat : RootsOf(a, leaf)[<<l, h>>] = PerfectRoot(a, leaf, l, h)
  <1> DEFINE r == RootsOf(a, leaf)
  <1>1. \A l \in Nat, h \in Nat : r[<<l, h>>] = PerfectRoot(a, leaf, l, h)
    BY DEF RootsOf, Coordinates
  <1>2. \A l \in Nat : r[<<l, 0>>] = leaf[l]
    BY ZenonT(60), <1>1, PerfectRoots DEF RootsFromLeaves
  <1> HIDE DEF r
  <1>3. ASSUME NEW l \in Nat, NEW h \in Nat
        PROVE  r[<<l, h + 1>>] =
                 NaryMr(a, [j \in 1..Arity |-> r[<<l + (j - 1) * BlockSize(h), h>>]])
    <2>1. \A j \in 1..Arity : l + (j - 1) * BlockSize(h) \in Nat
      BY Children
    <2>2. [j \in 1..Arity |-> r[<<l + (j - 1) * BlockSize(h), h>>]]
            = [j \in 1..Arity |-> PerfectRoot(a, leaf, l + (j - 1) * BlockSize(h), h)]
      BY <1>1, <2>1
    <2>3. r[<<l, h + 1>>] = PerfectRoot(a, leaf, l, h + 1)
      BY <1>1
    <2>4. PerfectRoot(a, leaf, l, h + 1)
            = NaryMr(a, [j \in 1..Arity |-> PerfectRoot(a, leaf, l + (j - 1) * BlockSize(h), h)])
      <3>1. RootsFromLeaves(a, leaf)
        BY PerfectRoots
      <3> QED
        BY <3>1 DEF RootsFromLeaves
    <2> QED
      BY <2>2, <2>3, <2>4
  <1>4. TreeOf(a, r)
    BY <1>3 DEF TreeOf
  <1> QED
    BY <1>1, <1>2, <1>4 DEF r

\* The positions of a block.
Under(l, h) == {i \in Nat : l <= i /\ i < l + BlockSize(h)}

\* The positions under a block of a block are under it.
LEMMA UnderChild ==
  ASSUME NEW l \in Nat, NEW h \in Nat, NEW j \in 1..Arity
  PROVE  Under(l + (j - 1) * BlockSize(h), h) \subseteq Under(l, h + 1)
  <1> DEFINE x == l + (j - 1) * BlockSize(h)
             d == BlockSize(h)
             e == BlockSize(h + 1)
  <1>1. x \in Nat /\ l <= x /\ x + d <= l + e /\ d \in Nat /\ e \in Nat
    <2>1. h + 1 \in Nat
      OBVIOUS
    <2> QED
      BY <2>1, Children, BlockSizes
  <1> HIDE DEF x, d, e
  <1>2. ASSUME NEW i \in Nat, x <= i, i < x + d PROVE l <= i /\ i < l + e
    BY <1>1, <1>2
  <1> QED
    BY <1>2 DEF Under, x, d, e

\* What the root over a block is made of: a step of the induction over heights.
LEMMA RootStep ==
  ASSUME NEW a, NEW r, TreeOf(a, r), NEW l \in Nat, NEW h \in Nat
  PROVE  \E s : /\ s = [j \in 1..Arity |-> s[j]]
                /\ \A j \in 1..Arity : s[j] = r[<<l + (j - 1) * BlockSize(h), h>>]
                /\ r[<<l, h + 1>>] = NaryMr(a, s)
  <1> DEFINE s == [j \in 1..Arity |-> r[<<l + (j - 1) * BlockSize(h), h>>]]
  <1>1. s = [j \in 1..Arity |-> s[j]] /\ \A j \in 1..Arity : s[j] = r[<<l + (j - 1) * BlockSize(h), h>>]
    OBVIOUS
  <1>2. r[<<l, h + 1>>] = NaryMr(a, s)
    BY DEF TreeOf
  <1> HIDE DEF s
  <1> QED
    BY <1>1, <1>2

SameLeaves(r, s, l, h) == \A i \in Under(l, h) : r[<<i, 0>>] = s[<<i, 0>>]

\* The root over a block depends on nothing but the leaves under it.
LEMMA SameRoots ==
  ASSUME NEW a, NEW r, NEW s, TreeOf(a, r), TreeOf(a, s),
         NEW l \in Nat, NEW h \in Nat, SameLeaves(r, s, l, h)
  PROVE  r[<<l, h>>] = s[<<l, h>>]
  <1> DEFINE S == {m \in Nat : \A x \in Nat : SameLeaves(r, s, x, m) => r[<<x, m>>] = s[<<x, m>>]}
  <1>1. 0 \in S
    <2>1. \A x \in Nat : x \in Under(x, 0)
      BY BlockSizes DEF Under
    <2> QED
      BY <2>1 DEF SameLeaves
  <1>2. ASSUME NEW m \in Nat, m \in S PROVE m + 1 \in S
    <2> SUFFICES ASSUME NEW x \in Nat, SameLeaves(r, s, x, m + 1)
                 PROVE  r[<<x, m + 1>>] = s[<<x, m + 1>>]
      OBVIOUS
    <2>1. ASSUME NEW j \in 1..Arity
          PROVE  r[<<x + (j - 1) * BlockSize(m), m>>] = s[<<x + (j - 1) * BlockSize(m), m>>]
      <3> DEFINE y == x + (j - 1) * BlockSize(m)
      <3>1. y \in Nat
        BY Children
      <3>2. SameLeaves(r, s, y, m)
        BY <1>2, UnderChild DEF SameLeaves
      <3> HIDE DEF y
      <3>3. r[<<y, m>>] = s[<<y, m>>]
        BY <1>2, <3>1, <3>2
      <3> QED
        BY <3>3 DEF y
    <2> DEFINE u == [j \in 1..Arity |-> r[<<x + (j - 1) * BlockSize(m), m>>]]
               v == [j \in 1..Arity |-> s[<<x + (j - 1) * BlockSize(m), m>>]]
    <2>2. u = v
      BY <2>1
    <2>3. r[<<x, m + 1>>] = NaryMr(a, u) /\ s[<<x, m + 1>>] = NaryMr(a, v)
      BY DEF TreeOf
    <2> HIDE DEF u, v
    <2> QED
      BY <2>2, <2>3
  <1> HIDE DEF S
  <1>3. h \in S
    BY <1>1, <1>2, SetInduction
  <1> QED
    BY <1>3 DEF S

\* A block of null leaves has the null digest; a block with another leaf has not.
LEMMA NullRoots ==
  ASSUME NEW a, NEW r, TreeOf(a, r), NEW l \in Nat, NEW h \in Nat
  PROVE  r[<<l, h>>] = Null(a) <=> \A i \in Under(l, h) : r[<<i, 0>>] = Null(a)
  <1> DEFINE AllNull(x, m) == \A i \in Under(x, m) : r[<<i, 0>>] = Null(a)
             S == {m \in Nat : \A x \in Nat : r[<<x, m>>] = Null(a) <=> AllNull(x, m)}
  <1>1. 0 \in S
    <2>1. \A x \in Nat : \A i : i \in Under(x, 0) <=> i = x
      BY BlockSizes DEF Under
    <2> QED
      BY <2>1
  <1>2. ASSUME NEW m \in Nat, m \in S PROVE m + 1 \in S
    <2> SUFFICES ASSUME NEW x \in Nat
                 PROVE  r[<<x, m + 1>>] = Null(a) <=> AllNull(x, m + 1)
      OBVIOUS
    <2> DEFINE C(j) == x + (j - 1) * BlockSize(m)
    <2>1. PICK s : /\ s = [j \in 1..Arity |-> s[j]]
                   /\ \A j \in 1..Arity : s[j] = r[<<C(j), m>>]
                   /\ r[<<x, m + 1>>] = NaryMr(a, s)
      BY RootStep
    <2>2. Arity \in Nat \ {0} /\ 1 \in 1..Arity
      BY ArityAssumption
    <2>3. \A j \in 1..Arity : s[j] = Null(a) <=> AllNull(C(j), m)
      <3>1. \A j \in 1..Arity : C(j) \in Nat
        BY Children
      <3> HIDE DEF C, AllNull
      <3> QED
        BY <1>2, <2>1, <3>1
    <2>4. AllNull(x, m + 1) <=> \A j \in 1..Arity : AllNull(C(j), m)
      <3>1. \A j \in 1..Arity : Under(C(j), m) \subseteq Under(x, m + 1)
        BY UnderChild
      <3>2. \A i \in Under(x, m + 1) : \E j \in 1..Arity : i \in Under(C(j), m)
        BY ChildAt DEF Under
      <3> HIDE DEF C
      <3> QED
        BY <3>1, <3>2
    <2> HIDE DEF AllNull, C
    <2>5. NaryMr(a, s) = Null(a) <=> \A j \in 1..Arity : s[j] = Null(a)
      <3>1. CASE \A j \in 1..Arity : s[j] = s[1]
        <4>1. NaryMr(a, s) = s[1]
          BY <2>1, <2>2, <3>1, NaryOf
        <4> QED
          BY <2>2, <3>1, <4>1
      <3>2. CASE \E j \in 1..Arity : s[j] # s[1]
        <4>1. NaryMr(a, s) = NodeHash(a, s)
          BY <2>1, <2>2, <3>2, NaryOf
        <4> QED
          BY <2>2, <3>2, <4>1, Forms
      <3> QED
        BY <3>1, <3>2
    <2> QED
      BY <2>1, <2>3, <2>4, <2>5
  <1> HIDE DEF S
  <1>3. h \in S
    BY <1>1, <1>2, SetInduction
  <1> QED
    BY <1>3 DEF S

\* A tree of digests has digests everywhere.
LEMMA RootsAreDigests ==
  ASSUME NEW a, NEW r, TreeOf(a, r), NEW l \in Nat, NEW h \in Nat,
         \A i \in Nat : r[<<i, 0>>] # Corrupted
  PROVE  r[<<l, h>>] # Corrupted
  <1> DEFINE S == {m \in Nat : \A x \in Nat : r[<<x, m>>] # Corrupted}
  <1>1. 0 \in S
    OBVIOUS
  <1>2. ASSUME NEW m \in Nat, m \in S PROVE m + 1 \in S
    <2> SUFFICES ASSUME NEW x \in Nat PROVE r[<<x, m + 1>>] # Corrupted
      OBVIOUS
    <2> DEFINE C(j) == x + (j - 1) * BlockSize(m)
    <2>1. PICK s : /\ s = [j \in 1..Arity |-> s[j]]
                   /\ \A j \in 1..Arity : s[j] = r[<<C(j), m>>]
                   /\ r[<<x, m + 1>>] = NaryMr(a, s)
      BY RootStep
    <2>2. Arity \in Nat \ {0} /\ 1 \in 1..Arity
      BY ArityAssumption
    <2>3. s[1] # Corrupted
      <3>1. C(1) \in Nat
        BY <2>2, Children
      <3> HIDE DEF C
      <3> QED
        BY <1>2, <2>1, <2>2, <3>1
    <2>4. CASE \A j \in 1..Arity : s[j] = s[1]
      BY <2>1, <2>2, <2>3, <2>4, NaryOf
    <2>5. CASE \E j \in 1..Arity : s[j] # s[1]
      BY <2>1, <2>2, <2>5, NaryOf, Forms
    <2> QED
      BY <2>4, <2>5
  <1> HIDE DEF S
  <1>3. h \in S
    BY <1>1, <1>2, SetInduction
  <1> QED
    BY <1>3 DEF S

-----------------------------------------------------------------------------
(* What the store holds of one algorithm *)

\* The blocks within n positions.
Blocks(n) == {c \in Coordinates : Multiple(c[1], BlockSize(c[2])) /\ End(c) <= n}

\* A block within m positions is within more.
LEMMA BlocksGrow ==
  ASSUME NEW m \in Nat, NEW n \in Nat, m <= n
  PROVE  Blocks(m) \subseteq Blocks(n)
  BY CoordinateIsPair DEF Blocks

\* A block is a perfect subtree, in the model's words.
LEMMA PerfectAreBlocks ==
  ASSUME NEW n \in Nat
  PROVE  PerfectSubtrees(n) = Blocks(n)
  <1>1. ASSUME NEW c \in Coordinates PROVE c[1] % BlockSize(c[2]) = 0 <=> Multiple(c[1], BlockSize(c[2]))
    BY CoordinateIsPair, ModIsMultiple
  <1>2. ASSUME NEW c \in Coordinates, c[1] + BlockSize(c[2]) <= n PROVE c \in (0..n) \X (0..n)
    <2>1. c = <<c[1], c[2]>> /\ c[1] \in Nat /\ c[2] \in Nat /\ BlockSize(c[2]) \in Nat
      BY CoordinateIsPair
    <2>2. c[2] < BlockSize(c[2])
      BY <2>1, HeightBelowSize
    <2>3. c[1] \in 0..n /\ c[2] \in 0..n
      BY <1>2, <2>1, <2>2
    <2> QED
      BY <2>1, <2>3
  <1>3. (0..n) \X (0..n) \subseteq Coordinates
    BY DEF Coordinates
  <1> QED
    BY <1>1, <1>2, <1>3 DEF PerfectSubtrees, Blocks, End

\* The peaks of n leaves are blocks within n positions.
LEMMA PeaksAreBlocks ==
  ASSUME NEW n \in Nat, NEW s, Covers(s, 0, n), NEW i \in 1..Len(s)
  PROVE  s[i] \in Blocks(n)
  <1>1. s[i] \in Coordinates
    BY DEF Covers
  <1>2. Peak(s[i][1], s[i][2], n)
    BY DEF Covers
  <1> QED
    BY <1>1, <1>2 DEF Peak, Blocks, End

\* The blocks one more position adds are those that end with it.
LEMMA NewBlocks ==
  ASSUME NEW n \in Nat
  PROVE  Blocks(n + 1) = Blocks(n) \cup {<<n + 1 - BlockSize(j), j>> : j \in 0..ReductionCount(n)}
  <1> DEFINE r == ReductionCount(n)
  <1>1. /\ r \in Nat /\ Multiple(n + 1, BlockSize(r))
        /\ \A h \in Nat : Multiple(n + 1, BlockSize(h)) => h <= r
    BY Reductions
  <1> HIDE DEF r
  <1>2. ASSUME NEW c \in Blocks(n + 1), c \notin Blocks(n)
        PROVE  \E j \in 0..r : c = <<n + 1 - BlockSize(j), j>>
    <2> DEFINE l == c[1]
               h == c[2]
               d == BlockSize(c[2])
    <2>1. c \in Coordinates /\ Multiple(l, d) /\ l + d <= n + 1 /\ ~(l + d <= n)
      BY <1>2 DEF Blocks, End
    <2>2. c = <<l, h>> /\ l \in Nat /\ h \in Nat /\ d \in Nat \ {0}
      BY <2>1, CoordinateIsPair
    <2> HIDE DEF l, d
    <2>3. l + d = n + 1 /\ l = n + 1 - d
      BY <2>1, <2>2
    <2>4. Multiple(n + 1, d)
      <3>1. Multiple(l + d, d)
        BY <2>1, <2>2, MultipleAdd
      <3> QED
        BY <2>3, <3>1
    <2>5. h \in 0..r
      <3>1. h <= r
        BY <1>1, <2>2, <2>4 DEF d
      <3> QED
        BY <1>1, <2>2, <3>1
    <2> QED
      BY <2>2, <2>3, <2>5 DEF d
  <1>3. ASSUME NEW j \in 0..r PROVE <<n + 1 - BlockSize(j), j>> \in Blocks(n + 1)
    <2> DEFINE d == BlockSize(j)
               e == BlockSize(r)
               x == n + 1
    <2>1. j \in Nat /\ j <= r
      BY <1>1
    <2>2. d \in Nat \ {0} /\ e \in Nat /\ Multiple(e, d) /\ x \in Nat \ {0}
      BY SMTT(30), <1>1, <2>1, BlockSizes, TallerBlocks
    <2>3. Multiple(x, e)
      BY <1>1
    <2> HIDE DEF d, e, x
    <2>4. Multiple(x, d)
      BY <2>2, <2>3, MultipleTransitive
    <2>5. x >= d
      <3>1. PICK q \in Nat : x = q * d
        BY <2>4 DEF Multiple
      <3>2. q # 0
        BY <2>2, <3>1
      <3> QED
        BY <2>2, <3>1, <3>2
    <2>6. Multiple(x - d, d) /\ x - d \in Nat /\ x - d + d <= x
      BY <2>2, <2>4, <2>5, MultipleAdd
    <2> DEFINE l == x - d
               c == <<l, j>>
    <2>7. c \in Coordinates /\ c[1] = l /\ c[2] = j
      BY <2>1, <2>6 DEF Coordinates
    <2>8. Multiple(l, d) /\ l + d <= x
      BY <2>6
    <2> HIDE DEF c, l
    <2>9. c \in Blocks(x)
      BY <2>7, <2>8 DEF Blocks, End, d
    <2>10. c = <<n + 1 - BlockSize(j), j>> /\ x = n + 1
      <3>1. l = n + 1 - d
        BY <2>2 DEF l, x
      <3> QED
        BY <3>1 DEF c, d, x
    <2> QED
      BY <2>9, <2>10
  <1>4. Blocks(n) \subseteq Blocks(n + 1)
    <2>1. n + 1 \in Nat /\ n <= n + 1
      OBVIOUS
    <2> QED
      BY <2>1, BlocksGrow
  <1> QED
    BY <1>2, <1>3, <1>4 DEF r

\* The key of a block's digest in the store.
Node(a, c) == <<a, c[1], c[2]>>

\* A stored digest has one algorithm and one coordinate.
LEMMA NodeIsKey ==
  ASSUME NEW a, NEW b, NEW c \in Coordinates, NEW d \in Coordinates
  PROVE  Node(a, c) = Node(b, d) <=> a = b /\ c = d
  BY CoordinateIsPair DEF Node

\* Of algorithm a with these intervals the store holds only digests of blocks
\* within n positions, those of the reference, and misses none it was active in.
Held(nd, a, eps, n, ref) ==
  /\ \A c \in Coordinates : Node(a, c) \in DOMAIN nd => c \in Blocks(n) /\ nd[Node(a, c)] = ref[c]
  /\ \A c \in Blocks(n) : ActiveRange(eps, c[1], End(c)) => Node(a, c) \in DOMAIN nd

\* The leaves below n are the same.
SameBelow(r, s, n) == \A i \in 0..n - 1 : r[<<i, 0>>] = s[<<i, 0>>]

\* Trees with the same leaves below n have the same blocks within n.
LEMMA SameBlocks ==
  ASSUME NEW a, NEW r, NEW s, TreeOf(a, r), TreeOf(a, s), NEW n \in Nat, SameBelow(r, s, n),
         NEW c \in Blocks(n)
  PROVE  r[c] = s[c]
  <1>1. c = <<c[1], c[2]>> /\ c[1] \in Nat /\ c[2] \in Nat /\ BlockSize(c[2]) \in Nat
        /\ c[1] + BlockSize(c[2]) <= n
    BY CoordinateIsPair DEF Blocks, End
  <1>2. SameLeaves(r, s, c[1], c[2])
    <2>1. \A i \in Nat : i < c[1] + BlockSize(c[2]) => i \in 0..n - 1
      BY <1>1
    <2> QED
      BY <2>1 DEF SameLeaves, SameBelow, Under
  <1> QED
    BY <1>1, <1>2, SameRoots

\* The store keeps holding it when activity and leaves below n stay.
LEMMA HeldAlike ==
  ASSUME NEW nd, NEW md, NEW a, NEW eps, NEW fps, NEW n \in Nat, NEW r, NEW s,
         Held(nd, a, eps, n, r), TreeOf(a, r), TreeOf(a, s), SameBelow(r, s, n),
         \A c \in Coordinates : Node(a, c) \in DOMAIN md <=> Node(a, c) \in DOMAIN nd,
         \A c \in Coordinates : Node(a, c) \in DOMAIN nd => md[Node(a, c)] = nd[Node(a, c)],
         \A c \in Blocks(n) : ActiveRange(fps, c[1], End(c)) => ActiveRange(eps, c[1], End(c))
  PROVE  Held(md, a, fps, n, s)
  <1>1. \A c \in Blocks(n) : r[c] = s[c]
    BY SameBlocks
  <1>2. Blocks(n) \subseteq Coordinates
    BY DEF Blocks
  <1> QED
    BY <1>1, <1>2 DEF Held

-----------------------------------------------------------------------------
(* What an append stores *)

\* An append stores all the digests it makes: none is null when the item's is not.
LEMMA AllPersisted ==
  ASSUME NEW n \in Nat, NEW a, NEW ref, TreeOf(a, ref), ref[<<n, 0>>] # Null(a),
         NEW m \in Nat, \A j \in 0..m : <<n + 1 - BlockSize(j), j>> \in Coordinates,
         NEW made, made = [x \in EndingAt(a, n, m) |-> ref[<<x[2], x[3]>>]]
  PROVE  Persisted(made) = made
  <1>1. ASSUME NEW x \in EndingAt(a, n, m) PROVE made[x] # Null(x[1])
    <2>1. PICK j \in 0..m : x = <<a, n + 1 - BlockSize(j), j>>
      BY <1>1 DEF EndingAt
    <2> DEFINE d == BlockSize(j)
               l == n + 1 - d
    <2>2. j \in Nat /\ d \in Nat \ {0} /\ l \in Nat
      <3>1. <<l, j>> \in Coordinates
        OBVIOUS
      <3>2. j \in Nat
        OBVIOUS
      <3> QED
        BY <3>1, <3>2, BlockSizes DEF Coordinates
    <2>3. n \in Under(l, j)
      BY <2>2 DEF Under
    <2>4. ref[<<l, j>>] # Null(a)
      <3> HIDE DEF l
      <3> QED
        BY <2>2, <2>3, NullRoots
    <2>5. made[x] = ref[<<l, j>>] /\ x[1] = a
      BY <1>1, <2>1
    <2> QED
      BY <2>4, <2>5
  <1>2. DOMAIN made = EndingAt(a, n, m) /\ made = [x \in DOMAIN made |-> made[x]]
    OBVIOUS
  <1>3. {c \in DOMAIN made : c[3] = 0 \/ made[c] # Null(c[1])} = DOMAIN made
    BY <1>1, <1>2
  <1> HIDE DEF Persisted
  <1> QED
    BY <1>2, <1>3 DEF Persisted, Restrict

\* And then holds of the algorithm what a log of one more position may ask for.
LEMMA AppendHolds ==
  ASSUME NEW nd, NEW md, NEW a, NEW eps, NEW n \in Nat, NEW r, NEW s,
         Held(nd, a, eps, n, r), TreeOf(a, r), TreeOf(a, s), SameBelow(r, s, n),
         NEW made, made = [x \in EndingAt(a, n, ReductionCount(n)) |-> s[<<x[2], x[3]>>]],
         \A c \in Coordinates : Node(a, c) \in DOMAIN md
                                  <=> Node(a, c) \in DOMAIN made \/ Node(a, c) \in DOMAIN nd,
         \A c \in Coordinates : Node(a, c) \in DOMAIN md =>
           md[Node(a, c)] = IF Node(a, c) \in DOMAIN made THEN made[Node(a, c)] ELSE nd[Node(a, c)]
  PROVE  Held(md, a, eps, n + 1, s)
  <1> DEFINE r0 == ReductionCount(n)
             New == {<<n + 1 - BlockSize(j), j>> : j \in 0..r0}
  <1>1. Blocks(n + 1) = Blocks(n) \cup New
    BY NewBlocks
  <1>2. \A c \in Blocks(n) : r[c] = s[c]
    BY SameBlocks
  <1>3. Blocks(n + 1) \subseteq Coordinates /\ Blocks(n) \subseteq Coordinates
    BY DEF Blocks
  <1>4. ASSUME NEW c \in Coordinates PROVE Node(a, c) \in DOMAIN made <=> c \in New
    <2>1. DOMAIN made = {<<a, n + 1 - BlockSize(j), j>> : j \in 0..r0}
      BY DEF EndingAt
    <2>2. c = <<c[1], c[2]>>
      BY CoordinateIsPair
    <2> HIDE DEF r0
    <2>3. Node(a, c) \in DOMAIN made <=> \E j \in 0..r0 : c[1] = n + 1 - BlockSize(j) /\ c[2] = j
      BY <2>1 DEF Node
    <2>4. c \in New <=> \E j \in 0..r0 : c[1] = n + 1 - BlockSize(j) /\ c[2] = j
      BY <2>2
    <2> QED
      BY <2>3, <2>4
  <1>5. ASSUME NEW c \in Coordinates, Node(a, c) \in DOMAIN made PROVE made[Node(a, c)] = s[c]
    <2>1. c = <<c[1], c[2]>> /\ Node(a, c)[2] = c[1] /\ Node(a, c)[3] = c[2]
      BY CoordinateIsPair DEF Node
    <2>2. made[Node(a, c)] = s[<<Node(a, c)[2], Node(a, c)[3]>>]
      BY <1>5
    <2> QED
      BY <2>1, <2>2
  <1> HIDE DEF New
  <1>6. ASSUME NEW c \in Coordinates, Node(a, c) \in DOMAIN md
        PROVE  c \in Blocks(n + 1) /\ md[Node(a, c)] = s[c]
    BY <1>1, <1>2, <1>4, <1>5, <1>6 DEF Held
  <1>7. ASSUME NEW c \in Blocks(n + 1), ActiveRange(eps, c[1], End(c))
        PROVE  Node(a, c) \in DOMAIN md
    BY <1>1, <1>3, <1>4, <1>7 DEF Held
  <1> QED
    BY <1>6, <1>7 DEF Held

-----------------------------------------------------------------------------
(* The inductive invariant *)

\* Every item a client offers has another digest than the null one: it has no
\* payload at all, or one that is not the null payload.
NoNullItems ==
  \A i \in 1..MaxCount : \A item \in Offer[i] :
    item = <<>> \/ \E j \in DOMAIN item : item[j] # NullPayload

LeafOf(a) == [i \in Nat |-> ReferenceLeaf(a, i)]

\* The reference digests of all blocks, in the tree of a.
Ref(a) == RootsOf(a, LeafOf(a))

Size(a) == TreeSize(epochs[a], count)

\* The root of a at a size, by the reference.
RootAt(a, size) == BagPeaks(a, PeaksOf(Ref(a), size))

\* The combined roots of a size, by the reference.
Shown(size) ==
  [a \in ActiveAlgsAt(size) |->
     CombinedRoot(a, [b \in ActiveAlgsAt(size) |-> RootAt(b, size)], CommittedEpochsAt(size), size)]

\* What the variables are.
LogTypeOK ==
  /\ count \in 0..MaxCount
  /\ kind \in {"flat", "subtree"}
  /\ epochs \in [Algs -> Seq(Interval)]
  /\ \A a \in Algs : Registered(a) => ValidEpochs(epochs[a], count)
  /\ frontier = [a \in Algs |-> frontier[a]] /\ coords = [a \in Algs |-> coords[a]]

\* The history has an item that was offered for every position, and a flat log has
\* stored all of it.
HistoryKept ==
  /\ history \in Seq(Seq(STRING)) /\ Len(history) = count
  /\ \A i \in 1..count : history[i] \in Offer[i]
  /\ leaves = IF kind = "flat" THEN history ELSE <<>>

\* Every algorithm, registered or not, has the reference's peaks for its tree.
FrontierKept ==
  \A a \in Algs : coords[a] = FrontierForSize(Size(a)) /\ frontier[a] = PeaksOf(Ref(a), Size(a))

\* The store holds nothing but blocks of algorithms: exactly those within their trees
\* that may be asked for, with the reference's digests.
StoreKept ==
  /\ \A x \in DOMAIN nodes : \E a \in Algs : \E c \in Coordinates : x = Node(a, c)
  /\ \A a \in Algs : Held(nodes, a, epochs[a], Size(a), Ref(a))

\* What was shown at every outgrown size is what the reference says of it now.
OutgrownKept ==
  /\ outgrown = [i \in 1..count |-> outgrown[i]]
  /\ \A size \in 1..count - 1 : outgrown[size + 1] = Shown(size)

\* The inductive invariant: the handle and the store are what the reference says.
LogInv ==
  /\ LogTypeOK /\ StoreMirrorsHandle
  /\ HistoryKept /\ FrontierKept /\ StoreKept /\ OutgrownKept

\* The reference before and after a step.
LEMMA References ==
  ASSUME NEW a
  PROVE  /\ TreeOf(a, Ref(a)) /\ TreeOf(a, Ref(a)')
         /\ \A i \in Nat : Ref(a)[<<i, 0>>] = ReferenceLeaf(a, i)
                           /\ Ref(a)'[<<i, 0>>] = ReferenceLeaf(a, i)'
         /\ \A l \in Nat, h \in Nat : ReferenceNode(a, l, h) = Ref(a)[<<l, h>>]
  <1> DEFINE leaf == LeafOf(a)
             mleaf == LeafOf(a)'
  <1>1. Ref(a) = RootsOf(a, leaf) /\ Ref(a)' = RootsOf(a, mleaf)
    BY DEF Ref
  <1>2. \A i \in Nat : leaf[i] = ReferenceLeaf(a, i) /\ mleaf[i] = ReferenceLeaf(a, i)'
    BY DEF LeafOf
  <1>3. \A l, h : ReferenceNode(a, l, h) = PerfectRoot(a, leaf, l, h)
    BY DEF ReferenceNode, LeafOf
  <1> HIDE DEF leaf, mleaf
  <1> QED
    BY <1>1, <1>2, <1>3, RootsAreTree

\* The references agree below n when nothing changed there.
LEMMA ReferencesAgree ==
  ASSUME NEW a \in Algs, NEW n \in Nat,
         \A i \in 0..n - 1 : /\ IsActiveAt(epochs'[a], i) <=> IsActiveAt(epochs[a], i)
                             /\ history'[i + 1] = history[i + 1]
  PROVE  SameBelow(Ref(a), Ref(a)', n)
  <1>1. \A i \in 0..n - 1 : ReferenceLeaf(a, i)' = ReferenceLeaf(a, i)
    BY DEF ReferenceLeaf
  <1>2. \A i \in 0..n - 1 : i \in Nat
    OBVIOUS
  <1> QED
    BY <1>1, <1>2, References DEF SameBelow

\* Then so do the peaks of any size up to n.
LEMMA PeaksAgree ==
  ASSUME NEW a, NEW r, NEW s, TreeOf(a, r), TreeOf(a, s), NEW n \in Nat, SameBelow(r, s, n),
         NEW m \in 0..n
  PROVE  PeaksOf(r, m) = PeaksOf(s, m)
  <1> DEFINE at == FrontierForSize(m)
  <1>1. m \in Nat /\ Covers(at, 0, m)
    BY FrontierCovers
  <1> HIDE DEF at
  <1>2. SameBelow(r, s, m)
    <2>1. \A i \in 0..m - 1 : i \in 0..n - 1
      OBVIOUS
    <2> QED
      BY <2>1 DEF SameBelow
  <1>3. \A i \in 1..Len(at) : r[at[i]] = s[at[i]]
    BY <1>1, <1>2, PeaksAreBlocks, SameBlocks
  <1> QED
    BY <1>3 DEF PeaksOf, at

\* What is known of any algorithm's tree.
LEMMA SizeKnown ==
  ASSUME LogTypeOK, NEW a \in Algs
  PROVE  /\ count \in Nat /\ count < Open
         /\ epochs[a] \in Seq(Interval) /\ Size(a) \in 0..count /\ Size(a) \in Nat
         /\ IsActive(epochs[a]) => Size(a) = count /\ IsActiveAt(epochs[a], count)
         /\ \A i \in 0..count - 1 : IsActiveAt(epochs[a], i) => i < Size(a)
         /\ ~IsActive(epochs[a]) => TreeSize(epochs[a], count + 1) = Size(a)
         /\ TreeSize(Resumed(epochs[a], count), count) = count
         /\ IsActive(epochs[a]) => TreeSize(Closed(epochs[a], count), count) = count
  <1>1. count \in Nat /\ count < Open /\ epochs[a] \in Seq(Interval)
    BY LogAssumption, OpenAssumption DEF LogTypeOK
  <1>2. epochs[a] # <<>> => ValidEpochs(epochs[a], count)
    BY DEF LogTypeOK, Registered
  <1> QED
    BY <1>1, <1>2, TreeSpans DEF Size

\* What the log showed at a size it outgrew, it would show again.
LEMMA ShownAlike ==
  ASSUME LogTypeOK, NEW size \in 1..count,
         \A a \in Algs : SameBelow(Ref(a), Ref(a)', size),
         \A a \in Algs : /\ IsActiveAt(epochs'[a], size - 1) <=> IsActiveAt(epochs[a], size - 1)
                         /\ EpochsAt(epochs'[a], size) = EpochsAt(epochs[a], size)
  PROVE  Shown(size)' = Shown(size)
  <1>1. size \in Nat /\ size \in 0..size
    BY LogAssumption DEF LogTypeOK
  <1>2. ActiveAlgsAt(size)' = ActiveAlgsAt(size)
    BY DEF ActiveAlgsAt
  <1>3. CommittedEpochsAt(size)' = CommittedEpochsAt(size)
    BY DEF CommittedEpochsAt
  <1>4. ASSUME NEW b \in Algs PROVE RootAt(b, size)' = RootAt(b, size)
    <2> DEFINE r == Ref(b)
               s == Ref(b)'
    <2>1. TreeOf(b, r) /\ TreeOf(b, s) /\ SameBelow(r, s, size)
      BY References
    <2>2. RootAt(b, size) = BagPeaks(b, PeaksOf(r, size))
          /\ RootAt(b, size)' = BagPeaks(b, PeaksOf(s, size))
      BY DEF RootAt
    <2> HIDE DEF r, s
    <2>3. PeaksOf(r, size) = PeaksOf(s, size)
      BY <1>1, <2>1, PeaksAgree
    <2> QED
      BY <2>2, <2>3
  <1>5. ActiveAlgsAt(size) \subseteq Algs
    BY DEF ActiveAlgsAt
  <1>6. [b \in ActiveAlgsAt(size) |-> RootAt(b, size)'] = [b \in ActiveAlgsAt(size) |-> RootAt(b, size)]
    BY <1>4, <1>5
  <1> QED
    BY <1>2, <1>3, <1>6 DEF Shown

\* Where several functions of a family are defined they agree.
Agreeing(family, x) ==
  \A i, k \in DOMAIN family :
    x \in DOMAIN family[i] /\ x \in DOMAIN family[k] => family[i][x] = family[k][x]

\* Merged says what the members of the family say.
LEMMA MergedIs ==
  ASSUME NEW family, NEW i, i \in DOMAIN family, NEW x, x \in DOMAIN family[i], Agreeing(family, x)
  PROVE  x \in DOMAIN Merged(family) /\ Merged(family)[x] = family[i][x]
  BY DEF Merged, Agreeing

\* And nothing else.
LEMMA MergedOnly ==
  ASSUME NEW family, NEW x \in DOMAIN Merged(family)
  PROVE  \E i \in DOMAIN family : x \in DOMAIN family[i]
  BY DEF Merged

\* Over says what the one function says, and what the other says elsewhere.
LEMMA OverHas ==
  ASSUME NEW f, NEW g, NEW x
  PROVE  /\ x \in DOMAIN Over(f, g) <=> x \in DOMAIN f \/ x \in DOMAIN g
         /\ x \in DOMAIN f => Over(f, g)[x] = f[x]
         /\ x \in DOMAIN g /\ x \notin DOMAIN f => Over(f, g)[x] = g[x]
  BY DEF Over

-----------------------------------------------------------------------------
(* Steps that leave the history alone *)

\* Everything shown stays shown when one more size is outgrown or none.
LEMMA OutgrownStays ==
  ASSUME LogTypeOK, OutgrownKept, count' = count, outgrown' = outgrown,
         \A a \in Algs : SameBelow(Ref(a), Ref(a)', count),
         \A a \in Algs, i \in 0..count - 1 : IsActiveAt(epochs'[a], i) <=> IsActiveAt(epochs[a], i),
         \A a \in Algs, m \in 0..count - 1 : EpochsAt(epochs'[a], m) = EpochsAt(epochs[a], m)
  PROVE  OutgrownKept'
  <1>1. count \in Nat
    BY LogAssumption DEF LogTypeOK
  <1>2. ASSUME NEW size \in 1..count - 1 PROVE Shown(size)' = Shown(size)
    <2>1. size \in 1..count /\ size \in 0..count - 1 /\ size - 1 \in 0..count - 1
      BY <1>1
    <2>2. \A a \in Algs : SameBelow(Ref(a), Ref(a)', size)
      <3>1. \A i \in 0..size - 1 : i \in 0..count - 1
        BY <1>1
      <3> QED
        BY <3>1 DEF SameBelow
    <2> QED
      BY <2>1, <2>2, ShownAlike
  <1> QED
    BY <1>2 DEF OutgrownKept

\* A step that gives one algorithm other intervals, with the same activity and
\* the same commitments below the log's size, and a tree that spans the log.
LEMMA OneAlgorithmChanges ==
  ASSUME LogInv, NEW a \in Algs, NEW eps \in Seq(Interval), ValidEpochs(eps, count),
         epochs' = [epochs EXCEPT ![a] = eps], metas' = [metas EXCEPT ![a] = eps],
         TreeSize(eps, count) = count,
         \A i \in 0..count - 1 : IsActiveAt(eps, i) <=> IsActiveAt(epochs[a], i),
         \A m \in 0..count - 1 : EpochsAt(eps, m) = EpochsAt(epochs[a], m),
         coords' = [coords EXCEPT ![a] = FrontierForSize(count)],
         frontier' = [frontier EXCEPT ![a] = PeaksOf(Ref(a), count)],
         \A x \in DOMAIN nodes' : \E b \in Algs : \E c \in Coordinates : x = Node(b, c),
         Held(nodes', a, eps, count, Ref(a)),
         \A b \in Algs \ {a}, c \in Coordinates :
           /\ Node(b, c) \in DOMAIN nodes' <=> Node(b, c) \in DOMAIN nodes
           /\ Node(b, c) \in DOMAIN nodes => nodes'[Node(b, c)] = nodes[Node(b, c)],
         UNCHANGED <<count, kind, storedCount, leaves, observers>>
  PROVE  LogInv'
  <1>1. LogTypeOK /\ StoreMirrorsHandle /\ HistoryKept /\ FrontierKept /\ StoreKept /\ OutgrownKept
        /\ UNCHANGED <<history, outgrown>>
    BY DEF LogInv, observers
  <1>2. /\ count \in Nat /\ epochs'[a] = eps
        /\ \A b \in Algs : b # a => epochs'[b] = epochs[b]
        /\ epochs' \in [Algs -> Seq(Interval)]
    BY <1>1, LogAssumption DEF LogTypeOK
  <1>3. /\ \A b \in Algs, i \in 0..count - 1 : IsActiveAt(epochs'[b], i) <=> IsActiveAt(epochs[b], i)
        /\ \A b \in Algs, m \in 0..count - 1 : EpochsAt(epochs'[b], m) = EpochsAt(epochs[b], m)
    BY <1>2
  <1>4. \A b \in Algs : SameBelow(Ref(b), Ref(b)', count)
    BY <1>1, <1>2, <1>3, ReferencesAgree
  <1>5. LogTypeOK'
    <2>1. \A b \in Algs : Registered(b)' => ValidEpochs(epochs'[b], count)
      BY <1>1, <1>2 DEF LogTypeOK, Registered
    <2>2. frontier' = [b \in Algs |-> frontier'[b]] /\ coords' = [b \in Algs |-> coords'[b]]
      BY <1>1 DEF LogTypeOK
    <2> QED
      BY <1>1, <1>2, <2>1, <2>2 DEF LogTypeOK
  <1>6. StoreMirrorsHandle'
    BY <1>1 DEF StoreMirrorsHandle
  <1>7. HistoryKept'
    BY <1>1 DEF HistoryKept
  <1>8. /\ Size(a)' = count
        /\ \A b \in Algs : b # a => Size(b)' = Size(b)
        /\ \A b \in Algs : Size(b) \in 0..count
    BY <1>1, <1>2, SizeKnown DEF Size
  <1>9. FrontierKept'
    <2> SUFFICES ASSUME NEW b \in Algs
                 PROVE  coords'[b] = FrontierForSize(Size(b)') /\ frontier'[b] = PeaksOf(Ref(b)', Size(b)')
      BY DEF FrontierKept
    <2>1. \A m \in 0..count : PeaksOf(Ref(b), m) = PeaksOf(Ref(b)', m)
      <3> DEFINE r == Ref(b)
                 s == Ref(b)'
      <3>1. TreeOf(b, r) /\ TreeOf(b, s) /\ SameBelow(r, s, count)
        BY <1>4, References
      <3> HIDE DEF r, s
      <3>2. \A m \in 0..count : PeaksOf(r, m) = PeaksOf(s, m)
        BY <1>2, <3>1, PeaksAgree
      <3> QED
        BY <3>2 DEF r, s
    <2>2. CASE b = a
      <3>1. coords'[b] = FrontierForSize(count) /\ frontier'[b] = PeaksOf(Ref(b), count)
        BY <1>1, <2>2 DEF LogTypeOK
      <3>2. count \in 0..count
        BY <1>2
      <3> QED
        BY <1>8, <2>1, <2>2, <3>1, <3>2
    <2>3. CASE b # a
      <3>1. coords'[b] = coords[b] /\ frontier'[b] = frontier[b]
        BY <1>1, <2>3 DEF LogTypeOK
      <3> QED
        BY <1>1, <1>8, <2>1, <2>3, <3>1 DEF FrontierKept
    <2> QED
      BY <2>2, <2>3
  <1>10. StoreKept'
    <2> SUFFICES ASSUME NEW b \in Algs PROVE Held(nodes', b, epochs'[b], Size(b)', Ref(b)')
      BY DEF StoreKept
    <2> DEFINE r == Ref(b)
               s == Ref(b)'
    <2>1. TreeOf(b, r) /\ TreeOf(b, s) /\ SameBelow(r, s, count)
      BY <1>4, References
    <2>2. CASE b = a
      <3>1. Held(nodes', b, eps, count, r)
        BY <2>2
      <3> HIDE DEF r, s
      <3>2. Held(nodes', b, eps, count, s)
        BY <1>2, <2>1, <3>1, HeldAlike
      <3> QED
        BY <1>2, <1>8, <2>2, <3>2 DEF s
    <2>3. CASE b # a
      <3> DEFINE n == Size(b)
      <3>1. Held(nodes, b, epochs[b], n, r)
        BY <1>1 DEF StoreKept
      <3>2. n \in Nat /\ SameBelow(r, s, n)
        <4>1. n \in 0..count /\ n \in Nat
          BY <1>2, <1>8
        <4>2. \A i \in 0..n - 1 : i \in 0..count - 1
          <5> HIDE DEF n
          <5> QED
            BY <1>2, <4>1
        <4> QED
          BY <2>1, <4>1, <4>2 DEF SameBelow
      <3>3. \A c \in Coordinates : /\ Node(b, c) \in DOMAIN nodes' <=> Node(b, c) \in DOMAIN nodes
                                   /\ Node(b, c) \in DOMAIN nodes
                                        => nodes'[Node(b, c)] = nodes[Node(b, c)]
        BY <2>3
      <3> HIDE DEF r, s, n
      <3>4. Held(nodes', b, epochs[b], n, s)
        BY <2>1, <3>1, <3>2, <3>3, HeldAlike
      <3> QED
        BY <1>2, <1>8, <2>3, <3>4 DEF n, s
    <2> QED
      BY <2>2, <2>3
  <1>11. OutgrownKept'
    BY <1>1, <1>3, <1>4, OutgrownStays
  <1> QED
    BY <1>5, <1>6, <1>7, <1>9, <1>10, <1>11 DEF LogInv

\* The block is in the store with the reference's digest, when it has to be.
Stored(a, c) ==
  ActiveRange(epochs[a], c[1], End(c)) => Node(a, c) \in DOMAIN nodes /\ nodes[Node(a, c)] = Ref(a)[c]

\* What get_node_hash makes of such a block is the reference's digest.
LEMMA ReadsAsReference ==
  ASSUME LogTypeOK, HistoryKept, NEW a \in Algs, NEW c \in Blocks(Size(a)), Stored(a, c)
  PROVE  /\ GetNodeHash(a, epochs[a], c[1], c[2]) = Ref(a)[c]
         /\ Ref(a)[c] # Corrupted
  <1> DEFINE r == Ref(a)
             eps == epochs[a]
  <1>1. LogTypeOK /\ HistoryKept
    OBVIOUS
  <1>2. /\ c \in Coordinates /\ c = <<c[1], c[2]>> /\ c[1] \in Nat /\ c[2] \in Nat
        /\ BlockSize(c[2]) \in Nat \ {0} /\ End(c) = c[1] + BlockSize(c[2]) /\ End(c) \in Nat
        /\ End(c) <= Size(a)
    BY CoordinateIsPair DEF Blocks, End
  <1>3. TreeOf(a, r) /\ \A i \in Nat : r[<<i, 0>>] = ReferenceLeaf(a, i)
    BY References
  <1>4. eps \in Seq(Interval) /\ Size(a) \in 0..count /\ count \in Nat
    BY <1>1, SizeKnown
  <1>5. ActiveRange(eps, c[1], End(c)) => Node(a, c) \in DOMAIN nodes /\ nodes[Node(a, c)] = r[c]
    BY DEF Stored
  <1>6. \A i \in Nat : i < Size(a) => ReferenceLeaf(a, i) # Corrupted
    <2> SUFFICES ASSUME NEW i \in Nat, i < Size(a) PROVE ReferenceLeaf(a, i) # Corrupted
      OBVIOUS
    <2>1. i + 1 \in 1..Len(history)
      BY <1>1, <1>4 DEF HistoryKept
    <2>2. history[i + 1] \in Seq(STRING)
      BY <1>1, <2>1 DEF HistoryKept
    <2> QED
      BY <2>2, Evaluated, Forms DEF ReferenceLeaf
  <1> HIDE DEF r, eps
  <1>7. r[c] # Corrupted
    <2> DEFINE leaf == [i \in Nat |-> IF i < Size(a) THEN ReferenceLeaf(a, i) ELSE Null(a)]
               s == RootsOf(a, leaf)
    <2>1. TreeOf(a, s) /\ \A i \in Nat : s[<<i, 0>>] = leaf[i]
      BY RootsAreTree
    <2>2. \A i \in Nat : leaf[i] # Corrupted
      BY <1>6, Forms
    <2>3. \A i \in Nat : i < Size(a) => leaf[i] = ReferenceLeaf(a, i)
      OBVIOUS
    <2> HIDE DEF leaf, s
    <2>4. SameBelow(r, s, Size(a))
      <3>1. \A i \in 0..Size(a) - 1 : i \in Nat /\ i < Size(a)
        BY <1>4
      <3> QED
        BY <1>3, <2>1, <2>3, <3>1 DEF SameBelow
    <2>5. Size(a) \in Nat
      BY <1>4
    <2>6. r[c] = s[c]
      BY <1>3, <2>1, <2>4, <2>5, SameBlocks
    <2>7. s[<<c[1], c[2]>>] # Corrupted
      BY <1>2, <2>1, <2>2, RootsAreDigests
    <2> QED
      BY <1>2, <2>6, <2>7
  <1>8. CASE ~ActiveRange(eps, c[1], End(c))
    <2>1. \A i \in Under(c[1], c[2]) : r[<<i, 0>>] = Null(a)
      <3> SUFFICES ASSUME NEW i \in Nat, c[1] <= i, i < End(c) PROVE r[<<i, 0>>] = Null(a)
        BY <1>2 DEF Under
      <3>1. ~IsActiveAt(eps, i)
        BY <1>2, <1>4, <1>8, Ranges
      <3> QED
        BY <1>3, <3>1 DEF ReferenceLeaf, eps
    <2>2. r[c] = Null(a)
      BY <1>2, <1>3, <2>1, NullRoots
    <2> QED
      BY <1>2, <1>7, <1>8, <2>2 DEF GetNodeHash, r, eps
  <1>9. CASE ActiveRange(eps, c[1], End(c))
    <2>1. Node(a, c) \in DOMAIN nodes /\ nodes[Node(a, c)] = r[c]
      BY <1>5, <1>9
    <2> QED
      BY <1>2, <1>7, <1>9, <2>1 DEF GetNodeHash, Node, r, eps
  <1> QED
    BY <1>8, <1>9

\* Whatever a root or a proof may ask for reads as the reference says.
LEMMA ReadBack ==
  ASSUME LogInv, NEW a \in Algs, NEW c \in Blocks(Size(a))
  PROVE  /\ GetNodeHash(a, epochs[a], c[1], c[2]) = Ref(a)[c]
         /\ Ref(a)[c] # Corrupted
  <1>1. Held(nodes, a, epochs[a], Size(a), Ref(a)) /\ LogTypeOK /\ HistoryKept
    BY DEF LogInv, StoreKept
  <1>2. c \in Coordinates
    BY DEF Blocks
  <1>3. Stored(a, c)
    BY <1>1, <1>2 DEF Stored, Held
  <1> QED
    BY <1>1, <1>3, ReadsAsReference

\* add_algorithm: every position before the algorithm is null for it, and so are the
\* peaks it starts from; nothing of it is stored and nothing of it has to be.
LEMMA AddKeeps ==
  ASSUME LogInv, NEW a \in Algs, AddAlgorithm(a)
  PROVE  LogInv'
  <1> DEFINE eps == <<<<count, Open>>>>
  <1>1. LogTypeOK /\ StoreKept /\ epochs[a] = <<>>
    BY DEF LogInv, AddAlgorithm, Registered
  <1>2. /\ count \in Nat /\ count < Open /\ <<>> \in Seq(Interval)
        /\ TreeSize(Resumed(<<>>, count), count) = count
    BY <1>1, SizeKnown
  <1>3. eps = Resumed(<<>>, count) /\ eps \in Seq(Interval)
    <2>1. <<count, Open>> \in Interval
      BY <1>2, OpenAssumption DEF Interval
    <2> QED
      BY <2>1 DEF Resumed
  <1>4. ValidEpochs(eps, count)
    BY <1>2, OpenAssumption DEF ValidEpochs
  <1>5. /\ epochs' = [epochs EXCEPT ![a] = eps] /\ metas' = [metas EXCEPT ![a] = eps]
        /\ coords' = [coords EXCEPT ![a] = FrontierForSize(count)]
        /\ frontier' = [frontier EXCEPT ![a] = [i \in DOMAIN coords'[a] |-> Null(a)]]
        /\ UNCHANGED <<count, kind, storedCount, leaves, nodes, observers>>
    BY DEF AddAlgorithm, SetEpochs
  <1>6. \A i \in 0..count - 1 : IsActiveAt(eps, i) <=> IsActiveAt(epochs[a], i)
    BY <1>1, <1>2, <1>3, ResumeActivity
  <1>7. \A m \in 0..count - 1 : EpochsAt(eps, m) = EpochsAt(epochs[a], m)
    BY <1>1, <1>2, <1>3, ResumeCommitted
  <1>8. [i \in DOMAIN coords'[a] |-> Null(a)] = PeaksOf(Ref(a), count)
    <2> DEFINE at == FrontierForSize(count)
    <2>1. coords'[a] = at
      BY <1>1, <1>5 DEF LogTypeOK
    <2>2. Covers(at, 0, count)
      BY <1>2, FrontierCovers
    <2> HIDE DEF at
    <2>3. DOMAIN at = 1..Len(at) /\ at \in Seq(Coordinates)
      BY <2>2 DEF Covers
    <2>4. ASSUME NEW i \in 1..Len(at) PROVE Ref(a)[at[i]] = Null(a)
      <3> DEFINE c == at[i]
      <3>1. c \in Coordinates
        BY <2>3
      <3> HIDE DEF c
      <3>2. c = <<c[1], c[2]>> /\ c[1] \in Nat /\ c[2] \in Nat
        BY <3>1, CoordinateIsPair
      <3>3. \A j \in Nat : Ref(a)[<<j, 0>>] = Null(a)
        <4>1. \A j : ~IsActiveAt(epochs[a], j)
          <5>1. \A j : ~IsActiveAt(<<>>, j)
            BY DEF IsActiveAt
          <5> QED
            BY <1>1, <5>1
        <4>2. \A j \in Nat : ReferenceLeaf(a, j) = Null(a)
          BY <4>1 DEF ReferenceLeaf
        <4> QED
          BY <4>2, References
      <3>4. Ref(a)[<<c[1], c[2]>>] = Null(a)
        <4> DEFINE r == Ref(a)
        <4>1. TreeOf(a, r) /\ \A j \in Under(c[1], c[2]) : r[<<j, 0>>] = Null(a)
          BY <3>3, References DEF Under
        <4> HIDE DEF r
        <4>2. r[<<c[1], c[2]>>] = Null(a)
          BY <3>2, <4>1, NullRoots
        <4> QED
          BY <4>2 DEF r
      <3> QED
        BY <3>2, <3>4 DEF c
    <2> QED
      BY <2>1, <2>3, <2>4 DEF PeaksOf, at
  <1>9. Held(nodes, a, eps, count, Ref(a))
    <2>1. Size(a) = 0
      BY <1>1 DEF Size, TreeSize
    <2>2. Held(nodes, a, epochs[a], 0, Ref(a))
      BY <1>1, <2>1 DEF StoreKept
    <2>3. \A c \in Coordinates : Node(a, c) \notin DOMAIN nodes
      <3>1. \A c \in Coordinates : c \notin Blocks(0)
        BY CoordinateIsPair DEF Blocks
      <3> QED
        BY <2>2, <3>1 DEF Held
    <2>4. \A c \in Blocks(count) : ~ActiveRange(eps, c[1], End(c))
      <3>1. \A c \in Blocks(count) : End(c) \in Nat /\ End(c) <= count
        BY CoordinateIsPair DEF Blocks
      <3>2. \A e \in DOMAIN eps : eps[e][1] = count
        OBVIOUS
      <3> QED
        BY <1>2, <3>1, <3>2 DEF ActiveRange
    <2> QED
      BY <2>3, <2>4 DEF Held
  <1>10. TreeSize(eps, count) = count
    BY <1>2, <1>3
  <1>11. \A x \in DOMAIN nodes' : \E b \in Algs : \E c \in Coordinates : x = Node(b, c)
    BY <1>1, <1>5 DEF StoreKept
  <1>12. frontier' = [frontier EXCEPT ![a] = PeaksOf(Ref(a), count)]
    BY <1>5, <1>8
  <1> HIDE DEF eps
  <1> QED
    BY <1>3, <1>4, <1>5, <1>6, <1>7, <1>9, <1>10, <1>11, <1>12, OneAlgorithmChanges

\* remove_algorithm changes no activity below the log's size.
LEMMA RemoveKeeps ==
  ASSUME LogInv, NEW a \in Algs, RemoveAlgorithm(a)
  PROVE  LogInv'
  <1> DEFINE eps == Closed(epochs[a], count)
  <1>1. LogTypeOK /\ StoreKept /\ FrontierKept /\ IsActive(epochs[a])
    BY DEF LogInv, RemoveAlgorithm
  <1>2. /\ count \in Nat /\ count < Open /\ epochs[a] \in Seq(Interval)
        /\ Size(a) = count /\ TreeSize(eps, count) = count
    BY <1>1, SizeKnown
  <1>3. epochs[a] # <<>> /\ ValidEpochs(epochs[a], count)
    BY <1>1 DEF LogTypeOK, Registered, IsActive
  <1>4. eps \in Seq(Interval) /\ ValidEpochs(eps, count)
    BY <1>1, <1>2, <1>3, CloseLast, CloseValid
  <1>5. /\ epochs' = [epochs EXCEPT ![a] = eps] /\ metas' = [metas EXCEPT ![a] = eps]
        /\ UNCHANGED <<count, kind, frontier, coords, storedCount, leaves, nodes, observers>>
    BY DEF RemoveAlgorithm, SetEpochs, Closed
  <1>6. \A i \in 0..count - 1 : IsActiveAt(eps, i) <=> IsActiveAt(epochs[a], i)
    BY <1>1, <1>2, CloseActivity
  <1>7. \A m \in 0..count - 1 : EpochsAt(eps, m) = EpochsAt(epochs[a], m)
    BY <1>1, <1>2, CloseCommitted
  <1>8. /\ coords' = [coords EXCEPT ![a] = FrontierForSize(count)]
        /\ frontier' = [frontier EXCEPT ![a] = PeaksOf(Ref(a), count)]
    <2>1. coords[a] = FrontierForSize(count) /\ frontier[a] = PeaksOf(Ref(a), count)
      BY <1>1, <1>2 DEF FrontierKept
    <2> QED
      BY <1>1, <1>5, <2>1 DEF LogTypeOK
  <1>9. Held(nodes, a, eps, count, Ref(a))
    <2>1. Held(nodes, a, epochs[a], count, Ref(a))
      BY <1>1, <1>2 DEF StoreKept
    <2>2. ASSUME NEW c \in Blocks(count)
          PROVE  ActiveRange(eps, c[1], End(c)) <=> ActiveRange(epochs[a], c[1], End(c))
      <3>1. c[1] \in Nat /\ End(c) \in Nat /\ c[1] < End(c) /\ End(c) <= count
        BY CoordinateIsPair DEF Blocks
      <3> QED
        BY <1>1, <1>2, <3>1, CloseRange
    <2> QED
      BY <2>1, <2>2 DEF Held
  <1>10. \A x \in DOMAIN nodes' : \E b \in Algs : \E c \in Coordinates : x = Node(b, c)
    BY <1>1, <1>5 DEF StoreKept
  <1> HIDE DEF eps
  <1> QED
    BY <1>2, <1>4, <1>5, <1>6, <1>7, <1>8, <1>9, <1>10, OneAlgorithmChanges

\* An empty log.
LEMMA InitKeeps == Init => LogInv
  <1> SUFFICES ASSUME Init PROVE LogInv
    OBVIOUS
  <1>1. count = 0 /\ kind = "flat" /\ storedCount = 0 /\ leaves = <<>> /\ history = <<>>
        /\ nodes = <<>> /\ outgrown = <<>> /\ metas = epochs
        /\ epochs = [a \in Algs |-> IF a = Genesis THEN <<<<0, Open>>>> ELSE <<>>]
        /\ frontier = [a \in Algs |-> <<>>] /\ coords = [a \in Algs |-> <<>>]
    BY DEF Init
  <1>2. LogTypeOK
    <2>1. count \in 0..MaxCount
      BY <1>1, LogAssumption
    <2>2. <<<<0, Open>>>> \in Seq(Interval) /\ <<>> \in Seq(Interval)
      BY OpenAssumption DEF Interval
    <2>3. epochs \in [Algs -> Seq(Interval)]
      BY <1>1, <2>2
    <2>4. ValidEpochs(<<<<0, Open>>>>, 0)
      BY OpenAssumption DEF ValidEpochs
    <2>5. \A a \in Algs : Registered(a) => ValidEpochs(epochs[a], count)
      BY <1>1, <2>4 DEF Registered
    <2>6. frontier = [a \in Algs |-> frontier[a]] /\ coords = [a \in Algs |-> coords[a]]
      BY <1>1
    <2> QED
      BY <1>1, <2>1, <2>3, <2>5, <2>6 DEF LogTypeOK
  <1>3. StoreMirrorsHandle
    BY <1>1 DEF StoreMirrorsHandle
  <1>4. HistoryKept
    BY <1>1 DEF HistoryKept
  <1>5. ASSUME NEW a \in Algs PROVE Size(a) = 0
    <2>1. Size(a) \in 0..count
      BY <1>2, SizeKnown
    <2> QED
      BY <1>1, <2>1
  <1>6. FrontierForSize(0) = <<>>
    <2>1. Covers(FrontierForSize(0), 0, 0)
      BY FrontierCovers
    <2>2. Covers(<<>>, 0, 0)
      BY DEF Covers
    <2> QED
      BY <2>1, <2>2, CoverUnique
  <1>7. FrontierKept
    <2>1. \A ref : PeaksOf(ref, 0) = <<>>
      BY <1>6 DEF PeaksOf
    <2> QED
      BY <1>1, <1>5, <1>6, <2>1 DEF FrontierKept
  <1>8. StoreKept
    <2>1. DOMAIN nodes = {}
      BY <1>1
    <2>2. \A c \in Coordinates : c \notin Blocks(0)
      BY CoordinateIsPair DEF Blocks
    <2>3. Blocks(0) \subseteq Coordinates
      BY DEF Blocks
    <2> QED
      BY <1>5, <2>1, <2>2, <2>3 DEF StoreKept, Held
  <1>9. OutgrownKept
    <2>1. 1..count = {} /\ 1..count - 1 = {}
      BY <1>1
    <2>2. outgrown = [i \in 1..count |-> outgrown[i]]
      BY <1>1, <2>1
    <2> QED
      BY <2>1, <2>2 DEF OutgrownKept
  <1> QED
    BY <1>2, <1>3, <1>4, <1>7, <1>8, <1>9 DEF LogInv

\* What the store says of the handle.
LEMMA StoreSays ==
  ASSUME LogInv, NEW a \in Algs
  PROVE  StoredCoords(a) = coords[a] /\ StoredFrontier(a) = frontier[a]
  <1> DEFINE at == FrontierForSize(Size(a))
  <1>1. /\ storedCount = count /\ metas = epochs
        /\ coords[a] = at /\ frontier[a] = PeaksOf(Ref(a), Size(a)) /\ LogTypeOK
    BY DEF LogInv, StoreMirrorsHandle, FrontierKept
  <1>2. StoredCoords(a) = at
    BY <1>1 DEF StoredCoords, Size
  <1>3. Size(a) \in Nat /\ Covers(at, 0, Size(a))
    BY <1>1, SizeKnown, FrontierCovers
  <1> HIDE DEF at
  <1>4. \A i \in 1..Len(at) : at[i] \in Blocks(Size(a))
    BY <1>3, PeaksAreBlocks
  <1>5. \A i \in 1..Len(at) : GetNodeHash(a, epochs[a], at[i][1], at[i][2]) = Ref(a)[at[i]]
    BY <1>4, ReadBack
  <1>6. StoredFrontier(a) = [i \in 1..Len(at) |-> GetNodeHash(a, epochs[a], at[i][1], at[i][2])]
    BY <1>1, <1>2 DEF StoredFrontier
  <1>7. StoredFrontier(a) = [i \in 1..Len(at) |-> Ref(a)[at[i]]]
    BY <1>5, <1>6
  <1> QED
    BY <1>1, <1>2, <1>7 DEF PeaksOf, at

\* from_storage reads back what the handle was.
LEMMA ReopenKeeps ==
  ASSUME LogInv, Reopen
  PROVE  LogInv'
  <1>1. /\ LogTypeOK /\ StoreMirrorsHandle /\ HistoryKept /\ FrontierKept /\ StoreKept /\ OutgrownKept
    BY DEF LogInv
  <1>2. /\ count' = count /\ epochs' = epochs /\ metas' = metas /\ storedCount' = storedCount
        /\ kind' = IF leaves # <<>> THEN "flat" ELSE "subtree"
        /\ UNCHANGED <<leaves, nodes, history, outgrown>>
    BY <1>1 DEF Reopen, StoreMirrorsHandle, observers
  <1>3. coords' = coords /\ frontier' = frontier
    <2>1. /\ coords' = [a \in Algs |-> StoredCoords(a)]
          /\ frontier' = [a \in Algs |-> StoredFrontier(a)]
      BY DEF Reopen
    <2> QED
      BY <1>1, <2>1, StoreSays DEF LogTypeOK
  <1>4. LogTypeOK'
    BY <1>1, <1>2, <1>3 DEF LogTypeOK, Registered
  <1>5. StoreMirrorsHandle'
    BY <1>1, <1>2 DEF StoreMirrorsHandle
  <1>6. HistoryKept'
    BY <1>1, <1>2 DEF HistoryKept, LogTypeOK
  <1>7. \A a \in Algs : Ref(a)' = Ref(a) /\ Size(a)' = Size(a)
    BY <1>2 DEF Ref, LeafOf, ReferenceLeaf, Size
  <1>8. FrontierKept'
    BY <1>1, <1>3, <1>7 DEF FrontierKept
  <1>9. StoreKept'
    BY <1>1, <1>2, <1>7 DEF StoreKept
  <1>10. OutgrownKept'
    <2>1. \A a \in Algs : SameBelow(Ref(a), Ref(a)', count)
      BY <1>7 DEF SameBelow
    <2> QED
      BY <1>1, <1>2, <2>1, OutgrownStays
  <1> QED
    BY <1>4, <1>5, <1>6, <1>8, <1>9, <1>10 DEF LogInv

-----------------------------------------------------------------------------
(* What a resumption rebuilds *)

\* One block of a rebuild, from the blocks it consists of.
RebuildStep(a, eps, l, h, below) ==
  IF ~ActiveRange(eps, l, l + BlockSize(h)) THEN [root |-> Null(a), mixed |-> <<>>]
  ELSE IF FullyActive(eps, l, l + BlockSize(h)) /\ <<a, l, h>> \in DOMAIN nodes
       THEN [root |-> nodes[<<a, l, h>>], mixed |-> <<>>]
  ELSE LET root == NaryMr(a, [j \in 1..Arity |-> below[j].root])
       IN  [root  |-> root,
            mixed |-> Over(Only(<<a, l, h>>, root), Merged([j \in 1..Arity |-> below[j].mixed]))]

\* What Rebuild makes of a leaf and of a taller block.
RebuildsFromLeaves(a, eps) ==
  /\ \A l \in Nat : Rebuild(a, eps, l, 0) = [root |-> RebuildLeaf(a, eps, l), mixed |-> <<>>]
  /\ \A l \in Nat, h \in Nat : Rebuild(a, eps, l, h + 1) =
       RebuildStep(a, eps, l, h + 1, [j \in 1..Arity |-> Rebuild(a, eps, l + (j - 1) * BlockSize(h), h)])

\* A rebuild of a block rebuilds the blocks it consists of.
LEMMA RebuildRuns ==
  ASSUME NEW a, NEW eps
  PROVE  RebuildsFromLeaves(a, eps)
  <1> DEFINE base == [l \in Nat |-> [root |-> RebuildLeaf(a, eps, l), mixed |-> <<>>]]
             next(m, x) == [l \in Nat |-> RebuildStep(a, eps, l, m, [j \in 1..Arity |-> x[l + (j - 1) * BlockSize(m - 1)]])]
             body(f) == [m \in Nat |-> IF m = 0 THEN base ELSE next(m, f[m - 1])]
             Starts(f, n) == \A m \in 0..n : f[m] = IF m = 0 THEN base ELSE next(m, f[m - 1])
             Start(n) == CHOOSE f : Starts(f, n)
             whole == [n \in Nat |-> Start(n)[n]]
  <1> HIDE DEF base, next
  <1>1. \A n \in Nat : \E f : Starts(f, n)
    <2> DEFINE S == {n \in Nat : \E f : Starts(f, n)}
    <2>1. 0 \in S
      <3>1. Starts([m \in {0} |-> base], 0)
        OBVIOUS
      <3> QED
        BY <3>1
    <2>2. ASSUME NEW n \in Nat, n \in S PROVE n + 1 \in S
      <3>1. PICK f : Starts(f, n)
        BY <2>2
      <3> DEFINE g == [m \in 0..n + 1 |-> IF m <= n THEN f[m] ELSE next(n + 1, f[n])]
      <3>2. Starts(g, n + 1)
        <4>1. \A m \in 0..n + 1 : g[m] = IF m <= n THEN f[m] ELSE next(n + 1, f[n])
          OBVIOUS
        <4> HIDE DEF g
        <4> SUFFICES ASSUME NEW m \in 0..n + 1
                     PROVE  g[m] = IF m = 0 THEN base ELSE next(m, g[m - 1])
          OBVIOUS
        <4>2. CASE m <= n
          BY <3>1, <4>1, <4>2
        <4>3. CASE m = n + 1
          BY <4>1, <4>3
        <4> QED
          BY <4>2, <4>3
      <3>3. n + 1 \in Nat
        OBVIOUS
      <3> HIDE DEF Starts, g
      <3> QED
        BY <3>2, <3>3
    <2> HIDE DEF S
    <2>3. \A n \in Nat : n \in S
      BY <2>1, <2>2, SetInduction
    <2> QED
      BY <2>3 DEF S
  <1>2. \A n \in Nat : Starts(Start(n), n)
    BY <1>1
  <1> HIDE DEF Start
  <1>3. ASSUME NEW n \in Nat PROVE Start(n + 1)[n] = Start(n)[n]
    <2> DEFINE f == Start(n)
               g == Start(n + 1)
               S == {m \in Nat : m <= n => f[m] = g[m]}
    <2>1. Starts(f, n) /\ Starts(g, n + 1)
      <3>1. n + 1 \in Nat
        OBVIOUS
      <3> HIDE DEF Starts
      <3> QED
        BY <1>2, <3>1
    <2> HIDE DEF f, g
    <2>2. 0 \in S
      BY <2>1
    <2>3. ASSUME NEW m \in Nat, m \in S PROVE m + 1 \in S
      BY <2>1, <2>3
    <2> HIDE DEF S
    <2>4. \A m \in Nat : m \in S
      BY <2>2, <2>3, SetInduction
    <2> QED
      BY <2>4 DEF S, f, g
  <1>4. whole = body(whole)
    <2>1. ASSUME NEW m \in Nat PROVE whole[m] = IF m = 0 THEN base ELSE next(m, whole[m - 1])
      <3>1. Starts(Start(m), m) /\ m \in 0..m
        BY <1>2
      <3>2. CASE m = 0
        BY <3>1, <3>2
      <3>3. CASE m # 0
        <4>1. Start(m)[m] = next(m, Start(m)[m - 1])
          BY <3>1, <3>3
        <4>2. m - 1 \in Nat /\ (m - 1) + 1 = m
          BY <3>3
        <4>3. Start(m)[m - 1] = Start(m - 1)[m - 1]
          BY <1>3, <4>2
        <4> QED
          BY <3>3, <4>1, <4>2, <4>3
      <3> QED
        BY <3>2, <3>3
    <2> HIDE DEF whole
    <2>2. whole = [m \in Nat |-> whole[m]]
      BY DEF whole
    <2> QED
      BY <2>1, <2>2
  <1> HIDE DEF whole, Start, Starts
  <1> DEFINE chosen == CHOOSE f : f = body(f)
  <1>5. chosen = body(chosen)
    BY <1>4
  <1> HIDE DEF chosen
  <1>6. \A m \in Nat : chosen[m] = IF m = 0 THEN base ELSE next(m, chosen[m - 1])
    BY <1>5
  <1>7. \A m \in Nat : m + 1 \in Nat /\ m + 1 # 0 /\ (m + 1) - 1 = m
    OBVIOUS
  <1>8. chosen[0] = base /\ \A m \in Nat : chosen[m + 1] = next(m + 1, chosen[m])
    BY <1>6, <1>7
  <1>9. \A l, h : Rebuild(a, eps, l, h) = chosen[h][l]
    BY DEF Rebuild, RebuildStep, chosen, base, next
  <1>10. \A l \in Nat : Rebuild(a, eps, l, 0) = [root |-> RebuildLeaf(a, eps, l), mixed |-> <<>>]
    BY SMTT(30), <1>8, <1>9 DEF base
  <1>11. ASSUME NEW l \in Nat, NEW h \in Nat
         PROVE  Rebuild(a, eps, l, h + 1) = RebuildStep(a, eps, l, h + 1,
                  [j \in 1..Arity |-> Rebuild(a, eps, l + (j - 1) * BlockSize(h), h)])
    <2> DEFINE below(x) == [j \in 1..Arity |-> chosen[h][x + (j - 1) * BlockSize(h)]]
    <2>1. chosen[h + 1] = [x \in Nat |-> RebuildStep(a, eps, x, h + 1, below(x))]
      <3>1. (h + 1) - 1 = h
        OBVIOUS
      <3> QED
        BY <1>8, <3>1 DEF next
    <2>2. chosen[h + 1][l] = RebuildStep(a, eps, l, h + 1, below(l))
      <3> HIDE DEF below
      <3> QED
        BY <2>1
    <2>3. below(l) = [j \in 1..Arity |-> Rebuild(a, eps, l + (j - 1) * BlockSize(h), h)]
      BY <1>9
    <2> QED
      BY <1>9, <2>2, <2>3
  <1> QED
    BY <1>10, <1>11 DEF RebuildsFromLeaves

\* The blocks within one block.
Inside(l, h) ==
  {c \in Coordinates : Multiple(c[1], BlockSize(c[2])) /\ l <= c[1] /\ End(c) <= l + BlockSize(h)}

\* What is within a block of a block is within it.
LEMMA InsideChild ==
  ASSUME NEW l \in Nat, NEW h \in Nat, NEW j \in 1..Arity
  PROVE  Inside(l + (j - 1) * BlockSize(h), h) \subseteq Inside(l, h + 1)
  <1> DEFINE x == l + (j - 1) * BlockSize(h)
             d == BlockSize(h)
             e == BlockSize(h + 1)
  <1>1. x \in Nat /\ l <= x /\ x + d <= l + e /\ d \in Nat /\ e \in Nat
    <2>1. h + 1 \in Nat
      OBVIOUS
    <2> QED
      BY <2>1, Children, BlockSizes
  <1> HIDE DEF x, d, e
  <1>2. ASSUME NEW c \in Coordinates, x <= c[1], End(c) <= x + d PROVE l <= c[1] /\ End(c) <= l + e
    BY <1>1, <1>2, CoordinateIsPair
  <1> QED
    BY <1>2 DEF Inside, x, d, e

\* A block within a block is that block or within one of those it consists of.
LEMMA InsideParts ==
  ASSUME NEW l \in Nat, NEW h \in Nat, Multiple(l, BlockSize(h + 1)), NEW c \in Inside(l, h + 1)
  PROVE  c = <<l, h + 1>> \/ \E j \in 1..Arity : c \in Inside(l + (j - 1) * BlockSize(h), h)
  <1> DEFINE x == c[1]
             g == c[2]
             d == BlockSize(g)
             k == h + 1
             e == BlockSize(k)
  <1>1. c \in Coordinates /\ Multiple(x, d) /\ l <= x /\ x + d <= l + e
    BY DEF Inside, End
  <1>2. c = <<x, g>> /\ x \in Nat /\ g \in Nat /\ d \in Nat \ {0} /\ k \in Nat /\ e \in Nat \ {0}
    <2>1. k \in Nat
      OBVIOUS
    <2> QED
      BY <1>1, <2>1, CoordinateIsPair, BlockSizes
  <1> HIDE DEF x, d, e, g
  <1>3. g <= k
    <2> SUFFICES ASSUME k < g PROVE FALSE
      BY <1>2
    <2> DEFINE k1 == k + 1
               f == BlockSize(k1)
    <2>1. k1 \in Nat /\ k1 <= g
      BY <1>2
    <2>2. f = Arity * e
      BY <1>2, BlockSizes DEF e
    <2>3. f <= d
      <3> HIDE DEF k1
      <3> QED
        BY <1>2, <2>1, TallerBlocks DEF d
    <2> HIDE DEF f, k1
    <2>4. Arity * e > e
      BY <1>2, ArityAssumption
    <2>5. f \in Nat /\ d > e
      BY <1>2, <2>1, <2>2, <2>3, <2>4, BlockSizes DEF f
    <2> QED
      BY <1>1, <1>2, <2>5
  <1>4. CASE g = k
    <2>1. d = e
      BY <1>4 DEF d, e
    <2>2. x = l
      BY <1>1, <1>2, <2>1
    <2> QED
      BY <1>2, <1>4, <2>2
  <1>5. CASE g # k
    <2>1. g <= h
      BY <1>2, <1>3, <1>5
    <2>2. x < l + BlockSize(h + 1)
      BY <1>1, <1>2 DEF e
    <2>3. PICK j \in 1..Arity : /\ l + (j - 1) * BlockSize(h) <= x
                                /\ x < l + (j - 1) * BlockSize(h) + BlockSize(h)
      BY <1>1, <1>2, <2>2, ChildAt
    <2> DEFINE y == l + (j - 1) * BlockSize(h)
               b == BlockSize(h)
    <2>4. y \in Nat /\ Multiple(y, b) /\ b \in Nat \ {0} /\ y <= x /\ x < y + b /\ Multiple(b, d)
      <3>1. Multiple(b, d)
        BY <1>2, <2>1, TallerBlocks DEF d
      <3> QED
        BY <2>3, <3>1, Children, BlockSizes
    <2> HIDE DEF y, b
    <2>5. Multiple(y + b, d)
      <3>1. Multiple(y + b, b) /\ y + b \in Nat
        BY <2>4, MultipleAdd
      <3> DEFINE z == y + b
      <3> HIDE DEF z
      <3>2. Multiple(z, d)
        BY <1>2, <2>4, <3>1, MultipleTransitive DEF z
      <3> QED
        BY <3>2 DEF z
    <2>6. x + d <= y + b
      <3> DEFINE z == y + b
      <3>1. z \in Nat /\ x < z /\ Multiple(z, d)
        BY <2>4, <2>5
      <3> HIDE DEF z
      <3>2. x + d <= z
        BY <1>1, <1>2, <3>1, MultiplesApart
      <3> QED
        BY <3>2 DEF z
    <2>7. c \in Inside(y, h)
      BY <1>1, <2>4, <2>6 DEF Inside, End, x, d, g, b
    <2> QED
      BY <2>7 DEF y
  <1> QED
    BY <1>4, <1>5 DEF k

\* A block of height 0 has no other block within it.
LEMMA InsideLeaf ==
  ASSUME NEW l \in Nat, NEW c \in Inside(l, 0)
  PROVE  c = <<l, 0>>
  <1>1. c \in Coordinates /\ c = <<c[1], c[2]>> /\ c[1] \in Nat /\ c[2] \in Nat
        /\ BlockSize(c[2]) \in Nat \ {0}
    BY CoordinateIsPair DEF Inside
  <1>2. l <= c[1] /\ c[1] + BlockSize(c[2]) <= l + 1
    BY BlockSizes DEF Inside, End
  <1>3. c[2] < BlockSize(c[2])
    BY <1>1, HeightBelowSize
  <1> QED
    BY <1>1, <1>2, <1>3

\* A block rebuilt for intervals eps: its root is the reference's, and what has to
\* be stored of it besides is there with the reference's digests.
Rebuilt(a, eps, r, l, h, b) ==
  /\ b.root = r[<<l, h>>]
  /\ \A x \in DOMAIN b.mixed : \E c \in Inside(l, h) : x = Node(a, c) /\ b.mixed[x] = r[c]
  /\ \A c \in Inside(l, h) :
       ActiveRange(eps, c[1], End(c)) /\ Node(a, c) \notin DOMAIN nodes => Node(a, c) \in DOMAIN b.mixed

\* A block from which nothing has to be stored: none of what is in it is missing.
LEMMA NothingMissing ==
  ASSUME NEW a, NEW eps, NEW r, NEW l, NEW h, NEW root, root = r[<<l, h>>],
         \A c \in Inside(l, h) : ActiveRange(eps, c[1], End(c)) => Node(a, c) \in DOMAIN nodes
  PROVE  Rebuilt(a, eps, r, l, h, [root |-> root, mixed |-> <<>>])
  <1>1. DOMAIN <<>> = {}
    OBVIOUS
  <1> QED
    BY <1>1 DEF Rebuilt

\* A block rebuilt from the blocks it consists of.
LEMMA MixedStep ==
  ASSUME NEW a, NEW eps, NEW r, TreeOf(a, r),
         NEW l \in Nat, NEW h \in Nat, Multiple(l, BlockSize(h + 1)),
         NEW below, below = [j \in 1..Arity |-> below[j]],
         \A j \in 1..Arity : Rebuilt(a, eps, r, l + (j - 1) * BlockSize(h), h, below[j]),
         NEW root, root = NaryMr(a, [j \in 1..Arity |-> below[j].root]),
         NEW mixed, mixed = Over(Only(<<a, l, h + 1>>, root), Merged([j \in 1..Arity |-> below[j].mixed]))
  PROVE  Rebuilt(a, eps, r, l, h + 1, [root |-> root, mixed |-> mixed])
  <1> DEFINE C(j) == l + (j - 1) * BlockSize(h)
             fam == [j \in 1..Arity |-> below[j].mixed]
             top == <<l, h + 1>>
             own == Only(<<a, l, h + 1>>, root)
  <1>1. root = r[top]
    <2> DEFINE u == [j \in 1..Arity |-> below[j].root]
               v == [j \in 1..Arity |-> r[<<l + (j - 1) * BlockSize(h), h>>]]
    <2>1. u = v
      BY DEF Rebuilt
    <2>2. r[<<l, h + 1>>] = NaryMr(a, v)
      BY DEF TreeOf
    <2> HIDE DEF u, v
    <2>3. root = NaryMr(a, v)
      BY <2>1 DEF u
    <2> QED
      BY <2>2, <2>3
  <1>2. /\ DOMAIN own = {Node(a, top)} /\ own[Node(a, top)] = r[top]
        /\ top \in Coordinates /\ top \in Inside(l, h + 1)
    <2>1. Node(a, top) = <<a, l, h + 1>>
      BY DEF Node
    <2>2. h + 1 \in Nat /\ BlockSize(h + 1) \in Nat
      BY BlockSizes
    <2>3. top \in Coordinates /\ top[1] = l /\ top[2] = h + 1
      BY <2>2 DEF Coordinates
    <2>4. End(top) = l + BlockSize(h + 1)
      BY DEF End
    <2>5. top \in Inside(l, h + 1)
      <3> HIDE DEF top
      <3> QED
        BY <2>2, <2>3, <2>4 DEF Inside
    <2> QED
      BY <1>1, <2>1, <2>3, <2>5 DEF Only
  <1>3. /\ DOMAIN fam = 1..Arity
        /\ \A j \in 1..Arity : \A x \in DOMAIN fam[j] :
             \E c \in Inside(C(j), h) : x = Node(a, c) /\ fam[j][x] = r[c]
        /\ \A j \in 1..Arity : \A c \in Inside(C(j), h) :
             ActiveRange(eps, c[1], End(c)) /\ Node(a, c) \notin DOMAIN nodes
               => Node(a, c) \in DOMAIN fam[j]
    BY DEF Rebuilt
  <1>4. \A j \in 1..Arity : Inside(C(j), h) \subseteq Inside(l, h + 1)
    BY InsideChild
  <1>5. \A c \in Inside(l, h + 1) : c = top \/ \E j \in 1..Arity : c \in Inside(C(j), h)
    BY InsideParts
  <1>6. \A m \in Nat, x \in Nat : Inside(x, m) \subseteq Coordinates
    BY DEF Inside
  <1>7. mixed = Over(own, Merged(fam))
    OBVIOUS
  <1>8. \A j \in 1..Arity : C(j) \in Nat
    BY Children
  <1> HIDE DEF C, fam, own, top
  <1>9. ASSUME NEW j \in 1..Arity, NEW x \in DOMAIN fam[j]
        PROVE  /\ x \in DOMAIN Merged(fam)
               /\ \E c \in Inside(l, h + 1) : x = Node(a, c) /\ Merged(fam)[x] = r[c]
    <2>1. PICK c \in Inside(C(j), h) : x = Node(a, c) /\ fam[j][x] = r[c]
      BY <1>3, <1>9
    <2>2. ASSUME NEW k \in DOMAIN fam, x \in DOMAIN fam[k] PROVE fam[k][x] = r[c]
      <3>1. PICK d \in Inside(C(k), h) : x = Node(a, d) /\ fam[k][x] = r[d]
        BY <1>3, <2>2
      <3>2. c \in Coordinates /\ d \in Coordinates /\ k \in 1..Arity
        BY <1>3, <1>6, <1>8
      <3>4. Node(a, c) = Node(a, d)
        BY <2>1, <3>1
      <3>3. c = d
        BY <3>2, <3>4, NodeIsKey
      <3> QED
        BY <2>1, <3>1, <3>3
    <2>4. Agreeing(fam, x)
      BY <2>2 DEF Agreeing
    <2>3. x \in DOMAIN Merged(fam) /\ Merged(fam)[x] = fam[j][x]
      <3>1. j \in DOMAIN fam /\ x \in DOMAIN fam[j]
        BY <1>3
      <3> QED
        BY <2>4, <3>1, MergedIs
    <2> QED
      BY <1>4, <2>1, <2>3
  <1>10. ASSUME NEW x \in DOMAIN mixed PROVE \E c \in Inside(l, h + 1) : x = Node(a, c) /\ mixed[x] = r[c]
    <2>1. CASE x \in DOMAIN own
      <3>2. Over(own, Merged(fam))[x] = own[x]
        BY <2>1, OverHas
      <3>1. x = Node(a, top) /\ mixed[x] = own[x]
        BY <1>2, <1>7, <2>1, <3>2
      <3> QED
        BY <1>2, <3>1
    <2>2. CASE x \notin DOMAIN own
      <3>1. x \in DOMAIN Merged(fam) /\ mixed[x] = Merged(fam)[x]
        BY <1>7, <1>10, <2>2, OverHas
      <3>2. PICK j \in DOMAIN fam : x \in DOMAIN fam[j]
        BY <3>1, MergedOnly
      <3> QED
        BY <1>3, <1>9, <3>1, <3>2
    <2> QED
      BY <2>1, <2>2
  <1>11. ASSUME NEW c \in Inside(l, h + 1), ActiveRange(eps, c[1], End(c)), Node(a, c) \notin DOMAIN nodes
         PROVE  Node(a, c) \in DOMAIN mixed
    <2>1. CASE c = top
      BY <1>2, <1>7, <2>1, OverHas
    <2>2. ASSUME NEW j \in 1..Arity, c \in Inside(C(j), h) PROVE Node(a, c) \in DOMAIN mixed
      <3>1. Node(a, c) \in DOMAIN fam[j]
        BY <1>3, <1>11, <2>2
      <3>2. Node(a, c) \in DOMAIN Merged(fam)
        BY <1>9, <3>1
      <3> QED
        BY <1>7, <3>2, OverHas
    <2> QED
      BY <1>5, <2>1, <2>2
  <1> HIDE DEF Rebuilt
  <1>12. [root |-> root, mixed |-> mixed].root = root /\ [root |-> root, mixed |-> mixed].mixed = mixed
    OBVIOUS
  <1> QED
    BY <1>1, <1>10, <1>11, <1>12 DEF Rebuilt, top

\* What a rebuild finds: the leaves; and of a block in the store everything in it.
Rebuildable(a, eps, r) ==
  /\ \A l \in 0..count - 1 : RebuildLeaf(a, eps, l) = r[<<l, 0>>]
  /\ \A l \in 0..count - 1 :
       ActiveRange(eps, l, l + 1) => Node(a, <<l, 0>>) \in DOMAIN nodes
  /\ \A c \in Blocks(count) : ~ActiveRange(eps, c[1], End(c)) => r[c] = Null(a)
  /\ \A c \in Blocks(count) : Node(a, c) \in DOMAIN nodes =>
       /\ nodes[Node(a, c)] = r[c]
       /\ \A d \in Inside(c[1], c[2]) :
            ActiveRange(eps, d[1], End(d)) => Node(a, d) \in DOMAIN nodes

\* All of that is so when an algorithm is resumed: its store was complete for the
\* size its tree had, and nothing after that size is active.
LEMMA RebuildFinds ==
  ASSUME LogTypeOK, HistoryKept, NEW a \in Algs, Held(nodes, a, epochs[a], Size(a), Ref(a)),
         ~IsActive(epochs[a])
  PROVE  Rebuildable(a, Resumed(epochs[a], count), Ref(a))
  <1> DEFINE r == Ref(a)
             old == epochs[a]
             eps == Resumed(old, count)
             n == Size(a)
  <1>1. LogTypeOK /\ HistoryKept
    OBVIOUS
  <1>2. /\ count \in Nat /\ count < Open /\ old \in Seq(Interval) /\ n \in 0..count /\ n \in Nat
        /\ \A i \in 0..count - 1 : IsActiveAt(old, i) => i < n
    BY <1>1, SizeKnown
  <1>3. TreeOf(a, r) /\ \A i \in Nat : r[<<i, 0>>] = ReferenceLeaf(a, i)
    BY References
  <1>4. Held(nodes, a, old, n, r)
    OBVIOUS
  <1>5. \A i \in 0..count - 1 : IsActiveAt(eps, i) <=> IsActiveAt(old, i)
    BY <1>2, ResumeActivity
  <1>6. \A lo \in Nat, hi \in Nat : hi <= count => (ActiveRange(eps, lo, hi) <=> ActiveRange(old, lo, hi))
    BY <1>2, ResumeRange
  <1>7. \A i \in Nat : ReferenceLeaf(a, i) =
          IF IsActiveAt(old, i) THEN Evaluate(a, history[i + 1]) ELSE Null(a)
    BY DEF ReferenceLeaf
  <1> HIDE DEF r, old, eps, n
  <1>8. \A l \in Nat : IsActiveAt(old, l) => ActiveRange(old, l, l + 1)
    <2> SUFFICES ASSUME NEW l \in Nat, IsActiveAt(old, l) PROVE ActiveRange(old, l, l + 1)
      OBVIOUS
    <2> DEFINE k == l + 1
    <2>1. k \in Nat /\ l < k /\ l <= l
      OBVIOUS
    <2> HIDE DEF k
    <2>2. ActiveRange(old, l, k)
      BY <1>2, <2>1, Ranges
    <2> QED
      BY <2>2 DEF k
  <1>9. ASSUME NEW l \in 0..count - 1, IsActiveAt(old, l)
        PROVE  Node(a, <<l, 0>>) \in DOMAIN nodes /\ nodes[Node(a, <<l, 0>>)] = r[<<l, 0>>]
    <2> DEFINE c == <<l, 0>>
    <2>0. l \in Nat /\ l < n /\ BlockSize(0) = 1
      BY <1>2, <1>9, BlockSizes
    <2>1. c[1] = l /\ c[2] = 0 /\ c \in Coordinates
      BY <2>0 DEF Coordinates
    <2> HIDE DEF c
    <2>2. End(c) = l + 1 /\ l + 1 <= n /\ Multiple(l, 1)
      BY <1>2, <2>0, <2>1 DEF End, Multiple
    <2>3. c \in Blocks(n)
      BY <2>0, <2>1, <2>2 DEF Blocks
    <2>4. ActiveRange(old, c[1], End(c))
      BY <1>8, <1>9, <2>0, <2>1, <2>2
    <2>5. Node(a, c) \in DOMAIN nodes /\ nodes[Node(a, c)] = r[c]
      BY <1>4, <2>1, <2>3, <2>4 DEF Held
    <2> QED
      BY <2>5 DEF c
  <1>10. ASSUME NEW l \in 0..count - 1
         PROVE  RebuildLeaf(a, eps, l) = r[<<l, 0>>]
    <2>1. l \in Nat /\ l + 1 \in 1..count
      BY <1>2
    <2>2. CASE ~IsActiveAt(old, l)
      BY <1>3, <1>5, <1>7, <2>1, <2>2 DEF RebuildLeaf
    <2>3. CASE IsActiveAt(old, l) /\ kind = "flat"
      <3>1. leaves = history
        BY <1>1, <2>3 DEF HistoryKept
      <3> QED
        BY <1>3, <1>5, <1>7, <2>1, <2>3, <3>1 DEF RebuildLeaf
    <2>4. CASE IsActiveAt(old, l) /\ kind # "flat"
      <3>1. Node(a, <<l, 0>>) \in DOMAIN nodes /\ nodes[Node(a, <<l, 0>>)] = r[<<l, 0>>]
        BY <1>9, <2>4
      <3>2. Node(a, <<l, 0>>) = <<a, l, 0>>
        BY DEF Node
      <3> QED
        BY <1>5, <2>4, <3>1, <3>2 DEF RebuildLeaf
    <2> QED
      BY <2>2, <2>3, <2>4
  <1>11. ASSUME NEW l \in 0..count - 1, ActiveRange(eps, l, l + 1)
         PROVE  Node(a, <<l, 0>>) \in DOMAIN nodes
    <2> DEFINE k == l + 1
    <2>1. l \in Nat /\ k \in Nat /\ k <= count /\ k = l + 1
      BY <1>2
    <2>2. ActiveRange(eps, l, k)
      BY <1>11
    <2> HIDE DEF k
    <2>3. ActiveRange(old, l, k)
      BY <1>6, <2>1, <2>2
    <2>4. IsActiveAt(old, l)
      BY <1>2, <2>1, <2>3, Ranges
    <2> QED
      BY <1>9, <2>4
  <1>12. \A c \in Blocks(count) : /\ c \in Coordinates /\ c = <<c[1], c[2]>>
                                  /\ c[1] \in Nat /\ c[2] \in Nat /\ End(c) \in Nat
                                  /\ End(c) = c[1] + BlockSize(c[2])
                                  /\ BlockSize(c[2]) \in Nat /\ End(c) <= count
    BY CoordinateIsPair DEF Blocks, End
  <1>13. ASSUME NEW c \in Blocks(count), ~ActiveRange(eps, c[1], End(c))
         PROVE  r[c] = Null(a)
    <2>0. ~ActiveRange(old, c[1], End(c))
      BY <1>6, <1>12, <1>13
    <2>1. \A i \in Under(c[1], c[2]) : r[<<i, 0>>] = Null(a)
      <3> SUFFICES ASSUME NEW i \in Nat, c[1] <= i, i < End(c) PROVE r[<<i, 0>>] = Null(a)
        BY <1>12 DEF Under
      <3>1. ~IsActiveAt(old, i)
        BY <1>2, <1>12, <2>0, Ranges
      <3> QED
        BY <1>3, <1>7, <3>1
    <2> QED
      BY <1>3, <1>12, <2>1, NullRoots
  <1>14. ASSUME NEW c \in Blocks(count), Node(a, c) \in DOMAIN nodes,
                NEW d \in Inside(c[1], c[2]), ActiveRange(eps, d[1], End(d))
         PROVE  Node(a, d) \in DOMAIN nodes
    <2>1. c \in Blocks(n)
      BY <1>4, <1>12, <1>14 DEF Held
    <2>2. End(c) <= n
      BY <2>1 DEF Blocks
    <2>3. d \in Coordinates /\ Multiple(d[1], BlockSize(d[2])) /\ End(d) <= End(c)
      BY <1>12, <1>14 DEF Inside
    <2>4. End(d) \in Nat /\ d[1] \in Nat /\ End(c) \in Nat
      BY <1>12, <2>3, CoordinateIsPair
    <2>5. End(d) <= n /\ End(d) <= count
      BY <1>2, <2>2, <2>3, <2>4
    <2>6. d \in Blocks(n) /\ ActiveRange(old, d[1], End(d))
      BY <1>6, <1>14, <2>3, <2>4, <2>5 DEF Blocks
    <2> QED
      BY <1>4, <2>6 DEF Held
  <1>15. ASSUME NEW c \in Blocks(count), Node(a, c) \in DOMAIN nodes
         PROVE  nodes[Node(a, c)] = r[c]
    BY <1>4, <1>12, <1>15 DEF Held
  <1> QED
    BY <1>10, <1>11, <1>13, <1>14, <1>15 DEF Rebuildable, r, eps, old

\* Every block of the log is rebuilt as the reference has it.
LEMMA RebuildIs ==
  ASSUME LogTypeOK, HistoryKept, NEW a \in Algs, Held(nodes, a, epochs[a], Size(a), Ref(a)),
         ~IsActive(epochs[a]), NEW eps, eps = Resumed(epochs[a], count), NEW c \in Blocks(count)
  PROVE  Rebuilt(a, eps, Ref(a), c[1], c[2], Rebuild(a, eps, c[1], c[2]))
  <1> DEFINE r == Ref(a)
             Good(l, h) == Rebuilt(a, eps, r, l, h, Rebuild(a, eps, l, h))
             Whole(l, h) == Multiple(l, BlockSize(h)) /\ l + BlockSize(h) <= count
             S == {h \in Nat : \A l \in Nat : Whole(l, h) => Good(l, h)}
  <1>1. count \in Nat
    BY SizeKnown
  <1>2. TreeOf(a, r) /\ Rebuildable(a, eps, r)
    BY References, RebuildFinds
  <1>3. RebuildsFromLeaves(a, eps)
    BY RebuildRuns
  <1> HIDE DEF r
  <1>4. \A l \in Nat, h \in Nat : Whole(l, h) => /\ <<l, h>> \in Blocks(count)
                                                 /\ End(<<l, h>>) = l + BlockSize(h)
    <2>1. \A l \in Nat, h \in Nat : /\ <<l, h>> \in Coordinates /\ <<l, h>>[1] = l /\ <<l, h>>[2] = h
                                    /\ End(<<l, h>>) = l + BlockSize(h)
      BY DEF Coordinates, End
    <2> QED
      BY <2>1 DEF Blocks
  <1>5. 0 \in S
    <2> SUFFICES ASSUME NEW l \in Nat, Whole(l, 0) PROVE Good(l, 0)
      OBVIOUS
    <2>1. l \in 0..count - 1 /\ BlockSize(0) = 1
      BY <1>1, BlockSizes
    <2>2. Rebuild(a, eps, l, 0) = [root |-> RebuildLeaf(a, eps, l), mixed |-> <<>>]
      BY <1>3 DEF RebuildsFromLeaves
    <2>3. RebuildLeaf(a, eps, l) = r[<<l, 0>>]
      BY <1>2, <2>1 DEF Rebuildable
    <2>4. ASSUME NEW d \in Inside(l, 0), ActiveRange(eps, d[1], End(d)) PROVE Node(a, d) \in DOMAIN nodes
      <3>1. d = <<l, 0>>
        BY InsideLeaf
      <3>2. d[1] = l /\ End(d) = l + 1
        BY <2>1, <3>1 DEF End
      <3> QED
        BY <1>2, <2>1, <2>4, <3>1, <3>2 DEF Rebuildable
    <2>5. Rebuilt(a, eps, r, l, 0, [root |-> RebuildLeaf(a, eps, l), mixed |-> <<>>])
      <3> DEFINE root == RebuildLeaf(a, eps, l)
      <3>1. root = r[<<l, 0>>]
        BY <2>3
      <3> HIDE DEF root
      <3>2. Rebuilt(a, eps, r, l, 0, [root |-> root, mixed |-> <<>>])
        BY <2>4, <3>1, NothingMissing
      <3> QED
        BY <3>2 DEF root
    <2> QED
      BY <2>2, <2>5
  <1>6. ASSUME NEW h \in Nat, h \in S PROVE h + 1 \in S
    <2> SUFFICES ASSUME NEW l \in Nat, Whole(l, h + 1) PROVE Good(l, h + 1)
      OBVIOUS
    <2> DEFINE k == h + 1
               below == [j \in 1..Arity |-> Rebuild(a, eps, l + (j - 1) * BlockSize(h), h)]
               got == Rebuild(a, eps, l, k)
               b == <<l, k>>
    <2>1. got = RebuildStep(a, eps, l, k, below)
      BY <1>3 DEF RebuildsFromLeaves
    <2>2. k \in Nat /\ Multiple(l, BlockSize(k)) /\ l + BlockSize(k) <= count /\ Whole(l, k)
          /\ BlockSize(h) \in Nat /\ BlockSize(k) \in Nat
      <3>1. k \in Nat
        OBVIOUS
      <3> QED
        BY <3>1, BlockSizes
    <2>3. b \in Blocks(count) /\ End(b) = l + BlockSize(k) /\ b[1] = l /\ b[2] = k
          /\ Node(a, b) = <<a, l, k>>
      BY <1>4, <2>2 DEF Node
    <2>4. \A j \in 1..Arity : Rebuilt(a, eps, r, l + (j - 1) * BlockSize(h), h, below[j])
      <3> SUFFICES ASSUME NEW j \in 1..Arity PROVE Good(l + (j - 1) * BlockSize(h), h)
        OBVIOUS
      <3> DEFINE x == l + (j - 1) * BlockSize(h)
      <3>1. x \in Nat /\ x + BlockSize(h) <= l + BlockSize(k) /\ Multiple(x, BlockSize(h))
        BY <2>2, Children
      <3> HIDE DEF x, k
      <3>2. Whole(x, h)
        BY <1>1, <2>2, <3>1
      <3> HIDE DEF Whole, Good
      <3>3. Good(x, h)
        BY <1>6, <3>1, <3>2
      <3> QED
        BY <3>3 DEF x
    <2>5. below = [j \in 1..Arity |-> below[j]]
      OBVIOUS
    <2> HIDE DEF below
    <2>6. CASE ~ActiveRange(eps, l, l + BlockSize(k))
      <3>1. got = [root |-> Null(a), mixed |-> <<>>]
        BY <2>1, <2>6 DEF RebuildStep
      <3>2. Null(a) = r[<<l, k>>]
        BY <1>2, <2>3, <2>6 DEF Rebuildable
      <3>3. \A d \in Inside(l, k) : ActiveRange(eps, d[1], End(d)) => Node(a, d) \in DOMAIN nodes
        <4> SUFFICES ASSUME NEW d \in Inside(l, k), ActiveRange(eps, d[1], End(d)) PROVE FALSE
          OBVIOUS
        <4>1. d[1] \in Nat /\ End(d) \in Nat /\ l <= d[1] /\ End(d) <= l + BlockSize(k)
          BY CoordinateIsPair DEF Inside
        <4>2. eps \in Seq(Interval)
          BY StartAnother, SizeKnown
        <4> DEFINE e == l + BlockSize(k)
        <4>3. e \in Nat /\ ~ActiveRange(eps, l, e)
          BY <2>2, <2>6
        <4> HIDE DEF e
        <4>4. End(d) <= e
          BY <4>1 DEF e
        <4> QED
          BY <4>1, <4>2, <4>3, <4>4, Ranges
      <3>4. Rebuilt(a, eps, r, l, k, [root |-> Null(a), mixed |-> <<>>])
        <4> DEFINE root == Null(a)
        <4>1. root = r[<<l, k>>]
          BY <3>2
        <4> HIDE DEF root, k
        <4>2. Rebuilt(a, eps, r, l, k, [root |-> root, mixed |-> <<>>])
          BY <3>3, <4>1, NothingMissing
        <4> QED
          BY <4>2 DEF root
      <3> QED
        BY <3>1, <3>4
    <2>7. CASE /\ ActiveRange(eps, l, l + BlockSize(k))
               /\ FullyActive(eps, l, l + BlockSize(k)) /\ <<a, l, k>> \in DOMAIN nodes
      <3>1. got = [root |-> nodes[<<a, l, k>>], mixed |-> <<>>]
        BY <2>1, <2>7 DEF RebuildStep
      <3>2. Node(a, b) \in DOMAIN nodes
        BY <2>3, <2>7
      <3>3. nodes[<<a, l, k>>] = r[<<l, k>>]
        BY <1>2, <2>3, <3>2 DEF Rebuildable
      <3>4. \A d \in Inside(l, k) : ActiveRange(eps, d[1], End(d)) => Node(a, d) \in DOMAIN nodes
        BY <1>2, <2>3, <3>2 DEF Rebuildable
      <3>5. Rebuilt(a, eps, r, l, k, [root |-> nodes[<<a, l, k>>], mixed |-> <<>>])
        <4> DEFINE root == nodes[<<a, l, k>>]
        <4>1. root = r[<<l, k>>]
          BY <3>3
        <4> HIDE DEF root, k
        <4>2. Rebuilt(a, eps, r, l, k, [root |-> root, mixed |-> <<>>])
          BY <3>4, <4>1, NothingMissing
        <4> QED
          BY <4>2 DEF root
      <3> QED
        BY <3>1, <3>5
    <2>8. CASE /\ ActiveRange(eps, l, l + BlockSize(k))
               /\ ~(FullyActive(eps, l, l + BlockSize(k)) /\ <<a, l, k>> \in DOMAIN nodes)
      <3> DEFINE root == NaryMr(a, [j \in 1..Arity |-> below[j].root])
                 mixed == Over(Only(<<a, l, h + 1>>, root), Merged([j \in 1..Arity |-> below[j].mixed]))
      <3>1. got = [root |-> root, mixed |-> mixed]
        BY <2>1, <2>8 DEF RebuildStep
      <3>2. root = NaryMr(a, [j \in 1..Arity |-> below[j].root])
        OBVIOUS
      <3>3. mixed = Over(Only(<<a, l, h + 1>>, root), Merged([j \in 1..Arity |-> below[j].mixed]))
        OBVIOUS
      <3>4. Multiple(l, BlockSize(h + 1))
        BY <2>2
      <3> HIDE DEF root, mixed
      <3>5. Rebuilt(a, eps, r, l, h + 1, [root |-> root, mixed |-> mixed])
        BY <1>2, <2>4, <2>5, <3>2, <3>3, <3>4, MixedStep
      <3> QED
        BY <3>1, <3>5
    <2> QED
      BY <2>6, <2>7, <2>8
  <1> HIDE DEF S
  <1>7. \A h \in Nat : h \in S
    BY <1>5, <1>6, SetInduction
  <1>8. c[1] \in Nat /\ c[2] \in Nat /\ Multiple(c[1], BlockSize(c[2])) /\ c[1] + BlockSize(c[2]) <= count
    BY CoordinateIsPair DEF Blocks, End
  <1> QED
    BY <1>7, <1>8 DEF S, r

\* A sequence of blocks rebuilt.
AllRebuilt(a, eps, r, at, built) ==
  \A i \in 1..Len(at) : Rebuilt(a, eps, r, at[i][1], at[i][2], built[i])

\* What has to be stored of each.
MixedOf(fam, at, built) ==
  DOMAIN fam = 1..Len(at) /\ \A i \in 1..Len(at) : fam[i] = built[i].mixed

\* Nothing is stored but digests of blocks.
KeyedByBlocks(md) == \A x \in DOMAIN md : \E b \in Algs : \E c \in Coordinates : x = Node(b, c)

OthersAsBefore(md, nd, a) ==
  \A b \in Algs \ {a}, c \in Coordinates :
    /\ Node(b, c) \in DOMAIN md <=> Node(b, c) \in DOMAIN nd
    /\ Node(b, c) \in DOMAIN nd => md[Node(b, c)] = nd[Node(b, c)]

\* What a resumption stores of the blocks it rebuilt: the algorithm's blocks are
\* then held for the whole log, and no other algorithm's are touched.
LEMMA ResumeStores ==
  ASSUME LogTypeOK, NEW a \in Algs, NEW eps, NEW r, Held(nodes, a, epochs[a], Size(a), r),
         NEW at, Covers(at, 0, count), NEW built,
         AllRebuilt(a, eps, r, at, built), NEW fam, MixedOf(fam, at, built),
         NEW md, md = Over(Merged(fam), nodes)
  PROVE  /\ Held(md, a, eps, count, r) /\ OthersAsBefore(md, nodes, a)
         /\ KeyedByBlocks(nodes) => KeyedByBlocks(md)
  <1> DEFINE n == Size(a)
             new == Merged(fam)
             Peaked(i, c) == c \in Inside(at[i][1], at[i][2])
  <1>0. DOMAIN fam = 1..Len(at)
    BY DEF MixedOf
  <1>1. /\ count \in Nat /\ n \in Nat /\ n <= count
    BY SizeKnown
  <1>2. \A i \in 1..Len(at) : at[i] \in Blocks(count)
    BY <1>1, PeaksAreBlocks
  <1>3. \A i \in 1..Len(at) : /\ at[i] \in Coordinates /\ at[i][1] \in Nat /\ at[i][2] \in Nat
                              /\ End(at[i]) = at[i][1] + BlockSize(at[i][2])
                              /\ End(at[i]) \in Nat /\ End(at[i]) <= count
    BY <1>2, CoordinateIsPair DEF Blocks, End
  <1>4. /\ \A i \in 1..Len(at) : \A x \in DOMAIN fam[i] :
             \E c \in Inside(at[i][1], at[i][2]) : x = Node(a, c) /\ fam[i][x] = r[c]
        /\ \A i \in 1..Len(at) : \A c \in Inside(at[i][1], at[i][2]) :
             ActiveRange(eps, c[1], End(c)) /\ Node(a, c) \notin DOMAIN nodes
               => Node(a, c) \in DOMAIN fam[i]
    <2> SUFFICES ASSUME NEW i \in 1..Len(at)
                 PROVE  /\ \A x \in DOMAIN fam[i] :
                             \E c \in Inside(at[i][1], at[i][2]) : x = Node(a, c) /\ fam[i][x] = r[c]
                        /\ \A c \in Inside(at[i][1], at[i][2]) :
                             ActiveRange(eps, c[1], End(c)) /\ Node(a, c) \notin DOMAIN nodes
                               => Node(a, c) \in DOMAIN fam[i]
      OBVIOUS
    <2>1. Rebuilt(a, eps, r, at[i][1], at[i][2], built[i]) /\ fam[i] = built[i].mixed
      BY DEF AllRebuilt, MixedOf
    <2> QED
      BY <2>1 DEF Rebuilt
  <1>5. ASSUME NEW i \in 1..Len(at), NEW c \in Inside(at[i][1], at[i][2])
        PROVE  c \in Blocks(count) /\ c \in Coordinates
    <2>1. c \in Coordinates /\ Multiple(c[1], BlockSize(c[2])) /\ End(c) <= End(at[i])
      BY <1>3 DEF Inside
    <2>2. End(c) <= count
      BY <1>1, <1>3, <2>1, CoordinateIsPair
    <2> QED
      BY <2>1, <2>2 DEF Blocks
  <1> HIDE DEF n, new
  <1>6. ASSUME NEW i \in 1..Len(at), NEW x \in DOMAIN fam[i]
        PROVE  /\ x \in DOMAIN new
               /\ \E c \in Blocks(count) : x = Node(a, c) /\ new[x] = r[c]
    <2>1. PICK c \in Inside(at[i][1], at[i][2]) : x = Node(a, c) /\ fam[i][x] = r[c]
      BY <1>4, <1>6
    <2>2. ASSUME NEW k \in DOMAIN fam, x \in DOMAIN fam[k] PROVE fam[k][x] = r[c]
      <3>1. k \in 1..Len(at)
        BY <1>0
      <3>2. PICK d \in Inside(at[k][1], at[k][2]) : x = Node(a, d) /\ fam[k][x] = r[d]
        BY <1>4, <2>2, <3>1
      <3>3. c \in Coordinates /\ d \in Coordinates
        BY <1>5, <3>1
      <3>4. Node(a, c) = Node(a, d)
        BY <2>1, <3>2
      <3>5. c = d
        BY <3>3, <3>4, NodeIsKey
      <3> QED
        BY <3>2, <3>5
    <2>3. Agreeing(fam, x)
      BY <2>2 DEF Agreeing
    <2>4. i \in DOMAIN fam /\ x \in DOMAIN fam[i]
      BY <1>0
    <2>5. x \in DOMAIN new /\ new[x] = fam[i][x]
      BY <2>3, <2>4, MergedIs DEF new
    <2> QED
      BY <1>5, <2>1, <2>5
  <1>7. ASSUME NEW x \in DOMAIN new
        PROVE  \E c \in Blocks(count) : x = Node(a, c) /\ new[x] = r[c]
    <2>1. PICK i \in DOMAIN fam : x \in DOMAIN fam[i]
      BY MergedOnly DEF new
    <2> QED
      BY <1>0, <1>6, <2>1
  <1>8. \A x : /\ x \in DOMAIN md <=> x \in DOMAIN new \/ x \in DOMAIN nodes
               /\ x \in DOMAIN new => md[x] = new[x]
               /\ x \in DOMAIN nodes /\ x \notin DOMAIN new => md[x] = nodes[x]
    BY OverHas DEF new
  <1>9. \A m \in Nat : Blocks(m) \subseteq Coordinates
    BY DEF Blocks
  <1>10. ASSUME NEW c \in Coordinates, Node(a, c) \in DOMAIN md
         PROVE  c \in Blocks(count) /\ md[Node(a, c)] = r[c]
    <2>1. CASE Node(a, c) \in DOMAIN new
      <3>1. PICK d \in Blocks(count) : Node(a, c) = Node(a, d) /\ new[Node(a, c)] = r[d]
        BY <1>7, <2>1
      <3>2. d \in Coordinates
        BY <1>1, <1>9
      <3>3. c = d
        BY <3>1, <3>2, NodeIsKey
      <3> QED
        BY <1>8, <2>1, <3>1, <3>3
    <2>2. CASE Node(a, c) \notin DOMAIN new
      <3>1. Node(a, c) \in DOMAIN nodes /\ md[Node(a, c)] = nodes[Node(a, c)]
        BY <1>8, <1>10, <2>2
      <3>2. c \in Blocks(n) /\ nodes[Node(a, c)] = r[c]
        BY <3>1 DEF Held, n
      <3> QED
        BY <1>1, <3>1, <3>2, BlocksGrow
    <2> QED
      BY <2>1, <2>2
  <1>11. ASSUME NEW c \in Blocks(count), ActiveRange(eps, c[1], End(c))
         PROVE  Node(a, c) \in DOMAIN md
    <2> DEFINE l == c[1]
               h == c[2]
    <2>1. c \in Coordinates /\ l \in Nat /\ h \in Nat /\ Multiple(l, BlockSize(h))
          /\ l + BlockSize(h) <= count /\ End(c) = l + BlockSize(h)
      BY CoordinateIsPair DEF Blocks, End
    <2> HIDE DEF l, h
    <2>2. PICK i \in 1..Len(at) : at[i][1] <= l /\ l + BlockSize(h) <= End(at[i])
      BY <1>1, <2>1, UnderPeak
    <2>3. c \in Inside(at[i][1], at[i][2])
      BY <1>3, <2>1, <2>2 DEF Inside, l, h
    <2>4. Node(a, c) \in DOMAIN nodes \/ Node(a, c) \in DOMAIN fam[i]
      BY <1>4, <1>11, <2>3
    <2> QED
      BY <1>6, <1>8, <2>4
  <1>12. Held(md, a, eps, count, r)
    BY <1>10, <1>11 DEF Held
  <1>13. ASSUME KeyedByBlocks(nodes), NEW x \in DOMAIN md
         PROVE  \E b \in Algs : \E c \in Coordinates : x = Node(b, c)
    <2>1. CASE x \in DOMAIN new
      BY <1>1, <1>7, <1>9, <2>1
    <2>2. CASE x \in DOMAIN nodes
      BY <1>13, <2>2 DEF KeyedByBlocks
    <2> QED
      BY <1>8, <2>1, <2>2
  <1>14. ASSUME NEW b \in Algs \ {a}, NEW c \in Coordinates
         PROVE  /\ Node(b, c) \in DOMAIN md <=> Node(b, c) \in DOMAIN nodes
                /\ Node(b, c) \in DOMAIN nodes => md[Node(b, c)] = nodes[Node(b, c)]
    <2>1. Node(b, c) \notin DOMAIN new
      <3> SUFFICES ASSUME Node(b, c) \in DOMAIN new PROVE FALSE
        OBVIOUS
      <3>1. PICK d \in Blocks(count) : Node(b, c) = Node(a, d)
        BY <1>7
      <3>2. d \in Coordinates
        BY <1>1, <1>9
      <3> QED
        BY <3>1, <3>2, NodeIsKey
    <2> QED
      BY <1>8, <2>1
  <1> QED
    BY <1>12, <1>13, <1>14 DEF KeyedByBlocks, OthersAsBefore

\* resume_algorithm: the rebuilt peaks are the reference's, and with the mixed nodes
\* the store is complete for the whole log.
LEMMA ResumeKeeps ==
  ASSUME LogInv, NEW a \in Algs, ResumeAlgorithm(a)
  PROVE  LogInv'
  <1> DEFINE eps == Resumed(epochs[a], count)
             at == FrontierForSize(count)
             built == [i \in DOMAIN at |-> Rebuild(a, eps, at[i][1], at[i][2])]
             fam == [i \in DOMAIN at |-> built[i].mixed]
             r == Ref(a)
  <1>1. LogTypeOK /\ StoreKept /\ epochs[a] # <<>> /\ ~IsActive(epochs[a])
    BY DEF LogInv, ResumeAlgorithm, Registered
  <1>2. /\ count \in Nat /\ count < Open /\ epochs[a] \in Seq(Interval)
        /\ TreeSize(eps, count) = count
    BY <1>1, SizeKnown
  <1>3. eps \in Seq(Interval) /\ ValidEpochs(eps, count)
    BY <1>1, <1>2, StartAnother, ResumeValid DEF LogTypeOK, Registered
  <1>4. /\ epochs' = [epochs EXCEPT ![a] = eps] /\ metas' = [metas EXCEPT ![a] = eps]
        /\ coords' = [coords EXCEPT ![a] = at]
        /\ frontier' = [frontier EXCEPT ![a] = [i \in DOMAIN at |-> built[i].root]]
        /\ nodes' = Over(Merged(fam), nodes)
        /\ UNCHANGED <<count, kind, storedCount, leaves, observers>>
    BY DEF ResumeAlgorithm, SetEpochs, Resumed
  <1>5. Covers(at, 0, count) /\ DOMAIN at = 1..Len(at)
    <2>1. Covers(at, 0, count)
      BY <1>2, FrontierCovers
    <2> QED
      BY <2>1 DEF Covers
  <1> HIDE DEF at
  <1>6. \A i \in 1..Len(at) : built[i] = Rebuild(a, eps, at[i][1], at[i][2]) /\ fam[i] = built[i].mixed
    BY <1>5
  <1>7. DOMAIN fam = 1..Len(at)
    BY <1>5
  <1>8. [i \in DOMAIN at |-> built[i].root] = [i \in 1..Len(at) |-> built[i].root]
    BY <1>5
  <1> HIDE DEF built, fam
  <1>9. ASSUME NEW i \in 1..Len(at)
        PROVE  Rebuilt(a, eps, r, at[i][1], at[i][2], built[i]) /\ built[i].root = r[at[i]]
    <2> DEFINE c == at[i]
    <2>1. c \in Blocks(count)
      BY <1>2, <1>5, PeaksAreBlocks
    <2>2. built[i] = Rebuild(a, eps, c[1], c[2])
      BY <1>6
    <2> HIDE DEF c
    <2>3. eps = Resumed(epochs[a], count)
      OBVIOUS
    <2> HIDE DEF eps
    <2>4. Rebuilt(a, eps, Ref(a), c[1], c[2], built[i])
      <3>1. HistoryKept /\ Held(nodes, a, epochs[a], Size(a), Ref(a))
        BY <1>1 DEF LogInv, StoreKept
      <3> QED
        BY <1>1, <2>1, <2>2, <2>3, <3>1, RebuildIs
    <2>5. c = <<c[1], c[2]>>
      BY <2>1, CoordinateIsPair DEF Blocks
    <2> QED
      BY <2>4, <2>5 DEF Rebuilt, c
  <1>10. Held(nodes, a, epochs[a], Size(a), r)
    BY <1>1 DEF StoreKept
  <1>11. frontier' = [frontier EXCEPT ![a] = PeaksOf(Ref(a), count)]
    <2>1. [i \in 1..Len(at) |-> built[i].root] = [i \in 1..Len(at) |-> r[at[i]]]
      BY <1>9
    <2> QED
      BY <1>4, <1>8, <2>1 DEF PeaksOf, at
  <1> HIDE DEF r
  <1>12. /\ Held(nodes', a, eps, count, r)
         /\ \A x \in DOMAIN nodes' : \E b \in Algs : \E c \in Coordinates : x = Node(b, c)
         /\ \A b \in Algs \ {a}, c \in Coordinates :
              /\ Node(b, c) \in DOMAIN nodes' <=> Node(b, c) \in DOMAIN nodes
              /\ Node(b, c) \in DOMAIN nodes => nodes'[Node(b, c)] = nodes[Node(b, c)]
    <2> HIDE DEF eps
    <2>1. AllRebuilt(a, eps, r, at, built)
      BY <1>9 DEF AllRebuilt
    <2>2. MixedOf(fam, at, built)
      BY <1>6, <1>7 DEF MixedOf
    <2>3. nodes' = Over(Merged(fam), nodes)
      BY <1>4
    <2>5. KeyedByBlocks(nodes)
      BY <1>1 DEF KeyedByBlocks, StoreKept
    <2>4. Held(nodes', a, eps, count, r) /\ KeyedByBlocks(nodes') /\ OthersAsBefore(nodes', nodes, a)
      BY <1>1, <1>5, <1>10, <2>1, <2>2, <2>3, <2>5, ResumeStores
    <2> QED
      BY <2>4 DEF KeyedByBlocks, OthersAsBefore
  <1>13. \A i \in 0..count - 1 : IsActiveAt(eps, i) <=> IsActiveAt(epochs[a], i)
    BY <1>2, ResumeActivity
  <1>14. \A m \in 0..count - 1 : EpochsAt(eps, m) = EpochsAt(epochs[a], m)
    BY <1>2, ResumeCommitted
  <1>15. coords' = [coords EXCEPT ![a] = FrontierForSize(count)]
    BY <1>4 DEF at
  <1>16. Held(nodes', a, eps, count, Ref(a))
    BY <1>12 DEF r
  <1> HIDE DEF eps
  <1> QED
    BY <1>2, <1>3, <1>4, <1>11, <1>12, <1>13, <1>14, <1>15, <1>16, OneAlgorithmChanges

-----------------------------------------------------------------------------
(* An append *)

\* What an append with item at the log's end does to the references: they stay
\* below, and those of the active algorithms gain the item's digest.
Appends(item) ==
  /\ count < MaxCount /\ item \in Offer[count + 1]
  /\ count' = count + 1 /\ epochs' = epochs /\ history' = Append(history, item)

\* The references of a log and of the log with one more item.
LEMMA AppendLeavesBelow ==
  ASSUME LogTypeOK, HistoryKept, NoNullItems, NEW item, Appends(item), NEW a \in Algs
  PROVE  /\ SameBelow(Ref(a), Ref(a)', count)
         /\ item \in Seq(STRING)
         /\ IsActive(epochs[a]) => /\ Ref(a)'[<<count, 0>>] = Evaluate(a, item)
                                   /\ Evaluate(a, item) # Null(a)
  <1>1. LogTypeOK /\ HistoryKept
    OBVIOUS
  <1>2. count \in Nat /\ Len(history) = count /\ history \in Seq(Seq(STRING))
    BY <1>1, SizeKnown DEF HistoryKept
  <1>3. item \in Seq(STRING)
    <2>1. count + 1 \in 1..MaxCount
      BY <1>2, LogAssumption DEF Appends
    <2> QED
      BY <2>1, LogAssumption DEF Appends
  <1>4. /\ \A i \in 1..count : history'[i] = history[i]
        /\ history'[count + 1] = item
    BY <1>2, <1>3 DEF Appends
  <1>5. SameBelow(Ref(a), Ref(a)', count)
    <2>1. \A i \in 0..count - 1 : i + 1 \in 1..count
      BY <1>2
    <2>2. \A i \in 0..count - 1 : /\ IsActiveAt(epochs'[a], i) <=> IsActiveAt(epochs[a], i)
                                  /\ history'[i + 1] = history[i + 1]
      BY <1>4, <2>1 DEF Appends
    <2> QED
      BY <1>2, <2>2, ReferencesAgree
  <1>6. ASSUME IsActive(epochs[a])
        PROVE  Ref(a)'[<<count, 0>>] = Evaluate(a, item) /\ Evaluate(a, item) # Null(a)
    <2>1. IsActiveAt(epochs[a], count)
      BY <1>1, <1>6, SizeKnown
    <2>2. \A i \in Nat : Ref(a)'[<<i, 0>>] = IF IsActiveAt(epochs'[a], i)
                                             THEN Evaluate(a, history'[i + 1]) ELSE Null(a)
      <3>1. \A i \in Nat : Ref(a)'[<<i, 0>>] = ReferenceLeaf(a, i)'
        BY References
      <3> QED
        BY <3>1 DEF ReferenceLeaf
    <2>3. Ref(a)'[<<count, 0>>] = Evaluate(a, item)
      <3> DEFINE r == Ref(a)'
      <3>1. \A i \in Nat : r[<<i, 0>>] = IF IsActiveAt(epochs'[a], i)
                                         THEN Evaluate(a, history'[i + 1]) ELSE Null(a)
        BY <2>2
      <3> HIDE DEF r
      <3>2. r[<<count, 0>>] = Evaluate(a, item)
        BY <1>2, <1>4, <2>1, <3>1 DEF Appends
      <3> QED
        BY <3>2 DEF r
    <2>4. item = <<>> \/ \E j \in DOMAIN item : item[j] # NullPayload
      <3>1. count + 1 \in 1..MaxCount
        BY <1>2, LogAssumption DEF Appends
      <3> QED
        BY <3>1 DEF NoNullItems, Appends
    <2> QED
      BY <1>3, <2>3, <2>4, Evaluated
  <1> QED
    BY <1>3, <1>5, <1>6

\* The carry of an append makes the new peaks, and what it stores are the blocks
\* that end with the new position.
LEMMA CarryIs ==
  ASSUME LogTypeOK, HistoryKept, NoNullItems, NEW item, Appends(item),
         NEW a \in Algs, IsActive(epochs[a]),
         coords[a] = FrontierForSize(count), frontier[a] = PeaksOf(Ref(a), count),
         NEW s, s = Carry(a, frontier[a], coords[a], count, Evaluate(a, item))
  PROVE  /\ s.at = FrontierForSize(count + 1)
         /\ s.peaks = PeaksOf(Ref(a)', count + 1)
         /\ Persisted(s.made) = MadeOf(a, count, Ref(a)')
  <1> DEFINE r == Ref(a)
             q == Ref(a)'
             at == FrontierForSize(count)
             peaks == frontier[a]
             m == ReductionCount(count)
             digest == Evaluate(a, item)
             n == count + 1
  <1>2. count \in Nat /\ Size(a) = count /\ n \in Nat
    BY SizeKnown
  <1>3. coords[a] = at /\ peaks = PeaksOf(r, count)
    OBVIOUS
  <1>4. TreeOf(a, r) /\ TreeOf(a, q)
    BY References
  <1>5. SameBelow(r, q, count) /\ q[<<count, 0>>] = digest /\ digest # Null(a)
    BY AppendLeavesBelow
  <1>6. s = Push(a, peaks, at, count, count, digest)
    BY <1>3 DEF Carry
  <1> HIDE DEF r, q, peaks, digest
  <1>8. peaks = PeaksOf(q, count)
    <2>1. count \in 0..count
      BY <1>2
    <2> QED
      BY <1>2, <1>3, <1>4, <1>5, <2>1, PeaksAgree
  <1>10. s = Push(a, peaks, at, count, count, q[<<count, 0>>])
    BY <1>5, <1>6
  <1> HIDE DEF at, n
  <1>9. DigestsOf(peaks, q, at) /\ Covers(at, 0, count)
    BY <1>2, <1>8, FrontierCovers DEF PeaksOf, DigestsOf, at
  <1>11. /\ s.at = FrontierForSize(count + 1)
         /\ s.peaks = PeaksOf(q, count + 1)
         /\ s.made = MadeOf(a, count, q)
    BY <1>2, <1>4, <1>8, <1>9, <1>10, PushBuilds
  <1>13. \A j \in 0..m : <<count + 1 - BlockSize(j), j>> \in Coordinates
    BY <1>2, NewBlocks DEF Blocks
  <1>14. m \in Nat
    BY <1>2, Reductions
  <1> DEFINE made == s.made
  <1>15. made = [x \in EndingAt(a, count, m) |-> q[<<x[2], x[3]>>]] /\ q[<<count, 0>>] # Null(a)
    BY <1>5, <1>11 DEF MadeOf
  <1> HIDE DEF made, m
  <1>16. Persisted(made) = made
    BY <1>2, <1>4, <1>13, <1>14, <1>15, AllPersisted
  <1> QED
    BY <1>11, <1>15, <1>16 DEF made, q

\* What an append adds to the store: of each active algorithm the blocks that end
\* with the new position, of the others nothing.
AddsMade(fam, active, md) ==
  /\ DOMAIN fam = active
  /\ \A a \in active : fam[a] = MadeOf(a, count, Ref(a)')
  /\ md = Over(Merged(fam), nodes)

\* Of algorithm a the store gained what the carry made.
FromMade(md, a) ==
  \A c \in Coordinates :
    /\ Node(a, c) \in DOMAIN md <=>
         Node(a, c) \in DOMAIN MadeOf(a, count, Ref(a)') \/ Node(a, c) \in DOMAIN nodes
    /\ Node(a, c) \in DOMAIN md =>
         md[Node(a, c)] = IF Node(a, c) \in DOMAIN MadeOf(a, count, Ref(a)')
                          THEN MadeOf(a, count, Ref(a)')[Node(a, c)] ELSE nodes[Node(a, c)]

\* Of algorithm a the store is as it was.
SameNodes(md, a) ==
  \A c \in Coordinates :
    /\ Node(a, c) \in DOMAIN md <=> Node(a, c) \in DOMAIN nodes
    /\ Node(a, c) \in DOMAIN nodes => md[Node(a, c)] = nodes[Node(a, c)]

\* The digests two algorithms make have different keys.
LEMMA AppendStores ==
  ASSUME LogInv, NEW active \in SUBSET Algs, NEW fam, NEW md, AddsMade(fam, active, md)
  PROVE  /\ KeyedByBlocks(md)
         /\ \A a \in active : FromMade(md, a)
         /\ \A a \in Algs \ active : SameNodes(md, a)
  <1> DEFINE new == Merged(fam)
             made(a) == MadeOf(a, count, Ref(a)')
  <1>1. DOMAIN fam = active /\ \A a \in active : fam[a] = made(a)
    BY DEF AddsMade
  <1>2. \A x : /\ x \in DOMAIN md <=> x \in DOMAIN new \/ x \in DOMAIN nodes
               /\ x \in DOMAIN new => md[x] = new[x]
               /\ x \in DOMAIN nodes /\ x \notin DOMAIN new => md[x] = nodes[x]
    BY OverHas DEF AddsMade
  <1>3. \A a : \A x \in DOMAIN made(a) : x[1] = a
    BY DEF MadeOf, EndingAt
  <1>4. count \in Nat
    BY LogAssumption DEF LogInv, LogTypeOK
  <1>5. \A a : \A x \in DOMAIN made(a) : \E c \in Coordinates : x = Node(a, c)
    <2> SUFFICES ASSUME NEW a, NEW x \in DOMAIN made(a) PROVE \E c \in Coordinates : x = Node(a, c)
      OBVIOUS
    <2>1. PICK j \in 0..ReductionCount(count) : x = <<a, count + 1 - BlockSize(j), j>>
      BY DEF MadeOf, EndingAt
    <2> DEFINE c == <<count + 1 - BlockSize(j), j>>
    <2>2. c \in Coordinates
      BY <1>4, NewBlocks DEF Blocks
    <2>3. x = Node(a, c)
      BY <2>1 DEF Node
    <2> QED
      BY <2>2, <2>3
  <1> HIDE DEF new, made
  <1>6. ASSUME NEW x, NEW a \in active, x[1] = a
        PROVE  /\ x \in DOMAIN new <=> x \in DOMAIN made(a)
               /\ x \in DOMAIN new => new[x] = made(a)[x]
    <2>1. ASSUME NEW b \in DOMAIN fam, x \in DOMAIN fam[b] PROVE b = a
      <3>1. b \in active /\ fam[b] = made(b)
        BY <1>1
      <3> QED
        BY <1>3, <1>6, <2>1, <3>1
    <2>2. Agreeing(fam, x)
      BY <2>1 DEF Agreeing
    <2>3. a \in DOMAIN fam /\ fam[a] = made(a)
      BY <1>1
    <2>4. ASSUME x \in DOMAIN made(a) PROVE x \in DOMAIN new /\ new[x] = made(a)[x]
      <3>1. x \in DOMAIN fam[a]
        BY <2>3, <2>4
      <3>2. x \in DOMAIN new /\ new[x] = fam[a][x]
        BY <2>2, <2>3, <3>1, MergedIs DEF new
      <3> QED
        BY <2>3, <3>2
    <2>5. ASSUME x \in DOMAIN new PROVE x \in DOMAIN made(a)
      <3>1. PICK b \in DOMAIN fam : x \in DOMAIN fam[b]
        BY <2>5, MergedOnly DEF new
      <3>2. b = a
        BY <2>1, <3>1
      <3> QED
        BY <2>3, <3>1, <3>2
    <2> QED
      BY <2>4, <2>5
  <1>7. ASSUME NEW x \in DOMAIN new PROVE \E a \in active : x \in DOMAIN made(a) /\ x[1] = a
    <2>1. PICK b \in DOMAIN fam : x \in DOMAIN fam[b]
      BY MergedOnly DEF new
    <2> QED
      BY <1>1, <1>3, <2>1
  <1>8. KeyedByBlocks(md)
    <2> SUFFICES ASSUME NEW x \in DOMAIN md PROVE \E b \in Algs : \E c \in Coordinates : x = Node(b, c)
      BY DEF KeyedByBlocks
    <2>1. CASE x \in DOMAIN new
      BY <1>5, <1>7, <2>1
    <2>2. CASE x \in DOMAIN nodes
      BY <2>2 DEF LogInv, StoreKept
    <2> QED
      BY <1>2, <2>1, <2>2
  <1>9. ASSUME NEW a \in active PROVE FromMade(md, a)
    <2> SUFFICES ASSUME NEW c \in Coordinates
                 PROVE  /\ Node(a, c) \in DOMAIN md <=>
                             Node(a, c) \in DOMAIN made(a) \/ Node(a, c) \in DOMAIN nodes
                        /\ Node(a, c) \in DOMAIN md =>
                             md[Node(a, c)] = IF Node(a, c) \in DOMAIN made(a)
                                              THEN made(a)[Node(a, c)] ELSE nodes[Node(a, c)]
      BY DEF FromMade, made
    <2> DEFINE x == Node(a, c)
    <2>1. x[1] = a
      BY DEF Node
    <2> HIDE DEF x
    <2>2. /\ x \in DOMAIN new <=> x \in DOMAIN made(a)
          /\ x \in DOMAIN new => new[x] = made(a)[x]
      BY <1>6, <2>1
    <2> QED
      BY <1>2, <2>2 DEF x
  <1>10. ASSUME NEW a \in Algs \ active PROVE SameNodes(md, a)
    <2> SUFFICES ASSUME NEW c \in Coordinates PROVE Node(a, c) \notin DOMAIN new
      BY <1>2 DEF SameNodes
    <2>1. Node(a, c)[1] = a
      BY DEF Node
    <2> QED
      BY <1>7, <2>1
  <1> QED
    BY <1>8, <1>9, <1>10

\* Every size the log outgrows it last showed by the reference.
LEMMA OutgrownGrows ==
  ASSUME LogInv, NoNullItems, NEW item, Appends(item),
         outgrown' = Append(outgrown, [a \in ActiveAlgsAt(count) |-> LiveCombinedRoot(a)])
  PROVE  OutgrownKept'
  <1>1. LogTypeOK /\ FrontierKept /\ OutgrownKept
    BY DEF LogInv
  <1>2. count \in Nat /\ count' = count + 1 /\ epochs' = epochs
    BY <1>1, LogAssumption DEF LogTypeOK, Appends
  <1> DEFINE shown == [a \in ActiveAlgsAt(count) |-> LiveCombinedRoot(a)]
             n == count + 1
  <1>3. /\ outgrown' = [i \in 1..n |-> IF i <= count THEN outgrown[i] ELSE shown]
        /\ \A i \in 1..count : outgrown'[i] = outgrown[i]
        /\ outgrown'[n] = shown
    <2> HIDE DEF shown
    <2>1. outgrown' = Append(outgrown, shown) /\ outgrown = [i \in 1..count |-> outgrown[i]]
      BY <1>1 DEF OutgrownKept, shown
    <2>2. outgrown' = [i \in 1..n |-> IF i <= count THEN outgrown[i] ELSE shown]
      BY <1>2, <2>1, AppendIs
    <2>3. \A i \in 1..count : i \in 1..n /\ i <= count
      BY <1>2
    <2>4. n \in 1..n /\ ~(n <= count)
      BY <1>2
    <2> QED
      BY <2>2, <2>3, <2>4
  <1>4. ASSUME NEW size \in 1..count PROVE Shown(size)' = Shown(size)
    <2>1. ASSUME NEW a \in Algs PROVE SameBelow(Ref(a), Ref(a)', size)
      <3>1. SameBelow(Ref(a), Ref(a)', count)
        BY <1>1, AppendLeavesBelow DEF LogInv
      <3>2. \A i \in 0..size - 1 : i \in 0..count - 1
        BY <1>2
      <3> QED
        BY <3>1, <3>2 DEF SameBelow
    <2>2. \A a \in Algs : /\ IsActiveAt(epochs'[a], size - 1) <=> IsActiveAt(epochs[a], size - 1)
                          /\ EpochsAt(epochs'[a], size) = EpochsAt(epochs[a], size)
      BY <1>2
    <2> QED
      BY <1>1, <2>1, <2>2, ShownAlike
  <1>5. ASSUME count >= 1 PROVE shown = Shown(count)
    <2>1. ASSUME NEW b \in ActiveAlgsAt(count) PROVE RootFor(b) = RootAt(b, count)
      <3>1. b \in Algs /\ IsActiveAt(epochs[b], count - 1)
        BY DEF ActiveAlgsAt
      <3>2. Size(b) = count
        <4>1. count - 1 \in 0..count - 1
          BY <1>2, <1>5
        <4>2. Size(b) \in 0..count /\ count - 1 < Size(b)
          BY <1>1, <3>1, <4>1, SizeKnown
        <4> QED
          BY <1>2, <4>2
      <3>3. frontier[b] = PeaksOf(Ref(b), count)
        BY <1>1, <3>1, <3>2 DEF FrontierKept
      <3> QED
        BY <3>3 DEF RootFor, RootAt
    <2>2. [b \in ActiveAlgsAt(count) |-> RootFor(b)] = [b \in ActiveAlgsAt(count) |-> RootAt(b, count)]
      BY <2>1
    <2>3. count # 0
      BY <1>2, <1>5
    <2> DEFINE u == [b \in ActiveAlgsAt(count) |-> RootFor(b)]
               v == [b \in ActiveAlgsAt(count) |-> RootAt(b, count)]
    <2>4. u = v
      BY <2>2
    <2>5. \A a : LiveCombinedRoot(a) = CombinedRoot(a, u, CommittedEpochsAt(count), count)
      BY <2>3 DEF LiveCombinedRoot
    <2>6. Shown(count) = [a \in ActiveAlgsAt(count) |-> CombinedRoot(a, v, CommittedEpochsAt(count), count)]
      BY DEF Shown
    <2> HIDE DEF u, v
    <2> QED
      BY <2>4, <2>5, <2>6
  <1> HIDE DEF shown
  <1>6. ASSUME NEW size \in 1..count PROVE outgrown'[size + 1] = Shown(size)'
    <2>1. CASE size = count
      <3>1. count >= 1
        BY <1>2
      <3>2. outgrown'[count + 1] = Shown(count)
        BY <1>3, <1>5, <3>1
      <3> QED
        BY <1>4, <2>1, <3>2
    <2>2. CASE size # count
      <3>1. size \in 1..count - 1 /\ size + 1 \in 1..count
        BY <1>2, <2>2
      <3>2. outgrown[size + 1] = Shown(size)
        BY <1>1, <3>1 DEF OutgrownKept
      <3> QED
        BY <1>3, <1>4, <3>1, <3>2
    <2> QED
      BY <2>1, <2>2
  <1>7. outgrown' = [i \in 1..count' |-> outgrown'[i]]
    <2>1. DOMAIN outgrown' = 1..n
      BY <1>3
    <2>2. outgrown' = [i \in DOMAIN outgrown' |-> outgrown'[i]]
      BY <1>3
    <2>3. DOMAIN outgrown' = 1..count'
      BY <1>2, <2>1
    <2> QED
      BY <2>2, <2>3
  <1>8. count' - 1 = count
    BY <1>2
  <1> QED
    BY <1>6, <1>7, <1>8 DEF OutgrownKept

\* An append keeps the types, and the history it grows.
LEMMA AppendBasics ==
  ASSUME LogTypeOK, StoreMirrorsHandle, HistoryKept, NoNullItems, AppendLeaf \/ AppendSubtree
  PROVE  LogTypeOK' /\ StoreMirrorsHandle' /\ HistoryKept'
  <1>1. PICK item \in Offer[count + 1] : AppendItem(item) /\ (AppendLeaf => leaves' = Append(leaves, item))
    <2>1. CASE AppendLeaf
      BY <2>1 DEF AppendLeaf
    <2>2. CASE AppendSubtree /\ ~AppendLeaf
      BY <2>2 DEF AppendSubtree
    <2> QED
      BY <2>1, <2>2
  <1>2. /\ \E f, g : frontier' = [a \in Algs |-> f[a]] /\ coords' = [a \in Algs |-> g[a]]
        /\ storedCount' = count + 1 /\ count' = count + 1
        /\ history' = Append(history, item)
        /\ UNCHANGED <<epochs, metas>>
    <2> DEFINE active == {a \in Algs : IsActive(epochs[a])}
               carried == [a \in active |-> Carry(a, frontier[a], coords[a], count,
                             IF IsActiveAt(epochs[a], count) THEN Evaluate(a, item) ELSE Null(a))]
               f == [a \in Algs |-> IF a \in active THEN carried[a].peaks ELSE frontier[a]]
               g == [a \in Algs |-> IF a \in active THEN carried[a].at ELSE coords[a]]
    <2>1. frontier' = f /\ coords' = g
      BY <1>1 DEF AppendItem
    <2>2. f = [a \in Algs |-> f[a]] /\ g = [a \in Algs |-> g[a]]
      OBVIOUS
    <2> HIDE DEF f, g
    <2> QED
      BY <1>1, <2>1, <2>2 DEF AppendItem
  <1>3. LogTypeOK /\ StoreMirrorsHandle /\ HistoryKept
    OBVIOUS
  <1>4. count < MaxCount /\ count \in Nat /\ MaxCount \in Nat
    BY <1>3, LogAssumption DEF AppendLeaf, AppendSubtree, LogTypeOK
  <1>5. Appends(item)
    BY <1>1, <1>2, <1>4 DEF Appends
  <1>11. LogTypeOK'
    <2>1. count' \in 0..MaxCount
      BY <1>2, <1>4
    <2>2. kind' \in {"flat", "subtree"}
      BY DEF AppendLeaf, AppendSubtree
    <2>3. \A a \in Algs : Registered(a)' => ValidEpochs(epochs'[a], count')
      BY <1>2, <1>3, <1>4, GrowKeeps DEF LogTypeOK, Registered
    <2>4. frontier' = [a \in Algs |-> frontier'[a]] /\ coords' = [a \in Algs |-> coords'[a]]
      BY <1>2
    <2> QED
      BY <1>2, <1>3, <2>1, <2>2, <2>3, <2>4 DEF LogTypeOK
  <1>12. StoreMirrorsHandle'
    BY <1>2, <1>3 DEF StoreMirrorsHandle
  <1>13. HistoryKept'
    <2>1. item \in Seq(STRING) /\ Genesis \in Algs
      BY <1>3, <1>5, LogAssumption, AppendLeavesBelow
    <2>2. history \in Seq(Seq(STRING)) /\ Len(history) = count
          /\ leaves = IF kind = "flat" THEN history ELSE <<>>
      BY <1>3 DEF HistoryKept
    <2>3. /\ history' \in Seq(Seq(STRING)) /\ Len(history') = count'
          /\ history'[count'] = item /\ \A i \in 1..count : history'[i] = history[i]
      BY <1>2, <2>1, <2>2
    <2>4. \A i \in 1..count' : history'[i] \in Offer[i]
      <3> SUFFICES ASSUME NEW i \in 1..count + 1 PROVE history'[i] \in Offer[i]
        BY <1>2
      <3>1. i \in 1..count \/ i = count + 1
        BY <1>4
      <3> QED
        BY <1>1, <1>2, <1>3, <2>3, <3>1 DEF HistoryKept
    <2>5. count = 0 => history = <<>>
      BY <2>2
    <2>6. leaves' = IF kind' = "flat" THEN history' ELSE <<>>
      <3>1. CASE AppendLeaf
        <4>1. (count > 0 => kind = "flat") /\ kind' = "flat" /\ leaves' = Append(leaves, item)
          BY <1>1, <3>1 DEF AppendLeaf
        <4>2. leaves = history
          BY <1>4, <2>2, <2>5, <4>1
        <4> QED
          BY <1>2, <4>1, <4>2
      <3>2. CASE AppendSubtree
        <4>1. (count > 0 => kind = "subtree") /\ kind' = "subtree" /\ leaves' = leaves
          BY <3>2 DEF AppendSubtree
        <4>2. leaves = <<>>
          BY <1>4, <2>2, <2>5, <4>1
        <4> QED
          BY <4>1, <4>2
      <3> QED
        BY <3>1, <3>2
    <2> QED
      BY <2>3, <2>4, <2>6 DEF HistoryKept
  <1> QED
    BY <1>11, <1>12, <1>13

\* An append: the active algorithms carry the item and store all the digests the
\* carry made; the others are as they were.
LEMMA AppendKeeps ==
  ASSUME LogInv, NoNullItems, AppendLeaf \/ AppendSubtree
  PROVE  LogInv'
  <1>1. PICK item \in Offer[count + 1] : AppendItem(item) /\ (AppendLeaf => leaves' = Append(leaves, item))
    <2>1. CASE AppendLeaf
      BY <2>1 DEF AppendLeaf
    <2>2. CASE AppendSubtree /\ ~AppendLeaf
      BY <2>2 DEF AppendSubtree
    <2> QED
      BY <2>1, <2>2
  <1> DEFINE active == {a \in Algs : IsActive(epochs[a])}
             carried == [a \in active |-> Carry(a, frontier[a], coords[a], count,
                           IF IsActiveAt(epochs[a], count) THEN Evaluate(a, item) ELSE Null(a))]
             fam == [a \in active |-> Persisted(carried[a].made)]
  <1>2. /\ nodes' = Over(Merged(fam), nodes)
        /\ frontier' = [a \in Algs |-> IF a \in active THEN carried[a].peaks ELSE frontier[a]]
        /\ coords' = [a \in Algs |-> IF a \in active THEN carried[a].at ELSE coords[a]]
        /\ storedCount' = count + 1 /\ count' = count + 1
        /\ history' = Append(history, item)
        /\ outgrown' = Append(outgrown, [a \in ActiveAlgsAt(count) |-> LiveCombinedRoot(a)])
        /\ UNCHANGED <<epochs, metas>>
    BY <1>1 DEF AppendItem
  <1>3. /\ LogTypeOK /\ StoreMirrorsHandle /\ HistoryKept /\ FrontierKept /\ StoreKept /\ OutgrownKept
    BY DEF LogInv
  <1>4. count < MaxCount /\ count \in Nat /\ MaxCount \in Nat
    BY <1>3, LogAssumption DEF AppendLeaf, AppendSubtree, LogTypeOK
  <1>5. Appends(item)
    BY <1>1, <1>2, <1>4 DEF Appends
  <1>6. ASSUME NEW a \in active
        PROVE  /\ carried[a].at = FrontierForSize(count + 1)
               /\ carried[a].peaks = PeaksOf(Ref(a)', count + 1)
               /\ fam[a] = MadeOf(a, count, Ref(a)')
    <2>1. IsActiveAt(epochs[a], count) /\ IsActive(epochs[a]) /\ a \in Algs
      BY <1>3, SizeKnown
    <2> DEFINE s == carried[a]
    <2>2. s = Carry(a, frontier[a], coords[a], count, Evaluate(a, item))
      BY <2>1
    <2>3. fam[a] = Persisted(s.made)
      OBVIOUS
    <2> HIDE DEF s, fam
    <2>4. /\ s.at = FrontierForSize(count + 1)
          /\ s.peaks = PeaksOf(Ref(a)', count + 1)
          /\ Persisted(s.made) = MadeOf(a, count, Ref(a)')
      <3>1. coords[a] = FrontierForSize(count) /\ frontier[a] = PeaksOf(Ref(a), count)
        BY <1>3, <2>1, SizeKnown DEF FrontierKept
      <3> QED
        BY <1>3, <1>5, <2>1, <2>2, <3>1, CarryIs
    <2> QED
      BY <2>3, <2>4 DEF s
  <1>7. /\ active \in SUBSET Algs /\ DOMAIN fam = active
        /\ \A a \in Algs : a \in active <=> IsActive(epochs[a])
    OBVIOUS
  <1> HIDE DEF active, carried, fam
  <1>8. AddsMade(fam, active, nodes')
    BY <1>2, <1>6, <1>7 DEF AddsMade
  <1>9. /\ KeyedByBlocks(nodes')
        /\ \A a \in active : FromMade(nodes', a)
        /\ \A a \in Algs \ active : SameNodes(nodes', a)
    BY <1>7, <1>8, AppendStores
  <1>10. ASSUME NEW a \in Algs
         PROVE  /\ TreeOf(a, Ref(a)) /\ TreeOf(a, Ref(a)') /\ SameBelow(Ref(a), Ref(a)', count)
                /\ Size(a) \in 0..count /\ Size(a) \in Nat
                /\ IsActive(epochs[a]) => Size(a) = count
                /\ Size(a)' = IF IsActive(epochs[a]) THEN count + 1 ELSE Size(a)
    <2>1. TreeOf(a, Ref(a)) /\ TreeOf(a, Ref(a)') /\ SameBelow(Ref(a), Ref(a)', count)
      BY <1>3, <1>5, References, AppendLeavesBelow
    <2>2. /\ Size(a) \in 0..count /\ Size(a) \in Nat
          /\ IsActive(epochs[a]) => Size(a) = count
          /\ ~IsActive(epochs[a]) => TreeSize(epochs[a], count + 1) = Size(a)
      BY <1>3, SizeKnown
    <2>3. Size(a)' = TreeSize(epochs[a], count + 1)
      BY <1>2 DEF Size
    <2>4. IsActive(epochs[a]) => TreeSize(epochs[a], count + 1) = count + 1
      BY DEF TreeSize, IsActive
    <2> QED
      BY <2>1, <2>2, <2>3, <2>4
  <1>11. LogTypeOK' /\ StoreMirrorsHandle' /\ HistoryKept'
    BY <1>3, AppendBasics
  <1>14. FrontierKept'
    <2> SUFFICES ASSUME NEW a \in Algs
                 PROVE  coords'[a] = FrontierForSize(Size(a)') /\ frontier'[a] = PeaksOf(Ref(a)', Size(a)')
      BY DEF FrontierKept
    <2>1. CASE a \in active
      <3>1. Size(a)' = count + 1
        BY <1>7, <1>10, <2>1
      <3> QED
        BY <1>2, <1>6, <2>1, <3>1
    <2>2. CASE a \notin active
      <3>1. Size(a)' = Size(a) /\ coords'[a] = coords[a] /\ frontier'[a] = frontier[a]
        BY <1>2, <1>7, <1>10, <2>2
      <3>2. coords[a] = FrontierForSize(Size(a)) /\ frontier[a] = PeaksOf(Ref(a), Size(a))
        BY <1>3 DEF FrontierKept
      <3> DEFINE r == Ref(a)
                 q == Ref(a)'
                 n == Size(a)
      <3>3. TreeOf(a, r) /\ TreeOf(a, q) /\ SameBelow(r, q, count) /\ n \in 0..count
        BY <1>10
      <3> HIDE DEF r, q, n
      <3>4. PeaksOf(r, n) = PeaksOf(q, n)
        BY <1>4, <3>3, PeaksAgree
      <3> QED
        BY <3>1, <3>2, <3>4 DEF r, q, n
    <2> QED
      BY <2>1, <2>2
  <1>15. StoreKept'
    <2>1. \A x \in DOMAIN nodes' : \E a \in Algs : \E c \in Coordinates : x = Node(a, c)
      BY <1>9 DEF KeyedByBlocks
    <2>2. ASSUME NEW a \in Algs PROVE Held(nodes', a, epochs'[a], Size(a)', Ref(a)')
      <3> DEFINE r == Ref(a)
                 q == Ref(a)'
                 n == Size(a)
                 eps == epochs[a]
                 made == MadeOf(a, count, q)
      <3>1. /\ TreeOf(a, r) /\ TreeOf(a, q) /\ SameBelow(r, q, count)
            /\ n \in 0..count /\ n \in Nat
        BY <1>10
      <3>2. Held(nodes, a, eps, n, r) /\ epochs'[a] = eps
        BY <1>2, <1>3 DEF StoreKept
      <3>3. CASE a \in active
        <4>1. n = count /\ Size(a)' = count + 1
          BY <1>7, <1>10, <3>3
        <4>2. made = [x \in EndingAt(a, count, ReductionCount(count)) |-> q[<<x[2], x[3]>>]]
          BY DEF MadeOf
        <4>3. \A c \in Coordinates :
                /\ Node(a, c) \in DOMAIN nodes' <=> Node(a, c) \in DOMAIN made \/ Node(a, c) \in DOMAIN nodes
                /\ Node(a, c) \in DOMAIN nodes' =>
                     nodes'[Node(a, c)] = IF Node(a, c) \in DOMAIN made
                                          THEN made[Node(a, c)] ELSE nodes[Node(a, c)]
          BY <1>9, <3>3 DEF FromMade
        <4>4. Held(nodes, a, eps, count, r)
          BY <3>2, <4>1
        <4> HIDE DEF r, q, n, eps, made
        <4>5. Held(nodes', a, eps, count + 1, q)
          BY <1>4, <3>1, <4>2, <4>3, <4>4, AppendHolds
        <4> QED
          BY <3>2, <4>1, <4>5 DEF q
      <3>4. CASE a \notin active
        <4>1. Size(a)' = n
          BY <1>7, <1>10, <3>4
        <4>2. \A c \in Coordinates : /\ Node(a, c) \in DOMAIN nodes' <=> Node(a, c) \in DOMAIN nodes
                                     /\ Node(a, c) \in DOMAIN nodes
                                          => nodes'[Node(a, c)] = nodes[Node(a, c)]
          BY <1>9, <3>4 DEF SameNodes
        <4> HIDE DEF r, q, n, eps
        <4>3. SameBelow(r, q, n)
          <5>1. \A i \in 0..n - 1 : i \in 0..count - 1
            BY <1>4, <3>1
          <5> QED
            BY <3>1, <5>1 DEF SameBelow
        <4>4. Held(nodes', a, eps, n, q)
          BY <3>1, <3>2, <4>2, <4>3, HeldAlike
        <4> QED
          BY <3>2, <4>1, <4>4 DEF q, n
      <3> QED
        BY <3>3, <3>4
    <2> QED
      BY <2>1, <2>2 DEF StoreKept
  <1>16. OutgrownKept'
    BY <1>2, <1>5, OutgrownGrows
  <1> QED
    BY <1>11, <1>14, <1>15, <1>16 DEF LogInv

-----------------------------------------------------------------------------
(* Every reachable state *)

\* Every operation keeps the invariant.
LEMMA LogStep ==
  ASSUME NoNullItems, LogInv, [Next]_vars
  PROVE  LogInv'
  <1>1. CASE AppendLeaf \/ AppendSubtree
    BY <1>1, AppendKeeps
  <1>2. ASSUME NEW a \in Algs, AddAlgorithm(a) PROVE LogInv'
    BY <1>2, AddKeeps
  <1>3. ASSUME NEW a \in Algs, RemoveAlgorithm(a) PROVE LogInv'
    BY <1>3, RemoveKeeps
  <1>4. ASSUME NEW a \in Algs, ResumeAlgorithm(a) PROVE LogInv'
    BY <1>4, ResumeKeeps
  <1>5. CASE Reopen
    BY <1>5, ReopenKeeps
  <1>6. CASE UNCHANGED vars
    <2>1. /\ UNCHANGED <<count, kind, epochs, frontier, coords, storedCount, leaves, metas, nodes>>
          /\ UNCHANGED <<history, outgrown>>
      BY <1>6 DEF vars, handle, store, observers
    <2>2. \A a \in Algs : Ref(a)' = Ref(a) /\ Size(a)' = Size(a)
      BY <2>1 DEF Ref, LeafOf, ReferenceLeaf, Size
    <2>3. \A size : Shown(size)' = Shown(size)
      BY <2>1, <2>2 DEF Shown, RootAt, ActiveAlgsAt, CommittedEpochsAt
    <2>4. LogTypeOK' /\ StoreMirrorsHandle' /\ HistoryKept'
      BY <2>1 DEF LogInv, LogTypeOK, Registered, StoreMirrorsHandle, HistoryKept
    <2>5. FrontierKept' /\ StoreKept'
      BY <2>1, <2>2 DEF LogInv, FrontierKept, StoreKept
    <2>6. OutgrownKept'
      BY <2>1, <2>3 DEF LogInv, OutgrownKept
    <2> QED
      BY <2>4, <2>5, <2>6 DEF LogInv
  <1> QED
    BY <1>1, <1>2, <1>3, <1>4, <1>5, <1>6 DEF Next

\* The invariant holds of every reachable state of a log that was given no null item.
LEMMA LogInvariant ==
  ASSUME NoNullItems
  PROVE  Spec => []LogInv
  <1>1. LogInv /\ [Next]_vars => LogInv'
    BY LogStep
  <1> QED
    BY <1>1, InitKeeps, PTL DEF Spec

-----------------------------------------------------------------------------
(* What the invariant says *)

\* The frontiers of the invariant are those of a from-scratch build.
LEMMA FrontierSaid == LogInv => FrontierIsReference
  <1> SUFFICES ASSUME LogInv, NEW a \in Algs
               PROVE  /\ coords[a] = FrontierForSize(TreeSize(epochs[a], count))
                      /\ frontier[a] = [i \in DOMAIN coords[a] |->
                                          ReferenceNode(a, coords[a][i][1], coords[a][i][2])]
    BY DEF FrontierIsReference
  <1> DEFINE at == FrontierForSize(Size(a))
  <1>1. coords[a] = at /\ frontier[a] = PeaksOf(Ref(a), Size(a)) /\ Size(a) \in Nat
    BY SizeKnown DEF LogInv, FrontierKept
  <1>2. frontier[a] = [i \in 1..Len(at) |-> Ref(a)[at[i]]]
    BY <1>1 DEF PeaksOf
  <1>3. coords[a] = FrontierForSize(TreeSize(epochs[a], count))
    BY <1>1 DEF Size
  <1>4. Covers(at, 0, Size(a))
    BY <1>1, FrontierCovers
  <1> HIDE DEF at
  <1>5. DOMAIN at = 1..Len(at) /\ at \in Seq(Coordinates)
    BY <1>4 DEF Covers
  <1>6. ASSUME NEW i \in 1..Len(at) PROVE Ref(a)[at[i]] = ReferenceNode(a, at[i][1], at[i][2])
    <2>1. at[i] \in Coordinates
      BY <1>5
    <2>2. at[i] = <<at[i][1], at[i][2]>> /\ at[i][1] \in Nat /\ at[i][2] \in Nat
      BY <2>1, CoordinateIsPair
    <2>3. \A l \in Nat, h \in Nat : ReferenceNode(a, l, h) = Ref(a)[<<l, h>>]
      BY References
    <2>4. ReferenceNode(a, at[i][1], at[i][2]) = Ref(a)[<<at[i][1], at[i][2]>>]
      BY <2>2, <2>3
    <2> QED
      BY <2>2, <2>4
  <1>7. frontier[a] = [i \in DOMAIN at |-> ReferenceNode(a, at[i][1], at[i][2])]
    BY <1>2, <1>5, <1>6
  <1> QED
    BY <1>1, <1>3, <1>7

\* The store of the invariant is complete.
LEMMA StoreSaid == LogInv => StoredNodesComplete
  <1> SUFFICES ASSUME LogInv, NEW a \in Algs, NEW c \in PerfectSubtrees(TreeSize(epochs[a], count))
               PROVE  GetNodeHash(a, epochs[a], c[1], c[2]) = ReferenceNode(a, c[1], c[2])
    BY DEF StoredNodesComplete
  <1>1. Size(a) \in Nat
    BY SizeKnown DEF LogInv
  <1>2. c \in Blocks(Size(a))
    BY <1>1, PerfectAreBlocks DEF Size
  <1>3. c = <<c[1], c[2]>> /\ c[1] \in Nat /\ c[2] \in Nat
    BY <1>2, CoordinateIsPair DEF Blocks
  <1>4. GetNodeHash(a, epochs[a], c[1], c[2]) = Ref(a)[c]
    BY <1>2, ReadBack
  <1>5. ReferenceNode(a, c[1], c[2]) = Ref(a)[<<c[1], c[2]>>]
    BY <1>3, References
  <1> QED
    BY <1>3, <1>4, <1>5

\* The store of the invariant is enough to rebuild the handle.
LEMMA ReopenSaid == LogInv => ReopenLossless
  <1> SUFFICES ASSUME LogInv PROVE ReopenLossless
    OBVIOUS
  <1>1. LogTypeOK /\ storedCount = count /\ metas = epochs
    BY DEF LogInv, StoreMirrorsHandle
  <1>2. ASSUME NEW a \in Algs PROVE StoredCoords(a) = coords[a] /\ StoredFrontier(a) = frontier[a]
    BY StoreSays
  <1>3. Reopenable
    <2> SUFFICES ASSUME NEW a \in Algs, metas[a] # <<>>
                 PROVE  /\ ValidEpochs(metas[a], storedCount)
                        /\ \A i \in DOMAIN StoredFrontier(a) : StoredFrontier(a)[i] # Corrupted
      BY DEF Reopenable
    <2>1. ValidEpochs(metas[a], storedCount)
      BY <1>1 DEF LogTypeOK, Registered
    <2> DEFINE n == Size(a)
               at == FrontierForSize(n)
    <2>2. StoredFrontier(a) = [i \in 1..Len(at) |-> Ref(a)[at[i]]]
      BY <1>2 DEF LogInv, FrontierKept, PeaksOf
    <2>3. n \in Nat /\ Covers(at, 0, n)
      BY <1>1, SizeKnown, FrontierCovers
    <2> HIDE DEF at
    <2>4. ASSUME NEW i \in 1..Len(at) PROVE Ref(a)[at[i]] # Corrupted
      <3> HIDE DEF n
      <3>1. at[i] \in Blocks(n)
        BY <2>3, PeaksAreBlocks
      <3> QED
        BY <3>1, ReadBack DEF n
    <2>5. DOMAIN StoredFrontier(a) = 1..Len(at)
      BY <2>2
    <2>6. \A i \in 1..Len(at) : StoredFrontier(a)[i] = Ref(a)[at[i]]
      BY <2>2
    <2> QED
      BY <2>1, <2>4, <2>5, <2>6
  <1>4. count > 0 => kind = IF leaves # <<>> THEN "flat" ELSE "subtree"
    <2> SUFFICES ASSUME count > 0 PROVE kind = IF leaves # <<>> THEN "flat" ELSE "subtree"
      OBVIOUS
    <2>1. Len(history) = count /\ leaves = (IF kind = "flat" THEN history ELSE <<>>)
          /\ kind \in {"flat", "subtree"} /\ count \in Nat
      BY <1>1, LogAssumption DEF LogInv, HistoryKept, LogTypeOK
    <2>2. history # <<>>
      BY <2>1
    <2> QED
      BY <2>1, <2>2
  <1> QED
    BY <1>1, <1>2, <1>3, <1>4 DEF ReopenLossless

\* An algorithm active at a size has a tree that spans it, so its peaks there are in
\* the store, and they are those it had when the log had that size.
LEMMA OutgrownSaid == LogInv => OutgrownRootsFixed
  <1> SUFFICES ASSUME LogInv, NEW size \in 1..count - 1
               PROVE  [a \in ActiveAlgsAt(size) |-> CombinedRootAt(a, size)] = outgrown[size + 1]
    BY DEF OutgrownRootsFixed
  <1>1. LogTypeOK /\ count \in Nat /\ outgrown[size + 1] = Shown(size)
    <2>1. LogTypeOK /\ OutgrownKept
      BY DEF LogInv
    <2>2. outgrown[size + 1] = Shown(size)
      BY <2>1 DEF OutgrownKept
    <2> QED
      BY <2>1, <2>2, LogAssumption DEF LogTypeOK
  <1>2. size \in Nat /\ size # 0 /\ size - 1 \in 0..count - 1 /\ size <= count
    BY <1>1
  <1>3. ASSUME NEW b \in ActiveAlgsAt(size)
        PROVE  RootForAt(b, size) = RootAt(b, size) /\ RootForAt(b, size) # Corrupted
    <2>1. b \in Algs /\ IsActiveAt(epochs[b], size - 1)
      BY DEF ActiveAlgsAt
    <2>2. size <= Size(b) /\ Size(b) \in Nat
      BY <1>1, <1>2, <2>1, SizeKnown
    <2>3. EffectiveSizeAt(epochs[b], size) = size
      BY <2>1 DEF EffectiveSizeAt
    <2> DEFINE at == FrontierForSize(size)
               peaks == FrontierPeaks(b, epochs[b], size)
               r == Ref(b)
    <2>4. Covers(at, 0, size)
      BY <1>2, FrontierCovers
    <2>5. peaks = [i \in 1..Len(at) |-> GetNodeHash(b, epochs[b], at[i][1], at[i][2])]
      BY DEF FrontierPeaks
    <2>6. PeaksOf(r, size) = [i \in 1..Len(at) |-> r[at[i]]]
      BY DEF PeaksOf
    <2>7. RootForAt(b, size) = RootOfPeaks(b, peaks) /\ RootAt(b, size) = BagPeaks(b, PeaksOf(r, size))
      BY <2>3 DEF RootForAt, RootAt
    <2> HIDE DEF at, peaks
    <2>8. ASSUME NEW i \in 1..Len(at)
          PROVE  GetNodeHash(b, epochs[b], at[i][1], at[i][2]) = r[at[i]] /\ r[at[i]] # Corrupted
      <3>1. at[i] \in Blocks(size)
        BY <1>2, <2>4, PeaksAreBlocks
      <3>2. at[i] \in Blocks(Size(b))
        BY <1>2, <2>2, <3>1, BlocksGrow
      <3> QED
        BY <2>1, <3>2, ReadBack
    <2> HIDE DEF r
    <2>9. peaks = PeaksOf(r, size) /\ \A i \in DOMAIN peaks : peaks[i] # Corrupted
      BY <2>5, <2>6, <2>8
    <2>10. RootOfPeaks(b, peaks) = BagPeaks(b, peaks)
      BY <2>9 DEF RootOfPeaks
    <2>11. BagPeaks(b, peaks) # Corrupted
      <3>1. Len(at) \in Nat \ {0}
        <4>1. at # <<>>
          BY <1>2, <2>4 DEF Covers
        <4>2. at \in Seq(Coordinates)
          BY <2>4 DEF Covers
        <4> QED
          BY <4>1, <4>2
      <3> DEFINE m == Len(at)
      <3>2. peaks = [i \in 1..m |-> peaks[i]] /\ m \in Nat \ {0}
        BY <2>5, <3>1
      <3> HIDE DEF m
      <3>3. 1 \in DOMAIN peaks
        BY <3>2
      <3>4. peaks[1] # Corrupted
        BY <2>9, <3>3
      <3> QED
        BY <3>2, <3>4, BagIsDigest
    <2> QED
      BY <2>7, <2>9, <2>10, <2>11
  <1> DEFINE algs == ActiveAlgsAt(size)
             shown == [b \in algs |-> RootForAt(b, size)]
             kept == [b \in algs |-> RootAt(b, size)]
             timeline == CommittedEpochsAt(size)
  <1>4. shown = kept /\ ~\E b \in algs : RootForAt(b, size) = Corrupted
    BY <1>3
  <1>5. \A a \in algs : CombinedRootAt(a, size) = CombinedRoot(a, shown, timeline, size)
    BY <1>2, <1>4 DEF CombinedRootAt
  <1>6. Shown(size) = [a \in algs |-> CombinedRoot(a, kept, timeline, size)]
    BY DEF Shown
  <1> HIDE DEF shown, kept, timeline
  <1>7. [a \in algs |-> CombinedRootAt(a, size)] = Shown(size)
    BY <1>4, <1>5, <1>6
  <1> QED
    BY <1>1, <1>7

\* A node that stays in the store keeps its digest when the positions it stands
\* for keep theirs.
LEMMA NodesStay ==
  ASSUME LogInv, LogInv', \A a \in Algs : SameBelow(Ref(a), Ref(a)', count),
         DOMAIN nodes \subseteq DOMAIN nodes', NEW x \in DOMAIN nodes
  PROVE  x \in DOMAIN nodes' /\ nodes'[x] = nodes[x]
  <1>1. PICK a \in Algs, c \in Coordinates : x = Node(a, c)
    BY DEF LogInv, StoreKept
  <1> DEFINE r == Ref(a)
             q == Ref(a)'
             n == Size(a)
  <1>2. n \in 0..count /\ n \in Nat /\ count \in Nat
    BY SizeKnown DEF LogInv
  <1>3. Held(nodes, a, epochs[a], n, r)
    BY DEF LogInv, StoreKept
  <1>4. Held(nodes', a, epochs'[a], Size(a)', q)
    BY DEF LogInv, StoreKept
  <1>5. c \in Blocks(n) /\ nodes[x] = r[c]
    BY <1>1, <1>3 DEF Held
  <1>6. x \in DOMAIN nodes' /\ nodes'[x] = q[c]
    BY <1>1, <1>4 DEF Held
  <1>7. TreeOf(a, r) /\ TreeOf(a, q) /\ SameBelow(r, q, count)
    BY References
  <1> HIDE DEF r, q, n
  <1>8. SameBelow(r, q, n)
    <2>1. \A i \in 0..n - 1 : i \in 0..count - 1
      BY <1>2
    <2> QED
      BY <1>7, <2>1 DEF SameBelow
  <1>9. r[c] = q[c]
    BY <1>2, <1>5, <1>7, <1>8, SameBlocks
  <1> QED
    BY <1>5, <1>6, <1>9

\* No stored digest is lost or replaced.
NodesKept == \A x \in DOMAIN nodes : x \in DOMAIN nodes' /\ nodes'[x] = nodes[x]

\* No operation changes a stored digest.
LEMMA NodesStep ==
  ASSUME NoNullItems, LogInv, LogInv', [Next]_vars
  PROVE  NodesKept
  <1>1. CASE UNCHANGED nodes
    BY <1>1 DEF NodesKept
  <1>2. CASE AppendLeaf \/ AppendSubtree
    <2>1. PICK item \in Offer[count + 1] : AppendItem(item)
      BY <1>2 DEF AppendLeaf, AppendSubtree
    <2>2. Appends(item)
      BY <1>2, <2>1 DEF Appends, AppendItem, AppendLeaf, AppendSubtree
    <2>3. \A a \in Algs : SameBelow(Ref(a), Ref(a)', count)
      BY <2>2, AppendLeavesBelow DEF LogInv
    <2>4. \E new : nodes' = Over(new, nodes)
      BY <2>1 DEF AppendItem
    <2>5. DOMAIN nodes \subseteq DOMAIN nodes'
      BY <2>4, OverHas
    <2> QED
      BY <2>3, <2>5, NodesStay DEF NodesKept
  <1>3. ASSUME NEW a \in Algs, ResumeAlgorithm(a) PROVE NodesKept
    <2> DEFINE eps == Resumed(epochs[a], count)
    <2>1. /\ epochs' = [epochs EXCEPT ![a] = eps]
          /\ UNCHANGED history
      BY <1>3 DEF ResumeAlgorithm, SetEpochs, Resumed, observers
    <2>2. count \in Nat /\ epochs \in [Algs -> Seq(Interval)]
      BY SizeKnown DEF LogInv, LogTypeOK
    <2>3. \A i \in 0..count - 1 : IsActiveAt(eps, i) <=> IsActiveAt(epochs[a], i)
      BY <2>2, ResumeActivity
    <2>4. \A b \in Algs : epochs'[b] = IF b = a THEN eps ELSE epochs[b]
      BY <2>1, <2>2
    <2> HIDE DEF eps
    <2>5. ASSUME NEW b \in Algs PROVE SameBelow(Ref(b), Ref(b)', count)
      <3>1. \A i \in 0..count - 1 : /\ IsActiveAt(epochs'[b], i) <=> IsActiveAt(epochs[b], i)
                                    /\ history'[i + 1] = history[i + 1]
        BY <2>1, <2>3, <2>4
      <3> QED
        BY <2>2, <3>1, ReferencesAgree
    <2>6. \E new : nodes' = Over(new, nodes)
      BY <1>3 DEF ResumeAlgorithm
    <2>7. DOMAIN nodes \subseteq DOMAIN nodes'
      BY <2>6, OverHas
    <2> QED
      BY <2>5, <2>7, NodesStay DEF NodesKept
  <1>4. ASSUME NEW a \in Algs, AddAlgorithm(a) \/ RemoveAlgorithm(a) PROVE NodesKept
    BY <1>1, <1>4 DEF AddAlgorithm, RemoveAlgorithm
  <1>5. CASE Reopen
    BY <1>1, <1>5 DEF Reopen
  <1>6. CASE UNCHANGED vars
    BY <1>1, <1>6 DEF vars, store
  <1> QED
    BY <1>2, <1>3, <1>4, <1>5, <1>6 DEF Next

-----------------------------------------------------------------------------
(* The theorems *)

\* After every sequence of operations each algorithm's frontier is the sequence of
\* peaks of a from-scratch build over the same history and the same activity: the
\* carry of an append, the null peaks of an added algorithm, the rebuild of a
\* resumption and the restart from the store all agree with it.
THEOREM FrontierAlwaysReference ==
  ASSUME NoNullItems
  PROVE  Spec => []FrontierIsReference
  <1>1. LogInv => FrontierIsReference
    BY FrontierSaid
  <1> QED
    BY <1>1, LogInvariant, PTL

\* Every perfect subtree within an algorithm's tree can be read back from the store
\* and reads as the reference says.
THEOREM StoreComplete ==
  ASSUME NoNullItems
  PROVE  Spec => []StoredNodesComplete
  <1>1. LogInv => StoredNodesComplete
    BY StoreSaid
  <1> QED
    BY <1>1, LogInvariant, PTL

\* from_storage accepts the store at any time and rebuilds the handle that was lost.
THEOREM NothingLostByRestart ==
  ASSUME NoNullItems
  PROVE  Spec => []ReopenLossless
  <1>1. LogInv => ReopenLossless
    BY ReopenSaid
  <1> QED
    BY <1>1, LogInvariant, PTL

\* What the log last showed at a size is what combined_root_at reports of that size
\* ever after.
THEOREM ShownRootsStay ==
  ASSUME NoNullItems
  PROVE  Spec => []OutgrownRootsFixed
  <1>1. LogInv => OutgrownRootsFixed
    BY OutgrownSaid
  <1> QED
    BY <1>1, LogInvariant, PTL

\* A node once stored is never given another digest, although a resumption stores
\* nodes that an append or an earlier resumption already stored.
THEOREM StoredNodesStay ==
  ASSUME NoNullItems
  PROVE  Spec => StoredNodesFixed
  <1>1. LogInv /\ LogInv' /\ [Next]_vars
          => [\A c \in DOMAIN nodes : c \in DOMAIN nodes' /\ nodes'[c] = nodes[c]]_vars
    BY NodesStep DEF NodesKept
  <1> QED
    BY <1>1, LogInvariant, PTL DEF Spec, StoredNodesFixed

-----------------------------------------------------------------------------
(* Null runs *)

\* The tallest block of a gap that starts with it is within it.
LEMMA NullBlockFits ==
  ASSUME NEW l \in Nat, NEW r \in Nat, l < r
  PROVE  LET h == NullBlockHeight(l, r)
         IN  h \in Nat /\ Multiple(l, BlockSize(h)) /\ l + BlockSize(h) <= r
  <1> DEFINE fits(h) == l % BlockSize(h) = 0 /\ l + BlockSize(h) <= r
             T == {h \in Nat : ~fits(h)}
  <1>1. BlockSize(0) = 1 /\ \A h \in Nat : BlockSize(h) \in Nat \ {0} /\ h < BlockSize(h)
    BY BlockSizes, HeightBelowSize
  <1>2. fits(0) /\ \A h \in Nat : h >= r => ~fits(h)
    BY <1>1
  <1> HIDE DEF fits
  <1>3. r \in T /\ T \in SUBSET Nat
    BY <1>2
  <1>4. PICK t \in T : \A g \in T : t <= g
    <2> HIDE DEF T
    <2> QED
      BY <1>3, LeastExists
  <1>5. t # 0 /\ t - 1 \in Nat /\ t - 1 \notin T /\ t <= r
    BY <1>2, <1>3, <1>4
  <1>6. \E h \in 0..r : fits(h) /\ ~fits(h + 1)
    <2>1. t - 1 \in 0..r /\ fits(t - 1) /\ (t - 1) + 1 = t /\ ~fits(t)
      BY <1>4, <1>5
    <2> QED
      BY <2>1
  <1> DEFINE h == NullBlockHeight(l, r)
  <1>7. h \in 0..r /\ fits(h)
    BY <1>6 DEF NullBlockHeight, fits
  <1> HIDE DEF h
  <1>8. h \in Nat /\ l % BlockSize(h) = 0 /\ l + BlockSize(h) <= r
    BY <1>7 DEF fits
  <1>9. Multiple(l, BlockSize(h))
    BY <1>1, <1>8, ModIsMultiple
  <1> QED
    BY <1>8, <1>9 DEF h

\* The position after the first block of what is left of a gap.
After(l, r) == l + BlockSize(NullBlockHeight(l, r))

\* f[x] is the greedy decomposition of the positions from x to r.
Decomposes(f, from, r) ==
  \A x \in from..r :
    f[x] = IF x = r THEN {} ELSE {<<x, NullBlockHeight(x, r)>>} \cup f[After(x, r)]

\* It is within the gap, or its end.
LEMMA AfterIsAfter ==
  ASSUME NEW l \in Nat, NEW r \in Nat, l < r
  PROVE  After(l, r) \in l + 1..r
  <1>1. NullBlockHeight(l, r) \in Nat /\ l + BlockSize(NullBlockHeight(l, r)) <= r
    BY NullBlockFits
  <1>2. BlockSize(NullBlockHeight(l, r)) \in Nat \ {0}
    BY <1>1, BlockSizes
  <1> QED
    BY <1>1, <1>2 DEF After

\* The decomposition exists, whatever the gap.
LEMMA DecompositionExists ==
  ASSUME NEW l \in Nat, NEW r \in Nat, l <= r
  PROVE  \E f : f = [x \in l..r |-> f[x]] /\ Decomposes(f, l, r)
  <1> DEFINE S == {d \in Nat : d <= r => \E f : Decomposes(f, r - d, r)}
  <1>1. 0 \in S
    <2>1. Decomposes([x \in {r} |-> {}], r, r)
      BY DEF Decomposes
    <2>2. r - 0 = r
      OBVIOUS
    <2> QED
      BY <2>1, <2>2
  <1>2. ASSUME NEW d \in Nat, d \in S PROVE d + 1 \in S
    <2> SUFFICES ASSUME d + 1 <= r PROVE \E f : Decomposes(f, r - (d + 1), r)
      OBVIOUS
    <2> DEFINE y == r - (d + 1)
    <2>1. y \in Nat /\ y < r /\ r - d = y + 1
      OBVIOUS
    <2>2. PICK f : Decomposes(f, y + 1, r)
      BY <1>2, <2>1
    <2>3. After(y, r) \in y + 1..r
      BY <2>1, AfterIsAfter
    <2> HIDE DEF y
    <2> DEFINE g == [x \in y..r |-> IF x = y THEN {<<y, NullBlockHeight(y, r)>>} \cup f[After(y, r)]
                                            ELSE f[x]]
    <2>4. ASSUME NEW x \in y..r
          PROVE  g[x] = IF x = r THEN {} ELSE {<<x, NullBlockHeight(x, r)>>} \cup g[After(x, r)]
      <3>1. CASE x = y
        BY <2>1, <2>3, <3>1
      <3>2. CASE x # y
        <4>1. x \in y + 1..r /\ x \in Nat
          BY <2>1, <3>2
        <4>2. x # r => After(x, r) \in x + 1..r
          BY <4>1, AfterIsAfter
        <4>3. g[x] = f[x] /\ (x # r => g[After(x, r)] = f[After(x, r)])
          BY <2>1, <4>1, <4>2
        <4>4. f[x] = IF x = r THEN {} ELSE {<<x, NullBlockHeight(x, r)>>} \cup f[After(x, r)]
          BY <2>2, <4>1 DEF Decomposes
        <4> HIDE DEF g
        <4> QED
          BY <4>3, <4>4
      <3> QED
        BY <3>1, <3>2
    <2> HIDE DEF g
    <2>5. Decomposes(g, y, r)
      BY <2>4 DEF Decomposes
    <2> QED
      BY <2>5 DEF y
  <1> HIDE DEF S
  <1>3. r - l \in S
    <2>1. r - l \in Nat
      OBVIOUS
    <2> QED
      BY <1>1, <1>2, <2>1, SetInduction
  <1>4. PICK f : Decomposes(f, l, r)
    <2>1. r - l <= r /\ r - (r - l) = l
      OBVIOUS
    <2> QED
      BY <1>3, <2>1 DEF S
  <1> DEFINE g == [x \in l..r |-> f[x]]
  <1>5. ASSUME NEW x \in l..r
        PROVE  g[x] = IF x = r THEN {} ELSE {<<x, NullBlockHeight(x, r)>>} \cup g[After(x, r)]
    <2>1. x # r => After(x, r) \in l..r
      <3>1. x # r => After(x, r) \in x + 1..r
        BY AfterIsAfter
      <3> QED
        BY <3>1
    <2>2. f[x] = IF x = r THEN {} ELSE {<<x, NullBlockHeight(x, r)>>} \cup f[After(x, r)]
      BY <1>4 DEF Decomposes
    <2> QED
      BY <2>1, <2>2
  <1>6. g = [x \in l..r |-> g[x]]
    OBVIOUS
  <1> HIDE DEF g
  <1>7. Decomposes(g, l, r)
    BY <1>5 DEF Decomposes
  <1> QED
    BY <1>6, <1>7

\* The blocks are disjoint aligned blocks that cover the positions from l to r.
Tiles(bs, l, r) ==
  /\ \A b \in bs : /\ b \in Coordinates /\ Multiple(b[1], BlockSize(b[2]))
                   /\ l <= b[1] /\ End(b) <= r
  /\ \A b, c \in bs : b # c => End(b) <= c[1] \/ End(c) <= b[1]
  /\ \A i \in l..r - 1 : \E b \in bs : b[1] <= i /\ i < End(b)

\* One block in front.
LEMMA TilesCons ==
  ASSUME NEW l \in Nat, NEW r \in Nat, l < r, NEW bs, Tiles(bs, After(l, r), r)
  PROVE  Tiles({<<l, NullBlockHeight(l, r)>>} \cup bs, l, r)
  <1> DEFINE h == NullBlockHeight(l, r)
             first == <<l, h>>
             m == After(l, r)
             all == {first} \cup bs
  <1>1. h \in Nat /\ Multiple(l, BlockSize(h)) /\ m <= r /\ m \in Nat /\ l < m
    <2>1. h \in Nat /\ Multiple(l, BlockSize(h))
      BY NullBlockFits
    <2>2. m \in l + 1..r
      BY AfterIsAfter
    <2> QED
      BY <2>1, <2>2
  <1>2. first \in Coordinates /\ first[1] = l /\ first[2] = h /\ End(first) = m
    BY <1>1 DEF Coordinates, End, After
  <1> HIDE DEF h, first, m
  <1>3. Tiles(bs, m, r)
    BY DEF m
  <1>4. ASSUME NEW b \in all
        PROVE  b \in Coordinates /\ Multiple(b[1], BlockSize(b[2])) /\ l <= b[1] /\ End(b) <= r
    <2>1. CASE b = first
      BY <1>1, <1>2, <2>1
    <2>2. CASE b \in bs
      <3>1. b \in Coordinates /\ Multiple(b[1], BlockSize(b[2])) /\ m <= b[1] /\ End(b) <= r
        BY <1>3, <2>2 DEF Tiles
      <3>2. b[1] \in Nat
        BY <3>1, CoordinateIsPair
      <3> QED
        BY <1>1, <3>1, <3>2
    <2> QED
      BY <2>1, <2>2
  <1>5. ASSUME NEW b \in all, NEW c \in all, b # c PROVE End(b) <= c[1] \/ End(c) <= b[1]
    <2>1. \A d \in bs : m <= d[1]
      BY <1>3 DEF Tiles
    <2>2. \A d, e \in bs : d # e => End(d) <= e[1] \/ End(e) <= d[1]
      BY <1>3 DEF Tiles
    <2> QED
      BY <1>2, <1>5, <2>1, <2>2
  <1>6. ASSUME NEW i \in l..r - 1 PROVE \E b \in all : b[1] <= i /\ i < End(b)
    <2>1. CASE i < m
      BY <1>2, <2>1
    <2>2. CASE i >= m
      <3>1. i \in m..r - 1
        BY <1>1, <2>2
      <3> QED
        BY <1>3, <3>1 DEF Tiles
    <2> QED
      BY <1>1, <2>1, <2>2
  <1>7. Tiles(all, l, r)
    <2> HIDE DEF all
    <2> QED
      BY <1>4, <1>5, <1>6 DEF Tiles
  <1> QED
    BY <1>7 DEF h, first

\* The blocks of a gap tile it.
LEMMA GapTiled ==
  ASSUME NEW g, NEW l \in Nat, NEW r \in Nat, g = <<l, r>>, l <= r
  PROVE  Tiles(DecomposeGap(g), l, r)
  <1> DEFINE body(f) == [x \in l..r |-> IF x = r THEN {}
                                        ELSE {<<x, NullBlockHeight(x, r)>>}
                                             \cup f[x + BlockSize(NullBlockHeight(x, r))]]
             blocks == CHOOSE f : f = body(f)
  <1>1. PICK f : f = [x \in l..r |-> f[x]] /\ Decomposes(f, l, r)
    BY DecompositionExists
  <1>2. f = body(f)
    <2>1. \A x \in l..r : f[x] = IF x = r THEN {}
                                ELSE {<<x, NullBlockHeight(x, r)>>} \cup f[x + BlockSize(NullBlockHeight(x, r))]
      BY <1>1 DEF Decomposes, After
    <2> QED
      BY <1>1, <2>1
  <1>3. blocks = body(blocks)
    BY <1>2
  <1>4. DecomposeGap(g) = blocks[l]
    BY DEF DecomposeGap
  <1> HIDE DEF blocks
  <1>5. \A x \in l..r : blocks[x] = IF x = r THEN {}
                                   ELSE {<<x, NullBlockHeight(x, r)>>} \cup blocks[After(x, r)]
    BY <1>3 DEF After
  <1> HIDE DEF body
  <1> DEFINE S == {d \in Nat : \A m \in 0..d : l <= r - m => Tiles(blocks[r - m], r - m, r)}
  <1>6. 0 \in S
    <2>1. blocks[r] = {}
      <3>1. r \in l..r
        OBVIOUS
      <3> QED
        BY <1>5, <3>1
    <2>2. Tiles(blocks[r], r, r)
      BY <2>1 DEF Tiles
    <2>3. \A m \in 0..0 : r - m = r
      OBVIOUS
    <2> QED
      BY <2>2, <2>3
  <1>7. ASSUME NEW d \in Nat, d \in S PROVE d + 1 \in S
    <2> SUFFICES ASSUME l <= r - (d + 1) PROVE Tiles(blocks[r - (d + 1)], r - (d + 1), r)
      <3>1. \A m \in 0..d + 1 : m \in 0..d \/ m = d + 1
        OBVIOUS
      <3> QED
        BY <1>7, <3>1
    <2> DEFINE y == r - (d + 1)
    <2>1. y \in Nat /\ y < r /\ y \in l..r /\ y # r
      OBVIOUS
    <2>2. After(y, r) \in y + 1..r
      BY <2>1, AfterIsAfter
    <2>3. r - After(y, r) \in 0..d /\ r - (r - After(y, r)) = After(y, r) /\ l <= After(y, r)
      BY <2>2
    <2> HIDE DEF y
    <2>4. Tiles(blocks[After(y, r)], After(y, r), r)
      BY <1>7, <2>3
    <2>5. Tiles({<<y, NullBlockHeight(y, r)>>} \cup blocks[After(y, r)], y, r)
      BY <2>1, <2>4, TilesCons
    <2>6. blocks[y] = {<<y, NullBlockHeight(y, r)>>} \cup blocks[After(y, r)]
      BY <1>5, <2>1
    <2>7. Tiles(blocks[y], y, r)
      BY <2>5, <2>6
    <2> QED
      BY <2>7 DEF y
  <1> HIDE DEF S
  <1>8. r - l \in S /\ r - l \in 0..r - l /\ r - (r - l) = l
    <2>1. r - l \in Nat /\ r - l \in 0..r - l /\ r - (r - l) = l
      OBVIOUS
    <2> QED
      BY <1>6, <1>7, <2>1, SetInduction
  <1>9. Tiles(blocks[l], l, r)
    BY <1>8 DEF S
  <1> QED
    BY <1>4, <1>9

-----------------------------------------------------------------------------

\* A gap of positions below n that are not active: a maximal span.
Gap(eps, n, l, r) ==
  /\ l < r /\ r <= n
  /\ \A i \in l..r - 1 : ~IsActiveAt(eps, i)
  /\ l > 0 => IsActiveAt(eps, l - 1)
  /\ r < n => IsActiveAt(eps, r)

\* The gaps of the code are these.
LEMMA GapsAre ==
  ASSUME NEW eps, NEW n \in Nat, NEW g
  PROVE  g \in InactiveGaps(eps, n) <=> \E l \in Nat, r \in Nat : g = <<l, r>> /\ Gap(eps, n, l, r)
  <1>1. ASSUME g \in InactiveGaps(eps, n)
        PROVE  \E l \in Nat, r \in Nat : g = <<l, r>> /\ Gap(eps, n, l, r)
    <2>1. PICK l \in 0..n, r \in 0..n : g = <<l, r>>
      BY <1>1 DEF InactiveGaps
    <2>2. Gap(eps, n, l, r)
      BY <1>1, <2>1 DEF InactiveGaps, Gap
    <2> QED
      BY <2>1, <2>2
  <1>2. ASSUME NEW l \in Nat, NEW r \in Nat, g = <<l, r>>, Gap(eps, n, l, r)
        PROVE  g \in InactiveGaps(eps, n)
    <2>1. l \in 0..n /\ r \in 0..n
      BY <1>2 DEF Gap
    <2> QED
      BY <1>2, <2>1 DEF InactiveGaps, Gap
  <1> QED
    BY <1>1, <1>2

\* Two gaps that share a position are the same.
LEMMA GapsApart ==
  ASSUME NEW eps, NEW n \in Nat, NEW l \in Nat, NEW r \in Nat, NEW x \in Nat, NEW y \in Nat,
         Gap(eps, n, l, r), Gap(eps, n, x, y)
  PROVE  (l = x /\ r = y) \/ r <= x \/ y <= l
  <1> SUFFICES ASSUME x < r, l < y PROVE l = x /\ r = y
    OBVIOUS
  <1>1. ~(l < x)
    <2> SUFFICES ASSUME l < x PROVE FALSE
      OBVIOUS
    <2>1. x - 1 \in l..r - 1 /\ x > 0
      OBVIOUS
    <2> QED
      BY <2>1 DEF Gap
  <1>2. ~(x < l)
    <2> SUFFICES ASSUME x < l PROVE FALSE
      OBVIOUS
    <2>1. l - 1 \in x..y - 1 /\ l > 0
      OBVIOUS
    <2> QED
      BY <2>1 DEF Gap
  <1>3. ~(r < y)
    <2> SUFFICES ASSUME r < y PROVE FALSE
      OBVIOUS
    <2>1. r \in x..y - 1 /\ r < n
      BY DEF Gap
    <2> QED
      BY <2>1 DEF Gap
  <1>4. ~(y < r)
    <2> SUFFICES ASSUME y < r PROVE FALSE
      OBVIOUS
    <2>1. y \in l..r - 1 /\ y < n
      BY DEF Gap
    <2> QED
      BY <2>1 DEF Gap
  <1> QED
    BY <1>1, <1>2, <1>3, <1>4

\* Every inactive position is in a gap.
LEMMA GapAround ==
  ASSUME NEW eps, NEW n \in Nat, NEW i \in 0..n - 1, ~IsActiveAt(eps, i)
  PROVE  \E l \in Nat, r \in Nat : Gap(eps, n, l, r) /\ l <= i /\ i < r
  <1> DEFINE L == {l \in Nat : l <= i /\ \A j \in l..i : ~IsActiveAt(eps, j)}
             R == {r \in Nat : i < r /\ (r < n => IsActiveAt(eps, r))}
  <1>1. i \in L /\ n \in R /\ L \in SUBSET Nat /\ R \in SUBSET Nat
    BY \A j \in i..i : j = i
  <1>2. PICK l \in L : \A m \in L : l <= m
    <2> HIDE DEF L
    <2> QED
      BY <1>1, LeastExists
  <1>3. PICK r \in R : \A m \in R : r <= m
    <2> HIDE DEF R
    <2> QED
      BY <1>1, LeastExists
  <1>4. l \in Nat /\ r \in Nat /\ l <= i /\ i < r /\ r <= n
    BY <1>1, <1>2, <1>3
  <1>5. l > 0 => IsActiveAt(eps, l - 1)
    <2> SUFFICES ASSUME l > 0, ~IsActiveAt(eps, l - 1) PROVE FALSE
      OBVIOUS
    <2>1. \A j \in l - 1..i : j = l - 1 \/ j \in l..i
      BY <1>4
    <2>2. l - 1 \in L
      BY <1>2, <1>4, <2>1
    <2> QED
      BY <1>2, <1>4, <2>2
  <1>6. \A j \in l..r - 1 : ~IsActiveAt(eps, j)
    <2> SUFFICES ASSUME NEW j \in l..r - 1 PROVE ~IsActiveAt(eps, j)
      OBVIOUS
    <2>1. CASE j <= i
      <3>1. j \in l..i
        BY <1>4, <2>1
      <3> QED
        BY <1>2, <3>1
    <2>2. CASE j > i
      <3>1. j \in Nat /\ j < r /\ j < n
        BY <1>4
      <3>2. j \notin R
        BY <1>3, <1>4, <3>1
      <3> QED
        BY <2>2, <3>1, <3>2
    <2> QED
      BY <1>4, <2>1, <2>2
  <1>7. r < n => IsActiveAt(eps, r)
    BY <1>3
  <1>8. Gap(eps, n, l, r)
    BY <1>4, <1>5, <1>6, <1>7 DEF Gap
  <1> QED
    BY <1>4, <1>8

\* The null runs of a timeline tile the positions it is inactive at.
RunsTile(eps, n, runs) ==
  /\ \A b \in runs : b \in Blocks(n)
  /\ \A b \in runs, i \in Nat : b[1] <= i /\ i < End(b) => ~IsActiveAt(eps, i)
  /\ \A b, c \in runs : b # c => End(b) <= c[1] \/ End(c) <= b[1]
  /\ \A i \in 0..n - 1 : ~IsActiveAt(eps, i) => \E b \in runs : b[1] <= i /\ i < End(b)

\* Tiled gaps, apart from each other and around every inactive position.
LEMMA NullRunsTile ==
  ASSUME NEW eps, NEW n \in Nat
  PROVE  RunsTile(eps, n, NullRuns(eps, n))
  <1> DEFINE runs == NullRuns(eps, n)
             In(b, l, r) == /\ l \in Nat /\ r \in Nat /\ Gap(eps, n, l, r)
                            /\ b \in DecomposeGap(<<l, r>>) /\ Tiles(DecomposeGap(<<l, r>>), l, r)
  <1>1. ASSUME NEW l \in Nat, NEW r \in Nat, Gap(eps, n, l, r)
        PROVE  Tiles(DecomposeGap(<<l, r>>), l, r) /\ DecomposeGap(<<l, r>>) \subseteq runs
    <2>1. l <= r
      BY <1>1 DEF Gap
    <2>2. Tiles(DecomposeGap(<<l, r>>), l, r)
      BY <2>1, GapTiled
    <2>3. <<l, r>> \in InactiveGaps(eps, n)
      BY <1>1, GapsAre
    <2> QED
      BY <2>2, <2>3 DEF NullRuns
  <1>2. ASSUME NEW b \in runs PROVE \E l, r : In(b, l, r)
    <2>1. PICK g \in InactiveGaps(eps, n) : b \in DecomposeGap(g)
      BY DEF NullRuns
    <2>2. PICK l \in Nat, r \in Nat : g = <<l, r>> /\ Gap(eps, n, l, r)
      BY GapsAre
    <2> QED
      BY <1>1, <2>1, <2>2
  <1>3. ASSUME NEW b, NEW l, NEW r, In(b, l, r)
        PROVE  /\ b \in Coordinates /\ Multiple(b[1], BlockSize(b[2])) /\ l <= b[1] /\ End(b) <= r
               /\ b[1] \in Nat /\ End(b) \in Nat /\ b[1] < End(b) /\ r <= n
    <2>1. b \in Coordinates /\ Multiple(b[1], BlockSize(b[2])) /\ l <= b[1] /\ End(b) <= r
      BY <1>3 DEF Tiles
    <2>2. b[1] \in Nat /\ b[2] \in Nat
      BY <2>1, CoordinateIsPair
    <2>3. BlockSize(b[2]) \in Nat \ {0}
      BY <2>2, BlockSizes
    <2> QED
      BY <1>3, <2>1, <2>2, <2>3 DEF End, Gap
  <1> HIDE DEF runs
  <1>4. ASSUME NEW b \in runs PROVE b \in Blocks(n)
    <2>1. PICK l, r : In(b, l, r)
      BY <1>2
    <2>2. l \in Nat /\ r \in Nat
      BY <2>1
    <2> HIDE DEF In
    <2> QED
      BY <1>3, <2>1, <2>2 DEF Blocks
  <1>5. ASSUME NEW b \in runs, NEW i \in Nat, b[1] <= i, i < End(b) PROVE ~IsActiveAt(eps, i)
    <2>1. PICK l, r : In(b, l, r)
      BY <1>2
    <2>2. l <= b[1] /\ End(b) <= r /\ b[1] \in Nat /\ End(b) \in Nat
      <3> HIDE DEF In
      <3> QED
        BY <1>3, <2>1
    <2>3. i \in l..r - 1
      BY <1>5, <2>1, <2>2
    <2> QED
      BY <2>1, <2>3 DEF Gap
  <1>6. ASSUME NEW b \in runs, NEW c \in runs, b # c PROVE End(b) <= c[1] \/ End(c) <= b[1]
    <2>1. PICK l, r : In(b, l, r)
      BY <1>2
    <2>2. PICK x, y : In(c, x, y)
      BY <1>2
    <2>3. CASE l = x /\ r = y
      BY <1>6, <2>1, <2>2, <2>3 DEF Tiles
    <2>4. CASE r <= x \/ y <= l
      <3>1. l \in Nat /\ r \in Nat /\ x \in Nat /\ y \in Nat
        BY <2>1, <2>2
      <3> HIDE DEF In
      <3>2. /\ l <= b[1] /\ End(b) <= r /\ x <= c[1] /\ End(c) <= y
            /\ b[1] \in Nat /\ End(b) \in Nat /\ c[1] \in Nat /\ End(c) \in Nat
        BY <1>3, <2>1, <2>2
      <3> QED
        BY <2>4, <3>1, <3>2
    <2> QED
      BY <2>1, <2>2, <2>3, <2>4, GapsApart
  <1>7. ASSUME NEW i \in 0..n - 1, ~IsActiveAt(eps, i) PROVE \E b \in runs : b[1] <= i /\ i < End(b)
    <2>1. PICK l \in Nat, r \in Nat : Gap(eps, n, l, r) /\ l <= i /\ i < r
      BY <1>7, GapAround
    <2>2. i \in l..r - 1
      BY <2>1
    <2>3. PICK b \in DecomposeGap(<<l, r>>) : b[1] <= i /\ i < End(b)
      BY <1>1, <2>1, <2>2 DEF Tiles
    <2> QED
      BY <1>1, <2>1, <2>3
  <1>8. RunsTile(eps, n, runs)
    BY <1>4, <1>5, <1>6, <1>7 DEF RunsTile
  <1> QED
    BY <1>8 DEF runs

\* In a valid timeline an interval starts where an earlier one ended, or later.
LEMMA StartsGrow ==
  ASSUME NEW eps \in Seq(Interval), NEW n \in Nat, ValidEpochs(eps, n),
         NEW e \in 1..Len(eps), NEW f \in 1..Len(eps), e < f
  PROVE  eps[e][2] <= eps[f][1]
  <1> DEFINE S == {k \in Nat : e + k < Len(eps) => eps[e][2] <= eps[e + k + 1][1]}
  <1>1. Len(eps) \in Nat /\ e \in Nat /\ e >= 1 /\ f \in Nat
    OBVIOUS
  <1>2. 0 \in S
    <2> SUFFICES ASSUME e < Len(eps) PROVE eps[e][2] <= eps[e + 1][1]
      OBVIOUS
    <2>1. e + 1 \in 1..Len(eps) /\ e + 1 > 1 /\ (e + 1) - 1 = e
      BY <1>1
    <2> QED
      BY <2>1, ValidInterval
  <1>3. ASSUME NEW k \in Nat, k \in S PROVE k + 1 \in S
    <2> SUFFICES ASSUME e + (k + 1) < Len(eps) PROVE eps[e][2] <= eps[e + (k + 1) + 1][1]
      OBVIOUS
    <2> DEFINE x == e + k + 1
    <2>1. x \in 1..Len(eps) /\ x + 1 \in 1..Len(eps) /\ x + 1 > 1 /\ (x + 1) - 1 = x
          /\ e + k < Len(eps) /\ x + 1 = e + (k + 1) + 1
      BY <1>1
    <2>2. eps[e][2] <= eps[x][1]
      BY <1>3, <2>1
    <2> HIDE DEF x
    <2>3. eps[x][1] <= eps[x][2] /\ eps[x + 1][1] >= eps[x][2]
          /\ eps[x][1] \in Nat /\ eps[x][2] \in Nat /\ eps[x + 1][1] \in Nat /\ eps[e][2] \in Nat
      BY <2>1, ValidInterval
    <2>4. eps[e][2] <= eps[x + 1][1]
      <3> DEFINE p == eps[x][1]
                 q == eps[x][2]
                 s == eps[x + 1][1]
                 t == eps[e][2]
      <3>1. t <= p /\ p <= q /\ s >= q /\ p \in Nat /\ q \in Nat /\ s \in Nat /\ t \in Nat
        BY <2>2, <2>3
      <3> HIDE DEF p, q, s, t
      <3>2. t <= s
        BY <3>1
      <3> QED
        BY <3>2 DEF s, t
    <2> QED
      BY <2>1, <2>4
  <1> HIDE DEF S
  <1>4. f - e - 1 \in Nat
    BY <1>1
  <1>5. f - e - 1 \in S
    BY <1>2, <1>3, <1>4, SetInduction
  <1>6. e + (f - e - 1) < Len(eps) /\ e + (f - e - 1) + 1 = f
    BY <1>1
  <1> QED
    BY <1>5, <1>6 DEF S

\* The timeline committed for a size has the activity of the positions below it.
LEMMA CommittedActivity ==
  ASSUME NEW eps \in Seq(Interval), NEW c \in Nat, eps # <<>> => ValidEpochs(eps, c), c < Open,
         NEW n \in 0..c, NEW i \in 0..n - 1
  PROVE  IsActiveAt(EpochsAt(eps, n), i) <=> IsActiveAt(eps, i)
  <1>1. CASE Cut(eps, n) = {}
    BY <1>1 DEF EpochsAt, Cut
  <1>2. CASE Cut(eps, n) # {}
    <2>1. eps # <<>> /\ ValidEpochs(eps, c) /\ Len(eps) \in Nat /\ DOMAIN eps = 1..Len(eps)
      BY <1>2 DEF Cut
    <2>2. Cut(eps, n) \in SUBSET Nat /\ Cut(eps, n) \subseteq 1..Len(eps)
      BY <2>1 DEF Cut
    <2>3. PICK f \in Cut(eps, n) : IsFirst(f, eps, n)
      BY <1>2, <2>2, LeastExists DEF IsFirst
    <2>4. /\ f \in 1..Len(eps) /\ (eps[f][1] > n \/ eps[f][2] > n)
          /\ \A e \in 1..Len(eps) : eps[e][1] \in Nat /\ eps[e][2] \in Nat
      BY <2>1, <2>2, <2>3, ValidInterval DEF Cut
    <2>5. \A e \in 1..Len(eps) : e > f => eps[f][2] <= eps[e][1]
      BY <2>1, <2>4, StartsGrow
    <2>6. eps[f][1] <= eps[f][2] /\ n \in Nat /\ i \in Nat /\ i < n /\ n < Open
      BY <2>1, <2>4, ValidInterval, OpenAssumption
    <2>7. \A e \in 1..Len(eps) : eps[e][1] <= i => e <= f
      BY SMTT(30), <2>4, <2>5, <2>6
    <2> DEFINE before == SubSeq(eps, 1, f - 1)
    <2>8. Len(before) = f - 1 /\ DOMAIN before = 1..f - 1 /\ \A e \in 1..f - 1 : before[e] = eps[e]
      BY <2>4
    <2>11. /\ eps[f][1] > n => EpochsAt(eps, n) = before
           /\ ~(eps[f][1] > n) => EpochsAt(eps, n) = Append(before, <<eps[f][1], Open>>)
      BY <2>3, <2>6, CommittedByFirst
    <2>9. CASE eps[f][1] > n
      <3>1. EpochsAt(eps, n) = before
        BY <2>9, <2>11
      <3> HIDE DEF before
      <3>2. \A e \in 1..Len(eps) : eps[e][1] <= i => e \in 1..f - 1
        BY <2>4, <2>6, <2>7, <2>9
      <3> QED
        BY <2>1, <2>4, <2>8, <3>1, <3>2 DEF IsActiveAt
    <2>10. CASE ~(eps[f][1] > n)
      <3> DEFINE at == Append(before, <<eps[f][1], Open>>)
      <3>1. EpochsAt(eps, n) = at
        BY <2>10, <2>11
      <3>2. eps[f][2] > n
        BY <2>4, <2>10
      <3>3. DOMAIN at = 1..f /\ at[f] = <<eps[f][1], Open>> /\ \A e \in 1..f - 1 : at[e] = eps[e]
        <4>1. before \in Seq(Interval)
          BY <2>4
        <4> HIDE DEF before
        <4> QED
          BY <2>4, <2>8, <4>1
      <3> HIDE DEF at, before
      <3>4. at[f][1] = eps[f][1] /\ at[f][2] = Open
        BY <3>3
      <3>5. \A e \in 1..f : e \in 1..f - 1 \/ e = f
        BY <2>4
      <3>6. ASSUME IsActiveAt(at, i) PROVE IsActiveAt(eps, i)
        <4>1. PICK e \in 1..f : at[e][1] <= i /\ i < at[e][2]
          BY <3>3, <3>6 DEF IsActiveAt
        <4>2. e \in DOMAIN eps
          BY <2>1, <2>4
        <4>3. eps[e][1] <= i /\ i < eps[e][2]
          BY <2>4, <2>6, <3>2, <3>3, <3>4, <3>5, <4>1, <4>2, <2>1
        <4> QED
          BY <4>2, <4>3 DEF IsActiveAt
      <3>7. ASSUME IsActiveAt(eps, i) PROVE IsActiveAt(at, i)
        <4>1. PICK e \in 1..Len(eps) : eps[e][1] <= i /\ i < eps[e][2]
          BY <2>1, <3>7 DEF IsActiveAt
        <4>2. e \in 1..f
          BY <2>4, <2>7, <4>1
        <4>3. CASE e = f
          <5>1. at[f][1] <= i /\ i < at[f][2]
            BY <2>4, <2>6, <3>4, <4>1, <4>3, OpenAssumption
          <5> QED
            BY <3>3, <4>2, <4>3, <5>1 DEF IsActiveAt
        <4>4. CASE e \in 1..f - 1
          <5>1. at[e][1] <= i /\ i < at[e][2]
            BY <3>3, <4>1, <4>4
          <5> QED
            BY <3>3, <4>2, <5>1 DEF IsActiveAt
        <4> QED
          BY <3>5, <4>2, <4>3, <4>4
      <3> QED
        BY <3>1, <3>6, <3>7
    <2> QED
      BY <2>9, <2>10
  <1> QED
    BY <1>1, <1>2

-----------------------------------------------------------------------------

\* The timelines of the log, without its digests: what their null runs rest on.
TimelineKept ==
  /\ StoreMirrorsHandle
  /\ count \in 0..MaxCount
  /\ epochs \in [Algs -> Seq(Interval)]
  /\ \A a \in Algs : Registered(a) => ValidEpochs(epochs[a], count)

\* A step that gives one algorithm valid intervals keeps them.
LEMMA OneTimelineChanges ==
  ASSUME TimelineKept, StoreMirrorsHandle', NEW a \in Algs, NEW eps \in Seq(Interval),
         ValidEpochs(eps, count), SetEpochs(a, eps), count' = count
  PROVE  TimelineKept'
  <1>1. epochs' = [epochs EXCEPT ![a] = eps]
    BY DEF SetEpochs
  <1>2. epochs' \in [Algs -> Seq(Interval)] /\ count' \in 0..MaxCount
    BY <1>1 DEF TimelineKept
  <1>3. ASSUME NEW b \in Algs, epochs'[b] # <<>> PROVE ValidEpochs(epochs'[b], count)
    <2>1. CASE b = a
      BY <1>1, <2>1 DEF TimelineKept
    <2>2. CASE b # a
      <3>1. epochs'[b] = epochs[b]
        BY <1>1, <2>2 DEF TimelineKept
      <3> QED
        BY <1>3, <3>1 DEF TimelineKept, Registered
    <2> QED
      BY <2>1, <2>2
  <1> QED
    BY <1>2, <1>3 DEF TimelineKept, Registered

\* Every operation keeps them.
LEMMA TimelineStep == TimelineKept /\ [Next]_vars => TimelineKept'
  <1> SUFFICES ASSUME TimelineKept, [Next]_vars PROVE TimelineKept'
    OBVIOUS
  <1>1. StoreMirrorsHandle'
    BY MirrorStep DEF TimelineKept
  <1>2. count \in Nat /\ count < Open
        /\ \A a \in Algs : epochs[a] \in Seq(Interval)
    BY LogAssumption, OpenAssumption DEF TimelineKept
  <1>3. CASE AppendLeaf \/ AppendSubtree
    <2>1. count < MaxCount /\ count' = count + 1 /\ epochs' = epochs
      BY <1>3, AppendSteps
    <2>2. count' \in 0..MaxCount
      BY <2>1, LogAssumption DEF TimelineKept
    <2>3. ASSUME NEW a \in Algs, epochs[a] # <<>> PROVE ValidEpochs(epochs[a], count + 1)
      BY <1>2, <2>3, GrowKeeps DEF TimelineKept, Registered
    <2> QED
      BY <1>1, <2>1, <2>2, <2>3 DEF TimelineKept, Registered
  <1>4. ASSUME NEW a \in Algs, AddAlgorithm(a) PROVE TimelineKept'
    <2> DEFINE eps == <<<<count, Open>>>>
    <2>1. SetEpochs(a, eps) /\ count' = count
      BY <1>4 DEF AddAlgorithm
    <2>2. eps \in Seq(Interval) /\ ValidEpochs(eps, count)
      BY <1>2, OpenAssumption DEF Interval, ValidEpochs
    <2> HIDE DEF eps
    <2> QED
      BY <1>1, <2>1, <2>2, OneTimelineChanges
  <1>5. ASSUME NEW a \in Algs, RemoveAlgorithm(a) PROVE TimelineKept'
    <2> DEFINE eps == Closed(epochs[a], count)
    <2>1. SetEpochs(a, eps) /\ count' = count /\ IsActive(epochs[a])
      BY <1>5 DEF RemoveAlgorithm, Closed
    <2>2. ValidEpochs(epochs[a], count)
      BY <2>1 DEF TimelineKept, Registered, IsActive
    <2>3. eps \in Seq(Interval) /\ ValidEpochs(eps, count)
      BY <1>2, <2>1, <2>2, CloseValid, CloseLast DEF IsActive
    <2> HIDE DEF eps
    <2> QED
      BY <1>1, <2>1, <2>3, OneTimelineChanges
  <1>6. ASSUME NEW a \in Algs, ResumeAlgorithm(a) PROVE TimelineKept'
    <2> DEFINE eps == Resumed(epochs[a], count)
    <2>1. SetEpochs(a, eps) /\ count' = count /\ ~IsActive(epochs[a]) /\ Registered(a)
      BY <1>6 DEF ResumeAlgorithm, Resumed
    <2>2. eps \in Seq(Interval)
      BY <1>2, OpenAssumption DEF Resumed, Interval
    <2>3. ValidEpochs(eps, count)
      BY <1>2, <2>1, ResumeValid DEF TimelineKept
    <2> HIDE DEF eps
    <2> QED
      BY <1>1, <2>1, <2>2, <2>3, OneTimelineChanges
  <1>7. CASE Reopen \/ UNCHANGED vars
    <2>1. count' = count /\ epochs' = epochs
      BY <1>7 DEF Reopen, vars, handle, TimelineKept, StoreMirrorsHandle
    <2> QED
      BY <1>1, <2>1 DEF TimelineKept, Registered
  <1> QED
    BY <1>3, <1>4, <1>5, <1>6, <1>7 DEF Next

\* They hold in every reachable state, with any items.
LEMMA TimelinesKept == Spec => []TimelineKept
  <1>1. Init => TimelineKept
    <2> SUFFICES ASSUME Init PROVE TimelineKept
      OBVIOUS
    <2>1. <<<<0, Open>>>> \in Seq(Interval) /\ <<>> \in Seq(Interval)
      BY OpenAssumption DEF Interval
    <2>2. ValidEpochs(<<<<0, Open>>>>, 0)
      BY OpenAssumption DEF ValidEpochs
    <2>3. epochs \in [Algs -> Seq(Interval)]
      BY <2>1 DEF Init
    <2>4. \A a \in Algs : epochs[a] # <<>> => epochs[a] = <<<<0, Open>>>>
      BY DEF Init
    <2>5. count = 0 /\ 0 \in 0..MaxCount /\ storedCount = count /\ metas = epochs
      BY LogAssumption DEF Init
    <2> QED
      BY <2>2, <2>3, <2>4, <2>5 DEF TimelineKept, StoreMirrorsHandle, Registered
  <1> QED
    BY <1>1, TimelineStep, PTL DEF Spec

\* Null runs that tile the inactive positions are what the property says.
LEMMA RunsSaid ==
  ASSUME TimelineKept
  PROVE  NullRunsAreTheInactivePositions
  <1> DEFINE block(r) == r[1]..r[1] + BlockSize(r[2]) - 1
  <1> SUFFICES ASSUME NEW a \in Algs, NEW n \in 0..count
               PROVE  LET runs == NullRuns(EpochsAt(epochs[a], n), n)
                      IN  /\ runs \subseteq PerfectSubtrees(n)
                          /\ \A r, q \in runs : r # q => block(r) \cap block(q) = {}
                          /\ UNION {block(r) : r \in runs} = {i \in 0..n - 1 : ~IsActiveAt(epochs[a], i)}
                          /\ Registered(a) => \A r \in runs : ReferenceNode(a, r[1], r[2]) = Null(a)
    BY DEF NullRunsAreTheInactivePositions
  <1>1. /\ epochs[a] \in Seq(Interval) /\ count \in Nat /\ count < Open /\ n \in Nat
        /\ epochs[a] # <<>> => ValidEpochs(epochs[a], count)
    BY LogAssumption, OpenAssumption DEF TimelineKept, Registered
  <1> DEFINE eps == EpochsAt(epochs[a], n)
             runs == NullRuns(eps, n)
  <1>2. \A i \in 0..n - 1 : IsActiveAt(eps, i) <=> IsActiveAt(epochs[a], i)
    BY <1>1, CommittedActivity
  <1>3. RunsTile(eps, n, runs)
    BY <1>1, NullRunsTile
  <1> HIDE DEF eps, runs
  <1>4. ASSUME NEW b \in runs
        PROVE  /\ b \in Coordinates /\ b[1] \in Nat /\ b[2] \in Nat /\ BlockSize(b[2]) \in Nat
               /\ b[1] + BlockSize(b[2]) <= n /\ b = <<b[1], b[2]>> /\ b \in PerfectSubtrees(n)
    <2>1. b \in Blocks(n)
      BY <1>3 DEF RunsTile
    <2>2. b \in Coordinates /\ End(b) <= n
      BY <2>1 DEF Blocks
    <2>3. b[1] \in Nat /\ b[2] \in Nat /\ b = <<b[1], b[2]>>
      BY <2>2, CoordinateIsPair
    <2> QED
      BY <1>1, <2>1, <2>2, <2>3, BlockSizes, PerfectAreBlocks DEF End
  <1>5. ASSUME NEW b \in runs, NEW i \in block(b)
        PROVE  i \in 0..n - 1 /\ ~IsActiveAt(epochs[a], i)
    <2>1. i \in Nat /\ b[1] <= i /\ i < b[1] + BlockSize(b[2]) /\ i \in 0..n - 1
      BY <1>4
    <2>2. ~IsActiveAt(eps, i)
      BY <1>3, <2>1 DEF RunsTile, End
    <2> QED
      BY <1>2, <2>1, <2>2
  <1>6. ASSUME NEW b \in runs, NEW c \in runs, b # c PROVE block(b) \cap block(c) = {}
    <2>1. End(b) <= c[1] \/ End(c) <= b[1]
      BY <1>3, <1>6 DEF RunsTile
    <2>2. /\ b[1] \in Nat /\ c[1] \in Nat /\ BlockSize(b[2]) \in Nat /\ BlockSize(c[2]) \in Nat
      BY <1>4
    <2> QED
      BY <2>1, <2>2 DEF End
  <1>7. ASSUME NEW i \in 0..n - 1, ~IsActiveAt(epochs[a], i) PROVE \E b \in runs : i \in block(b)
    <2>1. ~IsActiveAt(eps, i)
      BY <1>2, <1>7
    <2>2. PICK b \in runs : b[1] <= i /\ i < End(b)
      BY <1>3, <1>7, <2>1 DEF RunsTile
    <2>3. i \in block(b)
      BY <1>4, <2>2 DEF End
    <2> QED
      BY <2>3
  <1>8. ASSUME NEW b \in runs PROVE ReferenceNode(a, b[1], b[2]) = Null(a)
    <2> DEFINE ref == Ref(a)
    <2>1. /\ TreeOf(a, ref)
          /\ \A l \in Nat : ref[<<l, 0>>] = LeafOf(a)[l]
          /\ ref[<<b[1], b[2]>>] = PerfectRoot(a, LeafOf(a), b[1], b[2])
      BY <1>4, RootsAreTree DEF Ref
    <2>2. ReferenceNode(a, b[1], b[2]) = ref[<<b[1], b[2]>>]
      BY <2>1 DEF ReferenceNode, LeafOf
    <2> HIDE DEF ref
    <2>3. ASSUME NEW i \in Under(b[1], b[2]) PROVE ref[<<i, 0>>] = Null(a)
      <3>1. i \in Nat /\ i \in block(b)
        BY <1>4 DEF Under
      <3>2. ~IsActiveAt(epochs[a], i)
        BY <1>5, <3>1
      <3>3. LeafOf(a)[i] = ReferenceLeaf(a, i)
        BY <3>1 DEF LeafOf
      <3> QED
        BY <2>1, <3>1, <3>2, <3>3 DEF ReferenceLeaf
    <2>4. ref[<<b[1], b[2]>>] = Null(a)
      BY <1>4, <2>1, <2>3, NullRoots
    <2> QED
      BY <2>2, <2>4
  <1>9. UNION {block(b) : b \in runs} = {i \in 0..n - 1 : ~IsActiveAt(epochs[a], i)}
    <2> HIDE DEF block
    <2> QED
      BY <1>5, <1>7
  <1>10. runs \subseteq PerfectSubtrees(n)
    BY <1>4
  <1> HIDE DEF block
  <1> QED
    BY <1>6, <1>8, <1>9, <1>10 DEF runs, eps

\* The runs a combined root commits to are the positions an algorithm missed: they
\* are disjoint blocks of its tree, null there, that cover exactly those positions,
\* at every size and whatever was frozen or resumed since.  No item is excluded.
THEOREM NullRunsAlwaysInactive == Spec => []NullRunsAreTheInactivePositions
  BY TimelinesKept, RunsSaid, PTL
=============================================================================
