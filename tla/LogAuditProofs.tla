--------------------------- MODULE LogAuditProofs ---------------------------
(***************************************************************************)
(* Theorems about LogAudit.                                                *)
(***************************************************************************)
EXTENDS LogAudit, LogPathProofs

-----------------------------------------------------------------------------
(* The past of a timeline *)

\* What no operation on a log of c positions changes of an algorithm's intervals.
SamePast(eps, fps, c) ==
  /\ \A i \in 0..c - 1 : IsActiveAt(fps, i) <=> IsActiveAt(eps, i)
  /\ eps # <<>> => /\ fps # <<>> /\ FirstActivation(fps) = FirstActivation(eps)
                   /\ \A n \in 0..c : EffectiveSizeAt(fps, n) = EffectiveSizeAt(eps, n)
  /\ eps = <<>> /\ fps # <<>> => c <= FirstActivation(fps)

\* The sizes below n at which intervals ended.
EndedBefore(eps, n) == {eps[e][2] : e \in {x \in DOMAIN eps : eps[x][2] < n}}

\* The effective size depends on the activity below n and on what ended by then.
LEMMA EffectiveAlike ==
  ASSUME NEW eps, NEW fps, NEW n \in Nat, FirstActivation(fps) = FirstActivation(eps),
         n > 0 => (IsActiveAt(fps, n - 1) <=> IsActiveAt(eps, n - 1)),
         EndedBefore(fps, n) = EndedBefore(eps, n), FirstActivation(eps) \in Nat
  PROVE  EffectiveSizeAt(fps, n) = EffectiveSizeAt(eps, n)
  <1>1. n <= FirstActivation(eps) \/ n > 0
    OBVIOUS
  <1> QED
    BY <1>1 DEF EffectiveSizeAt, EndedBefore

\* remove_algorithm leaves the past alone.
LEMMA ClosePast ==
  ASSUME NEW eps \in Seq(Interval), NEW c \in Nat, c < Open, IsActive(eps)
  PROVE  SamePast(eps, Closed(eps, c), c)
  <1> DEFINE fps == Closed(eps, c)
  <1>1. /\ fps \in Seq(Interval) /\ Len(fps) = Len(eps) /\ Len(eps) \in Nat \ {0}
        /\ \A e \in 1..Len(eps) - 1 : fps[e] = eps[e]
        /\ fps[Len(eps)][1] = eps[Len(eps)][1] /\ fps[Len(eps)][2] = c
    BY CloseLast DEF IsActive
  <1>2. eps[Len(eps)][2] = Open /\ DOMAIN eps = 1..Len(eps) /\ DOMAIN fps = 1..Len(eps)
        /\ eps # <<>> /\ fps # <<>>
    BY <1>1 DEF IsActive, LastEpoch
  <1>3. \A i \in 0..c - 1 : IsActiveAt(fps, i) <=> IsActiveAt(eps, i)
    BY CloseActivity
  <1> HIDE DEF fps
  <1>4. \A e \in 1..Len(eps) : fps[e] = eps[e] \/ e = Len(eps)
    BY <1>1
  <1>5. FirstActivation(fps) = FirstActivation(eps) /\ FirstActivation(eps) \in Nat
    <2>1. 1 \in 1..Len(eps) /\ eps[1] \in Interval
      BY <1>1, <1>2
    <2>2. fps[1][1] = eps[1][1] /\ eps[1][1] \in Nat
      BY <1>1, <1>4, <2>1, IntervalIsPair
    <2> QED
      BY <1>2, <2>2 DEF FirstActivation
  <1>6. ASSUME NEW n \in 0..c PROVE EffectiveSizeAt(fps, n) = EffectiveSizeAt(eps, n)
    <2>1. ~(c < n) /\ ~(Open < n) /\ n \in Nat
      BY OpenAssumption
    <2>2. \A e \in 1..Len(eps) : fps[e][2] < n => fps[e] = eps[e] /\ eps[e][2] < n
      BY <1>1, <1>4, <2>1
    <2>3. \A e \in 1..Len(eps) : eps[e][2] < n => fps[e] = eps[e] /\ fps[e][2] < n
      BY <1>2, <1>4, <2>1
    <2>4. EndedBefore(fps, n) = EndedBefore(eps, n)
      BY <1>2, <2>2, <2>3 DEF EndedBefore
    <2>5. n > 0 => n - 1 \in 0..c - 1
      OBVIOUS
    <2> QED
      BY <1>3, <1>5, <2>1, <2>4, <2>5, EffectiveAlike
  <1>7. SamePast(eps, fps, c)
    BY <1>2, <1>3, <1>5, <1>6 DEF SamePast
  <1> QED
    BY <1>7 DEF fps

\* So does resume_algorithm.
LEMMA ResumePast ==
  ASSUME NEW eps \in Seq(Interval), NEW c \in Nat, c < Open, eps # <<>>
  PROVE  SamePast(eps, Resumed(eps, c), c)
  <1> DEFINE fps == Resumed(eps, c)
             last == Len(eps) + 1
  <1>1. /\ fps \in Seq(Interval) /\ Len(fps) = last /\ Len(eps) \in Nat
        /\ \A e \in 1..Len(eps) : fps[e] = eps[e]
        /\ fps[last][1] = c /\ fps[last][2] = Open
    BY StartAnother
  <1>2. DOMAIN eps = 1..Len(eps) /\ DOMAIN fps = 1..last /\ Len(eps) >= 1 /\ fps # <<>>
    BY <1>1
  <1>3. \A i \in 0..c - 1 : IsActiveAt(fps, i) <=> IsActiveAt(eps, i)
    BY ResumeActivity
  <1> HIDE DEF fps
  <1>4. \A e \in 1..last : e \in 1..Len(eps) \/ e = last
    BY <1>1
  <1>5. FirstActivation(fps) = FirstActivation(eps) /\ FirstActivation(eps) \in Nat
    <2>1. 1 \in 1..Len(eps) /\ eps[1] \in Interval
      BY <1>1, <1>2
    <2>2. fps[1][1] = eps[1][1] /\ eps[1][1] \in Nat
      BY <1>1, <2>1, IntervalIsPair
    <2> QED
      BY <1>2, <2>2 DEF FirstActivation
  <1>6. ASSUME NEW n \in 0..c PROVE EffectiveSizeAt(fps, n) = EffectiveSizeAt(eps, n)
    <2>1. ~(Open < n) /\ n \in Nat
      BY OpenAssumption
    <2>2. \A e \in 1..last : fps[e][2] < n => e \in 1..Len(eps) /\ fps[e] = eps[e]
      BY <1>1, <1>4, <2>1
    <2>3. \A e \in 1..Len(eps) : e \in 1..last /\ fps[e] = eps[e]
      BY <1>1
    <2> HIDE DEF last
    <2>4. EndedBefore(fps, n) = EndedBefore(eps, n)
      BY <1>2, <2>2, <2>3 DEF EndedBefore
    <2>5. n > 0 => n - 1 \in 0..c - 1
      OBVIOUS
    <2> QED
      BY <1>3, <1>5, <2>1, <2>4, <2>5, EffectiveAlike
  <1>7. SamePast(eps, fps, c)
    BY <1>2, <1>3, <1>5, <1>6 DEF SamePast
  <1> QED
    BY <1>7 DEF fps

\* So does the registration of an algorithm.
LEMMA AddPast ==
  ASSUME NEW c \in Nat
  PROVE  SamePast(<<>>, <<<<c, Open>>>>, c)
  <1> DEFINE fps == <<<<c, Open>>>>
  <1>1. DOMAIN fps = {1} /\ fps[1][1] = c /\ fps # <<>>
    OBVIOUS
  <1> HIDE DEF fps
  <1>2. \A i \in 0..c - 1 : ~IsActiveAt(fps, i) /\ ~IsActiveAt(<<>>, i)
    BY <1>1 DEF IsActiveAt
  <1>3. FirstActivation(fps) = c
    BY <1>1 DEF FirstActivation
  <1>4. SamePast(<<>>, fps, c)
    BY <1>1, <1>2, <1>3 DEF SamePast
  <1> QED
    BY <1>4 DEF fps

\* And every operation of an algorithm that changes nothing.
LEMMA NoPast ==
  ASSUME NEW eps, NEW c \in Nat
  PROVE  SamePast(eps, eps, c)
  BY DEF SamePast

\* A set of numbers with an upper bound has a greatest element.
LEMMA GreatestIs ==
  ASSUME NEW S \in SUBSET Nat, S # {}, NEW n \in Nat, \A x \in S : x <= n
  PROVE  Max(S) \in S /\ \A x \in S : x <= Max(S)
  <1> DEFINE T == {k \in Nat : \A x \in S : x <= k}
  <1>1. PICK k \in T : \A j \in T : k <= j
    <2>1. n \in T
      OBVIOUS
    <2> QED
      BY <2>1, LeastExists
  <1>2. k \in S
    <2> SUFFICES ASSUME k \notin S PROVE FALSE
      OBVIOUS
    <2>1. PICK x \in S : TRUE
      OBVIOUS
    <2>2. \A y \in S : y <= k - 1
      BY <1>1
    <2>3. k - 1 \in Nat
      BY <1>1, <2>1, <2>2
    <2>4. k - 1 \in T
      BY <2>2, <2>3
    <2> QED
      BY <1>1, <2>4
  <1> QED
    BY <1>1, <1>2 DEF Max

\* The effective size is within the size, and within the tree.
LEMMA EffectiveInTree ==
  ASSUME NEW eps \in Seq(Interval), NEW c \in Nat, c < Open, eps # <<>> => ValidEpochs(eps, c),
         NEW n \in 0..c
  PROVE  EffectiveSizeAt(eps, n) \in 0..n /\ EffectiveSizeAt(eps, n) <= TreeSize(eps, c)
  <1> SUFFICES ASSUME eps # <<>>
               PROVE  EffectiveSizeAt(eps, n) \in 0..n /\ EffectiveSizeAt(eps, n) <= TreeSize(eps, c)
    <2>1. eps = <<>> => EffectiveSizeAt(eps, n) = 0 /\ TreeSize(eps, c) = 0
      <3> SUFFICES ASSUME eps = <<>> PROVE EffectiveSizeAt(eps, n) = 0 /\ TreeSize(eps, c) = 0
        OBVIOUS
      <3>1. DOMAIN eps = {}
        OBVIOUS
      <3>2. EndedBefore(eps, n) = {} /\ ~IsActiveAt(eps, n - 1) /\ FirstActivation(eps) = 0
        BY <3>1 DEF EndedBefore, IsActiveAt, FirstActivation
      <3> QED
        BY <3>2 DEF EffectiveSizeAt, EndedBefore, TreeSize
    <2> QED
      BY <2>1
  <1>1. /\ TreeSize(eps, c) \in 0..c
        /\ \A i \in 0..c - 1 : IsActiveAt(eps, i) => i < TreeSize(eps, c)
    BY TreeSpans
  <1>2. DOMAIN eps = 1..Len(eps) /\ Len(eps) \in Nat \ {0} /\ 1 \in 1..Len(eps) /\ Len(eps) \in 1..Len(eps)
    OBVIOUS
  <1>3. ASSUME NEW e \in 1..Len(eps)
        PROVE  eps[e][1] \in Nat /\ eps[e][2] \in Nat /\ eps[e][1] <= eps[e][2]
               /\ eps[e][2] <= eps[Len(eps)][2] /\ (eps[e][2] = Open => eps[e][1] <= c)
    BY ValidInterval, EndsGrow
  <1>4. ASSUME NEW e \in 1..Len(eps), eps[e][2] <= c PROVE eps[e][2] <= TreeSize(eps, c)
    BY <1>2, <1>3, <1>4 DEF TreeSize, IsActive, LastEpoch
  <1>5. CASE n <= FirstActivation(eps)
    <2>1. EffectiveSizeAt(eps, n) = n /\ FirstActivation(eps) = eps[1][1]
      BY <1>5 DEF EffectiveSizeAt, FirstActivation
    <2>2. eps[1][1] <= TreeSize(eps, c)
      <3>1. CASE eps[1][2] = Open
        <4>1. eps[Len(eps)][2] = Open
          BY <1>2, <3>1, ValidInterval
        <4>2. TreeSize(eps, c) = c
          BY <4>1 DEF TreeSize, IsActive, LastEpoch
        <4> QED
          BY <1>2, <1>3, <3>1, <4>2
      <3>2. CASE eps[1][2] # Open
        <4>1. eps[1][2] <= c
          BY <1>2, <3>2, ValidInterval
        <4>2. eps[1][2] <= TreeSize(eps, c)
          BY <1>2, <1>4, <4>1
        <4> QED
          BY <1>1, <1>2, <1>3, <4>2
      <3> QED
        BY <3>1, <3>2
    <2> QED
      BY <1>1, <1>2, <1>3, <1>5, <2>1, <2>2
  <1>6. CASE ~(n <= FirstActivation(eps)) /\ IsActiveAt(eps, n - 1)
    <2>1. EffectiveSizeAt(eps, n) = n
      BY <1>6 DEF EffectiveSizeAt
    <2>2. n > 0
      BY <1>2, <1>3, <1>6 DEF FirstActivation
    <2>3. n - 1 < TreeSize(eps, c)
      BY <1>1, <1>6, <2>2
    <2> QED
      BY <1>1, <2>1, <2>3
  <1>7. CASE ~(n <= FirstActivation(eps)) /\ ~IsActiveAt(eps, n - 1)
    <2> DEFINE ended == EndedBefore(eps, n)
    <2>1. EffectiveSizeAt(eps, n) = IF ended = {} THEN 0 ELSE Max(ended)
      BY <1>7 DEF EffectiveSizeAt, EndedBefore
    <2>2. \A x \in ended : x \in 0..n - 1 /\ x <= TreeSize(eps, c)
      <3> SUFFICES ASSUME NEW e \in 1..Len(eps), eps[e][2] < n
                   PROVE  eps[e][2] \in 0..n - 1 /\ eps[e][2] <= TreeSize(eps, c)
        BY <1>2 DEF EndedBefore
      <3> QED
        BY <1>3, <1>4
    <2> HIDE DEF ended
    <2>3. ended # {} => Max(ended) \in ended
      <3>1. ended \in SUBSET Nat /\ n \in Nat /\ \A x \in ended : x <= n
        BY <2>2
      <3> QED
        BY <3>1, GreatestIs
    <2> QED
      BY <1>1, <2>1, <2>2, <2>3
  <1> QED
    BY <1>5, <1>6, <1>7

-----------------------------------------------------------------------------
(* The past of the log *)

\* What no operation changes: the past of every timeline, and the reference's
\* leaves within the log.
PastKept ==
  /\ count' \in Nat /\ count <= count'
  /\ \A a \in Algs : SamePast(epochs[a], epochs'[a], count)
  /\ \A a \in Algs : SameBelow(Ref(a), Ref(a)', count)

\* A step that leaves the history alone and changes the intervals of one algorithm.
LEMMA OnePastKept ==
  ASSUME LogInv, NEW a \in Algs, NEW eps, SamePast(epochs[a], eps, count),
         epochs' = [epochs EXCEPT ![a] = eps], UNCHANGED <<count, history>>
  PROVE  PastKept
  <1>1. count \in Nat /\ epochs \in [Algs -> Seq(Interval)]
    BY SizeKnown DEF LogInv, LogTypeOK
  <1>2. \A b \in Algs : epochs'[b] = IF b = a THEN eps ELSE epochs[b]
    BY <1>1
  <1>3. \A b \in Algs : SamePast(epochs[b], epochs'[b], count)
    BY <1>1, <1>2, NoPast
  <1>4. ASSUME NEW b \in Algs PROVE SameBelow(Ref(b), Ref(b)', count)
    <2>1. \A i \in 0..count - 1 : /\ IsActiveAt(epochs'[b], i) <=> IsActiveAt(epochs[b], i)
                                  /\ history'[i + 1] = history[i + 1]
      BY <1>3 DEF SamePast
    <2> QED
      BY <1>1, <2>1, ReferencesAgree
  <1> QED
    BY <1>1, <1>3, <1>4 DEF PastKept

\* Every operation keeps the past.
LEMMA PastStep ==
  ASSUME NoNullItems, LogInv, Next
  PROVE  PastKept
  <1>1. count \in Nat /\ epochs \in [Algs -> Seq(Interval)] /\ count < Open
    BY SizeKnown, LogAssumption DEF LogInv, LogTypeOK
  <1>2. CASE AppendLeaf \/ AppendSubtree
    <2>1. PICK item \in Offer[count + 1] : AppendItem(item)
      BY <1>2 DEF AppendLeaf, AppendSubtree
    <2>2. Appends(item)
      BY <1>2, <2>1 DEF Appends, AppendItem, AppendLeaf, AppendSubtree
    <2>3. \A a \in Algs : SameBelow(Ref(a), Ref(a)', count)
      BY <2>2, AppendLeavesBelow DEF LogInv
    <2>4. count' = count + 1 /\ epochs' = epochs
      BY <2>2 DEF Appends
    <2>5. \A a \in Algs : SamePast(epochs[a], epochs'[a], count)
      BY <1>1, <2>4, NoPast
    <2> QED
      BY <1>1, <2>3, <2>4, <2>5 DEF PastKept
  <1>3. ASSUME NEW a \in Algs, ResumeAlgorithm(a) PROVE PastKept
    <2> DEFINE eps == Resumed(epochs[a], count)
    <2>1. /\ epochs' = [epochs EXCEPT ![a] = eps] /\ Registered(a)
          /\ UNCHANGED <<count, history>>
      BY <1>3 DEF ResumeAlgorithm, SetEpochs, Resumed, observers
    <2>2. SamePast(epochs[a], eps, count)
      BY <1>1, <2>1, ResumePast DEF Registered
    <2> HIDE DEF eps
    <2> QED
      BY <2>1, <2>2, OnePastKept
  <1>4. ASSUME NEW a \in Algs, RemoveAlgorithm(a) PROVE PastKept
    <2> DEFINE eps == Closed(epochs[a], count)
    <2>1. /\ epochs' = [epochs EXCEPT ![a] = eps] /\ IsActive(epochs[a])
          /\ UNCHANGED <<count, history>>
      BY <1>4 DEF RemoveAlgorithm, SetEpochs, Closed, observers
    <2>2. SamePast(epochs[a], eps, count)
      BY <1>1, <2>1, ClosePast
    <2> HIDE DEF eps
    <2> QED
      BY <2>1, <2>2, OnePastKept
  <1>5. ASSUME NEW a \in Algs, AddAlgorithm(a) PROVE PastKept
    <2> DEFINE eps == <<<<count, Open>>>>
    <2>1. /\ epochs' = [epochs EXCEPT ![a] = eps] /\ epochs[a] = <<>>
          /\ UNCHANGED <<count, history>>
      BY <1>5 DEF AddAlgorithm, SetEpochs, Registered, observers
    <2>2. SamePast(epochs[a], eps, count)
      BY <1>1, <2>1, AddPast
    <2> HIDE DEF eps
    <2> QED
      BY <2>1, <2>2, OnePastKept
  <1>6. CASE Reopen
    <2>1. UNCHANGED <<count, epochs, history>>
      BY <1>6 DEF Reopen, LogInv, StoreMirrorsHandle, observers
    <2>2. \A a \in Algs : SamePast(epochs[a], epochs'[a], count)
      BY <1>1, <2>1, NoPast
    <2>3. ASSUME NEW a \in Algs PROVE SameBelow(Ref(a), Ref(a)', count)
      <3>1. \A i \in 0..count - 1 : /\ IsActiveAt(epochs'[a], i) <=> IsActiveAt(epochs[a], i)
                                    /\ history'[i + 1] = history[i + 1]
        BY <2>1
      <3> QED
        BY <1>1, <3>1, ReferencesAgree
    <2> QED
      BY <1>1, <2>1, <2>2, <2>3 DEF PastKept
  <1> QED
    BY <1>2, <1>3, <1>4, <1>5, <1>6 DEF Next

-----------------------------------------------------------------------------
(* What is stored at all *)

\* Nothing is stored of a block its algorithm was not active in.
StoredActive ==
  \A a \in Algs : \A c \in Coordinates :
    Node(a, c) \in DOMAIN nodes => ActiveRange(epochs[a], c[1], End(c))

\* What a rebuild has to store it was active in.
MixedActive(a, eps, b) ==
  \A x \in DOMAIN b.mixed : \E c \in Coordinates : x = Node(a, c) /\ ActiveRange(eps, c[1], End(c))

\* So it is for every block of a resumed algorithm.
LEMMA RebuildsActive ==
  ASSUME NEW a, NEW eps, NEW l \in Nat, NEW h \in Nat
  PROVE  MixedActive(a, eps, Rebuild(a, eps, l, h))
  <1> DEFINE S == {m \in Nat : \A x \in Nat : MixedActive(a, eps, Rebuild(a, eps, x, m))}
  <1>1. /\ \A x \in Nat : Rebuild(a, eps, x, 0) = [root |-> RebuildLeaf(a, eps, x), mixed |-> <<>>]
        /\ \A x \in Nat, m \in Nat : Rebuild(a, eps, x, m + 1) =
             RebuildStep(a, eps, x, m + 1, [j \in 1..Arity |-> Rebuild(a, eps, x + (j - 1) * BlockSize(m), m)])
    <2>1. RebuildsFromLeaves(a, eps)
      BY RebuildRuns
    <2> QED
      BY <2>1, Zenon DEF RebuildsFromLeaves
  <1>2. \A root : MixedActive(a, eps, [root |-> root, mixed |-> <<>>])
    BY DEF MixedActive
  <1>3. 0 \in S
    BY <1>1, <1>2
  <1>4. ASSUME NEW m \in Nat, m \in S PROVE m + 1 \in S
    <2> SUFFICES ASSUME NEW x \in Nat PROVE MixedActive(a, eps, Rebuild(a, eps, x, m + 1))
      OBVIOUS
    <2> DEFINE C(j) == x + (j - 1) * BlockSize(m)
               below == [j \in 1..Arity |-> Rebuild(a, eps, C(j), m)]
               fam == [j \in 1..Arity |-> below[j].mixed]
               root == NaryMr(a, [j \in 1..Arity |-> below[j].root])
    <2>1. Rebuild(a, eps, x, m + 1) = RebuildStep(a, eps, x, m + 1, below)
      BY <1>1
    <2>2. \A j \in 1..Arity : MixedActive(a, eps, below[j])
      <3>1. \A j \in 1..Arity : C(j) \in Nat
        BY Children
      <3> HIDE DEF C
      <3> QED
        BY <1>4, <3>1
    <2> HIDE DEF below
    <2>3. CASE /\ ActiveRange(eps, x, x + BlockSize(m + 1))
               /\ ~(FullyActive(eps, x, x + BlockSize(m + 1)) /\ <<a, x, m + 1>> \in DOMAIN nodes)
      <3> DEFINE made == Over(Only(<<a, x, m + 1>>, root), Merged(fam))
      <3>1. RebuildStep(a, eps, x, m + 1, below) = [root |-> root, mixed |-> made]
        BY <2>3 DEF RebuildStep
      <3>2. ASSUME NEW y \in DOMAIN made
            PROVE  \E c \in Coordinates : y = Node(a, c) /\ ActiveRange(eps, c[1], End(c))
        <4>1. y = <<a, x, m + 1>> \/ y \in DOMAIN Merged(fam)
          BY <3>2, OverHas DEF Only
        <4>2. CASE y = <<a, x, m + 1>>
          <5>1. <<x, m + 1>> \in Coordinates /\ y = Node(a, <<x, m + 1>>)
            BY <4>2 DEF Coordinates, Node
          <5>2. ActiveRange(eps, <<x, m + 1>>[1], End(<<x, m + 1>>))
            BY <2>3 DEF End
          <5> QED
            BY <5>1, <5>2
        <4>3. CASE y \in DOMAIN Merged(fam)
          <5>1. PICK j \in DOMAIN fam : y \in DOMAIN fam[j]
            BY <4>3, MergedOnly
          <5>2. j \in 1..Arity /\ fam[j] = below[j].mixed
            BY <5>1
          <5> QED
            BY <2>2, <5>1, <5>2 DEF MixedActive
        <4> QED
          BY <4>1, <4>2, <4>3
      <3> HIDE DEF made, root
      <3> QED
        BY <2>1, <3>1, <3>2 DEF MixedActive
    <2>4. CASE ~ActiveRange(eps, x, x + BlockSize(m + 1))
      BY <1>2, <2>1, <2>4 DEF RebuildStep
    <2>5. CASE FullyActive(eps, x, x + BlockSize(m + 1)) /\ <<a, x, m + 1>> \in DOMAIN nodes
      BY <1>2, <2>1, <2>5 DEF RebuildStep
    <2> QED
      BY <2>3, <2>4, <2>5
  <1> HIDE DEF S
  <1>5. h \in S
    BY <1>3, <1>4, SetInduction
  <1> QED
    BY <1>5 DEF S

\* A stored block is within the log.
LEMMA StoredWithin ==
  ASSUME LogInv, NEW a \in Algs, NEW c \in Coordinates, Node(a, c) \in DOMAIN nodes
  PROVE  /\ c \in Blocks(Size(a)) /\ c[1] \in Nat /\ End(c) \in Nat /\ c[1] < End(c) /\ End(c) <= count
         /\ count \in Nat /\ count < Open /\ epochs[a] \in Seq(Interval)
         /\ nodes[Node(a, c)] = Ref(a)[c] /\ Size(a) \in 0..count
  <1>1. c \in Blocks(Size(a)) /\ nodes[Node(a, c)] = Ref(a)[c]
    BY DEF LogInv, StoreKept, Held
  <1>2. /\ count \in Nat /\ count < Open /\ epochs[a] \in Seq(Interval) /\ Size(a) \in 0..count
    BY SizeKnown DEF LogInv
  <1>3. End(c) <= Size(a)
    BY <1>1 DEF Blocks
  <1>4. c[1] \in Nat /\ End(c) \in Nat /\ c[1] < End(c)
    BY CoordinateIsPair
  <1> QED
    BY <1>1, <1>2, <1>3, <1>4

\* A step that stores nothing, or what an algorithm was active in.
LEMMA StoredStays ==
  ASSUME LogInv, StoredActive,
         \A a \in Algs : \A c \in Coordinates : Node(a, c) \in DOMAIN nodes =>
           (ActiveRange(epochs[a], c[1], End(c)) => ActiveRange(epochs'[a], c[1], End(c))),
         \A x \in DOMAIN nodes' : x \in DOMAIN nodes
           \/ \E a \in Algs : \E c \in Coordinates : x = Node(a, c) /\ ActiveRange(epochs'[a], c[1], End(c))
  PROVE  StoredActive'
  <1> SUFFICES ASSUME NEW a \in Algs, NEW c \in Coordinates, Node(a, c) \in DOMAIN nodes'
               PROVE  ActiveRange(epochs'[a], c[1], End(c))
    BY Zenon DEF StoredActive
  <1>1. CASE Node(a, c) \in DOMAIN nodes
    BY <1>1 DEF StoredActive
  <1>2. CASE Node(a, c) \notin DOMAIN nodes
    <2>1. PICK b \in Algs, d \in Coordinates :
            Node(a, c) = Node(b, d) /\ ActiveRange(epochs'[b], d[1], End(d))
      BY <1>2
    <2>2. a = b /\ c = d
      BY <2>1, NodeIsKey
    <2> QED
      BY <2>1, <2>2
  <1> QED
    BY <1>1, <1>2

\* The intervals of one algorithm change, and not what they say of its stored blocks.
LEMMA StoredElsewhere ==
  ASSUME LogInv, NEW a \in Algs, NEW eps, epochs' = [epochs EXCEPT ![a] = eps],
         \A c \in Coordinates : Node(a, c) \in DOMAIN nodes =>
           (ActiveRange(epochs[a], c[1], End(c)) => ActiveRange(eps, c[1], End(c)))
  PROVE  \A b \in Algs : \A c \in Coordinates : Node(b, c) \in DOMAIN nodes =>
           (ActiveRange(epochs[b], c[1], End(c)) => ActiveRange(epochs'[b], c[1], End(c)))
  <1>1. epochs \in [Algs -> Seq(Interval)]
    BY DEF LogInv, LogTypeOK
  <1>2. \A b \in Algs : epochs'[b] = IF b = a THEN eps ELSE epochs[b]
    BY <1>1
  <1> QED
    BY <1>2

\* Of an appended item every active algorithm stores blocks that end with it.
LEMMA AppendsActive ==
  ASSUME LogInv, NoNullItems, NEW item, Appends(item), AppendItem(item), NEW x \in DOMAIN nodes'
  PROVE  x \in DOMAIN nodes
         \/ \E a \in Algs : \E c \in Coordinates : x = Node(a, c) /\ ActiveRange(epochs'[a], c[1], End(c))
  <1> DEFINE active == {a \in Algs : IsActive(epochs[a])}
             carried == [a \in active |-> Carry(a, frontier[a], coords[a], count,
                           IF IsActiveAt(epochs[a], count) THEN Evaluate(a, item) ELSE Null(a))]
             fam == [a \in active |-> Persisted(carried[a].made)]
  <1>1. nodes' = Over(Merged(fam), nodes) /\ epochs' = epochs
    BY DEF AppendItem
  <1>2. x \in DOMAIN nodes \/ x \in DOMAIN Merged(fam)
    <2> HIDE DEF fam
    <2> QED
      BY <1>1, OverHas
  <1> SUFFICES ASSUME x \in DOMAIN Merged(fam)
               PROVE  \E a \in Algs : \E c \in Coordinates : x = Node(a, c) /\ ActiveRange(epochs'[a], c[1], End(c))
    BY <1>2
  <1>3. PICK a \in DOMAIN fam : x \in DOMAIN fam[a]
    <2> HIDE DEF fam
    <2> QED
      BY MergedOnly
  <1>4. a \in Algs /\ IsActive(epochs[a]) /\ a \in active
    BY <1>3
  <1>5. /\ IsActiveAt(epochs[a], count) /\ count \in Nat /\ epochs[a] \in Seq(Interval)
    BY <1>4, SizeKnown DEF LogInv
  <1> DEFINE s == Carry(a, frontier[a], coords[a], count, Evaluate(a, item))
  <1>6. fam[a] = Persisted(s.made)
    BY <1>4, <1>5
  <1> HIDE DEF fam, carried, active, s
  <1>7. Persisted(s.made) = MadeOf(a, count, Ref(a)')
    <2>1. LogTypeOK /\ HistoryKept /\ FrontierKept
      BY DEF LogInv
    <2>2. coords[a] = FrontierForSize(count) /\ frontier[a] = PeaksOf(Ref(a), count)
      BY <1>4, <2>1, SizeKnown DEF FrontierKept
    <2> QED
      BY <1>4, <2>1, <2>2, CarryIs DEF s
  <1>8. PICK j \in 0..ReductionCount(count) : x = <<a, count + 1 - BlockSize(j), j>>
    BY <1>3, <1>6, <1>7 DEF MadeOf, EndingAt
  <1> DEFINE c == <<count + 1 - BlockSize(j), j>>
  <1>9. c \in Blocks(count + 1)
    BY <1>5, NewBlocks
  <1>10. x = Node(a, c) /\ End(c) = count + 1 /\ c[1] \in Nat /\ c[1] <= count /\ c \in Coordinates
    <2>1. c \in Coordinates
      BY <1>9 DEF Blocks
    <2>2. c[1] \in Nat /\ c[1] < End(c) /\ c[1] = count + 1 - BlockSize(j) /\ c[2] = j
          /\ BlockSize(c[2]) \in Nat
      BY <2>1, CoordinateIsPair
    <2>3. End(c) = count + 1
      BY <1>5, <2>2 DEF End
    <2> HIDE DEF c
    <2> QED
      BY <1>5, <1>8, <2>1, <2>2, <2>3 DEF Node
  <1> HIDE DEF c
  <1>11. ActiveRange(epochs[a], c[1], End(c))
    BY <1>5, <1>10, Ranges
  <1> QED
    BY <1>1, <1>4, <1>10, <1>11

\* No operation stores anything of a block its algorithm was not active in.
LEMMA StoredActiveStep ==
  ASSUME NoNullItems, LogInv, StoredActive, Next
  PROVE  StoredActive'
  <1>1. CASE AppendLeaf \/ AppendSubtree
    <2>1. PICK item \in Offer[count + 1] : AppendItem(item)
      BY <1>1 DEF AppendLeaf, AppendSubtree
    <2>2. Appends(item) /\ epochs' = epochs
      BY <1>1, <2>1 DEF Appends, AppendItem, AppendLeaf, AppendSubtree
    <2> QED
      BY <2>1, <2>2, AppendsActive, StoredStays
  <1>2. ASSUME NEW a \in Algs, ResumeAlgorithm(a) PROVE StoredActive'
    <2> DEFINE eps == Resumed(epochs[a], count)
               at == FrontierForSize(count)
               built == [i \in DOMAIN at |-> Rebuild(a, eps, at[i][1], at[i][2])]
               fam == [i \in DOMAIN at |-> built[i].mixed]
    <2>1. epochs' = [epochs EXCEPT ![a] = eps] /\ nodes' = Over(Merged(fam), nodes)
      BY <1>2 DEF ResumeAlgorithm, SetEpochs, Resumed
    <2>2. \A c \in Coordinates : Node(a, c) \in DOMAIN nodes =>
            (ActiveRange(epochs[a], c[1], End(c)) => ActiveRange(eps, c[1], End(c)))
      BY StoredWithin, ResumeRange
    <2>3. epochs'[a] = eps
      BY <2>1 DEF LogInv, LogTypeOK
    <2>4. ASSUME NEW x \in DOMAIN nodes', x \notin DOMAIN nodes
          PROVE  \E b \in Algs : \E c \in Coordinates : x = Node(b, c) /\ ActiveRange(epochs'[b], c[1], End(c))
      <3>1. x \in DOMAIN Merged(fam)
        <4> HIDE DEF fam
        <4> QED
          BY <2>1, <2>4, OverHas
      <3>2. PICK i \in DOMAIN fam : x \in DOMAIN fam[i]
        <4> HIDE DEF fam
        <4> QED
          BY <3>1, MergedOnly
      <3>3. i \in DOMAIN at /\ fam[i] = Rebuild(a, eps, at[i][1], at[i][2]).mixed
        BY <3>2
      <3>4. at[i][1] \in Nat /\ at[i][2] \in Nat
        <4>1. count \in Nat
          BY SizeKnown DEF LogInv
        <4>2. Covers(at, 0, count)
          BY <4>1, FrontierCovers
        <4> HIDE DEF at
        <4>3. at \in Seq(Coordinates)
          BY <4>2 DEF Covers
        <4>4. at[i] \in Coordinates
          BY <3>3, <4>3
        <4> QED
          BY <4>4, CoordinateIsPair
      <3> HIDE DEF eps, at, fam
      <3>5. MixedActive(a, eps, Rebuild(a, eps, at[i][1], at[i][2]))
        BY <3>4, RebuildsActive
      <3>6. PICK c \in Coordinates : x = Node(a, c) /\ ActiveRange(eps, c[1], End(c))
        BY <3>2, <3>3, <3>5 DEF MixedActive
      <3> QED
        BY <2>3, <3>6
    <2> HIDE DEF eps, fam
    <2>5. \A b \in Algs : \A c \in Coordinates : Node(b, c) \in DOMAIN nodes =>
            (ActiveRange(epochs[b], c[1], End(c)) => ActiveRange(epochs'[b], c[1], End(c)))
      BY <2>1, <2>2, StoredElsewhere
    <2> QED
      BY <2>4, <2>5, StoredStays
  <1>3. ASSUME NEW a \in Algs, RemoveAlgorithm(a) PROVE StoredActive'
    <2> DEFINE eps == Closed(epochs[a], count)
    <2>1. epochs' = [epochs EXCEPT ![a] = eps] /\ nodes' = nodes /\ IsActive(epochs[a])
      BY <1>3 DEF RemoveAlgorithm, SetEpochs, Closed
    <2>2. \A c \in Coordinates : Node(a, c) \in DOMAIN nodes =>
            (ActiveRange(epochs[a], c[1], End(c)) => ActiveRange(eps, c[1], End(c)))
      BY <2>1, StoredWithin, CloseRange
    <2> HIDE DEF eps
    <2>3. \A b \in Algs : \A c \in Coordinates : Node(b, c) \in DOMAIN nodes =>
            (ActiveRange(epochs[b], c[1], End(c)) => ActiveRange(epochs'[b], c[1], End(c)))
      BY <2>1, <2>2, StoredElsewhere
    <2> QED
      BY <2>1, <2>3, StoredStays
  <1>4. ASSUME NEW a \in Algs, AddAlgorithm(a) PROVE StoredActive'
    <2> DEFINE eps == <<<<count, Open>>>>
    <2>1. epochs' = [epochs EXCEPT ![a] = eps] /\ nodes' = nodes /\ epochs[a] = <<>>
      BY <1>4 DEF AddAlgorithm, SetEpochs, Registered
    <2>2. \A c \in Coordinates : ~ActiveRange(epochs[a], c[1], End(c))
      BY <2>1 DEF ActiveRange
    <2> HIDE DEF eps
    <2>3. \A b \in Algs : \A c \in Coordinates : Node(b, c) \in DOMAIN nodes =>
            (ActiveRange(epochs[b], c[1], End(c)) => ActiveRange(epochs'[b], c[1], End(c)))
      BY <2>1, <2>2, StoredElsewhere
    <2> QED
      BY <2>1, <2>3, StoredStays
  <1>5. CASE Reopen
    <2>1. UNCHANGED <<epochs, nodes>>
      BY <1>5 DEF Reopen, LogInv, StoreMirrorsHandle
    <2> QED
      BY <2>1, StoredStays
  <1> QED
    BY <1>1, <1>2, <1>3, <1>4, <1>5 DEF Next

-----------------------------------------------------------------------------
(* Replaying *)

\* One more cell.
ReplayOne(a, s, i, n, digest) ==
  [Push(a, s.peaks, s.at, i, n, digest) EXCEPT !.made = Over(@, s.made)]

\* after[n] is what the first n cells make.
Replays(after, a, base, size, start, cells) ==
  /\ after[0] = base
  /\ \A n \in 1..Len(cells) :
       after[n] = ReplayOne(a, after[n - 1], start + n - 1, size + n - 1, cells[n])
  /\ Replay(a, base, size, start, cells) = after[Len(cells)]

\* A replay is as many carries as there are cells.
LEMMA ReplayRuns ==
  ASSUME NEW a, NEW base, NEW size, NEW start, NEW cells, Len(cells) \in Nat
  PROVE  \E after : Replays(after, a, base, size, start, cells)
  <1> DEFINE m == Len(cells)
             next(n, x) == ReplayOne(a, x, start + n - 1, size + n - 1, cells[n])
             Starts(f, k) == \A n \in 0..k : f[n] = IF n = 0 THEN base ELSE next(n, f[n - 1])
             body(f) == [n \in 0..m |-> IF n = 0 THEN base ELSE next(n, f[n - 1])]
             whole == CHOOSE f : f = body(f)
  <1>1. Replay(a, base, size, start, cells) = whole[m]
    BY Zenon DEF Replay, ReplayOne
  <1>2. m \in Nat
    OBVIOUS
  <1> HIDE DEF next, m
  <1>3. \A k \in Nat : \E f : Starts(f, k)
    <2> DEFINE S == {k \in Nat : \E f : Starts(f, k)}
    <2>1. 0 \in S
      <3>1. Starts([n \in {0} |-> base], 0)
        OBVIOUS
      <3> QED
        BY <3>1
    <2>2. ASSUME NEW k \in Nat, k \in S PROVE k + 1 \in S
      <3>1. PICK f : Starts(f, k)
        BY <2>2
      <3> DEFINE g == [n \in 0..k + 1 |-> IF n <= k THEN f[n] ELSE next(k + 1, f[k])]
      <3>2. Starts(g, k + 1)
        <4>1. \A n \in 0..k + 1 : g[n] = IF n <= k THEN f[n] ELSE next(k + 1, f[k])
          OBVIOUS
        <4> HIDE DEF g
        <4> SUFFICES ASSUME NEW n \in 0..k + 1
                     PROVE  g[n] = IF n = 0 THEN base ELSE next(n, g[n - 1])
          OBVIOUS
        <4>2. CASE n <= k
          BY <3>1, <4>1, <4>2
        <4>3. CASE n = k + 1
          BY <4>1, <4>3
        <4> QED
          BY <4>2, <4>3
      <3>3. k + 1 \in Nat
        OBVIOUS
      <3> HIDE DEF Starts, g
      <3> QED
        BY <3>2, <3>3
    <2> HIDE DEF S
    <2>3. \A k \in Nat : k \in S
      BY <2>1, <2>2, SetInduction
    <2> QED
      BY <2>3 DEF S
  <1>4. whole = body(whole)
    <2>1. PICK f : Starts(f, m)
      BY <1>2, <1>3
    <2> DEFINE g == [n \in 0..m |-> f[n]]
    <2>2. g = body(g)
      <3>1. \A n \in 0..m : g[n] = f[n] /\ (n # 0 => n - 1 \in 0..m)
        BY <1>2
      <3>2. g = [n \in 0..m |-> g[n]]
        OBVIOUS
      <3> HIDE DEF g
      <3>3. \A n \in 0..m : g[n] = IF n = 0 THEN base ELSE next(n, g[n - 1])
        BY <2>1, <3>1
      <3> QED
        BY <3>2, <3>3
    <2> HIDE DEF g, body
    <2> QED
      BY <2>2
  <1> HIDE DEF whole
  <1>5. \A n \in 0..m : whole[n] = IF n = 0 THEN base ELSE next(n, whole[n - 1])
    BY <1>4
  <1>6. whole[0] = base
    BY <1>2, <1>5
  <1>7. \A n \in 1..m : whole[n] = next(n, whole[n - 1])
    BY <1>2, <1>5
  <1>8. Replays(whole, a, base, size, start, cells)
    BY <1>1, <1>6, <1>7, Zenon DEF Replays, m, next
  <1> QED
    BY <1>8

\* Made of three things.
OfThree(s) == \E p, t, made : s = [peaks |-> p, at |-> t, made |-> made]

\* What a carry makes is.
LEMMA PushIsRecord ==
  ASSUME NEW a, NEW peaks, NEW at, NEW i, NEW n \in Nat, NEW digest
  PROVE  OfThree(Push(a, peaks, at, i, n, digest))
  <1>1. PICK after : Merges(after, a, peaks, at, i, digest)
    BY PushRuns
  <1> DEFINE m == ReductionCount(n)
  <1>2. m \in Nat /\ Push(a, peaks, at, i, n, digest) = after[m]
    BY <1>1, Reductions DEF Merges
  <1> HIDE DEF m
  <1>3. CASE m = 0
    <2>1. after[m] = PushStart(a, peaks, at, i, digest)
      BY <1>1, <1>3 DEF Merges
    <2> QED
      BY <1>2, <2>1 DEF PushStart, OfThree
  <1>4. CASE m # 0
    <2>1. m - 1 \in Nat /\ (m - 1) + 1 = m
      BY <1>2, <1>4
    <2>2. \A k \in Nat : after[k + 1] = PushStep(a, after[k])
      BY <1>1 DEF Merges
    <2>3. after[m] = PushStep(a, after[m - 1])
      BY <2>1, <2>2
    <2> QED
      BY <1>2, <2>3, Zenon DEF PushStep, OfThree
  <1> QED
    BY <1>3, <1>4

\* What has been made from n cells on the peaks of `start` positions: the peaks of
\* both together, and the digests of the blocks that are not within `start`.
Replayed(a, r, start, n, s) ==
  /\ s.peaks = PeaksOf(r, start + n) /\ s.at = FrontierForSize(start + n)
  /\ \A x \in DOMAIN s.made : \E c \in Blocks(start + n) \ Blocks(start) : x = Node(a, c) /\ s.made[x] = r[c]
  /\ \A c \in Blocks(start + n) \ Blocks(start) : Node(a, c) \in DOMAIN s.made

\* Another cell.
LEMMA ReplayStep ==
  ASSUME NEW a, NEW r, TreeOf(a, r), NEW start \in Nat, NEW n \in Nat, NEW s, Replayed(a, r, start, n, s),
         NEW t, t = ReplayOne(a, s, start + n, start + n, r[<<start + n, 0>>])
  PROVE  Replayed(a, r, start, n + 1, t)
  <1> DEFINE size == start + n
             p == Push(a, s.peaks, s.at, size, size, r[<<size, 0>>])
             new == {<<size + 1 - BlockSize(j), j>> : j \in 0..ReductionCount(size)}
  <1>1. size \in Nat /\ size + 1 = start + (n + 1) /\ start <= size /\ n + 1 \in Nat
    OBVIOUS
  <1> HIDE DEF size
  <1>2. s.peaks = PeaksOf(r, size) /\ s.at = FrontierForSize(size)
    BY DEF Replayed, size
  <1>3. DigestsOf(s.peaks, r, s.at) /\ Covers(s.at, 0, size)
    BY <1>1, <1>2, FrontierCovers DEF PeaksOf, DigestsOf
  <1>4. p.at = FrontierForSize(size + 1) /\ p.peaks = PeaksOf(r, size + 1) /\ p.made = MadeOf(a, size, r)
    BY <1>1, <1>3, PushBuilds
  <1>5. OfThree(p)
    BY <1>1, PushIsRecord
  <1>6. t = [p EXCEPT !.made = Over(@, s.made)]
    BY Zenon DEF ReplayOne, size
  <1> HIDE DEF p
  <1>7. t.peaks = p.peaks /\ t.at = p.at /\ t.made = Over(p.made, s.made)
    BY <1>5, <1>6 DEF OfThree
  <1>8. Blocks(size + 1) = Blocks(size) \cup new
    BY <1>1, NewBlocks
  <1>9. Blocks(start) \subseteq Blocks(size)
    BY <1>1, BlocksGrow
  <1>10. ASSUME NEW j \in 0..ReductionCount(size)
         PROVE  LET c == <<size + 1 - BlockSize(j), j>>
                IN  c \in Blocks(size + 1) \ Blocks(start)
    <2> DEFINE c == <<size + 1 - BlockSize(j), j>>
    <2>1. c \in Blocks(size + 1)
      BY <1>8
    <2>2. j \in Nat /\ BlockSize(j) \in Nat
      BY <1>1, Reductions, BlockSizes
    <2>3. End(c) = size + 1
      BY <1>1, <2>2 DEF End
    <2> HIDE DEF c
    <2>4. c \notin Blocks(start)
      BY <1>1, <2>3 DEF Blocks
    <2> QED
      BY <2>1, <2>4 DEF c
  <1>11. ASSUME NEW x \in DOMAIN t.made
         PROVE  \E c \in Blocks(size + 1) \ Blocks(start) : x = Node(a, c) /\ t.made[x] = r[c]
    <2>1. CASE x \in DOMAIN p.made
      <3>1. x \in EndingAt(a, size, ReductionCount(size)) /\ p.made[x] = r[<<x[2], x[3]>>]
        BY <1>4, <2>1 DEF MadeOf
      <3>2. PICK j \in 0..ReductionCount(size) : x = <<a, size + 1 - BlockSize(j), j>>
        BY <3>1 DEF EndingAt
      <3>3. x = Node(a, <<size + 1 - BlockSize(j), j>>) /\ <<x[2], x[3]>> = <<size + 1 - BlockSize(j), j>>
        BY <3>2 DEF Node
      <3>4. t.made[x] = p.made[x]
        BY <1>7, <2>1, OverHas
      <3> QED
        BY <1>10, <3>1, <3>3, <3>4
    <2>2. CASE x \notin DOMAIN p.made
      <3>1. x \in DOMAIN s.made /\ t.made[x] = s.made[x]
        BY <1>7, <2>2, OverHas
      <3>2. PICK c \in Blocks(size) \ Blocks(start) : x = Node(a, c) /\ s.made[x] = r[c]
        BY <3>1 DEF Replayed, size
      <3> QED
        BY <1>8, <3>1, <3>2
    <2> QED
      BY <2>1, <2>2
  <1>12. ASSUME NEW c \in Blocks(size + 1) \ Blocks(start) PROVE Node(a, c) \in DOMAIN t.made
    <2>1. CASE c \in Blocks(size)
      BY <1>7, <2>1, OverHas DEF Replayed, size
    <2>2. CASE c \in new
      <3>1. PICK j \in 0..ReductionCount(size) : c = <<size + 1 - BlockSize(j), j>>
        BY <2>2
      <3>2. Node(a, c) \in EndingAt(a, size, ReductionCount(size))
        BY <3>1 DEF Node, EndingAt
      <3>3. Node(a, c) \in DOMAIN p.made
        BY <1>4, <3>2 DEF MadeOf
      <3> QED
        BY <1>7, <3>3, OverHas
    <2> QED
      BY <1>8, <2>1, <2>2
  <1> QED
    BY <1>1, <1>4, <1>7, <1>11, <1>12 DEF Replayed

\* The leaves from `start` on.
CellsFrom(cells, r, start, m) == cells = [n \in 1..m |-> r[<<start + n - 1, 0>>]]

\* What a replay starts from.
BaseOf(r, start) == [peaks |-> PeaksOf(r, start), at |-> FrontierForSize(start), made |-> <<>>]

\* Replaying the leaves that follow `start` positions on their peaks.
LEMMA ReplayBuilds ==
  ASSUME NEW a, NEW r, TreeOf(a, r), NEW start \in Nat, NEW m \in Nat,
         NEW cells, CellsFrom(cells, r, start, m)
  PROVE  Replayed(a, r, start, m, Replay(a, BaseOf(r, start), start, start, cells))
  <1>1. Len(cells) = m /\ \A n \in 1..m : cells[n] = r[<<start + n - 1, 0>>]
    BY DEF CellsFrom
  <1>2. PICK after : Replays(after, a, BaseOf(r, start), start, start, cells)
    BY <1>1, ReplayRuns
  <1> DEFINE S == {n \in Nat : n <= m => Replayed(a, r, start, n, after[n])}
  <1>3. 0 \in S
    <2>1. after[0] = BaseOf(r, start) /\ start + 0 = start
      BY <1>2 DEF Replays
    <2>2. Replayed(a, r, start, 0, BaseOf(r, start))
      BY <2>1 DEF Replayed, BaseOf
    <2> QED
      BY <2>1, <2>2
  <1>4. ASSUME NEW n \in Nat, n \in S PROVE n + 1 \in S
    <2> SUFFICES ASSUME n + 1 <= m PROVE Replayed(a, r, start, n + 1, after[n + 1])
      OBVIOUS
    <2>1. n + 1 \in 1..m /\ n <= m /\ (n + 1) - 1 = n /\ start + (n + 1) - 1 = start + n
      OBVIOUS
    <2>2. \A k \in 1..m : after[k] = ReplayOne(a, after[k - 1], start + k - 1, start + k - 1, cells[k])
      BY <1>1, <1>2, Zenon DEF Replays
    <2>3. after[n + 1] = ReplayOne(a, after[n], start + n, start + n, r[<<start + n, 0>>])
      <3>1. cells[n + 1] = r[<<start + n, 0>>]
        BY <1>1, <2>1
      <3>2. after[n + 1] = ReplayOne(a, after[(n + 1) - 1], start + (n + 1) - 1, start + (n + 1) - 1, cells[n + 1])
        BY <2>1, <2>2
      <3> QED
        BY <2>1, <3>1, <3>2
    <2>4. Replayed(a, r, start, n, after[n])
      BY <1>4, <2>1
    <2> QED
      BY <2>3, <2>4, ReplayStep
  <1> HIDE DEF S
  <1>5. \A n \in Nat : n \in S
    BY <1>3, <1>4, SetInduction
  <1>6. Replayed(a, r, start, m, after[m])
    BY <1>5 DEF S
  <1> QED
    BY <1>1, <1>2, <1>6 DEF Replays

-----------------------------------------------------------------------------
(* What a published payload says *)

\* A payload, at any time after: what it says of the log at its size is what the
\* reference still says, and so are the roots the client noted with it.
AuditKept ==
  /\ audit.size \in 1..count
  /\ audit.active = ActiveAlgsAt(audit.size)
  /\ DOMAIN audit.epochs = Algs
  /\ \A a \in Algs : audit.epochs[a] # <<>> => epochs[a] # <<>> /\ ValidEpochs(audit.epochs[a], audit.size)
  /\ \A a \in Algs : \A i \in 0..audit.size - 1 : IsActiveAt(audit.epochs[a], i) <=> IsActiveAt(epochs[a], i)
  /\ \A a \in Algs : audit.epochs[a] = <<>> /\ epochs[a] # <<>> => audit.size <= FirstActivation(epochs[a])
  /\ audit.roots = [a \in audit.active |->
       CombinedRoot(a, [b \in audit.active |-> RootAt(b, audit.size)], audit.epochs, audit.size)]
  /\ audit.members = [a \in {b \in Algs : audit.epochs[b] # <<>>} |->
       RootAt(a, EffectiveSizeAt(epochs[a], audit.size))]

\* An algorithm's first activation is a position.
LEMMA FirstIsPosition ==
  ASSUME NEW eps \in Seq(Interval)
  PROVE  FirstActivation(eps) \in Nat
  <1>1. CASE eps = <<>>
    BY <1>1 DEF FirstActivation
  <1>2. CASE eps # <<>>
    <2>1. eps[1] \in Interval
      BY <1>2
    <2> QED
      BY <1>2, <2>1, IntervalIsPair DEF FirstActivation
  <1> QED
    BY <1>1, <1>2

\* The effective size at a size the log had, within the tree it has now.
LEMMA EffectiveKnown ==
  ASSUME LogTypeOK, NEW a \in Algs, NEW n \in 0..count
  PROVE  /\ EffectiveSizeAt(epochs[a], n) \in 0..n /\ EffectiveSizeAt(epochs[a], n) \in 0..Size(a)
         /\ FirstActivation(epochs[a]) \in Nat
  <1>1. /\ count \in Nat /\ count < Open /\ epochs[a] \in Seq(Interval) /\ Size(a) \in Nat
        /\ epochs[a] # <<>> => ValidEpochs(epochs[a], count)
    BY SizeKnown, LogAssumption DEF LogTypeOK, Registered
  <1>2. EffectiveSizeAt(epochs[a], n) \in 0..n /\ EffectiveSizeAt(epochs[a], n) <= Size(a)
    BY <1>1, EffectiveInTree DEF Size
  <1>3. FirstActivation(epochs[a]) \in Nat
    BY <1>1, FirstIsPosition
  <1> QED
    BY <1>1, <1>2, <1>3

\* A tree without positions has the root of an empty one.
LEMMA NoPeaks ==
  ASSUME NEW a, NEW r
  PROVE  FrontierForSize(0) = <<>> /\ PeaksOf(r, 0) = <<>> /\ BagPeaks(a, PeaksOf(r, 0)) = Empty(a)
  <1>1. Covers(FrontierForSize(0), 0, 0)
    BY FrontierCovers
  <1>2. FrontierForSize(0) = <<>>
    <2> DEFINE s == FrontierForSize(0)
    <2> SUFFICES ASSUME s # <<>> PROVE FALSE
      OBVIOUS
    <2>1. s \in Seq(Coordinates) /\ s[1][1] = 0 /\ Peak(s[1][1], s[1][2], 0)
      BY <1>1 DEF Covers
    <2>2. s[1] \in Coordinates
      BY <2>1
    <2> QED
      BY <2>1, <2>2, CoordinateIsPair DEF Peak
  <1> QED
    BY <1>2 DEF PeaksOf, BagPeaks

\* The peaks of any size an algorithm's tree had, and the root over them, are the
\* reference's.
LEMMA PeaksAreReference ==
  ASSUME LogInv, NEW a \in Algs, NEW n \in 0..Size(a)
  PROVE  /\ FrontierPeaks(a, epochs[a], n) = PeaksOf(Ref(a), n)
         /\ RootOfPeaks(a, FrontierPeaks(a, epochs[a], n)) = RootAt(a, n)
         /\ RootAt(a, n) # Corrupted
         /\ Corrupted \notin ToSet(PeaksOf(Ref(a), n))
  <1>1. Size(a) \in Nat
    BY SizeKnown DEF LogInv
  <1>2. CASE n = 0
    <2>1. FrontierPeaks(a, epochs[a], 0) = <<>>
      BY NoPeaks DEF FrontierPeaks
    <2>2. PeaksOf(Ref(a), 0) = <<>> /\ RootAt(a, 0) = Empty(a)
      BY NoPeaks DEF RootAt
    <2>3. RootOfPeaks(a, <<>>) = Empty(a)
      BY DEF RootOfPeaks, BagPeaks
    <2> QED
      BY <1>2, <2>1, <2>2, <2>3, Forms DEF ToSet
  <1>3. CASE n # 0
    <2> DEFINE m == Len(FrontierForSize(n))
               peaks == PeaksOf(Ref(a), n)
    <2>1. n \in 1..Size(a)
      BY <1>1, <1>3
    <2>2. PeaksRead(a, n, m)
      BY <2>1, PeaksReadBack
    <2> HIDE DEF m, peaks
    <2>3. m \in Nat \ {0} /\ peaks = [f \in 1..m |-> peaks[f]] /\ Readable(peaks, m)
          /\ FrontierPeaks(a, epochs[a], n) = peaks
      BY <2>2 DEF PeaksRead, peaks
    <2>4. DOMAIN peaks = 1..m /\ 1 \in 1..m
      BY <2>3
    <2>5. RootOfPeaks(a, peaks) = BagPeaks(a, peaks)
      BY <2>3, <2>4 DEF RootOfPeaks, Readable
    <2>6. BagPeaks(a, peaks) # Corrupted
      BY <2>3, <2>4, BagIsDigest DEF Readable
    <2>7. Corrupted \notin ToSet(peaks)
      BY <2>3, <2>4 DEF ToSet, Readable
    <2> QED
      BY <2>3, <2>5, <2>6, <2>7 DEF RootAt, peaks
  <1> QED
    BY <1>2, <1>3

\* So is the member root at any size the log had.
LEMMA MemberRootIs ==
  ASSUME LogInv, NEW a \in Algs, NEW n \in 0..count
  PROVE  RootForAt(a, n) = RootAt(a, EffectiveSizeAt(epochs[a], n))
  <1>1. EffectiveSizeAt(epochs[a], n) \in 0..Size(a)
    BY EffectiveKnown DEF LogInv
  <1> QED
    BY <1>1, PeaksAreReference DEF RootForAt

\* A root over positions both references know.
LEMMA RootStays ==
  ASSUME NEW a \in Algs, NEW n \in Nat, SameBelow(Ref(a), Ref(a)', n), NEW m \in 0..n
  PROVE  RootAt(a, m)' = RootAt(a, m)
  <1>1. TreeOf(a, Ref(a)) /\ TreeOf(a, Ref(a)')
    BY References
  <1>2. PeaksOf(Ref(a), m) = PeaksOf(Ref(a)', m)
    BY <1>1, PeaksAgree
  <1>3. RootAt(a, m)' = BagPeaks(a, PeaksOf(Ref(a)', m))
    BY DEF RootAt
  <1> QED
    BY <1>2, <1>3 DEF RootAt

\* What is known of the algorithms a payload lists.
LEMMA AuditKnown ==
  ASSUME LogTypeOK, AuditKept
  PROVE  /\ audit.size \in Nat \ {0} /\ audit.size <= count /\ count \in Nat
         /\ audit.size \in 0..count /\ audit.size - 1 \in 0..audit.size - 1
         /\ audit.active \subseteq {a \in Algs : audit.epochs[a] # <<>>}
         /\ \A a \in audit.active : a \in Algs /\ audit.epochs[a] # <<>> /\ epochs[a] # <<>>
                                    /\ EffectiveSizeAt(epochs[a], audit.size) = audit.size
                                    /\ audit.size \in 0..Size(a)
  <1>1. audit.size \in Nat \ {0} /\ audit.size <= count /\ count \in Nat /\ audit.size \in 0..count
        /\ audit.size - 1 \in 0..audit.size - 1
    BY LogAssumption DEF AuditKept, LogTypeOK
  <1>2. ASSUME NEW a \in audit.active
        PROVE  a \in Algs /\ audit.epochs[a] # <<>> /\ epochs[a] # <<>>
               /\ EffectiveSizeAt(epochs[a], audit.size) = audit.size
               /\ audit.size \in 0..Size(a)
    <2>1. a \in Algs /\ IsActiveAt(epochs[a], audit.size - 1)
      BY <1>2 DEF AuditKept, ActiveAlgsAt
    <2>2. IsActiveAt(audit.epochs[a], audit.size - 1)
      BY <1>1, <2>1 DEF AuditKept
    <2>3. audit.epochs[a] # <<>>
      BY <2>2 DEF IsActiveAt
    <2>4. EffectiveSizeAt(epochs[a], audit.size) = audit.size
      BY <2>1 DEF EffectiveSizeAt
    <2>5. EffectiveSizeAt(epochs[a], audit.size) \in 0..Size(a)
      BY <1>1, <2>1, EffectiveKnown
    <2> QED
      BY <2>1, <2>3, <2>4, <2>5 DEF AuditKept
  <1> QED
    BY <1>1, <1>2

\* Every operation of the log leaves it so.
LEMMA AuditStays ==
  ASSUME LogTypeOK, LogTypeOK', AuditKept, PastKept, UNCHANGED audit
  PROVE  AuditKept'
  <1> DEFINE n == audit.size
             t == audit.epochs
             active == audit.active
             eff(a) == EffectiveSizeAt(epochs[a], n)
  <1>1. /\ n \in Nat \ {0} /\ n <= count /\ count \in Nat /\ n \in 0..count /\ n - 1 \in 0..n - 1
        /\ \A a \in active : a \in Algs
    BY AuditKnown
  <1>2. /\ count' \in Nat /\ count <= count'
        /\ \A a \in Algs : SamePast(epochs[a], epochs'[a], count)
        /\ \A a \in Algs : SameBelow(Ref(a), Ref(a)', count)
    BY DEF PastKept
  <1>3. \A a \in Algs : \A i \in 0..n - 1 : IsActiveAt(epochs'[a], i) <=> IsActiveAt(epochs[a], i)
    BY <1>1, <1>2 DEF SamePast
  <1>4. n \in 1..count'
    BY <1>1, <1>2
  <1>5. ActiveAlgsAt(n)' = ActiveAlgsAt(n)
    <2>1. \A a \in Algs : IsActiveAt(epochs'[a], n - 1) <=> IsActiveAt(epochs[a], n - 1)
      BY <1>1, <1>3
    <2> QED
      BY <2>1 DEF ActiveAlgsAt
  <1>6. \A a \in Algs : epochs[a] # <<>> => epochs'[a] # <<>> /\ FirstActivation(epochs'[a]) = FirstActivation(epochs[a])
                                            /\ EffectiveSizeAt(epochs'[a], n) = eff(a)
    BY <1>1, <1>2 DEF SamePast
  <1>7. ASSUME NEW a \in Algs, t[a] = <<>>, epochs'[a] # <<>> PROVE n <= FirstActivation(epochs'[a])
    <2>1. CASE epochs[a] # <<>>
      BY <1>6, <1>7, <2>1 DEF AuditKept
    <2>2. CASE epochs[a] = <<>>
      <3>1. count <= FirstActivation(epochs'[a])
        BY <1>2, <1>7, <2>2 DEF SamePast
      <3>2. FirstActivation(epochs'[a]) \in Nat
        <4>1. epochs'[a] \in Seq(Interval)
          BY DEF LogTypeOK
        <4> QED
          BY <4>1, FirstIsPosition
      <3> QED
        BY <1>1, <3>1, <3>2
    <2> QED
      BY <2>1, <2>2
  <1>8. \A b \in active : RootAt(b, n)' = RootAt(b, n)
    BY <1>1, <1>2, RootStays
  <1>9. ASSUME NEW a \in Algs, t[a] # <<>> PROVE RootAt(a, EffectiveSizeAt(epochs[a], n))' = RootAt(a, eff(a))
    <2>1. epochs[a] # <<>>
      BY <1>9 DEF AuditKept
    <2>2. EffectiveSizeAt(epochs'[a], n) = eff(a)
      BY <1>6, <2>1
    <2>3. eff(a) \in 0..n
      BY <1>1, EffectiveKnown
    <2> DEFINE m == eff(a)
    <2>4. m \in 0..count
      BY <1>1, <2>3
    <2>5. PICK k : k = m
      OBVIOUS
    <2>6. RootAt(a, k)' = RootAt(a, k)
      BY <1>1, <1>2, <2>4, <2>5, RootStays
    <2>7. RootAt(a, EffectiveSizeAt(epochs[a], n))' = RootAt(a, k)'
      BY <2>2, <2>5 DEF RootAt
    <2> QED
      BY <2>5, <2>6, <2>7
  <1>10. audit.roots = [a \in active |-> CombinedRoot(a, [b \in active |-> RootAt(b, n)], t, n)]
    BY DEF AuditKept
  <1>11. [b \in active |-> RootAt(b, n)'] = [b \in active |-> RootAt(b, n)]
    BY <1>8
  <1>12. audit'.roots = [a \in active |-> CombinedRoot(a, [b \in active |-> RootAt(b, n)'], t, n)]
    BY <1>10, <1>11
  <1>13. audit'.members = [a \in {b \in Algs : t[b] # <<>>} |-> RootAt(a, EffectiveSizeAt(epochs[a], n))']
    BY <1>9 DEF AuditKept
  <1>14. \A a \in Algs : t[a] # <<>> => epochs'[a] # <<>> /\ ValidEpochs(t[a], n)
    BY <1>6 DEF AuditKept
  <1>15. \A a \in Algs : \A i \in 0..n - 1 : IsActiveAt(t[a], i) <=> IsActiveAt(epochs'[a], i)
    BY <1>3 DEF AuditKept
  <1>16. active = ActiveAlgsAt(n)' /\ DOMAIN t = Algs
    BY <1>5 DEF AuditKept
  <1> QED
    BY <1>4, <1>7, <1>12, <1>13, <1>14, <1>15, <1>16 DEF AuditKept

\* It is so of a payload just taken.
LEMMA AuditTaken ==
  ASSUME LogInv, TakeAudit
  PROVE  AuditKept'
  <1> DEFINE active == ActiveAlgsAt(count)
             t == CommittedEpochsAt(count)
  <1>1. /\ LogTypeOK /\ count \in Nat /\ count < Open
        /\ \A a \in Algs : epochs[a] \in Seq(Interval) /\ (epochs[a] # <<>> => ValidEpochs(epochs[a], count))
    BY SizeKnown, LogAssumption, OpenAssumption DEF LogInv, LogTypeOK, Registered
  <1>2. /\ audit'.size = count /\ audit'.active = active /\ audit'.epochs = t
        /\ audit'.roots = [a \in active |-> CombinedRootAt(a, count)]
        /\ audit'.members = [a \in {b \in Algs : Registered(b)} |-> RootForAt(a, count)]
        /\ active # {} /\ UNCHANGED vars
    BY DEF TakeAudit
  <1>3. count \in 1..count
    BY <1>1, <1>2 DEF ActiveAlgsAt
  <1>4. DOMAIN t = Algs /\ \A a \in Algs : t[a] = epochs[a]
    BY <1>1, CommittedNow DEF CommittedEpochsAt
  <1>5. \A b \in active : b \in Algs /\ RootForAt(b, count) = RootAt(b, count) /\ RootAt(b, count) # Corrupted
    BY <1>3, RootReadBack
  <1>6. \A a \in active : CombinedRootAt(a, count) = CombinedRoot(a, [b \in active |-> RootAt(b, count)], t, count)
    <2> TAKE a \in active
    <2> DEFINE m == [b \in active |-> RootForAt(b, count)]
    <2>1. m = [b \in active |-> RootAt(b, count)] /\ ~(\E b \in DOMAIN m : m[b] = Corrupted)
      BY <1>5
    <2>2. count # 0
      BY <1>3
    <2>3. CombinedRootAt(a, count) = CombinedRoot(a, m, t, count)
      BY <2>1, <2>2 DEF CombinedRootAt
    <2> HIDE DEF m, t, active
    <2> QED
      BY <2>1, <2>3
  <1>7. \A a \in Algs : RootForAt(a, count) = RootAt(a, EffectiveSizeAt(epochs[a], count))
    BY <1>3, MemberRootIs
  <1> HIDE DEF active, t
  <1>8. audit'.roots = [a \in active |-> CombinedRoot(a, [b \in active |-> RootAt(b, count)], t, count)]
    BY <1>2, <1>6
  <1>9. {b \in Algs : Registered(b)} = {b \in Algs : t[b] # <<>>}
    BY <1>4 DEF Registered
  <1>10. audit'.members = [a \in {b \in Algs : t[b] # <<>>} |-> RootAt(a, EffectiveSizeAt(epochs[a], count))]
    BY <1>2, <1>7, <1>9
  <1>11. UNCHANGED <<count, epochs, history>>
    BY <1>2 DEF vars, handle, observers
  <1>12. \A a, m : RootAt(a, m)' = RootAt(a, m)
    BY <1>11 DEF RootAt, Ref, LeafOf, ReferenceLeaf
  <1>13. active = ActiveAlgsAt(count)'
    BY <1>11 DEF ActiveAlgsAt, active
  <1> QED
    BY ZenonT(60), <1>1, <1>2, <1>3, <1>4, <1>8, <1>10, <1>11, <1>12, <1>13 DEF AuditKept

-----------------------------------------------------------------------------
(* The invariant *)

\* The store has the reference's digests and all of them but one, the block c of
\* algorithm a: that one is damaged or lost.
DamagedAt(a, c) ==
  /\ c \in Blocks(Size(a)) /\ ActiveRange(epochs[a], c[1], End(c))
  /\ Node(a, c) \in DOMAIN nodes => nodes[Node(a, c)] = <<"damaged", a>>
  /\ \A b \in Algs : \A d \in Coordinates :
       Node(b, d) # Node(a, c) =>
         /\ Node(b, d) \in DOMAIN nodes => d \in Blocks(Size(b)) /\ nodes[Node(b, d)] = Ref(b)[d]
         /\ d \in Blocks(Size(b)) /\ ActiveRange(epochs[b], d[1], End(d)) => Node(b, d) \in DOMAIN nodes

\* The invariant of a log that is audited.
AuditInv ==
  /\ LogTypeOK /\ HistoryKept
  /\ damaged = {} => LogInv /\ StoredActive
  /\ audit # NoAudit => AuditKept
  /\ \A x \in damaged : \E a \in Algs : \E c \in Coordinates : x = Node(a, c) /\ DamagedAt(a, c)

\* What the payload says does not depend on the store.
LEMMA AuditUnchanged ==
  ASSUME AuditKept, UNCHANGED <<count, epochs, history, audit>>
  PROVE  AuditKept'
  <1>1. \A a, m : RootAt(a, m)' = RootAt(a, m)
    BY DEF RootAt, Ref, LeafOf, ReferenceLeaf
  <1>2. \A n : ActiveAlgsAt(n)' = ActiveAlgsAt(n)
    BY DEF ActiveAlgsAt
  <1> QED
    BY <1>1, <1>2 DEF AuditKept

\* A damage leaves the rest of the store as it was.
LEMMA DamageIs ==
  ASSUME LogInv, StoredActive, NEW x \in DOMAIN nodes, Damage(x)
  PROVE  \E a \in Algs : \E c \in Coordinates : x = Node(a, c) /\ DamagedAt(a, c)'
  <1>1. PICK a \in Algs, c \in Coordinates : x = Node(a, c)
    BY DEF LogInv, StoreKept
  <1>2. UNCHANGED <<count, epochs, history>>
    BY DEF Damage, handle, observers
  <1>3. c \in Blocks(Size(a)) /\ ActiveRange(epochs[a], c[1], End(c))
    BY <1>1, StoredWithin DEF StoredActive
  <1>4. \A b : Size(b)' = Size(b) /\ Ref(b)' = Ref(b)
    BY <1>2 DEF Size, Ref, LeafOf, ReferenceLeaf
  <1>5. /\ x \in DOMAIN nodes' => nodes'[x] = <<"damaged", a>>
        /\ \A y : y # x => /\ y \in DOMAIN nodes' <=> y \in DOMAIN nodes
                           /\ y \in DOMAIN nodes => nodes'[y] = nodes[y]
    <2>1. CASE nodes' = [nodes EXCEPT ![x] = <<"damaged", x[1]>>]
      <3>1. x[1] = a
        BY <1>1 DEF Node
      <3> QED
        BY <2>1, <3>1
    <2>2. CASE nodes' = Restrict(nodes, DOMAIN nodes \ {x})
      BY <2>2 DEF Restrict
    <2> QED
      BY <2>1, <2>2 DEF Damage
  <1>6. ASSUME NEW b \in Algs, NEW d \in Coordinates, Node(b, d) # x
        PROVE  /\ Node(b, d) \in DOMAIN nodes' => d \in Blocks(Size(b)) /\ nodes'[Node(b, d)] = Ref(b)[d]
               /\ d \in Blocks(Size(b)) /\ ActiveRange(epochs[b], d[1], End(d)) => Node(b, d) \in DOMAIN nodes'
    <2>1. Held(nodes, b, epochs[b], Size(b), Ref(b))
      BY DEF LogInv, StoreKept
    <2> QED
      BY <1>5, <1>6, <2>1 DEF Held
  <1>7. DamagedAt(a, c)'
    BY <1>1, <1>2, <1>3, <1>4, <1>5, <1>6 DEF DamagedAt
  <1> QED
    BY <1>1, <1>7

\* Every step of an audited log keeps it.
LEMMA AuditStep ==
  ASSUME NoNullItems, AuditInv, [AuditNext]_auditVars
  PROVE  AuditInv'
  <1>1. CASE damaged = {} /\ Next /\ UNCHANGED <<audit, damaged>>
    <2>1. LogInv /\ StoredActive /\ LogTypeOK
      BY <1>1 DEF AuditInv
    <2>2. LogInv' /\ StoredActive' /\ PastKept
      BY <1>1, <2>1, LogStep, StoredActiveStep, PastStep
    <2>3. LogTypeOK' /\ HistoryKept'
      BY <2>2 DEF LogInv
    <2>4. audit # NoAudit => AuditKept'
      BY <1>1, <2>1, <2>2, <2>3, AuditStays DEF AuditInv
    <2> QED
      BY <1>1, <2>2, <2>3, <2>4 DEF AuditInv, NoAudit
  <1>2. CASE TakeAudit
    <2>1. LogInv /\ StoredActive /\ damaged = {} /\ damaged' = {} /\ UNCHANGED vars
      BY <1>2 DEF AuditInv, TakeAudit
    <2>2. LogInv'
      BY <2>1, LogStep
    <2>3. StoredActive'
      BY <2>1 DEF StoredActive, vars, handle, store
    <2>4. AuditKept'
      BY <1>2, <2>1, AuditTaken
    <2> QED
      BY <2>1, <2>2, <2>3, <2>4 DEF AuditInv, LogInv
  <1>3. ASSUME NEW x \in DOMAIN nodes, Damage(x) PROVE AuditInv'
    <2>1. LogInv /\ StoredActive /\ damaged = {} /\ damaged' = {x} /\ UNCHANGED <<handle, leaves, observers, audit>>
      BY <1>3 DEF AuditInv, Damage
    <2>2. \E a \in Algs : \E c \in Coordinates : x = Node(a, c) /\ DamagedAt(a, c)'
      BY <1>3, <2>1, DamageIs
    <2>3. UNCHANGED <<count, kind, epochs, frontier, coords, history, audit>>
      BY <2>1 DEF handle, observers
    <2>4. LogTypeOK'
      BY <2>3 DEF AuditInv, LogTypeOK, Registered
    <2>5. HistoryKept'
      BY <2>1, <2>3 DEF AuditInv, HistoryKept
    <2>6. audit' # NoAudit => AuditKept'
      BY <2>3, AuditUnchanged DEF AuditInv
    <2> QED
      BY <2>1, <2>2, <2>4, <2>5, <2>6 DEF AuditInv, NoAudit
  <1>4. CASE UNCHANGED auditVars
    <2>1. UNCHANGED <<vars, audit, damaged>> /\ UNCHANGED <<handle, store, observers>>
      BY <1>4 DEF auditVars, vars
    <2>2. UNCHANGED <<count, kind, epochs, frontier, coords, leaves, nodes, history, audit, damaged>>
      BY <2>1 DEF handle, store, observers
    <2>3. LogTypeOK' /\ HistoryKept'
      BY <2>2 DEF AuditInv, LogTypeOK, HistoryKept, Registered
    <2>4. damaged' = {} => LogInv' /\ StoredActive'
      BY <2>1, <2>2, LogStep DEF AuditInv, StoredActive
    <2>5. audit' # NoAudit => AuditKept'
      BY <2>2, AuditUnchanged DEF AuditInv, NoAudit
    <2>6. \A a : Size(a)' = Size(a) /\ Ref(a)' = Ref(a)
      BY <2>2 DEF Size, Ref, LeafOf, ReferenceLeaf
    <2>7. \A a, c : DamagedAt(a, c)' <=> DamagedAt(a, c)
      BY <2>2, <2>6 DEF DamagedAt
    <2> QED
      BY <2>2, <2>3, <2>4, <2>5, <2>7 DEF AuditInv
  <1> QED
    BY <1>1, <1>2, <1>3, <1>4 DEF AuditNext

\* It holds of every reachable state.
LEMMA AuditInvariant ==
  ASSUME NoNullItems
  PROVE  AuditSpec => []AuditInv
  <1>1. AuditInit => AuditInv
    <2> SUFFICES ASSUME AuditInit PROVE AuditInv
      OBVIOUS
    <2>1. LogInv /\ audit = NoAudit /\ damaged = {} /\ nodes = <<>>
      BY InitKeeps DEF AuditInit, Init
    <2>2. StoredActive
      BY <2>1 DEF StoredActive
    <2> QED
      BY <2>1, <2>2 DEF AuditInv, LogInv
  <1>2. AuditInv /\ [AuditNext]_auditVars => AuditInv'
    BY AuditStep
  <1> QED
    BY <1>1, <1>2, PTL DEF AuditSpec

-----------------------------------------------------------------------------
(* Published payloads are accepted *)

\* The leaf of a position in the reference of its algorithm.
LEMMA LeafIs ==
  ASSUME LogTypeOK, HistoryKept, NEW a \in Algs, NEW i \in 0..count - 1
  PROVE  /\ Ref(a)[<<i, 0>>] = IF IsActiveAt(epochs[a], i) THEN Evaluate(a, history[i + 1]) ELSE Null(a)
         /\ history[i + 1] \in Seq(STRING)
         /\ kind = "flat" => leaves[i + 1] = history[i + 1]
         /\ i \in Nat
  <1>1. count \in Nat
    BY LogAssumption DEF LogTypeOK
  <1>2. i \in Nat /\ i + 1 \in 1..count
    BY <1>1
  <1>3. Ref(a)[<<i, 0>>] = ReferenceLeaf(a, i)
    BY <1>2, References
  <1>4. history[i + 1] \in Seq(STRING)
    BY <1>2 DEF HistoryKept
  <1> QED
    BY <1>2, <1>3, <1>4 DEF ReferenceLeaf, HistoryKept

\* A leaf digest is stored exactly of the positions its algorithm was active at, and
\* it is the reference's.
LEMMA StoredLeaf ==
  ASSUME LogInv, StoredActive, NEW a \in Algs, NEW i \in 0..count - 1
  PROVE  StoredDigest(a, i, 0) = IF IsActiveAt(epochs[a], i) THEN Ref(a)[<<i, 0>>] ELSE Corrupted
  <1> DEFINE c == <<i, 0>>
  <1>1. /\ count \in Nat /\ epochs[a] \in Seq(Interval)
        /\ \A j \in 0..count - 1 : IsActiveAt(epochs[a], j) => j < Size(a)
        /\ Size(a) \in Nat
    BY SizeKnown DEF LogInv
  <1>2. i \in Nat /\ c \in Coordinates /\ Node(a, c) = <<a, i, 0>> /\ c[1] = i /\ End(c) = i + 1 /\ i + 1 \in Nat
    <2>1. i \in Nat /\ i + 1 \in Nat /\ BlockSize(0) = 1
      BY <1>1, BlockSizes
    <2>2. c[1] = i /\ c[2] = 0 /\ c \in Coordinates
      BY <2>1 DEF Coordinates
    <2> HIDE DEF c
    <2>3. Node(a, c) = <<a, i, 0>> /\ End(c) = i + 1
      BY <2>1, <2>2 DEF Node, End
    <2> QED
      BY <2>1, <2>2, <2>3
  <1>3. Held(nodes, a, epochs[a], Size(a), Ref(a))
    BY DEF LogInv, StoreKept
  <1>4. ActiveRange(epochs[a], i, i + 1) <=> IsActiveAt(epochs[a], i)
    <2>1. i < i + 1 /\ i <= i
      BY <1>2
    <2> QED
      BY <1>1, <1>2, <2>1, Ranges
  <1>5. ASSUME IsActiveAt(epochs[a], i) PROVE c \in Blocks(Size(a))
    <2>1. i < Size(a)
      BY <1>1, <1>5
    <2>2. Multiple(i, BlockSize(0))
      BY <1>2, BlockSizes DEF Multiple
    <2> QED
      BY <1>1, <1>2, <2>1, <2>2 DEF Blocks
  <1> HIDE DEF c
  <1>6. Node(a, c) \in DOMAIN nodes <=> IsActiveAt(epochs[a], i)
    BY <1>2, <1>3, <1>4, <1>5 DEF Held, StoredActive
  <1>7. Node(a, c) \in DOMAIN nodes => nodes[Node(a, c)] = Ref(a)[c]
    BY <1>2, <1>3 DEF Held
  <1> QED
    BY <1>2, <1>6, <1>7 DEF StoredDigest, c

\* The leaves of a tree below n, one after the other, as a replay of them takes them.
LEMMA CellsAre ==
  ASSUME NEW r, NEW n \in Nat, NEW cells, DOMAIN cells = 1..n, cells = [i \in 1..n |-> cells[i]],
         \A i \in 1..n : cells[i] = r[<<i - 1, 0>>]
  PROVE  CellsFrom(cells, r, 0, n)
  <1>1. \A i \in 1..n : r[<<0 + i - 1, 0>>] = cells[i]
    OBVIOUS
  <1> QED
    BY <1>1 DEF CellsFrom

\* Replayed from nothing they give the peaks of n positions.
LEMMA FreshReplay ==
  ASSUME NEW a, NEW r, TreeOf(a, r), NEW n \in Nat, NEW cells, CellsFrom(cells, r, 0, n)
  PROVE  Replayed(a, r, 0, n, Replay(a, Fresh, 0, 0, cells)) /\ Replay(a, Fresh, 0, 0, cells).peaks = PeaksOf(r, n)
  <1>1. Fresh = BaseOf(r, 0)
    BY NoPeaks DEF Fresh, BaseOf
  <1>2. Replayed(a, r, 0, n, Replay(a, Fresh, 0, 0, cells))
    BY <1>1, ReplayBuilds
  <1> QED
    BY <1>2 DEF Replayed

\* The payload's cells are the reference's leaves, and they are accepted.
LEMMA HonestCells ==
  ASSUME LogInv, StoredActive, AuditKept, NEW a \in Algs
  PROVE  /\ CellsFrom(AuditCells(audit, a), Ref(a), 0, audit.size)
         /\ \A i \in 1..audit.size : CellAccepted(audit, a, i)
  <1> DEFINE n == audit.size
             cells == AuditCells(audit, a)
  <1>1. LogTypeOK /\ HistoryKept /\ n \in Nat /\ n <= count /\ count \in Nat
    BY AuditKnown DEF LogInv
  <1>2. ASSUME NEW i \in 1..n
        PROVE  cells[i] = Ref(a)[<<i - 1, 0>>] /\ CellAccepted(audit, a, i)
    <2> DEFINE j == i - 1
               leaf == Ref(a)[<<j, 0>>]
               active == IsActiveAt(epochs[a], j)
               stored == StoredDigest(a, j, 0)
    <2>1. j \in 0..n - 1 /\ j \in 0..count - 1 /\ j + 1 = i
      BY <1>1
    <2>2. IsActiveAt(audit.epochs[a], j) <=> active
      BY <2>1 DEF AuditKept
    <2>3. stored = IF active THEN leaf ELSE Corrupted
      BY <2>1, StoredLeaf
    <2>4. leaf = IF active THEN Evaluate(a, history[i]) ELSE Null(a)
      BY <1>1, <2>1, LeafIs
    <2>5. history[i] \in Seq(STRING) /\ (kind = "flat" => leaves[i] = history[i])
      BY <1>1, <2>1, LeafIs
    <2>6. Evaluate(a, history[i]) # Corrupted
      BY <2>5, Evaluated
    <2>7. cells[i] = IF ~IsActiveAt(audit.epochs[a], j) THEN Null(a)
                     ELSE IF kind = "flat" THEN Evaluate(a, leaves[i])
                     ELSE IF stored # Corrupted THEN stored ELSE Null(a)
      BY DEF AuditCells
    <2> HIDE DEF stored, leaf, active, j
    <2>8. cells[i] = leaf
      BY <2>2, <2>3, <2>4, <2>5, <2>6, <2>7
    <2>9. CellAccepted(audit, a, i)
      <3>1. CellAccepted(audit, a, i) <=>
              \/ stored = cells[i]
              \/ /\ stored = Corrupted
                 /\ kind = "subtree" /\ IsActiveAt(audit.epochs[a], j) => a \notin audit.active
        BY Zenon DEF CellAccepted, stored, j
      <3> QED
        BY <2>2, <2>3, <2>8, <3>1
    <2> QED
      BY <2>8, <2>9 DEF leaf, j
  <1>3. cells = [i \in 1..n |-> cells[i]] /\ DOMAIN cells = 1..n
    BY DEF AuditCells
  <1>4. \A i \in 1..n : cells[i] = Ref(a)[<<i - 1, 0>>]
    BY <1>2, Zenon
  <1> HIDE DEF cells, n
  <1>5. CellsFrom(cells, Ref(a), 0, n)
    BY <1>1, <1>3, <1>4, CellsAre
  <1> QED
    BY <1>2, <1>5 DEF cells, n

\* A payload that lists the algorithms the log had at its size is accepted.
LEMMA AuditSaid == AuditInv => PublishedAuditAccepted
  <1> DEFINE listed == {a \in Algs : audit.epochs[a] # <<>>}
             n == audit.size
             active == audit.active
             t == audit.epochs
             members == [a \in active |-> BagPeaks(a, Replay(a, Fresh, 0, 0, AuditCells(audit, a)).peaks)]
  <1> SUFFICES ASSUME AuditInv, damaged = {}, audit # NoAudit,
                      {a \in Algs : EpochsAt(epochs[a], n) # <<>>} = listed
               PROVE  VerifyAuditPayload(audit)
    BY DEF PublishedAuditAccepted
  <1>1. LogInv /\ StoredActive /\ AuditKept /\ LogTypeOK
    BY DEF AuditInv
  <1>2. /\ n \in Nat \ {0} /\ n - 1 \in 0..n - 1 /\ n \in 1..count
        /\ \A a \in active : a \in Algs
    BY <1>1, AuditKnown DEF AuditKept
  <1>3. \A a \in Algs : CellsFrom(AuditCells(audit, a), Ref(a), 0, n) /\ \A i \in 1..n : CellAccepted(audit, a, i)
    BY <1>1, HonestCells
  <1>4. \A a \in active : BagPeaks(a, Replay(a, Fresh, 0, 0, AuditCells(audit, a)).peaks) = RootAt(a, n)
    <2> TAKE a \in active
    <2>1. TreeOf(a, Ref(a))
      BY References
    <2>2. Replay(a, Fresh, 0, 0, AuditCells(audit, a)).peaks = PeaksOf(Ref(a), n)
      BY <1>2, <1>3, <2>1, FreshReplay
    <2> QED
      BY <2>2 DEF RootAt
  <1>5. members = [a \in active |-> RootAt(a, n)]
    BY <1>4
  <1>6. active = CommittedActiveAlgs(t, n)
    <2>1. \A a \in Algs : IsActiveAt(t[a], n - 1) <=> IsActiveAt(epochs[a], n - 1)
      BY <1>1, <1>2 DEF AuditKept
    <2>2. DOMAIN t = Algs /\ active = ActiveAlgsAt(n)
      BY <1>1 DEF AuditKept
    <2> QED
      BY <1>2, <2>1, <2>2 DEF CommittedActiveAlgs, ActiveAlgsAt
  <1>7. audit.roots = [a \in active |-> CombinedRoot(a, [b \in active |-> RootAt(b, n)], t, n)]
    BY <1>1 DEF AuditKept
  <1>8. \A a \in listed : ValidEpochs(t[a], n)
    BY <1>1 DEF AuditKept
  <1> HIDE DEF members
  <1>9. \A a \in active : audit.roots[a] = CombinedRoot(a, members, t, n)
    BY <1>5, <1>7
  <1>10. DOMAIN audit.roots = active
    BY <1>7
  <1>11. \A a \in listed : \A i \in 1..n : CellAccepted(audit, a, i)
    BY <1>3
  <1> HIDE DEF listed, n, active, t
  <1>12. listed = {a \in Algs : EpochsAt(epochs[a], n) # <<>>}
    BY DEF listed, n
  <1> QED
    BY <1>2, <1>6, <1>8, <1>9, <1>10, <1>11, <1>12, Zenon DEF VerifyAuditPayload, listed, n, active, t, members

\* A payload the log published is accepted by the log ever after, whatever was
\* appended, frozen, resumed or restarted since, unless an algorithm was registered at
\* the very size it was published for.
THEOREM PublishedAlwaysAccepted ==
  ASSUME NoNullItems
  PROVE  AuditSpec => []PublishedAuditAccepted
  <1>1. AuditSpec => []AuditInv
    BY AuditInvariant
  <1> QED
    BY <1>1, AuditSaid, PTL

-----------------------------------------------------------------------------
(* Bagging, merge by merge *)

\* g[r] is the digest after r merges of n peaks.
BagSteps(a, peaks, n, g) ==
  /\ g[0] = peaks[n] /\ BagPeaks(a, peaks) = g[FoldSteps(n)]
  /\ \A r \in 1..FoldSteps(n) : \E d :
       /\ d = [j \in 1..Width(n, r) |-> d[j]] /\ g[r] = NaryMr(a, d)
       /\ \A j \in 1..Width(n, r) - 1 : d[j] = peaks[First(n, r) + j - 1]
       /\ d[Width(n, r)] = g[r - 1]

\* The digests a bagging goes through; a single peak is its own root.
LEMMA BagRuns ==
  ASSUME NEW a, NEW n \in Nat \ {0}, NEW peaks, peaks = [i \in 1..n |-> peaks[i]]
  PROVE  /\ n = 1 => BagPeaks(a, peaks) = peaks[1]
         /\ n >= 2 => \E g : BagSteps(a, peaks, n, g)
  <1> DEFINE tops == [i \in DOMAIN peaks |-> [covers |-> {i}, digest |-> peaks[i], children |-> <<>>]]
             list == [i \in 1..n |-> [covers |-> {i}, digest |-> peaks[i], children |-> <<>>]]
  <1>1. DOMAIN peaks = 1..n
    OBVIOUS
  <1>2. peaks # <<>>
    <2>1. 1 \in DOMAIN peaks
      BY <1>1
    <2> QED
      BY <2>1
  <1>3. BagPeaks(a, peaks) = FoldFrontier(a, tops).digest
    BY <1>2 DEF BagPeaks, BagTree
  <1>4. tops = list
    BY <1>1
  <1> HIDE DEF tops
  <1>5. /\ list = [i \in 1..n |-> list[i]] /\ PeakNodes(list, n, peaks)
        /\ \A i \in 1..n : list[i].digest = peaks[i]
    BY DEF PeakNodes
  <1> HIDE DEF list
  <1>6. Len(list) = n
    BY <1>5, FcnIsSeq
  <1>7. CASE n = 1
    <2>1. FoldFrontier(a, list) = list[1]
      BY <1>6, <1>7 DEF FoldFrontier
    <2> QED
      BY <1>3, <1>4, <1>5, <1>7, <2>1
  <1>8. CASE n # 1
    <2>1. n >= 2
      BY <1>8
    <2>2. PICK F : Folds(a, list, n, F)
      BY <1>6, <2>1, FoldIs
    <2> DEFINE m == FoldSteps(n)
               g == [r \in 0..m |-> F[r].digest]
    <2>3. m \in 1..n
      BY <2>1, Stages
    <2>4. \A r \in 0..m : g[r] = F[r].digest
      OBVIOUS
    <2> HIDE DEF g
    <2>5. g[0] = peaks[n]
      <3>1. F[0] = list[n] /\ 0 \in 0..m /\ n \in 1..n
        BY <2>1, <2>2, <2>3 DEF Folds
      <3> QED
        BY <1>5, <2>4, <3>1
    <2>6. BagPeaks(a, peaks) = g[m]
      <3>1. FoldFrontier(a, list) = F[m] /\ m \in 0..m
        BY <2>2, <2>3 DEF Folds
      <3> QED
        BY <1>3, <1>4, <2>4, <3>1
    <2>7. ASSUME NEW r \in 1..m
          PROVE  \E d : /\ d = [j \in 1..Width(n, r) |-> d[j]] /\ g[r] = NaryMr(a, d)
                        /\ \A j \in 1..Width(n, r) - 1 : d[j] = peaks[First(n, r) + j - 1]
                        /\ d[Width(n, r)] = g[r - 1]
      <3> DEFINE w == Width(n, r)
                 c == F[r].children
                 d == [j \in 1..w |-> c[j].digest]
      <3>1. r \in 0..m /\ r - 1 \in 0..m
        BY <2>3
      <3>2. w \in Nat /\ w >= 2 /\ F[r].digest = NaryMr(a, d)
            /\ c = [j \in 1..w |-> IF j < w THEN list[First(n, r) + j - 1] ELSE F[r - 1]]
        <4>1. FoldNode(a, list, n, F, r)
          BY <1>5, <2>1, <2>2, FoldNodes
        <4> QED
          BY <4>1 DEF FoldNode
      <3>3. First(n, r) \in Nat /\ First(n, r) >= 1 /\ First(n, r) + w - 1 <= n
        <4>1. First(n, r) \in 1..n /\ First(n, r - 1) \in 1..n
          BY <2>1, <3>1, Stages
        <4> QED
          BY <4>1 DEF Width
      <3>4. ASSUME NEW j \in 1..w - 1 PROVE c[j].digest = peaks[First(n, r) + j - 1]
        <4>1. First(n, r) + j - 1 \in 1..n /\ j < w /\ j \in 1..w
          BY <3>2, <3>3
        <4> HIDE DEF c, w
        <4>2. c[j] = list[First(n, r) + j - 1]
          BY <3>2, <4>1
        <4> QED
          BY <1>5, <4>1, <4>2
      <3>5. c[w].digest = g[r - 1] /\ g[r] = F[r].digest
        <4>1. w \in 1..w /\ ~(w < w)
          BY <3>2
        <4> HIDE DEF c, w
        <4>2. c[w] = F[r - 1]
          BY <3>2, <4>1
        <4> QED
          BY <2>4, <3>1, <4>2
      <3> HIDE DEF c, w
      <3>6. \A j \in 1..w : d[j] = c[j].digest
        OBVIOUS
      <3>7. d = [j \in 1..w |-> d[j]] /\ (\A j \in 1..w - 1 : j \in 1..w) /\ w \in 1..w
        BY <3>2
      <3> HIDE DEF d
      <3>8. \A j \in 1..w - 1 : d[j] = peaks[First(n, r) + j - 1]
        BY <3>4, <3>6, <3>7
      <3>9. g[r] = NaryMr(a, d) /\ d[w] = g[r - 1]
        BY <3>2, <3>5, <3>6, <3>7
      <3> QED
        BY <3>7, <3>8, <3>9 DEF w
    <2>8. BagSteps(a, peaks, n, g)
      BY <2>5, <2>6, <2>7, Zenon DEF BagSteps, m
    <2> QED
      BY <1>8, <2>8
  <1> QED
    BY <1>7, <1>8

\* What a property of digests that children pass on to their parent and back says of a
\* bagging: P are the peaks that have it, G the digests on the way.
LEMMA BagInduction ==
  ASSUME NEW n \in Nat, n >= 2, NEW P, NEW G, 0 \in G <=> n \in P,
         \A r \in 1..FoldSteps(n) :
           r \in G <=> r - 1 \in G /\ \A j \in 1..Width(n, r) - 1 : First(n, r) + j - 1 \in P
  PROVE  FoldSteps(n) \in G <=> \A i \in 1..n : i \in P
  <1> DEFINE m == FoldSteps(n)
             S == {r \in Nat : r <= m => (r \in G <=> \A i \in First(n, r)..n : i \in P)}
  <1>1. m \in 1..n /\ First(n, 0) = n /\ First(n, m) = 1
    BY Stages
  <1>2. 0 \in S
    <2>1. \A i \in n..n : i = n
      OBVIOUS
    <2>2. n \in n..n
      OBVIOUS
    <2> QED
      BY <1>1, <2>1, <2>2
  <1>3. ASSUME NEW q \in Nat, q \in S PROVE q + 1 \in S
    <2> DEFINE r == q + 1
               f == First(n, r)
               e == First(n, r - 1)
    <2> SUFFICES ASSUME r <= m PROVE r \in G <=> \A i \in f..n : i \in P
      OBVIOUS
    <2>1. r \in 1..m /\ r \in 0..m /\ r - 1 \in 0..m /\ r - 1 = q /\ q <= m
      BY <1>1
    <2>2. f \in 1..n /\ e \in 1..n /\ f < e
      BY <2>1, Stages
    <2>3. q \in G <=> \A i \in e..n : i \in P
      BY <1>3, <2>1
    <2> HIDE DEF r
    <2>4. r \in G <=> r - 1 \in G /\ \A j \in 1..Width(n, r) - 1 : f + j - 1 \in P
      BY <2>1
    <2> HIDE DEF f, e
    <2>5. Width(n, r) - 1 = e - f
      BY <2>2 DEF Width, f, e
    <2>6. (\A j \in 1..e - f : f + j - 1 \in P) <=> \A i \in f..e - 1 : i \in P
      <3>1. \A j \in 1..e - f : f + j - 1 \in f..e - 1
        BY <2>2
      <3>2. \A i \in f..e - 1 : i - f + 1 \in 1..e - f /\ f + (i - f + 1) - 1 = i
        BY <2>2
      <3> QED
        BY <3>1, <3>2
    <2>7. (\A i \in f..n : i \in P) <=> (\A i \in f..e - 1 : i \in P) /\ \A i \in e..n : i \in P
      BY <2>2
    <2> QED
      BY <2>1, <2>3, <2>4, <2>5, <2>6, <2>7
  <1> HIDE DEF S, m
  <1>4. \A r \in Nat : r \in S
    BY <1>2, <1>3, SetInduction
  <1>5. m \in S /\ m <= m
    BY <1>1, <1>4
  <1> QED
    BY <1>1, <1>5 DEF S, m

\* Children that are all null, and no others, have the null parent.
LEMMA NullParent ==
  ASSUME NEW a, NEW n \in Nat \ {0}, NEW s, s = [i \in 1..n |-> s[i]]
  PROVE  NaryMr(a, s) = Null(a) <=> \A i \in 1..n : s[i] = Null(a)
  <1>1. 1 \in 1..n
    OBVIOUS
  <1>2. CASE \A i \in 1..n : s[i] = s[1]
    <2>1. NaryMr(a, s) = s[1]
      BY <1>2, NaryOf
    <2> QED
      BY <1>1, <1>2, <2>1
  <1>3. CASE \E i \in 1..n : s[i] # s[1]
    <2>1. NaryMr(a, s) = NodeHash(a, s)
      BY <1>3, NaryOf
    <2> QED
      BY <1>1, <1>3, <2>1, Forms
  <1> QED
    BY <1>2, <1>3

\* So it is with peaks and their root.
LEMMA NullBag ==
  ASSUME NEW a, NEW n \in Nat \ {0}, NEW peaks, peaks = [i \in 1..n |-> peaks[i]]
  PROVE  BagPeaks(a, peaks) = Null(a) <=> \A i \in 1..n : peaks[i] = Null(a)
  <1>1. CASE n = 1
    <2>1. BagPeaks(a, peaks) = peaks[1]
      BY <1>1, BagRuns
    <2>2. \A i \in 1..n : i = 1
      BY <1>1
    <2>3. 1 \in 1..n
      OBVIOUS
    <2> QED
      BY <2>1, <2>2, <2>3
  <1>2. CASE n # 1
    <2>1. n >= 2
      BY <1>2
    <2>2. PICK g : BagSteps(a, peaks, n, g)
      BY <2>1, BagRuns
    <2> DEFINE m == FoldSteps(n)
               P == {i \in 1..n : peaks[i] = Null(a)}
               G == {r \in 0..m : g[r] = Null(a)}
    <2>3. m \in 1..n
      BY <2>1, Stages
    <2>4. 0 \in G <=> n \in P
      BY <2>1, <2>2, <2>3 DEF BagSteps
    <2>5. ASSUME NEW r \in 1..m
          PROVE  r \in G <=> r - 1 \in G /\ \A j \in 1..Width(n, r) - 1 : First(n, r) + j - 1 \in P
      <3> DEFINE w == Width(n, r)
      <3>1. PICK d : /\ d = [j \in 1..w |-> d[j]] /\ g[r] = NaryMr(a, d)
                     /\ \A j \in 1..w - 1 : d[j] = peaks[First(n, r) + j - 1]
                     /\ d[w] = g[r - 1]
        BY <2>2 DEF BagSteps
      <3>2. r \in 0..m /\ r - 1 \in 0..m
        BY <2>3
      <3>3. First(n, r) \in 1..n /\ First(n, r - 1) \in 1..n /\ First(n, r) < First(n, r - 1)
        BY <2>1, <3>2, Stages
      <3>4. w \in Nat \ {0} /\ w = First(n, r - 1) - First(n, r) + 1
        BY <3>3 DEF Width
      <3> HIDE DEF w
      <3>5. NaryMr(a, d) = Null(a) <=> \A j \in 1..w : d[j] = Null(a)
        BY SMTT(30), <3>1, <3>4, NullParent
      <3>6. (\A j \in 1..w : d[j] = Null(a)) <=> d[w] = Null(a) /\ \A j \in 1..w - 1 : d[j] = Null(a)
        BY <3>4
      <3>7. \A j \in 1..w - 1 : First(n, r) + j - 1 \in 1..n
        BY <3>3, <3>4
      <3> QED
        BY <3>1, <3>2, <3>5, <3>6, <3>7 DEF w
    <2> HIDE DEF P, G, m
    <2>6. m \in G <=> \A i \in 1..n : i \in P
      BY <2>1, <2>4, <2>5, BagInduction DEF m
    <2> QED
      BY <2>2, <2>3, <2>6 DEF BagSteps, P, G, m
  <1> QED
    BY <1>1, <1>2

-----------------------------------------------------------------------------
(* Digests without a damaged one in them *)

\* A set of digests, none damaged, with everything that was hashed into them.
Whole(C) ==
  \A y \in C : /\ y[1] # "damaged"
               /\ \A b, s : y = NodeHash(b, s) => \A i \in DOMAIN s : s[i] \in C

\* No damaged digest was hashed into x.
Sound(x) == \E C : x \in C /\ Whole(C)

\* A digest that was not hashed from others is sound when it is not damaged.
LEMMA AtomSound ==
  ASSUME NEW x, x[1] # "node"
  PROVE  Sound(x) <=> x[1] # "damaged"
  <1>1. ASSUME x[1] # "damaged" PROVE Whole({x})
    <2>1. \A b, s : NodeHash(b, s)[1] = "node"
      BY DEF NodeHash
    <2> QED
      BY <1>1, <2>1 DEF Whole
  <1> QED
    BY <1>1 DEF Sound, Whole

\* A hash is sound when everything hashed is.
LEMMA HashSound ==
  ASSUME NEW a, NEW s
  PROVE  Sound(NodeHash(a, s)) <=> \A i \in DOMAIN s : Sound(s[i])
  <1>1. ASSUME Sound(NodeHash(a, s)), NEW i \in DOMAIN s PROVE Sound(s[i])
    <2>1. PICK C : NodeHash(a, s) \in C /\ Whole(C)
      BY <1>1 DEF Sound
    <2>2. s[i] \in C
      BY <2>1 DEF Whole
    <2> QED
      BY <2>1, <2>2 DEF Sound
  <1>2. ASSUME \A i \in DOMAIN s : Sound(s[i]) PROVE Sound(NodeHash(a, s))
    <2> DEFINE Cs(i) == CHOOSE C : s[i] \in C /\ Whole(C)
               top == NodeHash(a, s)
               U == {Cs(i) : i \in DOMAIN s}
               D == (UNION U) \cup {top}
    <2>1. \A i \in DOMAIN s : s[i] \in Cs(i) /\ Whole(Cs(i))
      BY <1>2 DEF Sound
    <2> HIDE DEF Cs
    <2>0. \A y : y \in D <=> y = NodeHash(a, s) \/ \E i \in DOMAIN s : y \in Cs(i)
      <3>1. \A C : C \in U <=> \E i \in DOMAIN s : C = Cs(i)
        OBVIOUS
      <3> HIDE DEF U
      <3>2. \A y : y \in UNION U <=> \E i \in DOMAIN s : y \in Cs(i)
        BY <3>1
      <3> HIDE DEF top
      <3>3. \A y : y \in D <=> y \in UNION U \/ y = top
        OBVIOUS
      <3> HIDE DEF D
      <3> QED
        BY <3>2, <3>3, Zenon DEF top
    <2>2. ASSUME NEW y \in D
          PROVE  y[1] # "damaged" /\ \A b, t : y = NodeHash(b, t) => \A k \in DOMAIN t : t[k] \in D
      <3>1. CASE y = NodeHash(a, s)
        <4>1. y[1] # "damaged"
          BY <3>1 DEF NodeHash
        <4>2. ASSUME NEW b, NEW t, y = NodeHash(b, t), NEW k \in DOMAIN t PROVE t[k] \in D
          <5>1. t = s
            BY <3>1, <4>2 DEF NodeHash
          <5> QED
            BY <2>1, <4>2, <5>1
        <4> QED
          BY <4>1, <4>2
      <3>2. ASSUME NEW i \in DOMAIN s, y \in Cs(i)
            PROVE  y[1] # "damaged" /\ \A b, t : y = NodeHash(b, t) => \A k \in DOMAIN t : t[k] \in D
        <4>1. Whole(Cs(i)) /\ Cs(i) \subseteq D
          BY <2>1, <2>0
        <4> HIDE DEF D
        <4> QED
          BY <3>2, <4>1 DEF Whole
      <3>3. y = NodeHash(a, s) \/ \E i \in DOMAIN s : y \in Cs(i)
        <4> HIDE DEF D
        <4> QED
          BY <2>2, <2>0
      <3> HIDE DEF D
      <3> QED
        BY <3>1, <3>2, <3>3
    <2>3. NodeHash(a, s) \in D
      <3> HIDE DEF D
      <3> QED
        BY <2>0
    <2> HIDE DEF D
    <2>4. Whole(D)
      BY <2>2 DEF Whole
    <2> QED
      BY <2>3, <2>4 DEF Sound
  <1> QED
    BY <1>1, <1>2

\* A parent is sound when its children are.
LEMMA ParentSound ==
  ASSUME NEW a, NEW n \in Nat \ {0}, NEW s, s = [i \in 1..n |-> s[i]]
  PROVE  Sound(NaryMr(a, s)) <=> \A i \in 1..n : Sound(s[i])
  <1>1. 1 \in 1..n /\ DOMAIN s = 1..n
    OBVIOUS
  <1>2. CASE \A i \in 1..n : s[i] = s[1]
    <2>1. NaryMr(a, s) = s[1]
      BY <1>2, NaryOf
    <2> QED
      BY <1>1, <1>2, <2>1
  <1>3. CASE \E i \in 1..n : s[i] # s[1]
    <2>1. NaryMr(a, s) = NodeHash(a, s)
      BY <1>3, NaryOf
    <2> QED
      BY <1>1, <2>1, HashSound
  <1> QED
    BY <1>2, <1>3

\* The digests of items are sound, and so is the null constant; a damaged one is not.
LEMMA LeavesSound ==
  ASSUME NEW a, NEW item \in Seq(STRING)
  PROVE  /\ Sound(Null(a)) /\ Sound(Empty(a)) /\ Sound(Evaluate(a, item))
         /\ ~Sound(<<"damaged", a>>)
  <1>1. Sound(Null(a)) /\ Sound(Empty(a)) /\ ~Sound(<<"damaged", a>>)
    BY AtomSound DEF Null, Empty
  <1> DEFINE n == Len(item)
             s == [i \in 1..n |-> LeafHash(a, item[i])]
  <1>2. n \in Nat /\ Evaluate(a, item) = NaryMr(a, s)
    BY DEF Evaluate
  <1>3. CASE n = 0
    <2>1. Len(s) = 0
      BY <1>3
    <2> QED
      BY <1>1, <1>2, <2>1 DEF NaryMr
  <1>4. CASE n # 0
    <2>1. \A p : LeafHash(a, p)[1] \in {"null", "leaf"}
      BY DEF LeafHash, Null
    <2>2. \A i \in 1..n : Sound(s[i])
      BY <2>1, AtomSound
    <2>3. n \in Nat \ {0} /\ s = [i \in 1..n |-> s[i]]
      BY <1>2, <1>4
    <2> HIDE DEF s, n
    <2> QED
      BY <1>1, <1>2, <2>2, <2>3, ParentSound
  <1> QED
    BY <1>1, <1>3, <1>4

\* The root over a block is sound when the leaves under it are.
LEMMA BlockSound ==
  ASSUME NEW a, NEW r, TreeOf(a, r), NEW l \in Nat, NEW h \in Nat
  PROVE  Sound(r[<<l, h>>]) <=> \A i \in Under(l, h) : Sound(r[<<i, 0>>])
  <1> DEFINE All(x, m) == \A i \in Under(x, m) : Sound(r[<<i, 0>>])
             S == {m \in Nat : \A x \in Nat : Sound(r[<<x, m>>]) <=> All(x, m)}
  <1>1. 0 \in S
    <2>1. \A x \in Nat : \A i : i \in Under(x, 0) <=> i = x
      BY BlockSizes DEF Under
    <2> QED
      BY <2>1
  <1>2. ASSUME NEW m \in Nat, m \in S PROVE m + 1 \in S
    <2> SUFFICES ASSUME NEW x \in Nat
                 PROVE  Sound(r[<<x, m + 1>>]) <=> All(x, m + 1)
      OBVIOUS
    <2> DEFINE C(j) == x + (j - 1) * BlockSize(m)
    <2>1. PICK s : /\ s = [j \in 1..Arity |-> s[j]]
                   /\ \A j \in 1..Arity : s[j] = r[<<C(j), m>>]
                   /\ r[<<x, m + 1>>] = NaryMr(a, s)
      BY RootStep
    <2>2. Arity \in Nat \ {0}
      BY ArityAssumption
    <2>3. \A j \in 1..Arity : Sound(s[j]) <=> All(C(j), m)
      <3>1. \A j \in 1..Arity : C(j) \in Nat
        BY Children
      <3> HIDE DEF C, All
      <3> QED
        BY <1>2, <2>1, <3>1
    <2>4. All(x, m + 1) <=> \A j \in 1..Arity : All(C(j), m)
      <3>1. \A j \in 1..Arity : Under(C(j), m) \subseteq Under(x, m + 1)
        BY UnderChild
      <3>2. \A i \in Under(x, m + 1) : \E j \in 1..Arity : i \in Under(C(j), m)
        BY ChildAt DEF Under
      <3> HIDE DEF C
      <3> QED
        BY <3>1, <3>2
    <2> HIDE DEF All, C
    <2>5. Sound(NaryMr(a, s)) <=> \A j \in 1..Arity : Sound(s[j])
      BY <2>1, <2>2, ParentSound
    <2> QED
      BY <2>1, <2>3, <2>4, <2>5
  <1> HIDE DEF S
  <1>3. \A m \in Nat : m \in S
    BY <1>1, <1>2, SetInduction
  <1>4. h \in S
    BY <1>3
  <1> QED
    BY <1>4 DEF S

\* A root is sound when the peaks are.
LEMMA BagSound ==
  ASSUME NEW a, NEW n \in Nat \ {0}, NEW peaks, peaks = [i \in 1..n |-> peaks[i]]
  PROVE  Sound(BagPeaks(a, peaks)) <=> \A i \in 1..n : Sound(peaks[i])
  <1>1. CASE n = 1
    <2>1. BagPeaks(a, peaks) = peaks[1]
      BY <1>1, BagRuns
    <2>2. \A i \in 1..n : i = 1
      BY <1>1
    <2>3. 1 \in 1..n
      OBVIOUS
    <2> QED
      BY <2>1, <2>2, <2>3
  <1>2. CASE n # 1
    <2>1. n >= 2
      BY <1>2
    <2>2. PICK g : BagSteps(a, peaks, n, g)
      BY <2>1, BagRuns
    <2> DEFINE m == FoldSteps(n)
               P == {i \in 1..n : Sound(peaks[i])}
               G == {r \in 0..m : Sound(g[r])}
    <2>3. m \in 1..n
      BY <2>1, Stages
    <2>4. 0 \in G <=> n \in P
      BY <2>1, <2>2, <2>3 DEF BagSteps
    <2>5. ASSUME NEW r \in 1..m
          PROVE  r \in G <=> r - 1 \in G /\ \A j \in 1..Width(n, r) - 1 : First(n, r) + j - 1 \in P
      <3> DEFINE w == Width(n, r)
      <3>1. PICK d : /\ d = [j \in 1..w |-> d[j]] /\ g[r] = NaryMr(a, d)
                     /\ \A j \in 1..w - 1 : d[j] = peaks[First(n, r) + j - 1]
                     /\ d[w] = g[r - 1]
        BY <2>2 DEF BagSteps
      <3>2. r \in 0..m /\ r - 1 \in 0..m
        BY <2>3
      <3>3. First(n, r) \in 1..n /\ First(n, r - 1) \in 1..n /\ First(n, r) < First(n, r - 1)
        BY <2>1, <3>2, Stages
      <3>4. w \in Nat \ {0} /\ w = First(n, r - 1) - First(n, r) + 1
        BY <3>3 DEF Width
      <3> HIDE DEF w
      <3>5. Sound(NaryMr(a, d)) <=> \A j \in 1..w : Sound(d[j])
        BY <3>1, <3>4, ParentSound
      <3>6. (\A j \in 1..w : Sound(d[j])) <=> Sound(d[w]) /\ \A j \in 1..w - 1 : Sound(d[j])
        BY <3>4
      <3>7. \A j \in 1..w - 1 : First(n, r) + j - 1 \in 1..n
        BY <3>3, <3>4
      <3> QED
        BY <3>1, <3>2, <3>5, <3>6, <3>7 DEF w
    <2> HIDE DEF P, G, m
    <2>6. m \in G <=> \A i \in 1..n : i \in P
      BY <2>1, <2>4, <2>5, BagInduction DEF m
    <2> QED
      BY <2>2, <2>3, <2>6 DEF BagSteps, P, G, m
  <1> QED
    BY <1>1, <1>2

-----------------------------------------------------------------------------
(* verify_non_divergence on an honest log *)

\* A replay that starts from other peaks.
Started(s, peaks, at) == [s EXCEPT !.peaks = peaks, !.at = at]

\* What a check from a checkpoint starts from, and what it replays.
Base(a, n) == Started(Fresh, FrontierPeaks(a, epochs[a], n), FrontierForSize(n))
ReplayFrom(a, start) ==
  Replay(a, Base(a, EffectiveSizeAt(epochs[a], start)), EffectiveSizeAt(epochs[a], start), start,
         ReplayedCells(a, start))

\* The log's own cells are the reference's leaves, where those of a subtree log can be
\* read.
LeavesReadable(a, start) ==
  \A i \in start..Size(a) - 1 :
    kind = "subtree" => GetNodeHash(a, epochs[a], i, 0) = Ref(a)[<<i, 0>>]

\* They are as many as there are positions after the checkpoint, and none when the
\* algorithm was frozen before it.
LEMMA ReplayedCellsAre ==
  ASSUME LogTypeOK, HistoryKept, NEW a \in Algs, NEW start \in 0..count, LeavesReadable(a, start)
  PROVE  /\ start <= Size(a) => CellsFrom(ReplayedCells(a, start), Ref(a), start, Size(a) - start)
         /\ Size(a) <= start => ReplayedCells(a, start) = <<>>
  <1> DEFINE size == Size(a)
             most == Max({start, size})
             m == most - start
             cells == ReplayedCells(a, start)
             cell(i) == IF ~IsActiveAt(epochs[a], i) THEN Null(a)
                        ELSE IF kind = "flat" THEN Evaluate(a, leaves[i + 1])
                        ELSE GetNodeHash(a, epochs[a], i, 0)
  <1>1. size \in Nat /\ size <= count /\ count \in Nat /\ start \in Nat /\ start <= count
    BY SizeKnown
  <1>2. most \in {start, size} /\ start <= most /\ size <= most
    <2>1. {start, size} \in SUBSET Nat /\ {start, size} # {} /\ \A x \in {start, size} : x <= count
      BY <1>1
    <2> HIDE DEF size
    <2>2. most \in {start, size} /\ \A x \in {start, size} : x <= most
      BY <1>1, <2>1, GreatestIs
    <2> QED
      BY <2>2
  <1>3. cells = [n \in 1..m |-> cell(start + n - 1)]
    BY DEF ReplayedCells, Size
  <1>4. ASSUME NEW i \in start..size - 1 PROVE cell(i) = Ref(a)[<<i, 0>>]
    <2>1. i \in 0..count - 1
      BY <1>1
    <2>2. /\ Ref(a)[<<i, 0>>] = IF IsActiveAt(epochs[a], i) THEN Evaluate(a, history[i + 1]) ELSE Null(a)
          /\ kind = "flat" => leaves[i + 1] = history[i + 1]
      BY <2>1, LeafIs
    <2>3. kind \in {"flat", "subtree"}
      BY DEF LogTypeOK
    <2>4. kind = "subtree" => GetNodeHash(a, epochs[a], i, 0) = Ref(a)[<<i, 0>>]
      BY DEF LeavesReadable
    <2> QED
      BY <2>2, <2>3, <2>4
  <1> HIDE DEF cell, cells, most, size
  <1>5. CASE start <= size
    <2>1. most = size
      BY <1>1, <1>2, <1>5
    <2>2. \A n \in 1..m : cell(start + n - 1) = Ref(a)[<<start + n - 1, 0>>]
      <3> TAKE n \in 1..m
      <3>1. start + n - 1 \in start..size - 1
        BY <1>1, <2>1
      <3> QED
        BY <1>4, <3>1
    <2>3. cells = [n \in 1..m |-> Ref(a)[<<start + n - 1, 0>>]]
      BY <1>3, <2>2
    <2>4. CellsFrom(cells, Ref(a), start, m)
      BY <2>3 DEF CellsFrom
    <2>5. size <= start => m = 0
      BY <1>1, <2>1, <1>5
    <2>6. m = 0 => cells = <<>>
      BY <1>3
    <2>7. CellsFrom(cells, Ref(a), start, size - start)
      BY <2>1, <2>4
    <2> QED
      BY <2>5, <2>6, <2>7 DEF cells, size
  <1>6. CASE ~(start <= size)
    <2>1. m = 0
      BY <1>1, <1>2, <1>6
    <2>2. cells = <<>>
      BY <1>3, <2>1
    <2> QED
      BY <1>6, <2>2 DEF cells, size
  <1> QED
    BY <1>5, <1>6

\* It has made what the other one had.
LEMMA StartedIs ==
  ASSUME NEW p, NEW t, NEW made, NEW x, NEW y, NEW s, s = [peaks |-> p, at |-> t, made |-> made]
  PROVE  Started(s, x, y) = [peaks |-> x, at |-> y, made |-> made]
  <1>1. [s EXCEPT !.peaks = x] = [peaks |-> x, at |-> t, made |-> made]
    OBVIOUS
  <1>2. ASSUME NEW u, u = [peaks |-> x, at |-> t, made |-> made]
        PROVE  [u EXCEPT !.at = y] = [peaks |-> x, at |-> y, made |-> made]
    BY ONLY <1>2
  <1>3. [s EXCEPT !.peaks = x, !.at = y] = [[s EXCEPT !.peaks = x] EXCEPT !.at = y]
    BY Zenon
  <1>4. [s EXCEPT !.peaks = x, !.at = y] = [peaks |-> x, at |-> y, made |-> made]
    BY ONLY <1>1, <1>2, <1>3
  <1> QED
    BY <1>4, Zenon DEF Started

\* An algorithm that missed nothing before the checkpoint, and whose peaks there read
\* as the reference says: the replay makes the digests of all later blocks.
LEMMA ReplayGoesOn ==
  ASSUME LogTypeOK, HistoryKept, NEW a \in Algs, NEW start \in 0..count, LeavesReadable(a, start),
         start <= Size(a), EffectiveSizeAt(epochs[a], start) = start,
         FrontierPeaks(a, epochs[a], start) = PeaksOf(Ref(a), start)
  PROVE  Replayed(a, Ref(a), start, Size(a) - start, ReplayFrom(a, start))
  <1>1. start \in Nat /\ Size(a) - start \in Nat
    BY SizeKnown
  <1>2. CellsFrom(ReplayedCells(a, start), Ref(a), start, Size(a) - start)
    BY ReplayedCellsAre
  <1>3. Base(a, start) = BaseOf(Ref(a), start)
    <2>1. Fresh = [peaks |-> <<>>, at |-> <<>>, made |-> <<>>]
      BY DEF Fresh
    <2>2. Started(Fresh, PeaksOf(Ref(a), start), FrontierForSize(start))
            = [peaks |-> PeaksOf(Ref(a), start), at |-> FrontierForSize(start), made |-> <<>>]
      BY <2>1, StartedIs
    <2> QED
      BY <2>2, Zenon DEF Base, BaseOf
  <1>4. ReplayFrom(a, start) = Replay(a, BaseOf(Ref(a), start), start, start, ReplayedCells(a, start))
    BY <1>3 DEF ReplayFrom
  <1>5. TreeOf(a, Ref(a))
    BY References
  <1> QED
    BY <1>1, <1>2, <1>4, <1>5, ReplayBuilds

\* One that was frozen before it: there is nothing to replay.
LEMMA NothingToReplay ==
  ASSUME LogTypeOK, HistoryKept, NEW a \in Algs, NEW start \in 0..count, LeavesReadable(a, start),
         Size(a) <= start
  PROVE  ReplayFrom(a, start) = Base(a, EffectiveSizeAt(epochs[a], start))
  <1>1. ReplayedCells(a, start) = <<>>
    BY ReplayedCellsAre
  <1> DEFINE n == EffectiveSizeAt(epochs[a], start)
  <1>2. Len(<<>>) = 0
    OBVIOUS
  <1>3. PICK after : Replays(after, a, Base(a, n), n, start, <<>>)
    BY <1>2, ReplayRuns
  <1>4. Replay(a, Base(a, n), n, start, <<>>) = Base(a, n)
    BY <1>2, <1>3 DEF Replays
  <1> QED
    BY <1>1, <1>4 DEF ReplayFrom

\* The root a client expects of the peaks at the checkpoint.
Expected(a, n, trusted) == IF a \in DOMAIN trusted THEN trusted[a] ELSE IF n = 0 THEN Empty(a) ELSE Null(a)

\* Every digest the replay made is stored.
AllStored(a, made) ==
  \A c \in DOMAIN made : GetNodeHash(a, epochs[a], c[2], c[3]) # Corrupted /\ made[c] = GetNodeHash(a, epochs[a], c[2], c[3])

\* The peaks of the checkpoint lead to the root the client trusts.
StartTrusted(a, start, trusted) ==
  start > 0 =>
    /\ a \in DOMAIN trusted \/ EffectiveSizeAt(epochs[a], start) = 0 \/ start <= FirstActivation(epochs[a])
    /\ BagPeaks(a, FrontierPeaks(a, epochs[a], EffectiveSizeAt(epochs[a], start)))
         = Expected(a, EffectiveSizeAt(epochs[a], start), trusted)

\* What the check of one algorithm consists of.
LEMMA NotDivergedIs ==
  ASSUME NEW a, NEW start, NEW trusted
  PROVE  NotDiverged(a, start, trusted) <=>
           /\ ~IsActive(epochs[a]) /\ Size(a) < count => <<a, Size(a), 0>> \notin DOMAIN nodes
           /\ Corrupted \notin ToSet(FrontierPeaks(a, epochs[a], EffectiveSizeAt(epochs[a], start)))
           /\ StartTrusted(a, start, trusted)
           /\ AllStored(a, ReplayFrom(a, start).made)
           /\ BagPeaks(a, ReplayFrom(a, start).peaks) = RootForAt(a, count)
  <1> DEFINE n == EffectiveSizeAt(epochs[a], start)
             base == Base(a, n)
             replay == ReplayFrom(a, start)
             peaks == FrontierPeaks(a, epochs[a], n)
             frozen == TreeSize(epochs[a], count)
  <1>1. base.peaks = peaks
    <2>1. Fresh = [peaks |-> <<>>, at |-> <<>>, made |-> <<>>]
      BY DEF Fresh
    <2>2. base = [peaks |-> peaks, at |-> FrontierForSize(n), made |-> <<>>]
      BY <2>1, StartedIs DEF Base
    <2> QED
      BY <2>2
  <1>2. base = [Fresh EXCEPT !.peaks = FrontierPeaks(a, epochs[a], n), !.at = FrontierForSize(n)]
    BY Zenon DEF Base, Started
  <1>3. replay = Replay(a, base, n, start, ReplayedCells(a, start))
    BY Zenon DEF ReplayFrom
  <1>4. NotDiverged(a, start, trusted) <=>
          /\ ~IsActive(epochs[a]) /\ frozen < count => <<a, frozen, 0>> \notin DOMAIN nodes
          /\ Corrupted \notin ToSet(base.peaks)
          /\ start > 0 => /\ a \in DOMAIN trusted \/ n = 0 \/ start <= FirstActivation(epochs[a])
                          /\ BagPeaks(a, base.peaks) = Expected(a, n, trusted)
          /\ AllStored(a, replay.made)
          /\ BagPeaks(a, replay.peaks) = RootForAt(a, count)
    <2> HIDE DEF base, replay
    <2> QED
      BY <1>2, <1>3, Zenon DEF NotDiverged, AllStored, Expected, n, frozen
  <1> HIDE DEF base, replay, peaks
  <1> QED
    BY <1>1, <1>4, Zenon DEF StartTrusted, Size, n, peaks, replay, frozen

\* An algorithm was not active at any position before its first interval.
LEMMA NeverBefore ==
  ASSUME NEW eps \in Seq(Interval), NEW c \in Nat, eps # <<>> => ValidEpochs(eps, c),
         NEW i \in Nat, i < FirstActivation(eps)
  PROVE  ~IsActiveAt(eps, i)
  <1> SUFFICES ASSUME NEW e \in DOMAIN eps, eps[e][1] <= i PROVE FALSE
    BY DEF IsActiveAt
  <1>1. eps # <<>> /\ e \in 1..Len(eps) /\ 1 \in 1..Len(eps) /\ Len(eps) \in Nat
    OBVIOUS
  <1>2. FirstActivation(eps) = eps[1][1]
    BY <1>1 DEF FirstActivation
  <1>3. eps[1][1] \in Nat /\ eps[1][2] \in Nat /\ eps[1][1] <= eps[1][2] /\ eps[e][1] \in Nat
    BY <1>1, ValidInterval
  <1>4. CASE e = 1
    BY <1>2, <1>3, <1>4
  <1>5. CASE e # 1
    <2>1. eps[1][2] <= eps[e][1]
      BY <1>1, <1>5, StartsGrow
    <2> QED
      BY <1>2, <1>3, <2>1
  <1> QED
    BY <1>4, <1>5

\* The i-th peak of n leaves is the root over the block <<l, h>>.
PeakIs(r, n, i, l, h) ==
  /\ l \in Nat /\ h \in Nat /\ FrontierForSize(n)[i] = <<l, h>> /\ PeaksOf(r, n)[i] = r[<<l, h>>]
  /\ Under(l, h) \subseteq 0..n - 1

\* The k peaks of n leaves have all of them, and only them, under them.
PeaksOver(r, n, k) ==
  /\ k = Len(FrontierForSize(n)) /\ k \in Nat \ {0} /\ PeaksOf(r, n) = [i \in 1..k |-> PeaksOf(r, n)[i]]
  /\ \A i \in 1..k : \E l, h : PeakIs(r, n, i, l, h)
  /\ \A x \in 0..n - 1 : \E i \in 1..k : \E l, h : PeakIs(r, n, i, l, h) /\ x \in Under(l, h)

\* It is so in any tree.
LEMMA PeaksAreOver ==
  ASSUME NEW r, NEW n \in Nat \ {0}
  PROVE  PeaksOver(r, n, Len(FrontierForSize(n)))
  <1> DEFINE at == FrontierForSize(n)
             peaks == PeaksOf(r, n)
             k == Len(at)
  <1>1. Covers(at, 0, n)
    BY FrontierCovers
  <1>2. k \in Nat \ {0} /\ n \in Nat
    <2>1. at # <<>> /\ at \in Seq(Coordinates)
      BY <1>1 DEF Covers
    <2> QED
      BY <2>1
  <1>3. peaks = [i \in 1..k |-> peaks[i]] /\ \A i \in 1..k : peaks[i] = r[at[i]]
    BY DEF PeaksOf
  <1>4. ASSUME NEW i \in 1..k PROVE PeakIs(r, n, i, at[i][1], at[i][2])
    <2>1. at[i] \in Blocks(n)
      BY <1>1, <1>2, PeaksAreBlocks
    <2>2. at[i] = <<at[i][1], at[i][2]>> /\ at[i][1] \in Nat /\ at[i][2] \in Nat /\ End(at[i]) <= n
      BY <2>1, CoordinateIsPair DEF Blocks
    <2>3. peaks[i] = r[<<at[i][1], at[i][2]>>]
      BY <1>3, <2>2
    <2>4. ASSUME NEW x \in Under(at[i][1], at[i][2]) PROVE x \in 0..n - 1
      <3>1. x \in Nat /\ x < at[i][1] + BlockSize(at[i][2])
        BY DEF Under
      <3>2. End(at[i]) = at[i][1] + BlockSize(at[i][2])
        BY DEF End
      <3>3. BlockSize(at[i][2]) \in Nat
        BY <2>2, BlockSizes
      <3> HIDE DEF at
      <3> QED
        BY <1>2, <2>2, <3>1, <3>2, <3>3
    <2> HIDE DEF at, peaks
    <2>5. Under(at[i][1], at[i][2]) \subseteq 0..n - 1
      BY <2>4
    <2> QED
      BY <2>2, <2>3, <2>5, Zenon DEF PeakIs, at, peaks
  <1>5. ASSUME NEW x \in 0..n - 1 PROVE \E i \in 1..k : \E l, h : PeakIs(r, n, i, l, h) /\ x \in Under(l, h)
    <2>1. x \in Nat /\ x < n
      BY <1>2
    <2>2. PICK i \in 1..k : at[i][1] <= x /\ x < End(at[i])
      BY <1>1, <1>2, <2>1, PositionUnderPeak
    <2>3. x \in Under(at[i][1], at[i][2])
      BY <2>1, <2>2 DEF Under, End
    <2> QED
      BY <1>4, <2>3
  <1> HIDE DEF at, peaks, k
  <1> QED
    BY <1>2, <1>3, <1>4, <1>5 DEF PeaksOver, at, peaks, k

\* So the root of a size it had not been active before is the null constant.
LEMMA NullBefore ==
  ASSUME LogTypeOK, HistoryKept, NEW a \in Algs, NEW n \in 1..count, n <= FirstActivation(epochs[a])
  PROVE  RootAt(a, n) = Null(a)
  <1> DEFINE peaks == PeaksOf(Ref(a), n)
             k == Len(FrontierForSize(n))
  <1>1. n \in Nat \ {0} /\ epochs[a] \in Seq(Interval) /\ (epochs[a] # <<>> => ValidEpochs(epochs[a], count)) /\ count \in Nat
        /\ FirstActivation(epochs[a]) \in Nat
    BY SizeKnown, FirstIsPosition DEF LogTypeOK, Registered
  <1>2. ASSUME NEW i \in 0..n - 1 PROVE Ref(a)[<<i, 0>>] = Null(a)
    <2>1. i \in Nat /\ i < FirstActivation(epochs[a]) /\ i \in 0..count - 1
      BY <1>1
    <2>2. ~IsActiveAt(epochs[a], i)
      BY <1>1, <2>1, NeverBefore
    <2> QED
      BY <2>1, <2>2, LeafIs
  <1>3. PeaksOver(Ref(a), n, k)
    BY <1>1, PeaksAreOver
  <1> HIDE DEF peaks, k
  <1>4. ASSUME NEW i \in 1..k PROVE peaks[i] = Null(a)
    <2>1. PICK l, h : PeakIs(Ref(a), n, i, l, h)
      BY <1>3 DEF PeaksOver
    <2>2. TreeOf(a, Ref(a))
      BY References
    <2>3. ASSUME NEW x \in Under(l, h) PROVE Ref(a)[<<x, 0>>] = Null(a)
      <3>1. x \in 0..n - 1
        BY <2>1 DEF PeakIs
      <3> QED
        BY <1>2, <3>1
    <2>4. l \in Nat /\ h \in Nat /\ peaks[i] = Ref(a)[<<l, h>>]
      BY <2>1 DEF PeakIs, peaks
    <2> QED
      BY <2>2, <2>3, <2>4, NullRoots
  <1>5. k \in Nat \ {0} /\ peaks = [i \in 1..k |-> peaks[i]]
    BY <1>3 DEF PeaksOver, peaks
  <1>6. BagPeaks(a, peaks) = Null(a)
    BY <1>4, <1>5, NullBag
  <1> QED
    BY <1>6 DEF RootAt, peaks

\* The roots a client noted with a payload are those of the checkpoint, as far as the
\* algorithm had been added by then.
LEMMA MembersTrusted ==
  ASSUME LogInv, AuditKept, NEW a \in Algs, Registered(a)
  PROVE  LET n == EffectiveSizeAt(epochs[a], audit.size)
         IN  /\ n \in 0..Size(a) /\ n \in Nat /\ Expected(a, n, audit.members) = RootAt(a, n)
             /\ a \in DOMAIN audit.members => audit.members[a] = RootAt(a, n)
             /\ a \notin DOMAIN audit.members => audit.size <= FirstActivation(epochs[a])
  <1> DEFINE n == EffectiveSizeAt(epochs[a], audit.size)
             listed == {b \in Algs : audit.epochs[b] # <<>>}
             roots == [b \in listed |-> RootAt(b, EffectiveSizeAt(epochs[b], audit.size))]
  <1>1. LogTypeOK /\ HistoryKept /\ audit.size \in 1..count /\ audit.size \in 0..count
    BY AuditKnown DEF LogInv, AuditKept
  <1>2. n \in 0..Size(a) /\ Size(a) \in Nat /\ n \in Nat
    <2>1. n \in 0..Size(a) /\ Size(a) \in Nat
      BY <1>1, EffectiveKnown, SizeKnown
    <2> QED
      BY <2>1
  <1>3. audit.members = roots
    BY DEF AuditKept
  <1>4. CASE a \in listed
    <2>1. a \in DOMAIN roots /\ roots[a] = RootAt(a, n)
      BY <1>4
    <2> HIDE DEF roots, n, listed
    <2> QED
      BY <1>2, <1>3, <2>1, Zenon DEF Expected, n
  <1>5. CASE a \notin listed
    <2>1. a \notin DOMAIN roots
      BY <1>5
    <2>2. audit.size <= FirstActivation(epochs[a])
      BY <1>5 DEF AuditKept, Registered
    <2>3. n = audit.size
      BY <2>2 DEF EffectiveSizeAt
    <2>4. RootAt(a, n) = Null(a)
      BY <1>1, <2>2, <2>3, NullBefore
    <2>5. n # 0
      BY <1>1, <2>3
    <2>6. Expected(a, n, audit.members) = RootAt(a, n)
      BY <1>3, <2>1, <2>4, <2>5 DEF Expected
    <2> HIDE DEF roots, n
    <2> QED
      BY <1>2, <1>3, <2>1, <2>2, <2>6 DEF n
  <1> QED
    BY <1>2, <1>4, <1>5

\* So the peaks of the checkpoint lead to the root it trusts.
LEMMA HonestStart ==
  ASSUME LogInv, AuditKept, NEW a \in Algs, Registered(a)
  PROVE  StartTrusted(a, audit.size, audit.members)
  <1> DEFINE n == EffectiveSizeAt(epochs[a], audit.size)
  <1>1. /\ n \in 0..Size(a) /\ Expected(a, n, audit.members) = RootAt(a, n)
        /\ a \notin DOMAIN audit.members => audit.size <= FirstActivation(epochs[a])
    BY MembersTrusted
  <1>2. FrontierPeaks(a, epochs[a], n) = PeaksOf(Ref(a), n)
    BY <1>1, PeaksAreReference
  <1>3. BagPeaks(a, FrontierPeaks(a, epochs[a], n)) = RootAt(a, n)
    BY <1>2 DEF RootAt
  <1> HIDE DEF n
  <1> QED
    BY <1>1, <1>3, Zenon DEF StartTrusted, n

\* A position is a block.
LEMMA LeafIsBlock ==
  ASSUME NEW n \in Nat, NEW i \in Nat, i + 1 <= n
  PROVE  <<i, 0>> \in Blocks(n)
  <1>1. BlockSize(0) = 1
    BY BlockSizes
  <1>2. Multiple(i, 1)
    BY DEF Multiple
  <1> QED
    BY <1>1, <1>2 DEF Blocks, End, Coordinates

\* An honest log reads its leaves.
LEMMA LeavesRead ==
  ASSUME LogInv, NEW a \in Algs, NEW start \in 0..count
  PROVE  LeavesReadable(a, start)
  <1> SUFFICES ASSUME NEW i \in start..Size(a) - 1
               PROVE  GetNodeHash(a, epochs[a], i, 0) = Ref(a)[<<i, 0>>]
    BY DEF LeavesReadable
  <1>1. i \in Nat /\ i + 1 <= Size(a) /\ Size(a) \in Nat
    BY SizeKnown DEF LogInv
  <1>2. <<i, 0>> \in Blocks(Size(a))
    BY <1>1, LeafIsBlock
  <1> QED
    BY <1>2, ReadBack

\* The check of an algorithm in no gap at the checkpoint nor now.
LEMMA HonestNotDiverged ==
  ASSUME LogInv, NEW a \in Algs, NEW start \in 0..count, Unbroken(a, start), Settled(a),
         NEW trusted, StartTrusted(a, start, trusted)
  PROVE  NotDiverged(a, start, trusted)
  <1> DEFINE n == EffectiveSizeAt(epochs[a], start)
             size == Size(a)
             replay == ReplayFrom(a, start)
  <1>1. LogTypeOK /\ HistoryKept /\ n \in 0..start /\ n \in 0..size /\ size \in Nat /\ start \in Nat /\ count \in Nat
    BY EffectiveKnown, SizeKnown DEF LogInv
  <1>2. FrontierPeaks(a, epochs[a], n) = PeaksOf(Ref(a), n) /\ Corrupted \notin ToSet(PeaksOf(Ref(a), n))
    BY <1>1, PeaksAreReference
  <1>3. LeavesReadable(a, start)
    BY LeavesRead
  <1>4. ~IsActive(epochs[a]) /\ size < count => <<a, size, 0>> \notin DOMAIN nodes
    <2> SUFFICES ASSUME <<a, size, 0>> \in DOMAIN nodes PROVE FALSE
      OBVIOUS
    <2>1. <<size, 0>> \in Coordinates /\ Node(a, <<size, 0>>) = <<a, size, 0>> /\ End(<<size, 0>>) = size + 1
      BY <1>1, BlockSizes DEF Coordinates, Node, End
    <2>2. Held(nodes, a, epochs[a], size, Ref(a))
      BY DEF LogInv, StoreKept
    <2> HIDE DEF size
    <2>3. <<size, 0>> \in Blocks(size)
      BY <2>1, <2>2 DEF Held
    <2>4. End(<<size, 0>>) <= size
      BY <2>3 DEF Blocks
    <2> QED
      BY <1>1, <2>1, <2>4
  <1>5. RootForAt(a, count) = RootAt(a, size)
    <2>1. EffectiveSizeAt(epochs[a], count) = size
      BY DEF Settled, Size
    <2>2. count \in 0..count
      BY <1>1
    <2> QED
      BY <2>1, <2>2, MemberRootIs
  <1>6. AllStored(a, replay.made) /\ replay.peaks = PeaksOf(Ref(a), size)
    <2>1. CASE n = start
      <3>1. start <= size
        BY <1>1, <2>1
      <3>2. Replayed(a, Ref(a), start, size - start, replay)
        BY <1>1, <1>2, <1>3, <2>1, <3>1, ReplayGoesOn
      <3>3. start + (size - start) = size
        BY <1>1, <3>1
      <3> HIDE DEF replay, size
      <3>4. replay.peaks = PeaksOf(Ref(a), size)
        BY <3>2, <3>3 DEF Replayed
      <3>5. ASSUME NEW x \in DOMAIN replay.made
            PROVE  GetNodeHash(a, epochs[a], x[2], x[3]) # Corrupted /\ replay.made[x] = GetNodeHash(a, epochs[a], x[2], x[3])
        <4>1. PICK c \in Blocks(size) : x = Node(a, c) /\ replay.made[x] = Ref(a)[c]
          BY <3>2, <3>3 DEF Replayed
        <4>2. GetNodeHash(a, epochs[a], c[1], c[2]) = Ref(a)[c] /\ Ref(a)[c] # Corrupted
          BY <4>1, ReadBack DEF size
        <4>3. x[2] = c[1] /\ x[3] = c[2]
          BY <4>1 DEF Node
        <4> QED
          BY <4>1, <4>2, <4>3
      <3> QED
        BY <3>4, <3>5 DEF AllStored
    <2>2. CASE n # start
      <3>1. n = size
        BY <2>2 DEF Unbroken, Size
      <3>2. size <= start
        BY <1>1, <3>1
      <3>3. replay = Base(a, n)
        BY <1>1, <1>3, <3>2, NothingToReplay
      <3>4. Fresh = [peaks |-> <<>>, at |-> <<>>, made |-> <<>>]
        BY DEF Fresh
      <3>5. Base(a, n) = [peaks |-> FrontierPeaks(a, epochs[a], n), at |-> FrontierForSize(n), made |-> <<>>]
        BY <3>4, StartedIs DEF Base
      <3> HIDE DEF replay, n, size
      <3>6. replay.peaks = FrontierPeaks(a, epochs[a], n) /\ replay.made = <<>>
        BY <3>3, <3>5
      <3>7. AllStored(a, <<>>)
        BY DEF AllStored
      <3> QED
        BY <1>2, <3>1, <3>6, <3>7
    <2> QED
      BY <2>1, <2>2
  <1>7. BagPeaks(a, replay.peaks) = RootForAt(a, count)
    BY <1>5, <1>6 DEF RootAt
  <1> HIDE DEF n, replay
  <1> QED
    BY <1>2, <1>4, <1>6, <1>7, NotDivergedIs DEF n, size, replay

\* Between two sizes of an algorithm's tree the log has a consistency proof.
LEMMA ConsistencyHolds ==
  ASSUME LogInv, NEW a \in Algs, NEW new \in 1..Size(a), NEW old \in 1..new - 1
  PROVE  /\ ConsistencyProof(a, old, new) # NoProof
         /\ ReconstructConsistencyRoots(a, old, new, ConsistencyProof(a, old, new))
              = [old |-> RootAt(a, old), new |-> RootAt(a, new)]
  <1> DEFINE roots == [size \in 1..Size(a) |-> ReferenceRoot(a, size)]
  <1>1. old \in 1..Size(a) /\ old \in 1..new - 1
    BY SizeKnown DEF LogInv
  <1>2. roots[new] = ReferenceRoot(a, new) /\ roots[old] = ReferenceRoot(a, old) /\ DOMAIN roots = 1..Size(a)
    BY <1>1
  <1>3. ReferenceRoot(a, new) = RootAt(a, new) /\ ReferenceRoot(a, old) = RootAt(a, old)
    BY <1>1, PeaksReadBack DEF PeaksRead
  <1> HIDE DEF roots
  <1>4. LET proof == ConsistencyProof(a, old, new)
        IN  /\ proof # NoProof
            /\ ReconstructConsistencyRoots(a, old, new, proof) = [old |-> roots[old], new |-> roots[new]]
    BY <1>1, <1>2, ConsistencySaid, Zenon DEF ConsistencyProofsVerify, roots, Size
  <1> QED
    BY <1>2, <1>3, <1>4

\* The tree at the checkpoint is consistent with the present one.
LEMMA HonestCheckpoint ==
  ASSUME LogInv, AuditKept, NEW a \in Algs, Registered(a)
  PROVE  CheckpointConsistent(a, audit.size, audit.members)
  <1> DEFINE start == audit.size
             first == FirstActivation(epochs[a])
             n == EffectiveSizeAt(epochs[a], start)
             old == IF start <= first THEN 0 ELSE n
             new == EffectiveSizeAt(epochs[a], count)
             oldRoot == IF old = 0 THEN Empty(a) ELSE audit.members[a]
             newRoot == RootForAt(a, count)
             proof == ConsistencyProof(a, old, new)
  <1>1. LogTypeOK /\ count \in Nat /\ count \in 0..count /\ start \in Nat /\ Size(a) \in Nat
    BY SizeKnown, AuditKnown DEF LogInv
  <1>2. new \in 0..Size(a)
    BY <1>1, EffectiveKnown
  <1>3. newRoot = RootAt(a, new) /\ RootAt(a, new) # Corrupted
    BY <1>1, <1>2, MemberRootIs, PeaksAreReference
  <1>4. /\ a \in DOMAIN audit.members => audit.members[a] = RootAt(a, n)
        /\ a \notin DOMAIN audit.members => audit.size <= FirstActivation(epochs[a])
        /\ n \in Nat
    BY MembersTrusted
  <1>5. RootAt(a, 0) = Empty(a)
    BY NoPeaks DEF RootAt
  <1> HIDE DEF n, newRoot, new, first, start
  <1>6. old \in Nat /\ (old > 0 => a \in DOMAIN audit.members /\ old = n)
    BY <1>4 DEF first, start
  <1>7. oldRoot = RootAt(a, old)
    BY <1>4, <1>5, <1>6
  <1> HIDE DEF old, oldRoot
  <1>8. 0 < old /\ old < new => /\ proof # NoProof
                                /\ ReconstructConsistencyRoots(a, old, new, proof) = [old |-> oldRoot, new |-> newRoot]
    <2> SUFFICES ASSUME 0 < old, old < new
                 PROVE  /\ proof # NoProof
                        /\ ReconstructConsistencyRoots(a, old, new, proof) = [old |-> oldRoot, new |-> newRoot]
      OBVIOUS
    <2>1. new \in 1..Size(a) /\ old \in 1..new - 1
      BY <1>1, <1>2, <1>6
    <2> QED
      BY <1>3, <1>7, <2>1, ConsistencyHolds
  <1>9. old = new => oldRoot = newRoot
    BY <1>3, <1>7
  <1> HIDE DEF proof
  <1> QED
    BY <1>3, <1>6, <1>8, <1>9, Zenon DEF CheckpointConsistent, start, first, n, old, new, oldRoot, newRoot, proof

\* Nothing is checked of a checkpoint without positions.
LEMMA NoCheckpoint ==
  ASSUME LogInv, NEW a \in Algs
  PROVE  0 \in 0..count /\ Unbroken(a, 0) /\ StartTrusted(a, 0, <<>>)
  <1>1. LogTypeOK /\ count \in Nat
    BY SizeKnown DEF LogInv
  <1>2. 0 \in 0..count
    BY <1>1
  <1>3. EffectiveSizeAt(epochs[a], 0) \in 0..0
    BY <1>1, <1>2, EffectiveKnown
  <1>4. EffectiveSizeAt(epochs[a], 0) = 0
    BY <1>3
  <1> QED
    BY <1>2, <1>4 DEF Unbroken, StartTrusted

\* A log whose algorithms are in no gap verifies.
LEMMA SettledSaid == AuditInv => SettledLogVerifies
  <1> SUFFICES ASSUME AuditInv, damaged = {}, \A a \in Algs : Registered(a) => Settled(a)
               PROVE  /\ VerifyNonDivergence(0, <<>>)
                      /\ audit # NoAudit /\ (\A a \in Algs : Registered(a) => Unbroken(a, audit.size))
                           => VerifyNonDivergence(audit.size, audit.members)
    BY DEF SettledLogVerifies
  <1>1. LogInv /\ LogTypeOK /\ count \in Nat
    BY LogAssumption DEF AuditInv, LogTypeOK
  <1>2. VerifyNonDivergence(0, <<>>)
    <2>1. \A a \in Algs : Registered(a) => NotDiverged(a, 0, <<>>)
      BY <1>1, NoCheckpoint, HonestNotDiverged
    <2>2. ~(0 > 0) /\ 0 <= count
      BY <1>1
    <2> QED
      BY <2>1, <2>2 DEF VerifyNonDivergence
  <1>3. ASSUME audit # NoAudit, \A a \in Algs : Registered(a) => Unbroken(a, audit.size)
        PROVE  VerifyNonDivergence(audit.size, audit.members)
    <2>1. AuditKept
      BY <1>3 DEF AuditInv
    <2>2. audit.size \in 0..count /\ audit.size <= count
      BY <1>1, <2>1, AuditKnown
    <2>3. \A a \in Algs : Registered(a) => /\ CheckpointConsistent(a, audit.size, audit.members)
                                           /\ NotDiverged(a, audit.size, audit.members)
      BY <1>1, <1>3, <2>1, <2>2, HonestCheckpoint, HonestStart, HonestNotDiverged
    <2> QED
      BY <2>2, <2>3 DEF VerifyNonDivergence
  <1> QED
    BY <1>2, <1>3

\* Whatever was done before, a log none of whose algorithms is between two intervals or
\* in an empty one verifies against its own store: from genesis, and from a checkpoint
\* at which none was either, with the roots a client noted there.
THEOREM SettledAlwaysVerifies ==
  ASSUME NoNullItems
  PROVE  AuditSpec => []SettledLogVerifies
  <1>1. AuditSpec => []AuditInv
    BY AuditInvariant
  <1> QED
    BY <1>1, SettledSaid, PTL

-----------------------------------------------------------------------------
(* verify_non_divergence on a log with a damaged or lost digest *)

\* The root over n leaves is sound when the leaves are.
LEMMA RootSound ==
  ASSUME NEW a, NEW r, TreeOf(a, r), NEW n \in Nat \ {0}
  PROVE  Sound(BagPeaks(a, PeaksOf(r, n))) <=> \A i \in 0..n - 1 : Sound(r[<<i, 0>>])
  <1> DEFINE peaks == PeaksOf(r, n)
             k == Len(FrontierForSize(n))
  <1>1. PeaksOver(r, n, k)
    BY PeaksAreOver
  <1> HIDE DEF peaks, k
  <1>2. k \in Nat \ {0} /\ peaks = [f \in 1..k |-> peaks[f]]
    BY <1>1 DEF PeaksOver, peaks
  <1>3. Sound(BagPeaks(a, peaks)) <=> \A f \in 1..k : Sound(peaks[f])
    BY <1>2, BagSound
  <1>4. ASSUME NEW f, NEW l, NEW h, PeakIs(r, n, f, l, h)
        PROVE  Sound(peaks[f]) <=> \A i \in Under(l, h) : Sound(r[<<i, 0>>])
    <2>1. l \in Nat /\ h \in Nat /\ peaks[f] = r[<<l, h>>]
      BY <1>4 DEF PeakIs, peaks
    <2> QED
      BY <2>1, BlockSound
  <1>5. ASSUME \A i \in 0..n - 1 : Sound(r[<<i, 0>>]), NEW f \in 1..k PROVE Sound(peaks[f])
    <2>1. PICK l, h : PeakIs(r, n, f, l, h)
      BY <1>1 DEF PeaksOver
    <2>2. Under(l, h) \subseteq 0..n - 1
      BY <2>1 DEF PeakIs
    <2> QED
      BY <1>4, <1>5, <2>1, <2>2
  <1>6. ASSUME \A f \in 1..k : Sound(peaks[f]), NEW i \in 0..n - 1 PROVE Sound(r[<<i, 0>>])
    <2>1. PICK f \in 1..k : \E l, h : PeakIs(r, n, f, l, h) /\ i \in Under(l, h)
      BY <1>1 DEF PeaksOver
    <2> QED
      BY <1>4, <1>6, <2>1
  <1> QED
    BY <1>3, <1>5, <1>6 DEF peaks

\* The reference of a log has no damaged digests, whatever was damaged in the store.
LEMMA ReferenceSound ==
  ASSUME LogTypeOK, HistoryKept, NEW a \in Algs
  PROVE  /\ \A i \in 0..count - 1 : Sound(Ref(a)[<<i, 0>>])
         /\ \A c \in Blocks(Size(a)) : Sound(Ref(a)[c])
         /\ \A n \in 0..Size(a) : Sound(RootAt(a, n))
  <1>1. Size(a) \in Nat /\ Size(a) <= count /\ count \in Nat
    BY SizeKnown
  <1>2. TreeOf(a, Ref(a))
    BY References
  <1>3. ASSUME NEW i \in 0..count - 1 PROVE Sound(Ref(a)[<<i, 0>>])
    <2>1. /\ Ref(a)[<<i, 0>>] = IF IsActiveAt(epochs[a], i) THEN Evaluate(a, history[i + 1]) ELSE Null(a)
          /\ history[i + 1] \in Seq(STRING)
      BY LeafIs
    <2> QED
      BY <2>1, LeavesSound
  <1>4. ASSUME NEW c \in Blocks(Size(a)) PROVE Sound(Ref(a)[c])
    <2>1. c = <<c[1], c[2]>> /\ c[1] \in Nat /\ c[2] \in Nat /\ End(c) = c[1] + BlockSize(c[2]) /\ End(c) <= Size(a)
          /\ End(c) \in Nat
      BY CoordinateIsPair DEF Blocks, End
    <2>2. ASSUME NEW i \in Under(c[1], c[2]) PROVE Sound(Ref(a)[<<i, 0>>])
      <3>1. i \in Nat /\ i < c[1] + BlockSize(c[2])
        BY DEF Under
      <3>2. i \in 0..count - 1
        BY <1>1, <2>1, <3>1
      <3> QED
        BY <1>3, <3>2
    <2>3. Sound(Ref(a)[<<c[1], c[2]>>])
      BY <1>2, <2>1, <2>2, BlockSound
    <2> QED
      BY <2>1, <2>3
  <1>5. ASSUME NEW n \in 0..Size(a) PROVE Sound(RootAt(a, n))
    <2>1. CASE n = 0
      BY <2>1, NoPeaks, AtomSound DEF RootAt, Empty
    <2>2. CASE n # 0
      <3>1. n \in Nat \ {0} /\ \A i \in 0..n - 1 : i \in 0..count - 1
        BY <1>1, <2>2
      <3> QED
        BY <1>2, <1>3, <3>1, RootSound DEF RootAt
    <2> QED
      BY <2>1, <2>2
  <1> QED
    BY <1>3, <1>4, <1>5

\* The damaged or lost digest reads as such.
LEMMA DamageReads ==
  ASSUME NEW a \in Algs, NEW c \in Coordinates, DamagedAt(a, c)
  PROVE  GetNodeHash(a, epochs[a], c[1], c[2]) \in {Corrupted, <<"damaged", a>>}
  <1>1. End(c) = c[1] + BlockSize(c[2])
    BY DEF End
  <1>2. ActiveRange(epochs[a], c[1], c[1] + BlockSize(c[2]))
    BY <1>1 DEF DamagedAt
  <1>3. Node(a, c) \in DOMAIN nodes => nodes[Node(a, c)] = <<"damaged", a>>
    BY DEF DamagedAt
  <1> QED
    BY <1>2, <1>3 DEF GetNodeHash, Node

\* Every other block of its algorithm reads as the reference says.
LEMMA OthersRead ==
  ASSUME LogTypeOK, HistoryKept, NEW a \in Algs, NEW c \in Coordinates, DamagedAt(a, c),
         NEW d \in Blocks(Size(a)), d # c
  PROVE  GetNodeHash(a, epochs[a], d[1], d[2]) = Ref(a)[d]
  <1> DEFINE r == Ref(a)
             eps == epochs[a]
  <1>1. /\ d \in Coordinates /\ d = <<d[1], d[2]>> /\ d[1] \in Nat /\ d[2] \in Nat
        /\ BlockSize(d[2]) \in Nat \ {0} /\ End(d) = d[1] + BlockSize(d[2]) /\ End(d) \in Nat
        /\ End(d) <= Size(a)
    BY CoordinateIsPair DEF Blocks, End
  <1>2. TreeOf(a, r) /\ \A i \in Nat : r[<<i, 0>>] = ReferenceLeaf(a, i)
    BY References
  <1>3. eps \in Seq(Interval) /\ Size(a) \in 0..count /\ count \in Nat
    BY SizeKnown
  <1>4. Node(a, d) # Node(a, c)
    BY <1>1, NodeIsKey
  <1>5. /\ Node(a, d) \in DOMAIN nodes => nodes[Node(a, d)] = r[d]
        /\ ActiveRange(eps, d[1], End(d)) => Node(a, d) \in DOMAIN nodes
    BY <1>1, <1>4 DEF DamagedAt
  <1> HIDE DEF r, eps
  <1>6. CASE ~ActiveRange(eps, d[1], End(d))
    <2>1. ASSUME NEW i \in Under(d[1], d[2]) PROVE r[<<i, 0>>] = Null(a)
      <3>1. i \in Nat /\ d[1] <= i /\ i < d[1] + BlockSize(d[2])
        BY DEF Under
      <3>2. ~IsActiveAt(eps, i)
        BY <1>1, <1>3, <1>6, <3>1, Ranges
      <3> QED
        BY <1>2, <3>1, <3>2 DEF ReferenceLeaf, eps
    <2>2. r[d] = Null(a)
      BY <1>1, <1>2, <2>1, NullRoots
    <2> QED
      BY <1>1, <1>6, <2>2 DEF GetNodeHash, r, eps
  <1>7. CASE ActiveRange(eps, d[1], End(d))
    BY <1>1, <1>5, <1>7 DEF GetNodeHash, Node, r, eps
  <1> QED
    BY <1>6, <1>7

\* A check that replays the damaged block, from peaks that are not damaged, fails: what
\* it makes of the block is sound.
LEMMA ReplayNotices ==
  ASSUME LogTypeOK, HistoryKept, kind = "flat", NEW a \in Algs, NEW c \in Coordinates, DamagedAt(a, c),
         NEW start \in 0..count, start < End(c), Unbroken(a, start), NEW trusted
  PROVE  ~NotDiverged(a, start, trusted)
  <1> DEFINE n == EffectiveSizeAt(epochs[a], start)
             size == Size(a)
             replay == ReplayFrom(a, start)
  <1>1. /\ n \in 0..start /\ n \in 0..size /\ size \in Nat /\ start \in Nat /\ c \in Blocks(size) /\ End(c) <= size
        /\ End(c) \in Nat
    BY EffectiveKnown, SizeKnown, CoordinateIsPair DEF DamagedAt, Blocks
  <1>2. n = start /\ start <= size
    <2>1. n \in {start, size}
      BY DEF Unbroken, Size
    <2> HIDE DEF n, size
    <2> QED
      BY <1>1, <2>1
  <1>3. LeavesReadable(a, start)
    BY DEF LeavesReadable
  <1>4. FrontierPeaks(a, epochs[a], start) = PeaksOf(Ref(a), start)
    <2> DEFINE at == FrontierForSize(start)
               k == Len(at)
    <2>1. Covers(at, 0, start)
      BY <1>1, FrontierCovers
    <2>2. \A i \in 1..k : GetNodeHash(a, epochs[a], at[i][1], at[i][2]) = Ref(a)[at[i]]
      <3> TAKE i \in 1..k
      <3>1. at[i] \in Blocks(start)
        BY <1>1, <2>1, PeaksAreBlocks
      <3> HIDE DEF at
      <3>2. End(at[i]) <= start
        BY <3>1 DEF Blocks
      <3>3. at[i] # c
        BY <1>1, <3>2
      <3>4. at[i] \in Blocks(size)
        BY <1>1, <1>2, <3>1, BlocksGrow
      <3> QED
        BY <3>3, <3>4, OthersRead
    <2> QED
      BY <2>2 DEF FrontierPeaks, PeaksOf
  <1>5. Replayed(a, Ref(a), start, size - start, replay)
    BY <1>2, <1>3, <1>4, ReplayGoesOn
  <1>6. c \in Blocks(start + (size - start)) \ Blocks(start)
    <2>1. start + (size - start) = size
      BY <1>1, <1>2
    <2>2. ~(End(c) <= start)
      BY <1>1
    <2> QED
      BY <1>1, <2>1, <2>2 DEF Blocks
  <1> HIDE DEF replay, n
  <1>7. Node(a, c) \in DOMAIN replay.made /\ replay.made[Node(a, c)] = Ref(a)[c]
    <2>1. Node(a, c) \in DOMAIN replay.made
      BY <1>5, <1>6 DEF Replayed
    <2>2. PICK d \in Coordinates : Node(a, c) = Node(a, d) /\ replay.made[Node(a, c)] = Ref(a)[d]
      BY <1>5, <2>1 DEF Replayed, Blocks
    <2>3. d = c
      BY <2>2, NodeIsKey
    <2> QED
      BY <2>1, <2>2, <2>3
  <1>8. Sound(Ref(a)[c]) /\ ~Sound(<<"damaged", a>>)
    <2>1. <<>> \in Seq(STRING)
      OBVIOUS
    <2> QED
      BY <1>1, <2>1, ReferenceSound, LeavesSound
  <1>9. Node(a, c)[2] = c[1] /\ Node(a, c)[3] = c[2]
    BY DEF Node
  <1>10. GetNodeHash(a, epochs[a], c[1], c[2]) \in {Corrupted, <<"damaged", a>>}
    BY DamageReads
  <1>11. ~AllStored(a, replay.made)
    BY <1>7, <1>8, <1>9, <1>10 DEF AllStored
  <1> QED
    BY <1>11, NotDivergedIs DEF replay

\* The client's roots are sound.
LEMMA ExpectedSound ==
  ASSUME LogTypeOK, HistoryKept, AuditKept, NEW a \in Algs
  PROVE  Sound(Expected(a, EffectiveSizeAt(epochs[a], audit.size), audit.members))
  <1> DEFINE n == EffectiveSizeAt(epochs[a], audit.size)
             listed == {b \in Algs : audit.epochs[b] # <<>>}
             roots == [b \in listed |-> RootAt(b, EffectiveSizeAt(epochs[b], audit.size))]
  <1>1. n \in 0..Size(a)
    BY AuditKnown, EffectiveKnown
  <1>2. Sound(RootAt(a, n)) /\ Sound(Empty(a)) /\ Sound(Null(a))
    BY <1>1, ReferenceSound, AtomSound DEF Empty, Null
  <1>3. audit.members = roots /\ (a \in DOMAIN roots => roots[a] = RootAt(a, n))
    BY DEF AuditKept
  <1> HIDE DEF roots, n
  <1> QED
    BY <1>2, <1>3 DEF Expected, n

\* A check from a checkpoint of which the damaged block is a peak fails.
LEMMA PeakNotices ==
  ASSUME LogTypeOK, HistoryKept, AuditKept, NEW a \in Algs, NEW c \in Coordinates, DamagedAt(a, c),
         c \in ToSet(FrontierForSize(EffectiveSizeAt(epochs[a], audit.size)))
  PROVE  ~NotDiverged(a, audit.size, audit.members)
  <1> DEFINE n == EffectiveSizeAt(epochs[a], audit.size)
             at == FrontierForSize(n)
             k == Len(at)
             peaks == FrontierPeaks(a, epochs[a], n)
  <1> SUFFICES ASSUME NotDiverged(a, audit.size, audit.members) PROVE FALSE
    OBVIOUS
  <1>1. Corrupted \notin ToSet(peaks) /\ StartTrusted(a, audit.size, audit.members)
    BY NotDivergedIs
  <1>2. PICK i \in DOMAIN at : at[i] = c
    BY DEF ToSet
  <1>3. peaks = [j \in 1..k |-> GetNodeHash(a, epochs[a], at[j][1], at[j][2])]
    BY DEF FrontierPeaks
  <1>4. n \in Nat /\ audit.size > 0
    <2>1. audit.size \in 0..count /\ audit.size \in Nat \ {0}
      BY AuditKnown
    <2>2. n \in 0..audit.size
      BY <2>1, EffectiveKnown
    <2> QED
      BY <2>1, <2>2
  <1>5. k \in Nat \ {0} /\ i \in 1..k
    <2>1. at \in Seq(Coordinates)
      BY <1>4, FrontierCovers DEF Covers
    <2> HIDE DEF at
    <2> QED
      BY <1>2, <2>1
  <1> HIDE DEF at, k, peaks
  <1>6. peaks[i] \in {Corrupted, <<"damaged", a>>} /\ peaks = [j \in 1..k |-> peaks[j]] /\ DOMAIN peaks = 1..k
    BY <1>2, <1>3, <1>5, DamageReads
  <1>7. peaks[i] = <<"damaged", a>>
    BY <1>1, <1>5, <1>6 DEF ToSet
  <1>8. ~Sound(peaks[i])
    BY <1>7, AtomSound
  <1>9. ~Sound(BagPeaks(a, peaks))
    BY <1>5, <1>6, <1>8, BagSound
  <1>10. BagPeaks(a, peaks) = Expected(a, n, audit.members)
    BY <1>1, <1>4 DEF StartTrusted, peaks
  <1> QED
    BY <1>9, <1>10, ExpectedSound

\* In a flat log the check notices it.
LEMMA FlatDamageSaid == AuditInv => FlatDamageNoticed
  <1> SUFFICES ASSUME AuditInv, kind = "flat", NEW x \in damaged
               PROVE  /\ ~VerifyNonDivergence(0, <<>>)
                      /\ audit # NoAudit /\ Unbroken(x[1], audit.size)
                         /\ (\/ x[2] + BlockSize(x[3]) > audit.size
                             \/ <<x[2], x[3]>> \in ToSet(FrontierForSize(EffectiveSizeAt(epochs[x[1]], audit.size))))
                         => ~VerifyNonDivergence(audit.size, audit.members)
    BY Zenon DEF FlatDamageNoticed
  <1>1. LogTypeOK /\ HistoryKept
    BY DEF AuditInv
  <1>2. PICK a \in Algs : \E c \in Coordinates : x = Node(a, c) /\ DamagedAt(a, c)
    BY DEF AuditInv
  <1>3. PICK c \in Coordinates : x = Node(a, c) /\ DamagedAt(a, c)
    BY <1>2
  <1>4. x[1] = a /\ x[2] = c[1] /\ x[3] = c[2] /\ c = <<c[1], c[2]>> /\ End(c) = c[1] + BlockSize(c[2])
        /\ End(c) \in Nat /\ c[1] \in Nat /\ c[1] < End(c)
    BY <1>3, CoordinateIsPair DEF Node, End
  <1>5. Registered(a)
    <2>1. ActiveRange(epochs[a], c[1], End(c))
      BY <1>3 DEF DamagedAt
    <2> QED
      BY <2>1 DEF Registered, ActiveRange
  <1>6. \A start, trusted : VerifyNonDivergence(start, trusted) => NotDiverged(a, start, trusted)
    BY <1>5, Zenon DEF VerifyNonDivergence
  <1>7. ~NotDiverged(a, 0, <<>>)
    <2>1. count \in Nat /\ 0 \in 0..count
      BY <1>1, SizeKnown
    <2>2. EffectiveSizeAt(epochs[a], 0) \in 0..0
      BY <1>1, <2>1, EffectiveKnown
    <2>3. Unbroken(a, 0)
      BY <2>2 DEF Unbroken
    <2>4. 0 < End(c)
      BY <1>4
    <2> QED
      BY <1>1, <1>3, <2>1, <2>3, <2>4, ReplayNotices
  <1>8. ASSUME audit # NoAudit, Unbroken(a, audit.size), End(c) > audit.size
        PROVE  ~NotDiverged(a, audit.size, audit.members)
    <2>1. audit.size \in 0..count /\ audit.size \in Nat
      BY <1>1, <1>8, AuditKnown DEF AuditInv
    <2>2. audit.size < End(c)
      BY <1>4, <1>8, <2>1
    <2> QED
      BY <1>1, <1>3, <1>8, <2>1, <2>2, ReplayNotices
  <1>9. ASSUME audit # NoAudit, c \in ToSet(FrontierForSize(EffectiveSizeAt(epochs[a], audit.size)))
        PROVE  ~NotDiverged(a, audit.size, audit.members)
    BY <1>1, <1>3, <1>9, PeakNotices DEF AuditInv
  <1> QED
    BY <1>4, <1>6, <1>7, <1>8, <1>9

\* In a flat log no stored digest can be damaged or lost unnoticed: a check from genesis
\* fails, and so does one from a checkpoint its algorithm did not miss when the digest
\* covers later positions or is a peak there.
THEOREM FlatDamageAlwaysNoticed ==
  ASSUME NoNullItems
  PROVE  AuditSpec => []FlatDamageNoticed
  <1>1. AuditSpec => []AuditInv
    BY AuditInvariant
  <1> QED
    BY <1>1, FlatDamageSaid, PTL

-----------------------------------------------------------------------------
(* verify_audit_payload on a log with a damaged or lost leaf digest *)

\* A combined root is sound when the member roots are.
LEMMA CombinedSound ==
  ASSUME NEW a, NEW known \in SUBSET Nat, IsFiniteSet(known), known # {},
         NEW members, DOMAIN members = known, NEW timeline, NEW size
  PROVE  Sound(CombinedRoot(a, members, timeline, size)) <=> \A b \in known : Sound(members[b])
  <1> DEFINE ids == InIdOrder(known)
             n == Cardinality(known)
             m == [i \in 1..n |-> members[ids[i]]]
             root == CombinedRoot(a, members, timeline, size)
  <1>1. CombinesTo(a, n, m, root)
    BY CombinedIs
  <1>2. n \in Nat /\ ids \in [1..n -> known] /\ \A x \in known : \E i \in 1..n : ids[i] = x
    BY InOrder
  <1>3. \A i \in 1..n : m[i] = members[ids[i]]
    OBVIOUS
  <1> HIDE DEF ids, n, m, root
  <1>4. n # 0
    <2>1. PICK x \in known : TRUE
      OBVIOUS
    <2>2. PICK i \in 1..n : ids[i] = x
      BY <1>2, <2>1
    <2> QED
      BY ONLY <1>2, <2>2
  <1>5. PICK s, k : ChildrenAre(a, s, n, m, k) /\ root = NaryMr(a, s)
    BY <1>1 DEF CombinesTo
  <1>6. /\ k \in {0, 1} /\ s = [i \in 1..n + k |-> s[i]] /\ \A i \in 1..n : s[i] = m[i]
        /\ k = 1 => \E x : s[n + 1] = DataHash(a, x)
    BY <1>5 DEF ChildrenAre
  <1>7. n + k \in Nat \ {0}
    BY <1>2, <1>4, <1>6
  <1>8. Sound(root) <=> \A i \in 1..n + k : Sound(s[i])
    BY <1>5, <1>6, <1>7, ParentSound
  <1>9. k = 1 => Sound(s[n + 1])
    <2>1. \A x : Sound(DataHash(a, x))
      BY AtomSound DEF DataHash
    <2> QED
      BY <1>6, <2>1
  <1>10. (\A i \in 1..n + k : Sound(s[i])) <=> \A i \in 1..n : Sound(m[i])
    <2>1. ASSUME \A i \in 1..n + k : Sound(s[i]), NEW i \in 1..n PROVE Sound(m[i])
      <3>1. i \in 1..n + k
        BY <1>2, <1>6
      <3> QED
        BY <1>6, <2>1, <3>1
    <2>2. ASSUME \A i \in 1..n : Sound(m[i]), NEW i \in 1..n + k PROVE Sound(s[i])
      <3>1. i \in 1..n \/ (k = 1 /\ i = n + 1)
        BY <1>2, <1>6
      <3> QED
        BY <1>6, <1>9, <2>2, <3>1
    <2> QED
      BY <2>1, <2>2
  <1>11. (\A i \in 1..n : Sound(m[i])) <=> \A b \in known : Sound(members[b])
    <2>1. ASSUME \A i \in 1..n : Sound(m[i]), NEW b \in known PROVE Sound(members[b])
      <3>1. PICK i \in 1..n : ids[i] = b
        BY <1>2
      <3>2. m[i] = members[b]
        BY <1>3, <3>1
      <3> QED
        BY <2>1, <3>2
    <2>2. ASSUME \A b \in known : Sound(members[b]), NEW i \in 1..n PROVE Sound(m[i])
      <3>1. ids[i] \in known
        BY <1>2
      <3> QED
        BY <1>3, <2>2, <3>1
    <2> QED
      BY <2>1, <2>2
  <1> QED
    BY <1>8, <1>10, <1>11 DEF root

\* What the audit makes of a payload's cells is sound when they all are.
LEMMA AuditedSound ==
  ASSUME NEW a, NEW n \in Nat \ {0}, NEW cells, DOMAIN cells = 1..n, cells = [i \in 1..n |-> cells[i]]
  PROVE  Sound(BagPeaks(a, Replay(a, Fresh, 0, 0, cells).peaks)) <=> \A i \in 1..n : Sound(cells[i])
  <1> DEFINE leaf == [j \in Nat |-> cells[j + 1]]
             r == RootsOf(a, leaf)
  <1>1. \A j \in Nat : leaf[j] = cells[j + 1]
    OBVIOUS
  <1> HIDE DEF leaf
  <1>2. TreeOf(a, r) /\ \A l \in Nat : r[<<l, 0>>] = leaf[l]
    BY RootsAreTree
  <1> HIDE DEF r
  <1>3. ASSUME NEW i \in 1..n PROVE cells[i] = r[<<i - 1, 0>>]
    <2>1. i - 1 \in Nat /\ (i - 1) + 1 = i
      OBVIOUS
    <2>2. leaf[i - 1] = cells[i]
      BY <1>1, <2>1
    <2> QED
      BY <1>2, <2>1, <2>2
  <1>4. n \in Nat
    OBVIOUS
  <1>5. CellsFrom(cells, r, 0, n)
    BY <1>3, <1>4, CellsAre
  <1>6. Replay(a, Fresh, 0, 0, cells).peaks = PeaksOf(r, n)
    BY <1>2, <1>4, <1>5, FreshReplay
  <1>7. Sound(BagPeaks(a, PeaksOf(r, n))) <=> \A i \in 0..n - 1 : Sound(r[<<i, 0>>])
    BY <1>2, RootSound
  <1>8. (\A i \in 0..n - 1 : Sound(r[<<i, 0>>])) <=> \A i \in 1..n : Sound(cells[i])
    <2>1. ASSUME \A i \in 0..n - 1 : Sound(r[<<i, 0>>]), NEW i \in 1..n PROVE Sound(cells[i])
      <3>1. i - 1 \in 0..n - 1
        OBVIOUS
      <3> QED
        BY <1>3, <2>1, <3>1
    <2>2. ASSUME \A i \in 1..n : Sound(cells[i]), NEW i \in 0..n - 1 PROVE Sound(r[<<i, 0>>])
      <3>1. i + 1 \in 1..n /\ (i + 1) - 1 = i
        OBVIOUS
      <3> QED
        BY <1>3, <2>2, <3>1
    <2> QED
      BY <2>1, <2>2
  <1> QED
    BY <1>6, <1>7, <1>8

\* The payload of a log one of whose leaf digests was damaged or lost since.
LEMMA CellSaid ==
  ASSUME AuditInv, IsFiniteSet(Algs), audit # NoAudit, NEW a \in audit.active, NEW i \in 0..audit.size - 1,
         a \in Algs, DamagedAt(a, <<i, 0>>), kind = "subtree" \/ <<a, i, 0>> \in DOMAIN nodes,
         VerifyAuditPayload(audit)
  PROVE  FALSE
  <1> DEFINE n == audit.size
             t == audit.epochs
             active == audit.active
             cells == AuditCells(audit, a)
             cell == cells[i + 1]
             stored == StoredDigest(a, i, 0)
             members == [b \in active |-> BagPeaks(b, Replay(b, Fresh, 0, 0, AuditCells(audit, b)).peaks)]
             honest == [b \in active |-> RootAt(b, n)]
  <1>1. LogTypeOK /\ HistoryKept /\ AuditKept
    BY DEF AuditInv
  <1>2. /\ n \in Nat \ {0} /\ n <= count /\ count \in Nat /\ active \subseteq Algs /\ t[a] # <<>>
        /\ \A b \in active : n \in 0..Size(b)
    BY <1>1, AuditKnown
  <1>3. i \in Nat /\ i + 1 \in 1..n /\ i \in 0..count - 1 /\ (i + 1) - 1 = i
    BY <1>2
  <1>4. IsActiveAt(t[a], i)
    <2>1. ActiveRange(epochs[a], i, i + 1)
      <3>1. End(<<i, 0>>) = i + 1
        BY BlockSizes DEF End
      <3> QED
        BY <3>1 DEF DamagedAt
    <2>2. epochs[a] \in Seq(Interval) /\ i + 1 \in Nat
      BY <1>1, <1>3, SizeKnown
    <2>3. IsActiveAt(epochs[a], i)
      BY <1>3, <2>1, <2>2, Ranges
    <2> QED
      BY <1>1, <2>3 DEF AuditKept
  <1>5. /\ <<a, i, 0>> \in DOMAIN nodes => stored = <<"damaged", a>>
        /\ <<a, i, 0>> \notin DOMAIN nodes => stored = Corrupted
    BY DEF StoredDigest, DamagedAt, Node
  <1>6. cell = IF kind = "flat" THEN Evaluate(a, leaves[i + 1])
               ELSE IF stored # Corrupted THEN stored ELSE Null(a)
    BY <1>3, <1>4 DEF AuditCells
  <1>7. <<"damaged", a>> # Corrupted /\ Null(a) # Corrupted /\ ~Sound(<<"damaged", a>>)
    BY Forms, AtomSound DEF Corrupted
  <1>8. kind = "flat" => Sound(Evaluate(a, leaves[i + 1])) /\ <<"damaged", a>> # Evaluate(a, leaves[i + 1])
    BY <1>1, <1>3, <1>7, LeafIs, LeavesSound
  <1>9. kind \in {"flat", "subtree"}
    BY <1>1 DEF LogTypeOK
  <1>10. CellAccepted(audit, a, i + 1)
    BY <1>2, <1>3, Zenon DEF VerifyAuditPayload
  <1>11. \/ stored = cell
         \/ stored = Corrupted /\ (kind = "subtree" /\ IsActiveAt(t[a], i) => a \notin active)
    BY <1>3, <1>10 DEF CellAccepted
  <1>12. audit.roots[a] = CombinedRoot(a, members, t, n)
    BY Zenon DEF VerifyAuditPayload
  <1>13. audit.roots[a] = CombinedRoot(a, honest, t, n)
    BY <1>1 DEF AuditKept
  <1>14. \A b \in active : Sound(honest[b])
    BY <1>1, <1>2, ReferenceSound
  <1>15. members[a] = BagPeaks(a, Replay(a, Fresh, 0, 0, cells).peaks)
    OBVIOUS
  <1>16. DOMAIN cells = 1..n /\ cells = [j \in 1..n |-> cells[j]]
    BY DEF AuditCells
  <1>17. DOMAIN members = active /\ DOMAIN honest = active
    OBVIOUS
  <1> HIDE DEF cells, stored, members, honest, active, t, n
  <1>18. kind = "subtree" /\ cell = <<"damaged", a>>
    BY <1>4, <1>5, <1>6, <1>7, <1>8, <1>9, <1>11 DEF active
  <1>19. ~Sound(members[a])
    BY <1>2, <1>3, <1>7, <1>15, <1>16, <1>18, AuditedSound
  <1>20. active \in SUBSET Nat /\ IsFiniteSet(active) /\ active # {}
    <2>1. IsFiniteSet(active)
      BY <1>2, FS_Subset
    <2> QED
      BY <1>2, <2>1, LogAssumption DEF active
  <1>21. Sound(CombinedRoot(a, honest, t, n))
    BY <1>14, <1>17, <1>20, CombinedSound
  <1>22. ~Sound(CombinedRoot(a, members, t, n))
    BY <1>17, <1>19, <1>20, CombinedSound DEF active
  <1> QED
    BY <1>12, <1>13, <1>21, <1>22

\* Whatever happened since.
LEMMA CellsSaid ==
  ASSUME AuditInv, IsFiniteSet(Algs)
  PROVE  AuditNoticesDamagedCell
  <1> SUFFICES ASSUME audit # NoAudit, NEW x \in damaged, x[3] = 0, x[2] < audit.size, x[1] \in audit.active,
                      kind = "subtree" \/ x \in DOMAIN nodes, VerifyAuditPayload(audit)
               PROVE  FALSE
    BY Zenon DEF AuditNoticesDamagedCell
  <1>1. PICK a \in Algs : \E c \in Coordinates : x = Node(a, c) /\ DamagedAt(a, c)
    BY DEF AuditInv
  <1>2. PICK c \in Coordinates : x = Node(a, c) /\ DamagedAt(a, c)
    BY <1>1
  <1>3. x[1] = a /\ x[2] = c[1] /\ x[3] = c[2] /\ c = <<c[1], c[2]>> /\ c[1] \in Nat
    BY <1>2, CoordinateIsPair DEF Node
  <1>4. audit.size \in Nat
    BY AuditKnown DEF AuditInv
  <1>5. c = <<c[1], 0>> /\ c[1] \in 0..audit.size - 1 /\ x = <<a, c[1], 0>>
    BY <1>2, <1>3, <1>4 DEF Node
  <1>6. DamagedAt(a, <<c[1], 0>>) /\ (kind = "subtree" \/ <<a, c[1], 0>> \in DOMAIN nodes) /\ a \in audit.active
    BY <1>2, <1>3, <1>5
  <1> QED
    BY <1>5, <1>6, CellSaid

\* The replay of a payload fails in a log that has since lost a leaf digest of an
\* algorithm active at the payload's end, or has another digest in its place; in a flat
\* log, whose leaf digests are a cache, when it has another one.
THEOREM DamagedCellAlwaysNoticed ==
  ASSUME NoNullItems, IsFiniteSet(Algs)
  PROVE  AuditSpec => []AuditNoticesDamagedCell
  <1>1. AuditSpec => []AuditInv
    BY AuditInvariant
  <1>2. AuditInv => AuditNoticesDamagedCell
    BY CellsSaid
  <1> QED
    BY <1>1, <1>2, PTL
=============================================================================
