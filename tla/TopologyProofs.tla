--------------------------- MODULE TopologyProofs ---------------------------
(***************************************************************************)
(* Lemmas about what the other modules are built from.  The intervals of   *)
(* one algorithm: what closing the last one or starting another does to    *)
(* their order, to the activity at earlier positions and to what is shown  *)
(* for earlier sizes.  And the topology of an append-only log, for any     *)
(* arity: the sizes of perfect subtrees, the peaks that cover n leaves,    *)
(* what an append makes of them, and the path from a peak through the      *)
(* bagging of all peaks to their root.                                     *)
(***************************************************************************)
EXTENDS CombinedRoot, InclusionPaths, WellFoundedInduction, TLAPS

-----------------------------------------------------------------------------
(* Inductions, and one algorithm's intervals under the operations *)

\* A non-empty set of naturals has a least element.
LEMMA LeastExists ==
  ASSUME NEW T \in SUBSET Nat, T # {}
  PROVE  \E x \in T : \A y \in T : x <= y
  <1>1. PICK x \in T : \A y \in T : ~(<<y, x>> \in OpToRel(<, Nat))
    BY NatLessThanWellFounded, WFMin
  <1>2. \A y \in T : ~(y < x)
    BY <1>1 DEF OpToRel
  <1> QED
    BY <1>2

\* Induction over a set of naturals.
LEMMA SetInduction ==
  ASSUME NEW S, 0 \in S, \A n \in Nat : n \in S => n + 1 \in S
  PROVE  \A n \in Nat : n \in S
  <1> DEFINE T == {n \in Nat : n \notin S}
  <1> SUFFICES ASSUME T # {} PROVE FALSE
    OBVIOUS
  <1>1. PICK n \in T : \A m \in T : n <= m
    BY LeastExists
  <1>2. n # 0 /\ n - 1 \in Nat /\ (n - 1) + 1 = n
    BY <1>1
  <1>3. n - 1 \in S
    BY <1>1, <1>2
  <1> QED
    BY <1>1, <1>2, <1>3

\* What remove_algorithm and resume_algorithm make of an algorithm's intervals.
Closed(eps, n) == [eps EXCEPT ![Len(eps)][2] = n]
Resumed(eps, n) == Append(eps, <<n, Open>>)

\* An interval is the pair of its ends.
LEMMA IntervalIsPair ==
  ASSUME NEW i \in Interval
  PROVE  i = <<i[1], i[2]>> /\ i[1] \in Nat /\ i[2] \in Nat
  BY DEF Interval

\* What a valid timeline says of one of its intervals.
LEMMA ValidInterval ==
  ASSUME NEW eps \in Seq(Interval), NEW n \in Nat, ValidEpochs(eps, n),
         NEW e \in 1..Len(eps)
  PROVE  /\ eps[e][1] \in Nat /\ eps[e][2] \in Nat
         /\ eps[e][1] <= eps[e][2]
         /\ e > 1 => eps[e][1] >= eps[e - 1][2]
         /\ eps[e][2] = Open => e = Len(eps) /\ eps[e][1] <= n
         /\ eps[e][2] # Open => eps[e][2] <= n
  <1>1. e \in DOMAIN eps /\ eps[e] \in Interval
    OBVIOUS
  <1> QED
    BY <1>1, IntervalIsPair DEF ValidEpochs

\* Closing the last of a non-empty sequence of intervals changes nothing else.
LEMMA CloseLast ==
  ASSUME NEW eps \in Seq(Interval), eps # <<>>, NEW n \in Nat
  PROVE  /\ Closed(eps, n) \in Seq(Interval)
         /\ Len(Closed(eps, n)) = Len(eps)
         /\ Len(eps) \in Nat \ {0}
         /\ \A e \in 1..Len(eps) - 1 : Closed(eps, n)[e] = eps[e]
         /\ Closed(eps, n)[Len(eps)][1] = eps[Len(eps)][1]
         /\ Closed(eps, n)[Len(eps)][2] = n
  <1> DEFINE last == Len(eps)
  <1>1. last \in Nat \ {0} /\ DOMAIN eps = 1..last
    OBVIOUS
  <1>2. eps[last] = <<eps[last][1], eps[last][2]>> /\ eps[last][1] \in Nat /\ eps[last][2] \in Nat
    BY <1>1, IntervalIsPair
  <1>3. Closed(eps, n) = [eps EXCEPT ![last] = [eps[last] EXCEPT ![2] = n]]
    BY DEF Closed
  <1>4. [eps[last] EXCEPT ![2] = n] = <<eps[last][1], n>>
    BY <1>2
  <1>5. Closed(eps, n) = [eps EXCEPT ![last] = <<eps[last][1], n>>]
    BY <1>3, <1>4
  <1>6. <<eps[last][1], n>> \in Interval
    BY <1>2 DEF Interval
  <1>7. Closed(eps, n) \in Seq(Interval) /\ Len(Closed(eps, n)) = last
    BY <1>1, <1>5, <1>6
  <1> QED
    BY <1>1, <1>5, <1>7

\* Starting an interval after the others changes none of them.
LEMMA StartAnother ==
  ASSUME NEW eps \in Seq(Interval), NEW n \in Nat
  PROVE  /\ Resumed(eps, n) \in Seq(Interval)
         /\ Len(Resumed(eps, n)) = Len(eps) + 1
         /\ Len(eps) \in Nat
         /\ \A e \in 1..Len(eps) : Resumed(eps, n)[e] = eps[e]
         /\ Resumed(eps, n)[Len(eps) + 1][1] = n
         /\ Resumed(eps, n)[Len(eps) + 1][2] = Open
  BY OpenAssumption DEF Interval, Resumed

\* remove_algorithm leaves a valid timeline.
LEMMA CloseValid ==
  ASSUME NEW eps \in Seq(Interval), NEW n \in Nat, n < Open,
         ValidEpochs(eps, n), IsActive(eps)
  PROVE  ValidEpochs(Closed(eps, n), n)
  <1> DEFINE closed == Closed(eps, n)
  <1>1. eps # <<>> /\ eps[Len(eps)][2] = Open
    BY DEF IsActive, LastEpoch
  <1>2. /\ closed \in Seq(Interval)
        /\ Len(closed) = Len(eps)
        /\ Len(eps) \in Nat \ {0}
        /\ \A e \in 1..Len(eps) - 1 : closed[e] = eps[e]
        /\ closed[Len(eps)][1] = eps[Len(eps)][1]
        /\ closed[Len(eps)][2] = n
    BY <1>1, CloseLast
  <1>3. closed # <<>> /\ DOMAIN closed = 1..Len(eps) /\ DOMAIN eps = 1..Len(eps)
    BY <1>2
  <1> HIDE DEF closed
  <1>4. \A e \in 1..Len(eps) : eps[e][1] \in Nat /\ eps[e][2] \in Nat
    BY <1>3, IntervalIsPair
  <1>5. ASSUME NEW e \in 1..Len(eps)
        PROVE  /\ closed[e][1] <= closed[e][2]
               /\ e > 1 => closed[e][1] >= closed[e - 1][2]
               /\ IF closed[e][2] = Open THEN e = Len(closed) /\ closed[e][1] <= n
                                         ELSE closed[e][2] <= n
    <2>1. /\ eps[e][1] \in Nat /\ eps[e][2] \in Nat
          /\ eps[e][1] <= eps[e][2]
          /\ e > 1 => eps[e][1] >= eps[e - 1][2]
          /\ eps[e][2] = Open => e = Len(eps) /\ eps[e][1] <= n
          /\ eps[e][2] # Open => eps[e][2] <= n
      BY ValidInterval
    <2>2. e > 1 => closed[e - 1] = eps[e - 1]
      BY <1>2
    <2>3. CASE e = Len(eps)
      BY <1>1, <1>2, <2>1, <2>2, <2>3, OpenAssumption
    <2>4. CASE e \in 1..Len(eps) - 1
      <3>1. closed[e] = eps[e] /\ e # Len(eps)
        BY <1>2, <2>4
      <3> QED
        BY <1>2, <2>1, <2>2, <3>1
    <2> QED
      BY <1>2, <2>3, <2>4
  <1>6. ValidEpochs(closed, n)
    BY <1>3, <1>5 DEF ValidEpochs
  <1> QED
    BY <1>6 DEF closed

\* resume_algorithm leaves a valid timeline.
LEMMA ResumeValid ==
  ASSUME NEW eps \in Seq(Interval), NEW n \in Nat, n < Open,
         ValidEpochs(eps, n), ~IsActive(eps)
  PROVE  ValidEpochs(Resumed(eps, n), n)
  <1> DEFINE more == Resumed(eps, n)
  <1>1. eps # <<>> /\ eps[Len(eps)][2] # Open
    BY DEF IsActive, LastEpoch, ValidEpochs
  <1>2. /\ more \in Seq(Interval)
        /\ Len(more) = Len(eps) + 1
        /\ Len(eps) \in Nat \ {0}
        /\ \A e \in 1..Len(eps) : more[e] = eps[e]
        /\ more[Len(eps) + 1][1] = n
        /\ more[Len(eps) + 1][2] = Open
    <2>1. Len(eps) # 0
      BY <1>1
    <2> QED
      BY <2>1, StartAnother
  <1>3. more # <<>> /\ DOMAIN more = 1..Len(eps) + 1 /\ DOMAIN eps = 1..Len(eps)
    BY <1>2
  <1> HIDE DEF more
  <1>4. \A e \in 1..Len(eps) : eps[e][1] \in Nat /\ eps[e][2] \in Nat
    BY <1>3, IntervalIsPair
  <1>5. ASSUME NEW e \in 1..Len(eps) + 1
        PROVE  /\ more[e][1] <= more[e][2]
               /\ e > 1 => more[e][1] >= more[e - 1][2]
               /\ IF more[e][2] = Open THEN e = Len(more) /\ more[e][1] <= n
                                       ELSE more[e][2] <= n
    <2>1. CASE e = Len(eps) + 1
      <3>1. eps[Len(eps)][2] <= n
        BY <1>1, <1>2, ValidInterval
      <3>2. more[e][1] = n /\ more[e][2] = Open /\ more[e - 1] = eps[Len(eps)] /\ e = Len(more)
        BY <1>2, <2>1
      <3> QED
        BY <3>1, <3>2, OpenAssumption
    <2>2. CASE e \in 1..Len(eps)
      <3>1. /\ eps[e][1] \in Nat /\ eps[e][2] \in Nat
            /\ eps[e][1] <= eps[e][2]
            /\ e > 1 => eps[e][1] >= eps[e - 1][2]
            /\ eps[e][2] = Open => e = Len(eps) /\ eps[e][1] <= n
            /\ eps[e][2] # Open => eps[e][2] <= n
        BY <2>2, ValidInterval
      <3>2. more[e] = eps[e] /\ (e > 1 => more[e - 1] = eps[e - 1])
        BY <1>2, <2>2
      <3> QED
        BY <1>1, <3>1, <3>2
    <2> QED
      BY <1>2, <2>1, <2>2
  <1>6. ValidEpochs(more, n)
    BY <1>3, <1>5 DEF ValidEpochs
  <1> QED
    BY <1>6 DEF more

\* What evolved from a timeline still does after remove_algorithm.
LEMMA CloseEvolves ==
  ASSUME NEW eps \in Seq(Interval), NEW n \in Nat, n < Open, IsActive(eps),
         NEW old \in Seq(Interval), old # <<>>, NEW m \in 0..n,
         EvolvesFrom(old, m, eps)
  PROVE  EvolvesFrom(old, m, Closed(eps, n))
  <1> DEFINE closed == Closed(eps, n)
  <1>1. eps # <<>> /\ eps[Len(eps)][2] = Open
    BY DEF IsActive, LastEpoch
  <1>2. /\ Len(closed) = Len(eps)
        /\ Len(eps) \in Nat \ {0}
        /\ \A e \in 1..Len(eps) - 1 : closed[e] = eps[e]
        /\ closed[Len(eps)][1] = eps[Len(eps)][1]
        /\ closed[Len(eps)][2] = n
    BY <1>1, CloseLast
  <1> HIDE DEF closed
  <1>3. Len(old) \in 1..Len(eps)
    BY <1>2 DEF EvolvesFrom
  <1>4. \A e \in 1..Len(eps) : closed[e][1] = eps[e][1]
    BY <1>2
  <1>5. Len(closed) >= Len(old)
    BY <1>2, <1>3
  <1>6. \A e \in 1..Len(old) - 1 : closed[e] = old[e]
    BY <1>2, <1>3 DEF EvolvesFrom
  <1>7. closed[Len(old)][1] = old[Len(old)][1]
    BY <1>3, <1>4 DEF EvolvesFrom
  <1>8. IF old[Len(old)][2] = Open
        THEN closed[Len(old)][2] = Open \/ closed[Len(old)][2] >= m
        ELSE closed[Len(old)][2] = old[Len(old)][2]
    <2>1. CASE Len(old) = Len(eps)
      BY <1>1, <1>2, <2>1 DEF EvolvesFrom
    <2>2. CASE Len(old) \in 1..Len(eps) - 1
      <3>1. closed[Len(old)] = eps[Len(old)]
        BY <1>2, <2>2
      <3> QED
        BY <3>1 DEF EvolvesFrom
    <2> QED
      BY <1>2, <1>3, <2>1, <2>2
  <1>9. \A e \in Len(old) + 1..Len(closed) : closed[e][1] >= m
    BY <1>2, <1>3, <1>4 DEF EvolvesFrom
  <1>10. EvolvesFrom(old, m, closed)
    BY <1>5, <1>6, <1>7, <1>8, <1>9 DEF EvolvesFrom
  <1> QED
    BY <1>10 DEF closed

\* What evolved from a timeline still does after resume_algorithm.
LEMMA ResumeEvolves ==
  ASSUME NEW eps \in Seq(Interval), NEW n \in Nat,
         NEW old \in Seq(Interval), old # <<>>, NEW m \in 0..n,
         EvolvesFrom(old, m, eps)
  PROVE  EvolvesFrom(old, m, Resumed(eps, n))
  <1> DEFINE more == Resumed(eps, n)
  <1>1. /\ Len(more) = Len(eps) + 1
        /\ Len(eps) \in Nat
        /\ \A e \in 1..Len(eps) : more[e] = eps[e]
        /\ more[Len(eps) + 1][1] = n
    BY StartAnother
  <1> HIDE DEF more
  <1>2. Len(old) \in 1..Len(eps)
    BY <1>1 DEF EvolvesFrom
  <1>3. Len(more) >= Len(old)
    BY <1>1, <1>2
  <1>4. \A e \in 1..Len(old) - 1 : more[e] = old[e]
    BY <1>1, <1>2 DEF EvolvesFrom
  <1>5. more[Len(old)] = eps[Len(old)]
    BY <1>1, <1>2
  <1>6. more[Len(old)][1] = old[Len(old)][1]
    BY <1>5 DEF EvolvesFrom
  <1>7. IF old[Len(old)][2] = Open
        THEN more[Len(old)][2] = Open \/ more[Len(old)][2] >= m
        ELSE more[Len(old)][2] = old[Len(old)][2]
    BY <1>5 DEF EvolvesFrom
  <1>8. ASSUME NEW e \in Len(old) + 1..Len(more)
        PROVE  more[e][1] >= m
    <2>1. CASE e = Len(eps) + 1
      BY <1>1, <2>1
    <2>2. CASE e \in Len(old) + 1..Len(eps)
      <3>1. more[e] = eps[e]
        BY <1>1, <1>2, <2>2
      <3> QED
        BY <2>2, <3>1 DEF EvolvesFrom
    <2> QED
      BY SMTT(30), <1>1, <1>2, <2>1, <2>2
  <1>9. EvolvesFrom(old, m, more)
    BY <1>3, <1>4, <1>6, <1>7, <1>8 DEF EvolvesFrom
  <1> QED
    BY <1>9 DEF more

\* A timeline valid at a size stays valid at a larger one.
LEMMA GrowKeeps ==
  ASSUME NEW eps \in Seq(Interval), NEW n \in Nat, ValidEpochs(eps, n)
  PROVE  ValidEpochs(eps, n + 1)
  <1>1. \A e \in DOMAIN eps : eps[e][1] \in Nat /\ eps[e][2] \in Nat
    BY DEF Interval
  <1> QED
    BY <1>1 DEF ValidEpochs

\* The timeline committed for the current size is the current one.
LEMMA CommittedNow ==
  ASSUME NEW eps \in Seq(Interval), NEW n \in Nat, n < Open,
         eps # <<>> => ValidEpochs(eps, n)
  PROVE  EpochsAt(eps, n) = eps
  <1> DEFINE cut == {e \in DOMAIN eps : eps[e][1] > n \/ eps[e][2] > n}
             first == CHOOSE e \in cut : \A f \in cut : e <= f
  <1>1. CASE cut = {}
    BY <1>1 DEF EpochsAt
  <1>2. CASE cut # {}
    <2>1. Len(eps) \in Nat \ {0} /\ DOMAIN eps = 1..Len(eps) /\ ValidEpochs(eps, n)
      BY <1>2
    <2>2. \A e \in DOMAIN eps : eps[e][1] \in Nat /\ eps[e][2] \in Nat
      BY DEF Interval
    <2>3. \A e \in cut : e = Len(eps) /\ eps[e][1] <= n /\ eps[e][2] = Open
      BY <2>1, <2>2 DEF ValidEpochs
    <2>4. first = Len(eps) /\ eps[Len(eps)][1] <= n /\ eps[Len(eps)][2] = Open
      BY <1>2, <2>1, <2>3
    <2> HIDE DEF first
    <2>5. <<eps[Len(eps)][1], Open>> = eps[Len(eps)]
      <3>1. eps[Len(eps)] \in Interval
        BY <2>1
      <3> QED
        BY <2>4, <3>1, IntervalIsPair
    <2>6. EpochsAt(eps, n) = Append(SubSeq(eps, 1, first - 1), <<eps[first][1], Open>>)
      <3>1. ~(eps[first][1] > n)
        BY <2>1, <2>2, <2>4
      <3> QED
        BY <1>2, <3>1 DEF EpochsAt, first
    <2>7. Append(SubSeq(eps, 1, Len(eps) - 1), eps[Len(eps)]) = eps
      BY <2>1
    <2> QED
      BY <2>4, <2>5, <2>6, <2>7
  <1> QED
    BY <1>1, <1>2

-----------------------------------------------------------------------------
(* The past under the operations: positions and sizes below the current one. *)

\* Closing an interval at `c` leaves the activity below `c` alone.
LEMMA CloseActivity ==
  ASSUME NEW eps \in Seq(Interval), NEW c \in Nat, c < Open, IsActive(eps), NEW i \in 0..c - 1
  PROVE  IsActiveAt(Closed(eps, c), i) <=> IsActiveAt(eps, i)
  <1> DEFINE closed == Closed(eps, c)
  <1>1. eps # <<>> /\ eps[Len(eps)][2] = Open
    BY DEF IsActive, LastEpoch
  <1>2. /\ closed \in Seq(Interval)
        /\ Len(closed) = Len(eps)
        /\ Len(eps) \in Nat \ {0}
        /\ \A e \in 1..Len(eps) - 1 : closed[e] = eps[e]
        /\ closed[Len(eps)][1] = eps[Len(eps)][1]
        /\ closed[Len(eps)][2] = c
    BY <1>1, CloseLast
  <1>3. DOMAIN closed = 1..Len(eps) /\ DOMAIN eps = 1..Len(eps)
    BY <1>2
  <1> HIDE DEF closed
  <1>4. i < c /\ i < Open
    BY OpenAssumption
  <1>5. ASSUME NEW e \in 1..Len(eps)
        PROVE  closed[e][1] = eps[e][1] /\ (i < closed[e][2] <=> i < eps[e][2])
    <2>1. CASE e = Len(eps)
      BY <1>1, <1>2, <1>4, <2>1
    <2>2. CASE e \in 1..Len(eps) - 1
      BY <1>2, <2>2
    <2> QED
      BY <1>2, <2>1, <2>2
  <1>6. IsActiveAt(closed, i) <=> IsActiveAt(eps, i)
    BY <1>3, <1>5 DEF IsActiveAt
  <1> QED
    BY <1>6 DEF closed

\* Starting an interval at `c` leaves the activity below `c` alone.
LEMMA ResumeActivity ==
  ASSUME NEW eps \in Seq(Interval), NEW c \in Nat, NEW i \in 0..c - 1
  PROVE  IsActiveAt(Resumed(eps, c), i) <=> IsActiveAt(eps, i)
  <1> DEFINE more == Resumed(eps, c)
  <1>1. /\ more \in Seq(Interval)
        /\ Len(more) = Len(eps) + 1
        /\ Len(eps) \in Nat
        /\ \A e \in 1..Len(eps) : more[e] = eps[e]
        /\ more[Len(eps) + 1][1] = c
    BY StartAnother
  <1>2. DOMAIN more = 1..Len(eps) + 1 /\ DOMAIN eps = 1..Len(eps)
    BY <1>1
  <1> HIDE DEF more
  <1>3. ~(more[Len(eps) + 1][1] <= i)
    BY <1>1
  <1>4. IsActiveAt(more, i) <=> IsActiveAt(eps, i)
    BY <1>1, <1>2, <1>3 DEF IsActiveAt
  <1> QED
    BY <1>4 DEF more

\* The intervals that had not ended, or not begun, at size n.
Cut(eps, n) == {e \in DOMAIN eps : eps[e][1] > n \/ eps[e][2] > n}
IsFirst(f, eps, n) == f \in Cut(eps, n) /\ \A g \in Cut(eps, n) : f <= g

\* epochs_at in terms of the first of them.
LEMMA CommittedByFirst ==
  ASSUME NEW eps \in Seq(Interval), NEW n \in Nat, NEW f, IsFirst(f, eps, n)
  PROVE  /\ eps[f][1] > n => EpochsAt(eps, n) = SubSeq(eps, 1, f - 1)
         /\ ~(eps[f][1] > n) =>
              EpochsAt(eps, n) = Append(SubSeq(eps, 1, f - 1), <<eps[f][1], Open>>)
  <1> DEFINE first == CHOOSE e \in Cut(eps, n) : \A g \in Cut(eps, n) : e <= g
  <1>1. Cut(eps, n) \subseteq Nat
    BY DEF Cut
  <1>2. f \in Cut(eps, n) /\ \A g \in Cut(eps, n) : f <= g
    BY DEF IsFirst
  <1>3. first \in Cut(eps, n) /\ \A g \in Cut(eps, n) : first <= g
    BY <1>2
  <1>4. first = f
    BY <1>1, <1>2, <1>3
  <1> QED
    BY <1>4 DEF EpochsAt, Cut, IsFirst

\* Closing an interval at `c` leaves what is committed for smaller sizes alone.
LEMMA CloseCommitted ==
  ASSUME NEW eps \in Seq(Interval), NEW c \in Nat, c < Open, IsActive(eps), NEW n \in 0..c - 1
  PROVE  EpochsAt(Closed(eps, c), n) = EpochsAt(eps, n)
  <1> DEFINE closed == Closed(eps, c)
  <1>0. n \in Nat
    OBVIOUS
  <1>1. eps # <<>> /\ eps[Len(eps)][2] = Open
    BY DEF IsActive, LastEpoch
  <1>2. /\ closed \in Seq(Interval)
        /\ Len(closed) = Len(eps)
        /\ Len(eps) \in Nat \ {0}
        /\ \A e \in 1..Len(eps) - 1 : closed[e] = eps[e]
        /\ closed[Len(eps)][1] = eps[Len(eps)][1]
        /\ closed[Len(eps)][2] = c
    BY <1>1, CloseLast
  <1>3. DOMAIN closed = 1..Len(eps) /\ DOMAIN eps = 1..Len(eps)
    BY <1>2
  <1> HIDE DEF closed
  <1>4. c > n /\ Open > n
    BY OpenAssumption
  <1>5. ASSUME NEW e \in 1..Len(eps)
        PROVE  closed[e][1] = eps[e][1] /\ (closed[e][2] > n <=> eps[e][2] > n)
    <2>1. CASE e = Len(eps)
      BY <1>1, <1>2, <1>4, <2>1
    <2>2. CASE e \in 1..Len(eps) - 1
      BY <1>2, <2>2
    <2> QED
      BY <1>2, <2>1, <2>2
  <1>6. Cut(closed, n) = Cut(eps, n)
    BY <1>3, <1>5 DEF Cut
  <1>7. Len(eps) \in Cut(eps, n)
    BY <1>1, <1>2, <1>3, <1>4 DEF Cut
  <1>8. PICK f \in Cut(eps, n) : \A g \in Cut(eps, n) : f <= g
    <2>1. Cut(eps, n) \in SUBSET Nat
      BY <1>3 DEF Cut
    <2> QED
      BY <1>7, <2>1, LeastExists
  <1>9. f \in 1..Len(eps)
    BY <1>3 DEF Cut
  <1>10. SubSeq(closed, 1, f - 1) = SubSeq(eps, 1, f - 1)
    BY <1>2, <1>9
  <1>11. /\ eps[f][1] > n => EpochsAt(eps, n) = SubSeq(eps, 1, f - 1)
         /\ ~(eps[f][1] > n) =>
              EpochsAt(eps, n) = Append(SubSeq(eps, 1, f - 1), <<eps[f][1], Open>>)
    <2>1. IsFirst(f, eps, n)
      BY <1>8 DEF IsFirst
    <2> QED
      BY <1>0, <2>1, CommittedByFirst
  <1>12. /\ closed[f][1] > n => EpochsAt(closed, n) = SubSeq(closed, 1, f - 1)
         /\ ~(closed[f][1] > n) =>
              EpochsAt(closed, n) = Append(SubSeq(closed, 1, f - 1), <<closed[f][1], Open>>)
    <2>1. IsFirst(f, closed, n)
      BY <1>6, <1>8 DEF IsFirst
    <2> QED
      BY <1>0, <1>2, <2>1, CommittedByFirst
  <1>13. EpochsAt(closed, n) = EpochsAt(eps, n)
    BY <1>5, <1>9, <1>10, <1>11, <1>12
  <1> QED
    BY <1>13 DEF closed

\* Starting an interval at `c` leaves what is committed for smaller sizes alone.
LEMMA ResumeCommitted ==
  ASSUME NEW eps \in Seq(Interval), NEW c \in Nat, NEW n \in 0..c - 1
  PROVE  EpochsAt(Resumed(eps, c), n) = EpochsAt(eps, n)
  <1> DEFINE more == Resumed(eps, c)
             new == Len(eps) + 1
  <1>0. n \in Nat
    OBVIOUS
  <1>1. /\ more \in Seq(Interval)
        /\ Len(more) = new
        /\ Len(eps) \in Nat
        /\ \A e \in 1..Len(eps) : more[e] = eps[e]
        /\ more[new][1] = c
    BY StartAnother
  <1>2. DOMAIN more = 1..new /\ DOMAIN eps = 1..Len(eps)
    BY <1>1
  <1> HIDE DEF more
  <1>3. more[new][1] > n
    BY <1>1
  <1>4. Cut(more, n) = Cut(eps, n) \union {new}
    BY <1>1, <1>2, <1>3 DEF Cut
  <1>5. ASSUME Cut(eps, n) = {} PROVE EpochsAt(more, n) = EpochsAt(eps, n)
    <2>1. EpochsAt(eps, n) = eps
      BY <1>5 DEF EpochsAt, Cut
    <2>2. IsFirst(new, more, n)
      BY <1>1, <1>4, <1>5 DEF IsFirst
    <2>3. EpochsAt(more, n) = SubSeq(more, 1, new - 1)
      BY <1>1, <1>3, <2>2, CommittedByFirst
    <2>4. SubSeq(more, 1, new - 1) = eps
      BY <1>1
    <2> QED
      BY <2>1, <2>3, <2>4
  <1>6. ASSUME Cut(eps, n) # {} PROVE EpochsAt(more, n) = EpochsAt(eps, n)
    <2>1. PICK f \in Cut(eps, n) : \A g \in Cut(eps, n) : f <= g
      <3>1. Cut(eps, n) \in SUBSET Nat
        BY <1>2 DEF Cut
      <3> QED
        BY <1>6, <3>1, LeastExists
    <2>2. f \in 1..Len(eps)
      BY <1>2 DEF Cut
    <2>3. f \in Cut(more, n) /\ \A g \in Cut(more, n) : f <= g
      BY <1>1, <1>4, <2>1, <2>2
    <2>4. SubSeq(more, 1, f - 1) = SubSeq(eps, 1, f - 1) /\ more[f] = eps[f]
      BY <1>1, <2>2
    <2>5. /\ eps[f][1] > n => EpochsAt(eps, n) = SubSeq(eps, 1, f - 1)
          /\ ~(eps[f][1] > n) =>
               EpochsAt(eps, n) = Append(SubSeq(eps, 1, f - 1), <<eps[f][1], Open>>)
      <3>1. IsFirst(f, eps, n)
        BY <2>1 DEF IsFirst
      <3> QED
        BY <1>0, <3>1, CommittedByFirst
    <2>6. /\ more[f][1] > n => EpochsAt(more, n) = SubSeq(more, 1, f - 1)
          /\ ~(more[f][1] > n) =>
               EpochsAt(more, n) = Append(SubSeq(more, 1, f - 1), <<more[f][1], Open>>)
      <3>1. IsFirst(f, more, n)
        BY <2>3 DEF IsFirst
      <3> QED
        BY <1>0, <1>1, <3>1, CommittedByFirst
    <2> QED
      BY <2>4, <2>5, <2>6
  <1>7. EpochsAt(more, n) = EpochsAt(eps, n)
    BY <1>5, <1>6
  <1> QED
    BY <1>7 DEF more

\* Whether an interval meets a range of positions.
LEMMA Ranges ==
  ASSUME NEW eps \in Seq(Interval), NEW lo \in Nat, NEW hi \in Nat
  PROVE  /\ \A i \in Nat : lo <= i /\ i < hi /\ IsActiveAt(eps, i) => ActiveRange(eps, lo, hi)
         /\ hi = lo + 1 /\ ActiveRange(eps, lo, hi) => IsActiveAt(eps, lo)
         /\ \A l \in Nat, h \in Nat : l <= lo /\ hi <= h /\ ActiveRange(eps, lo, hi)
                                        => ActiveRange(eps, l, h)
  <1>1. \A e \in DOMAIN eps : eps[e][1] \in Nat /\ eps[e][2] \in Nat
    BY DEF Interval
  <1> QED
    BY <1>1 DEF IsActiveAt, ActiveRange

\* Freezing an algorithm changes nothing within the log.
LEMMA CloseRange ==
  ASSUME NEW eps \in Seq(Interval), NEW c \in Nat, c < Open, IsActive(eps),
         NEW lo \in Nat, NEW hi \in Nat, lo < hi, hi <= c
  PROVE  ActiveRange(Closed(eps, c), lo, hi) <=> ActiveRange(eps, lo, hi)
  <1> DEFINE closed == Closed(eps, c)
  <1>1. /\ closed \in Seq(Interval) /\ Len(closed) = Len(eps) /\ Len(eps) \in Nat \ {0}
        /\ \A e \in 1..Len(eps) - 1 : closed[e] = eps[e]
        /\ closed[Len(eps)][1] = eps[Len(eps)][1] /\ closed[Len(eps)][2] = c
    BY CloseLast DEF IsActive
  <1>2. eps[Len(eps)][2] = Open /\ DOMAIN eps = 1..Len(eps) /\ DOMAIN closed = 1..Len(eps)
    BY <1>1 DEF IsActive, LastEpoch
  <1> HIDE DEF closed
  <1>3. \A e \in 1..Len(eps) : closed[e] = eps[e] \/ e = Len(eps)
    BY <1>1
  <1>4. c > lo /\ Open > lo
    BY OpenAssumption
  <1>5. \A e \in 1..Len(eps) :
           (closed[e][1] < hi /\ closed[e][2] > lo) <=> (eps[e][1] < hi /\ eps[e][2] > lo)
    BY <1>1, <1>2, <1>3, <1>4
  <1> QED
    BY <1>2, <1>5 DEF ActiveRange, closed

\* Nor does resuming it.
LEMMA ResumeRange ==
  ASSUME NEW eps \in Seq(Interval), NEW c \in Nat, NEW lo \in Nat, NEW hi \in Nat, hi <= c
  PROVE  ActiveRange(Resumed(eps, c), lo, hi) <=> ActiveRange(eps, lo, hi)
  <1> DEFINE more == Resumed(eps, c)
             n == Len(eps)
  <1>1. /\ more \in Seq(Interval) /\ Len(more) = n + 1 /\ n \in Nat
        /\ \A e \in 1..n : more[e] = eps[e]
        /\ more[n + 1][1] = c
    BY StartAnother
  <1>2. DOMAIN eps = 1..n /\ DOMAIN more = 1..n + 1
    BY <1>1
  <1> HIDE DEF more, n
  <1>3. \A e \in 1..n + 1 : e \in 1..n \/ e = n + 1
    BY <1>1
  <1>4. 1..n \subseteq 1..n + 1 /\ ~(c < hi)
    BY <1>1
  <1> QED
    BY <1>1, <1>2, <1>3, <1>4 DEF ActiveRange, more

\* In a valid timeline the ends grow.
LEMMA EndsGrow ==
  ASSUME NEW eps \in Seq(Interval), NEW n \in Nat, ValidEpochs(eps, n),
         NEW e \in 1..Len(eps)
  PROVE  eps[e][2] <= eps[Len(eps)][2]
  <1> DEFINE S == {k \in Nat : e + k <= Len(eps) => eps[e][2] <= eps[e + k][2]}
  <1>1. Len(eps) \in Nat /\ e \in Nat /\ e >= 1 /\ e <= Len(eps)
    OBVIOUS
  <1>2. 0 \in S
    <2>1. e + 0 = e /\ eps[e][2] \in Nat
      BY ValidInterval
    <2> QED
      BY <2>1
  <1>3. ASSUME NEW k \in Nat, k \in S PROVE k + 1 \in S
    <2> SUFFICES ASSUME e + (k + 1) <= Len(eps) PROVE eps[e][2] <= eps[e + (k + 1)][2]
      OBVIOUS
    <2> DEFINE x == e + k
               y == e + (k + 1)
    <2>1. x \in 1..Len(eps) /\ y \in 1..Len(eps) /\ y - 1 = x /\ y > 1
      BY <1>1
    <2>2. eps[e][2] <= eps[x][2]
      BY <1>1, <1>3
    <2> HIDE DEF x, y
    <2>3. /\ eps[x][2] \in Nat /\ eps[y][1] \in Nat /\ eps[y][2] \in Nat
          /\ eps[y][1] <= eps[y][2] /\ eps[y][1] >= eps[y - 1][2] /\ eps[e][2] \in Nat
      BY <2>1, ValidInterval
    <2> QED
      BY SMTT(30), <2>1, <2>2, <2>3 DEF y
  <1> HIDE DEF S
  <1>4. Len(eps) - e \in S
    <2>1. Len(eps) - e \in Nat
      BY <1>1
    <2> QED
      BY <1>2, <1>3, <2>1, SetInduction
  <1>5. e + (Len(eps) - e) = Len(eps)
    BY <1>1
  <1> QED
    BY <1>1, <1>4, <1>5 DEF S

\* An algorithm's tree spans every position it was active at, and when it is
\* active, the log.
LEMMA TreeSpans ==
  ASSUME NEW eps \in Seq(Interval), NEW n \in Nat, n < Open, eps # <<>> => ValidEpochs(eps, n)
  PROVE  /\ TreeSize(eps, n) \in 0..n
         /\ IsActive(eps) => TreeSize(eps, n) = n /\ IsActiveAt(eps, n)
         /\ \A i \in 0..n - 1 : IsActiveAt(eps, i) => i < TreeSize(eps, n)
         /\ ~IsActive(eps) => TreeSize(eps, n + 1) = TreeSize(eps, n)
         /\ TreeSize(Resumed(eps, n), n) = n
         /\ IsActive(eps) => TreeSize(Closed(eps, n), n) = n
  <1> DEFINE last == Len(eps)
  <1>1. /\ eps # <<>> => last \in Nat /\ last >= 1 /\ last \in 1..last
        /\ DOMAIN eps = 1..last
    OBVIOUS
  <1>2. ASSUME eps # <<>>, eps[last][2] # Open PROVE eps[last][2] \in 0..n
    <2> HIDE DEF last
    <2>1. eps[last][2] \in Nat /\ eps[last][2] <= n
      BY <1>1, <1>2, ValidInterval DEF last
    <2> QED
      BY <2>1
  <1>3. TreeSize(eps, n) \in 0..n
    BY <1>2 DEF TreeSize, IsActive, LastEpoch
  <1>4. ASSUME IsActive(eps) PROVE TreeSize(eps, n) = n /\ IsActiveAt(eps, n)
    <2>1. eps # <<>> /\ eps[last][2] = Open
      BY <1>4 DEF IsActive, LastEpoch
    <2>2. eps[last][1] <= n /\ last \in DOMAIN eps
      <3>1. last \in 1..last
        BY <1>1, <2>1
      <3> QED
        BY <1>1, <2>1, <3>1, ValidInterval
    <2> QED
      BY <1>4, <2>1, <2>2 DEF TreeSize, IsActiveAt
  <1>5. ASSUME NEW i \in 0..n - 1, IsActiveAt(eps, i) PROVE i < TreeSize(eps, n)
    <2>1. PICK e \in DOMAIN eps : eps[e][1] <= i /\ i < eps[e][2]
      BY <1>5 DEF IsActiveAt
    <2>2. eps # <<>> /\ e \in 1..last
      BY <1>1, <2>1
    <2>3. CASE IsActive(eps)
      BY <1>4, <2>3
    <2>4. CASE ~IsActive(eps)
      <3>1. TreeSize(eps, n) = eps[last][2]
        BY <2>2, <2>4 DEF TreeSize, LastEpoch
      <3>2. eps[e][2] <= eps[last][2]
        BY <2>2, EndsGrow
      <3>3. eps[e][2] \in Nat /\ eps[last][2] \in Nat /\ i \in Nat
        BY <1>1, <2>2 DEF Interval
      <3> QED
        BY <2>1, <3>1, <3>2, <3>3
    <2> QED
      BY <2>3, <2>4
  <1>6. ~IsActive(eps) => TreeSize(eps, n + 1) = TreeSize(eps, n)
    BY DEF TreeSize
  <1>7. TreeSize(Resumed(eps, n), n) = n
    <2> DEFINE more == Resumed(eps, n)
    <2>1. Len(more) = Len(eps) + 1 /\ Len(eps) \in Nat /\ more[Len(eps) + 1][2] = Open
          /\ more \in Seq(Interval)
      BY StartAnother
    <2> HIDE DEF more
    <2>2. more # <<>> /\ LastEpoch(more)[2] = Open
      BY <2>1 DEF LastEpoch
    <2> QED
      BY <2>2 DEF TreeSize, IsActive, more
  <1>8. ASSUME IsActive(eps) PROVE TreeSize(Closed(eps, n), n) = n
    <2> DEFINE closed == Closed(eps, n)
    <2>1. eps # <<>>
      BY <1>8 DEF IsActive
    <2>2. Len(closed) = Len(eps) /\ Len(eps) \in Nat \ {0} /\ closed[Len(eps)][2] = n
          /\ closed \in Seq(Interval)
      BY <2>1, CloseLast
    <2> HIDE DEF closed
    <2>3. closed # <<>> /\ LastEpoch(closed)[2] = n /\ n # Open
      BY <2>2, OpenAssumption DEF LastEpoch
    <2> QED
      BY <2>3 DEF TreeSize, IsActive, closed
  <1> QED
    BY <1>3, <1>4, <1>5, <1>6, <1>7, <1>8

-----------------------------------------------------------------------------
(* The sizes of blocks *)

\* Block sizes are the powers of the arity.
LEMMA Powers ==
  /\ Power[0] = 1
  /\ \A h \in Nat : Power[h + 1] = Arity * Power[h]
  <1> DEFINE power(f) == [h \in Nat |-> IF h = 0 THEN 1 ELSE Arity * f[h - 1]]
             Starts(f, n) == \A h \in 0..n : f[h] = IF h = 0 THEN 1 ELSE Arity * f[h - 1]
             Start(n) == CHOOSE f : Starts(f, n)
             whole == [n \in Nat |-> Start(n)[n]]
  <1>1. \A n \in Nat : \E f : Starts(f, n)
    <2> DEFINE S == {n \in Nat : \E f : Starts(f, n)}
    <2>1. 0 \in S
      <3>1. Starts([h \in {0} |-> 1], 0)
        OBVIOUS
      <3> QED
        BY <3>1
    <2>2. ASSUME NEW n \in Nat, n \in S PROVE n + 1 \in S
      <3>1. PICK f : Starts(f, n)
        BY <2>2
      <3> DEFINE g == [h \in 0..n + 1 |-> IF h <= n THEN f[h] ELSE Arity * f[n]]
      <3>2. Starts(g, n + 1)
        <4>1. \A h \in 0..n + 1 : g[h] = IF h <= n THEN f[h] ELSE Arity * f[n]
          OBVIOUS
        <4> HIDE DEF g
        <4> QED
          BY <3>1, <4>1
      <3>3. n + 1 \in Nat
        OBVIOUS
      <3> HIDE DEF Starts, g
      <3> QED
        BY <3>2, <3>3
    <2> HIDE DEF S
    <2>3. \A n \in Nat : n \in S
      BY <2>1, <2>2, SetInduction
    <2> QED
      BY <2>3 DEF S
  <1>2. \A n \in Nat : Starts(Start(n), n)
    BY <1>1
  <1> HIDE DEF Start
  <1>3. ASSUME NEW n \in Nat PROVE Start(n + 1)[n] = Start(n)[n]
    <2> DEFINE f == Start(n)
               g == Start(n + 1)
               S == {h \in Nat : h <= n => f[h] = g[h]}
    <2>1. Starts(f, n) /\ Starts(g, n + 1)
      <3>1. n + 1 \in Nat
        OBVIOUS
      <3> HIDE DEF Starts
      <3> QED
        BY <1>2, <3>1
    <2> HIDE DEF f, g
    <2>2. 0 \in S
      BY <2>1
    <2>3. ASSUME NEW h \in Nat, h \in S PROVE h + 1 \in S
      BY <2>1, <2>3
    <2> HIDE DEF S
    <2>4. \A h \in Nat : h \in S
      BY <2>2, <2>3, SetInduction
    <2> QED
      BY <2>4 DEF S, f, g
  <1>4. whole = power(whole)
    <2>1. ASSUME NEW h \in Nat PROVE whole[h] = IF h = 0 THEN 1 ELSE Arity * whole[h - 1]
      <3>1. CASE h = 0
        <4>1. Starts(Start(h), h) /\ h \in 0..h
          BY <1>2
        <4> QED
          BY <3>1, <4>1
      <3>2. CASE h # 0
        <4>1. Start(h)[h] = Arity * Start(h)[h - 1]
          <5>1. Starts(Start(h), h) /\ h \in 0..h
            BY <1>2
          <5> QED
            BY <3>2, <5>1
        <4>2. h - 1 \in Nat /\ (h - 1) + 1 = h
          BY <3>2
        <4>3. Start(h)[h - 1] = Start(h - 1)[h - 1]
          BY <1>3, <4>2
        <4> QED
          BY <3>2, <4>1, <4>2, <4>3
      <3> QED
        BY <3>1, <3>2
    <2> HIDE DEF whole
    <2>2. whole = [h \in Nat |-> whole[h]]
      BY DEF whole
    <2> QED
      BY <2>1, <2>2
  <1> HIDE DEF whole, Start, Starts
  <1>5. Power = power(Power)
    BY <1>4 DEF Power
  <1>6. \A h \in Nat : Power[h] = IF h = 0 THEN 1 ELSE Arity * Power[h - 1]
    BY <1>5
  <1>7. \A h \in Nat : h + 1 \in Nat /\ h + 1 # 0 /\ (h + 1) - 1 = h
    OBVIOUS
  <1> QED
    BY <1>6, <1>7

\* Block sizes are positive and grow with the height.
LEMMA BlockSizes ==
  /\ BlockSize(0) = 1
  /\ \A h \in Nat : BlockSize(h) \in Nat \ {0} /\ BlockSize(h + 1) = Arity * BlockSize(h)
  <1> DEFINE S == {h \in Nat : Power[h] \in Nat \ {0}}
  <1>1. 0 \in S
    BY Powers
  <1>2. ASSUME NEW h \in Nat, h \in S PROVE h + 1 \in S
    <2>1. \A x \in Nat \ {0} : Arity * x \in Nat \ {0}
      BY ArityAssumption
    <2> QED
      BY <1>2, <2>1, Powers
  <1> HIDE DEF S
  <1>3. \A h \in Nat : h \in S
    BY <1>1, <1>2, SetInduction
  <1> QED
    BY <1>3, Powers DEF S, BlockSize

Multiple(x, d) == \E q \in Nat : x = q * d

\* A remainder of 0 is a multiple.
LEMMA ModIsMultiple ==
  ASSUME NEW x \in Nat, NEW d \in Nat \ {0}
  PROVE  x % d = 0 <=> Multiple(x, d)
  <1>1. x = d * (x \div d) + (x % d) /\ x \div d \in Int
    OBVIOUS
  <1>2. ASSUME x % d = 0 PROVE Multiple(x, d)
    <2> DEFINE q == x \div d
    <2>1. x = d * q /\ q \in Int
      BY <1>1, <1>2
    <2> HIDE DEF q
    <2>2. q >= 0
      <3>1. SUFFICES ASSUME q <= -1 PROVE FALSE
        BY <2>1
      <3>2. d * q <= -d
        BY <2>1, <3>1
      <3> QED
        BY <2>1, <3>2
    <2> QED
      BY <2>1, <2>2 DEF Multiple
  <1>3. ASSUME NEW q \in Nat, x = q * d PROVE x % d = 0
    BY <1>3
  <1> QED
    BY <1>2, <1>3 DEF Multiple

\* A multiple of a multiple is one.
LEMMA MultipleTransitive ==
  ASSUME NEW x \in Nat, NEW d \in Nat, NEW e \in Nat, Multiple(x, d), Multiple(d, e)
  PROVE  Multiple(x, e)
  <1>1. PICK p \in Nat : x = p * d
    BY DEF Multiple
  <1>2. PICK q \in Nat : d = q * e
    BY DEF Multiple
  <1>3. x = (p * q) * e /\ p * q \in Nat
    BY <1>1, <1>2
  <1> QED
    BY <1>3 DEF Multiple

\* Two multiples of d that differ do so by d at least.
LEMMA MultiplesApart ==
  ASSUME NEW x \in Nat, NEW y \in Nat, NEW d \in Nat \ {0}, Multiple(x, d), Multiple(y, d), x < y
  PROVE  x + d <= y
  <1>1. PICK p \in Nat : x = p * d
    BY DEF Multiple
  <1>2. PICK q \in Nat : y = q * d
    BY DEF Multiple
  <1> QED
    BY <1>1, <1>2

\* Adding or taking away the step leaves a multiple.
LEMMA MultipleAdd ==
  ASSUME NEW x \in Nat, NEW d \in Nat, Multiple(x, d)
  PROVE  /\ Multiple(x + d, d)
         /\ \A j \in Nat : Multiple(x + j * d, d)
         /\ x >= d => Multiple(x - d, d)
  <1>1. PICK q \in Nat : x = q * d
    BY DEF Multiple
  <1>2. \A j \in Nat : x + j * d = (q + j) * d /\ q + j \in Nat
    BY <1>1
  <1>3. x + d = (q + 1) * d
    BY <1>1
  <1>4. ASSUME x >= d PROVE Multiple(x - d, d)
    <2>1. CASE q >= 1
      <3>1. x - d = (q - 1) * d /\ q - 1 \in Nat
        BY <1>1, <2>1
      <3> QED
        BY <3>1 DEF Multiple
    <2>2. CASE q = 0
      <3>1. x - d = 0 * d
        BY <1>1, <1>4, <2>2
      <3> QED
        BY <3>1 DEF Multiple
    <2> QED
      BY <2>1, <2>2
  <1> QED
    BY <1>2, <1>3, <1>4 DEF Multiple

\* The multiple of d at or before x.
LEMMA Floor ==
  ASSUME NEW x \in Nat, NEW d \in Nat \ {0}
  PROVE  \E b \in Nat : Multiple(b, d) /\ b <= x /\ x < b + d
  <1> DEFINE q == x \div d
             r == x % d
  <1>1. x = d * q + r /\ q \in Int /\ r \in 0..d - 1
    OBVIOUS
  <1> HIDE DEF q, r
  <1>2. q >= 0
    <2>1. SUFFICES ASSUME q <= -1 PROVE FALSE
      BY <1>1
    <2>2. d * q <= -d
      BY <1>1, <2>1
    <2> QED
      BY <1>1, <2>2
  <1>3. q * d \in Nat /\ q * d <= x /\ x < q * d + d
    BY <1>1, <1>2
  <1>4. Multiple(q * d, d)
    BY <1>1, <1>2 DEF Multiple
  <1> QED
    BY <1>3, <1>4

\* A taller block consists of whole lower ones.
LEMMA TallerBlocks ==
  ASSUME NEW h \in Nat, NEW g \in Nat, h <= g
  PROVE  Multiple(BlockSize(g), BlockSize(h)) /\ BlockSize(h) <= BlockSize(g)
  <1> DEFINE S == {j \in Nat : Multiple(BlockSize(h + j), BlockSize(h))}
  <1>1. 0 \in S
    <2>1. BlockSize(h) = 1 * BlockSize(h)
      BY BlockSizes
    <2> QED
      BY <2>1 DEF Multiple
  <1>2. ASSUME NEW j \in Nat, j \in S PROVE j + 1 \in S
    <2>1. PICK q \in Nat : BlockSize(h + j) = q * BlockSize(h)
      BY <1>2 DEF Multiple
    <2>2. h + (j + 1) = (h + j) + 1 /\ h + j \in Nat
      OBVIOUS
    <2>3. BlockSize(h + (j + 1)) = Arity * (q * BlockSize(h))
      BY <2>1, <2>2, BlockSizes
    <2>4. Arity * (q * BlockSize(h)) = (Arity * q) * BlockSize(h) /\ Arity * q \in Nat
      BY BlockSizes, ArityAssumption
    <2>5. Multiple(BlockSize(h + (j + 1)), BlockSize(h))
      BY <2>3, <2>4 DEF Multiple
    <2> QED
      BY <2>5
  <1> HIDE DEF S
  <1>3. \A j \in Nat : j \in S
    BY <1>1, <1>2, SetInduction
  <1>4. g - h \in Nat /\ h + (g - h) = g
    OBVIOUS
  <1>5. Multiple(BlockSize(g), BlockSize(h))
    BY <1>3, <1>4 DEF S
  <1>6. PICK q \in Nat : BlockSize(g) = q * BlockSize(h)
    BY <1>5 DEF Multiple
  <1>7. q # 0
    BY <1>6, BlockSizes
  <1>8. q * BlockSize(h) >= BlockSize(h)
    BY <1>7, BlockSizes
  <1> QED
    BY <1>5, <1>6, <1>8

\* A block has more leaves than its height.
LEMMA HeightBelowSize ==
  ASSUME NEW h \in Nat
  PROVE  h < BlockSize(h)
  <1> DEFINE S == {j \in Nat : j < BlockSize(j)}
  <1>1. 0 \in S
    BY BlockSizes
  <1>2. ASSUME NEW j \in Nat, j \in S PROVE j + 1 \in S
    <2> DEFINE b == BlockSize(j)
    <2>1. b \in Nat \ {0} /\ BlockSize(j + 1) = Arity * b /\ j < b
      BY <1>2, BlockSizes
    <2> HIDE DEF b
    <2>2. Arity * b >= b + b
      BY <2>1, ArityAssumption
    <2>3. BlockSize(j + 1) > j + 1
      BY <2>1, <2>2, ArityAssumption
    <2> QED
      BY <2>3
  <1> HIDE DEF S
  <1>3. \A j \in Nat : j \in S
    BY <1>1, <1>2, SetInduction
  <1> QED
    BY <1>3 DEF S

-----------------------------------------------------------------------------
(* Heights chosen in the code *)

\* The tallest block that fits in n leaves.
LEMMA PeakHeightFits ==
  ASSUME NEW n \in Nat \ {0}
  PROVE  /\ PeakHeight(n) \in Nat
         /\ BlockSize(PeakHeight(n)) <= n /\ n < BlockSize(PeakHeight(n) + 1)
  <1> DEFINE T == {h \in Nat : n < BlockSize(h + 1)}
  <1>1. n \in T
    <2>1. n + 1 < BlockSize(n + 1)
      BY HeightBelowSize
    <2> QED
      BY <2>1, BlockSizes
  <1>2. PICK h \in T : \A g \in T : h <= g
    BY <1>1, LeastExists
  <1>3. BlockSize(h) <= n
    <2>1. CASE h = 0
      BY <2>1, BlockSizes
    <2>2. CASE h # 0
      <3>1. h - 1 \in Nat /\ h - 1 \notin T /\ (h - 1) + 1 = h
        BY <1>2, <2>2
      <3> QED
        BY <3>1, BlockSizes
    <2> QED
      BY <2>1, <2>2
  <1>4. h \in 0..n
    BY <1>1, <1>2
  <1>5. \E g \in 0..n : BlockSize(g) <= n /\ n < BlockSize(g + 1)
    BY <1>2, <1>3, <1>4
  <1> QED
    BY <1>5 DEF PeakHeight

\* The arity divides n + 1 as often as an append at n merges, and no oftener.
LEMMA Reductions ==
  ASSUME NEW n \in Nat
  PROVE  /\ ReductionCount(n) \in Nat
         /\ Multiple(n + 1, BlockSize(ReductionCount(n)))
         /\ \A h \in Nat : Multiple(n + 1, BlockSize(h)) => h <= ReductionCount(n)
  <1> DEFINE T == {h \in Nat : ~Multiple(n + 1, BlockSize(h + 1))}
  <1>1. \A h \in Nat : h > n => ~Multiple(n + 1, BlockSize(h))
    <2> SUFFICES ASSUME NEW h \in Nat, h > n, NEW q \in Nat, n + 1 = q * BlockSize(h)
                 PROVE  FALSE
      BY DEF Multiple
    <2>1. q # 0
      BY BlockSizes
    <2>2. q * BlockSize(h) >= BlockSize(h)
      BY <2>1, BlockSizes
    <2>3. BlockSize(h) > h /\ BlockSize(h) \in Nat
      BY HeightBelowSize, BlockSizes
    <2> QED
      BY <2>2, <2>3
  <1>2. n \in T
    BY <1>1
  <1>3. PICK c \in T : \A g \in T : c <= g
    BY <1>2, LeastExists
  <1>4. Multiple(n + 1, BlockSize(c))
    <2>1. CASE c = 0
      <3>1. n + 1 = (n + 1) * BlockSize(c)
        BY <2>1, BlockSizes
      <3> QED
        BY <3>1 DEF Multiple
    <2>2. CASE c # 0
      <3>1. c - 1 \in Nat /\ c - 1 \notin T /\ (c - 1) + 1 = c
        BY <1>3, <2>2
      <3> QED
        BY <3>1
    <2> QED
      BY <2>1, <2>2
  <1>5. \A h \in Nat : (n + 1) % BlockSize(h) = 0 <=> Multiple(n + 1, BlockSize(h))
    <2> TAKE h \in Nat
    <2>1. BlockSize(h) \in Nat \ {0} /\ n + 1 \in Nat
      BY BlockSizes
    <2> QED
      BY <2>1, ModIsMultiple
  <1>6. c \in 0..n + 1
    BY <1>2, <1>3
  <1>7. \E g \in 0..n + 1 : (n + 1) % BlockSize(g) = 0 /\ (n + 1) % BlockSize(g + 1) # 0
    BY <1>3, <1>4, <1>5, <1>6
  <1> DEFINE r == ReductionCount(n)
  <1>8. r \in 0..n + 1 /\ (n + 1) % BlockSize(r) = 0 /\ (n + 1) % BlockSize(r + 1) # 0
    BY <1>7 DEF ReductionCount
  <1> HIDE DEF r
  <1>9. Multiple(n + 1, BlockSize(r)) /\ ~Multiple(n + 1, BlockSize(r + 1))
    BY <1>5, <1>8
  <1>10. ASSUME NEW h \in Nat, Multiple(n + 1, BlockSize(h)), ~(h <= r) PROVE FALSE
    <2>1. Multiple(BlockSize(h), BlockSize(r + 1))
      BY <1>8, <1>10, TallerBlocks
    <2>2. Multiple(n + 1, BlockSize(r + 1))
      BY <1>8, <1>10, <2>1, MultipleTransitive, BlockSizes
    <2> QED
      BY <1>9, <2>2
  <1> QED
    BY <1>8, <1>9, <1>10 DEF r

-----------------------------------------------------------------------------
(* Peaks *)

\* The block of height h at l is a perfect subtree of n leaves, and the one it
\* is a child of is not.
Peak(l, h, n) ==
  /\ Multiple(l, BlockSize(h)) /\ l + BlockSize(h) <= n
  /\ \A b \in Nat : Multiple(b, BlockSize(h + 1)) /\ b <= l /\ l < b + BlockSize(h + 1)
                      => n < b + BlockSize(h + 1)

Coordinates == Nat \X Nat

End(c) == c[1] + BlockSize(c[2])

\* The peaks of n leaves from the position `from` on, in order.
Covers(s, from, n) ==
  /\ s \in Seq(Coordinates)
  /\ \A i \in 1..Len(s) : Peak(s[i][1], s[i][2], n)
  /\ \A i \in 1..Len(s) - 1 : s[i + 1][1] = End(s[i])
  /\ IF s = <<>> THEN from = n ELSE s[1][1] = from /\ End(s[Len(s)]) = n

\* A coordinate is a pair, and what it spans ends at a later position.
LEMMA CoordinateIsPair ==
  ASSUME NEW c \in Coordinates
  PROVE  /\ c = <<c[1], c[2]>> /\ c[1] \in Nat /\ c[2] \in Nat
         /\ BlockSize(c[2]) \in Nat \ {0} /\ End(c) \in Nat /\ c[1] < End(c)
  <1>1. c = <<c[1], c[2]>> /\ c[1] \in Nat /\ c[2] \in Nat
    BY DEF Coordinates
  <1>2. BlockSize(c[2]) \in Nat \ {0}
    BY <1>1, BlockSizes
  <1> QED
    BY <1>1, <1>2 DEF End

\* At one position there is one peak.
LEMMA PeakUnique ==
  ASSUME NEW l \in Nat, NEW n \in Nat, NEW h \in Nat, NEW g \in Nat,
         Peak(l, h, n), Peak(l, g, n)
  PROVE  h = g
  <1>1. ASSUME NEW x \in Nat, NEW y \in Nat, Peak(l, x, n), Peak(l, y, n), x < y
        PROVE  FALSE
    <2>1. Multiple(BlockSize(y), BlockSize(x + 1)) /\ BlockSize(x + 1) <= BlockSize(y)
      BY <1>1, TallerBlocks
    <2>2. Multiple(l, BlockSize(x + 1))
      BY <1>1, <2>1, MultipleTransitive, BlockSizes DEF Peak
    <2>3. BlockSize(x + 1) \in Nat \ {0} /\ BlockSize(y) \in Nat
      BY <1>1, BlockSizes
    <2>4. n < l + BlockSize(x + 1)
      BY <1>1, <2>2, <2>3 DEF Peak
    <2>5. l + BlockSize(y) <= n
      BY <1>1 DEF Peak
    <2> QED
      BY <2>1, <2>3, <2>4, <2>5
  <1> QED
    BY <1>1

\* A sequence that covers n leaves with peaks is the only one.
LEMMA CoverUnique ==
  ASSUME NEW n \in Nat, NEW from \in Nat, NEW s, NEW t, Covers(s, from, n), Covers(t, from, n)
  PROVE  s = t
  <1>1. ASSUME NEW x, NEW y, Covers(x, from, n), Covers(y, from, n)
        PROVE  \A i \in 1..Len(x) : i <= Len(y) /\ x[i] = y[i]
    <2> DEFINE S == {j \in Nat : j + 1 <= Len(x) => j + 1 <= Len(y) /\ x[j + 1] = y[j + 1]}
    <2>0. /\ x \in Seq(Coordinates) /\ y \in Seq(Coordinates)
          /\ Len(x) \in Nat /\ Len(y) \in Nat
          /\ \A i \in 1..Len(x) : x[i] \in Coordinates
          /\ \A i \in 1..Len(y) : y[i] \in Coordinates
      BY <1>1 DEF Covers
    <2>1. ASSUME NEW i \in 1..Len(x), i <= Len(y), x[i][1] = y[i][1]
          PROVE  x[i] = y[i]
      <3>0. x[i] \in Coordinates /\ y[i] \in Coordinates
        <4>1. i \in 1..Len(y)
          BY <2>0, <2>1
        <4> QED
          BY <2>0, <4>1
      <3>1. x[i] = <<x[i][1], x[i][2]>> /\ y[i] = <<y[i][1], y[i][2]>>
        BY <3>0, CoordinateIsPair
      <3>2. x[i][1] \in Nat /\ x[i][2] \in Nat /\ y[i][2] \in Nat
        BY <3>0, CoordinateIsPair
      <3>3. Peak(x[i][1], x[i][2], n) /\ Peak(x[i][1], y[i][2], n)
        BY <1>1, <2>0, <2>1 DEF Covers
      <3>4. x[i][2] = y[i][2]
        BY <3>2, <3>3, PeakUnique
      <3> QED
        BY <2>1, <3>1, <3>4
    <2>2. 0 \in S
      <3> SUFFICES ASSUME 1 <= Len(x) PROVE 1 <= Len(y) /\ x[1] = y[1]
        OBVIOUS
      <3>1. x # <<>> /\ 1 \in 1..Len(x)
        BY <2>0
      <3>2. x[1][1] = from /\ Peak(x[1][1], x[1][2], n) /\ x[1] \in Coordinates
        BY <1>1, <2>0, <3>1 DEF Covers
      <3>3. from < n
        BY <3>2, CoordinateIsPair DEF Peak
      <3>4. y # <<>> /\ y[1][1] = from
        BY <1>1, <3>3 DEF Covers
      <3> QED
        BY <2>0, <2>1, <3>1, <3>2, <3>4
    <2>3. ASSUME NEW j \in Nat, j \in S PROVE j + 1 \in S
      <3> SUFFICES ASSUME j + 2 <= Len(x) PROVE j + 2 <= Len(y) /\ x[j + 2] = y[j + 2]
        OBVIOUS
      <3>1. j + 1 <= Len(y) /\ x[j + 1] = y[j + 1]
        BY <2>0, <2>3
      <3>2. x[j + 2][1] = End(x[j + 1])
        <4>1. j + 1 \in 1..Len(x) - 1 /\ (j + 1) + 1 = j + 2
          BY <2>0
        <4> QED
          BY <1>1, <4>1 DEF Covers
      <3>3. Peak(x[j + 2][1], x[j + 2][2], n) /\ x[j + 2] \in Coordinates
        BY <1>1, <2>0 DEF Covers
      <3>4. x[j + 2][1] < n
        BY <3>3, CoordinateIsPair DEF Peak
      <3>5. j + 1 # Len(y)
        BY <1>1, <2>0, <3>1, <3>2, <3>4 DEF Covers
      <3>6. y[j + 2][1] = End(y[j + 1])
        <4>1. j + 1 \in 1..Len(y) - 1 /\ (j + 1) + 1 = j + 2
          BY <2>0, <3>1, <3>5
        <4> QED
          BY <1>1, <4>1 DEF Covers
      <3>7. j + 2 \in 1..Len(x) /\ j + 2 <= Len(y)
        BY <2>0, <3>1, <3>5
      <3> QED
        BY <2>1, <3>1, <3>2, <3>6, <3>7
    <2> HIDE DEF S
    <2>4. \A j \in Nat : j \in S
      BY <2>2, <2>3, SetInduction
    <2> SUFFICES ASSUME NEW i \in 1..Len(x) PROVE i <= Len(y) /\ x[i] = y[i]
      OBVIOUS
    <2>5. i - 1 \in S /\ (i - 1) + 1 = i
      BY <2>0, <2>4
    <2> QED
      BY <2>0, <2>5 DEF S
  <1>2. \A i \in 1..Len(s) : i <= Len(t) /\ s[i] = t[i]
    BY <1>1
  <1>3. \A i \in 1..Len(t) : i <= Len(s)
    BY <1>1
  <1>4. s \in Seq(Coordinates) /\ t \in Seq(Coordinates)
    BY DEF Covers
  <1>5. Len(s) \in Nat /\ Len(t) \in Nat
    BY <1>4
  <1>6. Len(s) = Len(t)
    <2>1. Len(s) <= Len(t)
      BY <1>2, <1>5
    <2>2. Len(t) <= Len(s)
      BY <1>3, <1>5
    <2> QED
      BY <1>5, <2>1, <2>2
  <1> QED
    BY <1>2, <1>4, <1>6

\* Peaks come one behind the other.
LEMMA PeaksOrdered ==
  ASSUME NEW n, NEW at, Covers(at, 0, n), NEW f \in 1..Len(at)
  PROVE  \A i \in 1..f - 1 : End(at[i]) <= at[f][1]
  <1> DEFINE k == Len(at)
             S == {d \in Nat : d + 1 <= f - 1 => End(at[f - (d + 1)]) <= at[f][1]}
  <1>1. /\ k \in Nat /\ at \in Seq(Coordinates)
        /\ \A i \in 1..k - 1 : at[i + 1][1] = End(at[i])
    BY DEF Covers
  <1>2. \A i \in 1..k : at[i][1] \in Nat /\ End(at[i]) \in Nat /\ at[i][1] < End(at[i])
    BY SMTT(30), <1>1, CoordinateIsPair
  <1>3. f \in 1..k
    OBVIOUS
  <1> HIDE DEF k
  <1>4. 0 \in S
    <2> SUFFICES ASSUME 0 + 1 <= f - 1 PROVE End(at[f - 1]) <= at[f][1]
      OBVIOUS
    <2>1. f - 1 \in 1..k - 1 /\ (f - 1) + 1 = f
      BY <1>1, <1>3
    <2>2. at[f][1] = End(at[f - 1])
      BY <1>1, <2>1
    <2> QED
      BY <1>2, <1>3, <2>2
  <1>5. ASSUME NEW d \in Nat, d \in S PROVE d + 1 \in S
    <2> SUFFICES ASSUME (d + 1) + 1 <= f - 1 PROVE End(at[f - ((d + 1) + 1)]) <= at[f][1]
      OBVIOUS
    <2> DEFINE i == f - ((d + 1) + 1)
    <2>1. i \in 1..k - 1 /\ i + 1 \in 1..k /\ i + 1 = f - (d + 1) /\ d + 1 <= f - 1 /\ i \in 1..k
      BY <1>1, <1>3
    <2> HIDE DEF i
    <2>2. at[i + 1][1] = End(at[i])
      BY <1>1, <2>1
    <2>3. End(at[i + 1]) <= at[f][1]
      BY <1>5, <2>1
    <2>4. End(at[i]) <= at[f][1]
      BY <1>2, <1>3, <2>1, <2>2, <2>3
    <2> QED
      BY <2>4 DEF i
  <1> HIDE DEF S
  <1>6. \A d \in Nat : d \in S
    BY <1>4, <1>5, SetInduction
  <1> SUFFICES ASSUME NEW i \in 1..f - 1 PROVE End(at[i]) <= at[f][1]
    OBVIOUS
  <1>7. f - i - 1 \in Nat /\ (f - i - 1) + 1 <= f - 1 /\ f - ((f - i - 1) + 1) = i
    BY <1>1, <1>3
  <1>8. (f - i - 1) + 1 <= f - 1 => End(at[f - ((f - i - 1) + 1)]) <= at[f][1]
    BY <1>6, <1>7 DEF S
  <1> QED
    BY <1>7, <1>8

\* A peak in front of a cover.
LEMMA CoverCons ==
  ASSUME NEW n \in Nat, NEW c \in Coordinates, Peak(c[1], c[2], n), NEW s, Covers(s, End(c), n)
  PROVE  Covers(<<c>> \o s, c[1], n)
  <1> DEFINE t == <<c>> \o s
  <1>1. s \in Seq(Coordinates) /\ <<c>> \in Seq(Coordinates) /\ Len(<<c>>) = 1 /\ <<c>>[1] = c
    BY DEF Covers
  <1>2. /\ t \in Seq(Coordinates) /\ Len(t) = Len(s) + 1 /\ t[1] = c
        /\ \A i \in 1..Len(s) : t[i + 1] = s[i]
    <2>1. t \in Seq(Coordinates) /\ Len(t) = 1 + Len(s)
      BY <1>1
    <2>2. Len(s) \in Nat
      BY <1>1
    <2>3. t[1] = c
      BY <1>1, <2>2
    <2>4. ASSUME NEW i \in 1..Len(s) PROVE t[i + 1] = s[i]
      <3>1. i + 1 \in 1..Len(t) /\ i + 1 > 1 /\ (i + 1) - 1 = i
        BY <2>1, <2>2
      <3> QED
        BY <1>1, <2>2, <3>1
    <2> QED
      BY <2>1, <2>2, <2>3, <2>4
  <1> HIDE DEF t
  <1>3. Len(s) \in Nat /\ t # <<>>
    BY <1>1, <1>2
  <1>4. ASSUME NEW i \in 1..Len(t) PROVE Peak(t[i][1], t[i][2], n)
    <2>1. CASE i = 1
      BY <1>2, <2>1
    <2>2. CASE i # 1
      <3>1. i - 1 \in 1..Len(s) /\ (i - 1) + 1 = i
        BY <1>2, <1>3, <2>2
      <3>2. t[i] = s[i - 1]
        BY <1>2, <3>1
      <3> QED
        BY <3>1, <3>2 DEF Covers
    <2> QED
      BY <2>1, <2>2
  <1>5. ASSUME NEW i \in 1..Len(t) - 1 PROVE t[i + 1][1] = End(t[i])
    <2>1. i \in 1..Len(s) /\ t[i + 1] = s[i]
      BY <1>2, <1>3
    <2>2. CASE i = 1
      <3>1. s # <<>>
        BY <2>1, <2>2
      <3> QED
        BY <1>2, <2>1, <2>2, <3>1 DEF Covers
    <2>3. CASE i # 1
      <3>1. i - 1 \in 1..Len(s) - 1 /\ i - 1 \in 1..Len(s) /\ (i - 1) + 1 = i
        BY <1>3, <2>1, <2>3
      <3>2. t[i] = s[i - 1] /\ s[(i - 1) + 1][1] = End(s[i - 1])
        BY <1>2, <3>1 DEF Covers
      <3> QED
        BY <2>1, <3>1, <3>2
    <2> QED
      BY <2>2, <2>3
  <1>6. End(t[Len(t)]) = n
    <2>1. CASE s = <<>>
      BY <1>2, <2>1 DEF Covers
    <2>2. CASE s # <<>>
      <3>1. Len(s) \in 1..Len(s)
        BY <1>1, <2>2
      <3> QED
        BY <1>2, <2>2, <3>1 DEF Covers
    <2> QED
      BY <2>1, <2>2
  <1>7. Covers(t, c[1], n)
    BY <1>2, <1>3, <1>4, <1>5, <1>6 DEF Covers
  <1> QED
    BY <1>7 DEF t

\* The tallest block that fits behind a peak is a peak again.
LEMMA NextPeak ==
  ASSUME NEW n \in Nat, NEW rest \in 1..n, Peak(n - rest, PeakHeight(rest), n)
  PROVE  LET less == rest - BlockSize(PeakHeight(rest))
         IN  /\ less \in 0..rest - 1
             /\ less # 0 => Peak(n - less, PeakHeight(less), n)
  <1> DEFINE h == PeakHeight(rest)
             l == n - rest
             less == rest - BlockSize(h)
             g == PeakHeight(less)
             m == n - less
  <1>1. h \in Nat /\ BlockSize(h) <= rest /\ rest < BlockSize(h + 1)
    BY PeakHeightFits
  <1>2. BlockSize(h) \in Nat \ {0} /\ BlockSize(h + 1) \in Nat
    BY <1>1, BlockSizes
  <1>3. l \in Nat /\ l + BlockSize(h) = m /\ less \in 0..rest - 1 /\ m \in Nat /\ Peak(l, h, n)
    BY <1>1, <1>2
  <1> HIDE DEF h, l
  <1>4. ASSUME less # 0 PROVE Peak(m, g, n)
    <2>1. less \in Nat \ {0} /\ n = m + less
      BY <1>2, <1>3, <1>4
    <2> HIDE DEF less, m
    <2>2. g \in Nat /\ BlockSize(g) <= less /\ less < BlockSize(g + 1)
      BY <2>1, PeakHeightFits
    <2> HIDE DEF g
    <2>3. BlockSize(g) \in Nat \ {0} /\ BlockSize(g + 1) \in Nat \ {0}
      BY <2>2, BlockSizes
    <2>4. g <= h
      <3> SUFFICES ASSUME h + 1 <= g PROVE FALSE
        BY <1>1, <2>2
      <3>1. BlockSize(h + 1) <= BlockSize(g)
        BY <1>1, <2>2, TallerBlocks
      <3> QED
        BY <1>1, <1>2, <1>3, <2>2, <2>3, <3>1
    <2>5. Multiple(m, BlockSize(h))
      BY <1>2, <1>3, MultipleAdd DEF Peak
    <2>6. Multiple(m, BlockSize(g))
      BY <1>1, <1>2, <1>3, <2>2, <2>3, <2>4, <2>5, TallerBlocks, MultipleTransitive
    <2>7. ASSUME NEW b \in Nat, Multiple(b, BlockSize(g + 1)), b <= m, m < b + BlockSize(g + 1)
          PROVE  n < b + BlockSize(g + 1)
      <3>1. CASE b = m
        BY <2>1, <2>2, <2>3, <3>1, <1>3
      <3>2. CASE b < m /\ g < h
        <4>1. Multiple(BlockSize(h), BlockSize(g + 1))
          BY <1>1, <2>2, <3>2, TallerBlocks
        <4>2. Multiple(m, BlockSize(g + 1))
          BY <1>2, <1>3, <2>3, <2>5, <4>1, MultipleTransitive
        <4>3. b + BlockSize(g + 1) <= m
          BY <1>3, <2>3, <2>7, <3>2, <4>2, MultiplesApart
        <4> QED
          BY <1>3, <2>3, <2>7, <4>3
      <3>3. CASE b < m /\ g = h
        <4>1. Multiple(b, BlockSize(h))
          <5>1. Multiple(BlockSize(h + 1), BlockSize(h))
            BY <1>1, TallerBlocks
          <5> QED
            BY <1>2, <2>7, <3>3, <5>1, MultipleTransitive
        <4>2. b <= l
          <5> SUFFICES ASSUME l < b PROVE FALSE
            BY <1>3
          <5>1. l + BlockSize(h) <= b
            BY <1>2, <1>3, <4>1, MultiplesApart DEF Peak
          <5> QED
            BY <1>3, <3>3, <5>1
        <4>3. l < b + BlockSize(h + 1)
          BY <1>2, <1>3, <2>7, <3>3
        <4> QED
          BY <1>3, <2>7, <3>3, <4>2, <4>3 DEF Peak
      <3> QED
        BY <1>3, <2>4, <2>2, <1>1, <2>7, <3>1, <3>2, <3>3
    <2>8. m + BlockSize(g) <= n
      BY <1>3, <2>1, <2>2, <2>3
    <2> QED
      BY <2>6, <2>7, <2>8 DEF Peak
  <1> QED
    BY <1>3, <1>4 DEF h

\* FrontierForSize is the sequence of all peaks.
LEMMA FrontierCovers ==
  ASSUME NEW n \in Nat
  PROVE  Covers(FrontierForSize(n), 0, n)
  <1> DEFINE next(f, r) == <<<<n - r, PeakHeight(r)>>>> \o f[r - BlockSize(PeakHeight(r))]
             peaks(f) == [r \in 0..n |-> IF r = 0 THEN <<>> ELSE next(f, r)]
             Starts(f, m) == \A r \in 0..m : f[r] = IF r = 0 THEN <<>> ELSE next(f, r)
  <1>0. ASSUME NEW r \in Nat \ {0} PROVE r - BlockSize(PeakHeight(r)) \in 0..r - 1
    BY PeakHeightFits, BlockSizes
  <1>1. \E f : Starts(f, n)
    <2> DEFINE S == {m \in Nat : \E f : Starts(f, m)}
    <2>1. 0 \in S
      <3>1. Starts([r \in {0} |-> <<>>], 0)
        OBVIOUS
      <3> HIDE DEF Starts
      <3> QED
        BY <3>1
    <2>2. ASSUME NEW m \in Nat, m \in S PROVE m + 1 \in S
      <3>1. PICK f : Starts(f, m)
        BY <2>2
      <3> DEFINE g == [r \in 0..m + 1 |-> IF r <= m THEN f[r] ELSE next(f, m + 1)]
      <3>2. \A r \in 0..m + 1 : g[r] = IF r <= m THEN f[r] ELSE next(f, m + 1)
        OBVIOUS
      <3> HIDE DEF g
      <3>3. ASSUME NEW r \in 0..m + 1, r # 0 PROVE next(g, r) = next(f, r)
        <4> DEFINE d == r - BlockSize(PeakHeight(r))
        <4>1. d \in 0..r - 1
          BY <1>0, <3>3
        <4> HIDE DEF d
        <4>2. d \in 0..m + 1 /\ d <= m
          BY <4>1
        <4>3. g[d] = f[d]
          BY <3>2, <4>2
        <4> QED
          BY <4>3 DEF d
      <3>4. Starts(g, m + 1)
        <4> HIDE DEF next
        <4> SUFFICES ASSUME NEW r \in 0..m + 1
                     PROVE  g[r] = IF r = 0 THEN <<>> ELSE next(g, r)
          OBVIOUS
        <4>1. CASE r <= m
          BY <3>1, <3>2, <3>3, <4>1
        <4>2. CASE r = m + 1
          BY <3>2, <3>3, <4>2
        <4> QED
          BY <4>1, <4>2
      <3>5. m + 1 \in Nat
        OBVIOUS
      <3> HIDE DEF Starts
      <3> QED
        BY <3>4, <3>5
    <2> HIDE DEF S, Starts
    <2>3. \A m \in Nat : m \in S
      BY <2>1, <2>2, SetInduction
    <2> QED
      BY <2>3 DEF S
  <1>2. \E f : f = peaks(f)
    <2>1. PICK f : Starts(f, n)
      BY <1>1
    <2> DEFINE g == [r \in 0..n |-> f[r]]
    <2>2. ASSUME NEW r \in 0..n, r # 0 PROVE next(g, r) = next(f, r)
      <3> DEFINE d == r - BlockSize(PeakHeight(r))
      <3>1. d \in 0..n
        BY <1>0, <2>2
      <3> HIDE DEF d
      <3>2. g[d] = f[d]
        BY <3>1
      <3> HIDE DEF g
      <3> QED
        BY <3>2 DEF d
    <2> HIDE DEF next
    <2>3. g = peaks(g)
      BY <2>1, <2>2
    <2> HIDE DEF g, peaks
    <2> QED
      BY <2>3
  <1> DEFINE f == CHOOSE f : f = peaks(f)
  <1>3. f = peaks(f)
    BY <1>2
  <1>4. FrontierForSize(n) = f[n]
    BY DEF FrontierForSize
  <1> HIDE DEF f
  <1>5. /\ f[0] = <<>>
        /\ \A r \in 1..n : f[r] = next(f, r)
    <2> HIDE DEF next
    <2>1. \A r \in 0..n : f[r] = IF r = 0 THEN <<>> ELSE next(f, r)
      BY <1>3
    <2> QED
      BY <2>1
  <1> DEFINE S == {m \in Nat : \A r \in 0..m :
                     r <= n /\ (r # 0 => Peak(n - r, PeakHeight(r), n)) => Covers(f[r], n - r, n)}
  <1>6. 0 \in S
    <2>1. Covers(<<>>, n, n)
      BY DEF Covers
    <2> QED
      BY <1>5, <2>1
  <1>7. ASSUME NEW m \in Nat, m \in S PROVE m + 1 \in S
    <2> SUFFICES ASSUME m + 1 <= n, Peak(n - (m + 1), PeakHeight(m + 1), n)
                 PROVE  Covers(f[m + 1], n - (m + 1), n)
      <3>1. \A r \in 0..m + 1 : r \in 0..m \/ r = m + 1
        OBVIOUS
      <3> QED
        BY <1>7, <3>1
    <2> DEFINE r == m + 1
               c == <<n - r, PeakHeight(r)>>
               d == r - BlockSize(PeakHeight(r))
    <2>1. r \in 1..n
      OBVIOUS
    <2>2. d \in 0..r - 1 /\ (d # 0 => Peak(n - d, PeakHeight(d), n))
      BY <2>1, NextPeak
    <2>3. Covers(f[d], n - d, n)
      BY <1>7, <2>1, <2>2
    <2>4. c \in Coordinates /\ c[1] = n - r /\ c[2] = PeakHeight(r)
      BY <2>1, PeakHeightFits DEF Coordinates
    <2>5. End(c) = n - d
      BY SMTT(30), <2>1, <2>4, PeakHeightFits, BlockSizes DEF End
    <2>6. f[r] = <<c>> \o f[d]
      BY <1>5, <2>1
    <2> HIDE DEF c, d
    <2>7. Covers(<<c>> \o f[d], c[1], n)
      BY <2>3, <2>4, <2>5, CoverCons
    <2> QED
      BY <2>4, <2>6, <2>7
  <1> HIDE DEF S
  <1>8. n \in S
    BY <1>6, <1>7, SetInduction
  <1>9. n # 0 => Peak(n - n, PeakHeight(n), n)
    <2> SUFFICES ASSUME n # 0 PROVE Peak(0, PeakHeight(n), n)
      OBVIOUS
    <2>1. /\ PeakHeight(n) \in Nat /\ BlockSize(PeakHeight(n)) <= n
          /\ n < BlockSize(PeakHeight(n) + 1)
          /\ BlockSize(PeakHeight(n)) \in Nat /\ BlockSize(PeakHeight(n) + 1) \in Nat
      BY PeakHeightFits, BlockSizes
    <2>2. Multiple(0, BlockSize(PeakHeight(n)))
      <3>1. 0 = 0 * BlockSize(PeakHeight(n))
        BY <2>1
      <3> QED
        BY <3>1 DEF Multiple
    <2> QED
      BY <2>1, <2>2 DEF Peak
  <1>10. Covers(f[n], n - n, n)
    BY <1>8, <1>9 DEF S
  <1> QED
    BY <1>4, <1>10

-----------------------------------------------------------------------------
(* Sequences as functions *)

\* A function on 1..n is a sequence.
LEMMA FcnIsSeq ==
  ASSUME NEW n \in Nat, NEW s, s = [i \in 1..n |-> s[i]]
  PROVE  Len(s) = n /\ s \in Seq({s[i] : i \in 1..n}) /\ DOMAIN s = 1..n
  <1> DEFINE S == {s[i] : i \in 1..n}
  <1>1. s \in [1..n -> S]
    OBVIOUS
  <1>2. s \in Seq(S)
    BY <1>1
  <1>3. DOMAIN s = 1..n
    BY <1>1
  <1> HIDE DEF S
  <1>4. Len(s) = n
    BY <1>2, <1>3
  <1> QED
    BY <1>2, <1>3, <1>4 DEF S

\* A sequence with one element more, as a function.
LEMMA AppendIs ==
  ASSUME NEW n \in Nat, NEW s, s = [i \in 1..n |-> s[i]], NEW e
  PROVE  Append(s, e) = [i \in 1..n + 1 |-> IF i <= n THEN s[i] ELSE e]
  <1> DEFINE S == {s[i] : i \in 1..n} \cup {e}
  <1>1. s \in [1..n -> S]
    OBVIOUS
  <1>2. s \in Seq(S) /\ e \in S
    BY <1>1
  <1>3. DOMAIN s = 1..n
    BY <1>1
  <1> HIDE DEF S
  <1>4. Len(s) = n
    BY <1>2, <1>3
  <1>5. Append(s, e) \in Seq(S) /\ Len(Append(s, e)) = n + 1
    BY <1>2, <1>4
  <1>6. \A i \in 1..n + 1 : Append(s, e)[i] = IF i <= n THEN s[i] ELSE e
    BY <1>2, <1>4
  <1>7. Append(s, e) = [i \in 1..n + 1 |-> Append(s, e)[i]]
    BY <1>5
  <1> QED
    BY <1>6, <1>7

\* A part of a sequence, as a function.
LEMMA SubSeqIs ==
  ASSUME NEW n \in Nat, NEW s, s = [i \in 1..n |-> s[i]], NEW x \in 1..n + 1, NEW y \in x - 1..n
  PROVE  SubSeq(s, x, y) = [i \in 1..y - x + 1 |-> s[x + i - 1]]
  <1> DEFINE S == {s[i] : i \in 1..n}
  <1>1. Len(s) = n /\ s \in Seq(S)
    BY FcnIsSeq
  <1> HIDE DEF S
  <1> QED
    BY <1>1

-----------------------------------------------------------------------------
(* Blocks under peaks *)

\* Every position is under a peak.
LEMMA PositionUnderPeak ==
  ASSUME NEW n \in Nat, NEW s, Covers(s, 0, n), NEW x \in Nat, x < n
  PROVE  \E i \in 1..Len(s) : s[i][1] <= x /\ x < End(s[i])
  <1> DEFINE T == {i \in 1..Len(s) : x < End(s[i])}
  <1>1. s \in Seq(Coordinates) /\ s # <<>>
    BY DEF Covers
  <1>2. Len(s) \in T /\ T \in SUBSET Nat
    <2>1. Len(s) \in 1..Len(s)
      BY <1>1
    <2> QED
      BY <1>1, <2>1 DEF Covers
  <1>3. PICK i \in T : \A j \in T : i <= j
    BY <1>2, LeastExists
  <1>4. CASE i = 1
    BY <1>1, <1>3, <1>4 DEF Covers
  <1>5. CASE i # 1
    <2>1. i - 1 \in 1..Len(s) - 1 /\ i - 1 \in 1..Len(s) /\ i - 1 \notin T /\ (i - 1) + 1 = i
      BY <1>1, <1>3, <1>5
    <2>2. s[i][1] = End(s[i - 1])
      BY <2>1 DEF Covers
    <2>3. End(s[i - 1]) \in Nat
      <3>1. s[i - 1] \in Coordinates
        BY <1>1, <2>1
      <3> QED
        BY <3>1, CoordinateIsPair
    <2> QED
      BY <1>3, <2>1, <2>2, <2>3
  <1> QED
    BY <1>4, <1>5

\* So is every perfect subtree.
LEMMA UnderPeak ==
  ASSUME NEW n \in Nat, NEW s, Covers(s, 0, n), NEW l \in Nat, NEW h \in Nat,
         Multiple(l, BlockSize(h)), l + BlockSize(h) <= n
  PROVE  \E i \in 1..Len(s) : s[i][1] <= l /\ l + BlockSize(h) <= End(s[i]) /\ h <= s[i][2]
  <1>1. BlockSize(h) \in Nat \ {0}
    BY BlockSizes
  <1>2. PICK i \in 1..Len(s) : s[i][1] <= l /\ l < End(s[i])
    BY <1>1, PositionUnderPeak
  <1> DEFINE x == s[i][1]
             g == s[i][2]
  <1>3. s \in Seq(Coordinates) /\ s[i] \in Coordinates /\ Peak(x, g, n)
    BY <1>2 DEF Covers
  <1>4. x \in Nat /\ g \in Nat /\ End(s[i]) = x + BlockSize(g)
        /\ BlockSize(g) \in Nat \ {0} /\ BlockSize(g + 1) \in Nat \ {0}
    <2>1. x \in Nat /\ g \in Nat
      BY <1>3, CoordinateIsPair
    <2>2. g + 1 \in Nat
      BY <2>1
    <2> QED
      BY <2>1, <2>2, BlockSizes DEF End
  <1>5. x <= l /\ l < x + BlockSize(g)
    BY <1>2, <1>4
  <1> HIDE DEF x, g
  <1>6. h <= g
    <2> SUFFICES ASSUME g + 1 <= h PROVE FALSE
      BY <1>4
    <2>1. Multiple(l, BlockSize(g + 1)) /\ BlockSize(g + 1) <= BlockSize(h)
      BY <1>1, <1>4, TallerBlocks, MultipleTransitive
    <2>2. Multiple(l, BlockSize(g))
      <3>1. Multiple(BlockSize(g + 1), BlockSize(g))
        BY <1>4, TallerBlocks
      <3> QED
        BY <1>4, <2>1, <3>1, MultipleTransitive
    <2>3. x = l
      <3> SUFFICES ASSUME x < l PROVE FALSE
        BY <1>4, <1>5
      <3>1. x + BlockSize(g) <= l
        BY <1>3, <1>4, <2>2, MultiplesApart DEF Peak
      <3> QED
        BY <1>4, <1>5, <3>1
    <2>4. n < l + BlockSize(g + 1)
      BY <1>3, <1>4, <2>1, <2>3 DEF Peak
    <2> QED
      BY <1>1, <1>4, <2>1, <2>4
  <1>7. l + BlockSize(h) <= x + BlockSize(g)
    <2>1. Multiple(x + BlockSize(g), BlockSize(h))
      <3>1. Multiple(x + BlockSize(g), BlockSize(g))
        BY <1>3, <1>4, MultipleAdd DEF Peak
      <3> QED
        BY <1>1, <1>4, <1>6, <3>1, TallerBlocks, MultipleTransitive
    <2> QED
      BY <1>1, <1>4, <1>5, <2>1, MultiplesApart
  <1> QED
    BY <1>4, <1>5, <1>6, <1>7 DEF x, g

-----------------------------------------------------------------------------
(* What an append makes of the peaks *)

\* The first p peaks end at e.
EndsAt(s, p, e) == IF p = 0 THEN e = 0 ELSE End(s[p]) = e

\* j < k blocks of d before a multiple of k * d there is none.
LEMMA BetweenMultiples ==
  ASSUME NEW d \in Nat \ {0}, NEW k \in Nat \ {0}, NEW x \in Nat, NEW j \in 1..k - 1,
         Multiple(x, k * d), NEW y \in Nat, y + j * d = x
  PROVE  ~Multiple(y, k * d)
  <1> SUFFICES ASSUME NEW q \in Nat, x = q * (k * d), NEW r \in Nat, y = r * (k * d)
               PROVE  FALSE
    BY DEF Multiple
  <1>1. j * d = (q - r) * (k * d)
    OBVIOUS
  <1>2. (q - r) * (k * d) = ((q - r) * k) * d
    OBVIOUS
  <1>3. j = (q - r) * k
    <2> DEFINE z == (q - r) * k
    <2>1. z \in Int /\ j * d = z * d
      BY <1>1, <1>2
    <2> HIDE DEF z
    <2>2. j = z
      BY <2>1
    <2> QED
      BY <2>2 DEF z
  <1>4. CASE q - r >= 1
    <2>1. (q - r) * k >= k
      BY <1>4
    <2> QED
      BY <1>3, <2>1
  <1>5. CASE q - r <= 0
    <2>1. (q - r) * k <= 0
      BY <1>5
    <2> QED
      BY <1>3, <2>1
  <1> QED
    BY <1>4, <1>5

\* When the new block of height m and those before it fill one of height m + 1,
\* those before it are peaks.
LEMMA Siblings ==
  ASSUME NEW n \in Nat, NEW s, Covers(s, 0, n), NEW m \in Nat, Multiple(n + 1, BlockSize(m + 1)),
         NEW p \in 0..Len(s), EndsAt(s, p, n + 1 - BlockSize(m))
  PROVE  /\ \A j \in 1..Arity - 1 :
              j <= p /\ s[p + 1 - j] = <<n + 1 - (j + 1) * BlockSize(m), m>>
         /\ Arity - 1 <= p /\ EndsAt(s, p - (Arity - 1), n + 1 - BlockSize(m + 1))
         /\ n + 1 - BlockSize(m + 1) \in Nat
  <1> DEFINE d == BlockSize(m)
             At(j) == n + 1 - (j + 1) * d
             S == {j \in Nat : j <= Arity - 1 =>
                     /\ j <= p /\ EndsAt(s, p - j, At(j))
                     /\ j # 0 => s[p + 1 - j] = <<At(j), m>>}
  <1>1. /\ d \in Nat \ {0} /\ BlockSize(m + 1) = Arity * d /\ m + 1 \in Nat
        /\ Arity * d \in Nat \ {0}
    BY BlockSizes
  <1> HIDE DEF d
  <1>2. s \in Seq(Coordinates) /\ Len(s) \in Nat
    BY DEF Covers
  <1>3. ASSUME NEW j \in Nat, j <= Arity - 1 PROVE At(j) \in Nat /\ At(j) <= n
    <2>1. Arity * d <= n + 1
      <3>1. PICK q \in Nat : n + 1 = q * (Arity * d)
        BY <1>1 DEF Multiple
      <3>2. q # 0
        BY <1>1, <3>1
      <3>3. q * (Arity * d) >= Arity * d
        BY <1>1, <3>2
      <3> QED
        BY <3>1, <3>3
    <2>2. (j + 1) * d <= Arity * d
      BY <1>1, <1>3, ArityAssumption
    <2>3. (j + 1) * d >= 1 /\ (j + 1) * d \in Nat
      BY <1>1
    <2> QED
      BY <1>1, <2>1, <2>2, <2>3
  <1>4. ASSUME NEW j \in Nat, j < Arity - 1 PROVE At(j) # 0 /\ At(j + 1) = At(j) - d
    <2>1. At(j + 1) = At(j) - d
      BY <1>1
    <2>2. At(j + 1) \in Nat
      <3>1. j + 1 \in Nat /\ j + 1 <= Arity - 1
        BY <1>4, ArityAssumption
      <3> HIDE DEF At
      <3> QED
        BY <1>3, <3>1
    <2> HIDE DEF At
    <2> QED
      BY <1>1, <2>1, <2>2
  <1>5. 0 \in S
    BY <1>1 DEF d
  <1>6. ASSUME NEW j \in Nat, j \in S PROVE j + 1 \in S
    <2> SUFFICES ASSUME j + 1 <= Arity - 1
                 PROVE  /\ j + 1 <= p /\ EndsAt(s, p - (j + 1), At(j + 1))
                        /\ s[p - j] = <<At(j + 1), m>>
      <3>1. p + 1 - (j + 1) = p - j
        OBVIOUS
      <3> HIDE DEF At
      <3> QED
        BY SMTT(30), <3>1
    <2> DEFINE e == At(j)
               x == s[p - j]
    <2>1. j <= p /\ EndsAt(s, p - j, e) /\ e \in Nat \ {0} /\ e <= n /\ At(j + 1) = e - d
      <3>1. j \in Nat /\ j <= Arity - 1 /\ j < Arity - 1
        BY ArityAssumption
      <3>2. j <= p /\ EndsAt(s, p - j, At(j))
        BY <1>6, <3>1
      <3> HIDE DEF At
      <3> QED
        BY <1>3, <1>4, <3>1, <3>2
    <2>2. ~Multiple(e, BlockSize(m + 1)) /\ Multiple(e, d)
      <3>1. (j + 1) * d \in Nat /\ (j + 1) * d <= n + 1 /\ j + 1 \in 1..Arity - 1
        BY <1>1, <2>1
      <3>2. ~Multiple(e, Arity * d)
        <4> DEFINE i == j + 1
                   k == Arity
                   x0 == n + 1
        <4>1. /\ i \in 1..k - 1 /\ k \in Nat \ {0} /\ x0 \in Nat /\ Multiple(x0, k * d)
              /\ e + i * d = x0 /\ e \in Nat
          BY <1>1, <2>1, <3>1, ArityAssumption
        <4> HIDE DEF i, x0, k, e
        <4>2. ~Multiple(e, k * d)
          BY <1>1, <4>1, BetweenMultiples
        <4> QED
          BY <4>2 DEF k
      <3>3. PICK q \in Nat : n + 1 = q * (Arity * d)
        BY <1>1 DEF Multiple
      <3>4. e = (q * Arity - (j + 1)) * d
        BY <1>1, <3>3, ArityAssumption
      <3>5. q * Arity - (j + 1) \in Nat
        <4> DEFINE y == q * Arity - (j + 1)
        <4>1. y \in Int /\ e = y * d /\ e \in Nat
          BY <2>1, <3>4, ArityAssumption
        <4> HIDE DEF y, e
        <4>2. y >= 0
          <5> SUFFICES ASSUME y <= -1 PROVE FALSE
            BY <4>1
          <5>1. y * d <= -d
            BY <1>1, <4>1
          <5> QED
            BY <1>1, <4>1, <5>1
        <4> QED
          BY <4>1, <4>2 DEF y
      <3> QED
        BY <1>1, <3>2, <3>4, <3>5 DEF Multiple
    <2> HIDE DEF e
    <2>3. p - j \in 1..Len(s) /\ x \in Coordinates /\ End(x) = e
      BY <1>2, <2>1 DEF EndsAt
    <2>4. /\ x = <<x[1], x[2]>> /\ x[1] \in Nat /\ x[2] \in Nat /\ x[1] + BlockSize(x[2]) = e
          /\ BlockSize(x[2]) \in Nat \ {0} /\ Peak(x[1], x[2], n)
      BY <2>3, CoordinateIsPair DEF Covers, End
    <2> DEFINE l == x[1]
               g == x[2]
    <2> HIDE DEF x
    <2>5. l \in Nat /\ g \in Nat /\ l + BlockSize(g) = e /\ BlockSize(g) \in Nat \ {0}
          /\ Peak(l, g, n) /\ BlockSize(g + 1) \in Nat \ {0} /\ g + 1 \in Nat
      <3>1. g + 1 \in Nat
        BY <2>4
      <3> QED
        BY <2>4, <3>1, BlockSizes
    <2> HIDE DEF l, g
    <2>6. Multiple(e, BlockSize(g))
      BY <2>5, MultipleAdd DEF Peak
    <2>7. g <= m
      <3> SUFFICES ASSUME m + 1 <= g PROVE FALSE
        BY <2>5
      <3>1. Multiple(BlockSize(g), BlockSize(m + 1))
        BY <1>1, <2>5, TallerBlocks
      <3> QED
        BY <1>1, <2>1, <2>2, <2>5, <2>6, <3>1, MultipleTransitive
    <2>8. ~(g < m)
      <3> SUFFICES ASSUME g + 1 <= m PROVE FALSE
        BY <2>5
      <3>1. Multiple(e, BlockSize(g + 1))
        <4>1. Multiple(d, BlockSize(g + 1))
          BY <2>5, TallerBlocks DEF d
        <4> QED
          BY <1>1, <2>1, <2>2, <2>5, <4>1, MultipleTransitive
      <3>2. BlockSize(g + 1) <= e
        <4>1. PICK q \in Nat : e = q * BlockSize(g + 1)
          BY <3>1 DEF Multiple
        <4>2. q # 0
          BY <2>1, <2>5, <4>1
        <4>3. q * BlockSize(g + 1) >= BlockSize(g + 1)
          BY SMTT(30), <2>5, <4>2
        <4> QED
          BY <4>1, <4>3
      <3>3. Multiple(e - BlockSize(g + 1), BlockSize(g + 1)) /\ e - BlockSize(g + 1) \in Nat
        BY SMTT(30), <2>1, <2>5, <3>1, <3>2, MultipleAdd
      <3>4. BlockSize(g) <= BlockSize(g + 1)
        BY <2>5, TallerBlocks
      <3>5. n < (e - BlockSize(g + 1)) + BlockSize(g + 1)
        <4>1. e - BlockSize(g + 1) <= l /\ l < (e - BlockSize(g + 1)) + BlockSize(g + 1)
          <5> DEFINE big == BlockSize(g + 1)
                     small == BlockSize(g)
          <5>1. e \in Nat /\ big \in Nat /\ small \in Nat \ {0} /\ l \in Nat
                /\ l + small = e /\ small <= big
            BY <2>1, <2>5, <3>4
          <5> HIDE DEF big, small
          <5>2. e - big <= l /\ l < (e - big) + big
            BY <5>1
          <5> QED
            BY <5>2 DEF big
        <4> QED
          BY <2>5, <3>3, <4>1 DEF Peak
      <3> QED
        BY SMTT(30), <2>1, <2>5, <3>5
    <2>9. g = m /\ l = e - d
      <3>1. g = m
        BY <2>5, <2>7, <2>8
      <3> QED
        BY <1>1, <2>1, <2>5, <3>1 DEF d
    <2>10. s[p - j] = <<At(j + 1), m>>
      BY <2>1, <2>4, <2>9 DEF x, l, g
    <2>11. EndsAt(s, p - (j + 1), At(j + 1))
      <3>1. CASE p - (j + 1) = 0
        <4>1. p - j = 1 /\ s # <<>>
          BY <1>2, <2>3, <3>1
        <4>2. s[1][1] = 0
          BY <4>1 DEF Covers
        <4>3. s[1][1] = At(j + 1)
          BY <2>1, <2>9, <4>1 DEF x, l
        <4> QED
          BY <3>1, <4>2, <4>3 DEF EndsAt
      <3>2. CASE p - (j + 1) # 0
        <4>1. p - (j + 1) \in 1..Len(s) - 1 /\ (p - (j + 1)) + 1 = p - j
          BY <1>2, <2>3, <3>2
        <4>2. s[p - j][1] = End(s[p - (j + 1)])
          BY <4>1 DEF Covers
        <4>3. s[p - j][1] = At(j + 1)
          BY <2>1, <2>9 DEF x, l
        <4> QED
          BY <3>2, <4>2, <4>3 DEF EndsAt
      <3> QED
        BY <3>1, <3>2
    <2>12. j + 1 <= p
      BY <2>3, <1>2
    <2> QED
      BY <2>10, <2>11, <2>12
  <1> HIDE DEF S
  <1>7. \A j \in Nat : j \in S
    BY <1>5, <1>6, SetInduction
  <1>8. ASSUME NEW j \in Nat, j <= Arity - 1
        PROVE  /\ j <= p /\ EndsAt(s, p - j, At(j))
               /\ j # 0 => s[p + 1 - j] = <<At(j), m>>
    <2> HIDE DEF At
    <2> QED
      BY <1>7, <1>8 DEF S
  <1>9. \A j \in 1..Arity - 1 : j <= p /\ s[p + 1 - j] = <<At(j), m>>
    <2> HIDE DEF At
    <2> QED
      BY <1>8
  <1>10. Arity - 1 \in Nat /\ At(Arity - 1) = n + 1 - BlockSize(m + 1)
    BY <1>1, ArityAssumption
  <1>11. Arity - 1 <= p /\ EndsAt(s, p - (Arity - 1), n + 1 - BlockSize(m + 1))
         /\ n + 1 - BlockSize(m + 1) \in Nat
    <2> HIDE DEF At
    <2>1. Arity - 1 <= Arity - 1
      BY <1>10
    <2> QED
      BY <1>3, <1>8, <1>10, <2>1
  <1> QED
    BY <1>9, <1>11 DEF d

\* After all merges the new block and what is left before it cover n + 1.
LEMMA PushedCovers ==
  ASSUME NEW n \in Nat, NEW s, Covers(s, 0, n), NEW m \in Nat,
         Multiple(n + 1, BlockSize(m)), ~Multiple(n + 1, BlockSize(m + 1)),
         NEW p \in 0..Len(s), EndsAt(s, p, n + 1 - BlockSize(m)), n + 1 - BlockSize(m) \in Nat,
         NEW t, t = [i \in 1..p + 1 |-> IF i <= p THEN s[i] ELSE <<n + 1 - BlockSize(m), m>>]
  PROVE  Covers(t, 0, n + 1)
  <1> DEFINE d == BlockSize(m)
             l == n + 1 - d
  <1>0. d \in Nat \ {0} /\ l \in Nat /\ l + d = n + 1 /\ m + 1 \in Nat /\ BlockSize(m + 1) \in Nat \ {0}
    <2>1. m + 1 \in Nat
      OBVIOUS
    <2>2. d \in Nat \ {0} /\ BlockSize(m + 1) \in Nat \ {0}
      BY <2>1, BlockSizes
    <2> HIDE DEF d
    <2> QED
      BY <2>1, <2>2 DEF d
  <1>1. s \in Seq(Coordinates) /\ Len(s) \in Nat
    BY DEF Covers
  <1>2. /\ t \in Seq(Coordinates) /\ Len(t) = p + 1
        /\ \A i \in 1..p : i \in 1..Len(s) /\ t[i] = s[i]
        /\ t[p + 1] = <<l, m>>
    <2>1. <<l, m>> \in Coordinates
      BY <1>0 DEF Coordinates
    <2> HIDE DEF l
    <2>2. \A i \in 1..p + 1 : (IF i <= p THEN s[i] ELSE <<l, m>>) \in Coordinates
      BY <1>1, <2>1
    <2>3. t = [i \in 1..p + 1 |-> IF i <= p THEN s[i] ELSE <<l, m>>]
      BY DEF l
    <2>4. t \in [1..p + 1 -> Coordinates] /\ p + 1 \in Nat
      BY SMTT(30), <2>2, <2>3
    <2>5. t \in Seq(Coordinates) /\ Len(t) = p + 1
      <3>1. t = [i \in 1..p + 1 |-> t[i]] /\ {t[i] : i \in 1..p + 1} \subseteq Coordinates
        BY <2>4
      <3> DEFINE q == p + 1
      <3>2. q \in Nat /\ t = [i \in 1..q |-> t[i]] /\ {t[i] : i \in 1..q} \subseteq Coordinates
        BY <3>1
      <3> HIDE DEF q
      <3>3. t \in Seq({t[i] : i \in 1..q}) /\ Len(t) = q
        BY ONLY <3>2, FcnIsSeq
      <3> DEFINE V == {t[i] : i \in 1..q}
      <3>4. t \in Seq(V) /\ V \subseteq Coordinates
        BY <3>2, <3>3
      <3> HIDE DEF V
      <3>5. t \in Seq(Coordinates)
        BY <3>4
      <3> QED
        BY <3>3, <3>5 DEF q
    <2> QED
      BY <1>1, <2>3, <2>5
  <1>3. l <= n
    BY <1>0
  <1>4. Peak(l, m, n + 1)
    <2>1. Multiple(l, d)
      <3>1. n + 1 >= d
        BY <1>0
      <3> QED
        BY <1>0, <3>1, MultipleAdd
    <2>2. ASSUME NEW b \in Nat, Multiple(b, BlockSize(m + 1)), b <= l, l < b + BlockSize(m + 1)
          PROVE  n + 1 < b + BlockSize(m + 1)
      <3> DEFINE e == b + BlockSize(m + 1)
      <3>1. e \in Nat /\ Multiple(e, BlockSize(m + 1))
        <4>1. BlockSize(m + 1) \in Nat
          BY <1>0
        <4> QED
          BY <2>2, <4>1, MultipleAdd
      <3>2. Multiple(e, d)
        <4>1. Multiple(BlockSize(m + 1), d)
          BY TallerBlocks
        <4> QED
          BY <1>0, <3>1, <4>1, MultipleTransitive
      <3>3. l < e
        BY <2>2
      <3> HIDE DEF e
      <3>4. l + d <= e
        BY <1>0, <2>1, <3>1, <3>2, <3>3, MultiplesApart
      <3>5. e # n + 1
        BY <3>1
      <3>6. n + 1 < e
        BY <1>0, <3>1, <3>4, <3>5
      <3> QED
        BY <3>6 DEF e
    <2> QED
      BY <1>0, <2>1, <2>2 DEF Peak
  <1>5. ASSUME NEW i \in 1..p PROVE End(s[i]) <= l /\ s[i] \in Coordinates
    <2> DEFINE S == {j \in Nat : j < p => End(s[p - j]) <= l}
    <2>1. 0 \in S
      BY <1>0 DEF EndsAt
    <2>2. ASSUME NEW j \in Nat, j \in S PROVE j + 1 \in S
      <3> SUFFICES ASSUME j + 1 < p PROVE End(s[p - (j + 1)]) <= l
        OBVIOUS
      <3>1. p - (j + 1) \in 1..Len(s) - 1 /\ (p - (j + 1)) + 1 = p - j /\ p - j \in 1..Len(s)
        BY <1>1
      <3>2. s[p - j][1] = End(s[p - (j + 1)]) /\ s[p - j] \in Coordinates
        BY <1>1, <3>1 DEF Covers
      <3>3. s[p - j][1] < End(s[p - j]) /\ s[p - j][1] \in Nat /\ End(s[p - j]) \in Nat
        BY <3>2, CoordinateIsPair
      <3>4. End(s[p - j]) <= l
        BY <2>2
      <3> HIDE DEF l
      <3> QED
        BY <1>0, <3>2, <3>3, <3>4
    <2> HIDE DEF S
    <2>3. p - i \in S /\ p - (p - i) = i /\ p - i < p
      <3>1. p - i \in Nat /\ p - (p - i) = i /\ p - i < p
        OBVIOUS
      <3> QED
        BY <2>1, <2>2, <3>1, SetInduction
    <2>4. s[i] \in Coordinates
      BY <1>1
    <2> QED
      BY <2>3, <2>4 DEF S
  <1>6. ASSUME NEW i \in 1..p PROVE Peak(s[i][1], s[i][2], n + 1)
    <2> DEFINE x == s[i][1]
               g == s[i][2]
    <2>1. /\ x \in Nat /\ g \in Nat /\ g + 1 \in Nat /\ BlockSize(g) \in Nat \ {0}
          /\ BlockSize(g + 1) \in Nat \ {0} /\ Peak(x, g, n) /\ x + BlockSize(g) <= l
      <3>1. x \in Nat /\ g \in Nat /\ x + BlockSize(g) <= l
        BY <1>5, CoordinateIsPair DEF End
      <3>2. g + 1 \in Nat
        BY <3>1
      <3>3. Peak(x, g, n)
        BY <1>2 DEF Covers
      <3> QED
        BY <3>1, <3>2, <3>3, BlockSizes
    <2> HIDE DEF x, g
    <2>2. ASSUME NEW b \in Nat, Multiple(b, BlockSize(g + 1)), b <= x, x < b + BlockSize(g + 1)
          PROVE  n + 1 < b + BlockSize(g + 1)
      <3> DEFINE e == b + BlockSize(g + 1)
      <3>1. e \in Nat /\ Multiple(e, BlockSize(g + 1)) /\ n < e
        BY SMTT(30), <2>1, <2>2, MultipleAdd DEF Peak
      <3>2. e # n + 1
        <4> SUFFICES ASSUME e = n + 1 PROVE FALSE
          OBVIOUS
        <4>1. g + 1 <= m
          <5> SUFFICES ASSUME m + 1 <= g + 1 PROVE FALSE
            BY <2>1
          <5>1. Multiple(BlockSize(g + 1), BlockSize(m + 1))
            BY <1>0, <2>1, TallerBlocks
          <5>2. Multiple(n + 1, BlockSize(m + 1))
            BY <1>0, <2>1, <3>1, <5>1, MultipleTransitive
          <5> QED
            BY <5>2
        <4>2. BlockSize(g + 1) <= d
          BY <2>1, <4>1, TallerBlocks
        <4>3. x + BlockSize(g + 1) >= n + 1
          BY <2>1, <2>2
        <4>4. x + BlockSize(g) <= n + 1 - BlockSize(m) /\ BlockSize(g + 1) <= BlockSize(m)
          BY <2>1, <4>2
        <4> DEFINE big == BlockSize(g + 1)
                   small == BlockSize(g)
        <4>5. /\ big \in Nat /\ small \in Nat \ {0} /\ x + big >= n + 1
              /\ x + small <= n + 1 - d /\ big <= d
          BY <2>1, <4>3, <4>4
        <4>6. x \in Nat /\ d \in Nat
          BY <1>0, <2>1
        <4> HIDE DEF big, small, d
        <4> QED
          BY <4>5, <4>6
      <3> HIDE DEF e
      <3>3. n + 1 < e
        BY <3>1, <3>2
      <3> QED
        BY <3>3 DEF e
    <2>3. x + BlockSize(g) <= n + 1
      BY SMTT(30), <1>0, <1>3, <2>1
    <2>4. Peak(x, g, n + 1)
      BY <2>1, <2>2, <2>3 DEF Peak
    <2> QED
      BY <2>4 DEF x, g
  <1>7. ASSUME NEW i \in 1..Len(t) - 1 PROVE t[i + 1][1] = End(t[i])
    <2>1. i \in 1..p /\ t[i] = s[i]
      BY <1>2
    <2>2. CASE i = p
      BY <1>2, <2>1, <2>2 DEF EndsAt
    <2>3. CASE i # p
      <3>1. i + 1 \in 1..p /\ i \in 1..Len(s) - 1
        BY <1>1, <2>1, <2>3
      <3> QED
        BY <1>2, <2>1, <3>1 DEF Covers
    <2> QED
      BY <2>2, <2>3
  <1>8. t # <<>> /\ t[1][1] = 0
    <2>1. CASE p = 0
      BY <1>2, <2>1 DEF EndsAt
    <2>2. CASE p # 0
      <3>1. 1 \in 1..p /\ s # <<>>
        BY <1>1, <2>2
      <3> QED
        BY <1>2, <3>1 DEF Covers
    <2> QED
      BY <2>1, <2>2
  <1>9. End(t[Len(t)]) = n + 1
    BY <1>0, <1>2 DEF End
  <1>10. \A i \in 1..Len(t) : Peak(t[i][1], t[i][2], n + 1)
    <2> SUFFICES ASSUME NEW i \in 1..p + 1 PROVE Peak(t[i][1], t[i][2], n + 1)
      BY <1>2
    <2>1. CASE i = p + 1
      BY <1>2, <1>4, <2>1
    <2>2. CASE i # p + 1
      <3>1. i \in 1..p /\ t[i] = s[i]
        BY <1>2, <2>2
      <3> QED
        BY <1>6, <3>1
    <2> QED
      BY <2>1, <2>2
  <1> QED
    BY <1>2, <1>7, <1>8, <1>9, <1>10 DEF Covers

-----------------------------------------------------------------------------
(* Digests *)

\* The hash over one or more children.
LEMMA NaryOf ==
  ASSUME NEW a, NEW n \in Nat \ {0}, NEW s, s = [i \in 1..n |-> s[i]]
  PROVE  /\ (\A i \in 1..n : s[i] = s[1]) => NaryMr(a, s) = s[1]
         /\ (\E i \in 1..n : s[i] # s[1]) => NaryMr(a, s) = NodeHash(a, s)
  <1>1. Len(s) = n /\ DOMAIN s = 1..n
    BY FcnIsSeq
  <1> QED
    BY <1>1 DEF NaryMr

\* Digests are told apart by their form.
LEMMA Forms ==
  ASSUME NEW a, NEW s
  PROVE  /\ NodeHash(a, s) # Null(a) /\ NodeHash(a, s) # Corrupted
         /\ Null(a) # Corrupted /\ Empty(a) # Null(a) /\ Empty(a) # Corrupted
         /\ LeafHash(a, s) # Corrupted
         /\ s # NullPayload => LeafHash(a, s) # Null(a)
  BY DEF NodeHash, Null, Corrupted, Empty, LeafHash

\* The root over readable peaks is a digest: its first child is the first peak.
LEMMA BagIsDigest ==
  ASSUME NEW a, NEW n \in Nat \ {0}, NEW peaks, peaks = [i \in 1..n |-> peaks[i]],
         peaks[1] # Corrupted
  PROVE  BagPeaks(a, peaks) # Corrupted
  <1> DEFINE nodeOf == [f \in DOMAIN peaks |-> [covers |-> {f}, digest |-> peaks[f], children |-> <<>>]]
             k == Arity - 1
             Fits(r) == /\ n - r * k <= Arity
                        /\ r > 0 => n - (r - 1) * k > Arity
             rounds == CHOOSE r \in 0..n : Fits(r)
  <1>1. nodeOf[1].digest = peaks[1] /\ DOMAIN nodeOf = 1..n /\ nodeOf = [i \in 1..n |-> nodeOf[i]]
    <2>1. DOMAIN peaks = 1..n /\ 1 \in 1..n
      OBVIOUS
    <2> QED
      BY <2>1
  <1>2. Len(nodeOf) = n /\ nodeOf \in Seq({nodeOf[i] : i \in 1..n}) /\ Len(peaks) = n /\ peaks # <<>>
    <2>1. Len(peaks) = n
      BY FcnIsSeq
    <2>2. peaks # <<>>
      BY <2>1
    <2> HIDE DEF nodeOf
    <2>3. Len(nodeOf) = n /\ nodeOf \in Seq({nodeOf[i] : i \in 1..n})
      BY <1>1, FcnIsSeq
    <2> QED
      BY <2>1, <2>2, <2>3
  <1>3. rounds \in 0..n /\ Fits(rounds)
    <2> DEFINE T == {r \in Nat : n - r * k <= Arity}
    <2>1. k \in Nat /\ k >= 1 /\ Arity \in Nat /\ Arity = k + 1
      BY ArityAssumption
    <2> HIDE DEF k
    <2>2. n \in T /\ T \in SUBSET Nat
      <3>1. n * k >= n
        BY <2>1
      <3> QED
        BY <2>1, <3>1
    <2>3. PICK r \in T : \A s \in T : r <= s
      BY <2>2, LeastExists
    <2>4. r \in 0..n
      BY <2>2, <2>3
    <2>5. ASSUME r > 0 PROVE n - (r - 1) * k > Arity
      <3>1. r - 1 \in Nat /\ r - 1 \notin T
        BY <2>3, <2>5
      <3>2. ~(n - (r - 1) * k <= Arity)
        BY <3>1
      <3> DEFINE x == (r - 1) * k
      <3>3. x \in Nat
        BY <2>1, <3>1
      <3> HIDE DEF x
      <3>4. n - x > Arity
        BY <2>1, <3>2, <3>3 DEF x
      <3> QED
        BY <3>4 DEF x
    <2>6. Fits(r)
      BY <2>3, <2>5
    <2> HIDE DEF Fits
    <2> QED
      BY <2>4, <2>6
  <1>4. CASE n = 1
    <2>1. BagPeaks(a, peaks) = peaks[1]
      <3>1. FoldFrontier(a, nodeOf) = nodeOf[1]
        <4> HIDE DEF nodeOf
        <4> QED
          BY <1>2, <1>4 DEF FoldFrontier
      <3>2. BagPeaks(a, peaks) = FoldFrontier(a, nodeOf).digest
        BY <1>2 DEF BagPeaks, BagTree
      <3> QED
        BY <1>1, <3>1, <3>2
    <2> QED
      BY <2>1
  <1>5. CASE n # 1
    <2> DEFINE m == n - rounds * k - 1
    <2>1. m \in Nat /\ m >= 1 /\ m <= n
      <3>1. k \in Nat /\ k >= 1 /\ Arity \in Nat /\ Arity = k + 1
        BY ArityAssumption
      <3> HIDE DEF k, rounds
      <3>2. CASE rounds = 0
        BY <1>5, <3>1, <3>2
      <3>3. CASE rounds # 0
        <4> DEFINE x == rounds * k
        <4>1. n - (rounds - 1) * k > Arity /\ (rounds - 1) * k = x - k /\ x \in Nat
          BY <1>3, <3>1, <3>3
        <4> HIDE DEF x
        <4>2. n - (x - k) > Arity
          BY <4>1
        <4>3. n - x - 1 \in Nat /\ n - x - 1 >= 1 /\ n - x - 1 <= n
          BY <3>1, <4>1, <4>2
        <4> QED
          BY <4>3 DEF x
      <3> QED
        BY <3>2, <3>3
    <2> HIDE DEF nodeOf
    <2>2. PICK last : FoldFrontier(a, nodeOf) = Inner(a, SubSeq(nodeOf, 1, m) \o <<last>>)
      BY <1>2, <1>5 DEF FoldFrontier
    <2> HIDE DEF m
    <2> DEFINE children == SubSeq(nodeOf, 1, m) \o <<last>>
    <2>3. children \in Seq({nodeOf[i] : i \in 1..n} \cup {last}) /\ Len(children) = m + 1
          /\ children[1] = nodeOf[1]
      <3> DEFINE S == {nodeOf[i] : i \in 1..n} \cup {last}
                 first == SubSeq(nodeOf, 1, m)
      <3>1. nodeOf \in Seq(S) /\ last \in S
        BY <1>2
      <3> HIDE DEF S
      <3>2. first \in Seq(S) /\ Len(first) = m /\ first[1] = nodeOf[1]
        BY <1>2, <2>1, <3>1
      <3> HIDE DEF first
      <3>3. first \o <<last>> \in Seq(S) /\ Len(first \o <<last>>) = m + 1
            /\ (first \o <<last>>)[1] = first[1]
        BY <2>1, <3>1, <3>2
      <3> QED
        BY <3>2, <3>3 DEF first, S
    <2> HIDE DEF children
    <2> DEFINE ds == [j \in DOMAIN children |-> children[j].digest]
    <2>4. ds[1] = peaks[1]
      <3>1. 1 \in DOMAIN children
        BY <2>1, <2>3
      <3> QED
        BY <1>1, <2>3, <3>1
    <2>5. FoldFrontier(a, nodeOf).digest = NaryMr(a, ds)
      <3>1. FoldFrontier(a, nodeOf) = Inner(a, children)
        BY <2>2 DEF children
      <3>2. Inner(a, children).digest = NaryMr(a, ds)
        BY DEF Inner
      <3> QED
        BY <3>1, <3>2
    <2> HIDE DEF ds
    <2>6. NaryMr(a, ds) # Corrupted
      BY <2>4, Forms DEF NaryMr
    <2>7. BagPeaks(a, peaks) = FoldFrontier(a, nodeOf).digest
      BY <1>2 DEF BagPeaks, BagTree, nodeOf
    <2> QED
      BY <2>5, <2>6, <2>7
  <1> QED
    BY <1>4, <1>5

-----------------------------------------------------------------------------
(* Sequences built from others *)

\* Two sequences one after the other, as a function.
LEMMA ConcatIs ==
  ASSUME NEW n \in Nat, NEW s, s = [i \in 1..n |-> s[i]],
         NEW m \in Nat, NEW t, t = [i \in 1..m |-> t[i]]
  PROVE  s \o t = [i \in 1..n + m |-> IF i <= n THEN s[i] ELSE t[i - n]]
  <1> DEFINE S == {s[i] : i \in 1..n} \cup {t[i] : i \in 1..m}
  <1>1. Len(s) = n /\ Len(t) = m /\ s \in Seq({s[i] : i \in 1..n}) /\ t \in Seq({t[i] : i \in 1..m})
    BY FcnIsSeq
  <1>2. s \in Seq(S) /\ t \in Seq(S)
    BY <1>1
  <1> HIDE DEF S
  <1>3. s \o t \in Seq(S) /\ Len(s \o t) = n + m
    BY <1>1, <1>2
  <1>4. \A i \in 1..n + m : (s \o t)[i] = IF i <= n THEN s[i] ELSE t[i - n]
    BY <1>1, <1>2
  <1>5. s \o t = [i \in 1..n + m |-> (s \o t)[i]]
    BY <1>3
  <1> QED
    BY <1>4, <1>5

\* A sequence and one element more.
LEMMA ConcatOne ==
  ASSUME NEW n \in Nat, NEW s, s = [i \in 1..n |-> s[i]], NEW e
  PROVE  s \o <<e>> = [i \in 1..n + 1 |-> IF i <= n THEN s[i] ELSE e]
  <1> DEFINE t == <<e>>
  <1>1. t = [i \in 1..1 |-> t[i]] /\ t[1] = e
    OBVIOUS
  <1> HIDE DEF t
  <1>2. s \o t = [i \in 1..n + 1 |-> IF i <= n THEN s[i] ELSE t[i - n]]
    BY <1>1, ConcatIs
  <1>3. \A i \in 1..n + 1 : ~(i <= n) => t[i - n] = e
    BY <1>1
  <1> QED
    BY <1>2, <1>3 DEF t

\* A part of a sequence and one element more.
PartAnd(s, x, y, e) == SubSeq(s, x, y) \o <<e>>

\* It, element by element.
PartAndAs(s, x, y, e) == [i \in 1..y - x + 2 |-> IF i <= y - x + 1 THEN s[x + i - 1] ELSE e]

\* The two are the same.
LEMMA PartAndOne ==
  ASSUME NEW n \in Nat, NEW s, s = [i \in 1..n |-> s[i]], NEW x \in 1..n + 1, NEW y \in x - 1..n, NEW e
  PROVE  PartAnd(s, x, y, e) = PartAndAs(s, x, y, e)
  <1> DEFINE p == SubSeq(s, x, y)
             m == y - x + 1
  <1>1. m \in Nat /\ m + 1 = y - x + 2
    OBVIOUS
  <1>2. p = [i \in 1..m |-> s[x + i - 1]]
    BY SubSeqIs
  <1> HIDE DEF p
  <1>3. p = [i \in 1..m |-> p[i]] /\ \A i \in 1..m : p[i] = s[x + i - 1]
    BY <1>2
  <1> HIDE DEF m
  <1>4. p \o <<e>> = [i \in 1..m + 1 |-> IF i <= m THEN p[i] ELSE e]
    BY <1>1, <1>3, ConcatOne
  <1>5. p \o <<e>> = [i \in 1..m + 1 |-> IF i <= m THEN s[x + i - 1] ELSE e]
    <2>1. \A i \in 1..m + 1 : (IF i <= m THEN p[i] ELSE e) = IF i <= m THEN s[x + i - 1] ELSE e
      BY <1>1, <1>3
    <2> QED
      BY <1>4, <2>1
  <1> QED
    BY <1>1, <1>5 DEF PartAnd, PartAndAs, p, m

\* The first part of a sequence.
LEMMA FirstIs ==
  ASSUME NEW n \in Nat, NEW s, s = [i \in 1..n |-> s[i]], NEW y \in 0..n
  PROVE  SubSeq(s, 1, y) = [i \in 1..y |-> s[i]]
  <1>1. SubSeq(s, 1, y) = [i \in 1..y - 1 + 1 |-> s[1 + i - 1]]
    BY SubSeqIs
  <1>2. y - 1 + 1 = y /\ \A i \in 1..y : 1 + i - 1 = i
    OBVIOUS
  <1> QED
    BY <1>1, <1>2

\* What is left of a sequence of two or more without one of its elements.
LEMMA Without ==
  ASSUME NEW n \in Nat, NEW s, s = [i \in 1..n |-> s[i]], NEW c \in 1..n
  PROVE  RemoveAt(s, c) = [i \in 1..n - 1 |-> IF i < c THEN s[i] ELSE s[i + 1]]
  <1> DEFINE p == SubSeq(s, 1, c - 1)
             q == SubSeq(s, c + 1, n)
             m == c - 1
             k == n - c
  <1>1. m \in Nat /\ k \in Nat /\ m + k = n - 1
    OBVIOUS
  <1>2. p = [i \in 1..m |-> s[i]]
    <2>1. m \in 0..n
      OBVIOUS
    <2> QED
      BY <2>1, FirstIs
  <1>3. q = [i \in 1..k |-> s[c + i]]
    <2>1. q = [i \in 1..n - (c + 1) + 1 |-> s[c + 1 + i - 1]]
      BY SubSeqIs
    <2>2. n - (c + 1) + 1 = k /\ \A i \in 1..k : c + 1 + i - 1 = c + i
      OBVIOUS
    <2> QED
      BY <2>1, <2>2
  <1>4. RemoveAt(s, c) = p \o q
    <2>1. Len(s) = n
      BY FcnIsSeq
    <2> QED
      BY <2>1 DEF RemoveAt
  <1> HIDE DEF p, q
  <1>5. p = [i \in 1..m |-> p[i]] /\ q = [i \in 1..k |-> q[i]]
    BY <1>2, <1>3
  <1> HIDE DEF m, k
  <1>6. p \o q = [i \in 1..m + k |-> IF i <= m THEN p[i] ELSE q[i - m]]
    BY <1>1, <1>5, ConcatIs
  <1>7. ASSUME NEW i \in 1..n - 1
        PROVE  (IF i <= m THEN p[i] ELSE q[i - m]) = IF i < c THEN s[i] ELSE s[i + 1]
    <2>1. CASE i < c
      <3>1. i \in 1..m
        BY <2>1 DEF m
      <3> QED
        BY <1>2, <2>1, <3>1
    <2>2. CASE ~(i < c)
      <3>1. ~(i <= m) /\ i - m \in 1..k /\ c + (i - m) = i + 1
        BY <2>2 DEF m, k
      <3> QED
        BY <1>3, <2>2, <3>1
    <2> QED
      BY <2>1, <2>2
  <1> QED
    BY <1>1, <1>4, <1>6, <1>7

\* Putting an element back where it was taken out.
LEMMA PutBack ==
  ASSUME NEW n \in Nat, NEW s, s = [i \in 1..n |-> s[i]], NEW c \in 1..n
  PROVE  InsertAt(RemoveAt(s, c), c, s[c]) = s
  <1> DEFINE r == RemoveAt(s, c)
             p == SubSeq(r, 1, c - 1)
             q == SubSeq(r, c, n - 1)
             m == c - 1
             k == n - c
             u == p \o <<s[c]>>
  <1>1. r = [i \in 1..n - 1 |-> IF i < c THEN s[i] ELSE s[i + 1]]
    BY Without
  <1> HIDE DEF r
  <1>2. r = [i \in 1..n - 1 |-> r[i]] /\ Len(r) = n - 1 /\ n - 1 \in Nat
    <2>1. r = [i \in 1..n - 1 |-> r[i]] /\ n - 1 \in Nat
      BY <1>1
    <2> QED
      BY <2>1, FcnIsSeq
  <1>3. m \in Nat /\ k \in Nat /\ m + 1 + k = n /\ m + 1 \in Nat
    OBVIOUS
  <1>4. u = [i \in 1..m + 1 |-> IF i <= m THEN s[i] ELSE s[c]]
    <2>1. 1 \in 1..(n - 1) + 1 /\ c - 1 \in 1 - 1..n - 1
      OBVIOUS
    <2> DEFINE e == s[c]
               l == n - 1
               y == c - 1
    <2> HIDE DEF e, l, y
    <2>2. SubSeq(r, 1, y) \o <<e>> = [i \in 1..y + 1 |-> IF i <= y THEN r[i] ELSE e]
      <3>1. l \in Nat /\ r = [i \in 1..l |-> r[i]] /\ y \in 0..l /\ y \in Nat
        BY <1>2, <2>1 DEF l, y
      <3>2. SubSeq(r, 1, y) = [i \in 1..y |-> r[i]]
        BY <3>1, FirstIs
      <3> DEFINE v == SubSeq(r, 1, y)
      <3> HIDE DEF v
      <3>3. v = [i \in 1..y |-> v[i]] /\ \A i \in 1..y : v[i] = r[i]
        BY <3>2 DEF v
      <3>4. v \o <<e>> = [i \in 1..y + 1 |-> IF i <= y THEN v[i] ELSE e]
        BY <3>1, <3>3, ConcatOne
      <3>5. \A i \in 1..y + 1 : (IF i <= y THEN v[i] ELSE e) = IF i <= y THEN r[i] ELSE e
        <4>1. \A i \in 1..y + 1 : i <= y => i \in 1..y
          BY <3>1
        <4>2. \A i \in 1..y : v[i] = r[i]
          BY <3>3
        <4> QED
          BY <4>1, <4>2
      <3> QED
        BY <3>4, <3>5 DEF v
    <2>3. y = m
      BY DEF y
    <2>4. \A i \in 1..m + 1 : i <= m => r[i] = s[i]
      BY <1>1
    <2>5. u = SubSeq(r, 1, y) \o <<e>>
      BY DEF y, e
    <2> HIDE DEF u, m
    <2>6. \A i \in 1..m + 1 : (IF i <= m THEN r[i] ELSE e) = IF i <= m THEN s[i] ELSE s[c]
      BY <2>4 DEF e
    <2> QED
      BY <2>2, <2>3, <2>5, <2>6
  <1>5. q = [i \in 1..k |-> s[c + i]]
    <2>1. c \in 1..(n - 1) + 1 /\ n - 1 \in c - 1..n - 1
      OBVIOUS
    <2>2. q = [i \in 1..(n - 1) - c + 1 |-> r[c + i - 1]]
      BY <1>2, <2>1, SubSeqIs
    <2>3. (n - 1) - c + 1 = k
      OBVIOUS
    <2>4. \A i \in 1..k : r[c + i - 1] = s[c + i]
      BY <1>1
    <2> HIDE DEF q
    <2> QED
      BY <2>2, <2>3, <2>4
  <1>6. InsertAt(r, c, s[c]) = u \o q
    BY <1>2 DEF InsertAt
  <1> HIDE DEF u, q
  <1>7. u = [i \in 1..m + 1 |-> u[i]] /\ q = [i \in 1..k |-> q[i]]
    BY <1>4, <1>5
  <1> HIDE DEF m, k
  <1>8. u \o q = [i \in 1..(m + 1) + k |-> IF i <= m + 1 THEN u[i] ELSE q[i - (m + 1)]]
    BY SMTT(30), <1>3, <1>7, ConcatIs
  <1>9. ASSUME NEW i \in 1..n
        PROVE  (IF i <= m + 1 THEN u[i] ELSE q[i - (m + 1)]) = s[i]
    <2>1. CASE i <= m + 1
      <3>1. i \in 1..m + 1 /\ (~(i <= m) => i = c)
        BY <2>1 DEF m
      <3> QED
        BY <1>4, <2>1, <3>1
    <2>2. CASE ~(i <= m + 1)
      <3>1. i - (m + 1) \in 1..k /\ c + (i - (m + 1)) = i
        BY <2>2 DEF m, k
      <3> QED
        BY <1>5, <2>2, <3>1
    <2> QED
      BY <2>1, <2>2
  <1>10. u \o q = [i \in 1..n |-> s[i]]
    BY <1>3, <1>8, <1>9
  <1> QED
    BY <1>6, <1>10 DEF r

-----------------------------------------------------------------------------
(* Bagging: the rounds of FoldFrontier *)

\* How often FoldFrontier merges the rightmost of n nodes before the last merge.
Rounds(n) == CHOOSE r \in 0..n : /\ n - r * (Arity - 1) <= Arity
                                 /\ r > 0 => n - (r - 1) * (Arity - 1) > Arity

\* All its merges, and the first of the nodes that r of them took in.
FoldSteps(n) == Rounds(n) + 1
First(n, r) == IF r <= Rounds(n) THEN n - r * (Arity - 1) ELSE 1

\* There is such a number of rounds.
LEMMA RoundsExist ==
  ASSUME NEW n \in Nat \ {0}
  PROVE  /\ Rounds(n) \in 0..n
         /\ n - Rounds(n) * (Arity - 1) <= Arity
         /\ Rounds(n) > 0 => n - (Rounds(n) - 1) * (Arity - 1) > Arity
  <1> DEFINE k == Arity - 1
             Fits(r) == /\ n - r * k <= Arity
                        /\ r > 0 => n - (r - 1) * k > Arity
  <1> SUFFICES \E r \in 0..n : Fits(r)
    BY DEF Rounds
  <1> DEFINE T == {r \in Nat : n - r * k <= Arity}
  <1>1. k \in Nat /\ k >= 1 /\ Arity \in Nat /\ Arity = k + 1
    BY ArityAssumption
  <1> HIDE DEF k
  <1>2. n \in T /\ T \in SUBSET Nat
    <2>1. n * k >= n
      BY <1>1
    <2> QED
      BY <1>1, <2>1
  <1>3. PICK r \in T : \A s \in T : r <= s
    BY <1>2, LeastExists
  <1>4. r \in 0..n
    BY <1>2, <1>3
  <1>5. ASSUME r > 0 PROVE n - (r - 1) * k > Arity
    <2>1. r - 1 \in Nat /\ r - 1 \notin T
      BY <1>3, <1>5
    <2>2. ~(n - (r - 1) * k <= Arity)
      BY <2>1
    <2> DEFINE x == (r - 1) * k
    <2>3. x \in Nat
      BY <1>1, <2>1
    <2> HIDE DEF x
    <2>4. n - x > Arity
      BY <1>1, <2>2, <2>3 DEF x
    <2> QED
      BY <2>4 DEF x
  <1>6. Fits(r)
    BY <1>3, <1>5
  <1> HIDE DEF Fits
  <1> QED
    BY <1>4, <1>6

\* Each merge takes in nodes further left, the last one all of them.
LEMMA Stages ==
  ASSUME NEW n \in Nat, n >= 2
  PROVE  /\ Rounds(n) \in Nat /\ FoldSteps(n) \in 1..n
         /\ First(n, 0) = n /\ First(n, FoldSteps(n)) = 1
         /\ \A r \in 0..FoldSteps(n) : First(n, r) \in 1..n
         /\ \A r \in 1..FoldSteps(n) : First(n, r) < First(n, r - 1)
  <1> DEFINE k == Arity - 1
             m == Rounds(n)
  <1>1. k \in Nat /\ k >= 1 /\ Arity \in Nat /\ Arity = k + 1
    BY ArityAssumption
  <1>2. m \in 0..n /\ n - m * k <= Arity /\ (m > 0 => n - (m - 1) * k > Arity)
    BY RoundsExist
  <1> HIDE DEF m
  <1> HIDE DEF k
  <1>3. n - m * k >= 2
    <2>1. CASE m = 0
      BY <1>1, <2>1
    <2>2. CASE m # 0
      <3> DEFINE x == m * k
      <3>1. (m - 1) * k = x - k /\ x \in Nat
        BY <1>1, <1>2
      <3> HIDE DEF x
      <3>2. n - (x - k) > k + 1
        BY <1>1, <1>2, <2>2, <3>1
      <3>3. n - x >= 2
        BY <1>1, <3>1, <3>2
      <3> QED
        BY <3>3 DEF x
    <2> QED
      BY <2>1, <2>2
  <1>4. m + 1 <= n
    <2>1. m * k >= m
      BY <1>1, <1>2
    <2> DEFINE x == m * k
    <2> HIDE DEF x
    <2>2. x >= m /\ n - x >= 2 /\ m \in Nat
      BY <1>2, <1>3, <2>1 DEF x
    <2>3. x \in Nat
      BY <1>1, <1>2 DEF x
    <2> QED
      BY <2>2, <2>3
  <1>5. FoldSteps(n) = m + 1 /\ \A r : First(n, r) = IF r <= m THEN n - r * k ELSE 1
    BY DEF FoldSteps, First, m, k
  <1>6. ASSUME NEW r \in 0..m PROVE n - r * k \in 2..n
    <2> DEFINE x == m * k
               y == r * k
    <2>1. x \in Nat /\ y \in Nat /\ y <= x
      BY <1>1, <1>2
    <2>2. n - x >= 2
      BY <1>3
    <2> HIDE DEF x, y
    <2>3. n - y \in 2..n
      BY <2>1, <2>2
    <2> QED
      BY <2>3 DEF y
  <1>7. First(n, 0) = n
    <2>1. 0 * k = 0 /\ 0 <= m
      BY <1>1, <1>2
    <2> QED
      BY <1>5, <2>1
  <1>8. First(n, m + 1) = 1
    BY <1>2, <1>5
  <1>9. ASSUME NEW r \in 0..m + 1 PROVE First(n, r) \in 1..n
    BY <1>2, <1>5, <1>6
  <1>10. ASSUME NEW r \in 1..m + 1 PROVE First(n, r) < First(n, r - 1)
    <2>0. r - 1 \in 0..m
      BY <1>2
    <2>1. CASE r <= m
      <3> DEFINE y == r * k
                 z == (r - 1) * k
      <3>1. y \in Nat /\ z \in Nat /\ y = z + k
        BY <1>1, <1>2
      <3>2. First(n, r) = n - y /\ First(n, r - 1) = n - z
        BY <1>2, <1>5, <2>0, <2>1
      <3> HIDE DEF y, z
      <3> QED
        BY <1>1, <3>1, <3>2
    <2>2. CASE ~(r <= m)
      <3>1. First(n, r) = 1 /\ First(n, r - 1) = n - (r - 1) * k
        BY <1>5, <2>0, <2>2
      <3>2. n - (r - 1) * k \in 2..n
        BY <1>6, <2>0
      <3> QED
        BY <3>1, <3>2
    <2> QED
      BY <2>1, <2>2
  <1>11. m \in Nat /\ m + 1 \in 1..n /\ FoldSteps(n) = m + 1 /\ Rounds(n) = m
    BY <1>2, <1>4, <1>5 DEF m
  <1>12. First(n, FoldSteps(n)) = 1
    BY <1>8, <1>11
  <1>13. \A r \in 0..FoldSteps(n) : First(n, r) \in 1..n
    BY <1>9, <1>11
  <1>14. \A r \in 1..FoldSteps(n) : First(n, r) < First(n, r - 1)
    BY <1>10, <1>11
  <1> QED
    BY <1>7, <1>11, <1>12, <1>13, <1>14

-----------------------------------------------------------------------------
(* Lines of nodes: what a path crosses *)

\* v goes from a node without children, level by level, to a node that covers i
\* through all of them.  A node above has the digest of its two or more children.
Above(a, lower, upper, i) ==
  \E n \in Nat :
    /\ n >= 2 /\ upper.children = [j \in 1..n |-> upper.children[j]]
    /\ upper.digest = NaryMr(a, [j \in 1..n |-> upper.children[j].digest])
    /\ Toward(upper, i) \in 1..n /\ lower = upper.children[Toward(upper, i)]

\* The nodes above a leaf, from the leaf itself up.
Line(a, v, levels, i) ==
  /\ v[0].children = <<>>
  /\ \A m \in 1..levels : Above(a, v[m - 1], v[m], i)

\* Going down from the upper end of a line one crosses its nodes.
LEMMA CrossedIs ==
  ASSUME NEW a, NEW i, NEW depth \in Nat, NEW levels \in 0..depth, NEW v, Line(a, v, levels, i)
  PROVE  Crossed(v[levels], i, depth) = [m \in 1..levels |-> v[m]]
  <1> DEFINE tree == v[levels]
             body(f) == [d \in 0..depth |->
                           IF d = 0 THEN tree
                           ELSE IF f[d - 1].children = <<>> THEN f[d - 1]
                           ELSE f[d - 1].children[Toward(f[d - 1], i)]]
             at(d) == IF d <= levels THEN v[levels - d] ELSE v[0]
             whole == [d \in 0..depth |-> at(d)]
             down == CHOOSE f : f = body(f)
  <1>1. /\ v[0].children = <<>>
        /\ \A m \in 1..levels : v[m].children # <<>> /\ v[m].children[Toward(v[m], i)] = v[m - 1]
    <2>1. v[0].children = <<>>
      BY DEF Line
    <2>2. ASSUME NEW m \in 1..levels
          PROVE  v[m].children # <<>> /\ v[m].children[Toward(v[m], i)] = v[m - 1]
      <3> DEFINE s == v[m].children
      <3>1. PICK n \in Nat : n >= 2 /\ s = [j \in 1..n |-> s[j]] /\ v[m - 1] = s[Toward(v[m], i)]
        BY DEF Line, Above
      <3> HIDE DEF s
      <3>2. s # <<>>
        <4>1. Len(s) = n
          BY <3>1, FcnIsSeq
        <4> QED
          BY <3>1, <4>1
      <3> QED
        BY <3>1, <3>2 DEF s
    <2> QED
      BY <2>1, <2>2
  <1>2. whole = body(whole)
    <2>1. ASSUME NEW d \in 0..depth
          PROVE  at(d) = IF d = 0 THEN tree
                         ELSE IF at(d - 1).children = <<>> THEN at(d - 1)
                         ELSE at(d - 1).children[Toward(at(d - 1), i)]
      <3>1. CASE d = 0
        BY <3>1
      <3>2. CASE d # 0 /\ d <= levels
        <4>1. levels - (d - 1) \in 1..levels /\ levels - (d - 1) - 1 = levels - d /\ d - 1 <= levels
          BY <3>2
        <4>2. at(d - 1) = v[levels - (d - 1)] /\ at(d) = v[levels - d]
          BY <3>2, <4>1
        <4> HIDE DEF at
        <4> QED
          BY <1>1, <3>2, <4>1, <4>2
      <3>3. CASE d # 0 /\ ~(d <= levels)
        <4>1. at(d - 1) = v[0] /\ at(d) = v[0]
          BY <3>3
        <4> HIDE DEF at
        <4> QED
          BY <1>1, <3>3, <4>1
      <3> QED
        BY <3>1, <3>2, <3>3
    <2>2. \A d \in 0..depth : whole[d] = at(d) /\ (d # 0 => d - 1 \in 0..depth)
      OBVIOUS
    <2> HIDE DEF at, whole
    <2>3. \A d \in 0..depth :
            whole[d] = IF d = 0 THEN tree
                       ELSE IF whole[d - 1].children = <<>> THEN whole[d - 1]
                       ELSE whole[d - 1].children[Toward(whole[d - 1], i)]
      BY <2>1, <2>2
    <2>4. whole = [d \in 0..depth |-> whole[d]]
      BY DEF whole
    <2> QED
      BY <2>3, <2>4
  <1>3. down = body(down)
    <2> HIDE DEF whole, body
    <2> QED
      BY <1>2
  <1> HIDE DEF down, whole
  <1>4. \A d \in 0..depth :
          down[d] = IF d = 0 THEN tree
                    ELSE IF down[d - 1].children = <<>> THEN down[d - 1]
                    ELSE down[d - 1].children[Toward(down[d - 1], i)]
    BY <1>3
  <1>5. \A d \in 0..levels : down[d] = v[levels - d]
    <2> DEFINE S == {d \in Nat : d <= levels => down[d] = v[levels - d]}
    <2>1. 0 \in S
      BY <1>4
    <2>2. ASSUME NEW d \in Nat, d \in S PROVE d + 1 \in S
      <3> SUFFICES ASSUME d + 1 <= levels PROVE down[d + 1] = v[levels - (d + 1)]
        OBVIOUS
      <3>1. down[d] = v[levels - d] /\ levels - d \in 1..levels
            /\ levels - d - 1 = levels - (d + 1) /\ d + 1 \in 0..depth /\ (d + 1) - 1 = d /\ d + 1 # 0
        BY <2>2
      <3>2. down[d].children # <<>> /\ down[d].children[Toward(down[d], i)] = v[levels - (d + 1)]
        BY <1>1, <3>1
      <3> QED
        BY <1>4, <3>1, <3>2
    <2> HIDE DEF S
    <2>3. \A d \in Nat : d \in S
      BY <2>1, <2>2, SetInduction
    <2> QED
      BY <2>3 DEF S
  <1> DEFINE stop(d) == /\ down[d].children = <<>>
                        /\ \A e \in 0..d - 1 : down[e].children # <<>>
             l == CHOOSE d \in 0..depth : stop(d)
  <1>6. \A e \in 0..levels - 1 : down[e].children # <<>>
    <2> SUFFICES ASSUME NEW e \in 0..levels - 1 PROVE down[e].children # <<>>
      OBVIOUS
    <2>1. down[e] = v[levels - e] /\ levels - e \in 1..levels
      BY <1>5
    <2> QED
      BY <1>1, <2>1
  <1>7. down[levels].children = <<>>
    BY <1>1, <1>5
  <1>8. l = levels
    <2>1. stop(levels)
      BY <1>6, <1>7
    <2>2. stop(l) /\ l \in 0..depth
      BY <2>1
    <2> HIDE DEF l
    <2>3. ~(l < levels)
      BY <1>6, <2>2
    <2>4. ~(levels < l)
      BY <1>7, <2>2
    <2> QED
      BY <2>2, <2>3, <2>4
  <1>9. Crossed(tree, i, depth) = [n \in 1..l |-> down[l - n]]
    BY DEF Crossed, down
  <1> HIDE DEF l
  <1>10. \A m \in 1..levels : levels - m \in 0..levels /\ levels - (levels - m) = m
    OBVIOUS
  <1>11. \A m \in 1..levels : down[levels - m] = v[m]
    BY <1>5, <1>10
  <1> QED
    BY <1>8, <1>9, <1>11

-----------------------------------------------------------------------------
(* Paths that lead from one digest to another *)

\* The step takes x, one of two or more siblings, to their parent y.
Lifts(a, step, x, y) ==
  \E k \in Nat : \E c \in 1..k : \E d :
    /\ k >= 2 /\ d = [j \in 1..k |-> d[j]] /\ d[c] = x
    /\ step = StepFrom(c, d) /\ y = NaryMr(a, d)

\* The path does so step by step.
LeadsBy(a, p, n, v) == \A m \in 1..n : Lifts(a, p[m], v[m - 1], v[m])

\* A path of n steps leads from the digest x to the digest y.
Leads(a, p, n, x, y) ==
  /\ n \in Nat /\ p = [m \in 1..n |-> p[m]]
  /\ \E v : v[0] = x /\ v[n] = y /\ LeadsBy(a, p, n, v)

\* The verifier's step.
LEMMA LiftIs ==
  ASSUME NEW a, NEW step, NEW x, NEW y, Lifts(a, step, x, y)
  PROVE  /\ step.siblings # <<>> /\ step.position <= Len(step.siblings)
         /\ NaryMr(a, InsertAt(step.siblings, step.position + 1, x)) = y
  <1>1. PICK k \in Nat : \E c \in 1..k : \E d :
          /\ k >= 2 /\ d = [j \in 1..k |-> d[j]] /\ d[c] = x
          /\ step = StepFrom(c, d) /\ y = NaryMr(a, d)
    BY DEF Lifts
  <1>2. PICK c \in 1..k : \E d :
          /\ k >= 2 /\ d = [j \in 1..k |-> d[j]] /\ d[c] = x
          /\ step = StepFrom(c, d) /\ y = NaryMr(a, d)
    BY <1>1
  <1>3. PICK d : /\ k >= 2 /\ d = [j \in 1..k |-> d[j]] /\ d[c] = x
                 /\ step = StepFrom(c, d) /\ y = NaryMr(a, d)
    BY <1>2
  <1> DEFINE r == RemoveAt(d, c)
  <1>4. r = [i \in 1..k - 1 |-> IF i < c THEN d[i] ELSE d[i + 1]]
    BY <1>3, Without
  <1>5. InsertAt(r, c, x) = d
    BY <1>3, PutBack
  <1>6. step.siblings = r /\ step.position = c - 1
    BY <1>3 DEF StepFrom
  <1> HIDE DEF r
  <1>7. Len(r) = k - 1
    <2>1. k - 1 \in Nat /\ r = [i \in 1..k - 1 |-> r[i]]
      BY <1>3, <1>4
    <2> QED
      BY <2>1, FcnIsSeq
  <1>8. r # <<>>
    BY <1>3, <1>7
  <1>9. c - 1 <= Len(r) /\ (c - 1) + 1 = c
    BY <1>7
  <1> QED
    BY <1>3, <1>5, <1>6, <1>8, <1>9

\* A path of no steps leads nowhere else.
LEMMA LeadsNowhere ==
  ASSUME NEW a, NEW x
  PROVE  Leads(a, <<>>, 0, x, x)
  <1> DEFINE v == [m \in {0} |-> x]
  <1>1. v[0] = x /\ LeadsBy(a, <<>>, 0, v)
    BY DEF LeadsBy
  <1>2. <<>> = [m \in 1..0 |-> <<>>[m]]
    OBVIOUS
  <1> HIDE DEF v
  <1> QED
    BY <1>1, <1>2 DEF Leads

\* One step is a path.
LEMMA LeadsOnce ==
  ASSUME NEW a, NEW step, NEW x, NEW y, Lifts(a, step, x, y)
  PROVE  Leads(a, <<step>>, 1, x, y)
  <1> DEFINE v == [m \in {0, 1} |-> IF m = 0 THEN x ELSE y]
             p == <<step>>
  <1>1. v[0] = x /\ v[1] = y
    OBVIOUS
  <1>2. p = [m \in 1..1 |-> p[m]] /\ p[1] = step
    OBVIOUS
  <1> HIDE DEF v, p
  <1>3. LeadsBy(a, p, 1, v)
    <2> SUFFICES ASSUME NEW m \in 1..1 PROVE Lifts(a, p[m], v[m - 1], v[m])
      BY DEF LeadsBy
    <2>1. m = 1 /\ m - 1 = 0
      OBVIOUS
    <2> QED
      BY <1>1, <1>2, <2>1
  <1>4. Leads(a, p, 1, x, y)
    BY <1>1, <1>2, <1>3 DEF Leads
  <1> QED
    BY <1>4 DEF p

\* A path and one that goes on from where it leads.
LEMMA LeadsOn ==
  ASSUME NEW a, NEW p, NEW q, NEW n, NEW k, NEW x, NEW y, NEW z,
         Leads(a, p, n, x, y), Leads(a, q, k, y, z)
  PROVE  Leads(a, p \o q, n + k, x, z)
  <1>1. n \in Nat /\ k \in Nat /\ p = [m \in 1..n |-> p[m]] /\ q = [m \in 1..k |-> q[m]]
    BY DEF Leads
  <1>2. PICK v : v[0] = x /\ v[n] = y /\ LeadsBy(a, p, n, v)
    BY DEF Leads
  <1>3. PICK w : w[0] = y /\ w[k] = z /\ LeadsBy(a, q, k, w)
    BY DEF Leads
  <1> DEFINE u == [m \in 0..n + k |-> IF m <= n THEN v[m] ELSE w[m - n]]
             r == p \o q
  <1>4. r = [m \in 1..n + k |-> IF m <= n THEN p[m] ELSE q[m - n]]
    BY <1>1, ConcatIs
  <1> HIDE DEF r
  <1>5. u[0] = x /\ u[n + k] = z
    <2>1. u[0] = x
      BY <1>1, <1>2
    <2>2. CASE k = 0
      <3>1. n + k = n
        BY <1>1, <2>2
      <3>2. u[n] = y
        BY <1>1, <1>2
      <3> QED
        BY <1>3, <2>1, <2>2, <3>1, <3>2
    <2>3. CASE k # 0
      <3>1. n + k \in 0..n + k /\ ~(n + k <= n) /\ (n + k) - n = k
        BY <1>1, <2>3
      <3>2. u[n + k] = w[k]
        BY <3>1
      <3> QED
        BY <1>3, <2>1, <3>2
    <2> QED
      BY <2>2, <2>3
  <1>6. ASSUME NEW m \in 1..n + k PROVE Lifts(a, r[m], u[m - 1], u[m])
    <2>1. CASE m <= n
      <3>1. m \in 1..n /\ m - 1 \in 0..n + k /\ m - 1 <= n /\ m \in 0..n + k
        BY <1>1, <2>1
      <3>2. r[m] = p[m] /\ u[m - 1] = v[m - 1] /\ u[m] = v[m]
        BY <1>4, <2>1, <3>1
      <3> HIDE DEF u
      <3> QED
        BY <1>2, <3>1, <3>2 DEF LeadsBy
    <2>2. CASE ~(m <= n)
      <3>1. m - n \in 1..k /\ m - 1 \in 0..n + k /\ m \in 0..n + k /\ (m - 1) - n = (m - n) - 1
        BY <1>1, <2>2
      <3>2. r[m] = q[m - n] /\ u[m] = w[m - n]
        BY <1>4, <2>2, <3>1
      <3>3. u[m - 1] = w[(m - n) - 1]
        <4>1. CASE m - 1 <= n
          <5>1. m - 1 = n /\ (m - n) - 1 = 0
            BY <1>1, <2>2, <4>1
          <5>2. u[m - 1] = v[n]
            BY <3>1, <5>1
          <5> QED
            BY <1>2, <1>3, <5>1, <5>2
        <4>2. CASE ~(m - 1 <= n)
          BY <3>1, <4>2
        <4> QED
          BY <4>1, <4>2
      <3> HIDE DEF u
      <3> QED
        BY <1>3, <3>1, <3>2, <3>3 DEF LeadsBy
    <2> QED
      BY <2>1, <2>2
  <1> HIDE DEF u
  <1>7. LeadsBy(a, r, n + k, u)
    BY <1>6 DEF LeadsBy
  <1>8. n + k \in Nat /\ r = [m \in 1..n + k |-> r[m]]
    BY <1>1, <1>4
  <1>9. Leads(a, r, n + k, x, z)
    BY <1>5, <1>7, <1>8 DEF Leads
  <1> QED
    BY <1>9 DEF r

\* A path whose last steps have the skeleton's shapes.
Fits(p, skeleton) ==
  /\ Len(skeleton) \in Nat /\ DOMAIN skeleton = 1..Len(skeleton) /\ Len(skeleton) <= Len(p)
  /\ \A n \in DOMAIN skeleton : Shape(p[Len(p) - Len(skeleton) + n]) = skeleton[n]

\* The verifier follows such a path to where it leads.
LEMMA VerifierFollows ==
  ASSUME NEW a, NEW p, NEW n, NEW x, NEW y, Leads(a, p, n, x, y), NEW skeleton, Fits(p, skeleton)
  PROVE  ReconstructInclusionRoot(a, x, skeleton, p) = y
  <1>1. n \in Nat /\ p = [m \in 1..n |-> p[m]]
    BY DEF Leads
  <1>2. PICK v : v[0] = x /\ v[n] = y /\ LeadsBy(a, p, n, v)
    BY DEF Leads
  <1>3. Len(p) = n /\ DOMAIN p = 1..n
    BY <1>1, FcnIsSeq
  <1>4. \A m \in 1..n : /\ p[m].siblings # <<>> /\ p[m].position <= Len(p[m].siblings)
                        /\ NaryMr(a, InsertAt(p[m].siblings, p[m].position + 1, v[m - 1])) = v[m]
    BY <1>2, LiftIs DEF LeadsBy
  <1> DEFINE up(m, e) == NaryMr(a, InsertAt(p[m].siblings, p[m].position + 1, e))
             body(f) == [m \in 0..n |-> IF m = 0 THEN x ELSE up(m, f[m - 1])]
             whole == [m \in 0..n |-> v[m]]
             lifted == CHOOSE f : f = body(f)
  <1>5. \A m \in 1..n : up(m, v[m - 1]) = v[m]
    BY <1>4
  <1> HIDE DEF up
  <1>6. whole = body(whole)
    <2>1. ASSUME NEW m \in 0..n PROVE whole[m] = IF m = 0 THEN x ELSE up(m, whole[m - 1])
      <3>1. CASE m = 0
        BY <1>2, <3>1
      <3>2. CASE m # 0
        <4>1. m - 1 \in 0..n /\ m \in 1..n
          BY <1>1, <3>2
        <4> QED
          BY <1>5, <3>2, <4>1
      <3> QED
        BY <3>1, <3>2
    <2> HIDE DEF whole
    <2>2. whole = [m \in 0..n |-> whole[m]]
      BY DEF whole
    <2> QED
      BY <2>1, <2>2
  <1>7. lifted = body(lifted)
    <2> HIDE DEF whole, body
    <2> QED
      BY <1>6
  <1> HIDE DEF lifted, whole
  <1>8. \A m \in 0..n : lifted[m] = IF m = 0 THEN x ELSE up(m, lifted[m - 1])
    BY <1>7
  <1>9. lifted[n] = v[n]
    <2> DEFINE S == {m \in Nat : m <= n => lifted[m] = v[m]}
    <2>1. 0 \in S
      BY <1>1, <1>2, <1>8
    <2>2. ASSUME NEW m \in Nat, m \in S PROVE m + 1 \in S
      <3> SUFFICES ASSUME m + 1 <= n PROVE lifted[m + 1] = v[m + 1]
        OBVIOUS
      <3>1. m + 1 \in 1..n /\ m + 1 \in 0..n /\ (m + 1) - 1 = m /\ m + 1 # 0 /\ m <= n
        BY <1>1
      <3> QED
        BY <1>5, <1>8, <2>2, <3>1
    <2> HIDE DEF S
    <2>3. \A m \in Nat : m \in S
      BY <2>1, <2>2, SetInduction
    <2> QED
      BY <1>1, <2>3 DEF S
  <1>10. \A m \in 1..n : p[m].siblings # <<>> /\ p[m].position <= Len(p[m].siblings)
    BY <1>4
  <1>11. n >= Len(skeleton)
         /\ \A m \in DOMAIN skeleton : Shape(p[n - Len(skeleton) + m]) = skeleton[m]
    BY <1>1, <1>3 DEF Fits
  <1>12. ReconstructInclusionRoot(a, x, skeleton, p) = lifted[n]
    BY <1>3, <1>10, <1>11 DEF ReconstructInclusionRoot, lifted, up
  <1> QED
    BY <1>2, <1>9, <1>12

\* What the siblings of a step are.
SiblingsIn(step, d) == \A x \in ToSet(step.siblings) : \E j \in DOMAIN d : x = d[j]

\* A step has one sibling for every other child, and none from elsewhere.
LEMMA StepIs ==
  ASSUME NEW k \in Nat, k >= 2, NEW c \in 1..k, NEW d, d = [j \in 1..k |-> d[j]],
         NEW step, step = StepFrom(c, d)
  PROVE  Shape(step) = [position |-> c - 1, siblings |-> k - 1] /\ SiblingsIn(step, d)
  <1> DEFINE r == RemoveAt(d, c)
  <1>1. r = [j \in 1..k - 1 |-> IF j < c THEN d[j] ELSE d[j + 1]]
    BY Without
  <1>2. step.siblings = r /\ step.position = c - 1
    BY DEF StepFrom
  <1>3. DOMAIN d = 1..k
    OBVIOUS
  <1> HIDE DEF r
  <1>4. r = [j \in 1..k - 1 |-> r[j]] /\ k - 1 \in Nat
    BY <1>1
  <1>5. Len(r) = k - 1 /\ DOMAIN r = 1..k - 1
    BY <1>4, FcnIsSeq
  <1>6. ASSUME NEW x \in ToSet(r) PROVE \E j \in 1..k : x = d[j]
    <2>1. PICK j \in 1..k - 1 : x = r[j]
      BY <1>5 DEF ToSet
    <2>2. j \in 1..k /\ j + 1 \in 1..k
      OBVIOUS
    <2> QED
      BY <1>1, <2>1, <2>2
  <1>7. SiblingsIn(step, d)
    BY <1>2, <1>3, <1>6 DEF SiblingsIn
  <1> QED
    BY <1>2, <1>5, <1>7 DEF Shape

\* A path along a line: where it leads, its shapes and its siblings.
AlongLine(a, i, v, levels, p) ==
  /\ Leads(a, p, levels, v[0].digest, v[levels].digest)
  /\ \A m \in 1..levels :
       /\ Shape(p[m]) = [position |-> Toward(v[m], i) - 1, siblings |-> Len(v[m].children) - 1]
       /\ \A x \in ToSet(p[m].siblings) : \E j \in DOMAIN v[m].children : x = v[m].children[j].digest

\* The path along a line leads from the digest at its lower end to the one at its
\* upper end.
LEMMA TreePathLeads ==
  ASSUME NEW a, NEW i, NEW depth \in Nat, NEW levels \in 0..depth, NEW v, Line(a, v, levels, i),
         NEW p, p = TreePath(v[levels], i, depth)
  PROVE  AlongLine(a, i, v, levels, p)
  <1> DEFINE c == Crossed(v[levels], i, depth)
             digests(m) == [j \in DOMAIN v[m].children |-> v[m].children[j].digest]
             w == [m \in 0..levels |-> v[m].digest]
  <1>1. c = [m \in 1..levels |-> v[m]]
    BY CrossedIs
  <1>2. p = [m \in DOMAIN c |-> StepFrom(Toward(c[m], i), [j \in DOMAIN c[m].children |-> c[m].children[j].digest])]
    BY DEF TreePath
  <1> HIDE DEF c
  <1>3. p = [m \in 1..levels |-> StepFrom(Toward(v[m], i), digests(m))]
    BY <1>1, <1>2
  <1>4. ASSUME NEW m \in 1..levels
        PROVE  /\ Lifts(a, p[m], v[m - 1].digest, v[m].digest)
               /\ Shape(p[m]) = [position |-> Toward(v[m], i) - 1, siblings |-> Len(v[m].children) - 1]
               /\ \A x \in ToSet(p[m].siblings) : \E j \in DOMAIN v[m].children : x = v[m].children[j].digest
    <2> DEFINE t == Toward(v[m], i)
               s == v[m].children
               d == digests(m)
               y == v[m].digest
    <2>1. PICK n \in Nat : /\ n >= 2 /\ s = [j \in 1..n |-> s[j]]
                           /\ y = NaryMr(a, [j \in 1..n |-> s[j].digest])
                           /\ t \in 1..n /\ v[m - 1] = s[t]
      BY DEF Line, Above
    <2>2. p[m] = StepFrom(t, d)
      BY <1>3
    <2> HIDE DEF s, t, y
    <2>3. DOMAIN s = 1..n /\ Len(s) = n
      BY <2>1, FcnIsSeq
    <2>4. d = [j \in 1..n |-> s[j].digest]
      BY <2>3 DEF s
    <2> HIDE DEF digests
    <2>5. d = [j \in 1..n |-> d[j]] /\ d[t] = v[m - 1].digest
      BY <2>1, <2>4
    <2>6. Lifts(a, p[m], v[m - 1].digest, y)
      <3>1. y = NaryMr(a, d)
        BY <2>1, <2>4
      <3> HIDE DEF d
      <3> QED
        BY <2>1, <2>2, <2>5, <3>1 DEF Lifts
    <2>7. Shape(p[m]) = [position |-> t - 1, siblings |-> n - 1] /\ SiblingsIn(p[m], d)
      <3> HIDE DEF d
      <3> QED
        BY <2>1, <2>2, <2>5, StepIs
    <2>8. \A x \in ToSet(p[m].siblings) : \E j \in DOMAIN s : x = s[j].digest
      <3>1. DOMAIN d = 1..n /\ \A j \in 1..n : d[j] = s[j].digest
        BY <2>4
      <3> HIDE DEF d
      <3> QED
        BY <2>3, <2>7, <3>1 DEF SiblingsIn
    <2> QED
      BY <2>3, <2>6, <2>7, <2>8 DEF s, t, y
  <1>5. w[0] = v[0].digest /\ w[levels] = v[levels].digest
        /\ \A m \in 1..levels : w[m - 1] = v[m - 1].digest /\ w[m] = v[m].digest
    OBVIOUS
  <1> HIDE DEF w
  <1>6. LeadsBy(a, p, levels, w)
    BY <1>4, <1>5 DEF LeadsBy
  <1>7. p = [m \in 1..levels |-> p[m]]
    BY <1>3
  <1>8. Leads(a, p, levels, v[0].digest, v[levels].digest)
    <2>1. levels \in Nat
      OBVIOUS
    <2> QED
      BY <1>5, <1>6, <1>7, <2>1 DEF Leads
  <1> QED
    BY <1>4, <1>8 DEF AlongLine

-----------------------------------------------------------------------------
(* Folds of nodes, merge by merge *)

\* F[r] is what FoldFrontier has folded of n nodes after r merges.
Folds(a, nodes, n, F) ==
  /\ F[0] = nodes[n]
  /\ \A r \in 1..FoldSteps(n) :
       F[r] = Inner(a, PartAnd(nodes, First(n, r), First(n, r - 1) - 1, F[r - 1]))
  /\ FoldFrontier(a, nodes) = F[FoldSteps(n)]

\* There is such a sequence of nodes.
LEMMA FoldIs ==
  ASSUME NEW a, NEW nodes, Len(nodes) \in Nat, Len(nodes) >= 2
  PROVE  \E F : Folds(a, nodes, Len(nodes), F)
  <1> DEFINE n == Len(nodes)
             m == Rounds(n)
             next(r, x) == Inner(a, SubSeq(nodes, n - r * (Arity - 1), n - (r - 1) * (Arity - 1) - 1) \o <<x>>)
             base == nodes[n]
             Starts(f, k) == \A r \in 0..k : f[r] = IF r = 0 THEN base ELSE next(r, f[r - 1])
             body(f) == [r \in 0..m |-> IF r = 0 THEN base ELSE next(r, f[r - 1])]
             folded == CHOOSE f : f = body(f)
             last == Inner(a, SubSeq(nodes, 1, n - m * (Arity - 1) - 1) \o <<folded[m]>>)
  <1>1. m \in Nat /\ FoldSteps(n) = m + 1
    BY Stages DEF FoldSteps
  <1>2. FoldFrontier(a, nodes) = last
    <2>1. FoldFrontier(a, nodes) = IF n = 1 THEN nodes[1] ELSE last
      BY Zenon DEF FoldFrontier, Rounds
    <2>2. n # 1
      <3>1. n \in Nat /\ n >= 2
        OBVIOUS
      <3> HIDE DEF n
      <3> QED
        BY <3>1
    <2> QED
      BY <2>1, <2>2
  <1>A. n \in Nat /\ n >= 2
    OBVIOUS
  <1> HIDE DEF n, next, base, m
  <1>3. \A k \in Nat : \E f : Starts(f, k)
    <2> DEFINE S == {k \in Nat : \E f : Starts(f, k)}
    <2>1. 0 \in S
      <3>1. Starts([r \in {0} |-> base], 0)
        OBVIOUS
      <3> QED
        BY <3>1
    <2>2. ASSUME NEW k \in Nat, k \in S PROVE k + 1 \in S
      <3>1. PICK f : Starts(f, k)
        BY <2>2
      <3> DEFINE g == [r \in 0..k + 1 |-> IF r <= k THEN f[r] ELSE next(k + 1, f[k])]
      <3>2. Starts(g, k + 1)
        <4>1. \A r \in 0..k + 1 : g[r] = IF r <= k THEN f[r] ELSE next(k + 1, f[k])
          OBVIOUS
        <4> HIDE DEF g
        <4> SUFFICES ASSUME NEW r \in 0..k + 1
                     PROVE  g[r] = IF r = 0 THEN base ELSE next(r, g[r - 1])
          OBVIOUS
        <4>2. CASE r <= k
          BY <3>1, <4>1, <4>2
        <4>3. CASE r = k + 1
          BY <4>1, <4>3
        <4> QED
          BY <4>2, <4>3
      <3>3. k + 1 \in Nat
        OBVIOUS
      <3> HIDE DEF Starts, g
      <3> QED
        BY <3>2, <3>3
    <2> HIDE DEF S
    <2>3. \A k \in Nat : k \in S
      BY <2>1, <2>2, SetInduction
    <2> QED
      BY <2>3 DEF S
  <1>4. folded = body(folded)
    <2>1. PICK f : Starts(f, m)
      BY <1>1, <1>3
    <2> DEFINE whole == [r \in 0..m |-> f[r]]
    <2>2. whole = body(whole)
      <3>1. \A r \in 0..m : whole[r] = f[r] /\ (r # 0 => r - 1 \in 0..m)
        BY <1>1
      <3>2. whole = [r \in 0..m |-> whole[r]]
        OBVIOUS
      <3> HIDE DEF whole
      <3>3. \A r \in 0..m : whole[r] = IF r = 0 THEN base ELSE next(r, whole[r - 1])
        BY <2>1, <3>1
      <3> QED
        BY <3>2, <3>3
    <2> HIDE DEF whole, body
    <2> QED
      BY <2>2
  <1> HIDE DEF folded, last
  <1>5. \A r \in 0..m : folded[r] = IF r = 0 THEN base ELSE next(r, folded[r - 1])
    BY <1>4
  <1> DEFINE F == [r \in 0..m + 1 |-> IF r <= m THEN folded[r] ELSE last]
  <1>6. /\ \A r \in 0..m : F[r] = folded[r]
        /\ F[m + 1] = last
    BY <1>1
  <1> HIDE DEF F
  <1>7. F[0] = nodes[n]
    BY <1>1, <1>5, <1>6 DEF base
  <1>8. ASSUME NEW r \in 1..m + 1
        PROVE  F[r] = Inner(a, PartAnd(nodes, First(n, r), First(n, r - 1) - 1, F[r - 1]))
    <2>1. First(n, r - 1) = n - (r - 1) * (Arity - 1) /\ r - 1 \in 0..m
      BY <1>1 DEF First, m
    <2>2. CASE r <= m
      <3>1. First(n, r) = n - r * (Arity - 1) /\ r \in 0..m /\ r # 0
        BY <1>1, <2>2 DEF First, m
      <3>2. F[r] = next(r, F[r - 1])
        BY <1>5, <1>6, <2>1, <3>1
      <3> QED
        BY <2>1, <3>1, <3>2 DEF next, PartAnd
    <2>3. CASE ~(r <= m)
      <3>1. First(n, r) = 1 /\ r = m + 1 /\ r - 1 = m
        BY <1>1, <2>3 DEF First, m
      <3>2. F[r] = last /\ F[r - 1] = folded[m]
        BY <1>1, <1>6, <3>1
      <3>3. First(n, r - 1) - 1 = n - m * (Arity - 1) - 1
        BY <2>1, <3>1
      <3> QED
        BY <3>1, <3>2, <3>3 DEF last, PartAnd
    <2> QED
      BY <2>2, <2>3
  <1>9. FoldFrontier(a, nodes) = F[FoldSteps(n)]
    BY <1>1, <1>2, <1>6
  <1>10. Folds(a, nodes, n, F)
    BY <1>1, <1>7, <1>8, <1>9 DEF Folds
  <1> QED
    BY <1>10 DEF n

\* How many children the node of the r-th merge has.
Width(n, r) == First(n, r - 1) - First(n, r) + 1

\* The merge that takes in node f.
FoldEntry(n, f) == CHOOSE e \in 1..FoldSteps(n) : First(n, e) <= f /\ (e = 1 \/ f < First(n, e - 1))

\* Every node is taken in by one merge.
LEMMA Entered ==
  ASSUME NEW n \in Nat, n >= 2, NEW f \in 1..n
  PROVE  /\ FoldEntry(n, f) \in 1..FoldSteps(n) /\ First(n, FoldEntry(n, f)) <= f
         /\ FoldEntry(n, f) = 1 \/ f < First(n, FoldEntry(n, f) - 1)
  <1> DEFINE T == {e \in Nat : e \in 1..FoldSteps(n) /\ First(n, e) <= f}
  <1>1. FoldSteps(n) \in 1..n /\ First(n, FoldSteps(n)) = 1
    BY Stages
  <1>2. FoldSteps(n) \in T
    BY <1>1
  <1>3. PICK e \in T : \A d \in T : e <= d
    BY <1>2, LeastExists
  <1>4. e = 1 \/ f < First(n, e - 1)
    <2> SUFFICES ASSUME e # 1 PROVE f < First(n, e - 1)
      OBVIOUS
    <2>1. e - 1 \in 1..FoldSteps(n) /\ e - 1 \in Nat /\ e - 1 \notin T
      BY <1>1, <1>3
    <2>2. First(n, e - 1) \in 1..n
      BY <1>1, <2>1, Stages
    <2> QED
      BY <2>1, <2>2
  <1>5. e \in 1..FoldSteps(n) /\ First(n, e) <= f
    BY <1>3
  <1> QED
    BY <1>4, <1>5 DEF FoldEntry

-----------------------------------------------------------------------------
(* The tree of a bagging *)

\* The nodes BagTree folds.
PeakNodes(nodes, n, peaks) ==
  nodes = [f \in 1..n |-> [covers |-> {f}, digest |-> peaks[f], children |-> <<>>]]

\* What the node of the r-th merge is.
FoldNode(a, nodes, n, F, r) ==
  /\ Width(n, r) \in Nat /\ Width(n, r) >= 2
  /\ F[r].children = [j \in 1..Width(n, r) |->
                        IF j < Width(n, r) THEN nodes[First(n, r) + j - 1] ELSE F[r - 1]]
  /\ F[r].digest = NaryMr(a, [j \in 1..Width(n, r) |-> F[r].children[j].digest])
  /\ F[r].covers = UNION {F[r].children[j].covers : j \in 1..Width(n, r)}

\* Every merge of the fold takes in the nodes next before it and the merge below.
LEMMA FoldNodes ==
  ASSUME NEW a, NEW n \in Nat, n >= 2, NEW nodes, nodes = [i \in 1..n |-> nodes[i]],
         NEW F, Folds(a, nodes, n, F), NEW r \in 1..FoldSteps(n)
  PROVE  FoldNode(a, nodes, n, F, r)
  <1> DEFINE w == Width(n, r)
             x == First(n, r)
             y == First(n, r - 1) - 1
             e == F[r - 1]
             c == PartAnd(nodes, x, y, e)
  <1>1. r \in 0..FoldSteps(n) /\ r - 1 \in 0..FoldSteps(n)
    BY Stages
  <1>2. x \in 1..n /\ y + 1 \in 1..n /\ x <= y /\ w = y - x + 2 /\ y \in Int
    <2>1. First(n, r) \in 1..n /\ First(n, r - 1) \in 1..n /\ First(n, r) < First(n, r - 1)
      BY <1>1, Stages
    <2> QED
      BY <2>1 DEF Width
  <1>3. F[r] = Inner(a, c)
    BY DEF Folds
  <1> HIDE DEF x, y, w, e
  <1>4. x \in 1..n + 1 /\ y \in x - 1..n /\ w \in Nat /\ w >= 2 /\ y - x + 1 = w - 1
    BY <1>2
  <1>5. c = [j \in 1..y - x + 2 |-> IF j <= y - x + 1 THEN nodes[x + j - 1] ELSE e]
    <2>1. c = PartAndAs(nodes, x, y, e)
      BY <1>4, PartAndOne
    <2> QED
      BY <2>1 DEF PartAndAs
  <1> HIDE DEF c
  <1>6. c = [j \in 1..w |-> IF j < w THEN nodes[x + j - 1] ELSE e]
    <2>1. \A j \in 1..w : j <= y - x + 1 <=> j < w
      BY <1>4
    <2> QED
      BY <1>2, <1>5, <2>1
  <1>7. DOMAIN c = 1..w
    BY <1>6
  <1>8. /\ F[r].children = c
        /\ F[r].digest = NaryMr(a, [j \in DOMAIN c |-> c[j].digest])
        /\ F[r].covers = UNION {c[j].covers : j \in DOMAIN c}
    BY <1>3 DEF Inner
  <1> QED
    BY <1>4, <1>6, <1>7, <1>8 DEF FoldNode, w, x, e

\* It covers the nodes from the first it took in.
LEMMA FoldCovers ==
  ASSUME NEW a, NEW n \in Nat, n >= 2, NEW peaks, NEW nodes, PeakNodes(nodes, n, peaks),
         NEW F, Folds(a, nodes, n, F)
  PROVE  \A r \in 0..FoldSteps(n) : F[r].covers = First(n, r)..n
  <1> DEFINE S == {r \in Nat : r <= FoldSteps(n) => F[r].covers = First(n, r)..n}
  <1>0. nodes = [i \in 1..n |-> nodes[i]] /\ (\A i \in 1..n : nodes[i].covers = {i})
        /\ FoldSteps(n) \in Nat
    BY Stages DEF PeakNodes
  <1>1. 0 \in S
    <2>1. F[0] = nodes[n] /\ First(n, 0) = n
      BY Stages DEF Folds
    <2>2. F[0].covers = {n}
      BY <1>0, <2>1
    <2>3. n..n = {n}
      OBVIOUS
    <2> QED
      BY <2>1, <2>2, <2>3
  <1>2. ASSUME NEW q \in Nat, q \in S PROVE q + 1 \in S
    <2> SUFFICES ASSUME q + 1 <= FoldSteps(n) PROVE F[q + 1].covers = First(n, q + 1)..n
      OBVIOUS
    <2> DEFINE r == q + 1
               w == Width(n, r)
               x == First(n, r)
               z == First(n, q)
               c == F[r].children
    <2>1. r \in 1..FoldSteps(n) /\ r \in 0..FoldSteps(n) /\ q \in 0..FoldSteps(n) /\ r - 1 = q
          /\ q <= FoldSteps(n)
      BY <1>0
    <2>2. x \in 1..n /\ z \in 1..n /\ x < z /\ w = z - x + 1
      <3>1. First(n, r) \in 1..n /\ First(n, r - 1) \in 1..n /\ First(n, r) < First(n, r - 1)
        BY <2>1, Stages
      <3> QED
        BY <2>1, <3>1 DEF Width
    <2>3. F[q].covers = z..n
      BY <1>2, <2>1
    <2>4. FoldNode(a, nodes, n, F, r)
      BY <1>0, <2>1, FoldNodes
    <2>5. c = [j \in 1..w |-> IF j < w THEN nodes[x + j - 1] ELSE F[q]]
          /\ F[r].covers = UNION {c[j].covers : j \in 1..w}
      BY <2>1, <2>4 DEF FoldNode
    <2> HIDE DEF c, w, x, z, r
    <2>6. \A j \in 1..w : c[j].covers = IF j < w THEN {x + j - 1} ELSE z..n
      <3> SUFFICES ASSUME NEW j \in 1..w PROVE c[j].covers = IF j < w THEN {x + j - 1} ELSE z..n
        OBVIOUS
      <3>1. CASE j < w
        <4>1. x + j - 1 \in 1..n
          BY <2>2, <3>1
        <4>2. c[j] = nodes[x + j - 1]
          BY <2>5, <3>1
        <4> QED
          BY <1>0, <3>1, <4>1, <4>2
      <3>2. CASE ~(j < w)
        BY <2>3, <2>5, <3>2
      <3> QED
        BY <3>1, <3>2
    <2>7. ASSUME NEW i \in x..n PROVE \E j \in 1..w : i \in c[j].covers
      <3>1. CASE i < z
        <4>1. i - x + 1 \in 1..w /\ i - x + 1 < w /\ x + (i - x + 1) - 1 = i
          BY <2>2, <3>1
        <4> QED
          BY <2>6, <4>1
      <3>2. CASE ~(i < z)
        <4>1. w \in 1..w /\ ~(w < w) /\ i \in z..n
          BY <2>2, <3>2
        <4> QED
          BY <2>6, <4>1
      <3> QED
        BY <3>1, <3>2
    <2>8. ASSUME NEW j \in 1..w, NEW i \in c[j].covers PROVE i \in x..n
      <3>1. CASE j < w
        <4>1. i = x + j - 1
          BY <2>6, <3>1
        <4> QED
          BY <2>2, <3>1, <4>1
      <3>2. CASE ~(j < w)
        <4>1. i \in z..n
          BY <2>6, <3>2
        <4> QED
          BY <2>2, <4>1
      <3> QED
        BY <3>1, <3>2
    <2>9. F[r].covers = x..n
      BY <2>5, <2>7, <2>8
    <2> QED
      BY <2>9 DEF r, x
  <1> HIDE DEF S
  <1>3. \A r \in Nat : r \in S
    BY <1>1, <1>2, SetInduction
  <1> QED
    BY <1>0, <1>3 DEF S

\* The child toward a node: itself where it is taken in, then always the last one.
ChildToward(n, r, f) == IF f < First(n, r - 1) THEN f - First(n, r) + 1 ELSE Width(n, r)

\* The child of a merge toward peak f is the one counted out above.
LEMMA FoldToward ==
  ASSUME NEW a, NEW n \in Nat, n >= 2, NEW peaks, NEW nodes, PeakNodes(nodes, n, peaks),
         NEW F, Folds(a, nodes, n, F), NEW r \in 1..FoldSteps(n), NEW f \in First(n, r)..n
  PROVE  Toward(F[r], f) = ChildToward(n, r, f)
  <1> DEFINE w == Width(n, r)
             x == First(n, r)
             z == First(n, r - 1)
             c == F[r].children
  <1>1. nodes = [i \in 1..n |-> nodes[i]] /\ (\A i \in 1..n : nodes[i].covers = {i})
        /\ FoldSteps(n) \in Nat
    BY Stages DEF PeakNodes
  <1>2. r \in 0..FoldSteps(n) /\ r - 1 \in 0..FoldSteps(n)
    BY <1>1
  <1>3. x \in 1..n /\ z \in 1..n /\ x < z /\ w = z - x + 1
    <2>1. First(n, r) \in 1..n /\ First(n, r - 1) \in 1..n /\ First(n, r) < First(n, r - 1)
      BY <1>2, Stages
    <2> QED
      BY <2>1 DEF Width
  <1>4. F[r - 1].covers = z..n
    BY <1>2, FoldCovers
  <1>5. c = [j \in 1..w |-> IF j < w THEN nodes[x + j - 1] ELSE F[r - 1]]
    <2>1. FoldNode(a, nodes, n, F, r)
      BY <1>1, FoldNodes
    <2> QED
      BY <2>1 DEF FoldNode
  <1>6. Toward(F[r], f) = CHOOSE j \in DOMAIN c : f \in c[j].covers
    BY DEF Toward
  <1>7. f \in x..n
    OBVIOUS
  <1> HIDE DEF w, x, z, c
  <1>8. DOMAIN c = 1..w
    BY <1>5
  <1>9. \A j \in 1..w : c[j].covers = IF j < w THEN {x + j - 1} ELSE z..n
    <2> SUFFICES ASSUME NEW j \in 1..w PROVE c[j].covers = IF j < w THEN {x + j - 1} ELSE z..n
      OBVIOUS
    <2>1. CASE j < w
      <3>1. x + j - 1 \in 1..n
        BY <1>3, <2>1
      <3>2. c[j] = nodes[x + j - 1]
        BY <1>5, <2>1
      <3> QED
        BY <1>1, <2>1, <3>1, <3>2
    <2>2. CASE ~(j < w)
      BY <1>4, <1>5, <2>2
    <2> QED
      BY <2>1, <2>2
  <1> DEFINE t == IF f < z THEN f - x + 1 ELSE w
  <1>10. t \in 1..w /\ f \in c[t].covers
    <2>1. CASE f < z
      <3>1. t = f - x + 1 /\ t \in 1..w /\ t < w /\ x + t - 1 = f
        BY <1>3, <1>7, <2>1
      <3> HIDE DEF t
      <3> QED
        BY <1>9, <3>1
    <2>2. CASE ~(f < z)
      <3>1. t = w /\ w \in 1..w /\ ~(w < w) /\ f \in z..n
        BY <1>3, <1>7, <2>2
      <3> HIDE DEF t
      <3> QED
        BY <1>9, <3>1
    <2> QED
      BY <2>1, <2>2
  <1>11. ASSUME NEW j \in 1..w, f \in c[j].covers PROVE j = t
    <2>1. CASE j < w
      <3>1. f = x + j - 1
        BY <1>9, <1>11, <2>1
      <3>2. f < z /\ f - x + 1 = j
        BY <1>3, <2>1, <3>1
      <3> QED
        BY <3>2
    <2>2. CASE ~(j < w)
      <3>1. f \in z..n /\ j = w
        <4>1. j = w
          BY <1>3, <2>2
        <4>2. c[j].covers = z..n
          BY <1>9, <2>2
        <4> QED
          BY <1>11, <4>1, <4>2
      <3> QED
        BY <1>3, <3>1
    <2> QED
      BY <2>1, <2>2
  <1> HIDE DEF t
  <1>12. Toward(F[r], f) = t
    BY <1>6, <1>8, <1>10, <1>11
  <1> QED
    BY <1>12 DEF ChildToward, t, w, x, z

\* Its digest is one when those of the nodes are.
Readable(peaks, n) == \A i \in 1..n : peaks[i] # Corrupted

\* All digests the fold meets are readable.
FoldReadable(n, F) ==
  /\ \A r \in 0..FoldSteps(n) : F[r].digest # Corrupted
  /\ \A r \in 1..FoldSteps(n) : \A j \in 1..Width(n, r) : F[r].children[j].digest # Corrupted

\* They are when all peaks are: a hash of digests is a digest.
LEMMA FoldDigests ==
  ASSUME NEW a, NEW n \in Nat, n >= 2, NEW peaks, NEW nodes, PeakNodes(nodes, n, peaks),
         NEW F, Folds(a, nodes, n, F), Readable(peaks, n)
  PROVE  FoldReadable(n, F)
  <1> DEFINE S == {r \in Nat : r <= FoldSteps(n) => F[r].digest # Corrupted}
  <1>1. nodes = [i \in 1..n |-> nodes[i]] /\ (\A i \in 1..n : nodes[i].digest # Corrupted)
        /\ FoldSteps(n) \in Nat
    BY Stages DEF PeakNodes, Readable
  <1>2. 0 \in S
    <2>1. F[0] = nodes[n]
      BY DEF Folds
    <2> QED
      BY <1>1, <2>1
  <1>3. ASSUME NEW r \in 1..FoldSteps(n), F[r - 1].digest # Corrupted
        PROVE  F[r].digest # Corrupted /\ \A j \in 1..Width(n, r) : F[r].children[j].digest # Corrupted
    <2> DEFINE w == Width(n, r)
               c == F[r].children
               d == [j \in 1..w |-> c[j].digest]
    <2>1. w \in Nat /\ w >= 2 /\ F[r].digest = NaryMr(a, d)
          /\ c = [j \in 1..w |-> IF j < w THEN nodes[First(n, r) + j - 1] ELSE F[r - 1]]
      <3>1. FoldNode(a, nodes, n, F, r)
        BY <1>1, FoldNodes
      <3> QED
        BY <3>1 DEF FoldNode
    <2>2. First(n, r) \in Nat /\ First(n, r) >= 1 /\ First(n, r) + w - 1 <= n
      <3>1. r \in 0..FoldSteps(n) /\ r - 1 \in 0..FoldSteps(n)
        BY <1>1
      <3>2. First(n, r) \in 1..n /\ First(n, r - 1) \in 1..n
        BY <3>1, Stages
      <3> QED
        BY <3>2 DEF Width
    <2> HIDE DEF c, w
    <2>3. ASSUME NEW j \in 1..w PROVE c[j].digest # Corrupted
      <3>1. CASE j < w
        <4>1. First(n, r) + j - 1 \in 1..n
          BY <2>1, <2>2, <3>1
        <4>2. c[j] = nodes[First(n, r) + j - 1]
          BY <2>1, <3>1
        <4> QED
          BY <1>1, <4>1, <4>2
      <3>2. CASE ~(j < w)
        BY <1>3, <2>1, <3>2
      <3> QED
        BY <3>1, <3>2
    <2>4. d = [j \in 1..w |-> d[j]] /\ d[1] # Corrupted
      <3>1. 1 \in 1..w
        BY <2>1
      <3> QED
        BY <2>3, <3>1
    <2> HIDE DEF d
    <2>5. NaryMr(a, d) = d[1] \/ NaryMr(a, d) = NodeHash(a, d)
      <3>1. w \in Nat \ {0}
        BY <2>1
      <3> QED
        BY <2>4, <3>1, NaryOf
    <2> QED
      BY <2>1, <2>3, <2>4, <2>5, Forms DEF c, w
  <1>4. ASSUME NEW q \in Nat, q \in S PROVE q + 1 \in S
    <2> SUFFICES ASSUME q + 1 <= FoldSteps(n) PROVE F[q + 1].digest # Corrupted
      OBVIOUS
    <2>1. q + 1 \in 1..FoldSteps(n) /\ (q + 1) - 1 = q /\ q <= FoldSteps(n)
      BY <1>1
    <2>2. F[(q + 1) - 1].digest # Corrupted
      BY <1>4, <2>1
    <2> QED
      BY <1>3, <2>1, <2>2
  <1> HIDE DEF S
  <1>5. \A r \in Nat : r \in S
    BY <1>2, <1>4, SetInduction
  <1>6. \A r \in 0..FoldSteps(n) : F[r].digest # Corrupted
    BY <1>1, <1>5 DEF S
  <1>7. ASSUME NEW r \in 1..FoldSteps(n), NEW j \in 1..Width(n, r)
        PROVE  F[r].children[j].digest # Corrupted
    <2>1. r - 1 \in 0..FoldSteps(n)
      BY <1>1
    <2> QED
      BY <1>3, <1>6, <2>1
  <1> QED
    BY <1>6, <1>7 DEF FoldReadable

\* How many of the merges are above peak f, and which child of the m-th of them
\* covers it.
BagLevels(n, f) == IF n = 1 THEN 0 ELSE FoldSteps(n) - FoldEntry(n, f) + 1
Turn(n, f, m) == IF m = 1 THEN f - First(n, FoldEntry(n, f)) + 1 ELSE Width(n, FoldEntry(n, f) + m - 1)

\* From peak f up to the root of the bagging.
BagLine(a, peaks, n, f, v) ==
  /\ Line(a, v, BagLevels(n, f), f) /\ BagLevels(n, f) \in 0..n
  /\ v[0].digest = peaks[f] /\ v[BagLevels(n, f)] = BagTree(a, peaks)
  /\ \A m \in 1..BagLevels(n, f) :
       /\ Toward(v[m], f) = Turn(n, f, m)
       /\ Len(v[m].children) = Width(n, FoldEntry(n, f) + m - 1)
  /\ Readable(peaks, n) =>
       \A m \in 1..BagLevels(n, f) : \A j \in DOMAIN v[m].children : v[m].children[j].digest # Corrupted

\* There is such a line from every peak to the root.
LEMMA BagLined ==
  ASSUME NEW a, NEW n \in Nat \ {0}, NEW peaks, peaks = [i \in 1..n |-> peaks[i]], NEW f \in 1..n
  PROVE  \E v : BagLine(a, peaks, n, f, v)
  <1> DEFINE nodes == [i \in DOMAIN peaks |-> [covers |-> {i}, digest |-> peaks[i], children |-> <<>>]]
  <1>1. BagTree(a, peaks) = FoldFrontier(a, nodes)
    BY DEF BagTree
  <1>2. DOMAIN peaks = 1..n
    OBVIOUS
  <1> DEFINE list == [i \in 1..n |-> [covers |-> {i}, digest |-> peaks[i], children |-> <<>>]]
  <1>3. nodes = list
    BY <1>2
  <1> HIDE DEF nodes
  <1>4. list = [i \in 1..n |-> list[i]] /\ PeakNodes(list, n, peaks)
        /\ (\A i \in 1..n : list[i].digest = peaks[i] /\ list[i].children = <<>>)
    BY DEF PeakNodes
  <1> HIDE DEF list
  <1>5. Len(list) = n
    BY <1>4, FcnIsSeq
  <1>6. CASE n = 1
    <2> DEFINE v == [m \in {0} |-> list[1]]
    <2>1. FoldFrontier(a, list) = list[1]
      BY <1>5, <1>6 DEF FoldFrontier
    <2>2. v[0] = list[1] /\ f = 1 /\ BagLevels(n, f) = 0
      BY <1>6 DEF BagLevels
    <2> HIDE DEF v
    <2>3. BagLine(a, peaks, n, f, v)
      <3>1. v[0].children = <<>> /\ v[0].digest = peaks[f] /\ v[0] = BagTree(a, peaks)
        BY <1>1, <1>3, <1>4, <1>6, <2>1, <2>2
      <3>2. Line(a, v, 0, f)
        BY <3>1 DEF Line
      <3>3. 0 \in 0..n /\ 1..0 = {}
        OBVIOUS
      <3> QED
        BY <2>2, <3>1, <3>2, <3>3 DEF BagLine
    <2> QED
      BY <2>3
  <1>7. CASE n # 1
    <2>1. n >= 2
      BY <1>7
    <2>2. PICK F : Folds(a, list, n, F)
      BY <1>5, <2>1, FoldIs
    <2> DEFINE e == FoldEntry(n, f)
               l == FoldSteps(n) - e + 1
               v == [m \in 0..l |-> IF m = 0 THEN list[f] ELSE F[e + m - 1]]
    <2>3. e \in 1..FoldSteps(n) /\ First(n, e) <= f /\ (e = 1 \/ f < First(n, e - 1))
          /\ FoldSteps(n) \in 1..n
      BY <2>1, Entered, Stages
    <2>4. BagLevels(n, f) = l
      BY <1>7 DEF BagLevels
    <2>5. l \in 1..n /\ e + l - 1 = FoldSteps(n)
      BY <2>3
    <2>6. v[0] = list[f] /\ \A m \in 1..l : v[m] = F[e + m - 1]
      BY <2>5
    <2> HIDE DEF v, l, e
    <2>7. v[l] = BagTree(a, peaks)
      <3>1. v[l] = F[FoldSteps(n)]
        BY <2>5, <2>6
      <3> QED
        BY <1>1, <1>3, <2>2, <3>1 DEF Folds
    <2>8. \A r \in 1..FoldSteps(n) : First(n, r) \in 1..n /\ First(n, r - 1) \in 1..n
                                     /\ First(n, r) < First(n, r - 1)
      <3> SUFFICES ASSUME NEW r \in 1..FoldSteps(n)
                   PROVE  First(n, r) \in 1..n /\ First(n, r - 1) \in 1..n
                          /\ First(n, r) < First(n, r - 1)
        OBVIOUS
      <3>1. r \in 0..FoldSteps(n) /\ r - 1 \in 0..FoldSteps(n)
        BY <2>3
      <3> QED
        BY <2>1, <3>1, Stages
    \* Above its entry the node is in the last child.
    <2>9. \A r \in e..FoldSteps(n) : First(n, r) <= f
      <3> DEFINE S == {k \in Nat : e + k <= FoldSteps(n) => First(n, e + k) <= f}
      <3>1. 0 \in S
        BY <2>3
      <3>2. ASSUME NEW k \in Nat, k \in S PROVE k + 1 \in S
        <4> SUFFICES ASSUME e + (k + 1) <= FoldSteps(n) PROVE First(n, e + (k + 1)) <= f
          OBVIOUS
        <4> DEFINE r == e + (k + 1)
        <4>1. r \in 1..FoldSteps(n) /\ r - 1 = e + k /\ e + k <= FoldSteps(n)
          BY <2>3
        <4>2. First(n, r) < First(n, e + k) /\ First(n, r) \in Int /\ First(n, e + k) \in Int
          <5>1. First(n, r) \in 1..n /\ First(n, r - 1) \in 1..n /\ First(n, r) < First(n, r - 1)
            BY <2>8, <4>1
          <5> QED
            BY <4>1, <5>1
        <4>3. First(n, e + k) <= f
          BY <3>2, <4>1
        <4> HIDE DEF r
        <4>4. First(n, r) <= f
          BY <4>2, <4>3
        <4> QED
          BY <4>4 DEF r
      <3> HIDE DEF S
      <3>3. \A k \in Nat : k \in S
        BY <3>1, <3>2, SetInduction
      <3> SUFFICES ASSUME NEW r \in e..FoldSteps(n) PROVE First(n, r) <= f
        OBVIOUS
      <3>4. r - e \in Nat /\ e + (r - e) = r /\ e + (r - e) <= FoldSteps(n)
        BY <2>3
      <3>5. First(n, e + (r - e)) <= f
        BY <3>3, <3>4 DEF S
      <3> QED
        BY <3>4, <3>5
    <2>10. ASSUME NEW m \in 1..l
           PROVE  /\ Above(a, v[m - 1], v[m], f) /\ Toward(v[m], f) = Turn(n, f, m)
                  /\ Len(v[m].children) = Width(n, FoldEntry(n, f) + m - 1)
                  /\ Readable(peaks, n) =>
                       \A j \in DOMAIN v[m].children : v[m].children[j].digest # Corrupted
      <3> DEFINE r == e + m - 1
                 w == Width(n, r)
                 c == F[r].children
      <3>1. r \in 1..FoldSteps(n) /\ r \in e..FoldSteps(n) /\ v[m] = F[r]
        <4>1. r \in 1..FoldSteps(n) /\ r \in e..FoldSteps(n)
          BY <2>3, <2>5
        <4> QED
          BY <2>6, <4>1
      <3>2. w \in Nat /\ w >= 2 /\ F[r].digest = NaryMr(a, [j \in 1..w |-> c[j].digest])
            /\ c = [j \in 1..w |-> IF j < w THEN list[First(n, r) + j - 1] ELSE F[r - 1]]
        <4> HIDE DEF r
        <4>1. FoldNode(a, list, n, F, r)
          BY <1>4, <2>1, <2>2, <3>1, FoldNodes
        <4> QED
          BY <4>1 DEF FoldNode
      <3>3. First(n, r) \in 1..n /\ First(n, r - 1) \in 1..n /\ First(n, r) < First(n, r - 1)
            /\ w = First(n, r - 1) - First(n, r) + 1 /\ First(n, r) <= f
        BY <2>8, <2>9, <3>1 DEF Width
      <3>4. f \in First(n, r)..n
        BY <3>3
      <3>5. Toward(F[r], f) = IF f < First(n, r - 1) THEN f - First(n, r) + 1 ELSE w
        <4>1. Toward(F[r], f) = ChildToward(n, r, f)
          <5> HIDE DEF r
          <5> QED
            BY <1>4, <2>1, <2>2, <3>1, <3>4, FoldToward
        <4> QED
          BY <4>1 DEF ChildToward
      <3> HIDE DEF c
      <3>6. c = [j \in 1..w |-> c[j]] /\ Len(c) = w
        <4>1. c = [j \in 1..w |-> c[j]]
          BY <3>2
        <4> QED
          BY <3>2, <4>1, FcnIsSeq
      <3> DEFINE t == Toward(F[r], f)
      <3> HIDE DEF t, w, r
      <3>7. t = Turn(n, f, m) /\ t \in 1..w /\ v[m - 1] = c[t]
        <4>1. CASE m = 1
          <5>1. r = e /\ Turn(n, f, m) = f - First(n, r) + 1 /\ v[m - 1] = list[f]
            BY <2>3, <2>6, <4>1 DEF r, e, Turn
          <5>2. CASE f < First(n, r - 1)
            <6>1. t = f - First(n, r) + 1 /\ t \in 1..w /\ t < w /\ First(n, r) + t - 1 = f
              BY <3>3, <3>5, <5>2 DEF t
            <6> QED
              BY <3>2, <5>1, <6>1
          <5>3. CASE ~(f < First(n, r - 1))
            <6>1. r = 1
              BY <2>3, <5>1, <5>3
            <6>2. First(n, r - 1) = n /\ F[r - 1] = list[n]
              BY <2>1, <2>2, <6>1, Stages DEF Folds
            <6>3. f = n /\ t = w /\ w = f - First(n, r) + 1
              BY <3>3, <3>5, <5>3, <6>2 DEF t
            <6>4. w \in 1..w /\ ~(w < w)
              BY <3>2
            <6> QED
              BY <3>2, <5>1, <6>2, <6>3, <6>4
          <5> QED
            BY <5>2, <5>3
        <4>2. CASE m # 1
          <5>1. m - 1 \in 1..l /\ e + (m - 1) - 1 = r - 1 /\ r - 1 \in e..FoldSteps(n)
            BY <2>3, <2>5, <4>2 DEF r
          <5>2. v[m - 1] = F[r - 1] /\ First(n, r - 1) <= f
            BY <2>6, <2>9, <5>1
          <5>3. t = w /\ Turn(n, f, m) = w
            BY <3>3, <3>5, <4>2, <5>2 DEF t, Turn, w, r, e
          <5>4. w \in 1..w /\ ~(w < w)
            BY <3>2
          <5> QED
            BY <3>2, <5>2, <5>3, <5>4
        <4> QED
          BY <4>1, <4>2
      <3>8. Above(a, v[m - 1], v[m], f)
        BY <3>1, <3>2, <3>6, <3>7 DEF Above, c, t
      <3>9. ASSUME Readable(peaks, n)
            PROVE  \A j \in DOMAIN v[m].children : v[m].children[j].digest # Corrupted
        <4>1. \A j \in 1..w : c[j].digest # Corrupted
          <5>1. FoldReadable(n, F)
            BY <1>4, <2>1, <2>2, <3>9, FoldDigests
          <5> QED
            BY <3>1, <5>1 DEF FoldReadable, c, w
        <4>2. DOMAIN c = 1..w
          BY <3>6
        <4> QED
          BY <3>1, <4>1, <4>2 DEF c
      <3> QED
        BY <3>1, <3>6, <3>7, <3>8, <3>9 DEF t, c, w, r, e
    <2>11. Line(a, v, l, f)
      <3>1. v[0].children = <<>>
        BY <1>4, <2>6
      <3> QED
        BY <2>10, <3>1 DEF Line
    <2>12. v[0].digest = peaks[f]
      BY <1>4, <2>6
    <2>13. BagLine(a, peaks, n, f, v)
      BY <2>4, <2>5, <2>7, <2>10, <2>11, <2>12 DEF BagLine
    <2> QED
      BY <2>13
  <1> QED
    BY <1>6, <1>7

=============================================================================
