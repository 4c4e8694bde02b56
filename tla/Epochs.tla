------------------------------- MODULE Epochs -------------------------------
(***************************************************************************)
(* The activation timeline of one algorithm of a log: a sequence of        *)
(* half-open intervals <<start, end>> of log positions, an active          *)
(* algorithm's last interval being open.  The code writes u64::MAX for the *)
(* end of an open interval and compares it like any other number; `Open`   *)
(* stands for it.  An unregistered algorithm is the empty sequence.        *)
(***************************************************************************)
EXTENDS Naturals, Sequences, FiniteSetsExt

CONSTANT Open

ASSUME OpenAssumption == Open \in Nat

Interval == Nat \X Nat

LastEpoch(eps) == eps[Len(eps)]

-----------------------------------------------------------------------------
(* One algorithm's timeline: the queries of AlgView. *)

IsActive(eps) == eps # <<>> /\ LastEpoch(eps)[2] = Open

IsActiveAt(eps, i) == \E e \in DOMAIN eps : eps[e][1] <= i /\ i < eps[e][2]

\* How many positions the algorithm's own tree spans when the log has `count`.
TreeSize(eps, count) == IF eps = <<>> THEN 0
                        ELSE IF IsActive(eps) THEN count ELSE LastEpoch(eps)[2]

FirstActivation(eps) == IF eps = <<>> THEN 0 ELSE eps[1][1]

\* Some interval meets [lo, hi). An empty interval strictly inside counts.
ActiveRange(eps, lo, hi) == \E e \in DOMAIN eps : eps[e][1] < hi /\ eps[e][2] > lo

FullyActive(eps, lo, hi) == \E e \in DOMAIN eps : eps[e][1] <= lo /\ hi <= eps[e][2]

\* The size of the algorithm's tree when the log had `size` positions.
EffectiveSizeAt(eps, size) ==
  IF size <= FirstActivation(eps) THEN size
  ELSE IF IsActiveAt(eps, size - 1) THEN size
  ELSE LET ended == {eps[e][2] : e \in {x \in DOMAIN eps : eps[x][2] < size}}
       IN  IF ended = {} THEN 0 ELSE Max(ended)

\* Keeps the end an interval got later than `size`.
EpochsAtKeepingEnd(eps, size) == SelectSeq(eps, LAMBDA e : e[1] <= size)

\* The timeline as it stood at `size`: intervals that start later are dropped,
\* the one that ends later is shown open and is the last.
EpochsAt(eps, size) ==
  LET cut == {e \in DOMAIN eps : eps[e][1] > size \/ eps[e][2] > size}
      first == CHOOSE e \in cut : \A f \in cut : e <= f
  IN  IF cut = {} THEN eps
      ELSE IF eps[first][1] > size THEN SubSeq(eps, 1, first - 1)
      ELSE Append(SubSeq(eps, 1, first - 1), <<eps[first][1], Open>>)

-----------------------------------------------------------------------------
(* What a reader of a timeline requires of it. *)

\* Intervals ordered and disjoint, only the last one open, nothing beyond `size`.
ValidEpochs(eps, size) ==
  /\ eps # <<>>
  /\ \A e \in DOMAIN eps :
       /\ eps[e][1] <= eps[e][2]
       /\ e > 1 => eps[e][1] >= eps[e - 1][2]
       /\ IF eps[e][2] = Open THEN e = Len(eps) /\ eps[e][1] <= size
                              ELSE eps[e][2] <= size

\* `new` at `newSize` is an append-only continuation of `old` at `oldSize`,
\* for one algorithm known to both.
EvolvesFrom(old, oldSize, new) ==
  LET last == Len(old)
  IN  /\ Len(new) >= last
      /\ \A e \in 1..last - 1 : new[e] = old[e]
      /\ new[last][1] = old[last][1]
      /\ IF old[last][2] = Open THEN new[last][2] = Open \/ new[last][2] >= oldSize
                                ELSE new[last][2] = old[last][2]
      /\ \A e \in last + 1..Len(new) : new[e][1] >= oldSize

\* A verifier's decision on two committed timelines, functions from algorithms
\* to interval sequences in which <<>> means "not in the timeline".
VerifyEpochEvolution(old, oldSize, new, newSize) ==
  /\ oldSize <= newSize
  /\ \A a \in DOMAIN old : old[a] # <<>> => ValidEpochs(old[a], oldSize)
  /\ \A a \in DOMAIN new : new[a] # <<>> => ValidEpochs(new[a], newSize)
  /\ \A a \in DOMAIN old :
       IF old[a] # <<>> THEN new[a] # <<>> /\ EvolvesFrom(old[a], oldSize, new[a])
       ELSE new[a] # <<>> => new[a][1][1] >= oldSize
=============================================================================
