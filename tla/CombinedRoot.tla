---------------------------- MODULE CombinedRoot ----------------------------
(***************************************************************************)
(* The combinator's root over several algorithms: the member roots of the  *)
(* algorithms active at the last position, folded under one algorithm's    *)
(* hash together with a digest of every algorithm's null runs.             *)
(***************************************************************************)
EXTENDS Spine, Epochs, SequencesExt

-----------------------------------------------------------------------------
(* Null runs *)

\* Blocks need not start at a multiple of their size.
NullBlockHeightUnaligned(left, right) ==
  CHOOSE h \in 0..right : BlockSize(h) <= right - left /\ right - left < BlockSize(h + 1)

\* The height of the largest aligned block that starts at `left` and ends by
\* `right`.
NullBlockHeight(left, right) ==
  LET fits(h) == left % BlockSize(h) = 0 /\ left + BlockSize(h) <= right
  IN  CHOOSE h \in 0..right : fits(h) /\ ~fits(h + 1)

\* The maximal spans <<left, right>> of positions below `size` at which the
\* timeline is inactive.
InactiveGaps(eps, size) ==
  LET idle(i) == ~IsActiveAt(eps, i)
  IN  {g \in (0..size) \X (0..size) :
         /\ g[1] < g[2]
         /\ \A i \in g[1]..g[2] - 1 : idle(i)
         /\ g[1] > 0 => ~idle(g[1] - 1)
         /\ g[2] < size => ~idle(g[2])}

\* The aligned blocks a gap splits into, greedily from its left end.
DecomposeGap(gap) ==
  LET blocks[left \in gap[1]..gap[2]] ==
        IF left = gap[2] THEN {}
        ELSE LET h == NullBlockHeight(left, gap[2])
             IN  {<<left, h>>} \cup blocks[left + BlockSize(h)]
  IN  blocks[gap[1]]

NullRuns(eps, size) == UNION {DecomposeGap(g) : g \in InactiveGaps(eps, size)}

\* The null runs of every algorithm in a timeline (<<>> means "not in it"),
\* without the algorithms that have none.
AllNullRuns(timeline, size) ==
  LET runs == [a \in DOMAIN timeline |->
                 IF timeline[a] = <<>> THEN {} ELSE NullRuns(timeline[a], size)]
  IN  [a \in {b \in DOMAIN runs : runs[b] # {}} |-> runs[a]]

-----------------------------------------------------------------------------
(* The fold *)

\* The algorithms whose intervals cover the last of `size` positions.
CommittedActiveAlgs(timeline, size) ==
  {a \in DOMAIN timeline : size > 0 /\ IsActiveAt(timeline[a], size - 1)}

\* The ids from the smallest up.
InIdOrder(ids) ==
  CHOOSE s \in [1..Cardinality(ids) -> ids] : \A i, j \in DOMAIN s : i < j => s[i] < s[j]

\* The root under a's hash over `members`, a function from algorithm ids to
\* their member roots: children in id order, then the coverage child exactly
\* when some algorithm of the timeline has a null run.
CombinedRoot(a, members, timeline, size) ==
  LET ids == InIdOrder(DOMAIN members)
      runs == AllNullRuns(timeline, size)
      coverage == IF DOMAIN runs = {} THEN <<>> ELSE <<DataHash(a, <<size, runs>>)>>
  IN  NaryMr(a, [i \in 1..Len(ids) |-> members[ids[i]]] \o coverage)
=============================================================================
