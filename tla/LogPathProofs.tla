--------------------------- MODULE LogPathProofs ---------------------------
(***************************************************************************)
(* Theorems about the proofs a log gives out, for any arity, any set of    *)
(* algorithms and any capacity: in every reachable state every position of *)
(* every size an algorithm had is proved to the root the log showed at     *)
(* that size, every size is proved to extend every smaller one, and what a *)
(* proof has below its peak stays the beginning of the proofs to come.     *)
(*                                                                         *)
(* The argument goes through one notion: a path leads from one digest to   *)
(* another (Leads).  A climb within a mountain leads from any block of the *)
(* log to the peak above it, as the reference is a tree (ClimbLeads); the  *)
(* bagging path leads from the peak to the root (BagPathIs).  Both have    *)
(* the shapes the verifier derives from the size and the position alone    *)
(* (SkeletonIs).  For consistency, what a climb from the last old peak     *)
(* leaves to its left are the old peaks it merges with                     *)
(* (OldPeaksGathered).                                                     *)
(*                                                                         *)
(* Then proofs against a combined root: a coupling proof opens every       *)
(* combined root the log showed to the member roots and the committed      *)
(* timeline, for any finite set of algorithms; and whether an algorithm    *)
(* was active at a position can be shown, and not denied.  A combined root *)
(* is the parent of the member roots and of a digest of the null runs, if  *)
(* there are any.  The parent of children that are all alike is that child *)
(* (CollapseShows says that this is told apart from a hash), otherwise it  *)
(* hashes all of them.  As a digest tells its algorithm (OfAlgorithm),     *)
(* equal combined roots over the same algorithms have the same members     *)
(* (SameMembers).                                                          *)
(***************************************************************************)
EXTENDS BoundProofs, PolydigestLogProofs, FiniteSetTheorems

-----------------------------------------------------------------------------
(* The blocks above a position *)

\* The multiple of d at or before x.
LEMMA Quotient ==
  ASSUME NEW x \in Nat, NEW d \in Nat \ {0}
  PROVE  x \div d \in Nat /\ (x \div d) * d <= x /\ x < (x \div d) * d + d /\ (x \div d) * d \in Nat
  <1> DEFINE q == x \div d
             r == x % d
  <1>1. x = d * q + r /\ q \in Int /\ r \in 0..d - 1
    OBVIOUS
  <1> HIDE DEF q, r
  <1>2. q >= 0
    <2>1. SUFFICES ASSUME q <= -1 PROVE FALSE
      BY <1>1
    <2>2. d * q <= -d
      BY <1>1, <2>1
    <2> QED
      BY <1>1, <2>2
  <1>3. q * d \in Nat /\ q * d <= x /\ x < q * d + d
    BY <1>1, <1>2
  <1> QED
    BY <1>1, <1>2, <1>3 DEF q

\* It is the only one.
LEMMA QuotientIs ==
  ASSUME NEW x \in Nat, NEW d \in Nat \ {0}, NEW q \in Nat, q * d <= x, x < q * d + d
  PROVE  x \div d = q
  <1> DEFINE p == x \div d
  <1>1. p \in Nat /\ p * d <= x /\ x < p * d + d
    BY Quotient
  <1> HIDE DEF p
  <1>2. ASSUME p < q PROVE FALSE
    <2>1. (p + 1) * d <= q * d
      BY <1>1, <1>2
    <2>2. (p + 1) * d = p * d + d
      BY <1>1
    <2>3. p * d \in Nat /\ q * d \in Nat
      BY <1>1
    <2> DEFINE y == p * d
               z == q * d
    <2> HIDE DEF y, z
    <2>4. y + d <= z /\ x < y + d /\ z <= x /\ y \in Nat /\ z \in Nat
      BY <1>1, <2>1, <2>2, <2>3 DEF y, z
    <2> QED
      BY <2>4
  <1>3. ASSUME q < p PROVE FALSE
    <2>1. (q + 1) * d <= p * d
      BY <1>1, <1>3
    <2>2. (q + 1) * d = q * d + d
      OBVIOUS
    <2>3. p * d \in Nat /\ q * d \in Nat
      BY <1>1
    <2> DEFINE y == p * d
               z == q * d
    <2> HIDE DEF y, z
    <2>4. z + d <= y /\ x < z + d /\ y <= x /\ y \in Nat /\ z \in Nat
      BY <1>1, <2>1, <2>2, <2>3 DEF y, z
    <2> QED
      BY <2>4
  <1> QED
    BY <1>1, <1>2, <1>3 DEF p

\* What is left over.
LEMMA RemainderIs ==
  ASSUME NEW q \in Nat, NEW k \in Nat \ {0}, NEW r \in 0..k - 1
  PROVE  (q * k + r) % k = r
  <1> DEFINE x == q * k + r
             y == q * k
             p == x \div k
             m == x % k
  <1>1. y \in Nat
    OBVIOUS
  <1>2. x \in Nat /\ y <= x /\ x < y + k /\ x = y + r
    BY <1>1
  <1>3. p = q
    <2> HIDE DEF x
    <2> QED
      BY <1>2, QuotientIs
  <1>4. x = k * p + m /\ m \in Int
    <2> HIDE DEF x
    <2> QED
      BY <1>2
  <1>5. k * q = y
    OBVIOUS
  <1> HIDE DEF x, m, y, p
  <1>6. m = r
    BY <1>1, <1>2, <1>3, <1>4, <1>5
  <1> QED
    BY <1>6 DEF m, x

\* The block of height h above position i in a mountain that starts at l.
BlockAt(l, i, h) == l + ((i - l) \div BlockSize(h)) * BlockSize(h)

\* It is within the mountain and around the position.
LEMMA BlockAround ==
  ASSUME NEW l \in Nat, NEW i \in Nat, l <= i, NEW h \in Nat
  PROVE  /\ BlockAt(l, i, h) \in Nat /\ l <= BlockAt(l, i, h)
         /\ BlockAt(l, i, h) <= i /\ i < BlockAt(l, i, h) + BlockSize(h)
         /\ \A g \in Nat : Multiple(l, BlockSize(g)) /\ h <= g => Multiple(BlockAt(l, i, h), BlockSize(h))
         /\ i < l + BlockSize(h) => BlockAt(l, i, h) = l
  <1> DEFINE d == BlockSize(h)
             x == i - l
             q == x \div d
             y == q * d
  <1>1. d \in Nat \ {0} /\ x \in Nat
    BY BlockSizes
  <1>2. BlockAt(l, i, h) = l + y
    BY DEF BlockAt
  <1> HIDE DEF d
  <1>3. q \in Nat /\ y <= x /\ x < y + d /\ y \in Nat
    <2> HIDE DEF x
    <2> QED
      BY <1>1, Quotient
  <1> HIDE DEF q
  <1>4. ASSUME NEW g \in Nat, Multiple(l, BlockSize(g)), h <= g PROVE Multiple(l + y, d)
    <2>1. Multiple(BlockSize(g), d)
      BY <1>4, TallerBlocks DEF d
    <2>2. Multiple(l, d)
      BY <1>1, <1>4, <2>1, BlockSizes, MultipleTransitive
    <2> QED
      BY <1>1, <1>3, <2>2, MultipleAdd
  <1>5. ASSUME i < l + d PROVE y = 0
    <2>1. x < d
      BY <1>1, <1>5
    <2>2. q = 0
      <3> HIDE DEF x, y
      <3>1. 0 * d = 0
        BY <1>1
      <3>2. x \div d = 0
        BY <1>1, <2>1, <3>1, QuotientIs
      <3> QED
        BY <3>2 DEF q
    <2> QED
      BY <1>1, <2>2
  <1> HIDE DEF y
  <1>6. l + y \in Nat /\ l <= l + y /\ l + y <= i /\ i < (l + y) + d
    BY <1>1, <1>3
  <1> QED
    BY <1>2, <1>4, <1>5, <1>6 DEF d

\* A position at which a block of that height starts.
LEMMA BlockStarts ==
  ASSUME NEW l \in Nat, NEW i \in Nat, l <= i, NEW h \in Nat, Multiple(l, BlockSize(h)),
         Multiple(i, BlockSize(h))
  PROVE  BlockAt(l, i, h) = i
  <1> DEFINE b == BlockAt(l, i, h)
  <1>1. b \in Nat /\ b <= i /\ i < b + BlockSize(h) /\ Multiple(b, BlockSize(h))
    BY BlockAround
  <1> HIDE DEF b
  <1>2. ~(b < i)
    <2>1. b < i => b + BlockSize(h) <= i
      BY <1>1, BlockSizes, MultiplesApart
    <2> QED
      BY <1>1, <2>1, BlockSizes
  <1>3. b = i
    BY <1>1, <1>2
  <1> QED
    BY <1>3 DEF b

\* The child of a block toward i.
ChildOf(l, i, h) == (i - BlockAt(l, i, h + 1)) \div BlockSize(h) + 1

\* It is the block of the height below.
LEMMA BlockBelow ==
  ASSUME NEW l \in Nat, NEW i \in Nat, l <= i, NEW h \in Nat
  PROVE  /\ ChildOf(l, i, h) \in 1..Arity
         /\ BlockAt(l, i, h) = BlockAt(l, i, h + 1) + (ChildOf(l, i, h) - 1) * BlockSize(h)
         /\ ((i - l) \div BlockSize(h)) % Arity = ChildOf(l, i, h) - 1
  <1> DEFINE d == BlockSize(h)
             e == BlockSize(h + 1)
             b == BlockAt(l, i, h + 1)
             x == i - l
             z == i - b
             p == x \div e
             r == z \div d
             q == p * Arity + r
  <1>1. Arity \in Nat /\ Arity >= 2 /\ d \in Nat \ {0} /\ e \in Nat \ {0} /\ e = Arity * d
    BY ArityAssumption, BlockSizes
  <1>2. b \in Nat /\ b <= i /\ i < b + e /\ b = l + p * e /\ x \in Nat
    <2>1. b \in Nat /\ b <= i /\ i < b + e
      BY BlockAround
    <2> QED
      BY <2>1 DEF BlockAt
  <1>3. z \in Nat /\ z < e
    <2> HIDE DEF b, e
    <2> QED
      BY <1>1, <1>2
  <1>4. p \in Nat /\ p * e \in Nat
    <2> HIDE DEF x, e
    <2> QED
      BY <1>1, <1>2, Quotient
  <1>5. r \in Nat /\ r * d <= z /\ z < r * d + d /\ r * d \in Nat
    <2> HIDE DEF z, d
    <2> QED
      BY <1>1, <1>3, Quotient
  <1>6. ChildOf(l, i, h) = r + 1
    BY DEF ChildOf
  <1>7. BlockAt(l, i, h) = l + (x \div d) * d
    BY DEF BlockAt
  <1>8. x = p * e + z
    <2> HIDE DEF p, b
    <2> QED
      BY <1>2, <1>4
  <1> HIDE DEF d, e, b, x, z, p, r
  <1>9. r \in 0..Arity - 1
    <2>1. ASSUME r >= Arity PROVE FALSE
      <3>1. r * d >= Arity * d
        BY <1>1, <1>5, <2>1
      <3> QED
        BY <1>1, <1>3, <1>5, <3>1
    <2> QED
      BY <1>1, <1>5, <2>1
  <1>10. q \in Nat /\ q * d = p * e + r * d
    <2>1. q \in Nat
      BY <1>1, <1>4, <1>5
    <2>2. (p * Arity + r) * d = p * (Arity * d) + r * d
      BY <1>1, <1>4, <1>5
    <2> QED
      BY <1>1, <2>1, <2>2
  <1>11. x \div d = q
    <2> DEFINE y == q * d
               u == p * e
               v == r * d
    <2>1. y = u + v /\ x = u + z /\ u \in Nat /\ v \in Nat /\ v <= z /\ z < v + d
      BY <1>4, <1>5, <1>8, <1>10
    <2>2. y <= x /\ x < y + d
      <3> HIDE DEF u, v, y
      <3> QED
        BY <1>1, <1>2, <1>3, <2>1
    <2> HIDE DEF q
    <2> QED
      BY <1>1, <1>2, <1>10, <2>2, QuotientIs
  <1>12. q % Arity = r
    BY <1>1, <1>4, <1>9, RemainderIs
  <1>13. l + q * d = b + r * d
    <2> DEFINE y == q * d
               u == p * e
               v == r * d
    <2>1. y = u + v /\ b = l + u /\ u \in Nat /\ v \in Nat
      BY <1>2, <1>4, <1>5, <1>10
    <2> HIDE DEF u, v, y
    <2>2. l + y = b + v
      BY <1>2, <2>1
    <2> QED
      BY <2>2 DEF y, v
  <1> HIDE DEF q
  <1>14. r + 1 \in 1..Arity /\ (r + 1) - 1 = r
    BY <1>1, <1>9
  <1>15. (x \div d) % Arity = r
    BY <1>11, <1>12
  <1> QED
    BY <1>6, <1>7, <1>11, <1>13, <1>14, <1>15 DEF b, d, x

-----------------------------------------------------------------------------
(* Climbing to a peak *)

\* What is read at a coordinate is the digest r has there.
ReadsAt(a, r, c) == GetNodeHash(a, epochs[a], c[1], c[2]) = r[c] /\ r[c] # Corrupted

\* The j-th child of the block of height g + 1 above i.
Child(l, i, g, j) == <<BlockAt(l, i, g + 1) + (j - 1) * BlockSize(g), g>>

\* What a climb from height `from` asks for reads as r says: the children beside the
\* one it comes from.
Reads(a, r, l, h, i, from) ==
  \A g \in Nat : from <= g /\ g < h =>
    \A j \in 1..Arity : j # ChildOf(l, i, g) => ReadsAt(a, r, Child(l, i, g, j))

\* The children of a block within a mountain are within it.
LEMMA ChildWithin ==
  ASSUME NEW l \in Nat, NEW h \in Nat, Multiple(l, BlockSize(h)),
         NEW i \in Nat, l <= i, i < l + BlockSize(h), NEW g \in Nat, g < h, NEW j \in 1..Arity
  PROVE  <<BlockAt(l, i, g + 1) + (j - 1) * BlockSize(g), g>> \in Inside(l, h)
  <1> DEFINE b == BlockAt(l, i, g + 1)
             x == b + (j - 1) * BlockSize(g)
  <1>1. /\ b \in Nat /\ l <= b /\ b <= i /\ i < b + BlockSize(g + 1)
        /\ Multiple(b, BlockSize(g + 1)) /\ g + 1 <= h /\ g + 1 \in Nat
    <2>1. g + 1 \in Nat /\ g + 1 <= h
      OBVIOUS
    <2> QED
      BY <2>1, BlockAround
  <1> HIDE DEF b
  <1>2. x \in Nat /\ b <= x /\ x + BlockSize(g) <= b + BlockSize(g + 1) /\ Multiple(x, BlockSize(g))
    BY <1>1, Children
  <1>3. b + BlockSize(g + 1) <= l + BlockSize(h)
    <2>1. CASE g + 1 = h
      <3>1. b = l
        BY <2>1, BlockAround DEF b
      <3> QED
        BY <2>1, <3>1, BlockSizes
    <2>2. CASE g + 1 # h
      <3>1. Multiple(BlockSize(h), BlockSize(g + 1)) /\ BlockSize(h) \in Nat /\ BlockSize(g + 1) \in Nat \ {0}
        BY <1>1, TallerBlocks, BlockSizes
      <3>2. Multiple(l, BlockSize(g + 1))
        BY <3>1, MultipleTransitive
      <3>3. Multiple(l + BlockSize(h), BlockSize(g + 1))
        <4>1. PICK p \in Nat : l = p * BlockSize(g + 1)
          BY <3>2 DEF Multiple
        <4>2. PICK q \in Nat : BlockSize(h) = q * BlockSize(g + 1)
          BY <3>1 DEF Multiple
        <4>3. l + BlockSize(h) = (p + q) * BlockSize(g + 1) /\ p + q \in Nat
          BY <3>1, <4>1, <4>2
        <4> QED
          BY <4>3 DEF Multiple
      <3>4. b < l + BlockSize(h) /\ l + BlockSize(h) \in Nat
        BY <1>1, <3>1
      <3> QED
        BY <1>1, <3>1, <3>3, <3>4, MultiplesApart
    <2> QED
      BY <2>1, <2>2
  <1> HIDE DEF x
  <1>4. x + BlockSize(g) <= l + BlockSize(h) /\ l <= x
    <2>1. BlockSize(g) \in Nat /\ BlockSize(h) \in Nat /\ BlockSize(g + 1) \in Nat
      BY <1>1, BlockSizes
    <2> QED
      BY <1>1, <1>2, <1>3, <2>1
  <1> QED
    BY <1>2, <1>4 DEF Inside, Coordinates, End, x, b

\* The step at height g + 1.
ClimbStep(a, l, i, g) ==
  StepFrom(ChildOf(l, i, g),
           [j \in 1..Arity |-> GetNodeHash(a, epochs[a], BlockAt(l, i, g + 1) + (j - 1) * BlockSize(g), g)])

\* It takes the block of height g above i to the one of height g + 1.
Climbs(a, r, l, h, i, g, step) ==
  /\ Lifts(a, step, r[<<BlockAt(l, i, g), g>>], r[<<BlockAt(l, i, g + 1), g + 1>>])
  /\ Shape(step) = [position |-> ((i - l) \div BlockSize(g)) % Arity, siblings |-> Arity - 1]
  /\ Corrupted \notin ToSet(step.siblings)

\* Two sequences of n that agree but for the k-th.
AlikeBut(s, d, n, k) ==
  /\ n \in Nat /\ k \in 1..n /\ s = [j \in 1..n |-> s[j]] /\ d = [j \in 1..n |-> d[j]]
  /\ \A j \in 1..n : j # k => s[j] = d[j]

\* What a step says of the children does not depend on the one it comes from.
LEMMA StepIgnores ==
  ASSUME NEW s, NEW d, NEW n, NEW k, AlikeBut(s, d, n, k)
  PROVE  StepFrom(k, s) = StepFrom(k, d)
  <1>4. n \in Nat /\ k \in 1..n /\ s = [j \in 1..n |-> s[j]] /\ d = [j \in 1..n |-> d[j]]
    BY DEF AlikeBut
  <1>5. \A j \in 1..n : j # k => s[j] = d[j]
    BY DEF AlikeBut
  <1>1. /\ RemoveAt(s, k) = [j \in 1..n - 1 |-> IF j < k THEN s[j] ELSE s[j + 1]]
        /\ RemoveAt(d, k) = [j \in 1..n - 1 |-> IF j < k THEN d[j] ELSE d[j + 1]]
    BY ONLY <1>4, Without
  <1>2. \A j \in 1..n - 1 : (IF j < k THEN s[j] ELSE s[j + 1]) = (IF j < k THEN d[j] ELSE d[j + 1])
    BY <1>4, <1>5
  <1>3. RemoveAt(s, k) = RemoveAt(d, k)
    BY <1>1, <1>2
  <1> QED
    BY <1>3 DEF StepFrom

\* Every step of a climb does.
LEMMA ClimbsOnce ==
  ASSUME NEW a, NEW r, TreeOf(a, r), NEW l \in Nat, NEW h \in Nat, Multiple(l, BlockSize(h)),
         NEW i \in Nat, l <= i, i < l + BlockSize(h), NEW from, Reads(a, r, l, h, i, from),
         NEW g \in Nat, from <= g, g < h
  PROVE  Climbs(a, r, l, h, i, g, ClimbStep(a, l, i, g))
  <1> DEFINE b == BlockAt(l, i, g + 1)
             k == ChildOf(l, i, g)
             at(j) == <<b + (j - 1) * BlockSize(g), g>>
             d == [j \in 1..Arity |-> r[at(j)]]
             s == [j \in 1..Arity |-> GetNodeHash(a, epochs[a], b + (j - 1) * BlockSize(g), g)]
  <1>2. b \in Nat /\ k \in 1..Arity /\ at(k) = <<BlockAt(l, i, g), g>>
        /\ ((i - l) \div BlockSize(g)) % Arity = k - 1
    <2>1. g + 1 \in Nat
      OBVIOUS
    <2>2. b \in Nat
      BY <2>1, BlockAround
    <2> QED
      BY <2>2, BlockBelow
  <1>3. r[<<b, g + 1>>] = NaryMr(a, d)
    <2> HIDE DEF b
    <2> QED
      BY <1>2 DEF TreeOf
  <1>4. \A j \in 1..Arity : j # k => s[j] = d[j] /\ d[j] # Corrupted
    <2> SUFFICES ASSUME NEW j \in 1..Arity, j # k PROVE s[j] = d[j] /\ d[j] # Corrupted
      OBVIOUS
    <2>1. at(j)[1] = b + (j - 1) * BlockSize(g) /\ at(j)[2] = g /\ at(j) = Child(l, i, g, j)
      BY DEF Child
    <2>2. s[j] = GetNodeHash(a, epochs[a], b + (j - 1) * BlockSize(g), g) /\ d[j] = r[at(j)]
      OBVIOUS
    <2> HIDE DEF at, s, d, b, k
    <2>3. ReadsAt(a, r, at(j))
      BY <2>1 DEF Reads, k
    <2> QED
      BY <2>1, <2>2, <2>3 DEF ReadsAt
  <1>5. StepFrom(k, s) = StepFrom(k, d)
    <2>1. s = [j \in 1..Arity |-> s[j]] /\ d = [j \in 1..Arity |-> d[j]] /\ Arity \in Nat
      BY ArityAssumption
    <2>2. \A j \in 1..Arity : j # k => s[j] = d[j]
      BY <1>4
    <2>3. k \in 1..Arity
      BY <1>2
    <2> HIDE DEF s, d, k
    <2>4. AlikeBut(s, d, Arity, k)
      BY <2>1, <2>2, <2>3 DEF AlikeBut
    <2> QED
      BY <2>4, StepIgnores
  <1>6. ClimbStep(a, l, i, g) = StepFrom(k, d)
    BY <1>5 DEF ClimbStep
  <1>7. d = [j \in 1..Arity |-> d[j]] /\ d[k] = r[<<BlockAt(l, i, g), g>>]
        /\ \A j \in 1..Arity : d[j] = r[at(j)]
    BY <1>2
  <1> HIDE DEF b, at, d, s, k
  <1>8. Lifts(a, ClimbStep(a, l, i, g), r[<<BlockAt(l, i, g), g>>], r[<<BlockAt(l, i, g + 1), g + 1>>])
    <2>1. Arity \in Nat /\ Arity >= 2 /\ k \in 1..Arity
      BY <1>2, ArityAssumption
    <2>2. r[<<BlockAt(l, i, g + 1), g + 1>>] = NaryMr(a, d)
      BY <1>3 DEF b
    <2>3. d = [j \in 1..Arity |-> d[j]] /\ d[k] = r[<<BlockAt(l, i, g), g>>]
      BY <1>7
    <2> QED
      BY ONLY <2>1, <2>2, <2>3, <1>6, Zenon DEF Lifts
  <1>9. RemoveAt(d, k) = [j \in 1..Arity - 1 |-> IF j < k THEN d[j] ELSE d[j + 1]]
    BY ZenonT(60), <1>2, <1>7, ArityAssumption, Without
  <1> DEFINE q == RemoveAt(d, k)
  <1>10. q = [j \in 1..Arity - 1 |-> q[j]] /\ Arity - 1 \in Nat
    BY <1>9, ArityAssumption
  <1>11. ClimbStep(a, l, i, g) = [position |-> k - 1, siblings |-> q]
    BY <1>6 DEF StepFrom
  <1>12. \A j \in 1..Arity - 1 : \E m \in 1..Arity : m # k /\ q[j] = d[m]
    <2> SUFFICES ASSUME NEW j \in 1..Arity - 1 PROVE \E m \in 1..Arity : m # k /\ q[j] = d[m]
      OBVIOUS
    <2>1. q[j] = IF j < k THEN d[j] ELSE d[j + 1]
      BY <1>9
    <2>2. j \in 1..Arity /\ j + 1 \in 1..Arity /\ (j < k => j # k) /\ (~(j < k) => j + 1 # k)
      BY <1>2, ArityAssumption
    <2> HIDE DEF q
    <2> QED
      BY <2>1, <2>2
  <1> HIDE DEF q
  <1>13. Len(q) = Arity - 1 /\ DOMAIN q = 1..Arity - 1
    BY <1>10, FcnIsSeq
  <1>14. Shape(ClimbStep(a, l, i, g)) = [position |-> k - 1, siblings |-> Arity - 1]
    BY <1>11, <1>13 DEF Shape
  <1>15. ASSUME NEW x \in ToSet(q) PROVE x # Corrupted
    <2>1. PICK j \in 1..Arity - 1 : x = q[j]
      BY <1>13 DEF ToSet
    <2>2. PICK m \in 1..Arity : m # k /\ x = d[m]
      BY <1>12, <2>1
    <2> QED
      BY <1>4, <2>2
  <1> QED
    BY <1>2, <1>8, <1>11, <1>14, <1>15 DEF Climbs

\* The whole climb leads from the block of height `from` above i to the peak, with
\* the shapes the skeleton has and with digests that could be read.
Climbed(a, r, l, h, i, from, p) ==
  /\ Leads(a, p, h - from, r[<<BlockAt(l, i, from), from>>], r[<<l, h>>])
  /\ \A n \in 1..h - from :
       /\ p[n] = ClimbStep(a, l, i, from + n - 1)
       /\ Shape(p[n]) = [position |-> ((i - l) \div BlockSize(from + n - 1)) % Arity,
                         siblings |-> Arity - 1]
       /\ Corrupted \notin ToSet(p[n].siblings)

\* Together they lead to the peak.
LEMMA ClimbLeads ==
  ASSUME NEW a, NEW r, TreeOf(a, r), NEW l \in Nat, NEW h \in Nat, Multiple(l, BlockSize(h)),
         NEW i \in Nat, l <= i, i < l + BlockSize(h), NEW from \in 0..h, Reads(a, r, l, h, i, from),
         NEW p, p = Climb(a, l, h, i, from)
  PROVE  Climbed(a, r, l, h, i, from, p)
  <1> DEFINE k == h - from
             v == [n \in 0..k |-> r[<<BlockAt(l, i, from + n), from + n>>]]
             step(n) == LET g == from + n
                            block == l + ((i - l) \div BlockSize(g)) * BlockSize(g)
                            child(j) == block + (j - 1) * BlockSize(g - 1)
                        IN  StepFrom((i - block) \div BlockSize(g - 1) + 1,
                                     [j \in 1..Arity |-> GetNodeHash(a, epochs[a], child(j), g - 1)])
  <1>1. k \in Nat /\ p = [n \in 1..k |-> step(n)]
    <2>1. Climb(a, l, h, i, from) = [n \in 1..k |-> step(n)]
      BY Zenon DEF Climb
    <2>2. k \in Nat
      OBVIOUS
    <2> HIDE DEF step, k
    <2> QED
      BY <2>1, <2>2
  <1>2. \A n \in 1..k : step(n) = ClimbStep(a, l, i, from + n - 1)
    <2> SUFFICES ASSUME NEW n \in 1..k PROVE step(n) = ClimbStep(a, l, i, from + n - 1)
      OBVIOUS
    <2> DEFINE g == from + n - 1
    <2>1. g + 1 = from + n /\ from + n - 1 = g
      OBVIOUS
    <2>2. step(n) = StepFrom((i - BlockAt(l, i, from + n)) \div BlockSize(from + n - 1) + 1,
                      [j \in 1..Arity |-> GetNodeHash(a, epochs[a],
                          BlockAt(l, i, from + n) + (j - 1) * BlockSize(from + n - 1), from + n - 1)])
      BY DEF BlockAt
    <2> HIDE DEF step
    <2>3. step(n) = StepFrom((i - BlockAt(l, i, g + 1)) \div BlockSize(g) + 1,
                      [j \in 1..Arity |-> GetNodeHash(a, epochs[a],
                          BlockAt(l, i, g + 1) + (j - 1) * BlockSize(g), g)])
      BY <2>1, <2>2
    <2> HIDE DEF g
    <2>4. step(n) = ClimbStep(a, l, i, g)
      BY <2>3 DEF ClimbStep, ChildOf
    <2> QED
      BY <2>4 DEF g
  <1> HIDE DEF step
  <1>3. ASSUME NEW n \in 1..k
        PROVE  /\ p[n] = ClimbStep(a, l, i, from + n - 1)
               /\ Lifts(a, p[n], v[n - 1], v[n])
               /\ Shape(p[n]) = [position |-> ((i - l) \div BlockSize(from + n - 1)) % Arity,
                                 siblings |-> Arity - 1]
               /\ Corrupted \notin ToSet(p[n].siblings)
    <2> DEFINE g == from + n - 1
    <2>1. g \in Nat /\ from <= g /\ g < h /\ g + 1 = from + n /\ n \in 0..k /\ n - 1 \in 0..k /\ from + (n - 1) = g
      OBVIOUS
    <2>2. v[n - 1] = r[<<BlockAt(l, i, g), g>>] /\ v[n] = r[<<BlockAt(l, i, g + 1), g + 1>>]
      BY <2>1
    <2>3. p[n] = ClimbStep(a, l, i, g)
      BY <1>1, <1>2
    <2> HIDE DEF v, k, g
    <2>4. Climbs(a, r, l, h, i, g, ClimbStep(a, l, i, g))
      BY <2>1, ClimbsOnce
    <2> QED
      BY <2>2, <2>3, <2>4 DEF Climbs, g
  <1>4. v[0] = r[<<BlockAt(l, i, from), from>>] /\ v[k] = r[<<l, h>>]
    <2>1. 0 \in 0..k /\ k \in 0..k /\ from + 0 = from /\ from + k = h
      OBVIOUS
    <2>2. BlockAt(l, i, h) = l
      BY BlockAround
    <2> HIDE DEF k
    <2> QED
      BY <2>1, <2>2
  <1> HIDE DEF v, k
  <1>5. LeadsBy(a, p, k, v)
    BY <1>3 DEF LeadsBy
  <1>6. p = [n \in 1..k |-> p[n]]
    BY <1>1
  <1>7. Leads(a, p, k, r[<<BlockAt(l, i, from), from>>], r[<<l, h>>])
    BY <1>1, <1>4, <1>5, <1>6 DEF Leads
  <1> QED
    BY <1>3, <1>7 DEF Climbed, k

-----------------------------------------------------------------------------
(* Bagging paths and mountains *)

\* The shape of the m-th step above peak f of n.
BagShape(n, f, m) == [position |-> Turn(n, f, m) - 1, siblings |-> Width(n, FoldEntry(n, f) + m - 1) - 1]

\* The path from peak f through the bagging: where it leads, its shapes, which the
\* number of peaks decides, and what its siblings are not.
BagPathSaid(a, peaks, n, f, p) ==
  /\ Leads(a, p, BagLevels(n, f), peaks[f], BagPeaks(a, peaks))
  /\ \A m \in 1..BagLevels(n, f) : Shape(p[m]) = BagShape(n, f, m)
  /\ Readable(peaks, n) => \A m \in 1..BagLevels(n, f) : Corrupted \notin ToSet(p[m].siblings)

\* The bagging path is the way up the line of its peak.
LEMMA BagPathIs ==
  ASSUME NEW a, NEW n \in Nat \ {0}, NEW peaks, peaks = [i \in 1..n |-> peaks[i]], NEW f \in 1..n,
         NEW p, p = BagPath(a, peaks, f)
  PROVE  BagPathSaid(a, peaks, n, f, p)
  <1> DEFINE l == BagLevels(n, f)
  <1>1. PICK v : BagLine(a, peaks, n, f, v)
    BY BagLined
  <1>2. Len(peaks) = n
    BY FcnIsSeq
  <1>3. peaks # <<>>
    BY <1>2
  <1>4. /\ Line(a, v, l, f) /\ l \in 0..n
        /\ v[0].digest = peaks[f] /\ v[l] = BagTree(a, peaks)
        /\ \A m \in 1..l : Toward(v[m], f) = Turn(n, f, m) /\ Len(v[m].children) = Width(n, FoldEntry(n, f) + m - 1)
        /\ Readable(peaks, n) =>
             \A m \in 1..l : \A j \in DOMAIN v[m].children : v[m].children[j].digest # Corrupted
    BY <1>1 DEF BagLine
  <1>5. p = TreePath(v[l], f, n)
    BY <1>2, <1>4 DEF BagPath
  <1> HIDE DEF l
  <1>6. AlongLine(a, f, v, l, p)
    BY <1>4, <1>5, TreePathLeads
  <1>7. v[l].digest = BagPeaks(a, peaks)
    BY <1>3, <1>4 DEF BagPeaks
  <1>8. Leads(a, p, l, peaks[f], BagPeaks(a, peaks))
    BY <1>4, <1>6, <1>7 DEF AlongLine
  <1>9. \A m \in 1..l : Shape(p[m]) = BagShape(n, f, m)
    BY <1>4, <1>6 DEF AlongLine, BagShape
  <1>10. ASSUME Readable(peaks, n), NEW m \in 1..l PROVE Corrupted \notin ToSet(p[m].siblings)
    <2>1. \A x \in ToSet(p[m].siblings) : \E j \in DOMAIN v[m].children : x = v[m].children[j].digest
      BY <1>6 DEF AlongLine
    <2> QED
      BY <1>4, <1>10, <2>1
  <1> QED
    BY <1>8, <1>9, <1>10 DEF BagPathSaid, l

\* The peak above position i.
OnMountain(at, size, i, f) ==
  /\ f \in 1..Len(at) /\ at[f] \in Blocks(size) /\ at[f] = <<at[f][1], at[f][2]>>
  /\ at[f][1] \in Nat /\ at[f][2] \in Nat /\ Multiple(at[f][1], BlockSize(at[f][2]))
  /\ at[f][1] <= i /\ i < at[f][1] + BlockSize(at[f][2]) /\ End(at[f]) <= size

\* Every position of a log has its mountain.
LEMMA MountainIs ==
  ASSUME NEW size \in Nat, NEW i \in Nat, i < size, NEW at, at = FrontierForSize(size)
  PROVE  OnMountain(at, size, i, MountainOf(i, at))
  <1> DEFINE f == MountainOf(i, at)
  <1>1. Covers(at, 0, size)
    BY FrontierCovers
  <1>2. \E g \in 1..Len(at) : at[g][1] <= i /\ i < at[g][1] + BlockSize(at[g][2])
    BY <1>1, PositionUnderPeak DEF End
  <1>3. DOMAIN at = 1..Len(at)
    BY <1>1 DEF Covers
  <1>4. f \in 1..Len(at) /\ at[f][1] <= i /\ i < at[f][1] + BlockSize(at[f][2])
    BY <1>2, <1>3 DEF MountainOf
  <1> HIDE DEF f
  <1>5. at[f] \in Blocks(size)
    BY <1>1, <1>4, PeaksAreBlocks
  <1>6. at[f] = <<at[f][1], at[f][2]>> /\ at[f][1] \in Nat /\ at[f][2] \in Nat
    BY <1>5, CoordinateIsPair DEF Blocks
  <1> QED
    BY <1>4, <1>5, <1>6 DEF OnMountain, Blocks, f

\* What can be read of the peaks of a size: they are the reference's.
PeaksRead(a, size, n) ==
  /\ n = Len(FrontierForSize(size)) /\ n \in Nat \ {0}
  /\ FrontierForSize(size) = [f \in 1..n |-> FrontierForSize(size)[f]]
  /\ PeaksOf(Ref(a), size) = [f \in 1..n |-> PeaksOf(Ref(a), size)[f]]
  /\ \A f \in 1..n : PeaksOf(Ref(a), size)[f] = Ref(a)[FrontierForSize(size)[f]]
  /\ FrontierPeaks(a, epochs[a], size) = PeaksOf(Ref(a), size)
  /\ Readable(PeaksOf(Ref(a), size), n)
  /\ ReferenceRoot(a, size) = RootAt(a, size)

\* What has to be in the store of a log that begins at size `lo`: the peaks of that
\* size and the blocks that end after it.
Asked(lo, c) == End(c) > lo \/ Peak(c[1], c[2], lo)

\* All of that reads as the reference says.
RightFrom(a, lo) ==
  /\ Size(a) \in Nat /\ lo \in 0..Size(a)
  /\ \A c \in Blocks(Size(a)) : Asked(lo, c) => ReadsAt(a, Ref(a), c)

\* A log that was never sealed begins at 0.
LEMMA RightUnsealed ==
  ASSUME LogInv, NEW a \in Algs
  PROVE  RightFrom(a, 0)
  <1>1. Size(a) \in Nat
    BY SizeKnown DEF LogInv
  <1>2. \A c \in Blocks(Size(a)) : ReadsAt(a, Ref(a), c)
    BY ReadBack DEF ReadsAt
  <1> QED
    BY <1>1, <1>2 DEF RightFrom

\* A peak of n positions that lies within the first m is a peak of them.
LEMMA PeakStays ==
  ASSUME NEW c \in Coordinates, NEW n \in Nat, NEW m \in Nat, Peak(c[1], c[2], n), m <= n, End(c) <= m
  PROVE  Peak(c[1], c[2], m)
  <1>1. c[1] \in Nat /\ BlockSize(c[2]) \in Nat /\ BlockSize(c[2] + 1) \in Nat /\ End(c) = c[1] + BlockSize(c[2])
    <2>1. c[1] \in Nat /\ c[2] \in Nat /\ c[2] + 1 \in Nat
      BY DEF Coordinates
    <2> QED
      BY <2>1, BlockSizes DEF End
  <1> QED
    BY <1>1 DEF Peak

\* The peaks of a size from there on are among what is asked for.
LEMMA PeaksAsked ==
  ASSUME NEW n \in Nat, NEW from \in 0..n, NEW s, Covers(s, 0, n), NEW i \in 1..Len(s)
  PROVE  s[i] \in Blocks(n) /\ Asked(from, s[i])
  <1>1. s[i] \in Blocks(n) /\ s[i] \in Coordinates /\ Peak(s[i][1], s[i][2], n)
    BY PeaksAreBlocks DEF Covers, Blocks
  <1>2. End(s[i]) \in Nat
    BY <1>1, CoordinateIsPair
  <1>3. CASE End(s[i]) > from
    BY <1>1, <1>3 DEF Asked
  <1>4. CASE End(s[i]) <= from
    BY <1>1, <1>4, PeakStays DEF Asked
  <1> QED
    BY <1>2, <1>3, <1>4

\* They are those of the reference, for every size from where the store begins.
LEMMA PeaksReadFrom ==
  ASSUME NEW a, NEW lo, RightFrom(a, lo), NEW size \in 1..Size(a), lo <= size
  PROVE  PeaksRead(a, size, Len(FrontierForSize(size)))
  <1> DEFINE at == FrontierForSize(size)
             n == Len(at)
             r == Ref(a)
             peaks == PeaksOf(r, size)
  <1>1. size \in Nat /\ size <= Size(a) /\ Size(a) \in Nat /\ size # 0 /\ lo \in 0..size
    BY DEF RightFrom
  <1>2. Covers(at, 0, size)
    BY <1>1, FrontierCovers
  <1>3. n \in Nat \ {0} /\ at = [f \in 1..n |-> at[f]]
    <2>1. at # <<>> /\ at \in Seq(Coordinates)
      BY <1>1, <1>2 DEF Covers
    <2> QED
      BY <2>1
  <1>4. peaks = [f \in 1..n |-> r[at[f]]]
    BY DEF PeaksOf
  <1>5. FrontierPeaks(a, epochs[a], size) = [f \in 1..n |-> GetNodeHash(a, epochs[a], at[f][1], at[f][2])]
    BY DEF FrontierPeaks
  <1>6. ReferenceRoot(a, size) = BagPeaks(a, [f \in DOMAIN at |-> ReferenceNode(a, at[f][1], at[f][2])])
    BY DEF ReferenceRoot
  <1> HIDE DEF at, n, r, peaks
  <1>7. ASSUME NEW f \in 1..n
        PROVE  /\ GetNodeHash(a, epochs[a], at[f][1], at[f][2]) = r[at[f]] /\ r[at[f]] # Corrupted
               /\ ReferenceNode(a, at[f][1], at[f][2]) = r[at[f]]
    <2>1. at[f] \in Blocks(size) /\ Asked(lo, at[f])
      BY <1>1, <1>2, PeaksAsked DEF n
    <2>2. at[f] \in Blocks(Size(a))
      BY <1>1, <2>1, BlocksGrow
    <2>3. at[f] = <<at[f][1], at[f][2]>> /\ at[f][1] \in Nat /\ at[f][2] \in Nat
      BY <2>1, CoordinateIsPair DEF Blocks
    <2>4. ReferenceNode(a, at[f][1], at[f][2]) = r[at[f]]
      BY <2>3, References DEF r
    <2>5. ReadsAt(a, r, at[f])
      BY <2>1, <2>2 DEF RightFrom, r
    <2> QED
      BY <2>4, <2>5 DEF ReadsAt
  <1>8. FrontierPeaks(a, epochs[a], size) = peaks
    BY <1>4, <1>5, <1>7
  <1>9. DOMAIN at = 1..n
    BY <1>3
  <1>10. [f \in DOMAIN at |-> ReferenceNode(a, at[f][1], at[f][2])] = peaks
    BY <1>4, <1>7, <1>9
  <1>11. ReferenceRoot(a, size) = RootAt(a, size)
    BY <1>6, <1>10 DEF RootAt, peaks, r
  <1>12. \A f \in 1..n : peaks[f] = r[at[f]] /\ peaks[f] # Corrupted
    BY <1>4, <1>7
  <1>13. peaks = [f \in 1..n |-> peaks[f]] /\ Readable(peaks, n)
    BY <1>4, <1>12 DEF Readable
  <1> QED
    BY <1>3, <1>8, <1>11, <1>12, <1>13 DEF PeaksRead, at, n, r, peaks

\* They are those of the reference, for every size an algorithm had.
LEMMA PeaksReadBack ==
  ASSUME LogInv, NEW a \in Algs, NEW size \in 1..Size(a)
  PROVE  PeaksRead(a, size, Len(FrontierForSize(size)))
  <1>1. RightFrom(a, 0) /\ 0 <= size
    BY RightUnsealed
  <1> QED
    BY <1>1, PeaksReadFrom

\* The blocks a climb asks for are within what the log has.
LEMMA ChildIsBlock ==
  ASSUME NEW n \in Nat, NEW l \in Nat, NEW h \in Nat, Multiple(l, BlockSize(h)), l + BlockSize(h) <= n,
         NEW i \in Nat, l <= i, i < l + BlockSize(h), NEW g \in Nat, g < h, NEW j \in 1..Arity
  PROVE  Child(l, i, g, j) \in Blocks(n)
  <1> DEFINE c == Child(l, i, g, j)
  <1>1. c \in Inside(l, h)
    BY ChildWithin DEF Child
  <1>2. c \in Coordinates /\ Multiple(c[1], BlockSize(c[2])) /\ End(c) <= l + BlockSize(h)
    BY <1>1 DEF Inside
  <1> HIDE DEF c
  <1>3. End(c) \in Nat /\ BlockSize(h) \in Nat
    BY <1>2, CoordinateIsPair, BlockSizes
  <1>4. End(c) <= n
    BY <1>2, <1>3
  <1> QED
    BY <1>2, <1>4 DEF Blocks, c

\* What may be asked for within a mountain of a size reads as the reference says, and
\* is a digest.
LEMMA MountainReads ==
  ASSUME LogInv, NEW a \in Algs, NEW size \in 1..Size(a),
         NEW l \in Nat, NEW h \in Nat, Multiple(l, BlockSize(h)), l + BlockSize(h) <= size,
         NEW i \in Nat, l <= i, i < l + BlockSize(h), NEW from \in 0..h
  PROVE  Reads(a, Ref(a), l, h, i, from)
  <1>1. size \in Nat /\ size <= Size(a) /\ Size(a) \in Nat /\ BlockSize(h) \in Nat
    BY SizeKnown, BlockSizes DEF LogInv
  <1>2. l + BlockSize(h) <= Size(a)
    BY <1>1
  <1>3. ASSUME NEW g \in Nat, g < h, NEW j \in 1..Arity PROVE ReadsAt(a, Ref(a), Child(l, i, g, j))
    <2>1. Child(l, i, g, j) \in Blocks(Size(a))
      BY <1>1, <1>2, <1>3, ChildIsBlock
    <2> QED
      BY <2>1, ReadBack DEF ReadsAt
  <1> QED
    BY <1>3 DEF Reads

\* An algorithm that was active at a size has a tree that spans it, and the root
\* read back is the reference's.
LEMMA RootReadBack ==
  ASSUME LogInv, NEW size \in 1..count, NEW a \in ActiveAlgsAt(size)
  PROVE  /\ a \in Algs /\ size \in 1..Size(a)
         /\ RootForAt(a, size) = RootAt(a, size) /\ RootAt(a, size) # Corrupted
  <1>1. LogTypeOK /\ count \in Nat
    BY LogAssumption DEF LogInv, LogTypeOK
  <1>2. a \in Algs /\ IsActiveAt(epochs[a], size - 1) /\ size - 1 \in 0..count - 1
    BY <1>1 DEF ActiveAlgsAt
  <1>3. size \in 1..Size(a)
    BY <1>1, <1>2, SizeKnown
  <1> DEFINE n == Len(FrontierForSize(size))
             peaks == PeaksOf(Ref(a), size)
  <1>4. PeaksRead(a, size, n)
    BY <1>2, <1>3, PeaksReadBack
  <1>5. EffectiveSizeAt(epochs[a], size) = size
    BY <1>2 DEF EffectiveSizeAt
  <1>6. RootForAt(a, size) = RootOfPeaks(a, peaks)
    BY <1>4, <1>5 DEF RootForAt, PeaksRead
  <1> HIDE DEF n, peaks
  <1>7. n \in Nat \ {0} /\ peaks = [f \in 1..n |-> peaks[f]] /\ Readable(peaks, n)
    BY <1>4 DEF PeaksRead, peaks
  <1>8. DOMAIN peaks = 1..n /\ 1 \in 1..n
    BY <1>7
  <1>9. RootOfPeaks(a, peaks) = BagPeaks(a, peaks)
    BY <1>7, <1>8 DEF RootOfPeaks, Readable
  <1>10. BagPeaks(a, peaks) # Corrupted
    BY <1>7, <1>8, BagIsDigest DEF Readable
  <1> QED
    BY <1>2, <1>3, <1>6, <1>9, <1>10 DEF RootAt, peaks

-----------------------------------------------------------------------------
(* Paths from a leaf *)

\* The steps of a path can be read.
ReadableSteps(p, n) == \A m \in 1..n : Corrupted \notin ToSet(p[m].siblings)

\* A climb that reads what the reference says leads to its peak and can be read.
LEMMA ClimbRight ==
  ASSUME NEW a, NEW l \in Nat, NEW h \in Nat, Multiple(l, BlockSize(h)),
         NEW i \in Nat, l <= i, i < l + BlockSize(h), NEW from \in 0..h, Reads(a, Ref(a), l, h, i, from),
         NEW p, p = Climb(a, l, h, i, from)
  PROVE  Climbed(a, Ref(a), l, h, i, from, p) /\ ReadableSteps(p, h - from)
  <1>1. Climbed(a, Ref(a), l, h, i, from, p)
    BY References, ClimbLeads
  <1> QED
    BY <1>1 DEF Climbed, ReadableSteps

\* A climb within a mountain of some size leads to its peak and can be read.
LEMMA ClimbReads ==
  ASSUME LogInv, NEW a \in Algs, NEW size \in 1..Size(a), NEW l \in Nat, NEW h \in Nat,
         Multiple(l, BlockSize(h)), l + BlockSize(h) <= size,
         NEW i \in Nat, l <= i, i < l + BlockSize(h), NEW from \in 0..h,
         NEW p, p = Climb(a, l, h, i, from)
  PROVE  Climbed(a, Ref(a), l, h, i, from, p) /\ ReadableSteps(p, h - from)
  <1>1. Reads(a, Ref(a), l, h, i, from)
    BY MountainReads
  <1> QED
    BY <1>1, ClimbRight

\* From a leaf it does so with the shapes of the skeleton.
MountainShape(l, i, n) == [position |-> ((i - l) \div BlockSize(n - 1)) % Arity, siblings |-> Arity - 1]

\* Such a climb, step by step.
ClimbedFromLeaf(a, l, h, i, p) ==
  /\ Leads(a, p, h, Ref(a)[<<i, 0>>], Ref(a)[<<l, h>>]) /\ ReadableSteps(p, h)
  /\ \A n \in 1..h : p[n] = ClimbStep(a, l, i, n - 1) /\ Shape(p[n]) = MountainShape(l, i, n)

\* The log makes one for every position.
LEMMA ClimbFromLeaf ==
  ASSUME LogInv, NEW a \in Algs, NEW size \in 1..Size(a), NEW l \in Nat, NEW h \in Nat,
         Multiple(l, BlockSize(h)), l + BlockSize(h) <= size,
         NEW i \in Nat, l <= i, i < l + BlockSize(h),
         NEW p, p = Climb(a, l, h, i, 0)
  PROVE  ClimbedFromLeaf(a, l, h, i, p)
  <1> DEFINE r == Ref(a)
  <1>1. 0 \in 0..h /\ h - 0 = h
    OBVIOUS
  <1>2. Climbed(a, r, l, h, i, 0, p) /\ ReadableSteps(p, h - 0)
    BY <1>1, ClimbReads
  <1>3. BlockAt(l, i, 0) = i
    <2>1. BlockSize(0) = 1 /\ l = l * 1 /\ i = i * 1
      BY BlockSizes
    <2>2. Multiple(l, BlockSize(0)) /\ Multiple(i, BlockSize(0))
      BY <2>1 DEF Multiple
    <2> QED
      BY <2>2, BlockStarts
  <1> HIDE DEF r
  <1>4. Leads(a, p, h - 0, r[<<BlockAt(l, i, 0), 0>>], r[<<l, h>>])
    BY <1>2 DEF Climbed
  <1>5. ASSUME NEW n \in 1..h PROVE p[n] = ClimbStep(a, l, i, n - 1) /\ Shape(p[n]) = MountainShape(l, i, n)
    <2>1. n \in 1..h - 0 /\ 0 + n - 1 = n - 1
      OBVIOUS
    <2>2. /\ p[n] = ClimbStep(a, l, i, 0 + n - 1)
          /\ Shape(p[n]) = [position |-> ((i - l) \div BlockSize(0 + n - 1)) % Arity,
                            siblings |-> Arity - 1]
      BY <1>2, <2>1 DEF Climbed
    <2> QED
      BY <2>1, <2>2 DEF MountainShape
  <1> QED
    BY <1>1, <1>2, <1>3, <1>4, <1>5 DEF ClimbedFromLeaf, r

-----------------------------------------------------------------------------
(* The shapes the verifier works out *)

\* A skeleton that consists of the shapes of a path of n steps.
ShapesOf(p, n, skeleton) == n \in Nat /\ skeleton = [m \in 1..n |-> Shape(p[m])]

\* The skeleton of two parts has the shapes of the path of two parts.
LEMMA ShapesOn ==
  ASSUME NEW n \in Nat, NEW k \in Nat, NEW p, p = [m \in 1..n |-> p[m]], NEW q, q = [m \in 1..k |-> q[m]],
         NEW s, ShapesOf(p, n, s), NEW t, ShapesOf(q, k, t)
  PROVE  ShapesOf(p \o q, n + k, s \o t)
  <1>1. p \o q = [m \in 1..n + k |-> IF m <= n THEN p[m] ELSE q[m - n]]
    BY ConcatIs
  <1>2. s = [m \in 1..n |-> s[m]] /\ t = [m \in 1..k |-> t[m]]
    BY DEF ShapesOf
  <1>3. s \o t = [m \in 1..n + k |-> IF m <= n THEN s[m] ELSE t[m - n]]
    BY <1>2, ConcatIs
  <1> DEFINE pq == p \o q
             st == s \o t
  <1>4. \A m \in 1..n + k : st[m] = Shape(pq[m])
    <2> SUFFICES ASSUME NEW m \in 1..n + k PROVE st[m] = Shape(pq[m])
      OBVIOUS
    <2>1. CASE m <= n
      <3>1. m \in 1..n /\ st[m] = s[m] /\ pq[m] = p[m]
        BY <1>1, <1>3, <2>1
      <3> HIDE DEF pq, st
      <3> QED
        BY <3>1 DEF ShapesOf
    <2>2. CASE m > n
      <3>1. m - n \in 1..k /\ st[m] = t[m - n] /\ pq[m] = q[m - n]
        BY <1>1, <1>3, <2>2
      <3> HIDE DEF pq, st
      <3> QED
        BY <3>1 DEF ShapesOf
    <2>3. m <= n \/ m > n
      OBVIOUS
    <2> HIDE DEF pq, st
    <2> QED
      BY <2>1, <2>2, <2>3
  <1>5. st = [m \in 1..n + k |-> st[m]]
    BY <1>3
  <1> HIDE DEF pq, st
  <1>6. st = [m \in 1..n + k |-> Shape(pq[m])] /\ n + k \in Nat
    BY <1>4, <1>5
  <1> QED
    BY <1>6 DEF ShapesOf, pq, st

\* A path fits the shapes of its last part.
LEMMA FitsItsEnd ==
  ASSUME NEW n \in Nat, NEW k \in Nat, NEW p, p = [m \in 1..n |-> p[m]], NEW q, q = [m \in 1..k |-> q[m]],
         NEW s, ShapesOf(q, k, s)
  PROVE  Fits(p \o q, s)
  <1>1. p \o q = [m \in 1..n + k |-> IF m <= n THEN p[m] ELSE q[m - n]]
    BY ConcatIs
  <1> DEFINE pq == p \o q
  <1>2. Len(s) = k /\ DOMAIN s = 1..k
    BY DEF ShapesOf
  <1>3. Len(pq) = n + k
    BY <1>1
  <1>4. \A m \in 1..k : pq[n + m] = q[m] /\ s[m] = Shape(q[m])
    <2> SUFFICES ASSUME NEW m \in 1..k PROVE pq[n + m] = q[m] /\ s[m] = Shape(q[m])
      OBVIOUS
    <2>1. n + m \in 1..n + k /\ ~(n + m <= n) /\ (n + m) - n = m
      OBVIOUS
    <2>2. pq[n + m] = q[m]
      BY <1>1, <2>1
    <2> HIDE DEF pq
    <2> QED
      BY <2>2 DEF ShapesOf
  <1> HIDE DEF pq
  <1>5. \A m \in DOMAIN s : Shape(pq[Len(pq) - Len(s) + m]) = s[m]
    BY <1>2, <1>3, <1>4
  <1>6. Len(s) \in Nat /\ DOMAIN s = 1..Len(s) /\ Len(s) <= Len(pq)
    BY <1>2, <1>3
  <1> QED
    BY <1>5, <1>6 DEF Fits, pq

\* The skeleton the verifier derives for position i of a size, as the shapes of the
\* producer's path.
AreShapes(at, size, n, i, f, l, h) ==
  /\ at = FrontierForSize(size) /\ n \in Nat \ {0} /\ at = [g \in 1..n |-> at[g]]
  /\ f = MountainOf(i, at) /\ f \in 1..n /\ l = at[f][1] /\ h = at[f][2] /\ h \in Nat

\* A climb and the bagging above it have the shapes the verifier works out.
LEMMA SkeletonIs ==
  ASSUME NEW at, NEW size, NEW n, NEW i, NEW f, NEW l, NEW h, AreShapes(at, size, n, i, f, l, h),
         NEW a, NEW c, ClimbedFromLeaf(a, l, h, i, c),
         NEW peaks, NEW b, BagPathSaid(a, peaks, n, f, b)
  PROVE  ShapesOf(c \o b, h + BagLevels(n, f), MountainSkeleton(size, i))
  <1> DEFINE k == BagLevels(n, f)
             bag == BagPath(Genesis, at, f)
             s == [m \in 1..h |-> [position |-> ((i - l) \div BlockSize(m - 1)) % Arity, siblings |-> Arity - 1]]
             t == [m \in DOMAIN bag |-> Shape(bag[m])]
  <1>1. /\ at = FrontierForSize(size) /\ n \in Nat \ {0} /\ at = [g \in 1..n |-> at[g]]
        /\ f = MountainOf(i, at) /\ f \in 1..n /\ l = at[f][1] /\ h = at[f][2] /\ h \in Nat
    BY DEF AreShapes
  <1>2. c = [m \in 1..h |-> c[m]] /\ \A m \in 1..h : Shape(c[m]) = MountainShape(l, i, m)
    BY DEF ClimbedFromLeaf, Leads
  <1>3. MountainSkeleton(size, i) = s \o t
    <2>1. MountainSkeleton(size, i) =
            LET w == FrontierForSize(size)
                g == MountainOf(i, w)
                q == BagPath(Genesis, w, g)
            IN  [m \in 1..w[g][2] |->
                   [position |-> ((i - w[g][1]) \div BlockSize(m - 1)) % Arity, siblings |-> Arity - 1]]
                \o [m \in DOMAIN q |-> Shape(q[m])]
      BY Zenon DEF MountainSkeleton
    <2> QED
      BY <1>1, <2>1, Zenon
  <1>4. BagPathSaid(Genesis, at, n, f, bag)
    BY <1>1, BagPathIs
  <1> HIDE DEF bag
  <1>5. k \in Nat /\ b = [m \in 1..k |-> b[m]] /\ bag = [m \in 1..k |-> bag[m]]
    BY <1>4 DEF BagPathSaid, Leads
  <1>6. \A m \in 1..k : Shape(b[m]) = BagShape(n, f, m) /\ Shape(bag[m]) = BagShape(n, f, m)
    BY <1>4 DEF BagPathSaid
  <1> HIDE DEF k
  <1>7. ShapesOf(b, k, t)
    <2>1. DOMAIN bag = 1..k
      BY <1>5
    <2>2. t = [m \in 1..k |-> Shape(bag[m])]
      BY <2>1
    <2> HIDE DEF t
    <2>3. t = [m \in 1..k |-> Shape(b[m])]
      BY <1>6, <2>2
    <2> QED
      BY <1>5, <2>3 DEF ShapesOf
  <1>8. ShapesOf(c, h, s)
    BY <1>1, <1>2 DEF ShapesOf, MountainShape
  <1> HIDE DEF s, t
  <1>9. ShapesOf(c \o b, h + k, s \o t)
    BY <1>1, <1>2, <1>5, <1>7, <1>8, ShapesOn
  <1> QED
    BY <1>3, <1>9 DEF k

-----------------------------------------------------------------------------
(* Inclusion proofs *)

\* What the producer makes for position i of a size, with <<l, h>> the peak above it.
ProofSaid(a, i, size, l, h, n, p) ==
  /\ InclusionProof(a, i, size) = [path |-> p]
  /\ Leads(a, p, n, Ref(a)[<<i, 0>>], RootAt(a, size))
  /\ ShapesOf(p, n, MountainSkeleton(size, i))
  /\ h <= n /\ \A m \in 1..h : p[m] = ClimbStep(a, l, i, m - 1)

\* The log has such a proof for every position.
LEMMA ProofIs ==
  ASSUME LogInv, NEW a \in Algs, NEW size \in 1..Size(a), NEW i \in Nat, i < size,
         NEW at, at = FrontierForSize(size), NEW f, f = MountainOf(i, at)
  PROVE  \E n, p : ProofSaid(a, i, size, at[f][1], at[f][2], n, p)
  <1> DEFINE l == at[f][1]
             h == at[f][2]
             g == Len(at)
             peaks == PeaksOf(Ref(a), size)
             c == Climb(a, l, h, i, 0)
             b == BagPath(a, peaks, f)
             k == BagLevels(g, f)
             x == Ref(a)[<<i, 0>>]
             y == Ref(a)[<<l, h>>]
             z == RootAt(a, size)
             p == c \o b
  <1>1. size \in Nat /\ size <= Size(a) /\ Size(a) \in Nat
    BY SizeKnown DEF LogInv
  <1>2. OnMountain(at, size, i, f)
    BY <1>1, MountainIs
  <1>3. PeaksRead(a, size, g)
    BY PeaksReadBack
  <1>4. /\ f \in 1..g /\ at[f] = <<l, h>> /\ l \in Nat /\ h \in Nat /\ Multiple(l, BlockSize(h))
        /\ l <= i /\ i < l + BlockSize(h) /\ l + BlockSize(h) <= size
    BY <1>2 DEF OnMountain, End
  <1>5. /\ g \in Nat \ {0} /\ at = [e \in 1..g |-> at[e]] /\ peaks = [e \in 1..g |-> peaks[e]]
        /\ peaks[f] = Ref(a)[at[f]] /\ FrontierPeaks(a, epochs[a], size) = peaks /\ Readable(peaks, g)
    BY <1>3, <1>4 DEF PeaksRead
  <1>6. ClimbedFromLeaf(a, l, h, i, c)
    <2> HIDE DEF l, h, c
    <2> QED
      BY <1>4, ClimbFromLeaf DEF c
  <1>7. BagPathSaid(a, peaks, g, f, b)
    <2> HIDE DEF peaks, g, b
    <2> QED
      BY <1>4, <1>5, BagPathIs DEF b
  <1>8. Leads(a, c, h, x, y) /\ c = [m \in 1..h |-> c[m]] /\ ReadableSteps(c, h)
        /\ \A m \in 1..h : c[m] = ClimbStep(a, l, i, m - 1) /\ Shape(c[m]) = MountainShape(l, i, m)
    BY <1>6 DEF ClimbedFromLeaf, Leads
  <1>9. /\ Leads(a, b, k, y, z) /\ k \in Nat /\ b = [m \in 1..k |-> b[m]] /\ ReadableSteps(b, k)
    <2>1. y = peaks[f] /\ z = BagPeaks(a, peaks)
      BY <1>4, <1>5 DEF RootAt
    <2>2. Leads(a, b, k, peaks[f], BagPeaks(a, peaks)) /\ (Readable(peaks, g) => ReadableSteps(b, k))
      BY <1>7 DEF BagPathSaid, ReadableSteps
    <2> HIDE DEF b, peaks, k, y, z
    <2> QED
      BY <1>5, <2>1, <2>2 DEF Leads
  <1>10. InclusionProof(a, i, size) =
           IF i >= size \/ size > Size(a) THEN NoProof
           ELSE IF Corrupted \in ToSet(peaks) \/ Unreadable(p) THEN NoProof ELSE [path |-> p]
    <2>1. InclusionProof(a, i, size) =
            LET w == FrontierPeaks(a, epochs[a], size)
                q == c \o BagPath(a, w, f)
            IN  IF i >= size \/ size > Size(a) THEN NoProof
                ELSE IF Corrupted \in ToSet(w) \/ Unreadable(q) THEN NoProof ELSE [path |-> q]
      BY Zenon DEF InclusionProof, Size
    <2> HIDE DEF peaks, c
    <2> QED
      BY <1>5, <2>1
  <1> HIDE DEF peaks, c, b, k, g, l, h, x, y, z
  <1>11. ShapesOf(p, h + k, MountainSkeleton(size, i))
    <2>1. AreShapes(at, size, g, i, f, l, h)
      BY <1>4, <1>5 DEF AreShapes, l, h
    <2> HIDE DEF p
    <2>2. ShapesOf(c \o b, h + BagLevels(g, f), MountainSkeleton(size, i))
      BY <1>6, <1>7, <2>1, SkeletonIs
    <2> QED
      BY <2>2 DEF k, p
  <1>12. Leads(a, p, h + k, x, z)
    BY <1>8, <1>9, LeadsOn
  <1>13. p = [m \in 1..h + k |-> IF m <= h THEN c[m] ELSE b[m - h]]
    BY SMTT(30), <1>4, <1>8, <1>9, ConcatIs
  <1>14. ~Unreadable(p) /\ \A m \in 1..h : p[m] = ClimbStep(a, l, i, m - 1)
    <2>1. DOMAIN p = 1..h + k
      BY <1>13
    <2>2. ASSUME NEW m \in 1..h + k
          PROVE  Corrupted \notin ToSet(p[m].siblings) /\ (m <= h => p[m] = ClimbStep(a, l, i, m - 1))
      <3>1. CASE m <= h
        <4>1. m \in 1..h /\ p[m] = c[m]
          BY <1>4, <1>13, <3>1
        <4> HIDE DEF p
        <4> QED
          BY <1>8, <4>1 DEF ReadableSteps
      <3>2. CASE ~(m <= h)
        <4>1. m - h \in 1..k /\ p[m] = b[m - h]
          BY <1>4, <1>9, <1>13, <3>2
        <4> HIDE DEF p
        <4> QED
          BY <1>9, <3>2, <4>1 DEF ReadableSteps
      <3> QED
        BY <3>1, <3>2
    <2> HIDE DEF p
    <2>3. \A m \in 1..h : m \in 1..h + k /\ m <= h
      BY <1>4, <1>9
    <2> QED
      BY <2>1, <2>2, <2>3 DEF Unreadable
  <1>15. Corrupted \notin ToSet(peaks)
    BY <1>5 DEF Readable, ToSet
  <1> HIDE DEF p
  <1>16. InclusionProof(a, i, size) = [path |-> p]
    BY <1>1, <1>10, <1>14, <1>15
  <1>17. h <= h + k
    BY <1>4, <1>9
  <1>18. ProofSaid(a, i, size, l, h, h + k, p)
    BY <1>11, <1>12, <1>14, <1>16, <1>17 DEF ProofSaid, x, z
  <1> QED
    BY <1>18 DEF l, h

-----------------------------------------------------------------------------
(* Payloads and items verify *)

\* The path from one payload of an item leads to the item's digest.
LEMMA WithinLeads ==
  ASSUME NEW a, NEW item, Len(item) \in Nat, DOMAIN item = 1..Len(item), NEW j \in DOMAIN item
  PROVE  \E n : Leads(a, WithinSubtreePath(a, item, j), n, LeafHash(a, item[j]), Evaluate(a, item))
  <1> DEFINE k == Len(item)
             d == [m \in 1..k |-> LeafHash(a, item[m])]
             x == LeafHash(a, item[j])
             y == Evaluate(a, item)
             p == WithinSubtreePath(a, item, j)
  <1>1. k \in Nat /\ j \in 1..k /\ y = NaryMr(a, d) /\ d[j] = x /\ d = [m \in 1..k |-> d[m]]
    BY DEF Evaluate
  <1>2. p = IF k = 1 THEN <<>> ELSE <<StepFrom(j, d)>>
    BY Zenon DEF WithinSubtreePath
  <1> HIDE DEF d, x, y, p, k
  <1>3. CASE k = 1
    <2>1. j = 1
      BY <1>1, <1>3
    <2>2. Len(d) = 1 /\ DOMAIN d = 1..1
      BY <1>1, <1>3
    <2>3. \A m \in DOMAIN d : d[m] = d[1]
      BY <2>2
    <2>4. NaryMr(a, d) = d[1]
      BY <2>2, <2>3 DEF NaryMr
    <2>5. x = y /\ p = <<>>
      BY <1>1, <1>2, <1>3, <2>1, <2>4
    <2>6. Leads(a, <<>>, 0, x, x)
      BY LeadsNowhere
    <2> QED
      BY <2>5, <2>6 DEF p, x, y
  <1>4. CASE k # 1
    <2>1. k >= 2
      BY <1>1, <1>4
    <2>2. Lifts(a, StepFrom(j, d), x, y)
      BY <1>1, <2>1 DEF Lifts
    <2>3. Leads(a, <<StepFrom(j, d)>>, 1, x, y)
      BY <2>2, LeadsOnce
    <2>4. Leads(a, p, 1, x, y)
      BY <1>2, <1>4, <2>3
    <2> QED
      BY <2>4 DEF p, x, y
  <1> QED
    BY <1>3, <1>4

\* The item the reference has at a position.
ItemAt(a, i) == IF IsActiveAt(epochs[a], i) THEN history[i + 1] ELSE <<NullPayload>>

\* Its digest is the leaf the reference has there.
LEMMA ItemIs ==
  ASSUME LogInv, NEW a \in Algs, NEW i \in Nat, i < Size(a)
  PROVE  /\ Len(ItemAt(a, i)) \in Nat /\ DOMAIN ItemAt(a, i) = 1..Len(ItemAt(a, i))
         /\ ItemAt(a, i) # <<>> => Evaluate(a, ItemAt(a, i)) = Ref(a)[<<i, 0>>]
  <1>1. Ref(a)[<<i, 0>>] = IF IsActiveAt(epochs[a], i) THEN Evaluate(a, history[i + 1]) ELSE Null(a)
    BY References DEF ReferenceLeaf
  <1>2. CASE IsActiveAt(epochs[a], i)
    <2>1. ItemAt(a, i) = history[i + 1]
      BY <1>2 DEF ItemAt
    <2>2. i + 1 \in 1..Len(history) /\ history \in Seq(Seq(STRING))
      <3>1. Size(a) \in 0..count /\ count \in Nat
        BY SizeKnown DEF LogInv
      <3> QED
        BY <3>1 DEF LogInv, HistoryKept
    <2>3. history[i + 1] \in Seq(STRING)
      BY <2>2
    <2> QED
      BY <1>1, <1>2, <2>1, <2>3
  <1>3. CASE ~IsActiveAt(epochs[a], i)
    <2>1. ItemAt(a, i) = <<NullPayload>>
      BY <1>3 DEF ItemAt
    <2> DEFINE item == <<NullPayload>>
    <2>2. Len(item) = 1 /\ item[1] = NullPayload /\ DOMAIN item = 1..1
      OBVIOUS
    <2>3. Evaluate(a, item) = NaryMr(a, [m \in 1..1 |-> LeafHash(a, NullPayload)])
      BY <2>2 DEF Evaluate
    <2> DEFINE d == [m \in 1..1 |-> LeafHash(a, NullPayload)]
    <2>4. Len(d) = 1 /\ DOMAIN d = 1..1 /\ d[1] = Null(a) /\ \A m \in DOMAIN d : d[m] = d[1]
      BY DEF LeafHash
    <2> HIDE DEF d
    <2>5. NaryMr(a, d) = Null(a)
      BY <2>4 DEF NaryMr
    <2> HIDE DEF item
    <2> QED
      BY <1>1, <1>3, <2>1, <2>2, <2>3, <2>5 DEF d, item
  <1> QED
    BY <1>2, <1>3

\* A proof from a payload of the item at a position, as the verifier follows it.
Verifies(a, i, size, item, j) ==
  RootAt(a, size) = ReconstructInclusionRoot(a, LeafHash(a, item[j]), MountainSkeleton(size, i),
                      WithinSubtreePath(a, item, j) \o InclusionProof(a, i, size).path)

\* It does, whichever payload it is.
LEMMA PayloadVerifies ==
  ASSUME LogInv, NEW a \in Algs, NEW size \in 1..Size(a), NEW i \in 0..size - 1,
         NEW item, item = ItemAt(a, i), NEW j \in DOMAIN item
  PROVE  Verifies(a, i, size, item, j)
  <1> DEFINE at == FrontierForSize(size)
             f == MountainOf(i, at)
             skeleton == MountainSkeleton(size, i)
             q == WithinSubtreePath(a, item, j)
             x == LeafHash(a, item[j])
             y == Evaluate(a, item)
             z == RootAt(a, size)
  <1>1. size \in Nat /\ i \in Nat /\ i < size /\ i < Size(a)
    BY SizeKnown DEF LogInv
  <1>2. PICK n, p : ProofSaid(a, i, size, at[f][1], at[f][2], n, p)
    BY <1>1, ProofIs
  <1>3. Len(item) \in Nat /\ DOMAIN item = 1..Len(item) /\ item # <<>> /\ y = Ref(a)[<<i, 0>>]
    <2>1. Len(item) \in Nat /\ DOMAIN item = 1..Len(item) /\ (item # <<>> => y = Ref(a)[<<i, 0>>])
      BY <1>1, ItemIs
    <2> HIDE DEF y
    <2>2. item # <<>>
      OBVIOUS
    <2> QED
      BY <2>1, <2>2
  <1>4. PICK k : Leads(a, q, k, x, y)
    BY <1>3, WithinLeads
  <1>5. InclusionProof(a, i, size).path = p /\ Leads(a, p, n, y, z) /\ ShapesOf(p, n, skeleton)
    BY <1>2, <1>3 DEF ProofSaid
  <1> HIDE DEF q, x, y, z, skeleton
  <1>6. Leads(a, q \o p, k + n, x, z)
    BY <1>4, <1>5, LeadsOn
  <1>7. Fits(q \o p, skeleton)
    <2>1. k \in Nat /\ q = [m \in 1..k |-> q[m]] /\ n \in Nat /\ p = [m \in 1..n |-> p[m]]
      BY <1>4, <1>5 DEF Leads
    <2> QED
      BY <1>5, <2>1, FitsItsEnd
  <1>8. ReconstructInclusionRoot(a, x, skeleton, q \o p) = z
    BY <1>6, <1>7, VerifierFollows
  <1> QED
    BY <1>5, <1>8 DEF Verifies, q, x, z, skeleton

\* Every proof there is.
LEMMA InclusionSaid ==
  ASSUME LogInv
  PROVE  InclusionProofsVerify
  <1>1. ASSUME NEW a \in Algs, NEW size \in 1..Size(a)
        PROVE  /\ a \in ActiveAlgsAt(size) => RootForAt(a, size) = RootAt(a, size)
               /\ ReferenceRoot(a, size) = RootAt(a, size)
    <2>1. PeaksRead(a, size, Len(FrontierForSize(size)))
      BY PeaksReadBack
    <2>2. ReferenceRoot(a, size) = RootAt(a, size)
      BY <2>1 DEF PeaksRead
    <2>3. size \in 1..count
      BY SizeKnown DEF LogInv
    <2> QED
      BY <2>2, <2>3, RootReadBack
  <1>2. ASSUME NEW a \in Algs, NEW size \in 1..Size(a), NEW i \in 0..size - 1
        PROVE  /\ InclusionProof(a, i, size) # NoProof
               /\ \A j \in DOMAIN ItemAt(a, i) : Verifies(a, i, size, ItemAt(a, i), j)
    <2> DEFINE at == FrontierForSize(size)
               f == MountainOf(i, at)
    <2>1. i \in Nat /\ i < size
      BY SizeKnown DEF LogInv
    <2>2. PICK n, p : ProofSaid(a, i, size, at[f][1], at[f][2], n, p)
      BY <2>1, ProofIs
    <2>3. InclusionProof(a, i, size) = [path |-> p]
      BY <2>2 DEF ProofSaid
    <2>4. DOMAIN [path |-> p] # DOMAIN NoProof
      <3>1. "refused" \in DOMAIN NoProof /\ "refused" \notin DOMAIN [path |-> p]
        BY DEF NoProof
      <3> QED
        BY <3>1
    <2>5. InclusionProof(a, i, size) # NoProof
      BY <2>3, <2>4
    <2> QED
      BY <2>5, PayloadVerifies
  <1>3. ASSUME NEW a \in Algs, NEW size \in 1..Size(a), NEW i \in 0..size - 1
        PROVE  LET proof == InclusionProof(a, i, size)
                   skeleton == MountainSkeleton(size, i)
                   item == IF IsActiveAt(epochs[a], i) THEN history[i + 1] ELSE <<NullPayload>>
               IN  /\ proof # NoProof
                   /\ \A j \in DOMAIN item :
                        ReferenceRoot(a, size) = ReconstructInclusionRoot(a, LeafHash(a, item[j]), skeleton,
                                                   WithinSubtreePath(a, item, j) \o proof.path)
    BY <1>1, <1>2, Zenon DEF ItemAt, Verifies
  <1> QED
    BY <1>1, <1>3, Zenon DEF InclusionProofsVerify, Size

\* However the log went on since, every position has a proof in every size its
\* algorithm has had, and the verifier follows it to the root of that size.
THEOREM EveryPositionProvable ==
  ASSUME NoNullItems
  PROVE  Spec => []InclusionProofsVerify
  <1>1. LogInv => InclusionProofsVerify
    BY InclusionSaid
  <1> QED
    BY <1>1, LogInvariant, PTL

-----------------------------------------------------------------------------
(* Witnesses *)

\* A peak above a position is at least as high as every block of the log above it.
LEMMA PeakOver ==
  ASSUME NEW n \in Nat, NEW l \in Nat, NEW h \in Nat, Peak(l, h, n),
         NEW m \in Nat, NEW g \in Nat, Multiple(m, BlockSize(g)), m + BlockSize(g) <= n,
         NEW i \in Nat, l <= i, i < l + BlockSize(h), m <= i, i < m + BlockSize(g)
  PROVE  g <= h
  <1> SUFFICES ASSUME h < g PROVE FALSE
    OBVIOUS
  <1> DEFINE d == BlockSize(h)
             e == BlockSize(h + 1)
             k == BlockSize(g)
  <1>1. d \in Nat \ {0} /\ e \in Nat \ {0} /\ k \in Nat \ {0}
    BY BlockSizes
  <1>2. Multiple(e, d) /\ Multiple(k, e)
    BY TallerBlocks
  <1>3. Multiple(l, d) /\ \A b \in Nat : Multiple(b, e) /\ b <= l /\ l < b + e => n < b + e
    BY DEF Peak
  <1>4. Multiple(m, k) /\ m + k <= n /\ i < m + k /\ i < l + d
    OBVIOUS
  <1> HIDE DEF d, e, k
  <1>5. PICK b \in Nat : Multiple(b, e) /\ b <= l /\ l < b + e
    BY <1>1, Floor
  <1>6. b + e \in Nat /\ m + k \in Nat
    BY <1>1
  <1>7. Multiple(b + e, e) /\ Multiple(b + e, d) /\ Multiple(m, e) /\ Multiple(m + k, e)
    <2>1. Multiple(b + e, e)
      BY <1>1, <1>5, MultipleAdd
    <2>2. Multiple(m + k, k)
      BY <1>1, <1>4, MultipleAdd
    <2> QED
      BY <1>1, <1>2, <1>4, <1>6, <2>1, <2>2, MultipleTransitive
  <1>8. l + d <= b + e
    BY <1>1, <1>3, <1>5, <1>6, <1>7, MultiplesApart
  <1>9. m <= b
    <2> SUFFICES ASSUME b < m PROVE FALSE
      OBVIOUS
    <2>1. b + e <= m
      BY <1>1, <1>5, <1>7, MultiplesApart
    <2> QED
      BY <1>1, <1>4, <1>6, <1>8, <2>1
  <1>10. b < m + k
    BY <1>1, <1>4, <1>5, <1>6
  <1>11. b + e <= m + k
    BY <1>1, <1>5, <1>6, <1>7, <1>10, MultiplesApart
  <1>12. n < b + e
    BY <1>3, <1>5
  <1> QED
    BY <1>1, <1>4, <1>6, <1>11, <1>12

\* In whatever mountain, the block of a height above a position is the same.
LEMMA SameBlockAbove ==
  ASSUME NEW i \in Nat, NEW h \in Nat, NEW l \in Nat, l <= i, NEW g \in Nat, h <= g, Multiple(l, BlockSize(g)),
         NEW m \in Nat, m <= i, NEW k \in Nat, h <= k, Multiple(m, BlockSize(k))
  PROVE  BlockAt(l, i, h) = BlockAt(m, i, h)
  <1> DEFINE d == BlockSize(h)
             x == BlockAt(l, i, h)
             y == BlockAt(m, i, h)
  <1>1. /\ x \in Nat /\ x <= i /\ i < x + BlockSize(h) /\ Multiple(x, BlockSize(h))
        /\ y \in Nat /\ y <= i /\ i < y + BlockSize(h) /\ Multiple(y, BlockSize(h))
    BY BlockAround
  <1>2. d \in Nat \ {0}
    BY BlockSizes
  <1>3. /\ x \in Nat /\ x <= i /\ i < x + d /\ Multiple(x, d)
        /\ y \in Nat /\ y <= i /\ i < y + d /\ Multiple(y, d)
    BY <1>1
  <1> HIDE DEF d, x, y
  <1>4. x < y => x + d <= y
    BY <1>2, <1>3, MultiplesApart
  <1>5. y < x => y + d <= x
    BY <1>2, <1>3, MultiplesApart
  <1>6. x = y
    BY <1>2, <1>3, <1>4, <1>5
  <1> QED
    BY <1>6 DEF x, y

\* So is the step to it.
LEMMA SameClimbStep ==
  ASSUME NEW a, NEW i \in Nat, NEW h \in Nat,
         NEW l \in Nat, l <= i, NEW g \in Nat, h < g, Multiple(l, BlockSize(g)),
         NEW m \in Nat, m <= i, NEW k \in Nat, h < k, Multiple(m, BlockSize(k))
  PROVE  ClimbStep(a, l, i, h) = ClimbStep(a, m, i, h)
  <1>1. h + 1 \in Nat /\ h + 1 <= g /\ h + 1 <= k
    OBVIOUS
  <1>2. BlockAt(l, i, h + 1) = BlockAt(m, i, h + 1)
    BY <1>1, SameBlockAbove
  <1> QED
    BY <1>2 DEF ClimbStep, ChildOf

\* A witness is durable.
LEMMA WitnessSaid ==
  ASSUME LogInv
  PROVE  WitnessesDurable
  <1> SUFFICES ASSUME NEW a \in Algs, NEW size \in 1..Size(a) - 1, NEW i \in 0..size - 1,
                      NEW at, at = FrontierForSize(size)
               PROVE  SubSeq(InclusionProof(a, i, size).path, 1, at[MountainOf(i, at)][2])
                        = SubSeq(InclusionProof(a, i, size + 1).path, 1, at[MountainOf(i, at)][2])
    BY Zenon DEF WitnessesDurable, Size
  <1> DEFINE bt == FrontierForSize(size + 1)
             f == MountainOf(i, at)
             g == MountainOf(i, bt)
             l == at[f][1]
             h == at[f][2]
             m == bt[g][1]
             k == bt[g][2]
  <1>1. /\ size \in Nat /\ size + 1 \in Nat /\ size \in 1..Size(a) /\ size + 1 \in 1..Size(a)
        /\ i \in Nat /\ i < size /\ i < size + 1
    BY SizeKnown DEF LogInv
  <1>2. OnMountain(at, size, i, f)
    BY <1>1, MountainIs
  <1>3. OnMountain(bt, size + 1, i, g)
    BY <1>1, MountainIs
  <1>4. PICK n, p : ProofSaid(a, i, size, l, h, n, p)
    BY <1>1, ProofIs
  <1>5. PICK nn, q : ProofSaid(a, i, size + 1, m, k, nn, q)
    BY <1>1, ProofIs
  <1>6. Covers(bt, 0, size + 1)
    BY <1>1, FrontierCovers
  <1>7. Peak(m, k, size + 1)
    BY <1>3, <1>6 DEF Covers, OnMountain
  <1>8. /\ l \in Nat /\ h \in Nat /\ Multiple(l, BlockSize(h)) /\ l <= i /\ i < l + BlockSize(h)
        /\ l + BlockSize(h) <= size
    BY <1>2 DEF OnMountain, End
  <1>9. m \in Nat /\ k \in Nat /\ Multiple(m, BlockSize(k)) /\ m <= i /\ i < m + BlockSize(k)
    BY <1>3 DEF OnMountain
  <1> HIDE DEF f, g, l, h, m, k, bt
  <1>10. h <= k
    <2>1. l + BlockSize(h) <= size + 1
      BY <1>1, <1>8, BlockSizes
    <2> QED
      BY <1>1, <1>7, <1>8, <1>9, <2>1, PeakOver
  <1>11. ASSUME NEW x \in 1..h PROVE p[x] = q[x]
    <2>1. x \in 1..k /\ x - 1 \in Nat /\ x - 1 < h /\ x - 1 < k
      BY <1>8, <1>9, <1>10
    <2>2. p[x] = ClimbStep(a, l, i, x - 1) /\ q[x] = ClimbStep(a, m, i, x - 1)
      BY <1>4, <1>5, <2>1 DEF ProofSaid
    <2>3. ClimbStep(a, l, i, x - 1) = ClimbStep(a, m, i, x - 1)
      BY <1>1, <1>8, <1>9, <2>1, SameClimbStep
    <2> QED
      BY <2>2, <2>3
  <1>12. n \in Nat /\ h <= n /\ p = [x \in 1..n |-> p[x]] /\ InclusionProof(a, i, size) = [path |-> p]
    BY <1>4 DEF ProofSaid, Leads
  <1>13. nn \in Nat /\ k <= nn /\ q = [x \in 1..nn |-> q[x]] /\ InclusionProof(a, i, size + 1) = [path |-> q]
    BY <1>5 DEF ProofSaid, Leads
  <1>14. SubSeq(p, 1, h) = [x \in 1..h |-> p[x]]
    <2>1. h \in 0..n
      BY <1>8, <1>12
    <2> QED
      BY <1>12, <2>1, FirstIs
  <1>15. SubSeq(q, 1, h) = [x \in 1..h |-> q[x]]
    <2>1. h \in 0..nn
      BY <1>8, <1>9, <1>10, <1>13
    <2> QED
      BY <1>13, <2>1, FirstIs
  <1>16. SubSeq(p, 1, h) = SubSeq(q, 1, h)
    BY <1>11, <1>14, <1>15
  <1>17. InclusionProof(a, i, size).path = p /\ InclusionProof(a, i, size + 1).path = q
    BY <1>12, <1>13
  <1>18. at[MountainOf(i, at)][2] = h
    BY DEF f, h
  <1> QED
    BY <1>16, <1>17, <1>18, Zenon

\* A witness is durable: the part of a proof below the peak is, unchanged, the beginning
\* of the proof for the next size.
THEOREM WitnessNeverStale ==
  ASSUME NoNullItems
  PROVE  Spec => []WitnessesDurable
  <1>1. LogInv => WitnessesDurable
    BY WitnessSaid
  <1> QED
    BY <1>1, LogInvariant, PTL

-----------------------------------------------------------------------------
(* Sequences one after the other *)

\* A sequence that is equal to its elements in order.
IsList(s) == Len(s) \in Nat /\ s = [i \in 1..Len(s) |-> s[i]]

\* Two lists one after the other are a list.
LEMMA ListOn ==
  ASSUME NEW s, IsList(s), NEW t, IsList(t)
  PROVE  IsList(s \o t) /\ Len(s \o t) = Len(s) + Len(t)
  <1> DEFINE n == Len(s)
             m == Len(t)
             u == s \o t
  <1>1. n \in Nat /\ m \in Nat /\ s = [i \in 1..n |-> s[i]] /\ t = [i \in 1..m |-> t[i]]
    BY DEF IsList
  <1> HIDE DEF n, m
  <1>2. u = [i \in 1..n + m |-> IF i <= n THEN s[i] ELSE t[i - n]]
    BY <1>1, ConcatIs
  <1> HIDE DEF u
  <1>3. u = [i \in 1..n + m |-> u[i]] /\ n + m \in Nat
    BY <1>1, <1>2
  <1>4. Len(u) = n + m
    BY <1>3, FcnIsSeq
  <1> QED
    BY <1>3, <1>4 DEF IsList, u, n, m

\* It does not matter which two of three lists are joined first.
LEMMA ListsAssociate ==
  ASSUME NEW s, IsList(s), NEW t, IsList(t), NEW u, IsList(u)
  PROVE  (s \o t) \o u = s \o (t \o u)
  <1> DEFINE n == Len(s)
             m == Len(t)
             k == Len(u)
             x == s \o t
             y == t \o u
             v == x \o u
             w == s \o y
  <1>1. /\ n \in Nat /\ m \in Nat /\ k \in Nat
        /\ s = [i \in 1..n |-> s[i]] /\ t = [i \in 1..m |-> t[i]] /\ u = [i \in 1..k |-> u[i]]
    BY DEF IsList
  <1>2. Len(x) = n + m /\ Len(y) = m + k /\ IsList(x) /\ IsList(y)
    BY ListOn
  <1> HIDE DEF n, m, k
  <1>3. x = [i \in 1..n + m |-> IF i <= n THEN s[i] ELSE t[i - n]]
    BY <1>1, ConcatIs
  <1>4. y = [i \in 1..m + k |-> IF i <= m THEN t[i] ELSE u[i - m]]
    BY SMTT(30), <1>1, ConcatIs
  <1> HIDE DEF x, y
  <1>5. n + m \in Nat /\ m + k \in Nat /\ x = [i \in 1..n + m |-> x[i]] /\ y = [i \in 1..m + k |-> y[i]]
    BY <1>1, <1>2 DEF IsList
  <1>6. v = [i \in 1..(n + m) + k |-> IF i <= n + m THEN x[i] ELSE u[i - (n + m)]]
    <2> DEFINE nm == n + m
    <2>1. nm \in Nat /\ x = [i \in 1..nm |-> x[i]]
      BY <1>5
    <2> HIDE DEF nm
    <2>2. x \o u = [i \in 1..nm + k |-> IF i <= nm THEN x[i] ELSE u[i - nm]]
      BY <1>1, <2>1, ConcatIs
    <2> QED
      BY <2>2 DEF nm, v
  <1>7. w = [i \in 1..n + (m + k) |-> IF i <= n THEN s[i] ELSE y[i - n]]
    BY SMTT(30), <1>1, <1>5, ConcatIs
  <1> HIDE DEF v, w
  <1>8. ASSUME NEW i \in 1..n + m + k PROVE v[i] = w[i]
    <2>1. CASE i <= n
      <3>1. i \in 1..n + m /\ i <= n + m /\ i \in 1..n + (m + k)
        BY <1>1, <2>1
      <3>2. x[i] = s[i]
        BY <1>3, <2>1, <3>1
      <3>3. v[i] = x[i] /\ w[i] = s[i]
        BY <1>6, <1>7, <2>1, <3>1
      <3> QED
        BY <3>2, <3>3
    <2>2. CASE i > n /\ i <= n + m
      <3>1. i \in 1..n + m /\ ~(i <= n) /\ i \in 1..n + (m + k) /\ i - n \in 1..m + k /\ i - n <= m
        BY <1>1, <2>2
      <3>2. x[i] = t[i - n]
        BY <1>3, <3>1
      <3>3. y[i - n] = t[i - n]
        BY <1>4, <3>1
      <3>4. v[i] = x[i] /\ w[i] = y[i - n]
        BY <1>6, <1>7, <2>2, <3>1
      <3> QED
        BY <3>2, <3>3, <3>4
    <2>3. CASE i > n + m
      <3>1. /\ ~(i <= n) /\ ~(i <= n + m) /\ i \in 1..n + (m + k) /\ i - n \in 1..m + k /\ ~(i - n <= m)
            /\ (i - n) - m = i - (n + m)
        BY <1>1, <2>3
      <3>2. y[i - n] = u[i - (n + m)]
        BY <1>4, <3>1
      <3>3. v[i] = u[i - (n + m)] /\ w[i] = y[i - n]
        BY <1>6, <1>7, <3>1
      <3> QED
        BY <3>2, <3>3
    <2> QED
      BY <1>1, <2>1, <2>2, <2>3
  <1>9. v = [i \in 1..n + m + k |-> v[i]] /\ w = [i \in 1..n + m + k |-> w[i]]
    <2>1. (n + m) + k = n + m + k /\ n + (m + k) = n + m + k
      BY <1>1
    <2> QED
      BY <1>6, <1>7, <2>1
  <1>10. v = w
    BY <1>8, <1>9
  <1> QED
    BY <1>10 DEF v, w, x, y

\* The empty list adds nothing.
LEMMA NothingOn ==
  ASSUME NEW s, IsList(s)
  PROVE  IsList(<<>>) /\ s \o <<>> = s /\ <<>> \o s = s
  <1> DEFINE n == Len(s)
             e == <<>>
  <1>1. n \in Nat /\ s = [i \in 1..n |-> s[i]]
    BY DEF IsList
  <1>2. Len(e) = 0 /\ e = [i \in 1..0 |-> e[i]]
    OBVIOUS
  <1>3. IsList(e)
    BY <1>2 DEF IsList
  <1> HIDE DEF e, n
  <1>4. s \o e = [i \in 1..n + 0 |-> IF i <= n THEN s[i] ELSE e[i - n]]
    BY <1>1, <1>2, ConcatIs
  <1>5. e \o s = [i \in 1..0 + n |-> IF i <= 0 THEN e[i] ELSE s[i - 0]]
    BY <1>1, <1>2, ConcatIs
  <1>6. [i \in 1..n + 0 |-> IF i <= n THEN s[i] ELSE e[i - n]] = [i \in 1..n |-> s[i]]
    BY <1>1
  <1>7. [i \in 1..0 + n |-> IF i <= 0 THEN e[i] ELSE s[i - 0]] = [i \in 1..n |-> s[i]]
    BY <1>1
  <1> QED
    BY <1>1, <1>3, <1>4, <1>5, <1>6, <1>7 DEF e

\* fl[n] are the first n of k sequences one after the other.
Flattens(s, k, fl) ==
  /\ fl[0] = <<>> /\ FlattenSeq(s) = fl[k]
  /\ \A n \in 1..k : fl[n] = fl[n - 1] \o s[n]

\* FlattenSeq joins the lists of a sequence from the first on.
LEMMA FlattenIs ==
  ASSUME NEW k \in Nat, NEW s, s = [n \in 1..k |-> s[n]], \A n \in 1..k : IsList(s[n])
  PROVE  \E fl : Flattens(s, k, fl)
  <1> DEFINE m == Len(s)
             next(i, f) == IF i = 1 THEN s[i] ELSE f[i - 1] \o s[i]
             body(f) == [i \in 1..m |-> next(i, f)]
             flatten == CHOOSE f : f = body(f)
             Starts(f, j) == f[0] = <<>> /\ \A i \in 1..j : f[i] = f[i - 1] \o s[i]
  <1>1. m = k
    BY FcnIsSeq
  <1>2. FlattenSeq(s) = IF m = 0 THEN s ELSE flatten[m]
    BY Zenon DEF FlattenSeq
  <1> HIDE DEF m
  <1>3. \A j \in Nat : \E f : Starts(f, j)
    <2> DEFINE S == {j \in Nat : \E f : Starts(f, j)}
    <2>1. 0 \in S
      <3>1. Starts([i \in {0} |-> <<>>], 0)
        OBVIOUS
      <3> QED
        BY <3>1
    <2>2. ASSUME NEW j \in Nat, j \in S PROVE j + 1 \in S
      <3>1. PICK f : Starts(f, j)
        BY <2>2
      <3> DEFINE g == [i \in 0..j + 1 |-> IF i <= j THEN f[i] ELSE f[j] \o s[j + 1]]
      <3>2. g[0] = <<>>
        BY <3>1
      <3>3. ASSUME NEW i \in 1..j + 1 PROVE g[i] = g[i - 1] \o s[i]
        <4>1. /\ i \in 0..j + 1 /\ i - 1 \in 0..j + 1 /\ i - 1 <= j
              /\ i <= j => i \in 1..j
              /\ ~(i <= j) => i = j + 1 /\ i - 1 = j
          OBVIOUS
        <4>2. g[i - 1] = f[i - 1] /\ g[i] = IF i <= j THEN f[i] ELSE f[j] \o s[j + 1]
          BY <4>1
        <4> HIDE DEF g
        <4> QED
          BY <3>1, <4>1, <4>2
      <3> HIDE DEF g
      <3>4. \A i \in 1..j + 1 : g[i] = g[i - 1] \o s[i]
        BY <3>3
      <3>5. Starts(g, j + 1)
        BY <3>2, <3>4, Zenon
      <3>6. j + 1 \in Nat
        OBVIOUS
      <3> HIDE DEF Starts
      <3> QED
        BY <3>5, <3>6
    <2> HIDE DEF S
    <2>3. \A j \in Nat : j \in S
      BY <2>1, <2>2, SetInduction
    <2> QED
      BY <2>3 DEF S
  <1>4. PICK fl : Starts(fl, k)
    BY <1>3
  <1>5. \A i \in 1..k : IsList(fl[i]) /\ fl[i] = next(i, fl)
    <2> DEFINE S == {j \in Nat : j + 1 \in 1..k => IsList(fl[j + 1]) /\ fl[j + 1] = next(j + 1, fl)}
    <2>1. 0 \in S
      <3> SUFFICES ASSUME 0 + 1 \in 1..k PROVE IsList(fl[1]) /\ fl[1] = s[1]
        OBVIOUS
      <3>1. 1 \in 1..k /\ IsList(s[1])
        OBVIOUS
      <3>2. fl[1] = <<>> \o s[1]
        <4>1. fl[1] = fl[1 - 1] \o s[1] /\ fl[0] = <<>>
          BY <1>4, <3>1
        <4>2. 1 - 1 = 0
          OBVIOUS
        <4> QED
          BY <4>1, <4>2
      <3>3. <<>> \o s[1] = s[1]
        BY <3>1, NothingOn
      <3> QED
        BY <3>1, <3>2, <3>3
    <2>2. ASSUME NEW j \in Nat, j \in S PROVE j + 1 \in S
      <3> SUFFICES ASSUME (j + 1) + 1 \in 1..k
                   PROVE  IsList(fl[(j + 1) + 1]) /\ fl[(j + 1) + 1] = next((j + 1) + 1, fl)
        OBVIOUS
      <3> DEFINE i == (j + 1) + 1
      <3>1. i \in 1..k /\ i - 1 = j + 1 /\ j + 1 \in 1..k /\ i # 1
        OBVIOUS
      <3>2. IsList(fl[j + 1])
        BY <2>2, <3>1
      <3>3. fl[i] = fl[i - 1] \o s[i] /\ IsList(s[i])
        BY <1>4, <3>1
      <3> HIDE DEF i
      <3>4. IsList(fl[i])
        BY <3>1, <3>2, <3>3, ListOn
      <3>5. fl[i] = next(i, fl)
        BY <3>1, <3>3
      <3> QED
        BY <3>4, <3>5 DEF i
    <2> HIDE DEF S
    <2>3. \A j \in Nat : j \in S
      BY <2>1, <2>2, SetInduction
    <2> SUFFICES ASSUME NEW i \in 1..k PROVE IsList(fl[i]) /\ fl[i] = next(i, fl)
      OBVIOUS
    <2>4. i - 1 \in Nat /\ (i - 1) + 1 = i
      OBVIOUS
    <2>5. (i - 1) + 1 \in 1..k => IsList(fl[(i - 1) + 1]) /\ fl[(i - 1) + 1] = next((i - 1) + 1, fl)
      BY <2>3, <2>4 DEF S
    <2> HIDE DEF next
    <2> QED
      BY <2>4, <2>5
  <1>6. flatten = body(flatten)
    <2> DEFINE whole == [i \in 1..k |-> fl[i]]
    <2>1. \A i \in 1..k : whole[i] = fl[i] /\ (i # 1 => i - 1 \in 1..k)
      OBVIOUS
    <2>2. whole = [i \in 1..k |-> whole[i]]
      OBVIOUS
    <2> HIDE DEF whole
    <2>3. \A i \in 1..k : whole[i] = next(i, whole)
      BY <1>5, <2>1
    <2> HIDE DEF next
    <2>4. whole = body(whole)
      BY <1>1, <2>2, <2>3
    <2> HIDE DEF body
    <2> QED
      BY <2>4
  <1> HIDE DEF flatten
  <1>7. \A i \in 1..k : flatten[i] = next(i, flatten)
    <2> HIDE DEF next
    <2> QED
      BY <1>1, <1>6
  <1>8. \A i \in 1..k : flatten[i] = fl[i]
    <2> DEFINE S == {j \in Nat : j + 1 \in 1..k => flatten[j + 1] = fl[j + 1]}
    <2>1. 0 \in S
      BY <1>5, <1>7
    <2>2. ASSUME NEW j \in Nat, j \in S PROVE j + 1 \in S
      <3> SUFFICES ASSUME (j + 1) + 1 \in 1..k PROVE flatten[(j + 1) + 1] = fl[(j + 1) + 1]
        OBVIOUS
      <3> DEFINE i == (j + 1) + 1
      <3>1. i \in 1..k /\ i - 1 = j + 1 /\ j + 1 \in 1..k /\ i # 1
        OBVIOUS
      <3>2. flatten[j + 1] = fl[j + 1]
        BY <2>2, <3>1
      <3> HIDE DEF i
      <3>3. flatten[i] = fl[i]
        BY <1>5, <1>7, <3>1, <3>2
      <3> QED
        BY <3>3 DEF i
    <2> HIDE DEF S
    <2>3. \A j \in Nat : j \in S
      BY <2>1, <2>2, SetInduction
    <2> SUFFICES ASSUME NEW i \in 1..k PROVE flatten[i] = fl[i]
      OBVIOUS
    <2>4. i - 1 \in Nat /\ (i - 1) + 1 = i
      OBVIOUS
    <2>5. (i - 1) + 1 \in 1..k => flatten[(i - 1) + 1] = fl[(i - 1) + 1]
      BY <2>3, <2>4 DEF S
    <2> QED
      BY <2>4, <2>5
  <1>9. FlattenSeq(s) = fl[k]
    <2>1. CASE k = 0
      <3>1. s = <<>>
        BY <2>1
      <3> QED
        BY <1>1, <1>2, <1>4, <2>1, <3>1
    <2>2. CASE k # 0
      <3>1. k \in 1..k
        BY <2>2
      <3> QED
        BY <1>1, <1>2, <1>8, <2>2, <3>1
    <2> QED
      BY <2>1, <2>2
  <1> QED
    BY <1>4, <1>9 DEF Flattens

-----------------------------------------------------------------------------
(* Gathering the peaks of a size from the first on *)

\* The first peaks of n leaves, those that end at e or before.
CoversTo(s, n, e) ==
  /\ s \in Seq(Coordinates)
  /\ \A i \in 1..Len(s) : Peak(s[i][1], s[i][2], n)
  /\ \A i \in 1..Len(s) - 1 : s[i + 1][1] = End(s[i])
  /\ IF s = <<>> THEN e = 0 ELSE s[1][1] = 0 /\ End(s[Len(s)]) = e

\* d are their digests.
Gathered(ref, d, n, e) == \E s : CoversTo(s, n, e) /\ d = [i \in 1..Len(s) |-> ref[s[i]]]

\* Before the first peak there are none.
LEMMA GatherNothing ==
  ASSUME NEW ref, NEW n
  PROVE  Gathered(ref, <<>>, n, 0)
  <1> DEFINE s == <<>>
  <1>1. Len(s) = 0 /\ s \in Seq(Coordinates)
    OBVIOUS
  <1>2. CoversTo(s, n, 0)
    BY <1>1 DEF CoversTo
  <1>3. s = [i \in 1..Len(s) |-> ref[s[i]]]
    BY <1>1
  <1> HIDE DEF s
  <1>4. Gathered(ref, s, n, 0)
    BY <1>2, <1>3 DEF Gathered
  <1> QED
    BY <1>4 DEF s

\* The gathered digests are a list.
LEMMA GatheredIsList ==
  ASSUME NEW ref, NEW d, NEW n, NEW e, Gathered(ref, d, n, e)
  PROVE  IsList(d)
  <1>1. PICK s : CoversTo(s, n, e) /\ d = [i \in 1..Len(s) |-> ref[s[i]]]
    BY DEF Gathered
  <1>2. Len(s) \in Nat
    BY <1>1 DEF CoversTo
  <1>3. Len(d) = Len(s) /\ d = [i \in 1..Len(s) |-> d[i]]
    BY <1>1, <1>2
  <1> QED
    BY <1>2, <1>3 DEF IsList

\* The next peak adds one.
LEMMA GatherOne ==
  ASSUME NEW ref, NEW d, NEW n, NEW c \in Coordinates, Gathered(ref, d, n, c[1]), Peak(c[1], c[2], n)
  PROVE  Gathered(ref, d \o <<ref[c]>>, n, End(c))
  <1>1. PICK s : CoversTo(s, n, c[1]) /\ d = [i \in 1..Len(s) |-> ref[s[i]]]
    BY DEF Gathered
  <1> DEFINE p == Len(s)
             t == Append(s, c)
  <1>2. /\ s \in Seq(Coordinates) /\ p \in Nat
        /\ \A i \in 1..p : Peak(s[i][1], s[i][2], n)
        /\ \A i \in 1..p - 1 : s[i + 1][1] = End(s[i])
        /\ IF s = <<>> THEN c[1] = 0 ELSE s[1][1] = 0 /\ End(s[p]) = c[1]
    BY <1>1 DEF CoversTo
  <1>3. /\ t \in Seq(Coordinates) /\ Len(t) = p + 1 /\ t[p + 1] = c /\ t # <<>>
        /\ \A i \in 1..p : t[i] = s[i]
    <2>1. t \in Seq(Coordinates) /\ Len(t) = p + 1 /\ s = [i \in 1..p |-> s[i]]
      BY <1>2
    <2> HIDE DEF p
    <2>2. t = [i \in 1..p + 1 |-> IF i <= p THEN s[i] ELSE c]
      BY <1>2, <2>1, AppendIs
    <2> HIDE DEF t
    <2>3. p + 1 \in 1..p + 1 /\ ~(p + 1 <= p) /\ p + 1 # 0
      BY <1>2
    <2>6. \A i \in 1..p : i \in 1..p + 1 /\ i <= p
      BY <1>2
    <2>4. t[p + 1] = c /\ \A i \in 1..p : t[i] = s[i]
      <3>1. t[p + 1] = c
        BY <2>2, <2>3
      <3>2. ASSUME NEW i \in 1..p PROVE t[i] = s[i]
        BY <2>2, <2>6
      <3> QED
        BY <3>1, <3>2
    <2>5. t # <<>>
      BY <2>1, <2>3
    <2> QED
      BY <2>1, <2>4, <2>5
  <1>4. s = <<>> <=> p = 0
    BY <1>2
  <1> HIDE DEF t, p
  <1>5. \A i \in 1..Len(t) : Peak(t[i][1], t[i][2], n)
    <2> SUFFICES ASSUME NEW i \in 1..p + 1 PROVE Peak(t[i][1], t[i][2], n)
      BY <1>3
    <2>1. i \in 1..p \/ i = p + 1
      BY <1>2
    <2> QED
      BY <1>2, <1>3, <2>1
  <1>6. \A i \in 1..Len(t) - 1 : t[i + 1][1] = End(t[i])
    <2> SUFFICES ASSUME NEW i \in 1..p PROVE t[i + 1][1] = End(t[i])
      BY <1>2, <1>3
    <2>1. CASE i = p
      <3>1. s # <<>>
        BY <1>4, <2>1
      <3> QED
        BY <1>2, <1>3, <2>1, <3>1
    <2>2. CASE i # p
      <3>1. i \in 1..p - 1 /\ i + 1 \in 1..p
        BY <1>2, <2>2
      <3> QED
        BY <1>2, <1>3, <3>1
    <2> QED
      BY <2>1, <2>2
  <1>7. t[1][1] = 0 /\ End(t[Len(t)]) = End(c)
    <2>1. CASE p = 0
      BY <1>2, <1>3, <1>4, <2>1
    <2>2. CASE p # 0
      <3>1. 1 \in 1..p
        BY <1>2, <2>2
      <3> QED
        BY <1>2, <1>3, <1>4, <2>2, <3>1
    <2> QED
      BY <2>1, <2>2
  <1>8. CoversTo(t, n, End(c))
    BY <1>3, <1>5, <1>6, <1>7 DEF CoversTo
  <1> DEFINE u == d \o <<ref[c]>>
  <1>9. u = [i \in 1..Len(t) |-> ref[t[i]]]
    <2>1. d = [i \in 1..p |-> ref[s[i]]]
      BY <1>1 DEF p
    <2>2. \A i \in 1..p : d[i] = ref[s[i]]
      BY <2>1
    <2>3. d = [i \in 1..p |-> d[i]]
      BY <2>1
    <2>4. u = [i \in 1..p + 1 |-> IF i <= p THEN d[i] ELSE ref[c]]
      BY <1>2, <2>3, ConcatOne
    <2> HIDE DEF u
    <2>5. \A i \in 1..p + 1 : u[i] = ref[t[i]]
      <3> SUFFICES ASSUME NEW i \in 1..p + 1 PROVE u[i] = ref[t[i]]
        OBVIOUS
      <3>1. CASE i \in 1..p
        BY <1>3, <2>2, <2>4, <3>1
      <3>2. CASE i = p + 1
        <4>1. ~(i <= p)
          BY <1>2, <3>2
        <4> QED
          BY <1>3, <2>4, <3>2, <4>1
      <3> QED
        BY <1>2, <3>1, <3>2
    <2>6. u = [i \in 1..p + 1 |-> u[i]]
      BY <2>4
    <2>7. u = [i \in 1..p + 1 |-> ref[t[i]]]
      BY <2>5, <2>6
    <2> QED
      BY <1>3, <2>7
  <1> HIDE DEF u
  <1>10. Gathered(ref, u, n, End(c))
    BY <1>8, <1>9 DEF Gathered
  <1> QED
    BY <1>10 DEF u

\* Those gathered up to the size are all peaks of it.
LEMMA GatheredAll ==
  ASSUME NEW ref, NEW d, NEW n \in Nat, Gathered(ref, d, n, n)
  PROVE  d = PeaksOf(ref, n)
  <1>1. PICK s : CoversTo(s, n, n) /\ d = [i \in 1..Len(s) |-> ref[s[i]]]
    BY DEF Gathered
  <1>2. Covers(s, 0, n)
    BY <1>1 DEF CoversTo, Covers
  <1>3. s = FrontierForSize(n)
    BY <1>2, FrontierCovers, CoverUnique
  <1> QED
    BY <1>1, <1>3 DEF PeaksOf

\* One element more of the beginning of a sequence.
LEMMA PartGrows ==
  ASSUME NEW x, NEW m \in Nat, NEW e, x[m + 1] = e
  PROVE  [j \in 1..m + 1 |-> x[j]] = [j \in 1..m |-> x[j]] \o <<e>>
  <1> DEFINE y == [j \in 1..m |-> x[j]]
  <1>1. y = [j \in 1..m |-> y[j]]
    OBVIOUS
  <1>2. \A j \in 1..m : y[j] = x[j]
    OBVIOUS
  <1> HIDE DEF y
  <1>3. y \o <<e>> = [j \in 1..m + 1 |-> IF j <= m THEN y[j] ELSE e]
    BY <1>1, ConcatOne
  <1>4. \A j \in 1..m + 1 : (IF j <= m THEN y[j] ELSE e) = x[j]
    <2> SUFFICES ASSUME NEW j \in 1..m + 1 PROVE (IF j <= m THEN y[j] ELSE e) = x[j]
      OBVIOUS
    <2>1. CASE j <= m
      <3>1. j \in 1..m
        BY <2>1
      <3> QED
        BY <1>2, <2>1, <3>1
    <2>2. CASE ~(j <= m)
      <3>1. j = m + 1
        BY <2>2
      <3> QED
        BY <2>2, <3>1
    <2> QED
      BY <2>1, <2>2
  <1>5. y \o <<e>> = [j \in 1..m + 1 |-> x[j]]
    BY <1>3, <1>4
  <1> QED
    BY <1>5 DEF y

\* Blocks of one height in a row.
LEMMA GatherMany ==
  ASSUME NEW ref, NEW d, NEW n, NEW b \in Nat, Gathered(ref, d, n, b), NEW g \in Nat, NEW q \in Nat,
         \A j \in 1..q : Peak(b + (j - 1) * BlockSize(g), g, n),
         NEW x, x = [j \in 1..q |-> ref[<<b + (j - 1) * BlockSize(g), g>>]]
  PROVE  Gathered(ref, d \o x, n, b + q * BlockSize(g))
  <1> DEFINE k == BlockSize(g)
             c(j) == <<b + (j - 1) * k, g>>
             part(m) == [j \in 1..m |-> x[j]]
             S == {m \in Nat : m <= q => Gathered(ref, d \o part(m), n, b + m * k)}
  <1>1. k \in Nat \ {0}
    BY BlockSizes
  <1>2. \A j \in 1..q : x[j] = ref[c(j)] /\ Peak(c(j)[1], c(j)[2], n)
    OBVIOUS
  <1>3. IsList(d)
    BY GatheredIsList
  <1>4. ASSUME NEW m \in Nat PROVE IsList(part(m))
    <2>1. part(m) = [j \in 1..m |-> part(m)[j]]
      OBVIOUS
    <2>2. Len(part(m)) = m
      OBVIOUS
    <2> HIDE DEF part
    <2> QED
      BY <2>1, <2>2 DEF IsList
  <1>5. x = part(q)
    OBVIOUS
  <1> HIDE DEF k
  <1>6. 0 \in S
    <2>1. part(0) = <<>>
      OBVIOUS
    <2>2. d \o <<>> = d /\ b + 0 * k = b
      BY <1>1, <1>3, NothingOn
    <2> QED
      BY <2>1, <2>2
  <1>7. ASSUME NEW m \in Nat, m \in S PROVE m + 1 \in S
    <2> SUFFICES ASSUME m + 1 <= q PROVE Gathered(ref, d \o part(m + 1), n, b + (m + 1) * k)
      OBVIOUS
    <2>1. m + 1 \in 1..q /\ (m + 1) - 1 = m /\ m <= q /\ m + 1 \in Nat
      OBVIOUS
    <2> DEFINE cc == <<b + m * k, g>>
    <2>2. x[m + 1] = ref[cc] /\ Peak(cc[1], cc[2], n)
      BY <1>2, <2>1
    <2>3. cc \in Coordinates /\ cc[1] = b + m * k /\ End(cc) = b + (m + 1) * k
      <3>1. cc[1] = b + m * k /\ cc[2] = g /\ b + m * k \in Nat
        BY <1>1
      <3>2. End(cc) = b + m * k + k
        BY <3>1 DEF End, k
      <3>3. b + m * k + k = b + (m + 1) * k
        BY <1>1
      <3> QED
        BY <3>1, <3>2, <3>3 DEF Coordinates
    <2>4. Gathered(ref, d \o part(m), n, cc[1])
      BY <1>7, <2>1, <2>3
    <2> HIDE DEF cc
    <2>5. Gathered(ref, (d \o part(m)) \o <<ref[cc]>>, n, End(cc))
      <3> HIDE DEF part
      <3> QED
        BY <2>2, <2>3, <2>4, GatherOne
    <2>6. part(m + 1) = part(m) \o <<ref[cc]>>
      <3>1. x[m + 1] = ref[cc]
        BY <2>2
      <3> QED
        BY <3>1, PartGrows
    <2>7. (d \o part(m)) \o <<ref[cc]>> = d \o part(m + 1)
      <3> DEFINE z == <<ref[cc]>>
      <3>1. Len(z) = 1 /\ z = [j \in 1..1 |-> z[j]]
        OBVIOUS
      <3> HIDE DEF z
      <3>2. IsList(z)
        BY <3>1 DEF IsList
      <3>3. IsList(part(m))
        BY <1>4
      <3> HIDE DEF part
      <3>4. (d \o part(m)) \o z = d \o (part(m) \o z)
        BY SMTT(30), <1>3, <3>2, <3>3, ListsAssociate
      <3> QED
        BY <2>6, <3>4 DEF z
    <2> HIDE DEF part
    <2> QED
      BY <2>3, <2>5, <2>7
  <1> HIDE DEF S
  <1>8. q \in S
    BY <1>6, <1>7, SetInduction
  <1>9. q <= q => Gathered(ref, d \o part(q), n, b + q * k)
    BY <1>8 DEF S
  <1> HIDE DEF part
  <1>10. Gathered(ref, d \o x, n, b + q * k)
    <2>1. q <= q
      OBVIOUS
    <2> QED
      BY <1>5, <1>9, <2>1, Zenon
  <1> QED
    BY <1>10 DEF k

-----------------------------------------------------------------------------
(* Old and new peaks *)

\* A peak that ends within fewer leaves is one of theirs.
LEMMA PeakOfLess ==
  ASSUME NEW l \in Nat, NEW h \in Nat, NEW n \in Nat, Peak(l, h, n), NEW m \in Nat, m <= n, l + BlockSize(h) <= m
  PROVE  Peak(l, h, m)
  <1> DEFINE e == BlockSize(h + 1)
  <1>1. e \in Nat
    BY BlockSizes
  <1>2. Multiple(l, BlockSize(h)) /\ \A b \in Nat : Multiple(b, e) /\ b <= l /\ l < b + e => n < b + e
    BY DEF Peak
  <1> HIDE DEF e
  <1>3. \A b \in Nat : Multiple(b, e) /\ b <= l /\ l < b + e => m < b + e
    <2> SUFFICES ASSUME NEW b \in Nat, Multiple(b, e), b <= l, l < b + e PROVE m < b + e
      OBVIOUS
    <2>1. n < b + e /\ b + e \in Nat
      BY <1>1, <1>2
    <2> QED
      BY <2>1
  <1> QED
    BY <1>2, <1>3 DEF Peak, e

\* The peaks in front of one, as far as they are peaks of a smaller size too.
LEMMA GatherFirst ==
  ASSUME NEW ref, NEW n \in Nat, NEW at, Covers(at, 0, n), NEW f \in 1..Len(at),
         NEW m \in Nat, m <= n, at[f][1] <= m,
         NEW d, d = [i \in 1..f - 1 |-> ref[at[i]]]
  PROVE  Gathered(ref, d, m, at[f][1])
  <1> DEFINE s == [i \in 1..f - 1 |-> at[i]]
             k == Len(at)
  <1>1. /\ k \in Nat /\ at \in Seq(Coordinates) /\ at # <<>> /\ at[1][1] = 0
        /\ \A i \in 1..k : Peak(at[i][1], at[i][2], n)
        /\ \A i \in 1..k - 1 : at[i + 1][1] = End(at[i])
    BY DEF Covers
  <1>2. \A i \in 1..k : at[i] \in Coordinates
    BY <1>1
  <1>3. f \in 1..k
    OBVIOUS
  <1>4. f - 1 \in Nat /\ \A i \in 1..f - 1 : i \in 1..k /\ s[i] = at[i]
    BY <1>1, <1>3
  <1>5. Len(s) = f - 1 /\ s \in Seq(Coordinates) /\ (s = <<>> <=> f = 1)
    <2>1. s = [i \in 1..f - 1 |-> s[i]]
      OBVIOUS
    <2>2. Len(s) = f - 1
      BY <1>4
    <2>3. s \in [1..f - 1 -> Coordinates]
      BY <1>2, <1>4
    <2>4. s \in Seq(Coordinates)
      BY <1>4, <2>3
    <2> HIDE DEF s
    <2>5. s = <<>> <=> Len(s) = 0
      BY <2>4
    <2> QED
      BY <2>2, <2>4, <2>5
  <1> HIDE DEF s, k
  <1>6. ASSUME NEW i \in 1..Len(s) PROVE Peak(s[i][1], s[i][2], m)
    <2>1. i \in 1..k /\ s[i] = at[i] /\ at[i] \in Coordinates /\ i \in 1..f - 1
      BY <1>2, <1>4, <1>5
    <2>2. End(at[i]) <= at[f][1]
      BY <2>1, PeaksOrdered
    <2>3. at[i][1] \in Nat /\ at[i][2] \in Nat /\ End(at[i]) \in Nat /\ at[f][1] \in Nat
      BY <1>2, <1>3, <2>1, CoordinateIsPair
    <2>4. at[i][1] + BlockSize(at[i][2]) <= m
      BY <2>2, <2>3 DEF End
    <2>5. Peak(at[i][1], at[i][2], m)
      BY <1>1, <2>1, <2>3, <2>4, PeakOfLess
    <2> QED
      BY <2>1, <2>5
  <1>7. ASSUME NEW i \in 1..Len(s) - 1 PROVE s[i + 1][1] = End(s[i])
    <2>1. i \in 1..f - 1 /\ i + 1 \in 1..f - 1 /\ i \in 1..k - 1
      BY <1>1, <1>3, <1>5
    <2> QED
      BY <1>1, <1>4, <2>1
  <1>8. IF s = <<>> THEN at[f][1] = 0 ELSE s[1][1] = 0 /\ End(s[Len(s)]) = at[f][1]
    <2>1. CASE f = 1
      BY <1>1, <1>5, <2>1
    <2>2. CASE f # 1
      <3>1. 1 \in 1..f - 1 /\ f - 1 \in 1..f - 1 /\ f - 1 \in 1..k - 1 /\ (f - 1) + 1 = f
        BY <1>1, <1>3, <2>2
      <3> QED
        BY <1>1, <1>4, <1>5, <2>2, <3>1
    <2> QED
      BY <2>1, <2>2
  <1>9. CoversTo(s, m, at[f][1])
    BY <1>5, <1>6, <1>7, <1>8 DEF CoversTo
  <1>10. d = [i \in 1..Len(s) |-> ref[s[i]]]
    BY <1>4, <1>5
  <1> QED
    BY <1>9, <1>10 DEF Gathered

\* The blocks to the left of a size's last peak, within a block of a larger size above
\* it, are peaks of that size.
LEMMA LeftSiblingsArePeaks ==
  ASSUME NEW l \in Nat, NEW h \in Nat, Multiple(l, BlockSize(h)),
         NEW i \in Nat, NEW from \in Nat, l <= i, i < l + BlockSize(h), NEW n \in Nat, Peak(i, from, n), i + BlockSize(from) = n,
         NEW g \in Nat, from <= g, g < h, NEW j \in 1..ChildOf(l, i, g) - 1
  PROVE  Peak(BlockAt(l, i, g + 1) + (j - 1) * BlockSize(g), g, n)
  <1> DEFINE b == BlockAt(l, i, g + 1)
             k == BlockSize(g)
             e == BlockSize(g + 1)
             c == ChildOf(l, i, g)
             x == b + (j - 1) * k
             y == BlockAt(l, i, g)
             d == BlockSize(from + 1)
             dd == BlockSize(from)
  <1>1. k \in Nat \ {0} /\ e = Arity * k /\ e \in Nat \ {0} /\ d \in Nat \ {0} /\ dd \in Nat \ {0}
    BY BlockSizes
  <1>2. /\ b \in Nat /\ b <= i /\ i < b + e /\ Multiple(b, e)
    <2>1. g + 1 \in Nat /\ g + 1 <= h
      OBVIOUS
    <2> QED
      BY <2>1, BlockAround
  <1>3. y <= i /\ y \in Nat
    BY BlockAround
  <1>4. c \in 1..Arity /\ y = b + (c - 1) * k
    BY BlockBelow
  <1>5. j \in 1..Arity /\ x \in Nat /\ x + k <= y /\ x + k <= b + e /\ b <= x
    <2> HIDE DEF b, k, e, c, y
    <2>1. j \in 1..c - 1
      BY DEF c
    <2>2. j \in 1..Arity /\ j <= c - 1 /\ j - 1 \in Nat
      BY <1>4, <2>1, ArityAssumption
    <2>3. x \in Nat /\ b <= x /\ x + k = b + j * k
      BY <1>1, <1>2, <2>2
    <2>4. j * k <= (c - 1) * k
      BY <1>1, <1>4, <2>2
    <2>5. (c - 1) * k <= Arity * k
      BY <1>1, <1>4, ArityAssumption
    <2> QED
      BY <1>1, <1>2, <1>3, <1>4, <2>2, <2>3, <2>4, <2>5
  <1>6. Multiple(x, k)
    <2>1. Multiple(e, k)
      BY TallerBlocks
    <2>2. Multiple(b, k)
      BY <1>1, <1>2, <2>1, MultipleTransitive
    <2>3. j - 1 \in Nat
      BY <1>5
    <2> HIDE DEF b, k
    <2> QED
      BY <1>1, <1>2, <2>2, <2>3, MultipleAdd
  <1>7. n = i + dd /\ Multiple(i, dd)
    BY DEF Peak
  <1>8. n < b + e
    <2>1. Multiple(e, dd) /\ Multiple(e, d)
      <3>1. g + 1 \in Nat /\ from + 1 \in Nat /\ from <= g + 1 /\ from + 1 <= g + 1
        OBVIOUS
      <3> QED
        BY <3>1, TallerBlocks
    <2>2. b + e \in Nat /\ Multiple(b + e, e)
      BY <1>1, <1>2, MultipleAdd
    <2>3. Multiple(b + e, dd) /\ Multiple(b + e, d)
      BY <1>1, <2>1, <2>2, MultipleTransitive
    <2>4. \A q \in Nat : Multiple(q, d) /\ q <= i /\ i < q + d => n < q + d
      BY DEF Peak
    <2> HIDE DEF b, e, d, dd
    <2>5. i + dd <= b + e
      BY <1>1, <1>2, <1>7, <2>2, <2>3, MultiplesApart
    <2>6. PICK q \in Nat : Multiple(q, d) /\ q <= i /\ i < q + d
      BY <1>1, Floor
    <2>7. n < q + d
      BY <2>4, <2>6
    <2>8. q + d <= b + e
      <3>1. q < b + e
        BY <1>2, <2>2, <2>6
      <3> QED
        BY <1>1, <2>2, <2>3, <2>6, <3>1, MultiplesApart
    <2> QED
      BY <1>1, <2>2, <2>6, <2>7, <2>8
  <1>9. x + k <= n
    BY <1>1, <1>3, <1>5, <1>7
  <1>10. ASSUME NEW q \in Nat, Multiple(q, e), q <= x, x < q + e PROVE n < q + e
    <2> HIDE DEF b, e, k, x
    <2>1. x < b + e
      BY <1>1, <1>2, <1>5
    <2>2. b < q => b + e <= q
      BY <1>1, <1>2, <1>10, MultiplesApart
    <2>3. q < b => q + e <= b
      BY <1>1, <1>2, <1>10, MultiplesApart
    <2>4. q = b
      BY <1>1, <1>2, <1>5, <1>10, <2>1, <2>2, <2>3
    <2> QED
      BY <1>8, <2>4
  <1> QED
    BY <1>6, <1>9, <1>10 DEF Peak

-----------------------------------------------------------------------------
(* What a path leaves to its left *)

\* What a step has to the left of its node.
LeftOf(step) == SubSeq(step.siblings, 1, step.position)

\* It is what d has before its c-th element.
LeftAre(step, c, d) == LeftOf(step) = [j \in 1..c - 1 |-> d[j]]

\* It is so for a step from the c-th of the children d.
LEMMA LeftIs ==
  ASSUME NEW k \in Nat, NEW c \in 1..k, NEW d, d = [j \in 1..k |-> d[j]], NEW step, step = StepFrom(c, d)
  PROVE  LeftAre(step, c, d)
  <1> DEFINE s == RemoveAt(d, c)
  <1>1. step.siblings = s /\ step.position = c - 1
    BY DEF StepFrom
  <1>2. s = [j \in 1..k - 1 |-> IF j < c THEN d[j] ELSE d[j + 1]]
    BY Without
  <1> HIDE DEF s
  <1>3. k - 1 \in Nat /\ c - 1 \in 0..k - 1 /\ s = [j \in 1..k - 1 |-> s[j]]
    BY <1>2
  <1>4. SubSeq(s, 1, c - 1) = [j \in 1..c - 1 |-> s[j]]
    BY <1>3, FirstIs
  <1>5. \A j \in 1..c - 1 : s[j] = d[j]
    <2> SUFFICES ASSUME NEW j \in 1..c - 1 PROVE s[j] = d[j]
      OBVIOUS
    <2>1. j \in 1..k - 1 /\ j < c
      OBVIOUS
    <2> QED
      BY <1>2, <2>1
  <1>6. [j \in 1..c - 1 |-> s[j]] = [j \in 1..c - 1 |-> d[j]]
    BY <1>5
  <1> QED
    BY <1>1, <1>4, <1>6 DEF LeftOf, LeftAre

\* On a climb those are the blocks to the left within the block above.
LeftBlocks(r, l, i, g, x) ==
  x = [j \in 1..ChildOf(l, i, g) - 1 |-> r[<<BlockAt(l, i, g + 1) + (j - 1) * BlockSize(g), g>>]]

\* A climb leaves to its left the blocks before the one it came from.
LEMMA ClimbLeft ==
  ASSUME NEW a, NEW r, NEW l \in Nat, NEW h \in Nat, Multiple(l, BlockSize(h)),
         NEW i \in Nat, l <= i, i < l + BlockSize(h), NEW from, Reads(a, r, l, h, i, from),
         NEW g \in Nat, from <= g, g < h
  PROVE  LeftBlocks(r, l, i, g, LeftOf(ClimbStep(a, l, i, g)))
  <1> DEFINE c == ChildOf(l, i, g)
             at(j) == BlockAt(l, i, g + 1) + (j - 1) * BlockSize(g)
             d == [j \in 1..Arity |-> GetNodeHash(a, epochs[a], at(j), g)]
             step == ClimbStep(a, l, i, g)
  <1>1. c \in 1..Arity
    BY BlockBelow
  <1>2. \A j \in 1..Arity : j # c => d[j] = r[<<at(j), g>>]
    <2> SUFFICES ASSUME NEW j \in 1..Arity, j # c PROVE GetNodeHash(a, epochs[a], at(j), g) = r[<<at(j), g>>]
      OBVIOUS
    <2> DEFINE x == <<at(j), g>>
    <2>1. x[1] = at(j) /\ x[2] = g /\ x = Child(l, i, g, j)
      BY DEF Child
    <2> HIDE DEF at, x, c
    <2>2. ReadsAt(a, r, x)
      BY <2>1 DEF Reads, c
    <2> QED
      BY <2>1, <2>2 DEF ReadsAt, x
  <1>3. d = [j \in 1..Arity |-> d[j]]
    OBVIOUS
  <1>4. step = StepFrom(c, d)
    BY DEF ClimbStep
  <1> HIDE DEF c, d, step, at
  <1>5. LeftOf(step) = [j \in 1..c - 1 |-> d[j]]
    <2>1. LeftAre(step, c, d)
      BY <1>1, <1>3, <1>4, ArityAssumption, LeftIs
    <2> QED
      BY <2>1 DEF LeftAre
  <1>6. \A j \in 1..c - 1 : d[j] = r[<<at(j), g>>]
    <2>1. \A j \in 1..c - 1 : j \in 1..Arity /\ j # c
      BY <1>1, ArityAssumption
    <2> QED
      BY <1>2, <2>1
  <1>7. LeftOf(step) = [j \in 1..c - 1 |-> r[<<at(j), g>>]]
    BY <1>5, <1>6
  <1> QED
    BY <1>7 DEF LeftBlocks, c, at, step

\* From the tallest down, they go on from the peaks before the mountain up to the
\* position the climb starts from.
LEMMA MergedGather ==
  ASSUME NEW a, NEW r, NEW l \in Nat, NEW h \in Nat, Multiple(l, BlockSize(h)),
         NEW i \in Nat, l <= i, i < l + BlockSize(h), NEW from \in 0..h, Reads(a, r, l, h, i, from),
         NEW n \in Nat, Peak(i, from, n), i + BlockSize(from) = n,
         NEW p, Climbed(a, r, l, h, i, from, p),
         NEW d, Gathered(r, d, n, l)
  PROVE  Gathered(r, d \o MergedPeaks(p), n, i) /\ IsList(MergedPeaks(p))
  <1> DEFINE k == h - from
             s == [m \in DOMAIN p |-> SubSeq(p[m].siblings, 1, p[m].position)]
             t == Reverse(s)
             g(m) == h - m
             y(m) == BlockAt(l, i, h - m)
  <1>1. k \in Nat /\ p = [m \in 1..k |-> p[m]]
    BY DEF Climbed, Leads
  <1>2. MergedPeaks(p) = FlattenSeq(t)
    BY Zenon DEF MergedPeaks
  <1>3. \A m \in 1..k : p[m] = ClimbStep(a, l, i, from + m - 1)
    BY DEF Climbed
  <1> HIDE DEF k
  <1>4. s = [m \in 1..k |-> LeftOf(p[m])]
    <2>1. DOMAIN p = 1..k
      BY <1>1
    <2> QED
      BY <2>1 DEF LeftOf
  <1> HIDE DEF s
  <1>5. t = [m \in 1..k |-> s[k - m + 1]]
    <2>1. Len(s) = k
      BY <1>1, <1>4
    <2> QED
      BY <2>1 DEF Reverse
  <1> HIDE DEF t
  <1>6. ASSUME NEW m \in 1..k PROVE h - m \in Nat /\ from <= h - m /\ h - m < h /\ LeftBlocks(r, l, i, h - m, t[m])
    <2>1. k - m + 1 \in 1..k /\ from + (k - m + 1) - 1 = h - m /\ h - m \in Nat /\ h - m < h /\ from <= h - m
      BY SMTT(30), <1>1 DEF k
    <2>2. t[m] = LeftOf(ClimbStep(a, l, i, h - m))
      BY <1>3, <1>4, <1>5, <2>1
    <2>3. LeftBlocks(r, l, i, h - m, LeftOf(ClimbStep(a, l, i, h - m)))
      BY <2>1, ClimbLeft
    <2> QED
      BY <2>1, <2>2, <2>3
  <1>7. ASSUME NEW m \in 1..k PROVE IsList(t[m])
    <2> DEFINE c == ChildOf(l, i, h - m) - 1
               x == t[m]
    <2>1. t[m] = [j \in 1..c |-> r[<<BlockAt(l, i, h - m + 1) + (j - 1) * BlockSize(h - m), h - m>>]]
      BY <1>6 DEF LeftBlocks
    <2>2. c \in Nat
      <3>1. ChildOf(l, i, h - m) \in 1..Arity
        BY <1>6, BlockBelow
      <3> QED
        BY <3>1, ArityAssumption
    <2> HIDE DEF c
    <2>3. Len(x) = c /\ x = [j \in 1..c |-> x[j]]
      BY <2>1, <2>2
    <2> HIDE DEF x
    <2>4. IsList(x)
      BY <2>2, <2>3 DEF IsList
    <2> QED
      BY <2>4 DEF x
  <1>8. PICK fl : Flattens(t, k, fl)
    <2>1. t = [m \in 1..k |-> t[m]]
      BY <1>5
    <2> QED
      BY <1>1, <1>7, <2>1, FlattenIs
  <1>9. fl[0] = <<>> /\ FlattenSeq(t) = fl[k] /\ \A m \in 1..k : fl[m] = fl[m - 1] \o t[m]
    BY <1>8 DEF Flattens
  <1> DEFINE S == {m \in Nat : m <= k => Gathered(r, d \o fl[m], n, BlockAt(l, i, h - m)) /\ IsList(fl[m])}
  <1>10. IsList(d)
    BY GatheredIsList
  <1>11. 0 \in S
    <2>1. BlockAt(l, i, h) = l
      BY BlockAround
    <2>2. d \o <<>> = d /\ IsList(<<>>)
      BY <1>10, NothingOn
    <2>3. h - 0 = h
      OBVIOUS
    <2> QED
      BY <1>9, <2>1, <2>2, <2>3
  <1>12. ASSUME NEW m \in Nat, m \in S PROVE m + 1 \in S
    <2> SUFFICES ASSUME m + 1 <= k
                 PROVE  Gathered(r, d \o fl[m + 1], n, BlockAt(l, i, h - (m + 1))) /\ IsList(fl[m + 1])
      OBVIOUS
    <2> DEFINE e == h - (m + 1)
               x == t[m + 1]
               b == BlockAt(l, i, e + 1)
               q == ChildOf(l, i, e) - 1
    <2>1. m + 1 \in 1..k /\ (m + 1) - 1 = m /\ m <= k /\ h - m = e + 1
      BY SMTT(30), <1>1 DEF k
    <2>2. e \in Nat /\ from <= e /\ e < h /\ LeftBlocks(r, l, i, e, x) /\ IsList(x)
      BY <1>6, <1>7, <2>1
    <2>3. Gathered(r, d \o fl[m], n, b) /\ IsList(fl[m])
      BY <1>12, <2>1
    <2>4. fl[m + 1] = fl[m] \o x
      BY <1>9, <2>1
    <2> HIDE DEF S, e, x
    <2>5. b \in Nat
      <3>1. e + 1 \in Nat
        BY <2>2
      <3> QED
        BY <3>1, BlockAround
    <2>6. q \in Nat /\ BlockAt(l, i, e) = b + q * BlockSize(e)
      <3>1. ChildOf(l, i, e) \in 1..Arity /\ BlockAt(l, i, e) = b + (ChildOf(l, i, e) - 1) * BlockSize(e)
        BY <2>2, BlockBelow
      <3> QED
        BY <3>1, ArityAssumption
    <2>7. \A j \in 1..q : Peak(b + (j - 1) * BlockSize(e), e, n)
      BY <2>2, LeftSiblingsArePeaks
    <2>8. x = [j \in 1..q |-> r[<<b + (j - 1) * BlockSize(e), e>>]]
      BY <2>2 DEF LeftBlocks
    <2> HIDE DEF b, q
    <2>9. Gathered(r, (d \o fl[m]) \o x, n, b + q * BlockSize(e))
      BY <2>2, <2>3, <2>5, <2>6, <2>7, <2>8, GatherMany
    <2>10. (d \o fl[m]) \o x = d \o fl[m + 1]
      <3> DEFINE u == fl[m]
      <3>2. IsList(d) /\ IsList(u) /\ IsList(x)
        BY <1>10, <2>2, <2>3
      <3> HIDE DEF u
      <3>3. (d \o u) \o x = d \o (u \o x)
        BY ONLY <3>2, ListsAssociate
      <3>1. (d \o fl[m]) \o x = d \o (fl[m] \o x)
        BY <3>3 DEF u
      <3> QED
        BY <2>4, <3>1
    <2>11. IsList(fl[m + 1])
      BY <2>2, <2>3, <2>4, ListOn
    <2>12. Gathered(r, d \o fl[m + 1], n, BlockAt(l, i, e))
      BY <2>6, <2>9, <2>10
    <2> QED
      BY <2>11, <2>12 DEF e
  <1> HIDE DEF S
  <1>13. k \in S
    BY <1>1, <1>11, <1>12, SetInduction
  <1>14. Gathered(r, d \o fl[k], n, BlockAt(l, i, h - k)) /\ IsList(fl[k])
    <2>1. k <= k
      BY <1>1
    <2> QED
      BY <1>13, <2>1 DEF S
  <1>15. BlockAt(l, i, h - k) = i
    <2>1. h - k = from /\ from \in Nat /\ from <= h
      BY DEF k
    <2>2. Multiple(BlockSize(h), BlockSize(from))
      BY <2>1, TallerBlocks
    <2>3. BlockSize(h) \in Nat /\ BlockSize(from) \in Nat
      BY <2>1, BlockSizes
    <2>4. Multiple(l, BlockSize(from))
      BY <2>2, <2>3, MultipleTransitive
    <2>5. Multiple(i, BlockSize(from))
      BY DEF Peak
    <2> QED
      BY <2>1, <2>4, <2>5, BlockStarts
  <1> QED
    BY <1>2, <1>9, <1>14, <1>15

-----------------------------------------------------------------------------
(* From the last old peak to a new one *)

\* The last peak of a size, its boundary.
LEMMA BoundaryIs ==
  ASSUME NEW n \in Nat \ {0}, NEW c, c = Last(FrontierForSize(n))
  PROVE  /\ c \in Coordinates /\ c = <<c[1], c[2]>> /\ c[1] \in Nat /\ c[2] \in Nat
         /\ Peak(c[1], c[2], n) /\ c[1] + BlockSize(c[2]) = n /\ c[1] < n
  <1> DEFINE at == FrontierForSize(n)
  <1>1. Covers(at, 0, n)
    BY FrontierCovers
  <1>2. at \in Seq(Coordinates) /\ at # <<>>
    BY <1>1 DEF Covers
  <1>3. Len(at) \in 1..Len(at)
    BY <1>2
  <1>4. c = at[Len(at)]
    BY DEF Last
  <1>5. c \in Coordinates /\ Peak(c[1], c[2], n) /\ End(c) = n
    BY <1>1, <1>2, <1>3, <1>4 DEF Covers
  <1> QED
    BY <1>5, CoordinateIsPair DEF End

\* What a climb from the boundary of an old size asks for, a store that begins no later
\* than that size has: to the left the old peaks, to the right what came since.
LEMMA BoundaryReads ==
  ASSUME NEW a, NEW lo, RightFrom(a, lo), NEW old \in Nat, lo <= old, NEW l \in Nat, NEW h \in Nat,
         Multiple(l, BlockSize(h)), l + BlockSize(h) <= Size(a),
         NEW i \in Nat, l <= i, i < l + BlockSize(h), NEW from \in 0..h,
         Peak(i, from, old), i + BlockSize(from) = old
  PROVE  Reads(a, Ref(a), l, h, i, from)
  <1>1. Size(a) \in Nat /\ lo \in Nat
    BY DEF RightFrom
  <1>2. ASSUME NEW g \in Nat, from <= g, g < h, NEW j \in 1..Arity, j # ChildOf(l, i, g)
        PROVE  ReadsAt(a, Ref(a), Child(l, i, g, j))
    <2> DEFINE b == BlockAt(l, i, g + 1)
               k == BlockSize(g)
               m == ChildOf(l, i, g)
               y == BlockAt(l, i, g)
               x == Child(l, i, g, j)
    <2>1. x \in Blocks(Size(a))
      BY <1>1, <1>2, ChildIsBlock
    <2>2. x[1] = b + (j - 1) * k /\ x[2] = g
      BY DEF Child
    <2>3. x \in Coordinates /\ End(x) \in Nat /\ x[1] \in Nat /\ x[1] < End(x)
      BY <2>1, CoordinateIsPair DEF Blocks
    <2>4. m \in 1..Arity /\ y = b + (m - 1) * k
      BY <1>2, BlockBelow
    <2>5. Asked(lo, x)
      <3>1. CASE j < m
        <4>1. j \in 1..m - 1
          BY <1>2, <2>4, <3>1, ArityAssumption
        <4>2. Peak(x[1], x[2], old)
          BY <1>2, <2>2, <4>1, LeftSiblingsArePeaks
        <4>3. CASE End(x) > lo
          BY <4>3 DEF Asked
        <4>4. CASE End(x) <= lo
          BY <1>1, <2>3, <4>2, <4>4, PeakStays DEF Asked
        <4> QED
          BY <1>1, <2>3, <4>3, <4>4
      <3>2. CASE m < j
        <4>1. /\ y \in Nat /\ y <= i /\ i < y + k /\ Multiple(y, k)
          BY <1>2, BlockAround
        <4>2. g \in Nat /\ from \in Nat /\ from <= g
          BY <1>2
        <4>3. k \in Nat \ {0} /\ BlockSize(from) \in Nat \ {0} /\ Multiple(k, BlockSize(from))
          BY <4>2, BlockSizes, TallerBlocks
        <4>4. Multiple(y, BlockSize(from)) /\ y + k \in Nat
          BY <4>1, <4>3, MultipleTransitive
        <4>5. Multiple(y + k, BlockSize(from))
          <5>1. PICK p \in Nat : y = p * BlockSize(from)
            BY <4>4 DEF Multiple
          <5>2. PICK q \in Nat : k = q * BlockSize(from)
            BY <4>3 DEF Multiple
          <5> HIDE DEF y, k
          <5>3. y + k = (p + q) * BlockSize(from) /\ p + q \in Nat
            BY <4>3, <5>1, <5>2
          <5> QED
            BY <5>3 DEF Multiple
        <4>6. Multiple(i, BlockSize(from))
          BY DEF Peak
        <4> HIDE DEF y, k, m, b, x
        <4>7. old <= y + k
          BY <4>1, <4>3, <4>4, <4>5, <4>6, MultiplesApart
        <4>8. y + k <= x[1]
          <5>1. b \in Nat
            <6>1. g + 1 \in Nat /\ g + 1 <= h
              BY <1>2
            <6> QED
              BY <6>1, BlockAround DEF b
          <5>2. m - 1 \in Nat /\ j - 1 \in Nat /\ (m - 1) + 1 <= j - 1
            BY <1>2, <2>4, <3>2, ArityAssumption
          <5>3. \A u, v \in Nat : u + 1 <= v => u * k + k <= v * k
            <6> SUFFICES ASSUME NEW u \in Nat, NEW v \in Nat, u + 1 <= v PROVE u * k + k <= v * k
              OBVIOUS
            <6>1. PICK w \in Nat : v = u + 1 + w
              <7>1. v - (u + 1) \in Nat
                OBVIOUS
              <7> QED
                BY <7>1
            <6>2. v * k = u * k + k + w * k /\ w * k \in Nat /\ u * k \in Nat
              BY <4>3, <6>1
            <6> QED
              BY <4>3, <6>2
          <5>4. (m - 1) * k + k <= (j - 1) * k
            BY <5>2, <5>3
          <5>5. (m - 1) * k \in Nat /\ (j - 1) * k \in Nat
            BY <4>3, <5>2
          <5> QED
            BY <2>2, <2>4, <4>3, <5>1, <5>4, <5>5
        <4>9. End(x) > lo
          BY <1>1, <2>3, <4>4, <4>7, <4>8
        <4> QED
          BY <4>9 DEF Asked
      <3> QED
        BY <1>2, <2>4, <3>1, <3>2, ArityAssumption
    <2> QED
      BY <2>1, <2>5 DEF RightFrom
  <1> QED
    BY <1>2 DEF Reads

\* The climb of a consistency proof starts from the boundary of the old size.
LEMMA BoundaryClimbs ==
  ASSUME NEW a, NEW l \in Nat, NEW h \in Nat, Multiple(l, BlockSize(h)),
         NEW i \in Nat, NEW from \in 0..h, l <= i, i < l + BlockSize(h), Multiple(i, BlockSize(from)),
         Reads(a, Ref(a), l, h, i, from),
         NEW p, p = Climb(a, l, h, i, from)
  PROVE  /\ Climbed(a, Ref(a), l, h, i, from, p) /\ ReadableSteps(p, h - from)
         /\ Leads(a, p, h - from, Ref(a)[<<i, from>>], Ref(a)[<<l, h>>])
  <1>1. Climbed(a, Ref(a), l, h, i, from, p) /\ ReadableSteps(p, h - from)
    BY ClimbRight
  <1>2. BlockAt(l, i, from) = i
    <2>1. from \in Nat /\ from <= h
      OBVIOUS
    <2>2. Multiple(BlockSize(h), BlockSize(from)) /\ BlockSize(h) \in Nat /\ BlockSize(from) \in Nat
      BY <2>1, TallerBlocks, BlockSizes
    <2>3. Multiple(l, BlockSize(from))
      BY <2>2, MultipleTransitive
    <2> QED
      BY <2>1, <2>3, BlockStarts
  <1>3. Leads(a, p, h - from, Ref(a)[<<BlockAt(l, i, from), from>>], Ref(a)[<<l, h>>])
    BY <1>1 DEF Climbed
  <1> QED
    BY <1>1, <1>2, <1>3

\* What the verifier derives from the sizes: the shapes of that climb.
LEMMA BoundarySkeleton ==
  ASSUME NEW at, NEW size, NEW n, NEW i, NEW f, NEW l, NEW h, AreShapes(at, size, n, i, f, l, h),
         NEW from \in 0..h, NEW a, NEW r, NEW p, Climbed(a, r, l, h, i, from, p)
  PROVE  ShapesOf(p, h - from, SubSeq(MountainSkeleton(size, i), from + 1, h))
  <1> DEFINE k == BagLevels(n, f)
             bag == BagPath(Genesis, at, f)
             s == [m \in 1..h |-> [position |-> ((i - l) \div BlockSize(m - 1)) % Arity, siblings |-> Arity - 1]]
             t == [m \in DOMAIN bag |-> Shape(bag[m])]
             w == s \o t
  <1>1. /\ at = FrontierForSize(size) /\ n \in Nat \ {0} /\ at = [g \in 1..n |-> at[g]]
        /\ f = MountainOf(i, at) /\ f \in 1..n /\ l = at[f][1] /\ h = at[f][2] /\ h \in Nat
    BY DEF AreShapes
  <1>2. MountainSkeleton(size, i) = w
    <2>1. MountainSkeleton(size, i) =
            LET v == FrontierForSize(size)
                g == MountainOf(i, v)
                q == BagPath(Genesis, v, g)
            IN  [m \in 1..v[g][2] |->
                   [position |-> ((i - v[g][1]) \div BlockSize(m - 1)) % Arity, siblings |-> Arity - 1]]
                \o [m \in DOMAIN q |-> Shape(q[m])]
      BY Zenon DEF MountainSkeleton
    <2> QED
      BY <1>1, <2>1, Zenon
  <1>3. BagPathSaid(Genesis, at, n, f, bag)
    BY <1>1, BagPathIs
  <1> HIDE DEF bag
  <1>4. k \in Nat /\ DOMAIN bag = 1..k
    BY <1>3 DEF BagPathSaid, Leads
  <1> HIDE DEF k
  <1>5. s = [m \in 1..h |-> s[m]] /\ t = [m \in 1..k |-> t[m]]
    BY <1>4
  <1>6. \A m \in 1..h : s[m] = MountainShape(l, i, m)
    BY DEF MountainShape
  <1> HIDE DEF s, t
  <1>7. w = [m \in 1..h + k |-> IF m <= h THEN s[m] ELSE t[m - h]]
    <2>1. h \in Nat /\ k \in Nat
      BY <1>1, <1>4
    <2>2. s \o t = [m \in 1..h + k |-> IF m <= h THEN s[m] ELSE t[m - h]]
      BY ONLY <1>5, <2>1, ConcatIs
    <2> QED
      BY <2>2
  <1> HIDE DEF w
  <1>8. h + k \in Nat /\ w = [m \in 1..h + k |-> w[m]] /\ from + 1 \in 1..h + k + 1 /\ h \in (from + 1) - 1..h + k
    BY SMTT(30), <1>1, <1>4, <1>7
  <1> DEFINE u == SubSeq(w, from + 1, h)
             j == h - from
  <1>9. u = [m \in 1..h - (from + 1) + 1 |-> w[(from + 1) + m - 1]]
    BY SMTT(30), <1>8, SubSeqIs
  <1>10. j \in Nat /\ h - (from + 1) + 1 = j
    BY <1>1
  <1> HIDE DEF u
  <1>11. u = [m \in 1..j |-> w[(from + 1) + m - 1]]
    BY <1>9, <1>10
  <1>12. ASSUME NEW m \in 1..j PROVE w[(from + 1) + m - 1] = Shape(p[m])
    <2>1. from + m \in 1..h /\ (from + 1) + m - 1 = from + m /\ from + m \in 1..h + k /\ from + m <= h
      BY <1>1, <1>4
    <2>2. w[from + m] = MountainShape(l, i, from + m)
      BY <1>6, <1>7, <2>1
    <2>3. Shape(p[m]) = [position |-> ((i - l) \div BlockSize(from + m - 1)) % Arity, siblings |-> Arity - 1]
      BY DEF Climbed
    <2> QED
      BY <2>1, <2>2, <2>3 DEF MountainShape
  <1> HIDE DEF j
  <1>13. u = [m \in 1..j |-> Shape(p[m])]
    BY <1>11, <1>12
  <1> QED
    BY <1>2, <1>10, <1>13 DEF ShapesOf, u, j

\* What the two ends of a consistency proof are: the boundary of the old size, the
\* peak of the new one above it, and the climb between them.
Bridge(a, old, new, at, f, l, h, i, from, p) ==
  /\ at = FrontierForSize(new) /\ f = MountainOf(i, at) /\ f \in 1..Len(at)
  /\ at[f] = <<l, h>> /\ l \in Nat /\ h \in Nat /\ Multiple(l, BlockSize(h)) /\ l + BlockSize(h) <= new
  /\ Last(FrontierForSize(old)) = <<i, from>> /\ i \in Nat /\ from \in 0..h
  /\ Peak(i, from, old) /\ i + BlockSize(from) = old /\ l <= i /\ i < l + BlockSize(h)
  /\ Reads(a, Ref(a), l, h, i, from)
  /\ Climbed(a, Ref(a), l, h, i, from, p) /\ ReadableSteps(p, h - from)
  /\ Leads(a, p, h - from, Ref(a)[<<i, from>>], Ref(a)[<<l, h>>])
  /\ ShapesOf(p, h - from, SubSeq(MountainSkeleton(new, i), from + 1, h))

\* The path the log sends from the last old peak is such a bridge.
LEMMA Bridged ==
  ASSUME NEW a, NEW lo, RightFrom(a, lo), NEW new \in 1..Size(a), NEW old \in 1..new - 1, lo <= old,
         NEW at, at = FrontierForSize(new), NEW c, c = Last(FrontierForSize(old)),
         NEW f, f = MountainOf(c[1], at),
         NEW p, p = Climb(a, at[f][1], at[f][2], c[1], c[2])
  PROVE  Bridge(a, old, new, at, f, at[f][1], at[f][2], c[1], c[2], p)
  <1> DEFINE l == at[f][1]
             h == at[f][2]
             i == c[1]
             from == c[2]
  <1>1. /\ new \in Nat /\ old \in Nat \ {0} /\ old < new /\ new <= Size(a) /\ Size(a) \in Nat
        /\ lo \in Nat /\ lo <= new
    BY DEF RightFrom
  <1>2. /\ c \in Coordinates /\ c = <<i, from>> /\ i \in Nat /\ from \in Nat
        /\ Peak(i, from, old) /\ i + BlockSize(from) = old /\ i < old
    BY <1>1, BoundaryIs
  <1>3. OnMountain(at, new, i, f)
    BY <1>1, <1>2, MountainIs
  <1>4. /\ f \in 1..Len(at) /\ at[f] = <<l, h>> /\ l \in Nat /\ h \in Nat /\ Multiple(l, BlockSize(h))
        /\ l <= i /\ i < l + BlockSize(h) /\ l + BlockSize(h) <= new
    BY <1>3 DEF OnMountain, End
  <1>5. Peak(l, h, new)
    BY <1>1, <1>4, FrontierCovers DEF Covers
  <1>6. Multiple(i, BlockSize(from)) /\ BlockSize(from) \in Nat \ {0}
    BY <1>2, BlockSizes DEF Peak
  <1>7. from \in 0..h
    <2>1. i + BlockSize(from) <= new /\ i <= i /\ i < i + BlockSize(from)
      BY <1>1, <1>2, <1>6
    <2> HIDE DEF l, h, i, from
    <2>2. from <= h
      BY <1>1, <1>2, <1>4, <1>5, <1>6, <2>1, PeakOver
    <2> QED
      BY <1>2, <1>4, <2>2
  <1>8. PeaksRead(a, new, Len(at))
    BY <1>1, PeaksReadFrom
  <1>9. AreShapes(at, new, Len(at), i, f, l, h)
    BY <1>4, <1>8 DEF AreShapes, PeaksRead
  <1> HIDE DEF l, h, i, from
  <1>10. p = Climb(a, l, h, i, from)
    BY DEF l, h, i, from
  <1>14. Reads(a, Ref(a), l, h, i, from)
    <2>1. l + BlockSize(h) <= Size(a)
      <3>1. BlockSize(h) \in Nat
        BY <1>4, BlockSizes
      <3> QED
        BY <1>1, <1>4, <3>1
    <2> QED
      BY <1>1, <1>2, <1>4, <1>7, <2>1, BoundaryReads
  <1>11. /\ Climbed(a, Ref(a), l, h, i, from, p) /\ ReadableSteps(p, h - from)
         /\ Leads(a, p, h - from, Ref(a)[<<i, from>>], Ref(a)[<<l, h>>])
    BY <1>2, <1>4, <1>6, <1>7, <1>10, <1>14, BoundaryClimbs
  <1>12. ShapesOf(p, h - from, SubSeq(MountainSkeleton(new, i), from + 1, h))
    BY <1>7, <1>9, <1>11, BoundarySkeleton
  <1>13. Bridge(a, old, new, at, f, l, h, i, from, p)
    <2>1. f = MountainOf(i, at)
      BY DEF i
    <2> QED
      BY <1>2, <1>4, <1>7, <1>11, <1>12, <1>14, <2>1 DEF Bridge
  <1> QED
    BY <1>13 DEF l, h, i, from

\* The producer makes the proof from the digests of those blocks.
LEMMA ConsistencyIs ==
  ASSUME NEW a, NEW lo, RightFrom(a, lo), NEW new \in 1..Size(a), NEW old \in 1..new - 1, lo <= old,
         NEW at, NEW f, NEW l, NEW h, NEW i, NEW from, NEW p,
         Bridge(a, old, new, at, f, l, h, i, from, p), p = Climb(a, l, h, i, from)
  PROVE  ConsistencyProof(a, old, new) =
           [boundary |-> Ref(a)[<<i, from>>], path |-> p, peaks |-> PeaksOf(Ref(a), new), split |-> f]
  <1> DEFINE start == GetNodeHash(a, epochs[a], i, from)
             peaks == FrontierPeaks(a, epochs[a], new)
  <1>1. /\ new \in Nat /\ old \in Nat /\ old # 0 /\ ~(old >= new) /\ new <= Size(a) /\ Size(a) \in Nat
        /\ lo \in Nat /\ lo <= new
    BY DEF RightFrom
  <1>2. /\ at = FrontierForSize(new) /\ f = MountainOf(i, at) /\ f \in 1..Len(at) /\ at[f] = <<l, h>>
        /\ Last(FrontierForSize(old)) = <<i, from>> /\ l \in Nat /\ h \in Nat
        /\ i \in Nat /\ from \in 0..h /\ Peak(i, from, old) /\ i + BlockSize(from) = old
        /\ Leads(a, p, h - from, Ref(a)[<<i, from>>], Ref(a)[<<l, h>>]) /\ ReadableSteps(p, h - from)
    BY DEF Bridge
  <1>3. PeaksRead(a, new, Len(at))
    BY <1>1, <1>2, PeaksReadFrom
  <1>4. peaks = PeaksOf(Ref(a), new) /\ Corrupted \notin ToSet(PeaksOf(Ref(a), new))
    <2>1. /\ FrontierPeaks(a, epochs[a], new) = PeaksOf(Ref(a), new)
          /\ Readable(PeaksOf(Ref(a), new), Len(at))
          /\ PeaksOf(Ref(a), new) = [g \in 1..Len(at) |-> PeaksOf(Ref(a), new)[g]]
      BY <1>3 DEF PeaksRead
    <2> DEFINE v == PeaksOf(Ref(a), new)
    <2>2. DOMAIN v = 1..Len(at) /\ \A g \in 1..Len(at) : v[g] # Corrupted
      BY <2>1 DEF Readable
    <2> HIDE DEF v
    <2>3. Corrupted \notin ToSet(v)
      BY <2>2 DEF ToSet
    <2> QED
      BY <2>1, <2>3 DEF v
  <1>5. start = Ref(a)[<<i, from>>] /\ start # Corrupted
    <2> DEFINE c == <<i, from>>
    <2>1. from \in Nat /\ c[1] = i /\ c[2] = from /\ c \in Coordinates
      BY <1>2 DEF Coordinates
    <2>2. Multiple(i, BlockSize(from)) /\ End(c) = old
      BY <1>2, <2>1 DEF Peak, End
    <2>3. c \in Blocks(Size(a))
      BY <1>1, <2>1, <2>2 DEF Blocks
    <2>5. Asked(lo, c)
      <3>1. Peak(c[1], c[2], old)
        BY <1>2, <2>1
      <3> HIDE DEF c
      <3>2. CASE old = lo
        BY <3>1, <3>2 DEF Asked
      <3>3. CASE old # lo
        BY <1>1, <2>2, <3>3 DEF Asked
      <3> QED
        BY <3>2, <3>3
    <2> HIDE DEF c
    <2>4. GetNodeHash(a, epochs[a], c[1], c[2]) = Ref(a)[c] /\ Ref(a)[c] # Corrupted
      BY <2>3, <2>5 DEF RightFrom, ReadsAt
    <2> QED
      BY <2>1, <2>4 DEF c
  <1>6. ~Unreadable(p)
    <2>1. DOMAIN p = 1..h - from
      BY <1>2 DEF Leads
    <2> QED
      BY <1>2, <2>1 DEF Unreadable, ReadableSteps
  <1>7. ConsistencyProof(a, old, new) =
          LET boundary == Last(FrontierForSize(old))
              bt == FrontierForSize(new)
              g == MountainOf(boundary[1], bt)
              x == GetNodeHash(a, epochs[a], boundary[1], boundary[2])
              q == Climb(a, bt[g][1], bt[g][2], boundary[1], boundary[2])
          IN  IF old = 0 \/ old >= new \/ new > Size(a) THEN NoProof
              ELSE IF bt[g][2] < boundary[2] \/ Corrupted \in {x} \cup ToSet(peaks) \/ Unreadable(q) THEN NoProof
              ELSE [boundary |-> x, path |-> q, peaks |-> peaks, split |-> g]
    BY Zenon DEF ConsistencyProof, Size
  <1> DEFINE c == <<i, from>>
             m == <<l, h>>
  <1>8. c[1] = i /\ c[2] = from /\ m[1] = l /\ m[2] = h
    OBVIOUS
  <1>9. Last(FrontierForSize(old)) = c /\ at[f] = m /\ at = FrontierForSize(new)
    BY <1>2
  <1> HIDE DEF c, m, start, peaks
  <1>10. ConsistencyProof(a, old, new) =
           IF old = 0 \/ old >= new \/ new > Size(a) THEN NoProof
           ELSE IF h < from \/ Corrupted \in {start} \cup ToSet(peaks) \/ Unreadable(p) THEN NoProof
           ELSE [boundary |-> start, path |-> p, peaks |-> peaks, split |-> f]
    <2>1. f = MountainOf(c[1], at) /\ at[f][1] = l /\ at[f][2] = h
      BY <1>2, <1>8, <1>9
    <2>2. p = Climb(a, at[f][1], at[f][2], c[1], c[2]) /\ start = GetNodeHash(a, epochs[a], c[1], c[2])
      BY <1>8, <2>1 DEF start
    <2> QED
      BY <1>7, <1>8, <1>9, <2>1, <2>2, Zenon
  <1>11. ~(h < from) /\ Corrupted \notin {start} \cup ToSet(peaks)
    BY <1>2, <1>4, <1>5
  <1>12. ConsistencyProof(a, old, new) = [boundary |-> start, path |-> p, peaks |-> peaks, split |-> f]
    BY <1>1, <1>6, <1>10, <1>11
  <1> QED
    BY <1>4, <1>5, <1>12

-----------------------------------------------------------------------------
(* Consistency proofs *)

\* What the verifier gathers of the old peaks are all of them.
OldPeaks(peaks, f, p, boundary) == SubSeq(peaks, 1, f - 1) \o MergedPeaks(p) \o <<boundary>>

\* It gathers each of them, once and in order.
LEMMA OldPeaksGathered ==
  ASSUME NEW a, Size(a) \in Nat, NEW new \in 1..Size(a), NEW old \in 1..new - 1,
         NEW at, NEW f, NEW l, NEW h, NEW i, NEW from, NEW p,
         Bridge(a, old, new, at, f, l, h, i, from, p),
         NEW peaks, peaks = PeaksOf(Ref(a), new)
  PROVE  OldPeaks(peaks, f, p, Ref(a)[<<i, from>>]) = PeaksOf(Ref(a), old)
  <1> DEFINE r == Ref(a)
             d == SubSeq(peaks, 1, f - 1)
             c == <<i, from>>
             n == Len(at)
  <1>1. new \in Nat /\ old \in Nat /\ old < new
    OBVIOUS
  <1>2. /\ at = FrontierForSize(new) /\ f \in 1..n /\ at[f] = <<l, h>>
        /\ l \in Nat /\ h \in Nat /\ Multiple(l, BlockSize(h)) /\ l + BlockSize(h) <= new
        /\ i \in Nat /\ from \in 0..h /\ Peak(i, from, old) /\ i + BlockSize(from) = old
        /\ l <= i /\ i < l + BlockSize(h) /\ Climbed(a, r, l, h, i, from, p)
        /\ Reads(a, r, l, h, i, from)
    BY DEF Bridge
  <1>3. Covers(at, 0, new)
    BY <1>1, <1>2, FrontierCovers
  <1>4. n \in Nat
    BY <1>3 DEF Covers
  <1>5. peaks = [g \in 1..n |-> r[at[g]]]
    BY <1>2 DEF PeaksOf
  <1> HIDE DEF r, n
  <1>7. d = [g \in 1..f - 1 |-> r[at[g]]]
    <2>1. peaks = [g \in 1..n |-> peaks[g]] /\ f - 1 \in 0..n
      BY <1>2, <1>4, <1>5
    <2>2. d = [g \in 1..f - 1 |-> peaks[g]]
      BY <1>4, <2>1, FirstIs
    <2>3. \A g \in 1..f - 1 : peaks[g] = r[at[g]]
      <3>1. \A g \in 1..f - 1 : g \in 1..n
        BY <1>2, <1>4
      <3> QED
        BY <1>5, <3>1
    <2> HIDE DEF d
    <2> QED
      BY <2>2, <2>3
  <1> HIDE DEF d
  <1>8. l <= old /\ old <= new /\ at[f][1] = l
    <2>1. BlockSize(from) \in Nat /\ old = i + BlockSize(from)
      BY <1>2, BlockSizes
    <2>2. l <= old
      BY <1>2, <2>1
    <2> QED
      BY <1>1, <1>2, <2>2
  <1>9. Gathered(r, d, old, l)
    <2>1. f \in 1..Len(at)
      BY <1>2 DEF n
    <2>2. at[f][1] <= old
      BY <1>8
    <2>3. Gathered(r, d, old, at[f][1])
      BY <1>1, <1>3, <1>7, <1>8, <2>1, <2>2, GatherFirst
    <2> QED
      BY <1>8, <2>3
  <1>10. Gathered(r, d \o MergedPeaks(p), old, i)
    BY <1>1, <1>2, <1>9, MergedGather
  <1>11. c \in Coordinates /\ c[1] = i /\ c[2] = from /\ End(c) = old
    BY <1>2 DEF Coordinates, End
  <1> HIDE DEF c
  <1>12. Gathered(r, (d \o MergedPeaks(p)) \o <<r[c]>>, old, End(c))
    BY <1>2, <1>10, <1>11, GatherOne
  <1>13. (d \o MergedPeaks(p)) \o <<r[c]>> = PeaksOf(r, old)
    BY <1>1, <1>11, <1>12, GatheredAll
  <1> QED
    BY <1>13 DEF OldPeaks, r, d, c

\* A path that has the shapes of a skeleton fits it.
LEMMA FitsWhole ==
  ASSUME NEW n, NEW p, p = [m \in 1..n |-> p[m]], NEW s, ShapesOf(p, n, s)
  PROVE  Fits(p, s) /\ Len(p) = Len(s)
  <1>1. n \in Nat /\ s = [m \in 1..n |-> Shape(p[m])]
    BY DEF ShapesOf
  <1>2. Len(p) = n /\ Len(s) = n /\ DOMAIN s = 1..n
    BY <1>1, FcnIsSeq
  <1>3. \A m \in 1..n : Shape(p[n - n + m]) = s[m]
    <2> SUFFICES ASSUME NEW m \in 1..n PROVE Shape(p[n - n + m]) = s[m]
      OBVIOUS
    <2>1. n - n + m = m
      BY <1>1
    <2> QED
      BY <1>1, <2>1
  <1> QED
    BY <1>1, <1>2, <1>3 DEF Fits

\* The verifier is led to both roots.
LEMMA ConsistencyFollows ==
  ASSUME NEW a, NEW lo, RightFrom(a, lo), NEW new \in 1..Size(a), NEW old \in 1..new - 1, lo <= old,
         NEW at, NEW f, NEW l, NEW h, NEW i, NEW from, NEW p,
         Bridge(a, old, new, at, f, l, h, i, from, p),
         NEW proof, proof = [boundary |-> Ref(a)[<<i, from>>], path |-> p, peaks |-> PeaksOf(Ref(a), new), split |-> f]
  PROVE  ReconstructConsistencyRoots(a, old, new, proof) = [old |-> RootAt(a, old), new |-> RootAt(a, new)]
  <1> DEFINE x == Ref(a)[<<i, from>>]
             peaks == PeaksOf(Ref(a), new)
             climb == SubSeq(MountainSkeleton(new, i), from + 1, h)
             n == Len(at)
             c == <<i, from>>
             m == <<l, h>>
  <1>1. new \in Nat /\ old \in Nat /\ old # 0 /\ old < new /\ lo \in Nat /\ lo <= new /\ Size(a) \in Nat
    BY DEF RightFrom
  <1>2. /\ at = FrontierForSize(new) /\ f \in 1..n /\ at[f] = m
        /\ Last(FrontierForSize(old)) = c /\ l \in Nat /\ h \in Nat /\ from \in 0..h
        /\ l <= i /\ i < l + BlockSize(h)
        /\ Leads(a, p, h - from, x, Ref(a)[m]) /\ ShapesOf(p, h - from, climb)
    BY DEF Bridge
  <1>3. PeaksRead(a, new, n)
    BY <1>1, <1>2, PeaksReadFrom
  <1>4. Len(peaks) = n /\ peaks[f] = Ref(a)[m] /\ DOMAIN at = 1..n
    <2>1. /\ n \in Nat /\ peaks = [g \in 1..n |-> peaks[g]] /\ peaks[f] = Ref(a)[at[f]]
          /\ at = [g \in 1..n |-> at[g]]
      BY <1>2, <1>3 DEF PeaksRead
    <2> HIDE DEF peaks, n
    <2>2. Len(peaks) = n
      BY <2>1, FcnIsSeq
    <2> QED
      BY <1>2, <2>1, <2>2
  <1>5. ReconstructInclusionRoot(a, x, climb, p) = Ref(a)[m] /\ Len(p) = Len(climb)
    <2>1. p = [g \in 1..h - from |-> p[g]]
      BY <1>2 DEF Leads
    <2> DEFINE y == Ref(a)[m]
    <2> HIDE DEF x, climb, y
    <2>2. Fits(p, climb) /\ Len(p) = Len(climb)
      BY <1>2, <2>1, FitsWhole
    <2>3. Leads(a, p, h - from, x, y)
      BY <1>2 DEF y
    <2>4. ReconstructInclusionRoot(a, x, climb, p) = y
      BY <2>2, <2>3, VerifierFollows
    <2> QED
      BY <2>2, <2>4 DEF y
  <1>6. SubSeq(peaks, 1, f - 1) \o MergedPeaks(p) \o <<x>> = PeaksOf(Ref(a), old)
    <2>1. peaks = PeaksOf(Ref(a), new)
      OBVIOUS
    <2>2. Bridge(a, old, new, at, f, l, h, i, from, p)
      OBVIOUS
    <2> HIDE DEF peaks
    <2>3. OldPeaks(peaks, f, p, Ref(a)[<<i, from>>]) = PeaksOf(Ref(a), old)
      BY <1>1, <2>1, <2>2, OldPeaksGathered
    <2> QED
      BY <2>3 DEF OldPeaks
  <1>7. c[1] = i /\ c[2] = from /\ m[1] = l /\ m[2] = h
    OBVIOUS
  <1>8. proof.boundary = x /\ proof.path = p /\ proof.peaks = peaks /\ proof.split = f
    OBVIOUS
  <1> HIDE DEF x, peaks, climb, n, c, m
  <1> DEFINE wellFormed(bd, bt) ==
               LET mountain == bt[proof.split]
                   cl == SubSeq(MountainSkeleton(new, bd[1]), bd[2] + 1, mountain[2])
               IN  /\ old # 0 /\ old < new
                   /\ Len(proof.peaks) = Len(bt) /\ proof.split \in DOMAIN bt
                   /\ mountain[1] <= bd[1] /\ bd[1] < mountain[1] + BlockSize(mountain[2])
                   /\ bd[2] <= mountain[2]
                   /\ Len(proof.path) = Len(cl)
                   /\ ReconstructInclusionRoot(a, proof.boundary, cl, proof.path) = proof.peaks[proof.split]
             result == [old |-> BagPeaks(a, SubSeq(proof.peaks, 1, proof.split - 1)
                                              \o MergedPeaks(proof.path) \o <<proof.boundary>>),
                        new |-> BagPeaks(a, proof.peaks)]
  <1>9. ReconstructConsistencyRoots(a, old, new, proof) =
          IF ~wellFormed(Last(FrontierForSize(old)), FrontierForSize(new)) THEN NoRoots ELSE result
    BY Zenon DEF ReconstructConsistencyRoots
  <1>10. wellFormed(c, at)
    <2>1. SubSeq(MountainSkeleton(new, c[1]), c[2] + 1, m[2]) = climb
      BY <1>7 DEF climb
    <2>2. at[proof.split] = m /\ proof.split \in DOMAIN at /\ Len(proof.peaks) = Len(at)
      BY <1>2, <1>4, <1>8 DEF n
    <2>3. m[1] <= c[1] /\ c[1] < m[1] + BlockSize(m[2]) /\ c[2] <= m[2]
      BY <1>2, <1>7
    <2>4. Len(proof.path) = Len(climb)
      BY <1>5, <1>8
    <2>5. ReconstructInclusionRoot(a, proof.boundary, climb, proof.path) = proof.peaks[proof.split]
      BY <1>4, <1>5, <1>8
    <2> QED
      BY <1>1, <2>1, <2>2, <2>3, <2>4, <2>5, Zenon
  <1>11. wellFormed(Last(FrontierForSize(old)), FrontierForSize(new))
    <2> HIDE DEF wellFormed
    <2> QED
      BY <1>2, <1>10
  <1> HIDE DEF wellFormed
  <1>12. ReconstructConsistencyRoots(a, old, new, proof) = result
    BY <1>9, <1>11, Zenon
  <1>13. result = [old |-> RootAt(a, old), new |-> RootAt(a, new)]
    <2>1. RootAt(a, old) = BagPeaks(a, PeaksOf(Ref(a), old)) /\ RootAt(a, new) = BagPeaks(a, peaks)
      BY DEF RootAt, peaks
    <2> QED
      BY <1>6, <1>8, <2>1, Zenon
  <1> QED
    BY <1>12, <1>13, Zenon

\* The log has a consistency proof from an old size to a new one, and it leads to the
\* roots of both.
Consistent(a, old, new) ==
  /\ ConsistencyProof(a, old, new) # NoProof
  /\ ReconstructConsistencyRoots(a, old, new, ConsistencyProof(a, old, new))
       = [old |-> ReferenceRoot(a, old), new |-> ReferenceRoot(a, new)]

\* It has one for any two sizes from where the store begins.
LEMMA ConsistentFrom ==
  ASSUME NEW a, NEW lo, RightFrom(a, lo), NEW new \in 1..Size(a), NEW old \in 1..new - 1, lo <= old
  PROVE  Consistent(a, old, new)
  <1>1. Size(a) \in Nat /\ lo \in Nat /\ old \in 1..Size(a) /\ lo <= new
    BY DEF RightFrom
  <1>2. ReferenceRoot(a, old) = RootAt(a, old) /\ ReferenceRoot(a, new) = RootAt(a, new)
    BY <1>1, PeaksReadFrom DEF PeaksRead
  <1> QED
    <2> DEFINE at == FrontierForSize(new)
               c == Last(FrontierForSize(old))
               f == MountainOf(c[1], at)
               l == at[f][1]
               h == at[f][2]
               p == Climb(a, l, h, c[1], c[2])
               proof == [boundary |-> Ref(a)[<<c[1], c[2]>>], path |-> p, peaks |-> PeaksOf(Ref(a), new), split |-> f]
    <2>1. Bridge(a, old, new, at, f, l, h, c[1], c[2], p)
      BY Bridged
    <2>2. p = Climb(a, l, h, c[1], c[2])
      OBVIOUS
    <2> HIDE DEF at, c, f, l, h, p
    <2>3. ConsistencyProof(a, old, new) = proof
      BY <2>1, <2>2, ConsistencyIs
    <2>4. "refused" \in DOMAIN NoProof /\ "refused" \notin DOMAIN proof
      BY DEF NoProof
    <2>5. proof # NoProof
      BY <2>4
    <2>6. ReconstructConsistencyRoots(a, old, new, proof) = [old |-> RootAt(a, old), new |-> RootAt(a, new)]
      BY <2>1, ConsistencyFollows
    <2> HIDE DEF proof
    <2> QED
      BY <1>2, <2>3, <2>5, <2>6 DEF Consistent

\* With the invariant, every consistency proof verifies.
LEMMA ConsistencySaid ==
  ASSUME LogInv
  PROVE  ConsistencyProofsVerify
  <1>2. ASSUME NEW a \in Algs, NEW new \in 1..Size(a), NEW old \in 1..new - 1
        PROVE  /\ ConsistencyProof(a, old, new) # NoProof
               /\ ReconstructConsistencyRoots(a, old, new, ConsistencyProof(a, old, new))
                    = [old |-> ReferenceRoot(a, old), new |-> ReferenceRoot(a, new)]
    <2>1. RightFrom(a, 0) /\ 0 <= old
      BY RightUnsealed
    <2>2. Consistent(a, old, new)
      BY <2>1, ConsistentFrom
    <2> QED
      BY <2>2 DEF Consistent
  <1> SUFFICES ASSUME NEW a \in Algs
               PROVE  LET roots == [size \in 1..Size(a) |-> ReferenceRoot(a, size)]
                      IN  \A new \in DOMAIN roots : \A old \in 1..new - 1 :
                            LET proof == ConsistencyProof(a, old, new)
                            IN  /\ proof # NoProof
                                /\ ReconstructConsistencyRoots(a, old, new, proof)
                                     = [old |-> roots[old], new |-> roots[new]]
    BY Zenon DEF ConsistencyProofsVerify, Size
  <1> DEFINE roots == [size \in 1..Size(a) |-> ReferenceRoot(a, size)]
  <1>3. DOMAIN roots = 1..Size(a) /\ \A size \in 1..Size(a) : roots[size] = ReferenceRoot(a, size)
    OBVIOUS
  <1>4. Size(a) \in Nat
    BY SizeKnown DEF LogInv
  <1> HIDE DEF roots
  <1>5. ASSUME NEW new \in DOMAIN roots, NEW old \in 1..new - 1
        PROVE  /\ ConsistencyProof(a, old, new) # NoProof
               /\ ReconstructConsistencyRoots(a, old, new, ConsistencyProof(a, old, new))
                    = [old |-> roots[old], new |-> roots[new]]
    <2>1. new \in 1..Size(a) /\ old \in 1..Size(a)
      BY <1>3, <1>4
    <2>2. roots[old] = ReferenceRoot(a, old) /\ roots[new] = ReferenceRoot(a, new)
      BY <1>3, <2>1
    <2>3. /\ ConsistencyProof(a, old, new) # NoProof
          /\ ReconstructConsistencyRoots(a, old, new, ConsistencyProof(a, old, new))
               = [old |-> ReferenceRoot(a, old), new |-> ReferenceRoot(a, new)]
      BY <1>2, <2>1
    <2> QED
      BY <2>2, <2>3, Zenon
  <1> QED
    BY <1>5, Zenon DEF roots

\* Any two sizes have a consistency proof that leads to the roots of both, across gaps and
\* collapsed blocks.
THEOREM EverySizeConsistent ==
  ASSUME NoNullItems
  PROVE  Spec => []ConsistencyProofsVerify
  <1>1. LogInv => ConsistencyProofsVerify
    BY ConsistencySaid
  <1> QED
    BY <1>1, LogInvariant, PTL

-----------------------------------------------------------------------------
(* What a combined root commits to *)

\* The timeline committed for a size is one a log of that size can have.
LEMMA CommittedValid ==
  ASSUME NEW eps \in Seq(Interval), NEW c \in Nat, ValidEpochs(eps, c), c < Open,
         NEW n \in 0..c, EpochsAt(eps, n) # <<>>
  PROVE  ValidEpochs(EpochsAt(eps, n), n)
  <1>0. /\ Len(eps) \in Nat /\ DOMAIN eps = 1..Len(eps) /\ n \in Nat /\ n < Open
        /\ \A e \in 1..Len(eps) : eps[e][1] \in Nat /\ eps[e][2] \in Nat
    BY ValidInterval, OpenAssumption
  <1>1. CASE Cut(eps, n) = {}
    <2>1. EpochsAt(eps, n) = eps
      BY <1>1 DEF EpochsAt, Cut
    <2>2. \A e \in 1..Len(eps) : eps[e][1] <= n /\ eps[e][2] <= n
      BY SMTT(30), <1>0, <1>1 DEF Cut
    <2>3. ASSUME NEW e \in DOMAIN eps
          PROVE  /\ eps[e][1] <= eps[e][2]
                 /\ e > 1 => eps[e][1] >= eps[e - 1][2]
                 /\ IF eps[e][2] = Open THEN e = Len(eps) /\ eps[e][1] <= n ELSE eps[e][2] <= n
      BY <1>0, <2>2, ValidInterval
    <2> QED
      BY <2>1, <2>3 DEF ValidEpochs
  <1>2. CASE Cut(eps, n) # {}
    <2>1. Cut(eps, n) \in SUBSET Nat /\ Cut(eps, n) \subseteq 1..Len(eps)
      BY <1>0 DEF Cut
    <2>2. PICK f \in Cut(eps, n) : IsFirst(f, eps, n)
      BY <1>2, <2>1, LeastExists DEF IsFirst
    <2>3. f \in 1..Len(eps) /\ \A e \in 1..f - 1 : e \in 1..Len(eps) /\ eps[e][1] <= n /\ eps[e][2] <= n
      <3>1. f \in 1..Len(eps)
        BY <2>1
      <3>2. ASSUME NEW e \in 1..f - 1 PROVE e \in 1..Len(eps) /\ eps[e][1] <= n /\ eps[e][2] <= n
        <4>1. e \in 1..Len(eps) /\ ~(f <= e)
          BY <1>0, <3>1
        <4>2. e \notin Cut(eps, n)
          BY <2>2, <4>1 DEF IsFirst
        <4> QED
          BY <1>0, <4>1, <4>2 DEF Cut
      <3> QED
        BY <3>1, <3>2
    <2> DEFINE before == SubSeq(eps, 1, f - 1)
    <2>4. Len(before) = f - 1 /\ DOMAIN before = 1..f - 1 /\ before \in Seq(Interval)
          /\ \A e \in 1..f - 1 : before[e] = eps[e]
      BY <1>0, <2>3
    <2>5. /\ eps[f][1] > n => EpochsAt(eps, n) = before
          /\ ~(eps[f][1] > n) => EpochsAt(eps, n) = Append(before, <<eps[f][1], Open>>)
      BY <1>0, <2>2, CommittedByFirst
    <2> HIDE DEF before
    <2>6. ASSUME NEW e \in 1..f - 1
          PROVE  /\ eps[e][1] <= eps[e][2] /\ eps[e][2] # Open /\ eps[e][2] <= n
                 /\ e > 1 => eps[e][1] >= eps[e - 1][2] /\ e - 1 \in 1..f - 1
      <3>1. e \in 1..Len(eps) /\ eps[e][2] <= n /\ eps[e][2] \in Nat
        BY <1>0, <2>3
      <3>2. eps[e][1] <= eps[e][2] /\ (e > 1 => eps[e][1] >= eps[e - 1][2])
        BY <3>1, ValidInterval
      <3>3. eps[e][2] # Open
        BY <1>0, <3>1, OpenAssumption
      <3>4. e > 1 => e - 1 \in 1..f - 1
        BY <2>3
      <3> QED
        BY <3>1, <3>2, <3>3, <3>4
    <2>7. CASE eps[f][1] > n
      <3>1. EpochsAt(eps, n) = before
        BY <2>5, <2>7
      <3>2. ASSUME NEW e \in DOMAIN before
            PROVE  /\ before[e][1] <= before[e][2]
                   /\ e > 1 => before[e][1] >= before[e - 1][2]
                   /\ IF before[e][2] = Open THEN e = Len(before) /\ before[e][1] <= n ELSE before[e][2] <= n
        BY <2>4, <2>6
      <3>3. before # <<>>
        BY <3>1
      <3> QED
        BY <3>1, <3>2, <3>3 DEF ValidEpochs
    <2>8. CASE ~(eps[f][1] > n)
      <3> DEFINE at == Append(before, <<eps[f][1], Open>>)
      <3>1. EpochsAt(eps, n) = at
        BY <2>5, <2>8
      <3>2. /\ DOMAIN at = 1..f /\ Len(at) = f /\ at[f] = <<eps[f][1], Open>>
            /\ \A e \in 1..f - 1 : at[e] = eps[e]
        BY <2>3, <2>4
      <3> HIDE DEF at
      <3>3. at[f][1] = eps[f][1] /\ at[f][2] = Open /\ eps[f][1] <= n /\ eps[f][1] <= Open
        BY <1>0, <2>3, <2>8, <3>2, OpenAssumption
      <3>4. f > 1 => f - 1 \in 1..f - 1 /\ eps[f][1] >= eps[f - 1][2]
        BY <2>3, ValidInterval
      <3>5. ASSUME NEW e \in DOMAIN at
            PROVE  /\ at[e][1] <= at[e][2]
                   /\ e > 1 => at[e][1] >= at[e - 1][2]
                   /\ IF at[e][2] = Open THEN e = Len(at) /\ at[e][1] <= n ELSE at[e][2] <= n
        <4>1. CASE e = f
          BY <3>2, <3>3, <3>4, <4>1
        <4>2. CASE e # f
          <5>1. e \in 1..f - 1
            BY <2>3, <3>2, <4>2
          <5>2. at[e] = eps[e] /\ (e > 1 => at[e - 1] = eps[e - 1])
            BY <2>6, <3>2, <5>1
          <5> QED
            BY <2>6, <5>1, <5>2
        <4> QED
          BY <4>1, <4>2
      <3>6. at # <<>>
        BY <3>1
      <3> QED
        BY <3>1, <3>5, <3>6 DEF ValidEpochs
    <2> QED
      BY <2>7, <2>8
  <1> QED
    BY <1>1, <1>2

\* What a client was last shown for a size is what the reference says of it now.
LEMMA ShownIs ==
  ASSUME LogInv, NEW size \in 1..count
  PROVE  ShownRoots(size) = Shown(size)
  <1>1. LogTypeOK /\ OutgrownKept /\ FrontierKept /\ count \in Nat
    BY LogAssumption DEF LogInv, LogTypeOK
  <1>2. CASE size < count
    <2>1. size \in 1..count - 1
      BY <1>1, <1>2
    <2> QED
      BY <1>1, <1>2, <2>1 DEF OutgrownKept, ShownRoots
  <1>3. CASE ~(size < count)
    <2>1. size = count /\ count # 0 /\ count - 1 \in 0..count - 1
      BY <1>1, <1>3
    <2>2. ASSUME NEW b \in ActiveAlgsAt(count) PROVE RootFor(b) = RootAt(b, count)
      <3>1. b \in Algs /\ IsActiveAt(epochs[b], count - 1)
        BY DEF ActiveAlgsAt
      <3>2. Size(b) \in 0..count /\ count - 1 < Size(b)
        BY <1>1, <2>1, <3>1, SizeKnown
      <3>3. Size(b) = count
        BY <1>1, <3>2
      <3> QED
        BY <1>1, <3>1, <3>3 DEF FrontierKept, RootFor, RootAt
    <2> DEFINE u == [b \in ActiveAlgsAt(count) |-> RootFor(b)]
               v == [b \in ActiveAlgsAt(count) |-> RootAt(b, count)]
    <2>3. u = v
      BY <2>2
    <2>4. \A a : LiveCombinedRoot(a) = CombinedRoot(a, u, CommittedEpochsAt(count), count)
      BY <2>1 DEF LiveCombinedRoot
    <2>5. Shown(count) = [a \in ActiveAlgsAt(count) |-> CombinedRoot(a, v, CommittedEpochsAt(count), count)]
      BY DEF Shown
    <2>6. ShownRoots(count) = [a \in ActiveAlgsAt(count) |-> LiveCombinedRoot(a)]
      BY <1>3, <2>1 DEF ShownRoots
    <2> HIDE DEF u, v
    <2>7. ShownRoots(count) = Shown(count)
      BY <2>3, <2>4, <2>5, <2>6
    <2> QED
      BY <2>1, <2>7
  <1> QED
    BY <1>2, <1>3

\* The coupling proof of a size at which some algorithm was active, and of one at
\* which none was.
LEMMA CouplingIs ==
  ASSUME LogInv, NEW size \in 1..count
  PROVE  CouplingProofAt(size) =
           IF ActiveAlgsAt(size) = {} THEN NoCoupling
           ELSE [roots |-> [b \in ActiveAlgsAt(size) |-> RootAt(b, size)], epochs |-> CommittedEpochsAt(size)]
  <1> DEFINE u == [b \in ActiveAlgsAt(size) |-> RootForAt(b, size)]
             v == [b \in ActiveAlgsAt(size) |-> RootAt(b, size)]
  <1>1. u = v /\ \A b \in ActiveAlgsAt(size) : v[b] # Corrupted
    BY RootReadBack
  <1>2. DOMAIN u = ActiveAlgsAt(size)
    OBVIOUS
  <1>3. CouplingProofAt(size) = IF DOMAIN u = {} \/ \E a \in DOMAIN u : u[a] = Corrupted THEN NoCoupling
                                ELSE [roots |-> u, epochs |-> CommittedEpochsAt(size)]
    BY Zenon DEF CouplingProofAt
  <1> HIDE DEF u
  <1> QED
    BY <1>1, <1>2, <1>3

\* The committed timeline of a size: valid, with the algorithms active at it, and
\* with the activity of the log below it.
CommittedSays(size) ==
  /\ ValidCommittedEpochs(CommittedEpochsAt(size), size)
  /\ CommittedActiveAlgs(CommittedEpochsAt(size), size) = ActiveAlgsAt(size)
  /\ Listed(CommittedEpochsAt(size)) \subseteq Algs
  /\ \A a \in Algs, i \in 0..size - 1 :
       CommittedActiveAt(CommittedEpochsAt(size), a, i) <=> IsActiveAt(epochs[a], i)

\* It does for every size the log had.
LEMMA CommittedIs ==
  ASSUME LogInv, NEW size \in 1..count
  PROVE  CommittedSays(size)
  <1>1. /\ count \in Nat /\ count < Open /\ size \in Nat /\ size > 0 /\ size \in 0..count
        /\ size - 1 \in 0..size - 1
        /\ \A a \in Algs : epochs[a] \in Seq(Interval) /\ (epochs[a] # <<>> => ValidEpochs(epochs[a], count))
    BY SizeKnown, LogAssumption, OpenAssumption DEF LogInv, LogTypeOK, Registered
  <1> DEFINE t == CommittedEpochsAt(size)
  <1>2. DOMAIN t = Algs /\ \A a \in Algs : t[a] = EpochsAt(epochs[a], size)
    BY DEF CommittedEpochsAt
  <1>3. \A a \in Algs, i \in 0..size - 1 : IsActiveAt(t[a], i) <=> IsActiveAt(epochs[a], i)
    BY <1>1, <1>2, CommittedActivity
  <1> HIDE DEF t
  <1>4. ASSUME NEW a \in Listed(t) PROVE ValidEpochs(t[a], size)
    <2>1. a \in Algs /\ t[a] # <<>>
      BY <1>2 DEF Listed
    <2>2. epochs[a] # <<>>
      <3> SUFFICES ASSUME epochs[a] = <<>> PROVE FALSE
        OBVIOUS
      <3>1. EpochsAt(<<>>, size) = <<>>
        BY DEF EpochsAt
      <3> QED
        BY <1>2, <2>1, <3>1
    <2> QED
      BY <1>1, <1>2, <2>1, <2>2, CommittedValid
  <1>5. CommittedActiveAlgs(t, size) = ActiveAlgsAt(size)
    BY <1>1, <1>2, <1>3 DEF CommittedActiveAlgs, ActiveAlgsAt
  <1>6. \A a \in Algs, i \in 0..size - 1 : CommittedActiveAt(t, a, i) <=> IsActiveAt(epochs[a], i)
    BY <1>3 DEF CommittedActiveAt, IsActiveAt
  <1>7. Listed(t) \subseteq Algs
    BY <1>2 DEF Listed
  <1> QED
    BY <1>4, <1>5, <1>6, <1>7 DEF CommittedSays, ValidCommittedEpochs, t

\* A coupling proof opens what was shown.
LEMMA CouplingOpens ==
  ASSUME LogInv, NEW size \in 1..count, NEW a \in ActiveAlgsAt(size)
  PROVE  Authenticated(a, CouplingProofAt(size), size, Shown(size)[a], ActiveAlgsAt(size))
  <1> DEFINE m == [b \in ActiveAlgsAt(size) |-> RootAt(b, size)]
             t == CommittedEpochsAt(size)
             p == CouplingProofAt(size)
  <1>1. ActiveAlgsAt(size) # {}
    OBVIOUS
  <1>2. p = [roots |-> m, epochs |-> t]
    BY <1>1, CouplingIs
  <1>3. Shown(size)[a] = CombinedRoot(a, m, t, size)
    BY DEF Shown
  <1>4. DOMAIN m = ActiveAlgsAt(size)
    OBVIOUS
  <1>5. CommittedSays(size) /\ size > 0
    BY CommittedIs, SizeKnown DEF LogInv
  <1> HIDE DEF m, p
  <1>6. p.roots = m /\ p.epochs = t
    BY <1>2
  <1> QED
    BY <1>3, <1>4, <1>5, <1>6 DEF Authenticated, CommittedSays, p
-----------------------------------------------------------------------------
(* What was active, and what was not *)

\* No payload of any item a client offers is the one whose leaf hash is the null
\* constant.
NoNullPayloads == \A i \in 1..MaxCount : \A item \in Offer[i] : \A j \in DOMAIN item : item[j] # NullPayload

\* It excludes the items of null payloads too.
LEMMA NoNullPayloadsNoNullItems == NoNullPayloads => NoNullItems
  BY LogAssumption DEF NoNullPayloads, NoNullItems

\* The claim that an algorithm was inactive at a position is accepted exactly when it
\* was.
LEMMA InactivitySaid ==
  ASSUME LogInv, NEW size \in 1..count, NEW a \in Listed(CommittedEpochsAt(size)),
         NEW i \in 0..size - 1,
         NEW h \in ActiveAlgsAt(size), a \in ActiveAlgsAt(size) => h = a,
         NEW path, path = IF a \in ActiveAlgsAt(size) THEN InclusionProof(a, i, size).path ELSE <<>>
  PROVE  VerifyInactivityWithCoupling(h, a, i, size, path, CouplingProofAt(size), Shown(size)[h], ActiveAlgsAt(size))
           <=> ~IsActiveAt(epochs[a], i)
  <1> DEFINE active == ActiveAlgsAt(size)
             m == [b \in active |-> RootAt(b, size)]
             t == CommittedEpochsAt(size)
             p == CouplingProofAt(size)
             root == Shown(size)[h]
  <1>1. size \in Nat /\ i \in Nat /\ i < size
    BY SizeKnown DEF LogInv
  <1>2. p.roots = m /\ p.epochs = t
    <2>1. active # {}
      OBVIOUS
    <2>2. p = [roots |-> m, epochs |-> t]
      BY <2>1, CouplingIs
    <2> HIDE DEF m, p, t
    <2> QED
      BY <2>2
  <1>3. Authenticated(h, p, size, root, active)
    BY CouplingOpens
  <1>4. a \in Algs /\ (CommittedActiveAt(t, a, i) <=> IsActiveAt(epochs[a], i))
    BY CommittedIs DEF CommittedSays
  <1>5. DOMAIN m = active /\ \A b \in active : m[b] = RootAt(b, size)
    OBVIOUS
  <1>6. ASSUME a \in active, ~IsActiveAt(epochs[a], i)
        PROVE  ReconstructInclusionRoot(h, Null(h), MountainSkeleton(size, i), path) = RootAt(a, size)
    <2>1. h = a /\ size \in 1..Size(a) /\ path = InclusionProof(a, i, size).path
      BY <1>6, RootReadBack
    <2>2. ItemAt(a, i) = <<NullPayload>>
      BY <1>6 DEF ItemAt
    <2> DEFINE item == <<NullPayload>>
    <2>3. Verifies(a, i, size, item, 1)
      <3>1. 1 \in DOMAIN item
        OBVIOUS
      <3> QED
        BY <1>4, <2>1, <2>2, <3>1, PayloadVerifies
    <2>4. LeafHash(a, item[1]) = Null(a) /\ WithinSubtreePath(a, item, 1) = <<>>
      <3>1. item[1] = NullPayload /\ Len(item) = 1
        OBVIOUS
      <3> HIDE DEF item
      <3> QED
        BY <3>1 DEF LeafHash, WithinSubtreePath
    <2>5. <<>> \o path = path
      <3>1. PICK n, q : ProofSaid(a, i, size, FrontierForSize(size)[MountainOf(i, FrontierForSize(size))][1],
                                  FrontierForSize(size)[MountainOf(i, FrontierForSize(size))][2], n, q)
        BY <1>1, <1>4, <2>1, ProofIs
      <3>2. path = q /\ n \in Nat /\ q = [x \in 1..n |-> q[x]]
        BY <2>1, <3>1 DEF ProofSaid, Leads
      <3> QED
        BY <3>2, NothingOn
    <2> HIDE DEF item
    <2> QED
      BY <2>1, <2>3, <2>4, <2>5 DEF Verifies
  <1> HIDE DEF m, p, t, root, active
  <1>7. a \in Listed(p.epochs)
    BY <1>2 DEF t
  <1>8. VerifyInactivityWithCoupling(h, a, i, size, path, p, root, active)
          <=> /\ ~IsActiveAt(epochs[a], i)
              /\ IF a \in active
                 THEN ReconstructInclusionRoot(h, Null(h), MountainSkeleton(size, i), path) = RootAt(a, size)
                 ELSE path = <<>>
    BY <1>1, <1>2, <1>3, <1>4, <1>5, <1>7 DEF VerifyInactivityWithCoupling
  <1>9. a \notin active => path = <<>>
    BY DEF active
  <1> QED
    BY <1>6, <1>8, <1>9 DEF p, root, active

\* The claim that a payload of the item is an algorithm's leaf at a position is
\* accepted exactly when the algorithm was active there.
LEMMA LeafSaid ==
  ASSUME LogInv, NoNullPayloads, NEW size \in 1..count, NEW a \in Listed(CommittedEpochsAt(size)),
         NEW i \in 0..size - 1, a \in ActiveAlgsAt(size),
         NEW item, item = history[i + 1], NEW j \in DOMAIN item,
         NEW path, path = WithinSubtreePath(a, item, j) \o InclusionProof(a, i, size).path
  PROVE  VerifyInclusionWithCoupling(a, LeafHash(a, item[j]), i, size, path, CouplingProofAt(size),
                                     Shown(size)[a], ActiveAlgsAt(size))
           <=> IsActiveAt(epochs[a], i)
  <1> DEFINE active == ActiveAlgsAt(size)
             m == [b \in active |-> RootAt(b, size)]
             t == CommittedEpochsAt(size)
             p == CouplingProofAt(size)
             root == Shown(size)[a]
             x == LeafHash(a, item[j])
  <1>1. size \in Nat /\ i \in Nat /\ i < size /\ i + 1 \in 1..count
    <2>1. count \in Nat
      BY LogAssumption DEF LogInv, LogTypeOK
    <2> QED
      BY <2>1
  <1>2. p.roots = m /\ p.epochs = t
    <2>1. active # {}
      OBVIOUS
    <2>2. p = [roots |-> m, epochs |-> t]
      BY <2>1, CouplingIs
    <2> HIDE DEF m, p, t
    <2> QED
      BY <2>2
  <1>3. Authenticated(a, p, size, root, active)
    BY CouplingOpens
  <1>4. a \in Algs /\ (CommittedActiveAt(t, a, i) <=> IsActiveAt(epochs[a], i))
    BY CommittedIs DEF CommittedSays
  <1>5. DOMAIN m = active /\ m[a] = RootAt(a, size)
    OBVIOUS
  <1>6. x # Null(a)
    <2>1. history[i + 1] \in Offer[i + 1] /\ count <= MaxCount /\ count \in Nat /\ MaxCount \in Nat
      BY <1>1, LogAssumption DEF LogInv, HistoryKept, LogTypeOK
    <2>2. i + 1 \in 1..MaxCount
      BY <1>1, <2>1
    <2>3. item[j] # NullPayload
      BY <2>1, <2>2 DEF NoNullPayloads
    <2> DEFINE y == item[j]
    <2>4. x = <<"leaf", a, y>> /\ Null(a) = <<"null", a>>
      BY <2>3 DEF LeafHash, Null
    <2> HIDE DEF x, y
    <2>5. <<"leaf", a, y>>[1] = "leaf" /\ <<"null", a>>[1] = "null"
      OBVIOUS
    <2> QED
      BY <2>4, <2>5
  <1>7. ASSUME IsActiveAt(epochs[a], i)
        PROVE  ReconstructInclusionRoot(a, x, MountainSkeleton(size, i), path) = RootAt(a, size)
    <2>1. size \in 1..Size(a)
      BY RootReadBack
    <2>2. ItemAt(a, i) = item
      BY <1>7 DEF ItemAt
    <2>3. Verifies(a, i, size, item, j)
      BY <1>4, <2>1, <2>2, PayloadVerifies
    <2> QED
      BY <2>3 DEF Verifies
  <1> HIDE DEF m, p, t, root, active, x
  <1>8. a \in Listed(p.epochs)
    BY <1>2 DEF t
  <1>9. VerifyInclusionWithCoupling(a, x, i, size, path, p, root, active)
          <=> /\ IsActiveAt(epochs[a], i)
              /\ ReconstructInclusionRoot(a, x, MountainSkeleton(size, i), path) = RootAt(a, size)
    <2>1. a \in DOMAIN m
      BY <1>5 DEF active
    <2> QED
      BY <1>2, <1>3, <1>4, <1>5, <1>6, <1>8, <2>1 DEF VerifyInclusionWithCoupling
  <1> QED
    BY <1>7, <1>9 DEF p, root, active, x

\* Both claims, for every size, algorithm and position.
LEMMA ActivitySaid ==
  ASSUME LogInv, NoNullPayloads
  PROVE  ActivityProvable
  <1>1. \A size \in 1..count : ShownRoots(size) = Shown(size) /\ DOMAIN Shown(size) = ActiveAlgsAt(size)
    BY ShownIs DEF Shown
  <1>2. ASSUME NEW size \in 1..count, NEW a \in Listed(CommittedEpochsAt(size)), NEW i \in 0..size - 1,
               NEW active, active = ActiveAlgsAt(size),
               NEW path, path = IF a \in active THEN InclusionProof(a, i, size).path ELSE <<>>,
               NEW h \in IF a \in active THEN {a} ELSE active
        PROVE  VerifyInactivityWithCoupling(h, a, i, size, path, CouplingProofAt(size), Shown(size)[h], active)
                 <=> ~IsActiveAt(epochs[a], i)
    BY <1>2, InactivitySaid
  <1>3. ASSUME NEW size \in 1..count, NEW a \in Listed(CommittedEpochsAt(size)), NEW i \in 0..size - 1,
               NEW active, active = ActiveAlgsAt(size), a \in active,
               NEW path, path = IF a \in active THEN InclusionProof(a, i, size).path ELSE <<>>,
               NEW item, item = history[i + 1], NEW j \in DOMAIN item
        PROVE  VerifyInclusionWithCoupling(a, LeafHash(a, item[j]), i, size,
                 WithinSubtreePath(a, item, j) \o path, CouplingProofAt(size), Shown(size)[a], active)
                 <=> IsActiveAt(epochs[a], i)
    BY <1>3, LeafSaid
  <1>4. ASSUME NEW size \in 1..count, NEW a \in Listed(CommittedEpochsAt(size)), NEW i \in 0..size - 1
        PROVE  LET shown == ShownRoots(size)
                   proof == CouplingProofAt(size)
                   active == DOMAIN shown
                   path == IF a \in active THEN InclusionProof(a, i, size).path ELSE <<>>
                   was == IsActiveAt(epochs[a], i)
                   item == history[i + 1]
               IN  /\ \A h \in IF a \in active THEN {a} ELSE active :
                        VerifyInactivityWithCoupling(h, a, i, size, path, proof, shown[h], active) <=> ~was
                   /\ a \in active => \A j \in DOMAIN item :
                        VerifyInclusionWithCoupling(a, LeafHash(a, item[j]), i, size,
                          WithinSubtreePath(a, item, j) \o path, proof, shown[a], active) <=> was
    <2> DEFINE active == DOMAIN ShownRoots(size)
               path == IF a \in active THEN InclusionProof(a, i, size).path ELSE <<>>
               item == history[i + 1]
    <2>1. active = ActiveAlgsAt(size) /\ ShownRoots(size) = Shown(size)
      BY <1>1
    <2>2. \A h \in IF a \in active THEN {a} ELSE active :
            VerifyInactivityWithCoupling(h, a, i, size, path, CouplingProofAt(size), Shown(size)[h], active)
              <=> ~IsActiveAt(epochs[a], i)
      <3> HIDE DEF active
      <3> QED
        BY <1>2, <2>1
    <2>3. a \in active => \A j \in DOMAIN item :
            VerifyInclusionWithCoupling(a, LeafHash(a, item[j]), i, size,
              WithinSubtreePath(a, item, j) \o path, CouplingProofAt(size), Shown(size)[a], active)
              <=> IsActiveAt(epochs[a], i)
      <3> HIDE DEF active, item
      <3> QED
        BY <1>3, <2>1 DEF item
    <2> QED
      BY <2>1, <2>2, <2>3
  <1> QED
    BY <1>4, Zenon DEF ActivityProvable

\* For every algorithm and position exactly one of two claims can be proved to a
\* client that kept the combined roots of a size, whatever happened since.
THEOREM ActivityAlwaysProvable ==
  ASSUME NoNullPayloads
  PROVE  Spec => []ActivityProvable
  <1>1. LogInv => ActivityProvable
    BY ActivitySaid
  <1>2. Spec => []LogInv
    BY NoNullPayloadsNoNullItems, LogInvariant
  <1> QED
    BY <1>1, <1>2, PTL

-----------------------------------------------------------------------------
(* Ids in order *)

\* s lists the n ids of a set from the smallest up.
Ascends(s, n, ids) ==
  /\ s \in [1..n -> ids]
  /\ \A i, j \in DOMAIN s : i < j => s[i] < s[j]

\* There is such a list.
LEMMA OrderExists ==
  ASSUME NEW ids \in SUBSET Nat, IsFiniteSet(ids)
  PROVE  \E s : Ascends(s, Cardinality(ids), ids)
  <1> DEFINE S == {n \in Nat : \A T \in SUBSET Nat : IsFiniteSet(T) /\ Cardinality(T) = n => \E s : Ascends(s, n, T)}
  <1>1. 0 \in S
    <2> SUFFICES ASSUME NEW T \in SUBSET Nat PROVE \E s : Ascends(s, 0, T)
      OBVIOUS
    <2> DEFINE s == [i \in 1..0 |-> 0]
    <2>1. s \in [1..0 -> T] /\ DOMAIN s = {}
      OBVIOUS
    <2>2. Ascends(s, 0, T)
      BY <2>1 DEF Ascends
    <2> QED
      BY <2>2
  <1>2. ASSUME NEW n \in Nat, n \in S PROVE n + 1 \in S
    <2> SUFFICES ASSUME NEW T \in SUBSET Nat, IsFiniteSet(T), Cardinality(T) = n + 1
                 PROVE  \E s : Ascends(s, n + 1, T)
      OBVIOUS
    <2>1. T # {}
      BY FS_EmptySet
    <2>2. PICK x \in T : \A y \in T : x <= y
      BY <2>1, LeastExists
    <2> DEFINE R == T \ {x}
    <2>3. IsFiniteSet(R) /\ Cardinality(R) = n /\ R \in SUBSET Nat
      BY FS_RemoveElement
    <2>4. PICK r : Ascends(r, n, R)
      BY <1>2, <2>3
    <2>5. r \in [1..n -> R] /\ DOMAIN r = 1..n /\ \A i, j \in 1..n : i < j => r[i] < r[j]
      BY <2>4 DEF Ascends
    <2>6. ASSUME NEW i \in 1..n PROVE r[i] \in T /\ r[i] \in Nat /\ x < r[i] /\ x \in Nat
      <3>1. r[i] \in R
        BY <2>5
      <3>2. r[i] \in T /\ r[i] # x /\ r[i] \in Nat /\ x \in Nat
        BY <3>1
      <3>3. x <= r[i]
        BY <2>2, <3>2
      <3> HIDE DEF R
      <3> QED
        BY <3>2, <3>3
    <2> DEFINE s == [i \in 1..n + 1 |-> IF i = 1 THEN x ELSE r[i - 1]]
    <2>7. \A i \in 1..n + 1 : i # 1 => i - 1 \in 1..n
      OBVIOUS
    <2>8. s \in [1..n + 1 -> T]
      BY <2>6, <2>7
    <2>9. ASSUME NEW i \in 1..n + 1, NEW j \in 1..n + 1, i < j PROVE s[i] < s[j]
      <3>1. j # 1 /\ s[j] = r[j - 1] /\ j - 1 \in 1..n
        BY <2>9
      <3>2. CASE i = 1
        BY <2>6, <3>1, <3>2
      <3>3. CASE i # 1
        <4>1. s[i] = r[i - 1] /\ i - 1 \in 1..n /\ i - 1 < j - 1
          BY <2>9, <3>3
        <4> QED
          BY <2>5, <3>1, <4>1
      <3> QED
        BY <3>2, <3>3
    <2>10. DOMAIN s = 1..n + 1
      OBVIOUS
    <2> HIDE DEF s
    <2>11. Ascends(s, n + 1, T)
      BY <2>8, <2>9, <2>10 DEF Ascends
    <2> QED
      BY <2>11
  <1> HIDE DEF S
  <1>3. Cardinality(ids) \in Nat
    BY FS_CardinalityType
  <1>4. Cardinality(ids) \in S
    BY <1>1, <1>2, <1>3, SetInduction
  <1> QED
    BY <1>4 DEF S

\* The ids in order: every one of them once.
LEMMA InOrder ==
  ASSUME NEW ids \in SUBSET Nat, IsFiniteSet(ids), NEW s, s = InIdOrder(ids),
         NEW n, n = Cardinality(ids)
  PROVE  /\ n \in Nat /\ s \in [1..n -> ids] /\ s = [i \in 1..n |-> s[i]] /\ Len(s) = n
         /\ \A i, j \in 1..n : i # j => s[i] # s[j]
         /\ \A x \in ids : \E i \in 1..n : s[i] = x
  <1>1. n \in Nat
    BY FS_CardinalityType
  <1>2. Ascends(s, n, ids)
    BY OrderExists DEF InIdOrder, Ascends
  <1>3. s \in [1..n -> ids] /\ DOMAIN s = 1..n /\ s = [i \in 1..n |-> s[i]]
    BY <1>2 DEF Ascends
  <1>4. ASSUME NEW i \in 1..n, NEW j \in 1..n, i # j PROVE s[i] # s[j]
    <2>1. s[i] \in Nat /\ s[j] \in Nat
      BY <1>3
    <2>2. i < j \/ j < i
      BY <1>1, <1>4
    <2>3. s[i] < s[j] \/ s[j] < s[i]
      BY <1>2, <1>3, <2>2 DEF Ascends
    <2> QED
      BY <2>1, <2>3
  <1>5. s \in Injection(1..n, ids)
    BY <1>3, <1>4 DEF Injection, IsInjective
  <1>6. IsFiniteSet(1..n) /\ Cardinality(1..n) = n
    BY <1>1, FS_Interval
  <1>7. s \in Surjection(1..n, ids)
    BY <1>5, <1>6, FS_Injection
  <1>8. \A x \in ids : \E i \in 1..n : s[i] = x
    BY <1>7 DEF Surjection
  <1>9. Len(s) = n
    BY <1>1, <1>3, FcnIsSeq
  <1> QED
    BY <1>1, <1>3, <1>4, <1>8, <1>9
-----------------------------------------------------------------------------
(* Digests of one algorithm *)

\* A digest of one algorithm, and one made of digests of that algorithm.
Tagged(a, d) == d[1] \in {"null", "empty", "leaf", "node"} /\ d[2] = a

\* So are its children, where it has any.
OfAlgorithm(a, d) ==
  Tagged(a, d) /\ (d[1] = "node" => \A i \in DOMAIN d[3] : Tagged(a, d[3][i]))

\* The parent of such digests is one.
LEMMA ParentOfAlgorithm ==
  ASSUME NEW a, NEW n \in Nat \ {0}, NEW d, d = [i \in 1..n |-> d[i]],
         \A i \in 1..n : OfAlgorithm(a, d[i])
  PROVE  OfAlgorithm(a, NaryMr(a, d))
  <1>1. NaryMr(a, d) = d[1] \/ NaryMr(a, d) = NodeHash(a, d)
    BY NaryOf
  <1>2. 1 \in 1..n
    OBVIOUS
  <1>3. OfAlgorithm(a, NodeHash(a, d))
    <2> DEFINE x == NodeHash(a, d)
    <2>1. x[1] = "node" /\ x[2] = a /\ x[3] = d
      BY DEF NodeHash
    <2>2. \A i \in DOMAIN d : Tagged(a, d[i])
      BY DEF OfAlgorithm
    <2> HIDE DEF x
    <2>3. OfAlgorithm(a, x)
      BY <2>1, <2>2 DEF OfAlgorithm, Tagged
    <2> QED
      BY <2>3 DEF x
  <1> QED
    BY <1>1, <1>2, <1>3

\* So are the digests of items and the null constant.
LEMMA LeavesOfAlgorithm ==
  ASSUME NEW a, NEW item \in Seq(STRING)
  PROVE  OfAlgorithm(a, Null(a)) /\ OfAlgorithm(a, Evaluate(a, item))
  <1>1. OfAlgorithm(a, Null(a)) /\ OfAlgorithm(a, Empty(a))
    BY DEF OfAlgorithm, Tagged, Null, Empty
  <1>2. \A y : OfAlgorithm(a, LeafHash(a, y))
    <2> SUFFICES ASSUME NEW y PROVE OfAlgorithm(a, LeafHash(a, y))
      OBVIOUS
    <2>1. CASE y = NullPayload
      BY <1>1, <2>1 DEF LeafHash
    <2>2. CASE y # NullPayload
      <3> DEFINE x == <<"leaf", a, y>>
      <3>1. LeafHash(a, y) = x
        BY <2>2 DEF LeafHash
      <3>2. x[1] = "leaf" /\ x[2] = a
        OBVIOUS
      <3> HIDE DEF x
      <3> QED
        BY <3>1, <3>2 DEF OfAlgorithm, Tagged
    <2> QED
      BY <2>1, <2>2
  <1> DEFINE n == Len(item)
             d == [i \in 1..n |-> LeafHash(a, item[i])]
  <1>3. n \in Nat /\ Evaluate(a, item) = NaryMr(a, d)
    BY DEF Evaluate
  <1>4. CASE n = 0
    <2>1. Len(d) = 0
      BY <1>4
    <2>2. NaryMr(a, d) = Empty(a)
      BY <2>1 DEF NaryMr
    <2> QED
      BY <1>1, <1>3, <2>2
  <1>5. CASE n # 0
    <2>1. d = [i \in 1..n |-> d[i]] /\ \A i \in 1..n : OfAlgorithm(a, d[i])
      BY <1>2
    <2> HIDE DEF d
    <2> QED
      BY <1>1, <1>3, <1>5, <2>1, ParentOfAlgorithm
  <1> QED
    BY <1>1, <1>4, <1>5

\* And the roots over blocks of such leaves.
LEMMA BlocksOfAlgorithm ==
  ASSUME NEW a, NEW r, TreeOf(a, r), NEW l \in Nat, NEW h \in Nat,
         \A i \in Nat : OfAlgorithm(a, r[<<i, 0>>])
  PROVE  OfAlgorithm(a, r[<<l, h>>])
  <1> DEFINE S == {m \in Nat : \A x \in Nat : OfAlgorithm(a, r[<<x, m>>])}
  <1>1. 0 \in S
    OBVIOUS
  <1>2. ASSUME NEW m \in Nat, m \in S PROVE m + 1 \in S
    <2> SUFFICES ASSUME NEW x \in Nat PROVE OfAlgorithm(a, r[<<x, m + 1>>])
      OBVIOUS
    <2> DEFINE C(j) == x + (j - 1) * BlockSize(m)
    <2>1. PICK s : /\ s = [j \in 1..Arity |-> s[j]]
                   /\ \A j \in 1..Arity : s[j] = r[<<C(j), m>>]
                   /\ r[<<x, m + 1>>] = NaryMr(a, s)
      BY ONLY TreeOf(a, r), x \in Nat, m \in Nat, RootStep
    <2>2. Arity \in Nat \ {0}
      BY ArityAssumption
    <2>3. ASSUME NEW j \in 1..Arity PROVE OfAlgorithm(a, s[j])
      <3>1. C(j) \in Nat
        BY Children
      <3> HIDE DEF C
      <3> QED
        BY <1>2, <2>1, <3>1
    <2> QED
      BY <2>1, <2>2, <2>3, ParentOfAlgorithm
  <1> HIDE DEF S
  <1>3. h \in S
    BY <1>1, <1>2, SetInduction
  <1> QED
    BY <1>3 DEF S

\* And the bagging of such peaks.
LEMMA BagOfAlgorithm ==
  ASSUME NEW a, NEW n \in Nat \ {0}, NEW peaks, peaks = [i \in 1..n |-> peaks[i]],
         \A i \in 1..n : OfAlgorithm(a, peaks[i])
  PROVE  OfAlgorithm(a, BagPeaks(a, peaks))
  <1> DEFINE tops == [i \in DOMAIN peaks |-> [covers |-> {i}, digest |-> peaks[i], children |-> <<>>]]
             list == [i \in 1..n |-> [covers |-> {i}, digest |-> peaks[i], children |-> <<>>]]
  <1>1. DOMAIN peaks = 1..n
    OBVIOUS
  <1>2. peaks # <<>>
    <2>1. 1 \in DOMAIN peaks
      BY <1>1
    <2> QED
      BY <2>1
  <1>3. BagPeaks(a, peaks) = FoldFrontier(a, tops).digest
    BY <1>2 DEF BagPeaks, BagTree
  <1>4. tops = list
    BY <1>1
  <1> HIDE DEF tops
  <1>5. /\ list = [i \in 1..n |-> list[i]] /\ PeakNodes(list, n, peaks)
        /\ \A i \in 1..n : OfAlgorithm(a, list[i].digest)
    BY DEF PeakNodes
  <1> HIDE DEF list
  <1>6. Len(list) = n
    BY <1>5, FcnIsSeq
  <1>7. CASE n = 1
    <2>1. FoldFrontier(a, list) = list[1]
      BY <1>6, <1>7 DEF FoldFrontier
    <2> QED
      BY <1>3, <1>4, <1>5, <1>7, <2>1
  <1>8. CASE n # 1
    <2>1. n >= 2
      BY <1>8
    <2>2. PICK F : Folds(a, list, n, F)
      BY <1>6, <2>1, FoldIs
    <2> DEFINE S == {r \in Nat : r <= FoldSteps(n) => OfAlgorithm(a, F[r].digest)}
    <2>3. FoldSteps(n) \in 1..n
      BY <2>1, Stages
    <2>4. 0 \in S
      <3>1. F[0] = list[n]
        BY <2>2 DEF Folds
      <3> QED
        BY <1>5, <3>1
    <2>5. ASSUME NEW r \in 1..FoldSteps(n), OfAlgorithm(a, F[r - 1].digest)
          PROVE  OfAlgorithm(a, F[r].digest)
      <3> DEFINE w == Width(n, r)
                 c == F[r].children
                 d == [j \in 1..w |-> c[j].digest]
      <3>1. w \in Nat /\ w >= 2 /\ F[r].digest = NaryMr(a, d)
            /\ c = [j \in 1..w |-> IF j < w THEN list[First(n, r) + j - 1] ELSE F[r - 1]]
        <4>1. FoldNode(a, list, n, F, r)
          BY <1>5, <2>1, <2>2, FoldNodes
        <4> QED
          BY <4>1 DEF FoldNode
      <3>2. First(n, r) \in Nat /\ First(n, r) >= 1 /\ First(n, r) + w - 1 <= n
        <4>1. r \in 0..FoldSteps(n) /\ r - 1 \in 0..FoldSteps(n)
          BY <2>3
        <4>2. First(n, r) \in 1..n /\ First(n, r - 1) \in 1..n
          BY <2>1, <4>1, Stages
        <4> QED
          BY <4>2 DEF Width
      <3> HIDE DEF c, w
      <3>3. ASSUME NEW j \in 1..w PROVE OfAlgorithm(a, c[j].digest)
        <4>1. CASE j < w
          <5>1. First(n, r) + j - 1 \in 1..n
            BY <3>1, <3>2, <4>1
          <5>2. c[j] = list[First(n, r) + j - 1]
            BY <3>1, <4>1
          <5> QED
            BY <1>5, <5>1, <5>2
        <4>2. CASE ~(j < w)
          BY <2>5, <3>1, <4>2
        <4> QED
          BY <4>1, <4>2
      <3>4. d = [j \in 1..w |-> d[j]] /\ \A j \in 1..w : OfAlgorithm(a, d[j])
        BY <3>3
      <3> HIDE DEF d
      <3>5. w \in Nat \ {0}
        BY <3>1
      <3> QED
        BY <3>1, <3>4, <3>5, ParentOfAlgorithm
    <2>6. ASSUME NEW q \in Nat, q \in S PROVE q + 1 \in S
      <3> SUFFICES ASSUME q + 1 <= FoldSteps(n) PROVE OfAlgorithm(a, F[q + 1].digest)
        OBVIOUS
      <3>1. q + 1 \in 1..FoldSteps(n) /\ (q + 1) - 1 = q /\ q <= FoldSteps(n)
        BY <2>3
      <3>2. OfAlgorithm(a, F[(q + 1) - 1].digest)
        BY <2>6, <3>1
      <3> QED
        BY <2>5, <3>1, <3>2
    <2> HIDE DEF S
    <2>7. FoldSteps(n) \in Nat
      BY <2>3
    <2>8. FoldSteps(n) \in S
      BY <2>4, <2>6, <2>7, SetInduction
    <2>9. OfAlgorithm(a, F[FoldSteps(n)].digest)
      BY <2>7, <2>8 DEF S
    <2>10. FoldFrontier(a, list) = F[FoldSteps(n)]
      BY <2>2 DEF Folds
    <2> QED
      BY <1>3, <1>4, <2>9, <2>10
  <1> QED
    BY <1>7, <1>8

\* The member roots of a log are digests of their algorithms.
LEMMA RootOfAlgorithm ==
  ASSUME LogInv, NEW size \in 1..count, NEW a \in ActiveAlgsAt(size)
  PROVE  OfAlgorithm(a, RootAt(a, size))
  <1> DEFINE n == Len(FrontierForSize(size))
             at == FrontierForSize(size)
             r == Ref(a)
             peaks == PeaksOf(r, size)
  <1>1. a \in Algs /\ size \in 1..Size(a)
    BY RootReadBack
  <1>2. /\ n \in Nat \ {0} /\ peaks = [f \in 1..n |-> peaks[f]] /\ \A f \in 1..n : peaks[f] = r[at[f]]
    <2>1. PeaksRead(a, size, n)
      BY <1>1, PeaksReadBack
    <2> QED
      BY <2>1 DEF PeaksRead
  <1>3. size \in Nat /\ Covers(at, 0, size)
    BY FrontierCovers, SizeKnown DEF LogInv
  <1>4. ASSUME NEW i \in Nat, i < count PROVE history[i + 1] \in Seq(STRING)
    <2>1. history \in Seq(Seq(STRING)) /\ Len(history) = count /\ count \in Nat
      BY LogAssumption DEF LogInv, HistoryKept, LogTypeOK
    <2>2. i + 1 \in 1..Len(history)
      BY <1>4, <2>1
    <2> QED
      BY <2>1, <2>2
  <1>5. TreeOf(a, r) /\ \A i \in Nat : r[<<i, 0>>] = ReferenceLeaf(a, i)
    BY References
  <1> DEFINE leaf == [i \in Nat |-> IF i < size THEN ReferenceLeaf(a, i) ELSE Null(a)]
             s == RootsOf(a, leaf)
  <1>6. TreeOf(a, s) /\ \A l \in Nat : s[<<l, 0>>] = leaf[l]
    BY RootsAreTree
  <1>7. \A i \in Nat : leaf[i] = IF i < size THEN ReferenceLeaf(a, i) ELSE Null(a)
    OBVIOUS
  <1> HIDE DEF leaf, s, r, peaks, at, n
  <1>8. ASSUME NEW i \in Nat PROVE OfAlgorithm(a, s[<<i, 0>>])
    <2>1. OfAlgorithm(a, Null(a))
      <3>1. <<>> \in Seq(STRING)
        OBVIOUS
      <3> QED
        BY <3>1, LeavesOfAlgorithm
    <2>2. CASE i < size /\ IsActiveAt(epochs[a], i)
      <3>1. i < count
        BY <1>3, <2>2, LogAssumption DEF LogInv, LogTypeOK
      <3>2. OfAlgorithm(a, Evaluate(a, history[i + 1]))
        BY <1>4, <3>1, LeavesOfAlgorithm
      <3> QED
        BY <1>6, <1>7, <2>2, <3>2 DEF ReferenceLeaf
    <2>3. CASE ~(i < size /\ IsActiveAt(epochs[a], i))
      BY <1>6, <1>7, <2>1, <2>3 DEF ReferenceLeaf
    <2> QED
      BY <2>2, <2>3
  <1>9. SameBelow(r, s, size)
    <2>1. ASSUME NEW i \in 0..size - 1 PROVE r[<<i, 0>>] = s[<<i, 0>>]
      <3>1. i \in Nat /\ i < size
        BY <1>3
      <3> QED
        BY <1>5, <1>6, <1>7, <3>1
    <2> QED
      BY <2>1 DEF SameBelow
  <1>10. ASSUME NEW f \in 1..n PROVE OfAlgorithm(a, peaks[f])
    <2>1. at[f] \in Blocks(size)
      BY <1>3, <1>10, PeaksAreBlocks DEF n, at
    <2>2. at[f] = <<at[f][1], at[f][2]>> /\ at[f][1] \in Nat /\ at[f][2] \in Nat
      BY <2>1, CoordinateIsPair DEF Blocks
    <2>3. r[at[f]] = s[at[f]]
      BY <1>3, <1>5, <1>6, <1>9, <2>1, SameBlocks
    <2>4. OfAlgorithm(a, s[<<at[f][1], at[f][2]>>])
      BY <1>6, <1>8, <2>2, BlocksOfAlgorithm
    <2> QED
      BY <1>2, <2>2, <2>3, <2>4
  <1>11. OfAlgorithm(a, BagPeaks(a, peaks))
    BY <1>2, <1>10, BagOfAlgorithm
  <1> QED
    BY <1>11 DEF RootAt, peaks, r
-----------------------------------------------------------------------------
(* The children of a combined root *)

\* The children of a combined root: n member roots, and a coverage child or none.
ChildrenAre(a, s, n, m, k) ==
  /\ k \in {0, 1} /\ s = [i \in 1..n + k |-> s[i]]
  /\ \A i \in 1..n : s[i] = m[i]
  /\ k = 1 => \E x : s[n + 1] = DataHash(a, x)

\* The member roots are of different algorithms.
MembersAre(ids, n, m) ==
  /\ m = [i \in 1..n |-> m[i]] /\ \A i \in 1..n : OfAlgorithm(ids[i], m[i])
  /\ \A i, j \in 1..n : i # j => ids[i] # ids[j]

\* The sequence repeats its first element.
AllAlike(s, n) == \A i \in 1..n : s[i] = s[1]

\* Children that are not all alike are hashed.
LEMMA Differing ==
  ASSUME NEW a, NEW n \in Nat \ {0}, NEW s, s = [i \in 1..n |-> s[i]], ~AllAlike(s, n)
  PROVE  NaryMr(a, s) = NodeHash(a, s)
  BY NaryOf DEF AllAlike

\* Children that are all alike and others that are not have different parents.
LEMMA CollapseShows ==
  ASSUME NEW a, NEW ids, NEW n \in Nat \ {0}, NEW m, NEW w, MembersAre(ids, n, m), MembersAre(ids, n, w),
         NEW s, NEW k, ChildrenAre(a, s, n, m, k), NEW t, NEW j, ChildrenAre(a, t, n, w, j),
         AllAlike(s, n + k), ~AllAlike(t, n + j)
  PROVE  NaryMr(a, s) # NaryMr(a, t)
  <1>1. k \in {0, 1} /\ j \in {0, 1} /\ n + k \in Nat \ {0} /\ n + j \in Nat \ {0} /\ 1 \in 1..n
    BY DEF ChildrenAre
  <1>2. s = [i \in 1..n + k |-> s[i]] /\ t = [i \in 1..n + j |-> t[i]] /\ DOMAIN t = 1..n + j
        /\ s[1] = m[1] /\ \A i \in 1..n : t[i] = w[i]
    BY <1>1 DEF ChildrenAre
  <1>3. NaryMr(a, s) = m[1]
    BY ZenonT(60), <1>1, <1>2, NaryOf DEF AllAlike
  <1>4. NaryMr(a, t) = NodeHash(a, t)
    BY SMTT(30), <1>1, <1>2, NaryOf DEF AllAlike
  <1> SUFFICES ASSUME m[1] = NodeHash(a, t) PROVE FALSE
    BY <1>3, <1>4
  <1>5. /\ NodeHash(a, t)[1] = "node" /\ NodeHash(a, t)[2] = a /\ NodeHash(a, t)[3] = t
    BY DEF NodeHash
  <1>6. OfAlgorithm(ids[1], m[1])
    BY <1>1 DEF MembersAre
  <1>7. ids[1] = a /\ \A i \in 1..n + j : Tagged(a, t[i])
    BY ZenonT(60), <1>2, <1>5, <1>6 DEF OfAlgorithm, Tagged
  <1>8. j = 0
    <2> SUFFICES ASSUME j = 1 PROVE FALSE
      BY <1>1
    <2>1. PICK x : t[n + 1] = DataHash(a, x)
      BY DEF ChildrenAre
    <2>2. Tagged(a, DataHash(a, x))
      <3>1. n + 1 \in 1..n + j
        OBVIOUS
      <3> QED
        BY <1>7, <2>1, <3>1
    <2>3. DataHash(a, x)[1] = "hash"
      BY DEF DataHash
    <2> QED
      BY <2>2, <2>3 DEF Tagged
  <1>9. PICK i \in 1..n : t[i] # t[1]
    BY <1>8 DEF AllAlike
  <1>10. Tagged(a, w[i]) /\ OfAlgorithm(ids[i], w[i])
    <2>1. i \in 1..n + j
      BY <1>8
    <2> QED
      BY <1>2, <1>7, <2>1 DEF MembersAre
  <1>11. ids[i] = a
    BY <1>10 DEF Tagged, OfAlgorithm
  <1>12. ids[i] # ids[1]
    BY <1>1, <1>9 DEF MembersAre
  <1> QED
    BY <1>7, <1>11, <1>12

\* Equal combined roots over the same algorithms have the same member roots.
LEMMA SameMembers ==
  ASSUME NEW a, NEW ids, NEW n \in Nat \ {0}, NEW m, NEW w, MembersAre(ids, n, m), MembersAre(ids, n, w),
         NEW s, NEW k, ChildrenAre(a, s, n, m, k), NEW t, NEW j, ChildrenAre(a, t, n, w, j),
         NaryMr(a, s) = NaryMr(a, t)
  PROVE  \A i \in 1..n : m[i] = w[i]
  <1>1. k \in {0, 1} /\ j \in {0, 1} /\ n + k \in Nat \ {0} /\ n + j \in Nat \ {0} /\ 1 \in 1..n
    BY DEF ChildrenAre
  <1>2. /\ s = [i \in 1..n + k |-> s[i]] /\ t = [i \in 1..n + j |-> t[i]]
        /\ \A i \in 1..n : s[i] = m[i] /\ t[i] = w[i] /\ i \in 1..n + k /\ i \in 1..n + j
    <2>1. /\ s = [i \in 1..n + k |-> s[i]] /\ t = [i \in 1..n + j |-> t[i]]
          /\ \A i \in 1..n : s[i] = m[i] /\ t[i] = w[i]
      BY DEF ChildrenAre
    <2>2. \A i \in 1..n : i \in 1..n + k /\ i \in 1..n + j
      BY <1>1
    <2> QED
      BY <2>1, <2>2
  <1>3. CASE AllAlike(s, n + k) /\ AllAlike(t, n + j)
    <2>1. NaryMr(a, s) = s[1] /\ NaryMr(a, t) = t[1]
      BY <1>1, <1>2, <1>3, NaryOf DEF AllAlike
    <2>2. \A i \in 1..n : s[i] = s[1] /\ t[i] = t[1]
      BY <1>2, <1>3 DEF AllAlike
    <2> QED
      BY <1>2, <2>1, <2>2
  <1>4. CASE ~AllAlike(s, n + k) /\ ~AllAlike(t, n + j)
    <2>1. NaryMr(a, s) = NodeHash(a, s) /\ NaryMr(a, t) = NodeHash(a, t)
      <3> DEFINE p == n + k
                 q == n + j
      <3>1. p \in Nat \ {0} /\ s = [i \in 1..p |-> s[i]] /\ ~AllAlike(s, p)
        BY <1>1, <1>2, <1>4
      <3>2. q \in Nat \ {0} /\ t = [i \in 1..q |-> t[i]] /\ ~AllAlike(t, q)
        BY <1>1, <1>2, <1>4
      <3> HIDE DEF p, q
      <3>3. NaryMr(a, s) = NodeHash(a, s)
        BY ONLY <3>1, Differing
      <3>4. NaryMr(a, t) = NodeHash(a, t)
        BY ONLY <3>2, Differing
      <3> QED
        BY <3>3, <3>4
    <2>2. NodeHash(a, s)[3] = s /\ NodeHash(a, t)[3] = t
      BY DEF NodeHash
    <2>3. s = t
      BY <2>1, <2>2
    <2> QED
      BY <1>2, <2>3
  <1>5. CASE AllAlike(s, n + k) /\ ~AllAlike(t, n + j)
    BY <1>5, CollapseShows
  <1>6. CASE ~AllAlike(s, n + k) /\ AllAlike(t, n + j)
    BY <1>6, CollapseShows
  <1> QED
    BY <1>3, <1>4, <1>5, <1>6

\* The root over such children.
CombinesTo(a, n, m, root) == \E s, k : ChildrenAre(a, s, n, m, k) /\ root = NaryMr(a, s)

\* A combined root is one.
LEMMA CombinedIs ==
  ASSUME NEW a, NEW known \in SUBSET Nat, IsFiniteSet(known), NEW members, DOMAIN members = known,
         NEW timeline, NEW size, NEW ids, ids = InIdOrder(known), NEW n, n = Cardinality(known),
         NEW m, m = [i \in 1..n |-> members[ids[i]]]
  PROVE  CombinesTo(a, n, m, CombinedRoot(a, members, timeline, size))
  <1> DEFINE runs == AllNullRuns(timeline, size)
             x == <<size, runs>>
             coverage == IF DOMAIN runs = {} THEN <<>> ELSE <<DataHash(a, x)>>
  <1>1. n \in Nat /\ Len(ids) = n
    BY InOrder
  <1>2. CombinedRoot(a, members, timeline, size) = NaryMr(a, m \o coverage)
    BY <1>1, Zenon DEF CombinedRoot
  <1> HIDE DEF x
  <1>3. coverage = <<>> \/ coverage = <<DataHash(a, x)>>
    OBVIOUS
  <1> HIDE DEF coverage, runs
  <1>4. m = [i \in 1..n |-> m[i]]
    OBVIOUS
  <1> DEFINE s == m \o coverage
             k == Len(coverage)
  <1>5. ChildrenAre(a, s, n, m, k)
    <2>1. CASE coverage = <<>>
      <3>1. k = 0 /\ s = m
        <4>1. IsList(m)
          BY <1>1, <1>4, FcnIsSeq DEF IsList
        <4>2. m \o <<>> = m
          BY <4>1, NothingOn
        <4> QED
          BY <2>1, <4>2
      <3> HIDE DEF s, k
      <3> QED
        BY <1>1, <1>4, <3>1 DEF ChildrenAre
    <2>2. CASE coverage = <<DataHash(a, x)>>
      <3> DEFINE e == DataHash(a, x)
      <3>1. k = 1 /\ s = [i \in 1..n + 1 |-> IF i <= n THEN m[i] ELSE e]
        <4> HIDE DEF e
        <4> QED
          BY <1>1, <1>4, <2>2, ConcatOne DEF e
      <3> HIDE DEF s, k
      <3>2. \A i \in 1..n : i <= n /\ i \in 1..n + 1
        BY <1>1
      <3>3. n + 1 \in 1..n + 1 /\ ~(n + 1 <= n)
        BY <1>1
      <3>4. s[n + 1] = DataHash(a, x) /\ \A i \in 1..n : s[i] = m[i]
        BY <3>1, <3>2, <3>3
      <3>5. s = [i \in 1..n + k |-> s[i]] /\ n + k = n + 1
        <4>1. DOMAIN s = 1..n + 1 /\ s = [i \in DOMAIN s |-> s[i]]
          BY <3>1
        <4> QED
          BY <3>1, <4>1
      <3>6. \E y : s[n + 1] = DataHash(a, y)
        BY <3>4
      <3> QED
        BY <3>1, <3>4, <3>5, <3>6 DEF ChildrenAre
    <2> QED
      BY <1>3, <2>1, <2>2
  <1> HIDE DEF s, k
  <1> QED
    BY <1>2, <1>5 DEF CombinesTo, s

\* Two functions from algorithms to their digests that give equal combined roots.
LEMMA CombinedRootOpens ==
  ASSUME NEW a, NEW ids \in SUBSET Nat, IsFiniteSet(ids), ids # {},
         NEW f, NEW g, f = [b \in ids |-> f[b]], g = [b \in ids |-> g[b]],
         \A b \in ids : OfAlgorithm(b, f[b]) /\ OfAlgorithm(b, g[b]),
         NEW timeline, NEW size, NEW timeline2, NEW size2,
         CombinedRoot(a, f, timeline, size) = CombinedRoot(a, g, timeline2, size2)
  PROVE  f = g
  <1> DEFINE n == Cardinality(ids)
             order == InIdOrder(ids)
             m == [i \in 1..n |-> f[order[i]]]
             w == [i \in 1..n |-> g[order[i]]]
  <1>1. /\ n \in Nat /\ order \in [1..n -> ids]
        /\ \A i, j \in 1..n : i # j => order[i] # order[j]
        /\ \A x \in ids : \E i \in 1..n : order[i] = x
    BY InOrder
  <1>2. DOMAIN f = ids /\ DOMAIN g = ids
    OBVIOUS
  <1>3. n # 0
    BY FS_EmptySet
  <1> HIDE DEF n, order
  <1>4. CombinesTo(a, n, m, CombinedRoot(a, f, timeline, size))
    BY <1>2, CombinedIs DEF n, order
  <1>5. CombinesTo(a, n, w, CombinedRoot(a, g, timeline2, size2))
    BY <1>2, CombinedIs DEF n, order
  <1>6. MembersAre(order, n, m) /\ MembersAre(order, n, w)
    BY <1>1 DEF MembersAre
  <1>7. \A i \in 1..n : m[i] = w[i]
    <2> HIDE DEF m, w
    <2>1. PICK s, k : ChildrenAre(a, s, n, m, k) /\ CombinedRoot(a, f, timeline, size) = NaryMr(a, s)
      BY <1>4 DEF CombinesTo
    <2>2. PICK t, j : ChildrenAre(a, t, n, w, j) /\ CombinedRoot(a, g, timeline2, size2) = NaryMr(a, t)
      BY <1>5 DEF CombinesTo
    <2>3. NaryMr(a, s) = NaryMr(a, t) /\ n \in Nat \ {0}
      BY <1>1, <1>3, <2>1, <2>2
    <2> QED
      BY ONLY <1>6, <2>1, <2>2, <2>3, SameMembers
  <1>8. ASSUME NEW x \in ids PROVE f[x] = g[x]
    <2>1. PICK i \in 1..n : order[i] = x
      BY <1>1
    <2>2. m[i] = f[x] /\ w[i] = g[x]
      BY <2>1
    <2> QED
      BY <1>7, <2>2
  <1> QED
    BY <1>8

\* A coupling proof opens what was shown at its size, and what was shown at another
\* only if the member roots were the same.
LEMMA CouplingSaid ==
  ASSUME LogInv, IsFiniteSet(Algs)
  PROVE  CouplingOpensShownRoots
  <1>1. \A size \in 1..count : ShownRoots(size) = Shown(size) /\ DOMAIN Shown(size) = ActiveAlgsAt(size)
    BY ShownIs DEF Shown
  <1>2. ASSUME NEW size \in 1..count, NEW a \in ActiveAlgsAt(size)
        PROVE  Authenticated(a, CouplingProofAt(size), size, Shown(size)[a], ActiveAlgsAt(size))
    BY CouplingOpens
  <1>3. ASSUME NEW size \in 1..count, NEW other \in 1..count, NEW a \in ActiveAlgsAt(other),
               Authenticated(a, CouplingProofAt(size), other, Shown(other)[a], ActiveAlgsAt(other))
        PROVE  CouplingProofAt(size).roots = CouplingProofAt(other).roots
    <2> DEFINE ids == ActiveAlgsAt(other)
               p == CouplingProofAt(size)
               g == [b \in ids |-> RootAt(b, other)]
               f == p.roots
    <2>1. ids \in SUBSET Nat /\ IsFiniteSet(ids) /\ ids # {}
      BY LogAssumption, FS_Subset DEF ActiveAlgsAt
    <2>2. CouplingProofAt(other).roots = g
      <3> DEFINE e == CommittedEpochsAt(other)
      <3>1. CouplingProofAt(other) = [roots |-> g, epochs |-> e]
        BY <2>1, CouplingIs
      <3> HIDE DEF g, e
      <3> QED
        BY <3>1
    <2>3. DOMAIN f = ids /\ CombinedRoot(a, f, p.epochs, other) = Shown(other)[a]
      BY <1>3 DEF Authenticated
    <2>4. Shown(other)[a] = CombinedRoot(a, g, CommittedEpochsAt(other), other)
      BY DEF Shown
    <2>5. ActiveAlgsAt(size) = ids /\ f = [b \in ids |-> RootAt(b, size)]
      <3> DEFINE v == [b \in ActiveAlgsAt(size) |-> RootAt(b, size)]
                 e == CommittedEpochsAt(size)
      <3>1. p = IF ActiveAlgsAt(size) = {} THEN NoCoupling ELSE [roots |-> v, epochs |-> e]
        BY CouplingIs
      <3>2. DOMAIN v = ActiveAlgsAt(size) /\ DOMAIN NoCoupling.roots = {}
        BY DEF NoCoupling
      <3> HIDE DEF v, e, ids, p
      <3>3. ActiveAlgsAt(size) # {}
        BY <2>1, <2>3, <3>1, <3>2
      <3>4. f = v
        BY <3>1, <3>3
      <3> QED
        BY <2>3, <3>2, <3>4 DEF v
    <2>6. \A b \in ids : OfAlgorithm(b, f[b]) /\ OfAlgorithm(b, g[b])
      <3>1. ASSUME NEW b \in ids PROVE OfAlgorithm(b, RootAt(b, size)) /\ OfAlgorithm(b, RootAt(b, other))
        BY <2>5, RootOfAlgorithm
      <3> QED
        BY <2>5, <3>1
    <2>7. f = [b \in ids |-> f[b]] /\ g = [b \in ids |-> g[b]]
      BY <2>5
    <2> HIDE DEF f, g, ids, p
    <2>8. f = g
      BY <2>1, <2>3, <2>4, <2>6, <2>7, CombinedRootOpens
    <2> QED
      BY <2>2, <2>8 DEF f, p
  <1>4. ASSUME NEW size \in 1..count
        PROVE  LET shown == ShownRoots(size)
                   proof == CouplingProofAt(size)
               IN  /\ \A a \in DOMAIN shown : Authenticated(a, proof, size, shown[a], DOMAIN shown)
                   /\ \A other \in 1..count \ {size} : \A a \in DOMAIN ShownRoots(other) :
                        Authenticated(a, proof, other, ShownRoots(other)[a], DOMAIN ShownRoots(other))
                          => proof.roots = CouplingProofAt(other).roots
    BY <1>1, <1>2, <1>3
  <1> QED
    BY <1>4, Zenon DEF CouplingOpensShownRoots

\* Whatever happened since, a coupling proof of a size opens every combined root
\* shown at that size, and no other one with other member roots.
THEOREM CouplingAlwaysOpens ==
  ASSUME NoNullItems, IsFiniteSet(Algs)
  PROVE  Spec => []CouplingOpensShownRoots
  <1>1. LogInv => CouplingOpensShownRoots
    BY CouplingSaid
  <1> QED
    BY <1>1, LogInvariant, PTL

=============================================================================
