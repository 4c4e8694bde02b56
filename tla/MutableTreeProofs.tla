-------------------------- MODULE MutableTreeProofs --------------------------
(***************************************************************************)
(* What the mutable tree caches is the tree over its cells, and its proofs *)
(* lead to the root.                                                       *)
(*                                                                         *)
(* Two trees over the same positions have the same shape, whatever their   *)
(* leaves are; a set of pairs of nodes that is closed under taking the     *)
(* children one by one says so (Twins).  A node is known by what it        *)
(* covers, so the digests of a tree are a function of that, and it is the  *)
(* only one that gives every parent the hash of its children.              *)
(***************************************************************************)
EXTENDS EpochTree, TopologyProofs, FiniteSetTheorems

-----------------------------------------------------------------------------
(* Trees of the same shape *)

\* A node over one position.
Single(n, leaf) == n.children = <<>> /\ \E i : n.covers = {i} /\ n.digest = leaf[i]

\* A node over k others, none of which covers what another one does.
Parent(a, n, k) ==
  /\ k \in Nat /\ k >= 2 /\ n.children = [j \in 1..k |-> n.children[j]]
  /\ n.digest = NaryMr(a, [j \in 1..k |-> n.children[j].digest])
  /\ n.covers = UNION {n.children[j].covers : j \in 1..k}
  /\ \A i, j \in 1..k : i # j => n.children[i].covers \cap n.children[j].covers = {}

\* x is a node over leaves of f, y one over leaves of g, and they have the same shape,
\* their children being pairs of R.
Twin(a, f, b, g, R, x, y) ==
  /\ x.covers = y.covers /\ x.covers # {}
  /\ \/ Single(x, f) /\ Single(y, g)
     \/ \E k : Parent(a, x, k) /\ Parent(b, y, k) /\ \A j \in 1..k : <<x.children[j], y.children[j]>> \in R

Twins(a, f, b, g, R) == \A x, y : <<x, y>> \in R => Twin(a, f, b, g, R, x, y)

\* They are pairs of such a set.
SameShape(a, f, b, g, x, y) == \E R : Twins(a, f, b, g, R) /\ <<x, y>> \in R

\* The levels of a perfect subtree.
Levels(a, leaf, l, h, L) ==
  /\ Perfect(a, leaf, l, h) = L[h][0]
  /\ \A i \in 0..BlockSize(h) - 1 : L[0][i] = [covers |-> {l + i}, digest |-> leaf[l + i], children |-> <<>>]
  /\ \A g \in 1..h : \A i \in 0..BlockSize(h - g) - 1 :
       L[g][i] = Inner(a, [j \in 1..Arity |-> L[g - 1][i * Arity + j - 1]])

\* There are such levels.
LEMMA LevelsExist ==
  ASSUME NEW a, NEW leaf, NEW l \in Nat, NEW h \in Nat
  PROVE  \E L : Levels(a, leaf, l, h, L)
  <1> DEFINE low(i) == [covers |-> {l + i}, digest |-> leaf[l + i], children |-> <<>>]
             up(row, i) == Inner(a, [j \in 1..Arity |-> row[i * Arity + j - 1]])
             next(g, row) == [i \in 0..BlockSize(h - g) - 1 |-> IF g = 0 THEN low(i) ELSE up(row, i)]
             base == [i \in 0..BlockSize(h - 0) - 1 |-> IF 0 = 0 THEN low(i) ELSE low(i)]
             Starts(f, k) == \A g \in 0..k : f[g] = IF g = 0 THEN base ELSE next(g, f[g - 1])
             body(f) == [g \in 0..h |-> [i \in 0..BlockSize(h - g) - 1 |->
                           IF g = 0 THEN low(i) ELSE up(f[g - 1], i)]]
             level == CHOOSE f : f = body(f)
  <1>1. Perfect(a, leaf, l, h) = level[h][0]
    BY Zenon DEF Perfect
  <1>2. \A k \in Nat : \E f : Starts(f, k)
    <2> HIDE DEF next, base
    <2> DEFINE S == {k \in Nat : \E f : Starts(f, k)}
    <2>1. 0 \in S
      <3>1. Starts([g \in {0} |-> base], 0)
        OBVIOUS
      <3> QED
        BY <3>1
    <2>2. ASSUME NEW k \in Nat, k \in S PROVE k + 1 \in S
      <3>1. PICK f : Starts(f, k)
        BY <2>2
      <3> DEFINE w == [g \in 0..k + 1 |-> IF g <= k THEN f[g] ELSE next(k + 1, f[k])]
      <3>2. Starts(w, k + 1)
        <4>1. \A g \in 0..k + 1 : w[g] = IF g <= k THEN f[g] ELSE next(k + 1, f[k])
          OBVIOUS
        <4> HIDE DEF w
        <4> SUFFICES ASSUME NEW g \in 0..k + 1
                     PROVE  w[g] = IF g = 0 THEN base ELSE next(g, w[g - 1])
          OBVIOUS
        <4>2. CASE g <= k
          BY <3>1, <4>1, <4>2
        <4>3. CASE g = k + 1
          BY <4>1, <4>3
        <4> QED
          BY <4>2, <4>3
      <3>3. k + 1 \in Nat
        OBVIOUS
      <3> HIDE DEF Starts, w
      <3> QED
        BY <3>2, <3>3
    <2> HIDE DEF S
    <2>3. \A k \in Nat : k \in S
      BY <2>1, <2>2, SetInduction
    <2> QED
      BY <2>3 DEF S
  <1>3. level = body(level)
    <2>1. PICK f : Starts(f, h)
      BY <1>2
    <2> DEFINE whole == [g \in 0..h |-> f[g]]
    <2>2. ASSUME NEW g \in 0..h
          PROVE  whole[g] = [i \in 0..BlockSize(h - g) - 1 |-> IF g = 0 THEN low(i) ELSE up(whole[g - 1], i)]
      <3> HIDE DEF low, up
      <3>1. CASE g = 0
        BY <2>1, <3>1
      <3>2. CASE g # 0
        <4>1. whole[g] = f[g] /\ whole[g - 1] = f[g - 1]
          BY <3>2
        <4> HIDE DEF whole
        <4>2. f[g] = next(g, f[g - 1])
          BY <2>1, <3>2
        <4> QED
          BY <4>1, <4>2
      <3> QED
        BY <3>1, <3>2
    <2>3. whole = [g \in 0..h |-> whole[g]]
      OBVIOUS
    <2> HIDE DEF whole, low, up
    <2>4. whole = body(whole)
      BY <2>2, <2>3
    <2> HIDE DEF body
    <2> QED
      BY <2>4
  <1> HIDE DEF level, low, up
  <1>4. \A g \in 0..h : level[g] = [i \in 0..BlockSize(h - g) - 1 |-> IF g = 0 THEN low(i) ELSE up(level[g - 1], i)]
    BY <1>3
  <1>5. \A i \in 0..BlockSize(h) - 1 : level[0][i] = low(i)
    <2>1. 0 \in 0..h /\ h - 0 = h
      OBVIOUS
    <2> QED
      BY <1>4, <2>1
  <1>6. ASSUME NEW g \in 1..h, NEW i \in 0..BlockSize(h - g) - 1 PROVE level[g][i] = up(level[g - 1], i)
    <2>1. g \in 0..h /\ g # 0
      OBVIOUS
    <2> QED
      BY <1>4, <2>1
  <1>7. Levels(a, leaf, l, h, level)
    BY <1>1, <1>5, <1>6 DEF Levels, low, up
  <1> QED
    BY <1>7

\* The j-th of the blocks of d positions from s on.
Tile(s, d, j) == s + (j - 1) * d..s + j * d - 1

\* It starts at s + i * d.
LEMMA TileIs ==
  ASSUME NEW s \in Nat, NEW d \in Nat \ {0}, NEW i \in Nat
  PROVE  /\ Tile(s, d, i + 1) = s + i * d..s + i * d + d - 1
         /\ s + i * d \in Nat /\ Tile(s, d, i + 1) # {}
  <1>1. (i + 1) - 1 = i /\ (i + 1) * d = i * d + d /\ i * d \in Nat
    OBVIOUS
  <1>2. s + (i + 1) * d - 1 = s + i * d + d - 1
    BY <1>1
  <1>3. Tile(s, d, i + 1) = s + i * d..s + i * d + d - 1
    BY <1>1, <1>2 DEF Tile
  <1>4. s + i * d \in s + i * d..s + i * d + d - 1
    BY <1>1
  <1>5. Tile(s, d, i + 1) # {}
    BY <1>3, <1>4, Zenon
  <1>6. s + i * d \in Nat
    BY <1>1
  <1> QED
    BY <1>3, <1>5, <1>6

\* k of them one behind the other.
LEMMA Tiled ==
  ASSUME NEW s \in Nat, NEW d \in Nat \ {0}, NEW k \in Nat \ {0}
  PROVE  /\ UNION {Tile(s, d, j) : j \in 1..k} = s..s + k * d - 1
         /\ \A i, j \in 1..k : i # j => Tile(s, d, i) \cap Tile(s, d, j) = {}
  <1> DEFINE at(j) == s + (j - 1) * d
             end(j) == s + j * d
  <1>1. ASSUME NEW j \in 1..k PROVE at(j) \in Nat /\ end(j) \in Nat /\ s <= at(j) /\ at(j) < end(j) /\ end(j) <= s + k * d
    <2>1. (j - 1) * d \in Nat /\ j * d = (j - 1) * d + d
      OBVIOUS
    <2>2. k * d = j * d + (k - j) * d /\ (k - j) * d \in Nat
      <3>1. k - j \in Nat /\ k = j + (k - j)
        OBVIOUS
      <3> QED
        BY <3>1
    <2> QED
      BY <2>1, <2>2
  <1>2. ASSUME NEW i \in 1..k, NEW j \in 1..k, i < j PROVE end(i) <= at(j)
    <2>1. (j - 1) - i \in Nat /\ j - 1 = i + ((j - 1) - i)
      BY <1>2
    <2>2. (j - 1) * d = i * d + ((j - 1) - i) * d /\ ((j - 1) - i) * d \in Nat
      BY <2>1
    <2> QED
      BY <2>2
  <1>3. ASSUME NEW x \in s..s + k * d - 1 PROVE \E j \in 1..k : x \in Tile(s, d, j)
    <2>1. PICK q \in Nat : q * d <= x - s /\ x - s < q * d + d
      <3>1. x - s \in Nat
        OBVIOUS
      <3>2. PICK y \in Nat : Multiple(y, d) /\ y <= x - s /\ x - s < y + d
        BY <3>1, Floor
      <3> QED
        BY <3>2 DEF Multiple
    <2>2. q < k
      <3> SUFFICES ASSUME k <= q PROVE FALSE
        BY <2>1
      <3>1. q * d = k * d + (q - k) * d /\ (q - k) * d \in Nat
        <4>1. q - k \in Nat /\ q = k + (q - k)
          OBVIOUS
        <4> QED
          BY <4>1
      <3>2. k * d \in Nat /\ x - s < k * d
        OBVIOUS
      <3> QED
        BY <2>1, <3>1, <3>2
    <2>3. q + 1 \in 1..k /\ (q + 1) - 1 = q /\ (q + 1) * d = q * d + d /\ q * d \in Nat
      BY <2>1, <2>2
    <2>4. x \in Tile(s, d, q + 1)
      BY <2>1, <2>3 DEF Tile
    <2> QED
      BY <2>3, <2>4
  <1>0. \A j \in 1..k : Tile(s, d, j) = at(j)..end(j) - 1
    BY DEF Tile
  <1> HIDE DEF at, end
  <1>4. \A j \in 1..k : Tile(s, d, j) \subseteq s..s + k * d - 1
    BY <1>0, <1>1
  <1>5. \A i, j \in 1..k : i < j => Tile(s, d, i) \cap Tile(s, d, j) = {}
    BY <1>0, <1>1, <1>2
  <1>6. \A i, j \in 1..k : i # j => Tile(s, d, i) \cap Tile(s, d, j) = {}
    BY <1>5
  <1>7. UNION {Tile(s, d, j) : j \in 1..k} = s..s + k * d - 1
    BY <1>3, <1>4
  <1> QED
    BY <1>6, <1>7

\* The nodes of a level cover the blocks of its height, from the first on.
LevelsCovered(l, h, L) ==
  \A g \in 0..h : \A i \in 0..BlockSize(h - g) - 1 :
    L[g][i].covers = Tile(l, BlockSize(g), i + 1)

LEMMA LevelsCover ==
  ASSUME NEW a, NEW leaf, NEW l \in Nat, NEW h \in Nat, NEW L, Levels(a, leaf, l, h, L)
  PROVE  LevelsCovered(l, h, L)
  <1> DEFINE S == {g \in Nat : g <= h => \A i \in 0..BlockSize(h - g) - 1 :
                     L[g][i].covers = l + i * BlockSize(g)..l + i * BlockSize(g) + BlockSize(g) - 1}
  <1>1. 0 \in S
    <2>1. h - 0 = h /\ BlockSize(0) = 1
      BY BlockSizes
    <2>2. ASSUME NEW i \in 0..BlockSize(h) - 1
          PROVE  L[0][i].covers = l + i * 1..l + i * 1 + 1 - 1
      <3>1. L[0][i] = [covers |-> {l + i}, digest |-> leaf[l + i], children |-> <<>>]
        BY DEF Levels
      <3>3. L[0][i].covers = {l + i}
        BY <3>1
      <3>2. i \in Nat
        BY BlockSizes
      <3> QED
        BY <3>2, <3>3
    <2> QED
      BY <2>1, <2>2
  <1>2. ASSUME NEW g \in Nat, g \in S PROVE g + 1 \in S
    <2> SUFFICES ASSUME g + 1 <= h, NEW i \in 0..BlockSize(h - (g + 1)) - 1
                 PROVE  L[g + 1][i].covers =
                          l + i * BlockSize(g + 1)..l + i * BlockSize(g + 1) + BlockSize(g + 1) - 1
      OBVIOUS
    <2> DEFINE d == BlockSize(g)
               row == L[g]
    <2>1. /\ d \in Nat \ {0} /\ BlockSize(g + 1) = Arity * d
          /\ BlockSize(h - g) = Arity * BlockSize(h - (g + 1)) /\ BlockSize(h - (g + 1)) \in Nat
      <3>1. h - (g + 1) \in Nat /\ h - g = (h - (g + 1)) + 1
        OBVIOUS
      <3> QED
        BY <3>1, BlockSizes
    <2>2. i \in Nat /\ Arity \in Nat \ {0} /\ i * d \in Nat /\ i * Arity \in Nat
      BY <2>1, ArityAssumption
    <2>3. \A j \in 0..BlockSize(h - g) - 1 : row[j].covers = l + j * d..l + j * d + d - 1
      BY <1>2
    <2>4. L[g + 1][i] = Inner(a, [j \in 1..Arity |-> row[i * Arity + j - 1]])
      <3>1. g + 1 \in 1..h /\ (g + 1) - 1 = g
        OBVIOUS
      <3> QED
        BY <3>1 DEF Levels
    <2> HIDE DEF d, row
    <2>5. L[g + 1][i].covers = UNION {row[i * Arity + j - 1].covers : j \in 1..Arity}
      BY <2>4 DEF Inner
    <2> DEFINE s == l + i * (Arity * d)
    <2>6. ASSUME NEW j \in 1..Arity
          PROVE  row[i * Arity + j - 1].covers = Tile(s, d, j)
      <3>1. i * Arity + j - 1 \in 0..BlockSize(h - g) - 1
        <4>1. (i + 1) * Arity <= BlockSize(h - (g + 1)) * Arity /\ (i + 1) * Arity = i * Arity + Arity
          BY <2>1, <2>2
        <4> QED
          BY <2>1, <2>2, <4>1
      <3>2. (i * Arity + j - 1) * d = i * (Arity * d) + (j - 1) * d /\ j * d = (j - 1) * d + d
            /\ (j - 1) * d \in Nat /\ i * (Arity * d) \in Nat
        BY <2>1, <2>2
      <3>3. l + (i * Arity + j - 1) * d = s + (j - 1) * d
            /\ l + (i * Arity + j - 1) * d + d - 1 = s + j * d - 1
        BY <2>1, <2>2, <3>2
      <3> QED
        BY <2>3, <3>1, <3>3 DEF Tile
    <2>7. L[g + 1][i].covers = UNION {Tile(s, d, j) : j \in 1..Arity}
      BY <2>5, <2>6
    <2>8. s \in Nat
      BY <2>1, <2>2
    <2>9. UNION {Tile(s, d, j) : j \in 1..Arity} = s..s + Arity * d - 1
      <3> HIDE DEF s
      <3> QED
        BY <2>1, <2>2, <2>8, Tiled
    <2> QED
      BY <2>1, <2>7, <2>9
  <1> HIDE DEF S
  <1>3. \A g \in Nat : g \in S
    BY <1>1, <1>2, SetInduction
  <1> SUFFICES ASSUME NEW g \in 0..h, NEW i \in 0..BlockSize(h - g) - 1
               PROVE  L[g][i].covers = Tile(l, BlockSize(g), i + 1)
    BY DEF LevelsCovered
  <1>4. L[g][i].covers = l + i * BlockSize(g)..l + i * BlockSize(g) + BlockSize(g) - 1
    BY <1>3 DEF S
  <1>5. BlockSize(g) \in Nat \ {0} /\ i \in Nat
    BY BlockSizes
  <1> QED
    BY <1>4, <1>5, TileIs

\* More pairs do no harm.
LEMMA TwinMore ==
  ASSUME NEW a, NEW f, NEW b, NEW g, NEW R, NEW Q, R \subseteq Q, NEW x, NEW y, Twin(a, f, b, g, R, x, y)
  PROVE  Twin(a, f, b, g, Q, x, y)
  BY DEF Twin

\* A node Inner makes.
LEMMA InnerIsParent ==
  ASSUME NEW a, NEW k \in Nat, k >= 2, NEW s, s = [j \in 1..k |-> s[j]],
         \A i, j \in 1..k : i # j => s[i].covers \cap s[j].covers = {}
  PROVE  Parent(a, Inner(a, s), k)
  <1>1. DOMAIN s = 1..k
    OBVIOUS
  <1>2. Inner(a, s).covers = UNION {s[j].covers : j \in 1..k}
    BY <1>1 DEF Inner
  <1>3. Inner(a, s).digest = NaryMr(a, [j \in 1..k |-> s[j].digest])
    BY <1>1 DEF Inner
  <1>4. Inner(a, s).children = s
    BY DEF Inner
  <1> DEFINE x == Inner(a, s)
  <1> HIDE DEF x
  <1>5. x.children = s /\ x.digest = NaryMr(a, [j \in 1..k |-> s[j].digest]) /\ x.covers = UNION {s[j].covers : j \in 1..k}
    BY <1>2, <1>3, <1>4 DEF x
  <1>6. Parent(a, x, k)
    BY <1>5 DEF Parent
  <1> QED
    BY <1>6 DEF x

\* Two nodes Inner makes of pairs.
LEMMA InnerTwins ==
  ASSUME NEW a, NEW f, NEW b, NEW g, NEW R, Twins(a, f, b, g, R), NEW k \in Nat, k >= 2,
         NEW s, s = [j \in 1..k |-> s[j]], NEW t, t = [j \in 1..k |-> t[j]],
         \A j \in 1..k : <<s[j], t[j]>> \in R,
         \A i, j \in 1..k : i # j => s[i].covers \cap s[j].covers = {}
  PROVE  Twin(a, f, b, g, R, Inner(a, s), Inner(b, t))
  <1>1. \A j \in 1..k : s[j].covers = t[j].covers /\ s[j].covers # {}
    BY DEF Twins, Twin
  <1>2. Parent(a, Inner(a, s), k)
    BY InnerIsParent
  <1>3. Parent(b, Inner(b, t), k)
    BY <1>1, InnerIsParent
  <1> DEFINE x == Inner(a, s)
             y == Inner(b, t)
  <1>4. x.children = s /\ y.children = t
    BY DEF Inner
  <1> HIDE DEF x, y
  <1>10. Parent(a, x, k) /\ Parent(b, y, k)
    BY <1>2, <1>3 DEF x, y
  <1>11. x.covers = UNION {x.children[j].covers : j \in 1..k} /\ y.covers = UNION {y.children[j].covers : j \in 1..k}
    BY <1>10 DEF Parent
  <1>5. x.covers = UNION {s[j].covers : j \in 1..k} /\ y.covers = UNION {t[j].covers : j \in 1..k}
    BY <1>4, <1>11
  <1>6. x.covers = y.covers
    BY <1>1, <1>5
  <1>7. x.covers # {}
    <2>1. 1 \in 1..k
      OBVIOUS
    <2> QED
      BY <1>1, <1>5, <2>1
  <1>8. \A j \in 1..k : <<x.children[j], y.children[j]>> \in R
    BY <1>4
  <1>9. Twin(a, f, b, g, R, x, y)
    BY <1>6, <1>7, <1>8, <1>10 DEF Twin
  <1> QED
    BY <1>9 DEF x, y

\* A perfect subtree covers a block.
LEMMA PerfectCovers ==
  ASSUME NEW a, NEW f, NEW l \in Nat, NEW h \in Nat
  PROVE  Perfect(a, f, l, h).covers = l..l + BlockSize(h) - 1
  <1>1. PICK L : Levels(a, f, l, h, L)
    BY LevelsExist
  <1>2. Perfect(a, f, l, h) = L[h][0]
    BY <1>1 DEF Levels
  <1>3. BlockSize(h) \in Nat \ {0} /\ h \in 0..h /\ 0 \in 0..BlockSize(h - h) - 1
    BY BlockSizes
  <1>6. LevelsCovered(l, h, L)
    BY <1>1, LevelsCover
  <1>4. L[h][0].covers = Tile(l, BlockSize(h), 0 + 1)
    BY <1>3, <1>6 DEF LevelsCovered
  <1>5. Tile(l, BlockSize(h), 0 + 1) = l..l + BlockSize(h) - 1
    BY <1>3 DEF Tile
  <1> QED
    BY <1>2, <1>4, <1>5

\* Two perfect subtrees over the same positions.
LEMMA PerfectTwins ==
  ASSUME NEW a, NEW f, NEW b, NEW g, NEW l \in Nat, NEW h \in Nat
  PROVE  SameShape(a, f, b, g, Perfect(a, f, l, h), Perfect(b, g, l, h))
  <1>1. PICK L : Levels(a, f, l, h, L)
    BY LevelsExist
  <1>2. PICK M : Levels(b, g, l, h, M)
    BY LevelsExist
  <1> DEFINE places == {c \in Nat \X Nat : c[1] <= h /\ c[2] < BlockSize(h - c[1])}
             R == {<<L[c[1]][c[2]], M[c[1]][c[2]]>> : c \in places}
  <1>3. ASSUME NEW e \in 0..h, NEW i \in 0..BlockSize(h - e) - 1 PROVE <<L[e][i], M[e][i]>> \in R
    <2>1. BlockSize(h - e) \in Nat
      BY BlockSizes
    <2>2. <<e, i>> \in places
      BY <2>1
    <2> QED
      BY <2>2
  <1>4. ASSUME NEW e \in 0..h, NEW i \in 0..BlockSize(h - e) - 1
        PROVE  /\ L[e][i].covers = Tile(l, BlockSize(e), i + 1) /\ M[e][i].covers = Tile(l, BlockSize(e), i + 1)
               /\ L[e][i].covers # {}
    <2>1. /\ BlockSize(e) \in Nat \ {0} /\ i \in Nat
      BY BlockSizes
    <2>2. L[e][i].covers = Tile(l, BlockSize(e), i + 1)
      BY <1>1, LevelsCover DEF LevelsCovered
    <2>3. M[e][i].covers = Tile(l, BlockSize(e), i + 1)
      BY <1>2, LevelsCover DEF LevelsCovered
    <2>4. Tile(l, BlockSize(e), i + 1) # {}
      BY <2>1, TileIs
    <2> QED
      BY <2>2, <2>3, <2>4
  <1>5. ASSUME NEW e \in 0..h, NEW i \in 0..BlockSize(h - e) - 1
        PROVE  Twin(a, f, b, g, R, L[e][i], M[e][i])
    <2>1. CASE e = 0
      <3>1. i \in 0..BlockSize(h) - 1
        BY <2>1
      <3> DEFINE x == L[0][i]
                 y == M[0][i]
      <3>2. /\ x = [covers |-> {l + i}, digest |-> f[l + i], children |-> <<>>]
            /\ y = [covers |-> {l + i}, digest |-> g[l + i], children |-> <<>>]
        BY <1>1, <1>2, <3>1 DEF Levels
      <3> HIDE DEF x, y
      <3>3. Single(x, f) /\ Single(y, g) /\ x.covers = y.covers /\ x.covers # {}
        BY <3>2 DEF Single
      <3>4. Twin(a, f, b, g, R, x, y)
        BY <3>3 DEF Twin
      <3> QED
        BY <2>1, <3>4 DEF x, y
    <2>2. CASE e # 0
      <3> DEFINE d == e - 1
                 s == [j \in 1..Arity |-> L[d][i * Arity + j - 1]]
                 t == [j \in 1..Arity |-> M[d][i * Arity + j - 1]]
      <3>1. e \in 1..h /\ d \in 0..h /\ d \in Nat
        BY <2>2
      <3>2. L[e][i] = Inner(a, s) /\ M[e][i] = Inner(b, t)
        BY <1>1, <1>2, <3>1 DEF Levels
      <3>3. ASSUME NEW j \in 1..Arity PROVE i * Arity + j - 1 \in 0..BlockSize(h - d) - 1
        <4>1. BlockSize(h - d) = Arity * BlockSize(h - e) /\ BlockSize(h - e) \in Nat /\ Arity \in Nat
          <5>1. h - e \in Nat /\ h - d = (h - e) + 1
            BY <3>1
          <5> QED
            BY <5>1, BlockSizes, ArityAssumption
        <4>2. i \in Nat /\ i + 1 <= BlockSize(h - e)
          BY <4>1
        <4>3. (i + 1) * Arity <= BlockSize(h - e) * Arity /\ (i + 1) * Arity = i * Arity + Arity /\ i * Arity \in Nat
          BY <4>1, <4>2
        <4> QED
          BY <4>1, <4>3
      <3>4. \A j \in 1..Arity : s[j] = L[d][i * Arity + j - 1] /\ t[j] = M[d][i * Arity + j - 1]
        OBVIOUS
      <3>5. s = [j \in 1..Arity |-> s[j]] /\ t = [j \in 1..Arity |-> t[j]]
        OBVIOUS
      <3> HIDE DEF s, t, d, R
      <3>6. \A j \in 1..Arity : <<s[j], t[j]>> \in R
        BY <1>3, <3>1, <3>3, <3>4
      <3>7. \A j \in 1..Arity : s[j].covers = Tile(l, BlockSize(d), i * Arity + j) /\ t[j].covers = s[j].covers
                                /\ s[j].covers # {}
        <4> SUFFICES ASSUME NEW j \in 1..Arity
                     PROVE  s[j].covers = Tile(l, BlockSize(d), i * Arity + j) /\ t[j].covers = s[j].covers
                            /\ s[j].covers # {}
          OBVIOUS
        <4>1. (i * Arity + j - 1) + 1 = i * Arity + j
          BY BlockSizes, ArityAssumption
        <4> QED
          BY <1>4, <3>1, <3>3, <3>4, <4>1
      <3>8. ASSUME NEW j \in 1..Arity, NEW m \in 1..Arity, j # m PROVE s[j].covers \cap s[m].covers = {}
        <4> DEFINE k == BlockSize(h - d)
        <4>1. k \in Nat \ {0} /\ BlockSize(d) \in Nat \ {0} /\ Arity \in Nat /\ i \in Nat
          <5>1. h - d \in Nat /\ h - e \in Nat
            BY <3>1
          <5> QED
            BY <3>1, <5>1, BlockSizes, ArityAssumption
        <4>2. i * Arity + j - 1 \in 0..k - 1 /\ i * Arity + m - 1 \in 0..k - 1 /\ i * Arity \in Nat
          BY <3>3, <4>1
        <4> HIDE DEF k
        <4>3. i * Arity + j \in 1..k /\ i * Arity + m \in 1..k /\ i * Arity + j # i * Arity + m
          BY <3>8, <4>1, <4>2
        <4>4. Tile(l, BlockSize(d), i * Arity + j) \cap Tile(l, BlockSize(d), i * Arity + m) = {}
          BY <4>1, <4>3, Tiled
        <4> QED
          BY <3>7, <4>4
      <3>9. Inner(a, s).covers = Inner(b, t).covers /\ Inner(a, s).covers # {}
        <4>1. Inner(a, s).covers = L[e][i].covers /\ Inner(b, t).covers = M[e][i].covers
          BY <3>2
        <4> QED
          BY <1>4, <4>1
      <3>10. Arity \in Nat /\ Arity >= 2
        BY ArityAssumption
      <3>11. Parent(a, Inner(a, s), Arity)
        BY <3>5, <3>8, <3>10, InnerIsParent
      <3>12. Parent(b, Inner(b, t), Arity)
        <4>1. \A j, m \in 1..Arity : j # m => t[j].covers \cap t[m].covers = {}
          BY <3>7, <3>8
        <4> QED
          BY <3>5, <3>10, <4>1, InnerIsParent
      <3>13. Inner(a, s).children = s /\ Inner(b, t).children = t
        BY DEF Inner
      <3>14. Twin(a, f, b, g, R, Inner(a, s), Inner(b, t))
        BY <3>6, <3>9, <3>11, <3>12, <3>13 DEF Twin
      <3> QED
        BY <3>2, <3>14
    <2> QED
      BY <2>1, <2>2
  <1>6. Twins(a, f, b, g, R)
    <2> SUFFICES ASSUME NEW x, NEW y, <<x, y>> \in R PROVE Twin(a, f, b, g, R, x, y)
      BY Zenon DEF Twins
    <2>1. PICK c \in places : <<x, y>> = <<L[c[1]][c[2]], M[c[1]][c[2]]>>
      OBVIOUS
    <2>2. c[1] \in 0..h /\ c[2] \in 0..BlockSize(h - c[1]) - 1
      <3>1. c[1] \in Nat /\ c[2] \in Nat /\ c[1] <= h /\ c[2] < BlockSize(h - c[1])
        OBVIOUS
      <3>2. c[1] \in 0..h /\ BlockSize(h - c[1]) \in Nat
        <4>1. h - c[1] \in Nat
          BY <3>1
        <4> QED
          BY <3>1, <4>1, BlockSizes
      <3> QED
        BY <3>1, <3>2
    <2> HIDE DEF R
    <2> QED
      BY <1>5, <2>1, <2>2
  <1>7. h \in 0..h /\ 0 \in 0..BlockSize(h - h) - 1
    BY BlockSizes
  <1>8. <<Perfect(a, f, l, h), Perfect(b, g, l, h)>> \in R
    <2>1. Perfect(a, f, l, h) = L[h][0] /\ Perfect(b, g, l, h) = M[h][0]
      BY <1>1, <1>2 DEF Levels
    <2> HIDE DEF R
    <2> QED
      BY <1>3, <1>7, <2>1
  <1> HIDE DEF R
  <1> QED
    BY <1>6, <1>8 DEF SameShape

\* No two of the n nodes cover a position.
Apart(s, n) == \A i, j \in 1..n : i # j => s[i].covers \cap s[j].covers = {}

\* What the nodes from the m-th on cover.
Spanned(s, m, n) == UNION {s[j].covers : j \in m..n}

\* A fold of them covers what those it has taken in do.
LEMMA FoldSpans ==
  ASSUME NEW a, NEW n \in Nat, n >= 2, NEW s, s = [j \in 1..n |-> s[j]], NEW F, Folds(a, s, n, F)
  PROVE  \A r \in 0..FoldSteps(n) : F[r].covers = Spanned(s, First(n, r), n)
  <1> DEFINE S == {r \in Nat : r <= FoldSteps(n) => F[r].covers = Spanned(s, First(n, r), n)}
  <1>0. FoldSteps(n) \in Nat
    BY Stages
  <1>1. 0 \in S
    <2>1. F[0] = s[n] /\ First(n, 0) = n
      BY Stages DEF Folds
    <2>2. n..n = {n}
      OBVIOUS
    <2>3. Spanned(s, n, n) = s[n].covers
      BY <2>2 DEF Spanned
    <2> QED
      BY <2>1, <2>3
  <1>2. ASSUME NEW q \in Nat, q \in S PROVE q + 1 \in S
    <2> SUFFICES ASSUME q + 1 <= FoldSteps(n) PROVE F[q + 1].covers = Spanned(s, First(n, q + 1), n)
      OBVIOUS
    <2> DEFINE r == q + 1
               w == Width(n, r)
               x == First(n, r)
               z == First(n, q)
               c == F[r].children
    <2>1. r \in 1..FoldSteps(n) /\ r \in 0..FoldSteps(n) /\ q \in 0..FoldSteps(n) /\ r - 1 = q
          /\ q <= FoldSteps(n)
      BY <1>0
    <2>2. x \in 1..n /\ z \in 1..n /\ x < z /\ w = z - x + 1
      <3>1. First(n, r) \in 1..n /\ First(n, r - 1) \in 1..n /\ First(n, r) < First(n, r - 1)
        BY <2>1, Stages
      <3> QED
        BY <2>1, <3>1 DEF Width
    <2>3. F[q].covers = Spanned(s, z, n)
      BY <1>2, <2>1
    <2>4. FoldNode(a, s, n, F, r)
      BY <2>1, FoldNodes
    <2>5. c = [j \in 1..w |-> IF j < w THEN s[x + j - 1] ELSE F[q]]
          /\ F[r].covers = UNION {c[j].covers : j \in 1..w}
      BY <2>1, <2>4 DEF FoldNode
    <2> HIDE DEF c, w, x, z, r
    <2>6. \A j \in 1..w : c[j] = IF j < w THEN s[x + j - 1] ELSE F[q]
      BY <2>5
    <2>7. ASSUME NEW p, \E j \in 1..w : p \in c[j].covers PROVE \E m \in x..n : p \in s[m].covers
      <3>1. PICK j \in 1..w : p \in c[j].covers
        BY <2>7
      <3>2. CASE j < w
        <4>1. x + j - 1 \in x..n
          BY <2>2, <3>2
        <4> QED
          BY <2>6, <3>1, <3>2, <4>1
      <3>3. CASE ~(j < w)
        <4>3. c[j] = F[q]
          BY <2>6, <3>3
        <4>4. p \in Spanned(s, z, n)
          BY <2>3, <3>1, <4>3
        <4>1. \E m \in z..n : p \in s[m].covers
          BY <4>4 DEF Spanned
        <4>2. z..n \subseteq x..n
          BY <2>2
        <4> QED
          BY <4>1, <4>2
      <3> QED
        BY <3>2, <3>3
    <2>8. ASSUME NEW p, NEW m \in x..n, p \in s[m].covers PROVE \E j \in 1..w : p \in c[j].covers
      <3>1. CASE m < z
        <4>1. m - x + 1 \in 1..w /\ m - x + 1 < w /\ x + (m - x + 1) - 1 = m
          BY <2>2, <3>1
        <4>2. c[m - x + 1] = s[m]
          BY <2>6, <4>1
        <4> QED
          BY <2>8, <4>1, <4>2
      <3>2. CASE ~(m < z)
        <4>1. m \in z..n
          BY <2>2, <3>2
        <4>2. w \in 1..w /\ ~(w < w)
          BY <2>2
        <4>3. c[w] = F[q]
          BY <2>6, <4>2
        <4> QED
          BY <2>3, <2>8, <4>1, <4>2, <4>3 DEF Spanned
      <3> QED
        BY <3>1, <3>2
    <2>9. F[r].covers = Spanned(s, x, n)
      BY ZenonT(60), <2>5, <2>7, <2>8 DEF Spanned
    <2> QED
      BY <2>9 DEF r, x
  <1> HIDE DEF S
  <1>3. \A r \in Nat : r \in S
    BY <1>1, <1>2, SetInduction
  <1> QED
    BY <1>0, <1>3 DEF S

\* What the r-th merge takes in.
TakesIn(F, s, n, r) ==
  \A j \in 1..Width(n, r) :
    /\ F[r].children[j] = IF j < Width(n, r) THEN s[First(n, r) + j - 1] ELSE F[r - 1]
    /\ j < Width(n, r) => First(n, r) + j - 1 \in 1..n

\* Every merge of it is a parent.
LEMMA FoldParents ==
  ASSUME NEW a, NEW n \in Nat, n >= 2, NEW s, s = [j \in 1..n |-> s[j]], Apart(s, n),
         NEW F, Folds(a, s, n, F), NEW r \in 1..FoldSteps(n)
  PROVE  Parent(a, F[r], Width(n, r)) /\ TakesIn(F, s, n, r)
  <1> DEFINE w == Width(n, r)
             x == First(n, r)
             z == First(n, r - 1)
             c == F[r].children
  <1>1. FoldNode(a, s, n, F, r)
    BY FoldNodes
  <1>2. /\ w \in Nat /\ w >= 2
        /\ c = [j \in 1..w |-> IF j < w THEN s[x + j - 1] ELSE F[r - 1]]
        /\ F[r].digest = NaryMr(a, [j \in 1..w |-> c[j].digest])
        /\ F[r].covers = UNION {c[j].covers : j \in 1..w}
    BY <1>1 DEF FoldNode
  <1>3. x \in 1..n /\ z \in 1..n /\ x < z /\ w = z - x + 1
    <2>1. r \in 0..FoldSteps(n) /\ r - 1 \in 0..FoldSteps(n)
      BY Stages
    <2>2. First(n, r) \in 1..n /\ First(n, r - 1) \in 1..n /\ First(n, r) < First(n, r - 1)
      BY <2>1, Stages
    <2> QED
      BY <2>2 DEF Width
  <1>4. F[r - 1].covers = Spanned(s, z, n)
    <2>1. r - 1 \in 0..FoldSteps(n)
      BY Stages
    <2> QED
      BY <2>1, FoldSpans
  <1> HIDE DEF c, w, x, z
  <1>5. \A j \in 1..w : c[j] = IF j < w THEN s[x + j - 1] ELSE F[r - 1]
    BY <1>2
  <1>6. c = [j \in 1..w |-> c[j]]
    BY <1>2
  <1>7. \A j \in 1..w : j < w => x + j - 1 \in 1..n /\ x + j - 1 < z
    BY <1>3
  <1>8. ASSUME NEW i \in 1..w, NEW j \in 1..w, i < j PROVE c[i].covers \cap c[j].covers = {}
    <2>1. i < w /\ x + i - 1 \in 1..n /\ x + i - 1 < z
      BY <1>3, <1>7, <1>8
    <2>2. CASE j < w
      <3>1. x + j - 1 \in 1..n /\ x + i - 1 # x + j - 1
        BY <1>3, <1>7, <1>8, <2>2
      <3> QED
        BY <1>5, <2>1, <2>2, <3>1 DEF Apart
    <2>3. CASE ~(j < w)
      <3>1. \A m \in z..n : m \in 1..n /\ x + i - 1 # m
        BY <1>3, <2>1
      <3>2. \A m \in z..n : s[x + i - 1].covers \cap s[m].covers = {}
        BY <2>1, <3>1 DEF Apart
      <3>3. s[x + i - 1].covers \cap Spanned(s, z, n) = {}
        BY <3>2 DEF Spanned
      <3> QED
        BY <1>4, <1>5, <2>1, <2>3, <3>3
    <2> QED
      BY <2>2, <2>3
  <1>9. \A i, j \in 1..w : i # j => c[i].covers \cap c[j].covers = {}
    <2> SUFFICES ASSUME NEW i \in 1..w, NEW j \in 1..w, i # j PROVE c[i].covers \cap c[j].covers = {}
      OBVIOUS
    <2>1. CASE i < j
      BY <1>8, <2>1
    <2>2. CASE j < i
      <3>1. c[j].covers \cap c[i].covers = {}
        BY <1>8, <2>2
      <3> QED
        BY <3>1
    <2> QED
      BY <2>1, <2>2
  <1>10. Parent(a, F[r], w)
    BY <1>2, <1>6, <1>9 DEF Parent, c
  <1> QED
    BY <1>5, <1>7, <1>10 DEF c, w, x, TakesIn

\* Folds of as many pairs.
LEMMA FoldTwins ==
  ASSUME NEW a, NEW f, NEW b, NEW g, NEW R, Twins(a, f, b, g, R), NEW n \in Nat \ {0},
         NEW s, s = [j \in 1..n |-> s[j]], NEW t, t = [j \in 1..n |-> t[j]],
         \A j \in 1..n : <<s[j], t[j]>> \in R, Apart(s, n)
  PROVE  /\ SameShape(a, f, b, g, FoldFrontier(a, s), FoldFrontier(b, t))
         /\ FoldFrontier(a, s).covers = Spanned(s, 1, n)
  <1>1. Len(s) = n /\ Len(t) = n
    BY FcnIsSeq
  <1>2. \A j \in 1..n : s[j].covers = t[j].covers /\ s[j].covers # {}
    BY DEF Twins, Twin
  <1>3. Apart(t, n)
    BY <1>2 DEF Apart
  <1>4. CASE n = 1
    <2>1. FoldFrontier(a, s) = s[1] /\ FoldFrontier(b, t) = t[1]
      BY <1>1, <1>4 DEF FoldFrontier
    <2>2. Spanned(s, 1, n) = s[1].covers
      <3>1. 1..n = {1}
        BY <1>4
      <3> QED
        BY <3>1 DEF Spanned
    <2>3. 1 \in 1..n
      OBVIOUS
    <2> QED
      BY <2>1, <2>2, <2>3 DEF SameShape
  <1>5. CASE n # 1
    <2>1. n \in Nat /\ n >= 2
      BY <1>5
    <2>2. PICK F : Folds(a, s, n, F)
      BY <1>1, <2>1, FoldIs
    <2>3. PICK G : Folds(b, t, n, G)
      BY <1>1, <2>1, FoldIs
    <2> DEFINE m == FoldSteps(n)
               Q == R \cup {<<F[r], G[r]>> : r \in 1..m}
    <2>4. m \in Nat /\ m \in 1..n /\ First(n, m) = 1
      BY <2>1, Stages
    <2> HIDE DEF m
    <2>5. \A r \in 0..m : F[r].covers = Spanned(s, First(n, r), n)
      BY <2>1, <2>2, FoldSpans DEF m
    <2>6. \A r \in 0..m : G[r].covers = Spanned(t, First(n, r), n)
      BY <2>1, <2>3, FoldSpans DEF m
    <2>7. \A r \in 0..m : <<F[r], G[r]>> \in Q
      <3>1. F[0] = s[n] /\ G[0] = t[n]
        BY <2>2, <2>3 DEF Folds
      <3>2. <<s[n], t[n]>> \in R
        OBVIOUS
      <3>3. \A r \in 0..m : r = 0 \/ r \in 1..m
        BY <2>4
      <3> QED
        BY <3>1, <3>2, <3>3
    <2>8. ASSUME NEW r \in 1..m PROVE Twin(a, f, b, g, Q, F[r], G[r])
      <3> DEFINE w == Width(n, r)
      <3>7. r \in 1..FoldSteps(n)
        BY DEF m
      <3>8. Parent(a, F[r], Width(n, r)) /\ TakesIn(F, s, n, r)
        BY <2>1, <2>2, <3>7, FoldParents
      <3>9. Parent(b, G[r], Width(n, r)) /\ TakesIn(G, t, n, r)
        BY <1>3, <2>1, <2>3, <3>7, FoldParents
      <3>1. /\ Parent(a, F[r], w)
            /\ \A j \in 1..w : F[r].children[j] = IF j < w THEN s[First(n, r) + j - 1] ELSE F[r - 1]
            /\ \A j \in 1..w : j < w => First(n, r) + j - 1 \in 1..n
        BY <3>8 DEF TakesIn
      <3>2. /\ Parent(b, G[r], w)
            /\ \A j \in 1..w : G[r].children[j] = IF j < w THEN t[First(n, r) + j - 1] ELSE G[r - 1]
        BY <3>9 DEF TakesIn
      <3>3. r \in 0..m /\ r - 1 \in 0..m /\ First(n, r) \in 1..n
        <4>1. r \in 0..m /\ r - 1 \in 0..m
          BY <2>4
        <4> QED
          BY <2>1, <4>1, Stages DEF m
      <3> HIDE DEF Q, w
      <3>4. F[r].covers = G[r].covers
        <4>1. \A j \in First(n, r)..n : s[j].covers = t[j].covers
          BY <1>2, <3>3
        <4>2. Spanned(s, First(n, r), n) = Spanned(t, First(n, r), n)
          BY <4>1 DEF Spanned
        <4> QED
          BY <2>5, <2>6, <3>3, <4>2
      <3>5. F[r].covers # {}
        <4>1. n \in First(n, r)..n /\ n \in 1..n
          BY <3>3
        <4>2. Spanned(s, First(n, r), n) # {}
          BY <1>2, <4>1 DEF Spanned
        <4> QED
          BY <2>5, <3>3, <4>2
      <3>6. ASSUME NEW j \in 1..w PROVE <<F[r].children[j], G[r].children[j]>> \in Q
        <4>1. CASE j < w
          <5>1. R \subseteq Q
            BY DEF Q
          <5> QED
            BY <3>1, <3>2, <4>1, <5>1
        <4>2. CASE ~(j < w)
          BY <2>7, <3>1, <3>2, <3>3, <4>2
        <4> QED
          BY <4>1, <4>2
      <3> QED
        BY <3>1, <3>2, <3>4, <3>5, <3>6 DEF Twin
    <2>9. Twins(a, f, b, g, Q)
      <3> SUFFICES ASSUME NEW x, NEW y, <<x, y>> \in Q PROVE Twin(a, f, b, g, Q, x, y)
        BY Zenon DEF Twins
      <3>1. CASE <<x, y>> \in R
        <4>1. Twin(a, f, b, g, R, x, y)
          BY <3>1 DEF Twins
        <4>2. R \subseteq Q
          OBVIOUS
        <4> HIDE DEF Q
        <4> QED
          BY <4>1, <4>2, TwinMore
      <3>2. CASE \E r \in 1..m : <<x, y>> = <<F[r], G[r]>>
        <4>1. PICK r \in 1..m : <<x, y>> = <<F[r], G[r]>>
          BY <3>2
        <4>2. x = F[r] /\ y = G[r]
          BY <4>1
        <4> HIDE DEF Q
        <4> QED
          BY <2>8, <4>2
      <3> QED
        BY <3>1, <3>2
    <2>10. FoldFrontier(a, s) = F[m] /\ FoldFrontier(b, t) = G[m]
      BY <2>2, <2>3 DEF Folds, m
    <2>11. m \in 0..m
      BY <2>4
    <2> HIDE DEF Q
    <2>12. <<FoldFrontier(a, s), FoldFrontier(b, t)>> \in Q
      BY <2>7, <2>10, <2>11
    <2>13. FoldFrontier(a, s).covers = Spanned(s, 1, n)
      BY <2>4, <2>5, <2>10, <2>11
    <2> QED
      BY <2>9, <2>12, <2>13 DEF SameShape
  <1> QED
    BY <1>4, <1>5

\* The perfect subtrees at the peaks, by what they cover, are apart.
LEMMA PeaksApart ==
  ASSUME NEW size \in Nat, NEW at, Covers(at, 0, size), NEW s,
         \A j \in 1..Len(at) : s[j].covers = at[j][1]..End(at[j]) - 1
  PROVE  Apart(s, Len(at))
  <1>1. Len(at) \in Nat /\ at \in Seq(Coordinates) /\ DOMAIN at = 1..Len(at)
    BY DEF Covers
  <1>2. ASSUME NEW j \in 1..Len(at) PROVE at[j][1] \in Nat /\ End(at[j]) \in Nat
    <2>1. at[j] \in Coordinates
      BY <1>1
    <2> QED
      BY <2>1, CoordinateIsPair DEF End
  <1>3. ASSUME NEW i \in 1..Len(at), NEW j \in 1..Len(at), i < j PROVE s[i].covers \cap s[j].covers = {}
    <2>1. i \in 1..j - 1 /\ j \in 1..Len(at)
      BY <1>1, <1>3
    <2>2. End(at[i]) <= at[j][1]
      BY <2>1, PeaksOrdered
    <2>3. (at[i][1]..End(at[i]) - 1) \cap (at[j][1]..End(at[j]) - 1) = {}
      BY <1>2, <2>2
    <2> QED
      BY <2>3
  <1> SUFFICES ASSUME NEW i \in 1..Len(at), NEW j \in 1..Len(at), i # j PROVE s[i].covers \cap s[j].covers = {}
    BY DEF Apart
  <1>4. CASE i < j
    BY <1>3, <1>4
  <1>5. CASE j < i
    <2>1. s[j].covers \cap s[i].covers = {}
      BY <1>3, <1>5
    <2> QED
      BY <2>1
  <1> QED
    BY <1>1, <1>4, <1>5

\* Two trees over the same positions.
Grown(a, f, b, g, size, T, U) == SameShape(a, f, b, g, T, U) /\ T.covers = 0..size - 1

\* Whatever their leaves are.
LEMMA BuildTwins ==
  ASSUME NEW a, NEW f, NEW b, NEW g, NEW size \in Nat \ {0}
  PROVE  Grown(a, f, b, g, size, Build(a, f, size), Build(b, g, size))
  <1> DEFINE at == FrontierForSize(size)
             n == Len(at)
             s == [j \in DOMAIN at |-> Perfect(a, f, at[j][1], at[j][2])]
             t == [j \in DOMAIN at |-> Perfect(b, g, at[j][1], at[j][2])]
             Shows(j, P) == Twins(a, f, b, g, P) /\ <<s[j], t[j]>> \in P
             P(j) == CHOOSE S : Shows(j, S)
             R == UNION {P(j) : j \in 1..n}
  <1>1. Build(a, f, size) = FoldFrontier(a, s) /\ Build(b, g, size) = FoldFrontier(b, t)
    BY DEF Build
  <1>2. Covers(at, 0, size)
    BY FrontierCovers
  <1>3. n \in Nat /\ at \in Seq(Coordinates) /\ DOMAIN at = 1..n
    BY <1>2 DEF Covers
  <1>4. s = [j \in 1..n |-> s[j]] /\ t = [j \in 1..n |-> t[j]]
    BY <1>3
  <1>5. n # 0
    <2>1. \E i \in 1..Len(at) : at[i][1] <= 0 /\ 0 < End(at[i])
      BY <1>2, PositionUnderPeak
    <2> QED
      BY <1>3, <2>1
  <1>6. ASSUME NEW j \in 1..n PROVE /\ at[j] \in Coordinates /\ at[j][1] \in Nat /\ at[j][2] \in Nat
                                    /\ End(at[j]) = at[j][1] + BlockSize(at[j][2]) /\ End(at[j]) \in Nat
                                    /\ at[j][1] < End(at[j])
    <2>1. at[j] \in Coordinates
      BY <1>3
    <2> QED
      BY <2>1, CoordinateIsPair DEF End
  <1>7. ASSUME NEW j \in 1..n PROVE Shows(j, P(j)) /\ s[j].covers = at[j][1]..End(at[j]) - 1
    <2>1. s[j] = Perfect(a, f, at[j][1], at[j][2]) /\ t[j] = Perfect(b, g, at[j][1], at[j][2])
      BY <1>3
    <2> HIDE DEF s, t
    <2>2. at[j][1] \in Nat /\ at[j][2] \in Nat /\ End(at[j]) = at[j][1] + BlockSize(at[j][2])
      BY <1>6
    <2>3. SameShape(a, f, b, g, s[j], t[j])
      BY <2>1, <2>2, PerfectTwins
    <2>4. \E S : Shows(j, S)
      BY <2>3 DEF SameShape
    <2>6. Perfect(a, f, at[j][1], at[j][2]).covers = at[j][1]..at[j][1] + BlockSize(at[j][2]) - 1
      BY <2>2, PerfectCovers
    <2>7. at[j][1] + BlockSize(at[j][2]) - 1 = End(at[j]) - 1
      <3>1. End(at[j]) \in Nat /\ BlockSize(at[j][2]) \in Nat
        BY <1>6, <2>2, BlockSizes
      <3> QED
        BY ONLY <2>2, <3>1
    <2>8. s[j].covers = Perfect(a, f, at[j][1], at[j][2]).covers
      BY ONLY <2>1
    <2>5. s[j].covers = at[j][1]..End(at[j]) - 1
      BY ONLY <2>6, <2>7, <2>8
    <2> HIDE DEF Shows
    <2> QED
      BY <2>4, <2>5
  <1> HIDE DEF s, t, P, n
  <1>8. Twins(a, f, b, g, R)
    <2> SUFFICES ASSUME NEW x, NEW y, <<x, y>> \in R PROVE Twin(a, f, b, g, R, x, y)
      BY Zenon DEF Twins
    <2>1. PICK j \in 1..n : <<x, y>> \in P(j)
      OBVIOUS
    <2>2. Twin(a, f, b, g, P(j), x, y)
      BY <1>7, <2>1 DEF Twins
    <2>3. P(j) \subseteq R
      OBVIOUS
    <2> HIDE DEF R
    <2> QED
      BY <2>2, <2>3, TwinMore
  <1>9. \A j \in 1..n : <<s[j], t[j]>> \in R /\ s[j].covers = at[j][1]..End(at[j]) - 1
    BY <1>7
  <1> HIDE DEF R
  <1>10. \A j \in 1..Len(at) : s[j].covers = at[j][1]..End(at[j]) - 1
    BY <1>9 DEF n
  <1>11. Apart(s, n)
    <2>1. size \in Nat
      OBVIOUS
    <2>2. Apart(s, Len(at))
      BY <1>2, <1>10, <2>1, PeaksApart
    <2> QED
      BY <2>2 DEF n
  <1>12. n \in Nat \ {0}
    BY <1>3, <1>5
  <1> HIDE DEF at
  <1>15. \A j \in 1..n : <<s[j], t[j]>> \in R
    BY <1>9
  <1>13. /\ SameShape(a, f, b, g, FoldFrontier(a, s), FoldFrontier(b, t))
         /\ FoldFrontier(a, s).covers = Spanned(s, 1, n)
    BY ONLY SMTT(30), <1>4, <1>8, <1>15, <1>11, <1>12, FoldTwins
  <1>14. Spanned(s, 1, n) = 0..size - 1
    <2>1. ASSUME NEW j \in 1..n, NEW x \in s[j].covers PROVE x \in 0..size - 1
      <3>1. x \in at[j][1]..End(at[j]) - 1
        BY <1>9
      <3>2. End(at[j]) <= size
        <4>1. Peak(at[j][1], at[j][2], size)
          BY <1>2 DEF Covers, n
        <4> QED
          BY <1>6, <4>1 DEF Peak
      <3> QED
        BY <1>6, <3>1, <3>2
    <2>2. ASSUME NEW x \in 0..size - 1 PROVE \E j \in 1..n : x \in s[j].covers
      <3>1. x \in Nat /\ x < size
        OBVIOUS
      <3>2. PICK j \in 1..Len(at) : at[j][1] <= x /\ x < End(at[j])
        BY <1>2, <3>1, PositionUnderPeak
      <3>3. j \in 1..n
        BY DEF n
      <3>4. x \in at[j][1]..End(at[j]) - 1
        BY <1>6, <3>1, <3>2, <3>3
      <3> QED
        BY <1>9, <3>3, <3>4
    <2> QED
      BY <2>1, <2>2 DEF Spanned
  <1> QED
    BY <1>1, <1>13, <1>14 DEF Grown

-----------------------------------------------------------------------------
(* The nodes of a tree *)

\* below[d] are those of its d-th level.
NodesBelow(T, size, below) ==
  /\ below[0] = {T}
  /\ \A d \in 1..size : below[d] = UNION {ToSet(n.children) : n \in below[d - 1]}
  /\ NodesOf(T, size) = UNION {below[d] : d \in 0..size}

\* There are such levels.
LEMMA NodesAreBelow ==
  ASSUME NEW T, NEW size \in Nat
  PROVE  \E below : NodesBelow(T, size, below)
  <1> DEFINE next(S) == UNION {ToSet(n.children) : n \in S}
             Starts(f, k) == \A d \in 0..k : f[d] = IF d = 0 THEN {T} ELSE next(f[d - 1])
             body(f) == [d \in 0..size |-> IF d = 0 THEN {T} ELSE next(f[d - 1])]
             below == CHOOSE f : f = body(f)
  <1>1. NodesOf(T, size) = UNION {below[d] : d \in 0..size}
    BY Zenon DEF NodesOf
  <1> HIDE DEF next
  <1>2. \A k \in Nat : \E f : Starts(f, k)
    <2> DEFINE S == {k \in Nat : \E f : Starts(f, k)}
    <2>1. 0 \in S
      <3>1. Starts([d \in {0} |-> {T}], 0)
        OBVIOUS
      <3> QED
        BY <3>1
    <2>2. ASSUME NEW k \in Nat, k \in S PROVE k + 1 \in S
      <3>1. PICK f : Starts(f, k)
        BY <2>2
      <3> DEFINE w == [d \in 0..k + 1 |-> IF d <= k THEN f[d] ELSE next(f[k])]
      <3>2. Starts(w, k + 1)
        <4>1. \A d \in 0..k + 1 : w[d] = IF d <= k THEN f[d] ELSE next(f[k])
          OBVIOUS
        <4> HIDE DEF w
        <4> SUFFICES ASSUME NEW d \in 0..k + 1 PROVE w[d] = IF d = 0 THEN {T} ELSE next(w[d - 1])
          OBVIOUS
        <4>2. CASE d <= k
          BY <3>1, <4>1, <4>2
        <4>3. CASE d = k + 1
          BY <4>1, <4>3
        <4> QED
          BY <4>2, <4>3
      <3>3. k + 1 \in Nat
        OBVIOUS
      <3> HIDE DEF Starts, w
      <3> QED
        BY <3>2, <3>3
    <2> HIDE DEF S
    <2>3. \A k \in Nat : k \in S
      BY <2>1, <2>2, SetInduction
    <2> QED
      BY <2>3 DEF S
  <1>3. below = body(below)
    <2>1. PICK f : Starts(f, size)
      BY <1>2
    <2> DEFINE whole == [d \in 0..size |-> f[d]]
    <2>2. \A d \in 0..size : whole[d] = f[d] /\ (d # 0 => d - 1 \in 0..size)
      OBVIOUS
    <2>3. whole = [d \in 0..size |-> whole[d]]
      OBVIOUS
    <2> HIDE DEF whole
    <2>4. \A d \in 0..size : whole[d] = IF d = 0 THEN {T} ELSE next(whole[d - 1])
      BY <2>1, <2>2
    <2>5. whole = body(whole)
      BY <2>3, <2>4
    <2> HIDE DEF body
    <2> QED
      BY <2>5
  <1> HIDE DEF below
  <1>4. \A d \in 0..size : below[d] = IF d = 0 THEN {T} ELSE next(below[d - 1])
    BY <1>3
  <1>5. below[0] = {T} /\ \A d \in 1..size : below[d] = next(below[d - 1])
    BY <1>4
  <1>6. NodesBelow(T, size, below)
    BY <1>1, <1>5 DEF NodesBelow, next
  <1> QED
    BY <1>6

\* The positions a node covers.
Positions(n, size) == n.covers \subseteq 0..size - 1 /\ n.covers # {}

\* They are finitely many.
LEMMA PositionsFinite ==
  ASSUME NEW size \in Nat, NEW c, c \subseteq 0..size - 1
  PROVE  /\ IsFiniteSet(c) /\ Cardinality(c) \in Nat /\ Cardinality(c) <= size
         /\ c # {} => Cardinality(c) > 0
         /\ \A e : e \subseteq c /\ e # c => Cardinality(e) < Cardinality(c)
  <1>1. IsFiniteSet(0..size - 1) /\ Cardinality(0..size - 1) = size
    <2>1. 0 \in Int /\ size - 1 \in Int
      OBVIOUS
    <2>2. IsFiniteSet(0..size - 1) /\ Cardinality(0..size - 1) = IF 0 > size - 1 THEN 0 ELSE (size - 1) - 0 + 1
      BY <2>1, FS_Interval
    <2> QED
      BY <2>2
  <1>2. IsFiniteSet(c) /\ Cardinality(c) <= size
    BY <1>1, FS_Subset
  <1>3. Cardinality(c) \in Nat
    BY <1>2, FS_CardinalityType
  <1>4. c # {} => Cardinality(c) > 0
    <2>1. c # {} => Cardinality(c) # 0
      BY <1>2, FS_EmptySet
    <2>2. Cardinality(c) # 0 => Cardinality(c) > 0
      BY <1>3
    <2> QED
      BY <2>1, <2>2, Zenon
  <1>5. ASSUME NEW e, e \subseteq c, e # c PROVE Cardinality(e) < Cardinality(c)
    <2>1. Cardinality(e) <= Cardinality(c) /\ (Cardinality(e) = Cardinality(c) => c = e) /\ IsFiniteSet(e)
      BY <1>2, <1>5, FS_Subset
    <2>2. Cardinality(e) \in Nat
      BY <2>1, FS_CardinalityType
    <2> QED
      BY <1>3, <1>5, <2>1, <2>2
  <1> QED
    BY <1>2, <1>3, <1>4, <1>5

\* The j-th child of a parent covers a part of what the parent does, and not all of it.
LEMMA ChildCovers ==
  ASSUME NEW a, NEW n, NEW k, Parent(a, n, k), \A j \in 1..k : n.children[j].covers # {}, NEW j \in 1..k
  PROVE  n.children[j].covers \subseteq n.covers /\ n.children[j].covers # n.covers
  <1>1. k \in Nat /\ k >= 2 /\ n.covers = UNION {n.children[i].covers : i \in 1..k}
    BY DEF Parent
  <1>2. n.children[j].covers \subseteq n.covers
    BY <1>1
  <1>3. PICK i \in 1..k : i # j
    <2>1. 1 \in 1..k /\ 2 \in 1..k
      BY <1>1
    <2> QED
      BY <2>1
  <1>4. n.children[i].covers \cap n.children[j].covers = {}
    BY <1>3 DEF Parent
  <1>5. PICK x : x \in n.children[i].covers
    OBVIOUS
  <1>6. x \in n.covers
    BY <1>1, <1>5
  <1> QED
    BY <1>2, <1>4, <1>5, <1>6

\* The children of a parent.
LEMMA ChildrenAre ==
  ASSUME NEW a, NEW n, NEW k, Parent(a, n, k)
  PROVE  DOMAIN n.children = 1..k /\ ToSet(n.children) = {n.children[j] : j \in 1..k}
  <1>1. n.children = [j \in 1..k |-> n.children[j]]
    BY DEF Parent
  <1>2. DOMAIN n.children = 1..k
    BY <1>1
  <1> QED
    BY <1>2 DEF ToSet

\* Level d of a tree has nodes with at least d positions less than all, and a twin for each in
\* level d of a tree of the same shape.
LevelPaired(size, R, L, M, d) ==
  \A x \in L[d] : /\ \E y \in M[d] : <<x, y>> \in R
                  /\ Positions(x, size) /\ Cardinality(x.covers) + d <= size

\* Level by level.
LEMMA LevelsPaired ==
  ASSUME NEW a, NEW f, NEW b, NEW g, NEW size \in Nat \ {0}, NEW R, Twins(a, f, b, g, R),
         NEW T, NEW U, <<T, U>> \in R, T.covers = 0..size - 1,
         NEW L, NodesBelow(T, size, L), NEW M, NodesBelow(U, size, M)
  PROVE  \A d \in 0..size : LevelPaired(size, R, L, M, d)
  <1> DEFINE S == {d \in Nat : d <= size => LevelPaired(size, R, L, M, d)}
  <1>1. 0 \in S
    <2>1. L[0] = {T} /\ M[0] = {U}
      BY DEF NodesBelow
    <2>2. Positions(T, size)
      BY DEF Twins, Twin, Positions
    <2>3. Cardinality(T.covers) + 0 <= size
      <3>1. T.covers \subseteq 0..size - 1
        BY <2>2 DEF Positions
      <3>2. Cardinality(T.covers) \in Nat /\ Cardinality(T.covers) <= size
        BY <3>1, PositionsFinite
      <3> QED
        BY <3>2
    <2>4. LevelPaired(size, R, L, M, 0)
      BY <2>1, <2>2, <2>3 DEF LevelPaired
    <2> QED
      BY <2>4
  <1>2. ASSUME NEW d \in Nat, d \in S PROVE d + 1 \in S
    <2> SUFFICES ASSUME d + 1 <= size PROVE LevelPaired(size, R, L, M, d + 1)
      OBVIOUS
    <2> SUFFICES ASSUME NEW x \in L[d + 1]
                 PROVE  /\ \E y \in M[d + 1] : <<x, y>> \in R
                        /\ Positions(x, size) /\ Cardinality(x.covers) + (d + 1) <= size
      BY Zenon DEF LevelPaired
    <2>1. d + 1 \in 1..size /\ (d + 1) - 1 = d /\ LevelPaired(size, R, L, M, d)
      BY <1>2
    <2>2. L[d + 1] = UNION {ToSet(n.children) : n \in L[d]} /\ M[d + 1] = UNION {ToSet(n.children) : n \in M[d]}
      BY <2>1 DEF NodesBelow
    <2>3. PICK p \in L[d] : x \in ToSet(p.children)
      BY <2>2
    <2>4. PICK q \in M[d] : <<p, q>> \in R
      BY <2>1 DEF LevelPaired
    <2>5. Positions(p, size) /\ Cardinality(p.covers) + d <= size
      BY <2>1 DEF LevelPaired
    <2>6. Twin(a, f, b, g, R, p, q)
      BY <2>4 DEF Twins
    <2>7. ~Single(p, f)
      <3> SUFFICES ASSUME p.children = <<>> PROVE FALSE
        BY DEF Single
      <3>1. ToSet(<<>>) = {}
        BY DEF ToSet
      <3> QED
        BY <2>3, <3>1
    <2>8. PICK k : /\ Parent(a, p, k) /\ Parent(b, q, k)
                   /\ \A j \in 1..k : <<p.children[j], q.children[j]>> \in R
      BY <2>6, <2>7 DEF Twin
    <2>15. /\ ToSet(p.children) = {p.children[j] : j \in 1..k}
           /\ ToSet(q.children) = {q.children[j] : j \in 1..k}
      BY <2>8, ChildrenAre, Zenon
    <2>9. PICK j \in 1..k : x = p.children[j]
      BY <2>3, <2>15
    <2>10. q.children[j] \in M[d + 1]
      <3>1. q.children[j] \in ToSet(q.children)
        BY <2>15
      <3> QED
        BY <2>2, <3>1
    <2>11. \A i \in 1..k : p.children[i].covers # {}
      BY <2>8 DEF Twins, Twin
    <2>12. x.covers \subseteq p.covers /\ x.covers # p.covers /\ x.covers # {}
      BY <2>8, <2>9, <2>11, ChildCovers
    <2>13. Positions(x, size)
      BY <2>5, <2>12 DEF Positions
    <2>14. Cardinality(x.covers) < Cardinality(p.covers) /\ Cardinality(x.covers) \in Nat
           /\ Cardinality(p.covers) \in Nat
      BY <2>5, <2>12, <2>13, PositionsFinite DEF Positions
    <2> QED
      BY <2>5, <2>8, <2>9, <2>10, <2>13, <2>14
  <1> HIDE DEF S
  <1>3. \A d \in Nat : d \in S
    BY <1>1, <1>2, SetInduction
  <1> QED
    BY <1>3 DEF S

\* A node over one position, or over nodes of N.
Node(a, f, N, size, n) ==
  /\ Positions(n, size)
  /\ Single(n, f) \/ \E k : Parent(a, n, k) /\ \A j \in 1..k : n.children[j] \in N

\* The levels of T are of nodes whose children are in the next one.
Leveled(a, f, size, T, L) ==
  /\ NodesBelow(T, size, L) /\ T.covers = 0..size - 1 /\ L[size] = {}
  /\ \A d \in 0..size - 1 : \A x \in L[d] : Node(a, f, L[d + 1], size, x)

\* Those of a tree with a twin are.
LEMMA LevelsAreNodes ==
  ASSUME NEW a, NEW f, NEW b, NEW g, NEW size \in Nat \ {0}, NEW R, Twins(a, f, b, g, R),
         NEW T, NEW U, <<T, U>> \in R, T.covers = 0..size - 1,
         NEW L, NodesBelow(T, size, L), NEW M, NodesBelow(U, size, M)
  PROVE  Leveled(a, f, size, T, L)
  <1>1. \A d \in 0..size : LevelPaired(size, R, L, M, d)
    BY LevelsPaired
  <1>2. ASSUME NEW d \in 0..size - 1, NEW x \in L[d] PROVE Node(a, f, L[d + 1], size, x)
    <2>1. d \in 0..size /\ d + 1 \in 1..size /\ (d + 1) - 1 = d
      OBVIOUS
    <2>2. PICK y \in M[d] : <<x, y>> \in R
      BY <1>1, <2>1 DEF LevelPaired
    <2>3. Positions(x, size)
      BY <1>1, <2>1 DEF LevelPaired
    <2>4. Twin(a, f, b, g, R, x, y)
      BY <2>2 DEF Twins
    <2>5. CASE Single(x, f)
      BY <2>3, <2>5 DEF Node
    <2>6. CASE ~Single(x, f)
      <3>1. PICK k : Parent(a, x, k)
        BY <2>4, <2>6 DEF Twin
      <3>2. L[d + 1] = UNION {ToSet(n.children) : n \in L[d]}
        BY <2>1 DEF NodesBelow
      <3>3. ToSet(x.children) = {x.children[j] : j \in 1..k}
        BY <3>1, ChildrenAre, Zenon
      <3>4. \A j \in 1..k : x.children[j] \in L[d + 1]
        BY <3>2, <3>3
      <3> QED
        BY <2>3, <3>1, <3>4 DEF Node
    <2> QED
      BY <2>5, <2>6
  <1>3. L[size] = {}
    <2> SUFFICES ASSUME NEW x \in L[size] PROVE FALSE
      OBVIOUS
    <2>1. size \in 0..size
      OBVIOUS
    <2>2. Positions(x, size) /\ Cardinality(x.covers) + size <= size
      BY <1>1, <2>1 DEF LevelPaired
    <2>3. Cardinality(x.covers) \in Nat /\ Cardinality(x.covers) > 0
      BY <2>2, PositionsFinite DEF Positions
    <2> QED
      BY <2>2, <2>3
  <1> QED
    BY <1>2, <1>3 DEF Leveled

\* y is one of the children of p, which covers more.
ChildOf(a, size, p, y) ==
  /\ \E k : \E j \in 1..k : Parent(a, p, k) /\ y = p.children[j]
  /\ y.covers \subseteq p.covers /\ y.covers # p.covers
  /\ Positions(y, size) /\ Positions(p, size)

\* A node of a level below the first is a child of one of the level above.
LEMMA LevelAbove ==
  ASSUME NEW a, NEW f, NEW size \in Nat \ {0}, NEW T, NEW L, Leveled(a, f, size, T, L),
         NEW d \in Nat, d + 1 <= size, NEW y \in L[d + 1]
  PROVE  \E p \in L[d] : ChildOf(a, size, p, y)
  <1>1. d + 1 \in 1..size /\ (d + 1) - 1 = d /\ d \in 0..size - 1
    OBVIOUS
  <1>2. d + 1 # size
    BY DEF Leveled
  <1>3. d + 1 \in 0..size - 1
    BY <1>1, <1>2
  <1>4. L[d + 1] = UNION {ToSet(n.children) : n \in L[d]}
    BY <1>1 DEF NodesBelow, Leveled
  <1>5. PICK p \in L[d] : y \in ToSet(p.children)
    BY <1>4
  <1>6. Node(a, f, L[d + 1], size, p)
    BY <1>1 DEF Leveled
  <1>7. ~Single(p, f)
    <2> SUFFICES ASSUME p.children = <<>> PROVE FALSE
      BY DEF Single
    <2>1. ToSet(<<>>) = {}
      BY DEF ToSet
    <2> QED
      BY <1>5, <2>1
  <1>8. PICK k : Parent(a, p, k) /\ \A j \in 1..k : p.children[j] \in L[d + 1]
    BY <1>6, <1>7 DEF Node
  <1>9. ToSet(p.children) = {p.children[j] : j \in 1..k}
    BY <1>8, ChildrenAre, Zenon
  <1>10. PICK j \in 1..k : y = p.children[j]
    BY <1>5, <1>9
  <1>11. \A x \in L[d + 1] : Positions(x, size)
    BY <1>3 DEF Node, Leveled
  <1>12. \A i \in 1..k : p.children[i].covers # {}
    BY <1>8, <1>11 DEF Positions
  <1>13. y.covers \subseteq p.covers /\ y.covers # p.covers
    BY <1>8, <1>10, <1>12, ChildCovers
  <1>14. Positions(p, size)
    BY <1>6 DEF Node
  <1> QED
    BY <1>8, <1>10, <1>11, <1>13, <1>14 DEF ChildOf

\* No two nodes of a level cover a position.
Parted(level) == \A x, y \in level : x.covers \cap y.covers # {} => x = y

\* The levels are parted.
LEMMA OnePerLevel ==
  ASSUME NEW a, NEW f, NEW size \in Nat \ {0}, NEW T, NEW L, Leveled(a, f, size, T, L)
  PROVE  \A d \in 0..size : Parted(L[d])
  <1> DEFINE S == {d \in Nat : d <= size => Parted(L[d])}
  <1>1. 0 \in S
    BY DEF Leveled, NodesBelow, Parted
  <1>2. ASSUME NEW d \in Nat, d \in S PROVE d + 1 \in S
    <2> SUFFICES ASSUME d + 1 <= size, NEW x \in L[d + 1], NEW y \in L[d + 1], x.covers \cap y.covers # {}
                 PROVE  x = y
      BY DEF Parted
    <2>1. PICK p \in L[d] : ChildOf(a, size, p, x)
      BY LevelAbove
    <2>2. PICK q \in L[d] : ChildOf(a, size, q, y)
      BY LevelAbove
    <2>3. p.covers \cap q.covers # {}
      BY <2>1, <2>2 DEF ChildOf
    <2>4. d <= size
      OBVIOUS
    <2>5. p = q
      BY <1>2, <2>3, <2>4 DEF Parted
    <2>6. PICK k : \E i \in 1..k : Parent(a, p, k) /\ x = p.children[i]
      BY <2>1 DEF ChildOf
    <2>7. PICK i \in 1..k : Parent(a, p, k) /\ x = p.children[i]
      BY <2>6
    <2>8. PICK m : \E j \in 1..m : Parent(a, p, m) /\ y = p.children[j]
      BY <2>2, <2>5 DEF ChildOf
    <2>9. PICK j \in 1..m : Parent(a, p, m) /\ y = p.children[j]
      BY <2>8
    <2>10. 1..k = 1..m
      <3>1. DOMAIN p.children = 1..k
        BY <2>7, ChildrenAre, Zenon
      <3>2. DOMAIN p.children = 1..m
        BY <2>9, ChildrenAre, Zenon
      <3> QED
        BY <3>1, <3>2
    <2>11. i = j
      BY <2>7, <2>9, <2>10 DEF Parent
    <2> QED
      BY <2>7, <2>9, <2>11
  <1> HIDE DEF S
  <1>3. \A d \in Nat : d \in S
    BY <1>1, <1>2, SetInduction
  <1> QED
    BY <1>3 DEF S

\* A node of a lower level that covers a position of another node covers fewer.
LEMMA LowerIsSmaller ==
  ASSUME NEW a, NEW f, NEW size \in Nat \ {0}, NEW T, NEW L, Leveled(a, f, size, T, L)
  PROVE  \A e \in 0..size : \A d \in 0..e - 1 : \A x \in L[d], y \in L[e] :
           x.covers \cap y.covers # {} => y.covers # x.covers
  <1> DEFINE Less(d, e) == \A x \in L[d], y \in L[e] :
                             x.covers \cap y.covers # {} => y.covers \subseteq x.covers /\ y.covers # x.covers
             S == {e \in Nat : e <= size => \A d \in 0..e - 1 : Less(d, e)}
  <1>1. 0 \in S
    OBVIOUS
  <1>2. ASSUME NEW e \in Nat, e \in S PROVE e + 1 \in S
    <2> SUFFICES ASSUME e + 1 <= size, NEW d \in 0..(e + 1) - 1, NEW x \in L[d], NEW y \in L[e + 1],
                        x.covers \cap y.covers # {}
                 PROVE  y.covers \subseteq x.covers /\ y.covers # x.covers
      OBVIOUS
    <2>1. PICK p \in L[e] : ChildOf(a, size, p, y)
      BY LevelAbove
    <2>2. x.covers \cap p.covers # {} /\ y.covers \subseteq p.covers /\ y.covers # p.covers
      BY <2>1 DEF ChildOf
    <2>3. CASE d = e
      <3>2. e \in 0..size
        OBVIOUS
      <3>3. Parted(L[e])
        BY <3>2, OnePerLevel
      <3>1. x = p
        BY <2>2, <2>3, <3>3 DEF Parted
      <3> QED
        BY <2>2, <3>1
    <2>4. CASE d # e
      <3>1. d \in 0..e - 1 /\ e <= size
        BY <2>4
      <3>2. p.covers \subseteq x.covers /\ p.covers # x.covers
        BY <1>2, <2>2, <3>1
      <3> QED
        BY <2>2, <3>2
    <2> QED
      BY <2>3, <2>4
  <1> HIDE DEF S
  <1>3. \A e \in Nat : e \in S
    BY <1>1, <1>2, SetInduction
  <1> QED
    BY <1>3 DEF S

\* T is the root of a tree of the nodes N, which are known by what they cover.
TreeOver(a, f, N, T, size) ==
  /\ T \in N /\ T.covers = 0..size - 1
  /\ \A n \in N : Node(a, f, N, size, n)
  /\ \A x, y \in N : x.covers = y.covers => x = y

\* The nodes of one with such levels do.
LEMMA LeveledTree ==
  ASSUME NEW a, NEW f, NEW size \in Nat \ {0}, NEW T, NEW L, Leveled(a, f, size, T, L)
  PROVE  TreeOver(a, f, NodesOf(T, size), T, size)
  <1> DEFINE N == NodesOf(T, size)
  <1>1. N = UNION {L[d] : d \in 0..size} /\ L[0] = {T} /\ L[size] = {} /\ T.covers = 0..size - 1
    BY DEF Leveled, NodesBelow
  <1> HIDE DEF N
  <1>2. T \in N
    <2>1. 0 \in 0..size
      OBVIOUS
    <2> QED
      BY <1>1, <2>1
  <1>3. ASSUME NEW n \in N PROVE \E d \in 0..size - 1 : n \in L[d]
    <2>1. PICK d \in 0..size : n \in L[d]
      BY <1>1
    <2>2. d # size
      BY <1>1, <2>1
    <2>3. d \in 0..size - 1
      BY <2>2
    <2> QED
      BY <2>1, <2>3
  <1>4. ASSUME NEW n \in N PROVE Node(a, f, N, size, n)
    <2>1. PICK d \in 0..size - 1 : n \in L[d]
      BY <1>3
    <2>2. Node(a, f, L[d + 1], size, n)
      BY <2>1 DEF Leveled
    <2>3. L[d + 1] \subseteq N
      <3>1. d + 1 \in 0..size
        OBVIOUS
      <3> QED
        BY <1>1, <3>1
    <2> QED
      BY <2>2, <2>3 DEF Node
  <1>5. ASSUME NEW x \in N, NEW y \in N, x.covers = y.covers PROVE x = y
    <2>1. PICK d \in 0..size - 1 : x \in L[d]
      BY <1>3
    <2>2. PICK e \in 0..size - 1 : y \in L[e]
      BY <1>3
    <2>3. x.covers \cap y.covers # {}
      BY <1>4, <1>5 DEF Node, Positions
    <2>4. CASE d = e
      <3>1. d \in 0..size
        OBVIOUS
      <3>2. Parted(L[d])
        BY <3>1, OnePerLevel
      <3> QED
        BY <2>1, <2>2, <2>3, <2>4, <3>2 DEF Parted
    <2>5. CASE d < e
      <3>1. e \in 0..size /\ d \in 0..e - 1
        BY <2>5
      <3> QED
        BY <1>5, <2>1, <2>2, <2>3, <3>1, LowerIsSmaller
    <2>6. CASE e < d
      <3>1. d \in 0..size /\ e \in 0..d - 1
        BY <2>6
      <3>2. y.covers \cap x.covers # {}
        BY <2>3
      <3> QED
        BY <1>5, <2>1, <2>2, <3>1, <3>2, LowerIsSmaller
    <2> QED
      BY <2>4, <2>5, <2>6
  <1> QED
    BY <1>1, <1>2, <1>4, <1>5 DEF TreeOver, N

\* Every node of N has a twin in M.
HasTwins(a, f, b, g, N, M) ==
  \E R : Twins(a, f, b, g, R) /\ \A x \in N : \E y \in M : <<x, y>> \in R

\* The nodes of a tree have twins in one of the same shape.
LEMMA GrownHasTwins ==
  ASSUME NEW a, NEW f, NEW b, NEW g, NEW size \in Nat \ {0}, NEW T, NEW U, Grown(a, f, b, g, size, T, U)
  PROVE  /\ TreeOver(a, f, NodesOf(T, size), T, size)
         /\ HasTwins(a, f, b, g, NodesOf(T, size), NodesOf(U, size))
  <1>1. PICK R : Twins(a, f, b, g, R) /\ <<T, U>> \in R
    BY DEF Grown, SameShape
  <1>2. PICK L : NodesBelow(T, size, L)
    BY NodesAreBelow
  <1>3. PICK M : NodesBelow(U, size, M)
    BY NodesAreBelow
  <1>4. T.covers = 0..size - 1
    BY DEF Grown
  <1>5. Leveled(a, f, size, T, L)
    BY <1>1, <1>2, <1>3, <1>4, LevelsAreNodes
  <1>6. \A d \in 0..size : LevelPaired(size, R, L, M, d)
    BY <1>1, <1>2, <1>3, <1>4, LevelsPaired
  <1>7. NodesOf(T, size) = UNION {L[d] : d \in 0..size} /\ NodesOf(U, size) = UNION {M[d] : d \in 0..size}
    BY <1>2, <1>3 DEF NodesBelow
  <1>8. \A x \in NodesOf(T, size) : \E y \in NodesOf(U, size) : <<x, y>> \in R
    BY <1>6, <1>7 DEF LevelPaired
  <1>9. TreeOver(a, f, NodesOf(T, size), T, size)
    BY <1>5, LeveledTree
  <1> QED
    BY <1>1, <1>8, <1>9 DEF HasTwins

\* Nodes of the same shape: each child of the one covers what the other's does.
AlikeNodes(a, f, b, g, x, y) ==
  \/ Single(x, f) /\ Single(y, g)
  \/ \E k : /\ Parent(a, x, k) /\ Parent(b, y, k)
            /\ \A j \in 1..k : x.children[j].covers = y.children[j].covers

\* Two trees have nodes over the same positions, and those of the same positions are alike.
Alike(a, f, b, g, N, M) ==
  /\ \A x \in N : \E y \in M : y.covers = x.covers
  /\ \A y \in M : \E x \in N : x.covers = y.covers
  /\ \A x \in N, y \in M : x.covers = y.covers => AlikeNodes(a, f, b, g, x, y)

\* Nodes with twins in each other are alike, since one covers what it does alone.
LEMMA TwinsAlike ==
  ASSUME NEW a, NEW f, NEW b, NEW g, NEW N, NEW M, HasTwins(a, f, b, g, N, M), HasTwins(b, g, a, f, M, N),
         \A y, z \in M : y.covers = z.covers => y = z
  PROVE  Alike(a, f, b, g, N, M)
  <1>1. PICK R : Twins(a, f, b, g, R) /\ \A x \in N : \E y \in M : <<x, y>> \in R
    BY DEF HasTwins
  <1>2. PICK Q : Twins(b, g, a, f, Q) /\ \A y \in M : \E x \in N : <<y, x>> \in Q
    BY DEF HasTwins
  <1>3. \A x, y : <<x, y>> \in R => x.covers = y.covers
    BY <1>1 DEF Twins, Twin
  <1>4. \A x, y : <<y, x>> \in Q => x.covers = y.covers
    BY <1>2 DEF Twins, Twin
  <1>5. \A x \in N : \E y \in M : y.covers = x.covers
    BY <1>1, <1>3
  <1>6. \A y \in M : \E x \in N : x.covers = y.covers
    BY <1>2, <1>4
  <1>7. ASSUME NEW x \in N, NEW y \in M, x.covers = y.covers PROVE AlikeNodes(a, f, b, g, x, y)
    <2>1. PICK z \in M : <<x, z>> \in R
      BY <1>1
    <2>2. z = y
      BY <1>3, <1>7, <2>1
    <2>3. Twin(a, f, b, g, R, x, y)
      BY <1>1, <2>1, <2>2 DEF Twins
    <2> QED
      BY <1>3, <2>3 DEF Twin, AlikeNodes
  <1> QED
    BY <1>5, <1>6, <1>7 DEF Alike

\* The trees of one size are, whatever their leaves.
LEMMA BuiltAlike ==
  ASSUME NEW a, NEW f, NEW b, NEW g, NEW size \in Nat \ {0}
  PROVE  /\ TreeOver(a, f, NodesOf(Build(a, f, size), size), Build(a, f, size), size)
         /\ Alike(a, f, b, g, NodesOf(Build(a, f, size), size), NodesOf(Build(b, g, size), size))
  <1> DEFINE T == Build(a, f, size)
             U == Build(b, g, size)
  <1>1. Grown(a, f, b, g, size, T, U) /\ Grown(b, g, a, f, size, U, T)
    BY BuildTwins
  <1> HIDE DEF T, U
  <1>2. TreeOver(a, f, NodesOf(T, size), T, size) /\ HasTwins(a, f, b, g, NodesOf(T, size), NodesOf(U, size))
    BY <1>1, GrownHasTwins
  <1>3. TreeOver(b, g, NodesOf(U, size), U, size) /\ HasTwins(b, g, a, f, NodesOf(U, size), NodesOf(T, size))
    BY <1>1, GrownHasTwins
  <1>4. Alike(a, f, b, g, NodesOf(T, size), NodesOf(U, size))
    BY <1>2, <1>3, TwinsAlike DEF TreeOver
  <1> QED
    BY <1>2, <1>4 DEF T, U

-----------------------------------------------------------------------------
(* The digests of a tree *)

\* known has the digest of every node of N.
DigestsOf(N, known) ==
  /\ DOMAIN known = {n.covers : n \in N} /\ known = [c \in DOMAIN known |-> known[c]]
  /\ \A n \in N : known[n.covers] = n.digest

\* Digests does.
LEMMA DigestsAre ==
  ASSUME NEW a, NEW f, NEW T, NEW size, TreeOver(a, f, NodesOf(T, size), T, size)
  PROVE  DigestsOf(NodesOf(T, size), Digests(T, size))
  <1> DEFINE N == NodesOf(T, size)
             pick(c) == CHOOSE n \in N : n.covers = c
             D == Digests(T, size)
  <1>1. D = [c \in {n.covers : n \in N} |-> pick(c).digest]
    BY DEF Digests
  <1>2. \A x, y \in N : x.covers = y.covers => x = y
    BY DEF TreeOver
  <1> HIDE DEF N, D
  <1>3. ASSUME NEW n \in N PROVE pick(n.covers) = n
    BY <1>2
  <1> HIDE DEF pick
  <1>4. \A n \in N : D[n.covers] = n.digest
    BY <1>1, <1>3
  <1>5. DOMAIN D = {n.covers : n \in N} /\ D = [c \in DOMAIN D |-> D[c]]
    BY <1>1
  <1>6. DigestsOf(N, D)
    BY <1>4, <1>5 DEF DigestsOf
  <1> QED
    BY <1>6 DEF N, D

\* What holds of single nodes, and of a parent when it does of its children.
Inherited(a, f, N, size, Q) ==
  \A n \in N :
    /\ Single(n, f) => n \in Q
    /\ \A k : Parent(a, n, k) /\ (\A j \in 1..k : n.children[j] \in N /\ n.children[j] \in Q) => n \in Q

\* It holds of all nodes: a child covers fewer positions.
LEMMA FromTheLeaves ==
  ASSUME NEW a, NEW f, NEW size \in Nat, NEW N, NEW T, TreeOver(a, f, N, T, size), NEW Q, Inherited(a, f, N, size, Q)
  PROVE  \A n \in N : n \in Q
  <1> DEFINE S == {m \in Nat : \A n \in N : Cardinality(n.covers) <= m => n \in Q}
  <1>0. ASSUME NEW n \in N PROVE Node(a, f, N, size, n) /\ Cardinality(n.covers) \in Nat /\ Cardinality(n.covers) > 0
    <2>1. Node(a, f, N, size, n)
      BY DEF TreeOver
    <2>2. n.covers \subseteq 0..size - 1 /\ n.covers # {}
      BY <2>1 DEF Node, Positions
    <2> QED
      BY <2>1, <2>2, PositionsFinite
  <1>1. 0 \in S
    BY <1>0
  <1>2. ASSUME NEW m \in Nat, m \in S PROVE m + 1 \in S
    <2> SUFFICES ASSUME NEW n \in N, Cardinality(n.covers) <= m + 1 PROVE n \in Q
      OBVIOUS
    <2>1. CASE Single(n, f)
      BY <2>1 DEF Inherited
    <2>2. CASE ~Single(n, f)
      <3>1. PICK k : Parent(a, n, k) /\ \A j \in 1..k : n.children[j] \in N
        BY <1>0, <2>2 DEF Node
      <3>2. ASSUME NEW j \in 1..k PROVE n.children[j] \in Q
        <4>1. \A h \in 1..k : n.children[h].covers # {}
          BY <1>0, <3>1 DEF Node, Positions
        <4>2. n.children[j].covers \subseteq n.covers /\ n.children[j].covers # n.covers
          BY <3>1, <4>1, ChildCovers
        <4>3. n.covers \subseteq 0..size - 1
          BY <1>0 DEF Node, Positions
        <4>4. Cardinality(n.children[j].covers) < Cardinality(n.covers)
          BY <4>2, <4>3, PositionsFinite
        <4>5. n.children[j] \in N
          BY <3>1
        <4>6. Cardinality(n.children[j].covers) \in Nat /\ Cardinality(n.covers) \in Nat
          BY <1>0, <4>5
        <4>7. Cardinality(n.children[j].covers) <= m
          BY <4>4, <4>6
        <4> QED
          BY <1>2, <4>5, <4>7
      <3> QED
        BY <3>1, <3>2 DEF Inherited
    <2> QED
      BY <2>1, <2>2
  <1> HIDE DEF S
  <1>3. \A m \in Nat : m \in S
    BY <1>1, <1>2, SetInduction
  <1> SUFFICES ASSUME NEW n \in N PROVE n \in Q
    OBVIOUS
  <1>4. Cardinality(n.covers) \in Nat /\ Cardinality(n.covers) <= Cardinality(n.covers)
    BY <1>0
  <1> QED
    BY <1>3, <1>4 DEF S

\* A node that is alike a parent has as many children, each over what the other's is.
LEMMA AlikeParent ==
  ASSUME NEW a, NEW f, NEW b, NEW g, NEW x, NEW y, AlikeNodes(a, f, b, g, x, y), NEW k, Parent(a, x, k),
         NEW size, NEW M, NEW U, TreeOver(b, g, M, U, size), y \in M
  PROVE  /\ Parent(b, y, k)
         /\ \A j \in 1..k : x.children[j].covers = y.children[j].covers /\ y.children[j] \in M
  <1>1. k \in Nat /\ k >= 2 /\ DOMAIN x.children = 1..k
    BY ChildrenAre, Zenon DEF Parent
  <1>2. ~Single(x, f)
    BY <1>1 DEF Single
  <1>3. PICK m : /\ Parent(a, x, m) /\ Parent(b, y, m)
                 /\ \A j \in 1..m : x.children[j].covers = y.children[j].covers
    BY <1>2 DEF AlikeNodes
  <1>4. m = k
    <2>1. DOMAIN x.children = 1..m /\ m \in Nat
      BY <1>3, ChildrenAre, Zenon DEF Parent
    <2> QED
      BY <1>1, <2>1
  <1>5. ~Single(y, g)
    <2>1. DOMAIN y.children = 1..k
      BY <1>3, <1>4, ChildrenAre, Zenon
    <2> QED
      BY <1>1, <2>1 DEF Single
  <1>6. \A j \in 1..k : y.children[j] \in M
    <2>1. PICK h : Parent(b, y, h) /\ \A j \in 1..h : y.children[j] \in M
      BY <1>5 DEF TreeOver, Node
    <2>2. DOMAIN y.children = 1..h /\ DOMAIN y.children = 1..k
      BY <1>3, <1>4, <2>1, ChildrenAre, Zenon
    <2> QED
      BY <2>1, <2>2
  <1> QED
    BY <1>3, <1>4, <1>6

\* The leaves of two trees agree off position i.
AgreeOff(f, g, i, size) == \A j \in 0..size - 1 : j # i => f[j] = g[j]

\* So do the nodes that do not cover i.
LEMMA DigestsAgreeOff ==
  ASSUME NEW a, NEW f, NEW g, NEW size \in Nat, NEW i, AgreeOff(f, g, i, size),
         NEW N, NEW T, TreeOver(a, f, N, T, size), NEW M, NEW U, TreeOver(a, g, M, U, size),
         Alike(a, f, a, g, N, M)
  PROVE  \A x \in N, y \in M : x.covers = y.covers /\ i \notin x.covers => x.digest = y.digest
  <1> DEFINE Q == {x \in N : \A y \in M : x.covers = y.covers /\ i \notin x.covers => x.digest = y.digest}
  <1>1. ASSUME NEW x \in N, Single(x, f) PROVE x \in Q
    <2> SUFFICES ASSUME NEW y \in M, x.covers = y.covers, i \notin x.covers PROVE x.digest = y.digest
      OBVIOUS
    <2>1. PICK j : x.covers = {j} /\ x.digest = f[j]
      BY <1>1 DEF Single
    <2>2. j \in 0..size - 1 /\ j # i
      BY <2>1 DEF TreeOver, Node, Positions
    <2>3. AlikeNodes(a, f, a, g, x, y)
      BY DEF Alike
    <2>4. Single(y, g)
      <3> SUFFICES ASSUME NEW k, Parent(a, x, k) PROVE FALSE
        BY <2>3 DEF AlikeNodes
      <3>1. DOMAIN x.children = 1..k
        BY ChildrenAre, Zenon
      <3>2. k \in Nat /\ k >= 2
        BY DEF Parent
      <3>3. x.children = <<>>
        BY <1>1 DEF Single
      <3> QED
        BY <3>1, <3>2, <3>3
    <2>5. PICK h : y.covers = {h} /\ y.digest = g[h]
      BY <2>4 DEF Single
    <2>6. h = j
      BY <2>1, <2>5
    <2> QED
      BY <2>1, <2>2, <2>5, <2>6 DEF AgreeOff
  <1>2. ASSUME NEW x \in N, NEW k, Parent(a, x, k), \A j \in 1..k : x.children[j] \in N /\ x.children[j] \in Q
        PROVE  x \in Q
    <2> SUFFICES ASSUME NEW y \in M, x.covers = y.covers, i \notin x.covers PROVE x.digest = y.digest
      OBVIOUS
    <2>1. AlikeNodes(a, f, a, g, x, y)
      BY DEF Alike
    <2>2. /\ Parent(a, y, k)
          /\ \A j \in 1..k : x.children[j].covers = y.children[j].covers /\ y.children[j] \in M
      BY <1>2, <2>1, AlikeParent
    <2>8. ASSUME NEW j \in 1..k PROVE x.children[j].digest = y.children[j].digest
      <3>1. x.children[j] \in Q /\ x.children[j].covers = y.children[j].covers /\ y.children[j] \in M
        BY <1>2, <2>2
      <3>2. i \notin x.children[j].covers
        BY <1>2 DEF Parent
      <3> QED
        BY <3>1, <3>2
    <2>9. [j \in 1..k |-> x.children[j].digest] = [j \in 1..k |-> y.children[j].digest]
      BY <2>8
    <2>10. x.digest = NaryMr(a, [j \in 1..k |-> x.children[j].digest])
      BY <1>2 DEF Parent
    <2>11. y.digest = NaryMr(a, [j \in 1..k |-> y.children[j].digest])
      BY <2>2 DEF Parent
    <2> QED
      BY <2>9, <2>10, <2>11
  <1>3. Inherited(a, f, N, size, Q)
    <2> HIDE DEF Q
    <2> QED
      BY <1>1, <1>2 DEF Inherited
  <1> HIDE DEF Q
  <1>4. \A n \in N : n \in Q
    BY <1>3, FromTheLeaves
  <1> QED
    BY <1>4 DEF Q

\* r is the cache with the path to i computed anew, the children of a position set being
\* those of its node in W.
Repaired(a, known, W, payloads, i, r) ==
  r = [c \in DOMAIN known |->
         IF i \notin c THEN known[c]
         ELSE IF c = {i} THEN LeafHash(a, payloads[i + 1])
         ELSE NaryMr(a, [j \in DOMAIN (CHOOSE n \in W : n.covers = c).children |->
                           r[(CHOOSE n \in W : n.covers = c).children[j].covers]])]

\* RecomputePath is such a cache, if there is one.
LEMMA RecomputeChooses ==
  ASSUME NEW a, NEW known, NEW payloads, NEW i
  PROVE  LET W == NodesOf(Build(a, Leaves(a, payloads), Len(payloads)), Len(payloads))
         IN  RecomputePath(a, known, payloads, i) = CHOOSE r : Repaired(a, known, W, payloads, i, r)
  BY Zenon DEF RecomputePath, Repaired

\* What such a cache has for the node x.
HasRepaired(a, known, payloads, i, r, x) ==
  /\ i \notin x.covers => r[x.covers] = known[x.covers]
  /\ x.covers = {i} => r[x.covers] = LeafHash(a, payloads[i + 1])
  /\ i \in x.covers /\ x.covers # {i} =>
       r[x.covers] = NaryMr(a, [j \in DOMAIN x.children |-> r[x.children[j].covers]])

\* It has that.
LEMMA RepairedAt ==
  ASSUME NEW a, NEW known, NEW f, NEW size, NEW W, NEW V, TreeOver(a, f, W, V, size),
         DOMAIN known = {n.covers : n \in W}, NEW payloads, NEW i,
         NEW r, Repaired(a, known, W, payloads, i, r), NEW x \in W
  PROVE  HasRepaired(a, known, payloads, i, r, x)
  <1>1. x.covers \in DOMAIN known
    OBVIOUS
  <1>2. (CHOOSE n \in W : n.covers = x.covers) = x
    BY DEF TreeOver
  <1> DEFINE pick(c) == CHOOSE n \in W : n.covers = c
             body(c) == IF i \notin c THEN known[c]
                        ELSE IF c = {i} THEN LeafHash(a, payloads[i + 1])
                        ELSE NaryMr(a, [j \in DOMAIN pick(c).children |-> r[pick(c).children[j].covers]])
  <1>3. r = [c \in DOMAIN known |-> body(c)]
    BY Zenon DEF Repaired
  <1> HIDE DEF body
  <1>4. r[x.covers] = body(x.covers)
    BY <1>1, <1>3
  <1>5. pick(x.covers) = x
    BY <1>2
  <1> HIDE DEF pick
  <1> QED
    BY <1>4, <1>5 DEF body, HasRepaired

\* There is at most one.
LEMMA RepairedOnce ==
  ASSUME NEW a, NEW known, NEW f, NEW size \in Nat, NEW W, NEW V, TreeOver(a, f, W, V, size),
         DOMAIN known = {n.covers : n \in W}, NEW payloads, NEW i,
         NEW r, Repaired(a, known, W, payloads, i, r), NEW q, Repaired(a, known, W, payloads, i, q)
  PROVE  r = q
  <1> DEFINE Q == {x \in W : r[x.covers] = q[x.covers]}
  <1>0. ASSUME NEW x \in W
        PROVE  HasRepaired(a, known, payloads, i, r, x) /\ HasRepaired(a, known, payloads, i, q, x)
    BY RepairedAt
  <1>1. ASSUME NEW x \in W, Single(x, f) PROVE x \in Q
    <2>1. PICK h : x.covers = {h}
      BY <1>1 DEF Single
    <2>2. CASE i \notin x.covers
      <3>1. r[x.covers] = known[x.covers] /\ q[x.covers] = known[x.covers]
        BY <1>0, <2>2 DEF HasRepaired
      <3> QED
        BY <3>1
    <2>3. CASE x.covers = {i}
      <3>1. r[x.covers] = LeafHash(a, payloads[i + 1]) /\ q[x.covers] = LeafHash(a, payloads[i + 1])
        BY <1>0, <2>3 DEF HasRepaired
      <3> QED
        BY <3>1
    <2> QED
      BY <2>1, <2>2, <2>3
  <1>2. ASSUME NEW x \in W, NEW k, Parent(a, x, k), \A j \in 1..k : x.children[j] \in W /\ x.children[j] \in Q
        PROVE  x \in Q
    <2>1. DOMAIN x.children = 1..k
      BY <1>2, ChildrenAre, Zenon
    <2>2. \A j \in 1..k : r[x.children[j].covers] = q[x.children[j].covers]
      BY <1>2
    <2>3. [j \in DOMAIN x.children |-> r[x.children[j].covers]] = [j \in DOMAIN x.children |-> q[x.children[j].covers]]
      BY <2>1, <2>2
    <2>4. CASE i \notin x.covers
      <3>1. r[x.covers] = known[x.covers] /\ q[x.covers] = known[x.covers]
        BY <1>0, <2>4 DEF HasRepaired
      <3> QED
        BY <3>1
    <2>5. CASE x.covers = {i}
      <3>1. r[x.covers] = LeafHash(a, payloads[i + 1]) /\ q[x.covers] = LeafHash(a, payloads[i + 1])
        BY <1>0, <2>5 DEF HasRepaired
      <3> QED
        BY <3>1
    <2>6. CASE i \in x.covers /\ x.covers # {i}
      <3>1. r[x.covers] = NaryMr(a, [j \in DOMAIN x.children |-> r[x.children[j].covers]])
        BY <1>0, <2>6 DEF HasRepaired
      <3>2. q[x.covers] = NaryMr(a, [j \in DOMAIN x.children |-> q[x.children[j].covers]])
        BY <1>0, <2>6 DEF HasRepaired
      <3> QED
        BY <2>3, <3>1, <3>2
    <2> QED
      BY <2>4, <2>5, <2>6
  <1>3. Inherited(a, f, W, size, Q)
    <2> HIDE DEF Q
    <2> QED
      BY <1>1, <1>2 DEF Inherited
  <1> HIDE DEF Q
  <1>4. \A x \in W : x \in Q
    BY <1>3, FromTheLeaves
  <1>5. \A c \in DOMAIN known : r[c] = q[c]
    BY <1>4 DEF Q
  <1>6. DOMAIN r = DOMAIN known /\ r = [c \in DOMAIN known |-> r[c]]
    BY DEF Repaired
  <1>7. DOMAIN q = DOMAIN known /\ q = [c \in DOMAIN known |-> q[c]]
    BY DEF Repaired
  <1> QED
    BY <1>5, <1>6, <1>7

\* The digests of the tree with the leaf at i set are such a cache.
LEMMA DigestsRepair ==
  ASSUME NEW a, NEW size \in Nat, NEW payloads, NEW i,
         NEW f, NEW N, NEW T, TreeOver(a, f, N, T, size),
         NEW g, NEW M, NEW U, TreeOver(a, g, M, U, size),
         NEW l, NEW W, NEW V, TreeOver(a, l, W, V, size),
         Alike(a, f, a, g, N, M), Alike(a, l, a, g, W, M),
         AgreeOff(f, g, i, size), g[i] = LeafHash(a, payloads[i + 1]),
         NEW known, DigestsOf(N, known), NEW r, DigestsOf(M, r)
  PROVE  Repaired(a, known, W, payloads, i, r)
  <1> DEFINE pick(c) == CHOOSE n \in W : n.covers = c
             body(c) == IF i \notin c THEN known[c]
                        ELSE IF c = {i} THEN LeafHash(a, payloads[i + 1])
                        ELSE NaryMr(a, [j \in DOMAIN pick(c).children |-> r[pick(c).children[j].covers]])
  <1>1. DOMAIN r = DOMAIN known
    <2>1. DOMAIN known = {n.covers : n \in N} /\ DOMAIN r = {n.covers : n \in M}
      BY DEF DigestsOf
    <2>2. \A x \in N : \E y \in M : y.covers = x.covers
      BY DEF Alike
    <2>3. \A y \in M : \E x \in N : x.covers = y.covers
      BY DEF Alike
    <2> QED
      BY <2>1, <2>2, <2>3
  <1>2. ASSUME NEW c \in DOMAIN known PROVE r[c] = body(c)
    <2>1. PICK x \in N : x.covers = c
      BY DEF DigestsOf
    <2>2. PICK y \in M : y.covers = c
      BY <2>1 DEF Alike
    <2>3. PICK v \in W : v.covers = c
      BY <2>2 DEF Alike
    <2>4. pick(c) = v
      BY <2>3 DEF TreeOver
    <2>5. r[c] = y.digest /\ known[c] = x.digest
      BY <2>1, <2>2 DEF DigestsOf
    <2> HIDE DEF pick
    <2>6. CASE i \notin c
      <3>1. x.digest = y.digest
        BY <2>1, <2>2, <2>6, DigestsAgreeOff
      <3> QED
        BY <2>5, <2>6, <3>1
    <2>7. CASE c = {i}
      <3>1. Node(a, g, M, size, y)
        BY DEF TreeOver
      <3>2. Single(y, g)
        <4> SUFFICES ASSUME NEW k, Parent(a, y, k), \A j \in 1..k : y.children[j] \in M PROVE FALSE
          BY <3>1 DEF Node
        <4>1. \A j \in 1..k : y.children[j].covers # {}
          BY DEF TreeOver, Node, Positions
        <4>2. 1 \in 1..k
          BY DEF Parent
        <4>3. y.children[1].covers \subseteq {i} /\ y.children[1].covers # {i}
          BY <2>2, <2>7, <4>1, <4>2, ChildCovers
        <4> QED
          BY <4>1, <4>2, <4>3
      <3>3. PICK h : y.covers = {h} /\ y.digest = g[h]
        BY <3>2 DEF Single
      <3>4. h = i
        BY <2>2, <2>7, <3>3
      <3> QED
        BY <2>5, <2>7, <3>3, <3>4
    <2>8. CASE i \in c /\ c # {i}
      <3>1. ~Single(v, l)
        BY <2>3, <2>8 DEF Single
      <3>2. PICK k : Parent(a, v, k)
        BY <3>1 DEF TreeOver, Node
      <3>3. AlikeNodes(a, l, a, g, v, y)
        BY <2>2, <2>3 DEF Alike
      <3>4. /\ Parent(a, y, k)
            /\ \A j \in 1..k : v.children[j].covers = y.children[j].covers /\ y.children[j] \in M
        BY <3>2, <3>3, AlikeParent
      <3>5. \A j \in 1..k : r[v.children[j].covers] = y.children[j].digest
        BY <3>4 DEF DigestsOf
      <3>6. DOMAIN v.children = 1..k
        BY <3>2, ChildrenAre, Zenon
      <3>7. [j \in DOMAIN v.children |-> r[v.children[j].covers]] = [j \in 1..k |-> y.children[j].digest]
        BY <3>5, <3>6
      <3>8. y.digest = NaryMr(a, [j \in 1..k |-> y.children[j].digest])
        BY <3>4 DEF Parent
      <3>9. body(c) = NaryMr(a, [j \in DOMAIN v.children |-> r[v.children[j].covers]])
        BY <2>4, <2>8
      <3> QED
        BY <2>5, <3>7, <3>8, <3>9
    <2> QED
      BY <2>6, <2>7, <2>8
  <1>3. r = [c \in DOMAIN r |-> r[c]]
    BY DEF DigestsOf
  <1> HIDE DEF body
  <1>4. r = [c \in DOMAIN known |-> body(c)]
    BY <1>1, <1>2, <1>3
  <1> QED
    BY <1>4, Zenon DEF Repaired, body, pick

\* Repairing the path to i turns the cache of one tree into that of the tree with the leaf
\* at i set.
LEMMA RecomputeIs ==
  ASSUME NEW a, NEW payloads, NEW size \in Nat \ {0}, size = Len(payloads), NEW i, NEW f, NEW g,
         AgreeOff(f, g, i, size), g[i] = LeafHash(a, payloads[i + 1])
  PROVE  RecomputePath(a, Digests(Build(a, f, size), size), payloads, i) = Digests(Build(a, g, size), size)
  <1> DEFINE T == Build(a, f, size)
             U == Build(a, g, size)
             l == Leaves(a, payloads)
             V == Build(a, l, size)
             N == NodesOf(T, size)
             M == NodesOf(U, size)
             W == NodesOf(V, size)
             known == Digests(T, size)
             r == Digests(U, size)
  <1>1. TreeOver(a, f, N, T, size) /\ Alike(a, f, a, g, N, M)
    BY BuiltAlike
  <1>2. TreeOver(a, l, W, V, size) /\ Alike(a, l, a, g, W, M)
    BY BuiltAlike
  <1>3. TreeOver(a, g, M, U, size)
    BY BuiltAlike
  <1>4. DigestsOf(N, known)
    BY <1>1, DigestsAre
  <1>5. DigestsOf(M, r)
    BY <1>3, DigestsAre
  <1>6. Alike(a, f, a, l, N, W)
    BY BuiltAlike
  <1>10. RecomputePath(a, known, payloads, i) = CHOOSE q : Repaired(a, known, W, payloads, i, q)
    BY RecomputeChooses
  <1> HIDE DEF T, U, V, N, M, W, known, r, l
  <1>7. Repaired(a, known, W, payloads, i, r)
    BY <1>1, <1>2, <1>3, <1>4, <1>5, DigestsRepair
  <1>8. DOMAIN known = {n.covers : n \in W}
    <2>1. DOMAIN known = {n.covers : n \in N}
      BY <1>4 DEF DigestsOf
    <2>2. \A x \in N : \E y \in W : y.covers = x.covers
      BY <1>6 DEF Alike
    <2>3. \A y \in W : \E x \in N : x.covers = y.covers
      BY <1>6 DEF Alike
    <2> QED
      BY <2>1, <2>2, <2>3
  <1>9. \A q : Repaired(a, known, W, payloads, i, q) => q = r
    <2> SUFFICES ASSUME NEW q, Repaired(a, known, W, payloads, i, q) PROVE q = r
      OBVIOUS
    <2> QED
      BY <1>2, <1>7, <1>8, RepairedOnce
  <1>11. (CHOOSE q : Repaired(a, known, W, payloads, i, q)) = r
    BY <1>7, <1>9
  <1>12. RecomputePath(a, known, payloads, i) = r
    BY <1>10, <1>11
  <1> QED
    BY <1>12 DEF known, r, T, U

-----------------------------------------------------------------------------
(* The cache of one algorithm *)

\* The leaves of the tree in which the positions `at` are hashed.
LeafAt(a, payloads, at) ==
  [i \in 0..Len(payloads) - 1 |-> IF i \in at THEN LeafHash(a, payloads[i + 1]) ELSE Null(a)]

\* known has the digests of that tree, and top is its root.
Reference(a, known, top, payloads, at) ==
  Len(payloads) > 0 =>
    /\ known = Digests(Build(a, LeafAt(a, payloads, at), Len(payloads)), Len(payloads))
    /\ top = Build(a, LeafAt(a, payloads, at), Len(payloads)).digest

\* The digests of a tree have its root where TopOf reads it.
LEMMA TopIsRoot ==
  ASSUME NEW a, NEW f, NEW size \in Nat \ {0}
  PROVE  TopOf(Digests(Build(a, f, size), size), size) = Build(a, f, size).digest
  <1> DEFINE T == Build(a, f, size)
             N == NodesOf(T, size)
             D == Digests(T, size)
  <1>1. TreeOver(a, f, N, T, size)
    BY BuiltAlike
  <1>2. DigestsOf(N, D)
    BY <1>1, DigestsAre
  <1> HIDE DEF N, D, T
  <1>3. T \in N /\ T.covers = 0..size - 1
    BY <1>1 DEF TreeOver
  <1>4. D[0..size - 1] = T.digest
    BY <1>2, <1>3 DEF DigestsOf
  <1>5. TopOf(D, size) = D[0..size - 1]
    BY Zenon DEF TopOf
  <1> QED
    BY <1>4, <1>5 DEF D, T

\* Hashing every cell.
LEMMA FullIsReference ==
  ASSUME NEW a, NEW payloads \in Seq(Payloads)
  PROVE  Reference(a, RecomputeFull(a, payloads), TopOf(RecomputeFull(a, payloads), Len(payloads)), payloads,
                   0..Len(payloads) - 1)
  <1> SUFFICES ASSUME Len(payloads) > 0
               PROVE  LET leaf == LeafAt(a, payloads, 0..Len(payloads) - 1)
                          size == Len(payloads)
                      IN  /\ RecomputeFull(a, payloads) = Digests(Build(a, leaf, size), size)
                          /\ TopOf(RecomputeFull(a, payloads), size) = Build(a, leaf, size).digest
    BY DEF Reference
  <1> DEFINE size == Len(payloads)
             leaf == LeafAt(a, payloads, 0..size - 1)
  <1>1. size \in Nat \ {0}
    OBVIOUS
  <1>2. leaf = Leaves(a, payloads)
    BY DEF LeafAt, Leaves
  <1>3. payloads # <<>>
    OBVIOUS
  <1>4. RecomputeFull(a, payloads) = Digests(Build(a, leaf, size), size)
    BY <1>2, <1>3 DEF RecomputeFull
  <1> HIDE DEF size, leaf
  <1>5. TopOf(Digests(Build(a, leaf, size), size), size) = Build(a, leaf, size).digest
    BY <1>1, TopIsRoot
  <1> QED
    BY <1>4, <1>5 DEF size, leaf

\* Hashing none.
LEMMA NullIsReference ==
  ASSUME NEW a, NEW payloads \in Seq(Payloads)
  PROVE  \E top : Reference(a, SeedNull(a, Len(payloads)), top, payloads, {})
  <1>1. LeafAt(a, payloads, {}) = [i \in 0..Len(payloads) - 1 |-> Null(a)]
    BY DEF LeafAt
  <1> QED
    BY <1>1 DEF Reference, SeedNull

\* q has the payloads of p except at i.
OnlyAt(p, q, i) ==
  /\ p \in Seq(Payloads) /\ q \in Seq(Payloads) /\ Len(q) = Len(p)
  /\ \A j \in 0..Len(p) - 1 : j # i => q[j + 1] = p[j + 1]

\* Hashing the cell at i.
LEMMA PathIsReference ==
  ASSUME NEW a, NEW known, NEW top, NEW p, NEW at, Reference(a, known, top, p, at),
         NEW i \in Nat, i < Len(p), NEW q, OnlyAt(p, q, i)
  PROVE  Reference(a, RecomputePath(a, known, q, i), TopOf(RecomputePath(a, known, q, i), Len(q)), q, at \cup {i})
  <1> DEFINE size == Len(q)
             f == LeafAt(a, p, at)
             g == LeafAt(a, q, at \cup {i})
  <1>1. size \in Nat \ {0} /\ Len(p) = size /\ i \in 0..size - 1 /\ Len(p) > 0
    BY DEF OnlyAt
  <1>2. g[i] = LeafHash(a, q[i + 1])
    BY <1>1 DEF LeafAt
  <1>3. AgreeOff(f, g, i, size)
    <2> SUFFICES ASSUME NEW j \in 0..size - 1, j # i PROVE f[j] = g[j]
      BY DEF AgreeOff
    <2>1. q[j + 1] = p[j + 1]
      BY <1>1 DEF OnlyAt
    <2>2. f[j] = IF j \in at THEN LeafHash(a, p[j + 1]) ELSE Null(a)
      BY <1>1 DEF LeafAt
    <2>3. g[j] = IF j \in at \cup {i} THEN LeafHash(a, q[j + 1]) ELSE Null(a)
      BY <1>1 DEF LeafAt
    <2> QED
      BY <2>1, <2>2, <2>3
  <1>4. known = Digests(Build(a, f, size), size)
    BY <1>1 DEF Reference
  <1> HIDE DEF f, g
  <1>5. RecomputePath(a, known, q, i) = Digests(Build(a, g, size), size)
    BY <1>1, <1>2, <1>3, <1>4, RecomputeIs
  <1> HIDE DEF size
  <1>6. TopOf(Digests(Build(a, g, size), size), size) = Build(a, g, size).digest
    BY <1>1, TopIsRoot
  <1> QED
    BY <1>5, <1>6 DEF Reference, g, size

-----------------------------------------------------------------------------
(* The caches of all algorithms *)

\* Every registered algorithm has a cache, a root and the positions hashed under it.
Indexed == cells \in Seq(Payloads) /\ DOMAIN root = Registered /\ DOMAIN hashed = Registered

\* The invariant, algorithm by algorithm.
Referenced == \A a \in Registered : Reference(a, cache[a], root[a], cells, hashed[a])

\* It is CacheIsReference.
LEMMA ReferencedIs == Referenced <=> CacheIsReference
  BY Zenon DEF Referenced, CacheIsReference, Reference, LeafAt, Size

\* Init has no algorithm.
LEMMA InitReferenced ==
  ASSUME Init
  PROVE  Indexed /\ Referenced
  <1>1. DOMAIN cache = {} /\ DOMAIN root = {} /\ DOMAIN hashed = {} /\ cells \in Seq(Payloads)
    BY DEF Init
  <1> QED
    BY <1>1 DEF Indexed, Referenced, Registered

\* w has v at a, and elsewhere what f has.
Updates(w, f, a, v) ==
  /\ DOMAIN w = DOMAIN f \cup {a} /\ w[a] = v
  /\ \A b \in DOMAIN f : b # a => w[b] = f[b]

\* With does so.
LEMMA WithIs ==
  ASSUME NEW f, NEW a, NEW v, NEW w, w = With(f, a, v)
  PROVE  Updates(w, f, a, v)
  <1>1. w = [b \in DOMAIN f \cup {a} |-> IF b = a THEN v ELSE f[b]]
    BY DEF With
  <1> QED
    BY <1>1 DEF Updates

\* An algorithm with a reference cache is added.
LEMMA AddedReferenced ==
  ASSUME Indexed, Referenced, NEW a, a \notin Registered, NEW known, NEW top, NEW at,
         Reference(a, known, top, cells, at), cells' = cells,
         cache' = With(cache, a, known), root' = With(root, a, top), hashed' = With(hashed, a, at)
  PROVE  Indexed' /\ Referenced'
  <1>0. /\ Updates(cache', cache, a, known) /\ Updates(root', root, a, top)
        /\ Updates(hashed', hashed, a, at)
    BY WithIs
  <1>1. /\ DOMAIN cache' = DOMAIN cache \cup {a} /\ cache'[a] = known
        /\ \A b \in DOMAIN cache : cache'[b] = cache[b]
    BY <1>0 DEF Updates, Registered
  <1>2. /\ DOMAIN root' = DOMAIN cache \cup {a} /\ root'[a] = top
        /\ \A b \in DOMAIN cache : root'[b] = root[b]
    BY <1>0 DEF Updates, Registered, Indexed
  <1>3. /\ DOMAIN hashed' = DOMAIN cache \cup {a} /\ hashed'[a] = at
        /\ \A b \in DOMAIN cache : hashed'[b] = hashed[b]
    BY <1>0 DEF Updates, Registered, Indexed
  <1>4. ASSUME NEW b \in DOMAIN cache' PROVE Reference(b, cache'[b], root'[b], cells, hashed'[b])
    <2>1. CASE b = a
      BY <1>1, <1>2, <1>3, <2>1
    <2>2. CASE b # a
      <3>1. b \in DOMAIN cache
        BY <1>1, <2>2
      <3>2. Reference(b, cache[b], root[b], cells, hashed[b])
        BY <3>1 DEF Referenced, Registered
      <3> QED
        BY <1>1, <1>2, <1>3, <3>1, <3>2
    <2> QED
      BY <2>1, <2>2
  <1> QED
    BY <1>1, <1>2, <1>3, <1>4 DEF Indexed, Referenced, Registered

\* RegisterAlgorithm hashes every cell.
LEMMA RegisterReferenced ==
  ASSUME Indexed, Referenced, NEW a, RegisterAlgorithm(a)
  PROVE  Indexed' /\ Referenced'
  <1> DEFINE known == RecomputeFull(a, cells)
             top == TopOf(known, Size)
  <1>1. Reference(a, known, top, cells, 0..Size - 1)
    BY FullIsReference DEF Indexed, Size
  <1>2. cache' = With(cache, a, known)
    BY DEF RegisterAlgorithm
  <1> HIDE DEF known
  <1>3. cache'[a] = known
    <2>1. Updates(cache', cache, a, known)
      BY <1>2, WithIs
    <2> QED
      BY <2>1 DEF Updates
  <1>4. root' = With(root, a, top)
    BY <1>3 DEF RegisterAlgorithm
  <1>5. hashed' = With(hashed, a, 0..Size - 1) /\ cells' = cells /\ a \notin Registered
    BY DEF RegisterAlgorithm
  <1> HIDE DEF top
  <1> QED
    BY <1>1, <1>2, <1>4, <1>5, AddedReferenced

\* AddAlgorithmAt hashes one.
LEMMA AddAtReferenced ==
  ASSUME Indexed, Referenced, NEW a, NEW i \in Nat, AddAlgorithmAt(a, i)
  PROVE  Indexed' /\ Referenced'
  <1> DEFINE known == RecomputePath(a, SeedNull(a, Size), cells, i)
             top == TopOf(known, Size)
  <1>1. Reference(a, known, top, cells, {i})
    <2>1. PICK r : Reference(a, SeedNull(a, Size), r, cells, {})
      BY NullIsReference DEF Indexed, Size
    <2>2. i < Len(cells)
      BY DEF AddAlgorithmAt, Size
    <2>3. OnlyAt(cells, cells, i)
      BY DEF OnlyAt, Indexed
    <2>4. Reference(a, RecomputePath(a, SeedNull(a, Size), cells, i),
                    TopOf(RecomputePath(a, SeedNull(a, Size), cells, i), Len(cells)), cells, {} \cup {i})
      BY <2>1, <2>2, <2>3, PathIsReference
    <2>5. {} \cup {i} = {i}
      OBVIOUS
    <2> QED
      BY <2>4, <2>5 DEF Size
  <1>2. cache' = With(cache, a, known)
    BY DEF AddAlgorithmAt
  <1> HIDE DEF known
  <1>3. cache'[a] = known
    <2>1. Updates(cache', cache, a, known)
      BY <1>2, WithIs
    <2> QED
      BY <2>1 DEF Updates
  <1>4. root' = With(root, a, top)
    BY <1>3 DEF AddAlgorithmAt
  <1>5. hashed' = With(hashed, a, {i}) /\ cells' = cells /\ a \notin Registered
    BY DEF AddAlgorithmAt
  <1> HIDE DEF top
  <1> QED
    BY <1>1, <1>2, <1>4, <1>5, AddedReferenced

\* Set appends, and every algorithm hashes every cell, or overwrites, and every algorithm
\* hashes that cell.
LEMMA SetReferenced ==
  ASSUME Indexed, Referenced, NEW i \in Nat, NEW payload \in Payloads, Set(i, payload)
  PROVE  Indexed' /\ Referenced'
  <1>1. cells \in Seq(Payloads) /\ Size \in Nat /\ Size = Len(cells) /\ i <= Size
    BY DEF Indexed, Size, Set
  <1>2. DOMAIN cache' = Registered /\ DOMAIN root' = Registered /\ DOMAIN hashed' = Registered
    BY DEF Set
  <1>3. \A a \in Registered : root'[a] = TopOf(cache'[a], Len(cells'))
    BY DEF Set
  <1>4. CASE i = Size
    <2>1. cells' = Append(cells, payload)
      BY <1>4 DEF Set
    <2>2. cells' \in Seq(Payloads) /\ Len(cells') = Size + 1
      BY <1>1, <2>1
    <2>3. \A a \in Registered : cache'[a] = RecomputeFull(a, cells') /\ hashed'[a] = 0..Size
      BY <1>4 DEF Set
    <2>4. Len(cells') - 1 = Size
      BY <1>1, <2>2
    <2>5. ASSUME NEW a \in Registered PROVE Reference(a, cache'[a], root'[a], cells', hashed'[a])
      <3>1. Reference(a, RecomputeFull(a, cells'), TopOf(RecomputeFull(a, cells'), Len(cells')), cells',
                      0..Len(cells') - 1)
        BY <2>2, FullIsReference
      <3> QED
        BY <1>3, <2>3, <2>4, <3>1
    <2> QED
      BY <1>2, <2>2, <2>5 DEF Indexed, Referenced, Registered
  <1>5. CASE i # Size
    <2>1. cells' = [cells EXCEPT ![i + 1] = payload]
      BY <1>5 DEF Set
    <2>2. i < Len(cells) /\ i + 1 \in 1..Len(cells)
      BY <1>1, <1>5
    <2>3. cells' \in Seq(Payloads) /\ Len(cells') = Len(cells)
      BY <1>1, <2>1, <2>2
    <2>4. OnlyAt(cells, cells', i)
      <3>1. ASSUME NEW j \in 0..Len(cells) - 1, j # i PROVE cells'[j + 1] = cells[j + 1]
        <4>1. j + 1 \in 1..Len(cells) /\ j + 1 # i + 1
          BY <1>1, <3>1
        <4> QED
          BY <1>1, <2>1, <4>1
      <3> QED
        BY <1>1, <2>3, <3>1 DEF OnlyAt
    <2>5. \A a \in Registered : cache'[a] = RecomputePath(a, cache[a], cells', i) /\ hashed'[a] = hashed[a] \cup {i}
      BY <1>5 DEF Set
    <2>6. ASSUME NEW a \in Registered PROVE Reference(a, cache'[a], root'[a], cells', hashed'[a])
      <3>1. Reference(a, cache[a], root[a], cells, hashed[a])
        BY DEF Referenced
      <3>2. Reference(a, RecomputePath(a, cache[a], cells', i),
                      TopOf(RecomputePath(a, cache[a], cells', i), Len(cells')), cells', hashed[a] \cup {i})
        BY <2>2, <2>4, <3>1, PathIsReference
      <3> QED
        BY <1>3, <2>5, <3>2
    <2> QED
      BY <1>2, <2>3, <2>6 DEF Indexed, Referenced, Registered
  <1> QED
    BY <1>4, <1>5

\* Every step keeps the caches in order.
LEMMA NextReferenced ==
  ASSUME Indexed, Referenced, [Next]_vars
  PROVE  Indexed' /\ Referenced'
  <1>1. ASSUME NEW a \in Algs, RegisterAlgorithm(a) PROVE Indexed' /\ Referenced'
    BY <1>1, RegisterReferenced
  <1>2. ASSUME NEW a \in Algs, NEW i \in 0..MaxSize - 1, AddAlgorithmAt(a, i) PROVE Indexed' /\ Referenced'
    <2>1. i \in Nat
      BY MutableAssumption
    <2> QED
      BY <1>2, <2>1, AddAtReferenced
  <1>3. ASSUME NEW i \in 0..MaxSize, NEW payload \in Payloads, Set(i, payload) PROVE Indexed' /\ Referenced'
    <2>1. i \in Nat
      BY MutableAssumption
    <2> QED
      BY <1>3, <2>1, SetReferenced
  <1>4. CASE Seal
    BY <1>4 DEF Seal, Indexed, Referenced, Registered
  <1>5. CASE UNCHANGED vars
    BY <1>5 DEF vars, Indexed, Referenced, Registered
  <1> QED
    BY <1>1, <1>2, <1>3, <1>4, <1>5 DEF Next

\* However cells were written and algorithms added, an algorithm's digests are those of a tree
\* built from scratch in which the cells never hashed under it are null.
THEOREM CacheAlwaysReference == Spec => []CacheIsReference
  <1>1. Init => Indexed /\ Referenced
    BY InitReferenced
  <1>2. Indexed /\ Referenced /\ [Next]_vars => Indexed' /\ Referenced'
    BY NextReferenced
  <1>3. Indexed /\ Referenced => CacheIsReference
    BY ReferencedIs
  <1> QED
    BY <1>1, <1>2, <1>3, PTL DEF Spec

-----------------------------------------------------------------------------
(* Proofs for a cell *)

\* A parent's child toward i is the one that covers i.
LEMMA TowardIs ==
  ASSUME NEW a, NEW n, NEW k, Parent(a, n, k), NEW j \in 1..k, NEW i, i \in n.children[j].covers
  PROVE  Toward(n, i) = j
  <1>1. DOMAIN n.children = 1..k
    BY ChildrenAre, Zenon
  <1>2. \A h \in 1..k : i \in n.children[h].covers => h = j
    BY DEF Parent
  <1>3. Toward(n, i) = CHOOSE h \in 1..k : i \in n.children[h].covers
    BY <1>1, Zenon DEF Toward
  <1> QED
    BY <1>2, <1>3

\* v goes from the node over i alone up to n, through nodes of N over i.
DownTo(a, N, i, v, levels, n) ==
  /\ levels \in Nat /\ v[levels] = n /\ v[0].covers = {i} /\ Line(a, v, levels, i)
  /\ \A m \in 0..levels : v[m] \in N /\ i \in v[m].covers

\* There is such a line to every node over i, of fewer levels than the node has positions.
HasLine(a, N, i, n) == \E v, levels : DownTo(a, N, i, v, levels, n) /\ levels < Cardinality(n.covers)

\* To one of a single position there is one of no levels.
LEMMA SingleHasLine ==
  ASSUME NEW a, NEW f, NEW size \in Nat, NEW N, NEW T, TreeOver(a, f, N, T, size), NEW i, NEW n \in N,
         Single(n, f), i \in n.covers
  PROVE  HasLine(a, N, i, n)
  <1> DEFINE v == [m \in {0} |-> n]
  <1>1. v[0] = n
    OBVIOUS
  <1>2. n.covers = {i} /\ n.children = <<>>
    BY DEF Single
  <1> HIDE DEF v
  <1>3. Line(a, v, 0, i)
    BY <1>1, <1>2 DEF Line
  <1>4. DownTo(a, N, i, v, 0, n)
    BY <1>1, <1>2, <1>3 DEF DownTo
  <1>5. n.covers \subseteq 0..size - 1 /\ n.covers # {}
    BY DEF TreeOver, Node, Positions
  <1>6. 0 < Cardinality(n.covers)
    BY <1>5, PositionsFinite
  <1> QED
    BY <1>4, <1>6 DEF HasLine

\* To a parent there is one through its child.
LEMMA ParentHasLine ==
  ASSUME NEW a, NEW f, NEW size \in Nat, NEW N, NEW T, TreeOver(a, f, N, T, size), NEW i, NEW n \in N,
         NEW k, Parent(a, n, k), \A j \in 1..k : n.children[j] \in N, i \in n.covers,
         \A j \in 1..k : i \in n.children[j].covers => HasLine(a, N, i, n.children[j])
  PROVE  HasLine(a, N, i, n)
  <1>1. k \in Nat /\ k >= 2 /\ n.children = [j \in 1..k |-> n.children[j]]
        /\ n.digest = NaryMr(a, [j \in 1..k |-> n.children[j].digest])
    BY DEF Parent
  <1>2. PICK j \in 1..k : i \in n.children[j].covers
    BY DEF Parent
  <1>3. PICK v, levels : DownTo(a, N, i, v, levels, n.children[j]) /\ levels < Cardinality(n.children[j].covers)
    BY <1>2 DEF HasLine
  <1>4. levels \in Nat /\ v[levels] = n.children[j] /\ v[0].covers = {i} /\ v[0].children = <<>>
        /\ \A m \in 1..levels : Above(a, v[m - 1], v[m], i)
    BY <1>3 DEF DownTo, Line
  <1>5. \A m \in 0..levels : v[m] \in N /\ i \in v[m].covers
    BY <1>3 DEF DownTo
  <1>6. Toward(n, i) = j
    BY <1>2, TowardIs
  <1>7. Above(a, v[levels], n, i)
    BY <1>1, <1>4, <1>6 DEF Above
  <1> DEFINE top == levels + 1
             w == [m \in 0..top |-> IF m <= levels THEN v[m] ELSE n]
  <1>8. top \in Nat /\ w[top] = n /\ \A m \in 0..levels : w[m] = v[m]
    BY <1>4
  <1> HIDE DEF w
  <1>9. \A m \in 1..top : Above(a, w[m - 1], w[m], i)
    <2> SUFFICES ASSUME NEW m \in 1..top PROVE Above(a, w[m - 1], w[m], i)
      OBVIOUS
    <2>1. CASE m <= levels
      <3>1. m \in 1..levels /\ m \in 0..levels /\ m - 1 \in 0..levels
        BY <1>4, <2>1
      <3> QED
        BY <1>4, <1>8, <3>1
    <2>2. CASE m = top
      <3>1. m - 1 = levels /\ levels \in 0..levels
        BY <1>4, <2>2
      <3> QED
        BY <1>7, <1>8, <2>2, <3>1
    <2> QED
      BY <1>4, <2>1, <2>2
  <1>10. w[0] = v[0]
    BY <1>4, <1>8
  <1>11. Line(a, w, top, i)
    BY <1>4, <1>9, <1>10 DEF Line
  <1>12. \A m \in 0..top : w[m] \in N /\ i \in w[m].covers
    <2> SUFFICES ASSUME NEW m \in 0..top PROVE w[m] \in N /\ i \in w[m].covers
      OBVIOUS
    <2>1. CASE m <= levels
      BY <1>4, <1>5, <1>8, <2>1
    <2>2. CASE m = top
      BY <1>8, <2>2
    <2> QED
      BY <1>4, <2>1, <2>2
  <1>13. DownTo(a, N, i, w, top, n)
    BY <1>4, <1>8, <1>10, <1>11, <1>12 DEF DownTo
  <1>14. top < Cardinality(n.covers)
    <2>1. \A h \in 1..k : n.children[h].covers # {}
      BY DEF TreeOver, Node, Positions
    <2>2. n.children[j].covers \subseteq n.covers /\ n.children[j].covers # n.covers
      BY <2>1, ChildCovers
    <2>3. n.covers \subseteq 0..size - 1 /\ n.children[j].covers \subseteq 0..size - 1
      BY DEF TreeOver, Node, Positions
    <2>4. Cardinality(n.children[j].covers) < Cardinality(n.covers)
      BY <2>2, <2>3, PositionsFinite
    <2>5. Cardinality(n.children[j].covers) \in Nat /\ Cardinality(n.covers) \in Nat
      BY <2>3, PositionsFinite
    <2> QED
      BY <1>3, <1>4, <2>4, <2>5
  <1> QED
    BY <1>13, <1>14 DEF HasLine

\* So there is one to the root.
LEMMA LineDown ==
  ASSUME NEW a, NEW f, NEW size \in Nat \ {0}, NEW N, NEW T, TreeOver(a, f, N, T, size), NEW i \in 0..size - 1
  PROVE  \E v : \E levels \in 0..size : DownTo(a, N, i, v, levels, T)
  <1> DEFINE Q == {n \in N : i \in n.covers => HasLine(a, N, i, n)}
  <1>1. ASSUME NEW n \in N, Single(n, f) PROVE n \in Q
    BY <1>1, SingleHasLine
  <1>2. ASSUME NEW n \in N, NEW k, Parent(a, n, k), \A j \in 1..k : n.children[j] \in N /\ n.children[j] \in Q
        PROVE  n \in Q
    <2> SUFFICES ASSUME i \in n.covers PROVE HasLine(a, N, i, n)
      OBVIOUS
    <2>1. \A j \in 1..k : n.children[j] \in N
      BY <1>2
    <2>2. \A j \in 1..k : i \in n.children[j].covers => HasLine(a, N, i, n.children[j])
      BY <1>2
    <2> QED
      BY <1>2, <2>1, <2>2, ParentHasLine
  <1> HIDE DEF Q
  <1>3. Inherited(a, f, N, size, Q)
    BY <1>1, <1>2 DEF Inherited
  <1>4. \A n \in N : n \in Q
    BY <1>3, FromTheLeaves
  <1>5. T \in N /\ i \in T.covers /\ T.covers \subseteq 0..size - 1
    BY DEF TreeOver
  <1>6. HasLine(a, N, i, T)
    BY <1>4, <1>5 DEF Q
  <1>7. PICK v, levels : DownTo(a, N, i, v, levels, T) /\ levels < Cardinality(T.covers)
    BY <1>6 DEF HasLine
  <1>8. Cardinality(T.covers) \in Nat /\ Cardinality(T.covers) <= size
    BY <1>5, PositionsFinite
  <1>9. levels \in 0..size
    BY <1>7, <1>8 DEF DownTo
  <1> QED
    BY <1>7, <1>9

\* x and y have k children, each over what the other's is, and the same one is toward i.
SameTurn(a, i, x, y) ==
  \E k : /\ Parent(a, x, k) /\ Parent(a, y, k) /\ Toward(x, i) \in 1..k /\ Toward(y, i) = Toward(x, i)
         /\ \A j \in 1..k : x.children[j].covers = y.children[j].covers

\* t turns at every level as v does.
Mirrors(a, i, v, t, levels) == \A m \in 1..levels : SameTurn(a, i, v[m], t[m])

\* A line to one root has a mirror to the root of an alike tree.
LEMMA LineMirrored ==
  ASSUME NEW a, NEW l, NEW f, NEW size \in Nat, NEW W, NEW V, TreeOver(a, l, W, V, size),
         NEW N, NEW T, TreeOver(a, f, N, T, size), Alike(a, l, a, f, W, N),
         NEW i, NEW v, NEW levels, DownTo(a, W, i, v, levels, V)
  PROVE  \E t : DownTo(a, N, i, t, levels, T) /\ Mirrors(a, i, v, t, levels)
  <1> DEFINE pick(m) == CHOOSE y \in N : y.covers = v[m].covers
             t == [m \in 0..levels |-> pick(m)]
  <1>1. levels \in Nat /\ v[levels] = V /\ v[0].covers = {i} /\ v[0].children = <<>>
        /\ \A m \in 1..levels : Above(a, v[m - 1], v[m], i)
    BY DEF DownTo, Line
  <1>2. \A m \in 0..levels : v[m] \in W /\ i \in v[m].covers
    BY DEF DownTo
  <1>3. ASSUME NEW m \in 0..levels PROVE t[m] \in N /\ t[m].covers = v[m].covers
    <2>1. \E y \in N : y.covers = v[m].covers
      BY <1>2 DEF Alike
    <2>2. t[m] = pick(m)
      OBVIOUS
    <2> QED
      BY <2>1, <2>2
  <1> HIDE DEF pick, t
  <1>4. \A x, y \in N : x.covers = y.covers => x = y
    BY DEF TreeOver
  <1>5. ASSUME NEW m \in 0..levels PROVE AlikeNodes(a, l, a, f, v[m], t[m])
    BY <1>2, <1>3 DEF Alike
  <1>6. t[levels] = T
    <2>1. V.covers = 0..size - 1 /\ T \in N /\ T.covers = 0..size - 1
      BY DEF TreeOver
    <2>2. levels \in 0..levels
      BY <1>1
    <2> QED
      BY <1>1, <1>3, <1>4, <2>1, <2>2
  <1>7. 0 \in 0..levels
    BY <1>1
  <1>8. t[0].children = <<>>
    <2>1. AlikeNodes(a, l, a, f, v[0], t[0])
      BY <1>5, <1>7
    <2>2. ASSUME NEW k, Parent(a, v[0], k) PROVE FALSE
      <3>1. DOMAIN v[0].children = 1..k
        BY <2>2, ChildrenAre, Zenon
      <3>2. k \in Nat /\ k >= 2
        BY <2>2 DEF Parent
      <3> QED
        BY <1>1, <3>1, <3>2
    <2> QED
      BY <2>1, <2>2 DEF AlikeNodes, Single
  <1>9. ASSUME NEW m \in 1..levels PROVE SameTurn(a, i, v[m], t[m]) /\ Above(a, t[m - 1], t[m], i)
    <2> DEFINE c == Toward(v[m], i)
    <2>1. m \in 0..levels /\ m - 1 \in 0..levels
      BY <1>1
    <2>2. PICK n \in Nat : /\ n >= 2 /\ v[m].children = [j \in 1..n |-> v[m].children[j]]
                           /\ c \in 1..n /\ v[m - 1] = v[m].children[c]
      BY <1>1 DEF Above
    <2>3. v[m].children # <<>> /\ DOMAIN v[m].children = 1..n
      BY <2>2
    <2>4. ~Single(v[m], l)
      BY <2>3 DEF Single
    <2>5. PICK k : Parent(a, v[m], k)
      BY <1>2, <2>1, <2>4 DEF TreeOver, Node
    <2>6. k \in Nat /\ DOMAIN v[m].children = 1..k
      BY <2>5, ChildrenAre, Zenon DEF Parent
    <2>7. c \in 1..k
      BY <2>2, <2>3, <2>6
    <2>8. AlikeNodes(a, l, a, f, v[m], t[m]) /\ t[m] \in N
      BY <1>3, <1>5, <2>1
    <2>9. /\ Parent(a, t[m], k)
          /\ \A j \in 1..k : v[m].children[j].covers = t[m].children[j].covers /\ t[m].children[j] \in N
      BY <2>5, <2>8, AlikeParent
    <2> HIDE DEF c
    <2>10. i \in v[m].children[c].covers
      BY <1>2, <2>1, <2>2
    <2>11. i \in t[m].children[c].covers
      BY <2>7, <2>9, <2>10
    <2>12. Toward(t[m], i) = c
      BY <2>7, <2>9, <2>11, TowardIs
    <2>13. t[m - 1] = t[m].children[c]
      <3>1. t[m].children[c].covers = v[m - 1].covers /\ t[m].children[c] \in N
        BY <2>2, <2>7, <2>9
      <3>2. t[m - 1] \in N /\ t[m - 1].covers = v[m - 1].covers
        BY <1>3, <2>1
      <3> QED
        BY <1>4, <3>1, <3>2
    <2>14. SameTurn(a, i, v[m], t[m])
      BY <2>5, <2>7, <2>9, <2>12 DEF SameTurn, c
    <2>15. k >= 2 /\ t[m].children = [j \in 1..k |-> t[m].children[j]]
           /\ t[m].digest = NaryMr(a, [j \in 1..k |-> t[m].children[j].digest])
      BY <2>9 DEF Parent
    <2>16. Above(a, t[m - 1], t[m], i)
      BY <2>6, <2>7, <2>12, <2>13, <2>15 DEF Above
    <2> QED
      BY <2>14, <2>16
  <1>10. Line(a, t, levels, i)
    BY <1>8, <1>9 DEF Line
  <1>11. t[0].covers = {i}
    BY <1>1, <1>3, <1>7
  <1>12. \A m \in 0..levels : t[m] \in N /\ i \in t[m].covers
    BY <1>2, <1>3
  <1>13. DownTo(a, N, i, t, levels, T)
    BY <1>1, <1>6, <1>10, <1>11, <1>12 DEF DownTo
  <1>14. Mirrors(a, i, v, t, levels)
    BY <1>9 DEF Mirrors
  <1> QED
    BY <1>13, <1>14

\* The path along v with the siblings' digests read from a cache.
CachedPath(v, levels, i, known) ==
  [m \in 1..levels |->
     StepFrom(Toward(v[m], i), [j \in DOMAIN v[m].children |-> known[v[m].children[j].covers]])]

\* Its m-th step lifts to the next node of t, and has the shape of the node of v.
CachedRight(a, v, levels, i, known, t, m) ==
  /\ Lifts(a, CachedPath(v, levels, i, known)[m], t[m - 1].digest, t[m].digest)
  /\ Shape(CachedPath(v, levels, i, known)[m]) =
       [position |-> Toward(v[m], i) - 1, siblings |-> Len(v[m].children) - 1]

\* Its steps are those along the mirror of v in the tree the cache is of.
LEMMA CachedStep ==
  ASSUME NEW a, NEW f, NEW size \in Nat, NEW N, NEW T, TreeOver(a, f, N, T, size), NEW known, DigestsOf(N, known),
         NEW i, NEW v, NEW levels \in Nat, NEW t, DownTo(a, N, i, t, levels, T), Mirrors(a, i, v, t, levels),
         NEW m \in 1..levels
  PROVE  CachedRight(a, v, levels, i, known, t, m)
  <1> DEFINE c == Toward(v[m], i)
             d == [j \in DOMAIN v[m].children |-> known[v[m].children[j].covers]]
             step == CachedPath(v, levels, i, known)[m]
  <1>1. PICK k : /\ Parent(a, v[m], k) /\ Parent(a, t[m], k) /\ c \in 1..k /\ Toward(t[m], i) = c
                 /\ \A j \in 1..k : v[m].children[j].covers = t[m].children[j].covers
    BY DEF Mirrors, SameTurn
  <1>2. k \in Nat /\ k >= 2 /\ t[m].digest = NaryMr(a, [j \in 1..k |-> t[m].children[j].digest])
    BY <1>1 DEF Parent
  <1>3. DOMAIN v[m].children = 1..k
    BY <1>1, ChildrenAre, Zenon
  <1>4. step = StepFrom(c, d)
    BY DEF CachedPath
  <1>5. t[m - 1] = t[m].children[c]
    BY <1>1 DEF DownTo, Line, Above
  <1>6. \A j \in 1..k : t[m].children[j] \in N
    <2>1. t[m] \in N
      BY DEF DownTo
    <2>2. DOMAIN t[m].children = 1..k
      BY <1>1, ChildrenAre, Zenon
    <2>3. ~Single(t[m], f)
      BY <1>2, <2>2 DEF Single
    <2>4. PICK h : Parent(a, t[m], h) /\ \A j \in 1..h : t[m].children[j] \in N
      BY <2>1, <2>3 DEF TreeOver, Node
    <2>5. DOMAIN t[m].children = 1..h
      BY <2>4, ChildrenAre, Zenon
    <2> QED
      BY <2>2, <2>4, <2>5
  <1>7. d = [j \in 1..k |-> t[m].children[j].digest]
    <2>1. \A j \in 1..k : known[v[m].children[j].covers] = t[m].children[j].digest
      BY <1>1, <1>6 DEF DigestsOf
    <2> QED
      BY <1>3, <2>1
  <1> HIDE DEF c, d, step
  <1>8. d = [j \in 1..k |-> d[j]] /\ d[c] = t[m - 1].digest /\ t[m].digest = NaryMr(a, d)
    BY <1>1, <1>2, <1>5, <1>7
  <1>9. Lifts(a, step, t[m - 1].digest, t[m].digest)
    BY <1>1, <1>2, <1>4, <1>8 DEF Lifts
  <1>10. Shape(step) = [position |-> c - 1, siblings |-> k - 1]
    BY <1>1, <1>2, <1>4, <1>8, StepIs
  <1>11. Len(v[m].children) = k
    <2>1. v[m].children = [j \in 1..k |-> v[m].children[j]]
      BY <1>1 DEF Parent
    <2> QED
      BY <1>2, <2>1, FcnIsSeq
  <1> QED
    BY <1>9, <1>10, <1>11 DEF CachedRight, c, step

\* So it leads from the digest of the node over i to the root's.
LEMMA CachedPathLeads ==
  ASSUME NEW a, NEW f, NEW size \in Nat, NEW N, NEW T, TreeOver(a, f, N, T, size), NEW known, DigestsOf(N, known),
         NEW i, NEW v, NEW levels \in Nat, NEW t, DownTo(a, N, i, t, levels, T), Mirrors(a, i, v, t, levels)
  PROVE  Leads(a, CachedPath(v, levels, i, known), levels, known[{i}], T.digest)
  <1> DEFINE p == CachedPath(v, levels, i, known)
             x == [m \in 0..levels |-> t[m].digest]
  <1>1. p = [m \in 1..levels |-> p[m]]
    BY DEF CachedPath
  <1>2. \A m \in 1..levels : Lifts(a, p[m], t[m - 1].digest, t[m].digest)
    BY CachedStep DEF CachedRight
  <1>3. t[levels] = T /\ t[0].covers = {i} /\ t[0] \in N
    BY DEF DownTo
  <1>4. known[{i}] = t[0].digest
    <2>1. known[t[0].covers] = t[0].digest
      BY <1>3 DEF DigestsOf
    <2> QED
      BY <1>3, <2>1
  <1>5. \A m \in 0..levels : x[m] = t[m].digest
    OBVIOUS
  <1> HIDE DEF p, x
  <1>6. x[0] = known[{i}] /\ x[levels] = T.digest
    BY <1>3, <1>4, <1>5
  <1>7. LeadsBy(a, p, levels, x)
    <2> SUFFICES ASSUME NEW m \in 1..levels PROVE Lifts(a, p[m], x[m - 1], x[m])
      BY DEF LeadsBy
    <2>1. m \in 0..levels /\ m - 1 \in 0..levels
      OBVIOUS
    <2> QED
      BY <1>2, <1>5, <2>1
  <1> QED
    BY <1>1, <1>6, <1>7 DEF Leads, p

\* What the shapes of the path to i in a tree of the size are.
SkeletonOf(v, levels, i) ==
  [m \in 1..levels |-> [position |-> Toward(v[m], i) - 1, siblings |-> Len(v[m].children) - 1]]

\* RebalancedSkeleton has them.
LEMMA SkeletonIs ==
  ASSUME NEW a, NEW size \in Nat \ {0}, NEW l, NEW i, NEW v, NEW levels \in 0..size,
         DownTo(a, NodesOf(Build(a, l, size), size), i, v, levels, Build(a, l, size))
  PROVE  RebalancedSkeleton(a, size, i) = SkeletonOf(v, levels, i)
  <1> DEFINE n == [j \in 0..size - 1 |-> Null(a)]
             V == Build(a, l, size)
             Z == Build(a, n, size)
             W == NodesOf(V, size)
             M == NodesOf(Z, size)
             path == TreePath(Z, i, size)
  <1>1. RebalancedSkeleton(a, size, i) = [m \in DOMAIN path |-> Shape(path[m])]
    BY DEF RebalancedSkeleton
  <1>2. TreeOver(a, l, W, V, size) /\ Alike(a, l, a, n, W, M)
    BY BuiltAlike
  <1>3. TreeOver(a, n, M, Z, size)
    BY BuiltAlike
  <1>4. DownTo(a, W, i, v, levels, V)
    OBVIOUS
  <1> HIDE DEF n, V, Z, W, M
  <1>5. PICK z : DownTo(a, M, i, z, levels, Z) /\ Mirrors(a, i, v, z, levels)
    BY <1>2, <1>3, <1>4, LineMirrored
  <1>6. Line(a, z, levels, i) /\ z[levels] = Z
    BY <1>5 DEF DownTo
  <1>7. path = TreePath(z[levels], i, size)
    BY <1>6
  <1> HIDE DEF path
  <1>8. AlongLine(a, i, z, levels, path)
    BY <1>6, <1>7, TreePathLeads
  <1>9. DOMAIN path = 1..levels
    <2>1. path = [m \in 1..levels |-> path[m]]
      BY <1>8 DEF AlongLine, Leads
    <2> QED
      BY <2>1
  <1>10. ASSUME NEW m \in 1..levels
         PROVE  Shape(path[m]) = [position |-> Toward(v[m], i) - 1, siblings |-> Len(v[m].children) - 1]
    <2>1. Shape(path[m]) = [position |-> Toward(z[m], i) - 1, siblings |-> Len(z[m].children) - 1]
      BY <1>8 DEF AlongLine
    <2>2. PICK k : Parent(a, v[m], k) /\ Parent(a, z[m], k) /\ Toward(z[m], i) = Toward(v[m], i)
      BY <1>5 DEF Mirrors, SameTurn
    <2>3. k \in Nat /\ v[m].children = [j \in 1..k |-> v[m].children[j]] /\ z[m].children = [j \in 1..k |-> z[m].children[j]]
      BY <2>2 DEF Parent
    <2>4. Len(v[m].children) = k
      BY <2>3, FcnIsSeq
    <2>5. Len(z[m].children) = k
      BY <2>3, FcnIsSeq
    <2> QED
      BY <2>1, <2>2, <2>4, <2>5
  <1> QED
    BY <1>1, <1>9, <1>10 DEF SkeletonOf

\* The nodes crossed are those of a line.
LEMMA CrossedLine ==
  ASSUME NEW a, NEW i, NEW size \in Nat, NEW levels \in 0..size, NEW v, Line(a, v, levels, i),
         NEW c, c = Crossed(v[levels], i, size)
  PROVE  c = [m \in 1..levels |-> v[m]]
  <1>1. Crossed(v[levels], i, size) = [m \in 1..levels |-> v[m]]
    BY CrossedIs
  <1> QED
    BY <1>1

\* The path to i, over the nodes of the tree with leaves l, read from a cache.
PathFrom(a, l, size, i, known) ==
  LET crossed == Crossed(Build(a, l, size), i, size)
  IN  [n \in DOMAIN crossed |->
         StepFrom(Toward(crossed[n], i),
                  [j \in DOMAIN crossed[n].children |-> known[crossed[n].children[j].covers]])]

\* It leads from the leaf that is cached to the root.
VerifiesFrom(a, l, size, i, known, leaf, top) ==
  /\ known[{i}] = leaf
  /\ ReconstructInclusionRoot(a, leaf, RebalancedSkeleton(a, size, i), PathFrom(a, l, size, i, known)) = top

\* The path read from the cache of a tree, verified against the shapes of its size.
LEMMA CachedProofVerifies ==
  ASSUME NEW a, NEW size \in Nat \ {0}, NEW l, NEW f, NEW i \in 0..size - 1
  PROVE  VerifiesFrom(a, l, size, i, Digests(Build(a, f, size), size), f[i], Build(a, f, size).digest)
  <1> DEFINE V == Build(a, l, size)
             T == Build(a, f, size)
             W == NodesOf(V, size)
             N == NodesOf(T, size)
             known == Digests(T, size)
             crossed == Crossed(V, i, size)
             path == PathFrom(a, l, size, i, known)
             skeleton == RebalancedSkeleton(a, size, i)
  <1>1. TreeOver(a, l, W, V, size) /\ Alike(a, l, a, f, W, N)
    BY BuiltAlike
  <1>2. TreeOver(a, f, N, T, size)
    BY BuiltAlike
  <1>3. DigestsOf(N, known)
    BY <1>2, DigestsAre
  <1>17. path = [n \in DOMAIN crossed |->
                   StepFrom(Toward(crossed[n], i),
                            [j \in DOMAIN crossed[n].children |-> known[crossed[n].children[j].covers]])]
    BY Zenon DEF PathFrom
  <1> HIDE DEF known, path
  <1>4. PICK v : \E levels \in 0..size : DownTo(a, W, i, v, levels, V)
    <2> HIDE DEF W, V
    <2> QED
      BY <1>1, LineDown
  <1>5. PICK levels \in 0..size : DownTo(a, W, i, v, levels, V)
    BY <1>4
  <1>6. skeleton = SkeletonOf(v, levels, i)
    BY <1>5, SkeletonIs
  <1> HIDE DEF V, T, W, N, skeleton
  <1>7. PICK t : DownTo(a, N, i, t, levels, T) /\ Mirrors(a, i, v, t, levels)
    BY <1>1, <1>2, <1>5, LineMirrored
  <1>8. crossed = [m \in 1..levels |-> v[m]]
    <2>1. Line(a, v, levels, i) /\ v[levels] = V
      BY <1>5 DEF DownTo
    <2>3. size \in Nat /\ levels \in 0..size
      OBVIOUS
    <2>2. crossed = Crossed(v[levels], i, size)
      BY <2>1
    <2> HIDE DEF crossed
    <2> QED
      BY ONLY SMTT(30), <2>1, <2>2, <2>3, CrossedLine
  <1> HIDE DEF crossed
  <1>9. path = CachedPath(v, levels, i, known)
    BY <1>8, <1>17 DEF CachedPath
  <1>10. levels \in Nat
    OBVIOUS
  <1>11. Leads(a, path, levels, known[{i}], T.digest)
    BY <1>2, <1>3, <1>7, <1>9, <1>10, CachedPathLeads
  <1>12. Len(path) = levels /\ Len(skeleton) = levels /\ DOMAIN skeleton = 1..levels
    <2>1. path = [m \in 1..levels |-> path[m]]
      BY <1>11 DEF Leads
    <2>2. skeleton = [m \in 1..levels |-> skeleton[m]]
      BY <1>6 DEF SkeletonOf
    <2>3. Len(path) = levels
      BY <1>10, <2>1, FcnIsSeq
    <2>4. Len(skeleton) = levels /\ DOMAIN skeleton = 1..levels
      BY <1>10, <2>2, FcnIsSeq
    <2> QED
      BY <2>3, <2>4
  <1>13. ASSUME NEW m \in 1..levels PROVE Shape(path[m]) = skeleton[m]
    <2>1. Shape(path[m]) = [position |-> Toward(v[m], i) - 1, siblings |-> Len(v[m].children) - 1]
      <3>1. CachedRight(a, v, levels, i, known, t, m)
        BY <1>2, <1>3, <1>7, <1>10, CachedStep
      <3> QED
        BY <1>9, <3>1 DEF CachedRight
    <2>2. skeleton[m] = [position |-> Toward(v[m], i) - 1, siblings |-> Len(v[m].children) - 1]
      BY <1>6 DEF SkeletonOf
    <2> QED
      BY <2>1, <2>2
  <1>14. Fits(path, skeleton)
    <2>1. \A m \in 1..levels : Len(path) - Len(skeleton) + m = m
      BY <1>10, <1>12
    <2> QED
      BY <1>10, <1>12, <1>13, <2>1 DEF Fits
  <1>15. ReconstructInclusionRoot(a, known[{i}], skeleton, path) = T.digest
    BY <1>11, <1>14, VerifierFollows
  <1>16. known[{i}] = f[i]
    <2>1. t[0] \in N /\ t[0].covers = {i} /\ t[0].children = <<>>
      BY <1>7, <1>10 DEF DownTo, Line
    <2>2. ASSUME NEW k, Parent(a, t[0], k) PROVE FALSE
      <3>1. DOMAIN t[0].children = 1..k
        BY <2>2, ChildrenAre, Zenon
      <3>2. k \in Nat /\ k >= 2
        BY <2>2 DEF Parent
      <3> QED
        BY <2>1, <3>1, <3>2
    <2>3. Single(t[0], f)
      BY <1>2, <2>1, <2>2 DEF TreeOver, Node
    <2>4. PICK h : t[0].covers = {h} /\ t[0].digest = f[h]
      BY <2>3 DEF Single
    <2>5. h = i
      BY <2>1, <2>4
    <2>6. known[t[0].covers] = t[0].digest
      BY <1>3, <2>1 DEF DigestsOf
    <2> QED
      BY <2>1, <2>4, <2>5, <2>6
  <1> QED
    BY <1>15, <1>16 DEF VerifiesFrom, path, skeleton, known, T

\* Every proof of a tree whose caches are those of its cells leads to the root.
LEMMA ReferenceProofs ==
  ASSUME Indexed, Referenced
  PROVE  ProofsVerify
  <1> SUFFICES ASSUME NEW a \in Registered, NEW i \in 0..Size - 1, i \in hashed[a] \/ HasNonMembershipProof(a, i)
               PROVE  LET proof == InclusionProof(a, i)
                      IN  /\ HasNonMembershipProof(a, i) => cache[a][{i}] = Null(a)
                          /\ root[a] = ReconstructInclusionRoot(a, proof.leaf, RebalancedSkeleton(a, Size, i),
                                                                proof.path)
    BY Zenon DEF ProofsVerify
  <1> DEFINE f == LeafAt(a, cells, hashed[a])
             l == Leaves(a, cells)
             proof == InclusionProof(a, i)
  <1>1. Size \in Nat \ {0} /\ Size = Len(cells) /\ Len(cells) > 0
    BY DEF Indexed, Size
  <1>2. cache[a] = Digests(Build(a, f, Size), Size) /\ root[a] = Build(a, f, Size).digest
    BY <1>1 DEF Referenced, Reference
  <1>3. proof.leaf = LeafHash(a, cells[i + 1]) /\ proof.path = PathFrom(a, l, Size, i, cache[a])
    BY DEF InclusionProof, PathFrom
  <1>4. f[i] = LeafHash(a, cells[i + 1])
    <2>1. f[i] = IF i \in hashed[a] THEN LeafHash(a, cells[i + 1]) ELSE Null(a)
      BY <1>1 DEF LeafAt
    <2> QED
      BY <2>1 DEF HasNonMembershipProof
  <1> HIDE DEF f, proof
  <1>5. VerifiesFrom(a, l, Size, i, Digests(Build(a, f, Size), Size), f[i], Build(a, f, Size).digest)
    BY <1>1, CachedProofVerifies
  <1>6. VerifiesFrom(a, l, Size, i, cache[a], LeafHash(a, cells[i + 1]), root[a])
    BY <1>2, <1>4, <1>5
  <1>8. HasNonMembershipProof(a, i) => cache[a][{i}] = Null(a)
    BY <1>6 DEF HasNonMembershipProof, VerifiesFrom
  <1>9. root[a] = ReconstructInclusionRoot(a, proof.leaf, RebalancedSkeleton(a, Size, i), proof.path)
    BY <1>3, <1>6 DEF VerifiesFrom
  <1> QED
    BY <1>8, <1>9 DEF proof

\* A proof for a cell hashed under an algorithm leads to its root, and so does a proof for a
\* position that is null in the tree, whether it was hashed or not.
THEOREM ProofsAlwaysVerify == Spec => []ProofsVerify
  <1>1. Init => Indexed /\ Referenced
    BY InitReferenced
  <1>2. Indexed /\ Referenced /\ [Next]_vars => Indexed' /\ Referenced'
    BY NextReferenced
  <1>3. Indexed /\ Referenced => ProofsVerify
    BY ReferenceProofs
  <1> QED
    BY <1>1, <1>2, <1>3, PTL DEF Spec

-----------------------------------------------------------------------------
(* Sealing *)

\* A fold has a digest that comes of the digests folded.
LEMMA FoldDigestOnly ==
  ASSUME NEW a, NEW n \in Nat \ {0}, NEW s, s = [j \in 1..n |-> s[j]], NEW t, t = [j \in 1..n |-> t[j]],
         \A j \in 1..n : s[j].digest = t[j].digest
  PROVE  FoldFrontier(a, s).digest = FoldFrontier(a, t).digest
  <1>1. Len(s) = n /\ Len(t) = n
    BY FcnIsSeq
  <1>2. CASE n = 1
    <2>1. FoldFrontier(a, s) = s[1] /\ FoldFrontier(a, t) = t[1]
      BY <1>1, <1>2 DEF FoldFrontier
    <2>2. 1 \in 1..n
      OBVIOUS
    <2> QED
      BY <2>1, <2>2
  <1>3. CASE n # 1
    <2>1. n \in Nat /\ n >= 2
      BY <1>3
    <2>2. PICK F : Folds(a, s, n, F)
      <3>1. Len(s) \in Nat /\ Len(s) >= 2
        BY <1>1, <2>1
      <3>2. \E F : Folds(a, s, Len(s), F)
        BY ONLY <3>1, FoldIs
      <3> QED
        BY <1>1, <3>2
    <2>3. PICK G : Folds(a, t, n, G)
      <3>1. Len(t) \in Nat /\ Len(t) >= 2
        BY <1>1, <2>1
      <3>2. \E G : Folds(a, t, Len(t), G)
        BY ONLY <3>1, FoldIs
      <3> QED
        BY <1>1, <3>2
    <2> DEFINE m == FoldSteps(n)
               S == {r \in Nat : r <= m => F[r].digest = G[r].digest}
    <2>4. m \in Nat
      BY <2>1, Stages
    <2>5. 0 \in S
      <3>1. F[0] = s[n] /\ G[0] = t[n]
        BY <2>2, <2>3 DEF Folds
      <3> QED
        BY <3>1
    <2>6. ASSUME NEW q \in Nat, q \in S PROVE q + 1 \in S
      <3> SUFFICES ASSUME q + 1 <= m PROVE F[q + 1].digest = G[q + 1].digest
        OBVIOUS
      <3> DEFINE r == q + 1
                 w == Width(n, r)
                 x == First(n, r)
      <3>1. r \in 1..FoldSteps(n) /\ r - 1 = q
        BY <2>4
      <3>2. F[q].digest = G[q].digest
        BY <2>4, <2>6
      <3>4. FoldNode(a, s, n, F, r)
        BY <2>1, <2>2, <3>1, FoldNodes
      <3>5. FoldNode(a, t, n, G, r)
        BY <2>1, <2>3, <3>1, FoldNodes
      <3>6. /\ w \in Nat /\ w >= 2
            /\ F[r].children = [j \in 1..w |-> IF j < w THEN s[x + j - 1] ELSE F[q]]
            /\ F[r].digest = NaryMr(a, [j \in 1..w |-> F[r].children[j].digest])
        BY <3>1, <3>4 DEF FoldNode
      <3>7. /\ G[r].children = [j \in 1..w |-> IF j < w THEN t[x + j - 1] ELSE G[q]]
            /\ G[r].digest = NaryMr(a, [j \in 1..w |-> G[r].children[j].digest])
        BY <3>1, <3>5 DEF FoldNode
      <3>8. \A j \in 1..w : j < w => x + j - 1 \in 1..n
        <4>1. r \in 0..FoldSteps(n) /\ r - 1 \in 0..FoldSteps(n)
          BY <2>4, <3>1
        <4>2. First(n, r) \in 1..n /\ First(n, r - 1) \in 1..n /\ First(n, r) < First(n, r - 1)
          BY <2>1, <3>1, <4>1, Stages
        <4>3. w = First(n, r - 1) - First(n, r) + 1
          BY DEF Width
        <4> QED
          BY <4>2, <4>3
      <3> HIDE DEF w, x, r
      <3>9. ASSUME NEW j \in 1..w PROVE F[r].children[j].digest = G[r].children[j].digest
        <4>1. CASE j < w
          <5>1. F[r].children[j] = s[x + j - 1] /\ G[r].children[j] = t[x + j - 1]
            BY <3>6, <3>7, <4>1
          <5> QED
            BY <3>8, <4>1, <5>1
        <4>2. CASE ~(j < w)
          <5>1. F[r].children[j] = F[q] /\ G[r].children[j] = G[q]
            BY <3>6, <3>7, <4>2
          <5> QED
            BY <3>2, <5>1
        <4> QED
          BY <4>1, <4>2
      <3>10. [j \in 1..w |-> F[r].children[j].digest] = [j \in 1..w |-> G[r].children[j].digest]
        BY <3>9
      <3>11. F[r].digest = G[r].digest
        BY <3>6, <3>7, <3>10
      <3> QED
        BY <3>11 DEF r
    <2> HIDE DEF S
    <2>7. \A r \in Nat : r \in S
      BY <2>5, <2>6, SetInduction
    <2>8. F[m].digest = G[m].digest
      BY <2>4, <2>7 DEF S
    <2> QED
      BY <2>2, <2>3, <2>8 DEF Folds
  <1> QED
    BY <1>2, <1>3

\* The nodes folded are nodes of any tree the fold is one of.
LEMMA FoldedAreNodes ==
  ASSUME NEW a, NEW f, NEW size \in Nat, NEW N, NEW T, TreeOver(a, f, N, T, size),
         NEW n \in Nat \ {0}, NEW s, s = [j \in 1..n |-> s[j]], Apart(s, n), T = FoldFrontier(a, s)
  PROVE  \A j \in 1..n : s[j] \in N
  <1>1. Len(s) = n /\ T \in N
    BY FcnIsSeq DEF TreeOver
  <1>2. CASE n = 1
    <2>1. T = s[1]
      BY <1>1, <1>2 DEF FoldFrontier
    <2> QED
      BY <1>1, <1>2, <2>1
  <1>3. CASE n # 1
    <2>1. n \in Nat /\ n >= 2
      BY <1>3
    <2>2. PICK F : Folds(a, s, n, F)
      BY <1>1, <2>1, FoldIs
    <2> DEFINE m == FoldSteps(n)
               S == {q \in Nat : q <= m => F[m - q] \in N}
    <2>3. m \in Nat /\ T = F[m] /\ m - 0 = m
      BY <2>1, <2>2, Stages DEF Folds
    <2>4. ASSUME NEW r \in 1..m, F[r] \in N
          PROVE  F[r - 1] \in N /\ \A j \in First(n, r)..First(n, r - 1) - 1 : s[j] \in N
      <3> DEFINE w == Width(n, r)
      <3>1. Parent(a, F[r], w) /\ TakesIn(F, s, n, r)
        BY <2>1, <2>2, FoldParents
      <3>2. DOMAIN F[r].children = 1..w /\ w \in Nat /\ w >= 2
        BY <3>1, ChildrenAre, Zenon DEF Parent
      <3>3. ~Single(F[r], f)
        BY <3>2 DEF Single
      <3>4. PICK k : Parent(a, F[r], k) /\ \A j \in 1..k : F[r].children[j] \in N
        BY <2>4, <3>3 DEF TreeOver, Node
      <3>5. 1..k = 1..w
        BY <3>2, <3>4, ChildrenAre, Zenon
      <3>6. \A j \in 1..w : F[r].children[j] = IF j < w THEN s[First(n, r) + j - 1] ELSE F[r - 1]
        BY <3>1 DEF TakesIn
      <3>7. \A j \in 1..w : F[r].children[j] \in N
        BY <3>4, <3>5
      <3>8. w = First(n, r - 1) - First(n, r) + 1
        BY DEF Width
      <3>9. First(n, r) \in 1..n /\ First(n, r - 1) \in 1..n
        <4>1. r \in 0..m /\ r - 1 \in 0..m
          BY <2>3
        <4> QED
          BY <2>1, <4>1, Stages
      <3> HIDE DEF w
      <3>10. F[r - 1] \in N
        <4>1. w \in 1..w /\ ~(w < w)
          BY <3>2
        <4> QED
          BY <3>6, <3>7, <4>1
      <3>11. ASSUME NEW j \in First(n, r)..First(n, r - 1) - 1 PROVE s[j] \in N
        <4>1. j - First(n, r) + 1 \in 1..w /\ j - First(n, r) + 1 < w /\ First(n, r) + (j - First(n, r) + 1) - 1 = j
          BY <3>8, <3>9
        <4> QED
          BY <3>6, <3>7, <4>1
      <3> QED
        BY <3>10, <3>11
    <2>5. 0 \in S
      BY <1>1, <2>3
    <2>6. ASSUME NEW q \in Nat, q \in S PROVE q + 1 \in S
      <3> SUFFICES ASSUME q + 1 <= m PROVE F[m - (q + 1)] \in N
        OBVIOUS
      <3>1. m - q \in 1..m /\ (m - q) - 1 = m - (q + 1) /\ q <= m
        BY <2>3
      <3>2. F[m - q] \in N
        BY <2>6, <3>1
      <3>3. F[(m - q) - 1] \in N
        BY <2>4, <3>1, <3>2
      <3> QED
        BY <3>1, <3>3
    <2> HIDE DEF S
    <2>7. \A q \in Nat : q \in S
      BY <2>5, <2>6, SetInduction
    <2>8. ASSUME NEW r \in 0..m PROVE F[r] \in N
      <3>1. m - r \in Nat /\ m - r <= m /\ m - (m - r) = r
        BY <2>3
      <3>2. F[m - (m - r)] \in N
        BY <2>7, <3>1 DEF S
      <3> QED
        BY <3>1, <3>2
    <2> SUFFICES ASSUME NEW j \in 1..n PROVE s[j] \in N
      OBVIOUS
    <2>9. CASE j = n
      <3>1. F[0] = s[n] /\ 0 \in 0..m
        BY <2>2, <2>3 DEF Folds
      <3> QED
        BY <2>8, <2>9, <3>1
    <2>10. CASE j # n
      <3> DEFINE e == FoldEntry(n, j)
      <3>1. e \in 1..m /\ First(n, e) <= j /\ (e = 1 \/ j < First(n, e - 1))
        BY <2>1, Entered
      <3>2. j < First(n, e - 1)
        <4>1. First(n, 0) = n
          BY <2>1, Stages
        <4>2. e = 1 => First(n, e - 1) = n
          BY <4>1
        <4>3. e = 1 => j < First(n, e - 1)
          BY <2>10, <4>2
        <4> QED
          BY <3>1, <4>3
      <3>3. e \in 0..m /\ e - 1 \in 0..m
        BY <2>3, <3>1
      <3>4. First(n, e) \in 1..n /\ First(n, e - 1) \in 1..n
        BY <2>1, <3>3, Stages
      <3>5. F[e] \in N
        BY <2>8, <3>3
      <3> HIDE DEF e
      <3>6. j \in First(n, e)..First(n, e - 1) - 1
        BY <3>1, <3>2, <3>4
      <3> QED
        BY <2>4, <3>1, <3>5, <3>6
    <2> QED
      BY <2>9, <2>10
  <1> QED
    BY <1>2, <1>3

\* A bag of the peaks of a tree has its root.
BagsTo(a, peaks, top) == peaks # <<>> /\ BagPeaks(a, peaks) = top

\* So do peaks that have the digests of the nodes folded.
LEMMA BagIsFold ==
  ASSUME NEW a, NEW n \in Nat \ {0}, NEW s, s = [j \in 1..n |-> s[j]],
         NEW peaks, peaks = [j \in 1..n |-> s[j].digest]
  PROVE  BagsTo(a, peaks, FoldFrontier(a, s).digest)
  <1> DEFINE t == [j \in DOMAIN peaks |-> [covers |-> {j}, digest |-> peaks[j], children |-> <<>>]]
  <1>1. peaks = [j \in 1..n |-> peaks[j]] /\ DOMAIN peaks = 1..n
    OBVIOUS
  <1>2. peaks # <<>>
    <2>1. Len(peaks) = n
      BY <1>1, FcnIsSeq
    <2> QED
      BY <2>1
  <1>3. BagPeaks(a, peaks) = FoldFrontier(a, t).digest
    BY <1>2, Zenon DEF BagPeaks, BagTree
  <1>4. t = [j \in 1..n |-> t[j]] /\ \A j \in 1..n : s[j].digest = t[j].digest
    BY <1>1
  <1> HIDE DEF t
  <1>5. FoldFrontier(a, s).digest = FoldFrontier(a, t).digest
    BY <1>4, FoldDigestOnly
  <1> QED
    BY <1>2, <1>3, <1>5 DEF BagsTo

\* The peaks read from the cache of a tree of that size.
PeaksFrom(known, size) ==
  LET at == FrontierForSize(size)
  IN  [f \in DOMAIN at |-> known[at[f][1]..at[f][1] + BlockSize(at[f][2]) - 1]]

\* They bag to its root: they are the nodes it is folded from.
LEMMA CachedPeaksBag ==
  ASSUME NEW a, NEW f, NEW size \in Nat \ {0}
  PROVE  BagsTo(a, PeaksFrom(Digests(Build(a, f, size), size), size), Build(a, f, size).digest)
  <1> DEFINE at == FrontierForSize(size)
             n == Len(at)
             s == [j \in DOMAIN at |-> Perfect(a, f, at[j][1], at[j][2])]
             T == Build(a, f, size)
             N == NodesOf(T, size)
             known == Digests(T, size)
             peaks == PeaksFrom(known, size)
  <1>1. T = FoldFrontier(a, s)
    BY DEF Build
  <1>2. Covers(at, 0, size)
    BY FrontierCovers
  <1>3. n \in Nat /\ at \in Seq(Coordinates) /\ DOMAIN at = 1..n
    BY <1>2 DEF Covers
  <1>4. s = [j \in 1..n |-> s[j]]
    BY <1>3
  <1>5. n # 0
    <2>1. \E i \in 1..Len(at) : at[i][1] <= 0 /\ 0 < End(at[i])
      BY <1>2, PositionUnderPeak
    <2> QED
      BY <1>3, <2>1
  <1>6. TreeOver(a, f, N, T, size)
    BY BuiltAlike
  <1>7. DigestsOf(N, known)
    BY <1>6, DigestsAre
  <1>8. peaks = [j \in 1..n |-> known[at[j][1]..at[j][1] + BlockSize(at[j][2]) - 1]]
    BY <1>3, Zenon DEF PeaksFrom
  <1>9. ASSUME NEW j \in 1..n
        PROVE  /\ s[j].covers = at[j][1]..at[j][1] + BlockSize(at[j][2]) - 1
               /\ at[j][1] + BlockSize(at[j][2]) - 1 = End(at[j]) - 1
    <2>1. s[j] = Perfect(a, f, at[j][1], at[j][2])
      BY <1>3
    <2> HIDE DEF s
    <2>2. at[j] \in Coordinates
      BY <1>3
    <2>3. at[j][1] \in Nat /\ at[j][2] \in Nat /\ End(at[j]) = at[j][1] + BlockSize(at[j][2])
      BY <2>2, CoordinateIsPair DEF End
    <2>4. Perfect(a, f, at[j][1], at[j][2]).covers = at[j][1]..at[j][1] + BlockSize(at[j][2]) - 1
      BY <2>3, PerfectCovers
    <2>5. s[j].covers = at[j][1]..at[j][1] + BlockSize(at[j][2]) - 1
      BY ONLY <2>1, <2>4
    <2>6. at[j][1] + BlockSize(at[j][2]) - 1 = End(at[j]) - 1
      <3>1. BlockSize(at[j][2]) \in Nat
        BY <2>3, BlockSizes
      <3>2. End(at[j]) \in Nat
        BY <2>3, <3>1
      <3> QED
        BY ONLY <2>3, <3>1, <3>2
    <2> QED
      BY <2>5, <2>6
  <1> HIDE DEF s, T, N, known, peaks
  <1>10. Apart(s, n)
    <2>1. \A j \in 1..Len(at) : s[j].covers = at[j][1]..End(at[j]) - 1
      BY <1>9
    <2>2. size \in Nat
      OBVIOUS
    <2> HIDE DEF at
    <2>3. Apart(s, Len(at))
      BY <1>2, <2>1, <2>2, PeaksApart
    <2> QED
      BY <2>3
  <1> HIDE DEF n, at
  <1>11. n \in Nat \ {0} /\ size \in Nat
    BY <1>3, <1>5
  <1>12. \A j \in 1..n : s[j] \in N
    BY <1>1, <1>4, <1>6, <1>10, <1>11, FoldedAreNodes
  <1>13. \A j \in 1..n : known[s[j].covers] = s[j].digest
    BY <1>7, <1>12 DEF DigestsOf
  <1>14. peaks = [j \in 1..n |-> s[j].digest]
    BY <1>8, <1>9, <1>13
  <1>15. BagsTo(a, peaks, FoldFrontier(a, s).digest)
    BY <1>4, <1>11, <1>14, BagIsFold
  <1> QED
    BY <1>1, <1>15 DEF T, known, peaks

\* The roots are a function, and a seal has the size and the cached peaks of the tree.
SealedTree ==
  /\ root = [a \in Registered |-> root[a]]
  /\ sealed # NoSeal =>
       /\ Size \in Nat \ {0} /\ DOMAIN sealed.frontiers = Registered /\ sealed.size = Size
       /\ \A a \in Registered : sealed.frontiers[a] = PeaksFrom(cache[a], Size)

\* So it folds to the roots the tree had.
LEMMA SealedFolds ==
  ASSUME Indexed, Referenced, SealedTree
  PROVE  SealFoldsToRoots
  <1> SUFFICES ASSUME sealed # NoSeal PROVE /\ MemberRoots(EpochSeal) = root
                                            /\ \A a \in DOMAIN sealed.frontiers : BindingRoot(EpochSeal, a) = TreeCombinedRoot(a)
    BY Zenon DEF SealFoldsToRoots
  <1>1. Size \in Nat \ {0} /\ DOMAIN sealed.frontiers = Registered /\ sealed.size = Size
    BY DEF SealedTree
  <1>2. ASSUME NEW a \in Registered PROVE BagPeaks(a, sealed.frontiers[a]) = root[a]
    <2> DEFINE leaf == LeafAt(a, cells, hashed[a])
    <2>1. Reference(a, cache[a], root[a], cells, hashed[a])
      BY DEF Referenced
    <2>2. Len(cells) > 0 /\ Len(cells) = Size
      BY <1>1 DEF Size
    <2>3. cache[a] = Digests(Build(a, leaf, Size), Size) /\ root[a] = Build(a, leaf, Size).digest
      BY <2>1, <2>2 DEF Reference
    <2> HIDE DEF leaf
    <2>4. BagsTo(a, PeaksFrom(Digests(Build(a, leaf, Size), Size), Size), Build(a, leaf, Size).digest)
      BY <1>1, CachedPeaksBag
    <2>5. sealed.frontiers[a] = PeaksFrom(cache[a], Size)
      BY DEF SealedTree
    <2> QED
      BY <2>3, <2>4, <2>5 DEF BagsTo
  <1>3. EpochSeal.frontiers = sealed.frontiers /\ EpochSeal.size = Size
        /\ EpochSeal.epochs = OpenTimeline(Registered)
    BY <1>1 DEF EpochSeal
  <1>4. MemberRoots(EpochSeal) = [a \in Registered |-> BagPeaks(a, sealed.frontiers[a])]
    BY <1>1, <1>3, Zenon DEF MemberRoots
  <1>5. MemberRoots(EpochSeal) = [a \in Registered |-> root[a]]
    BY <1>2, <1>4
  <1>6. MemberRoots(EpochSeal) = root
    BY <1>5 DEF SealedTree
  <1>7. ASSUME NEW a \in Registered PROVE BindingRoot(EpochSeal, a) = TreeCombinedRoot(a)
    <2>1. BindingRoot(EpochSeal, a) = CombinedRoot(a, root, OpenTimeline(Registered), Size)
      BY <1>3, <1>6, Zenon DEF BindingRoot
    <2>2. Size # 0
      BY <1>1
    <2>3. TreeCombinedRoot(a) = CombinedRoot(a, root, OpenTimeline(Registered), Size)
      BY <2>2, Zenon DEF TreeCombinedRoot
    <2> QED
      BY <2>1, <2>3
  <1> QED
    BY <1>1, <1>6, <1>7

\* A root added by With makes a function.
LEMMA WithIsFunction ==
  ASSUME NEW f, NEW a, NEW v, NEW w, w = With(f, a, v)
  PROVE  w = [b \in DOMAIN w |-> w[b]]
  BY DEF With

\* Every step keeps the seal: a sealed tree does not change.
LEMMA NextSealedTree ==
  ASSUME Indexed, SealedTree, [Next]_vars
  PROVE  SealedTree'
  <1>1. ASSUME NEW a, NEW known, NEW top, cache' = With(cache, a, known), root' = With(root, a, top),
               sealed = NoSeal, sealed' = sealed
        PROVE  SealedTree'
    <2>1. Updates(cache', cache, a, known) /\ Updates(root', root, a, top) /\ root' = [b \in DOMAIN root' |-> root'[b]]
      <3>1. Updates(cache', cache, a, known)
        BY <1>1, WithIs
      <3>2. Updates(root', root, a, top)
        BY <1>1, WithIs
      <3>3. root' = [b \in DOMAIN root' |-> root'[b]]
        BY <1>1, WithIsFunction
      <3> QED
        BY <3>1, <3>2, <3>3
    <2>2. DOMAIN root' = DOMAIN cache'
      BY <2>1 DEF Updates, Indexed, Registered
    <2>3. root' = [b \in DOMAIN cache' |-> root'[b]]
      BY <2>1, <2>2
    <2> QED
      BY <1>1, <2>3 DEF SealedTree, Registered
  <1>2. ASSUME NEW a \in Algs, RegisterAlgorithm(a) PROVE SealedTree'
    <2>1. /\ cache' = With(cache, a, RecomputeFull(a, cells)) /\ root' = With(root, a, TopOf(cache'[a], Size))
          /\ sealed = NoSeal /\ sealed' = sealed
      BY <1>2, Zenon DEF RegisterAlgorithm
    <2> QED
      BY <1>1, <2>1
  <1>3. ASSUME NEW a \in Algs, NEW i \in 0..MaxSize - 1, AddAlgorithmAt(a, i) PROVE SealedTree'
    <2>1. /\ cache' = With(cache, a, RecomputePath(a, SeedNull(a, Size), cells, i))
          /\ root' = With(root, a, TopOf(cache'[a], Size)) /\ sealed = NoSeal /\ sealed' = sealed
      BY <1>3, Zenon DEF AddAlgorithmAt
    <2> QED
      BY <1>1, <2>1
  <1>4. ASSUME NEW i \in 0..MaxSize, NEW payload \in Payloads, Set(i, payload) PROVE SealedTree'
    <2>1. root' = [a \in Registered |-> TopOf(cache'[a], Len(cells'))] /\ DOMAIN cache' = Registered
          /\ sealed = NoSeal /\ sealed' = sealed
      BY <1>4 DEF Set
    <2>2. root' = [a \in DOMAIN cache' |-> root'[a]]
      BY <2>1
    <2> QED
      BY <2>1, <2>2 DEF SealedTree, Registered
  <1>5. CASE Seal
    <2>1. /\ Size > 0 /\ sealed' = [size |-> Size, frontiers |-> [a \in Registered |-> Peaks(a)]]
          /\ cache' = cache /\ root' = root /\ cells' = cells
      BY <1>5, Zenon DEF Seal
    <2>2. Size \in Nat \ {0}
      BY <2>1 DEF Indexed, Size
    <2>3. \A a \in Registered : Peaks(a) = PeaksFrom(cache[a], Size)
      BY Zenon DEF Peaks, PeaksFrom
    <2>4. DOMAIN sealed'.frontiers = Registered /\ sealed'.size = Size
          /\ \A a \in Registered : sealed'.frontiers[a] = PeaksFrom(cache[a], Size)
      BY <2>1, <2>3
    <2> QED
      BY <2>1, <2>2, <2>4 DEF SealedTree, Registered, Size
  <1>6. CASE UNCHANGED vars
    BY <1>6, Zenon DEF vars, SealedTree, Registered, Size
  <1> QED
    BY <1>2, <1>3, <1>4, <1>5, <1>6 DEF Next

\* Whatever was overwritten and however the algorithms came in, the peaks of a seal fold to
\* the member roots the tree had, and its binding roots are the combined roots the tree last
\* showed.
THEOREM SealAlwaysFolds == Spec => []SealFoldsToRoots
  <1>1. Init => Indexed /\ Referenced
    BY InitReferenced
  <1>2. Indexed /\ Referenced /\ [Next]_vars => Indexed' /\ Referenced'
    BY NextReferenced
  <1>3. Init => SealedTree
    BY DEF Init, SealedTree, Registered
  <1>4. Indexed /\ SealedTree /\ [Next]_vars => SealedTree'
    BY NextSealedTree
  <1>5. Indexed /\ Referenced /\ SealedTree => SealFoldsToRoots
    BY SealedFolds
  <1> QED
    BY <1>1, <1>2, <1>3, <1>4, <1>5, PTL DEF Spec
=============================================================================
