------------------------------- MODULE Spine -------------------------------
(***************************************************************************)
(* The structural core shared by every tree of the repository: symbolic    *)
(* digests, the collapse and promotion rule of `nary_mr`, and the topology *)
(* of an append-only log of arity k: which perfect subtrees ("peaks") cover *)
(* n leaves, how many merges an append performs, and how peaks fold into a  *)
(* root.                                                                    *)
(*                                                                         *)
(* A digest is the term that produced it, tagged with the algorithm whose  *)
(* hash was applied, so two digests are equal exactly when the preimages   *)
(* are: collision resistance is built in, and the two equalities the code  *)
(* creates on purpose (collapse of equal children, and the payload "null"  *)
(* hashing to the null constant) are kept.                                 *)
(***************************************************************************)
EXTENDS Naturals, Sequences

CONSTANT Arity

ASSUME ArityAssumption == Arity \in Nat /\ Arity >= 2

-----------------------------------------------------------------------------
(* Digests *)

NullPayload == "null"

Null(a) == <<"null", a>>
Empty(a) == <<"empty", a>>
LeafHash(a, payload) == IF payload = NullPayload THEN Null(a) ELSE <<"leaf", a, payload>>
NodeHash(a, children) == <<"node", a, children>>
DataHash(a, data) == <<"hash", a, data>>

\* A read that found no node where one must be stored.
Corrupted == <<"corrupted">>

NaryMr(a, children) ==
  IF Len(children) = 0 THEN Empty(a)
  ELSE IF \A i \in DOMAIN children : children[i] = children[1] THEN children[1]
  ELSE NodeHash(a, children)

-----------------------------------------------------------------------------
(* Topology *)

Power[height \in Nat] == IF height = 0 THEN 1 ELSE Arity * Power[height - 1]

\* Leaves under a perfect subtree of the given height.
BlockSize(height) == Power[height]

\* The height of the tallest perfect subtree that fits in n >= 1 leaves.
PeakHeight(n) == CHOOSE h \in 0..n : BlockSize(h) <= n /\ n < BlockSize(h + 1)

\* The <<left, height>> coordinates of the perfect subtrees covering n leaves,
\* tallest first.
FrontierForSize(n) ==
  LET peaks[rest \in 0..n] ==
        IF rest = 0 THEN <<>>
        ELSE LET h == PeakHeight(rest)
             IN  <<<<n - rest, h>>>> \o peaks[rest - BlockSize(h)]
  IN  peaks[n]

\* Merges performed after appending the item at 0-based index n: how often the
\* arity divides n + 1.
ReductionCount(n) ==
  CHOOSE c \in 0..n + 1 : (n + 1) % BlockSize(c) = 0 /\ (n + 1) % BlockSize(c + 1) # 0

\* A hashing node over these nodes.  A node has what is under it, its digest and
\* its children.
Inner(a, children) ==
  [covers   |-> UNION {children[j].covers : j \in DOMAIN children},
   digest   |-> NaryMr(a, [j \in DOMAIN children |-> children[j].digest]),
   children |-> children]

\* Folds a non-empty frontier of nodes into one tree: the rightmost k are merged
\* into one until k or fewer remain, and those are merged.  `folded[r]` is the
\* rightmost after r merges.  A single node is the tree.
FoldFrontier(a, nodes) ==
  LET n == Len(nodes)
      rounds == CHOOSE r \in 0..n :
                  /\ n - r * (Arity - 1) <= Arity
                  /\ r > 0 => n - (r - 1) * (Arity - 1) > Arity
      folded[r \in 0..rounds] ==
        IF r = 0 THEN nodes[n]
        ELSE Inner(a, SubSeq(nodes, n - r * (Arity - 1), n - (r - 1) * (Arity - 1) - 1)
                        \o <<folded[r - 1]>>)
  IN  IF n = 1 THEN nodes[1]
      ELSE Inner(a, SubSeq(nodes, 1, n - rounds * (Arity - 1) - 1) \o <<folded[rounds]>>)

\* The tree a frontier's peaks are bagged in; a node covers indices of peaks.
BagTree(a, peaks) ==
  FoldFrontier(a, [f \in DOMAIN peaks |-> [covers |-> {f}, digest |-> peaks[f], children |-> <<>>]])

\* The root of a frontier: an empty tree has the hash of the empty string.
BagPeaks(a, peaks) == IF peaks = <<>> THEN Empty(a) ELSE BagTree(a, peaks).digest
=============================================================================
