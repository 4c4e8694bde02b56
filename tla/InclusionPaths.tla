--------------------------- MODULE InclusionPaths ---------------------------
(***************************************************************************)
(* Inclusion paths: what the producers of a proof and its verifier share,  *)
(* whatever tree it is of.  A path is a sequence of steps from the leaf to *)
(* the root.  A step has the 0-based position of the path's node among its *)
(* siblings, and their digests.                                            *)
(***************************************************************************)
EXTENDS Spine, SequencesExt

NoRoot == <<"none">>

\* The step from child `c` (1-based) of a node with these child digests.
StepFrom(c, digests) == [position |-> c - 1, siblings |-> RemoveAt(digests, c)]

Shape(step) == [position |-> step.position, siblings |-> Len(step.siblings)]

\* The child of a node that covers i.
Toward(node, i) == CHOOSE j \in DOMAIN node.children : i \in node.children[j].covers

\* The hashing nodes from what covers i alone up to the root of a tree of at
\* most `depth` levels of them.
Crossed(tree, i, depth) ==
  LET down[d \in 0..depth] ==
        IF d = 0 THEN tree
        ELSE IF down[d - 1].children = <<>> THEN down[d - 1]
        ELSE down[d - 1].children[Toward(down[d - 1], i)]
      levels == CHOOSE d \in 0..depth : /\ down[d].children = <<>>
                                        /\ \A e \in 0..d - 1 : down[e].children # <<>>
  IN  [n \in 1..levels |-> down[levels - n]]

\* The path along them.
TreePath(tree, i, depth) ==
  LET crossed == Crossed(tree, i, depth)
  IN  [n \in DOMAIN crossed |->
         StepFrom(Toward(crossed[n], i),
                  [j \in DOMAIN crossed[n].children |-> crossed[n].children[j].digest])]

\* The root a path leads to, if its last steps have the shapes of the skeleton
\* and no step is without a sibling.
ReconstructInclusionRoot(a, digest, skeleton, path) ==
  LET prefix == Len(path) - Len(skeleton)
      wellFormed ==
        /\ Len(path) >= Len(skeleton)
        /\ \A n \in DOMAIN skeleton : Shape(path[prefix + n]) = skeleton[n]
        /\ \A n \in DOMAIN path : path[n].siblings # <<>> /\ path[n].position <= Len(path[n].siblings)
      lifted[n \in 0..Len(path)] ==
        IF n = 0 THEN digest
        ELSE NaryMr(a, InsertAt(path[n].siblings, path[n].position + 1, lifted[n - 1]))
  IN  IF wellFormed THEN lifted[Len(path)] ELSE NoRoot
=============================================================================
