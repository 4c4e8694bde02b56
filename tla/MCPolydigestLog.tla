--------------------------- MODULE MCPolydigestLog ---------------------------
(* Two algorithms.  In the short runs the genesis one may be frozen and       *)
(* resumed, in the long one it stays active; the other one may be frozen,     *)
(* resumed and frozen again.                                                  *)
EXTENDS BoundProofs

\* The first positions may repeat a payload or not, and may hold structure;
\* every later position has its own payload.
MCOffer ==
  [i \in 1..MaxCount |-> CASE i = 1 -> {<<"x">>, <<"x", "y">>}
                           [] i = 2 -> {<<"x">>, <<"y">>}
                           [] OTHER -> {<<ToString(i)>>}]

\* Every position has its own payload, the first perhaps a structure of two.
MCOfferDistinct ==
  [i \in 1..MaxCount |-> IF i = 1 THEN {<<"1">>, <<"x", "y">>} ELSE {<<ToString(i)>>}]

\* The first two positions hold the payload whose leaf hash is the null constant.
MCOfferNull == [i \in 1..MaxCount |-> IF i <= 2 THEN {<<NullPayload>>} ELSE {<<ToString(i)>>}]

MCToggles == 0 :> 2 @@ 1 :> 3
MCTogglesLong == 0 :> 0 @@ 1 :> 3
=============================================================================
