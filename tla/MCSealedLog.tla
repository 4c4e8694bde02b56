----------------------------- MODULE MCSealedLog ----------------------------
(* Two algorithms, one seal at any size, and freezes and resumptions on both *)
(* sides of it.                                                              *)
EXTENDS SealProofs

\* Every position has its own payload.
MCOffer == [i \in 1..MaxCount |-> {<<ToString(i)>>}]
MCToggles == 0 :> 1 @@ 1 :> 4
=============================================================================
