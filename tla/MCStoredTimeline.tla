-------------------------- MODULE MCStoredTimeline --------------------------
(* Two algorithms; the genesis one may be frozen and resumed once, the other *)
(* twice, so a log can have gaps, empty intervals and nobody active.  A byte *)
(* has two values, so the paths of four positions have one to three bytes.   *)
EXTENDS StoredTimeline

MCToggles == 0 :> 2 @@ 1 :> 4
=============================================================================
