----------------------------- MODULE MCLogAudit -----------------------------
(* Two algorithms; each may be frozen and resumed, the second once more.     *)
EXTENDS LogAudit

\* The first two positions may hold the same payload.
MCOffer == [i \in 1..MaxCount |-> IF i <= 2 THEN {<<"x">>} ELSE {<<ToString(i)>>}]
MCToggles == 0 :> 2 @@ 1 :> 3
=============================================================================
