----------------------------- MODULE MCGitStore -----------------------------
(* GitStore on small instances: processes are interchangeable. *)
EXTENDS GitStore

MCSymmetry == Permutations(Procs)
=============================================================================
