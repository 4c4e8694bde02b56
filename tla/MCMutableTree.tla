---------------------------- MODULE MCMutableTree ----------------------------
(* An ordinary payload and the one that hashes to null. *)
EXTENDS EpochTree

MCPayloads == {"x", NullPayload}
=============================================================================
