------------------------------ MODULE MCLogSync ------------------------------
(* Two replicas and the rest of the quorum, one fault of each kind. *)
EXTENDS LogSync
CONSTANTS a, b
=============================================================================
