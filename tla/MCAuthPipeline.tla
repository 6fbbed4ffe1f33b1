--------------------------- MODULE MCAuthPipeline ---------------------------
(* Instance of AuthPipeline for TLC. *)
EXTENDS AuthPipeline

Symmetry == Permutations(EventId)
=============================================================================
