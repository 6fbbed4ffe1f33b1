-------------------------- MODULE MCAuthEventQueue --------------------------
(* Instance of AuthEventQueue for TLC. *)
EXTENDS AuthEventQueue, TLC

Symmetry == Permutations(EventId)
=============================================================================
