--------------------------- MODULE MCGraceLogins ---------------------------
(* Instance of GraceLogins for TLC. *)
EXTENDS GraceLogins
=============================================================================
