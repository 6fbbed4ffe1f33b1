--------------------------- MODULE MCLoginLockout ---------------------------
(* Instance of LoginLockout for TLC. *)
EXTENDS LoginLockout
=============================================================================
