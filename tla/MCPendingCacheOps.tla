------------------------- MODULE MCPendingCacheOps -------------------------
(* The instance of PendingCacheOps for TLC. *)
EXTENDS PendingCacheOps

CONSTANTS u1, u2

\* The password of one user is changed and its lockout set and cleared, also in one
\* transaction; the other is renamed or dropped.
MCKinds == u1 :> {"lock", "expiry"} @@ u2 :> {"combined"}
=============================================================================
