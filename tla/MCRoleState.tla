----------------------------- MODULE MCRoleState -----------------------------
EXTENDS RoleState
=============================================================================
