-------------------------- MODULE MCPasswordChange --------------------------
EXTENDS PasswordChange, TLC

Symmetry == Permutations(Session) \cup Permutations(Password)
=============================================================================
