-------------------------- MODULE MCClientAuthHook --------------------------
EXTENDS ClientAuthHook

MCConf == SUBSET Feature
=============================================================================
