-------------------------- MODULE EnforcementState --------------------------
(***************************************************************************)
(* The shared memory through which the worker (WorkerHealth) tells the     *)
(* authentication hook (ClientAuthHook) whether it may enforce, and the    *)
(* switches of the server.  Each of the two specifications says what it    *)
(* does to it and what may happen to it meanwhile.                         *)
(***************************************************************************)
CONSTANT Conf       \* the settings of the two switches the server may have

Feature == {"lock", "expiry"}
Cache == Feature \cup {"bypass"}

ASSUME ConfAssumption == Conf \subseteq SUBSET Feature

VARIABLES
    running,    \* WorkerHealth.running, read by worker_health::is_running
    corrupt,    \* the queue's state is Corrupt
    state,      \* the state of each cache
    conf,       \* the enforcement switches that are on
    listed      \* the role is an entry of the bypass cache
=============================================================================
