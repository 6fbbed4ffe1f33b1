--------------------------- MODULE ClientAuthHook ---------------------------
(***************************************************************************)
(* One login through client_auth_hook (src/lib.rs), while everything it    *)
(* reads may change under it: the worker's health, the queue, the marker,  *)
(* the states and entries of the three caches.  The hook takes each lock   *)
(* by itself, so that every read is a step of its own.                     *)
(*                                                                         *)
(* The environment is weaker than what the other modules allow: whatever   *)
(* the worker, other sessions or the administrator may change, they may    *)
(* change at any moment.  What is shown here rests on nothing else.        *)
(*                                                                         *)
(* What the hook sees of a role is what the caches have of it, never the   *)
(* tables.  How far a Ready cache follows its table is the matter of the   *)
(* other modules: the lock cache has an entry for every active lockout     *)
(* (LoginLockout), and may keep one longer than the row; the expiry cache  *)
(* has the row (GraceLogins), but for what they name.                      *)
(*                                                                         *)
(* Abstractions: a cache that is not Ready is Unusable, for whatever       *)
(* reason; the database fallback of the lockout lookup finds no database   *)
(* in this hook and is left out, as are standbys, where the hook does      *)
(* nothing, and the warnings.                                              *)
(***************************************************************************)
EXTENDS EnforcementState, Naturals, Sequences

\* What PostgreSQL made of the credential: accepted, a wrong password of an
\* existing role, or any other failure.
Status == {"right", "wrong", "other"}
Password == {"current", "grace", "spent"}   \* ExpiryDecision of the role
Outcome == {"pending", "admitted", "rejected", "refused", "vetoed"}
Event == {"failure", "success", "grace"}

VARIABLES
    marked,     \* worker_health::durable_degraded_since is set
    locked,     \* the lock cache has an unexpired entry of the role
    password,   \* what the expiry cache says of the role's password
    login,      \* the login under way
    steady      \* history: what held in every state since the login began

doubts == <<running, corrupt, marked>>
facts == <<locked, password, listed>>
environment == <<doubts, state, conf, facts>>
hookVars == <<environment, login, steady>>

HookPC == {"idle", "prev", "running", "corrupt", "marker", "lockstate", "expirystate",
           "lockout", "expiry", "grace", "success", "failure", "done"}

\* `active` is what the hook still enforces: the switches, then what is usable.
NoLogin == [pc |-> "idle", status |-> "other", active |-> {}, bypassed |-> FALSE,
            again |-> FALSE, outcome |-> "pending", events |-> <<>>]

----------------------------------------------------------------------------
(* What a login may count on when it held from its first to its last state. *)

HealthOK == running /\ ~corrupt /\ ~marked
Exempt == listed /\ state["bypass"] = "Ready"
Enforced(f) == HealthOK /\ state[f] = "Ready" /\ f \in conf /\ ~Exempt

Condition == {"lockedOut", "spent", "counted", "stopped", "corrupt", "marked",
              "exempt", "innocent"}

Holds(k) ==
    CASE k = "lockedOut" -> Enforced("lock") /\ locked
      [] k = "spent"     -> Enforced("expiry") /\ password = "spent"
      [] k = "counted"   -> Enforced("lock") /\ ("expiry" \in conf => state["expiry"] = "Ready")
      [] k = "stopped"   -> ~running
      [] k = "corrupt"   -> corrupt
      [] k = "marked"    -> marked
      [] k = "exempt"    -> Exempt
      [] k = "innocent"  -> ~locked /\ password # "spent"

HookTypeOK ==
    /\ running \in BOOLEAN /\ corrupt \in BOOLEAN /\ marked \in BOOLEAN
    /\ state \in [Cache -> {"Ready", "Unusable"}] /\ conf \in Conf
    /\ locked \in BOOLEAN /\ password \in Password /\ listed \in BOOLEAN
    /\ login \in [pc : HookPC, status : Status, active : SUBSET Feature,
                  bypassed : BOOLEAN, again : BOOLEAN, outcome : Outcome,
                  events : Seq(Event)]
    /\ login.pc = "done" <=> login.outcome # "pending"
    /\ steady \subseteq Condition

HookInit ==
    /\ running = FALSE /\ corrupt = FALSE /\ marked = FALSE
    /\ state = [c \in Cache |-> "Unusable"] /\ conf \in Conf
    /\ locked = FALSE /\ password = "current" /\ listed = FALSE
    /\ login = NoLogin /\ steady = {}

----------------------------------------------------------------------------
(* The environment. *)

\* mark_running, mark_stopped.
WorkerStartsOrStops == running' = ~running /\ UNCHANGED <<corrupt, marked, state, conf, facts>>

\* mark_corrupt, recover_corrupt_ring.
QueueChanges == corrupt' = ~corrupt /\ UNCHANGED <<running, marked, state, conf, facts>>

\* mark_durable_failure of another session, clear_durable_degraded.
MarkerChanges == marked' = ~marked /\ UNCHANGED <<running, corrupt, state, conf, facts>>

\* set_state, a hydration, a cache that overflows.
CacheChanges ==
    /\ \E c \in Cache : state' = [state EXCEPT ![c] = IF @ = "Ready" THEN "Unusable"
                                                      ELSE "Ready"]
    /\ UNCHANGED <<doubts, conf, facts>>

\* A backend has the switches it was started with, until its login is over.
ReloadSwitches ==
    /\ login.pc = "idle" /\ \E c \in Conf : conf' = c
    /\ UNCHANGED <<doubts, state, facts>>

\* An entry of the lock cache comes, goes or expires; a password expires, is
\* changed, or gives its last grace login to another connection; a refresh of
\* the exemptions.
FactsChange ==
    /\ \/ locked' = ~locked /\ UNCHANGED <<password, listed>>
       \/ (\E p \in Password : password' = p) /\ UNCHANGED <<locked, listed>>
       \/ listed' = ~listed /\ UNCHANGED <<locked, password>>
    /\ UNCHANGED <<doubts, state, conf>>

EnvironmentStep ==
    /\ login.pc # "done"
    /\ \/ WorkerStartsOrStops \/ QueueChanges \/ MarkerChanges
       \/ CacheChanges \/ ReloadSwitches \/ FactsChange
    /\ UNCHANGED login

----------------------------------------------------------------------------
(* The hook. *)

At(pc) == login.pc = pc
Proceed(pc) == login' = [login EXCEPT !.pc = pc]
End(outcome) == login' = [login EXCEPT !.pc = "done", !.outcome = outcome]

\* PostgreSQL's own answer stands.
Native == IF login.status = "right" THEN "admitted" ELSE "rejected"

\* The switches, and the exemption by the bypass cache: lookup answers only
\* while the cache is Ready.
Connect ==
    /\ At("idle")
    /\ \E s \in Status :
          login' = [NoLogin EXCEPT !.status = s, !.active = conf, !.bypassed = Exempt,
                                   !.pc = "prev"]
    /\ UNCHANGED environment

\* The hooks of other extensions run before anything is recorded; one of them
\* may end the connection.  An exempt role, or both switches off: no more to do.
PreviousHook ==
    /\ At("prev")
    /\ \/ End("vetoed")
       \/ IF login.bypassed \/ login.active = {} THEN End(Native) ELSE Proceed("running")
    /\ UNCHANGED environment

\* enforcement_pause_reason, one read after the other.  A reason leaves the
\* login to PostgreSQL, whether it is found at first or when it is asked again.
CheckRunning ==
    /\ At("running")
    /\ IF running THEN Proceed("corrupt") ELSE End(Native)
    /\ UNCHANGED environment

CheckQueue ==
    /\ At("corrupt")
    /\ IF corrupt THEN End(Native) ELSE Proceed("marker")
    /\ UNCHANGED environment

\* Mutant: the marker is not looked at.
CheckMarker_Ignored ==
    /\ At("marker")
    /\ Proceed(CASE ~login.again -> "lockstate"
                 [] login.again /\ "expiry" \in login.active -> "expiry"
                 [] OTHER -> "success")
    /\ UNCHANGED environment

\* Sound at first: on to the caches.  Sound again, after the lockout: on to
\* what is judged and recorded.
CheckMarker ==
    /\ At("marker")
    /\ IF marked THEN End(Native)
       ELSE Proceed(CASE ~login.again -> "lockstate"
                      [] login.again /\ "expiry" \in login.active -> "expiry"
                      [] OTHER -> "success")
    /\ UNCHANGED environment

\* A feature whose cache is not Ready is not enforced.
ActiveAfter(f) == IF state[f] = "Ready" THEN login.active ELSE login.active \ {f}

ReadLockState ==
    /\ At("lockstate")
    /\ login' = [login EXCEPT !.active = ActiveAfter("lock"), !.pc = "expirystate"]
    /\ UNCHANGED environment

\* Then the two ways part: a wrong password is counted, a right one judged.
ReadExpiryState ==
    /\ At("expirystate")
    /\ login' = LET active == ActiveAfter("expiry")
                IN  IF login.status = "other" \/ (login.status = "wrong" /\ "lock" \notin active)
                    THEN [login EXCEPT !.active = active, !.pc = "done", !.outcome = "rejected"]
                    ELSE [login EXCEPT !.active = active,
                                       !.again = (login.status = "right" /\ "lock" \notin active),
                                       !.pc = CASE login.status = "wrong" -> "failure"
                                                [] login.status = "right" /\ "lock" \in active -> "lockout"
                                                [] OTHER -> "running"]
    /\ UNCHANGED environment

\* Mutant: what the lookup finds is not used.
LookupLockout_Forgets ==
    /\ At("lockout")
    /\ login' = [login EXCEPT !.again = TRUE, !.pc = "running"]
    /\ UNCHANGED environment

\* remaining_seconds does not ask for the state: an entry refuses the login even
\* in a cache that has become unusable since.
LookupLockout ==
    /\ At("lockout")
    /\ IF locked THEN End("refused")
       ELSE login' = [login EXCEPT !.again = TRUE, !.pc = "running"]
    /\ UNCHANGED environment

\* Mutant: a cache that has become unusable ends the connection, as it once did.
LookupExpiry_FailsClosed ==
    /\ At("expiry")
    /\ CASE state["expiry"] # "Ready" -> End("unavailable")
         [] state["expiry"] = "Ready" /\ password = "spent" -> End("refused")
         [] OTHER -> Proceed(IF password = "current" THEN "success" ELSE "grace")
    /\ UNCHANGED environment

\* lookup of the expiry cache.
LookupExpiry ==
    /\ At("expiry")
    /\ CASE state["expiry"] # "Ready" \/ password = "current" -> Proceed("success")
         [] state["expiry"] = "Ready" /\ password = "spent" -> End("refused")
         [] OTHER -> Proceed("grace")
    /\ UNCHANGED environment

\* enqueue: the event is durable, or the append fails and the marker says so.
Recorded(event) ==
    /\ login' = [login EXCEPT !.events = Append(@, event), !.pc = "done", !.outcome = Native]
    /\ UNCHANGED marked
NotRecorded == End(Native) /\ marked' = TRUE

\* Mutant: the login goes on to its success event after the grace event.
TakeGrace_AndSuccess ==
    /\ \/ /\ login' = [login EXCEPT !.events = Append(@, "grace"), !.pc = "success"]
          /\ password' \in {"grace", "spent"} /\ UNCHANGED marked
       \/ NotRecorded /\ UNCHANGED password
    /\ UNCHANGED <<running, corrupt, state, conf, locked, listed>>

\* One grace login, with its event.  (Whether it was the last is GraceLogins'.)
TakeGrace ==
    /\ \/ Recorded("grace") /\ password' \in {"grace", "spent"}
       \/ NotRecorded /\ UNCHANGED password
    /\ UNCHANGED <<running, corrupt, state, conf, locked, listed>>

\* try_consume_grace decides again: the cache has become unusable, the password
\* current, or its grace logins spent.
ConsumeGrace ==
    /\ At("grace")
    /\ \/ state["expiry"] # "Ready" /\ End(Native) /\ UNCHANGED environment
       \/ state["expiry"] = "Ready" /\ password = "current" /\ Proceed("success")
          /\ UNCHANGED environment
       \/ state["expiry"] = "Ready" /\ password = "spent" /\ End("refused")
          /\ UNCHANGED environment
       \/ state["expiry"] = "Ready" /\ password = "grace" /\ TakeGrace

\* The success event, where lockouts are enforced.
RecordSuccess ==
    /\ At("success")
    /\ IF "lock" \in login.active THEN Recorded("success") \/ NotRecorded
       ELSE End(Native) /\ UNCHANGED marked
    /\ UNCHANGED <<running, corrupt, state, conf, facts>>

RecordFailure ==
    /\ At("failure")
    /\ Recorded("failure") \/ NotRecorded
    /\ UNCHANGED <<running, corrupt, state, conf, facts>>

NextLogin ==
    /\ At("done") /\ login' = NoLogin
    /\ UNCHANGED environment

HookStep ==
    \/ Connect \/ PreviousHook \/ CheckRunning \/ CheckQueue \/ CheckMarker
    \/ ReadLockState \/ ReadExpiryState \/ LookupLockout \/ LookupExpiry
    \/ ConsumeGrace \/ RecordSuccess \/ RecordFailure \/ NextLogin

\* A condition is steady if it holds when the login begins and in every state
\* until it has ended.
Watch ==
    steady' = IF login'.pc = "idle" THEN {}
              ELSE {k \in (IF login.pc = "idle" THEN Condition ELSE steady) :
                       Holds(k) /\ Holds(k)'}

HookNext == (HookStep \/ EnvironmentStep) /\ Watch

HookSpec == HookInit /\ [][HookNext]_hookVars

----------------------------------------------------------------------------
(* Properties, of a login that has ended. *)

\* A role with an entry in the lock cache, or whose grace logins are spent, does
\* not get in while enforcement is sound, whatever else changes during its login.
EnforcementIsFirm ==
    At("done") /\ steady \cap {"lockedOut", "spent"} # {} => login.outcome # "admitted"

\* The hook refuses nobody while one reason to pause lasts, nor an exempt role,
\* nor one who has no entry in the lock cache and is not expired, and records
\* nothing in the first two cases (src/lib.rs:878-880: "an extension-internal
\* failure pauses enforcement instead of denying access").
PauseNeverRefuses ==
    At("done") =>
        /\ steady \cap {"stopped", "corrupt", "marked", "exempt"} # {} =>
              login.outcome # "refused" /\ login.events = <<>>
        /\ "innocent" \in steady => login.outcome # "refused"

\* A login leaves at most one event, of its own kind and never one of a success
\* that was not admitted (src/lib.rs:839-844); where lockouts are enforced, and
\* the expiry cache is usable if it is needed, it leaves one.
OneEventPerLogin ==
    At("done") =>
        /\ Len(login.events) <= 1
        /\ "failure" \in {login.events[i] : i \in DOMAIN login.events} => login.status = "wrong"
        /\ login.events # <<>> =>
              login.outcome = IF login.status = "right" THEN "admitted" ELSE "rejected"
        /\ "counted" \in steady /\ login.outcome \in {"admitted", "rejected"} =>
              login.status = "other" \/ Len(login.events) = 1
=============================================================================
