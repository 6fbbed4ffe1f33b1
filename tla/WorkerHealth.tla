---------------------------- MODULE WorkerHealth ----------------------------
(***************************************************************************)
(* Whether enforcement may be trusted: the flag that a worker is running   *)
(* and the durable-failure marker (src/worker_health.rs), the states of    *)
(* the three caches, the exemptions the bypass cache holds                 *)
(* (src/bypass_cache.rs, src/lock_cache.rs), and the worker's life from    *)
(* its start through hydration, the event loop, suspension and its end     *)
(* (src/worker.rs).                                                        *)
(*                                                                         *)
(* A backend whose append fails stores the time it read before it waited   *)
(* for the queue's lock; the worker clears the marker by a compare and     *)
(* exchange after it has rebuilt every cache that is needed.               *)
(*                                                                         *)
(* Abstractions: the rows of the lock and expiry caches are in             *)
(* LoginLockout and GraceLogins, here a cache is its state; one role is    *)
(* followed through the bypass cache and the others only fill it; the top  *)
(* of the event loop is one step, since what others change between its     *)
(* checks it meets at the next pass; waits and the rate of the warnings    *)
(* are left out; backends and the worker read the clock at different       *)
(* microseconds.                                                           *)
(***************************************************************************)
EXTENDS EnforcementState, Integers, FiniteSets

CONSTANTS Quiet,        \* DURABLE_QUIET_PERIOD_US
          MaxTime,      \* bound on the clock
          MaxFailures,  \* bound on failures recorded in the marker
          MaxFaults     \* bound on every other fault

ASSUME HealthAssumption ==
    /\ Quiet \in Nat \ {0} /\ MaxTime \in Nat /\ Quiet < MaxTime
    /\ MaxFailures \in Nat /\ MaxFaults \in Nat
    /\ Conf # {}

CacheState == {"NotReady", "Ready", "Overflow", "WorkerFailed"}
Healthy == 0                                \* the marker's sentinel, and no time
Time == 1 .. MaxTime
WorkerPC == {"start", "begin", "read", "apply", "decide", "top", "work",
             "refresh", "event", "backoff", "suspended", "stop", "stopped"}

VARIABLES
    clock,      \* GetCurrentTimestamp
    marker,     \* WorkerHealth.durable_degraded_us
    waiting,    \* the time a backend read before it waited for the queue's lock
    exempt,     \* the role's committed bypass setting
    snapshot,   \* the exemption read by the refresh under way
    wpc,        \* where the worker is
    at,         \* the cache that is hydrated, or marked at the worker's end
    need,       \* the caches the worker found needed
    observed,   \* the marker before hydration
    done,       \* the caches this hydration has completed
    degraded,   \* DegradedByRetry
    fresh,      \* history: caches read after the last recorded failure
    clean,      \* history: no failure was recorded since the read under way
    failures,   \* failures recorded so far
    faults      \* other faults so far

health == <<running, marker, corrupt>>
bypass == <<exempt, listed, snapshot>>
worker == <<wpc, at, need, observed, done, degraded>>
history == <<fresh, clean>>
bounds == <<failures, faults>>
vars == <<clock, health, waiting, conf, state, bypass, worker, history, bounds>>

TypeOK ==
    /\ clock \in Time /\ marker \in Time \cup {Healthy}
    /\ waiting \in Time \cup {Healthy} /\ observed \in Time \cup {Healthy}
    /\ running \in BOOLEAN /\ corrupt \in BOOLEAN
    /\ conf \in Conf /\ state \in [Cache -> CacheState]
    /\ exempt \in BOOLEAN /\ listed \in BOOLEAN /\ snapshot \in BOOLEAN
    /\ wpc \in WorkerPC /\ at \in Cache
    /\ need \subseteq Cache /\ done \subseteq Cache
    /\ degraded \subseteq Feature
    /\ fresh \subseteq Cache /\ clean \in BOOLEAN
    /\ failures \in 0 .. MaxFailures /\ faults \in 0 .. MaxFaults

NoCache == [c \in Cache |-> "NotReady"]

\* Shared memory is new, and the worker not yet started.
Init ==
    /\ clock = 1 /\ conf \in Conf /\ exempt \in BOOLEAN
    /\ running = FALSE /\ marker = Healthy /\ corrupt = FALSE /\ waiting = Healthy
    /\ state = NoCache /\ listed = FALSE /\ snapshot = FALSE
    /\ wpc = "start" /\ at = "lock" /\ need = {} /\ observed = Healthy /\ done = {}
    /\ degraded = {} /\ fresh = {} /\ clean = FALSE
    /\ failures = 0 /\ faults = 0

Fault == faults < MaxFaults /\ faults' = faults + 1

----------------------------------------------------------------------------
(* The world around the worker. *)

\* Later failures are left out, so that the quiet period fits under MaxTime.
ClockRead == clock + Quiet < MaxTime /\ clock' = clock + 1
RoomForBackoff == wpc' = "backoff" => clock' + Quiet < MaxTime

Tick ==
    /\ clock < MaxTime /\ clock' = clock + 1
    /\ UNCHANGED <<health, waiting, conf, state, bypass, worker, history, bounds>>
    /\ RoomForBackoff

\* pg_reload_conf.
Reload ==
    /\ \E c \in Conf : conf' = c
    /\ UNCHANGED <<clock, health, waiting, state, bypass, worker, history, bounds>>

\* ALTER ROLE ... SET or RESET bypass_password_profile.
AlterRole ==
    /\ exempt' = ~exempt
    /\ UNCHANGED <<clock, health, waiting, conf, state, listed, snapshot, worker, history,
                   bounds>>

\* mark_durable_failure, with a time that was read at `stamp`.
MarkFailure(stamp) == marker' = stamp /\ fresh' = {} /\ clean' = FALSE

Failure == failures < MaxFailures /\ failures' = failures + 1

\* enqueue reads the clock ...
BackendReadsClock ==
    /\ waiting = Healthy /\ failures < MaxFailures
    /\ ClockRead /\ waiting' = clock
    /\ UNCHANGED <<health, conf, state, bypass, worker, history, bounds>>
    /\ RoomForBackoff

\* ... and has the lock some time later; its append fails, or succeeds.
BackendAppendFails ==
    /\ waiting # Healthy
    /\ Failure /\ MarkFailure(waiting) /\ waiting' = Healthy
    /\ UNCHANGED <<clock, running, corrupt, conf, state, bypass, worker, faults>>

BackendAppends ==
    /\ waiting # Healthy
    /\ waiting' = Healthy
    /\ UNCHANGED <<clock, health, conf, state, bypass, worker, history, bounds>>

\* A commit callback finds a cache of rows full.
CommitOverflows ==
    /\ Fault
    /\ \E c \in Feature : state' = [state EXCEPT ![c] = "Overflow"]
    /\ UNCHANGED <<clock, health, waiting, conf, bypass, worker, history, failures>>

\* The ring is found damaged, by a backend or by the worker.
QueueCorrupts ==
    /\ ~corrupt /\ Fault /\ corrupt' = TRUE
    /\ UNCHANGED <<clock, running, marker, waiting, conf, state, bypass, worker, history,
                   failures>>

\* recover_auth_event_queue insists on both switches being off.
RecoverQueue ==
    /\ corrupt /\ conf = {} /\ corrupt' = FALSE
    /\ UNCHANGED <<clock, running, marker, waiting, conf, state, bypass, worker, history,
                   bounds>>

ServerRestart ==
    /\ Fault
    /\ running' = FALSE /\ marker' = Healthy /\ corrupt' = FALSE /\ waiting' = Healthy
    /\ state' = NoCache /\ listed' = FALSE /\ snapshot' = FALSE
    /\ wpc' = "start" /\ at' = "lock" /\ need' = {} /\ observed' = Healthy /\ done' = {}
    /\ degraded' = {} /\ fresh' = {} /\ clean' = FALSE
    /\ UNCHANGED <<clock, conf, exempt, failures>>

----------------------------------------------------------------------------
(* The worker starts and hydrates. *)

\* What a hydration found is local to it.
Forget == need' = {} /\ observed' = Healthy /\ done' = {}

Goto(pc) == wpc' = pc /\ UNCHANGED <<at, need, observed, done, degraded>>

\* auth_event_consumer_impl: attached to the control database.
MarkRunning ==
    /\ wpc = "start" /\ running' = TRUE
    /\ Goto("begin")
    /\ UNCHANGED <<clock, marker, corrupt, waiting, conf, state, bypass, history, bounds>>

Needed == conf \cup IF conf = {} THEN {} ELSE {"bypass"}

\* One attempt of hydrate_caches_with_retry: the marker first, then SIGHUP and
\* what the switches need.
BeginHydration ==
    /\ wpc = "begin"
    /\ observed' = marker /\ need' = Needed /\ done' = {} /\ degraded' = {}
    /\ wpc' = "read" /\ at' = "lock"
    /\ UNCHANGED <<clock, health, waiting, conf, state, bypass, history, bounds>>

\* The transaction of cache `at` reads its table.
ReadTable ==
    /\ wpc = "read"
    /\ snapshot' = IF at = "bypass" THEN exempt ELSE snapshot
    /\ clean' = TRUE
    /\ Goto("apply")
    /\ UNCHANGED <<clock, health, waiting, conf, state, exempt, listed, fresh, bounds>>

\* Mutant: a role whose setting was reset stays in the bypass cache.
Install_Merges(c, full) ==
    /\ state' = [state EXCEPT ![c] = IF full THEN "Overflow" ELSE "Ready"]
    /\ fresh' = IF clean THEN fresh \cup {c} ELSE fresh \ {c}
    /\ clean' = FALSE
    /\ IF c = "bypass" THEN listed' = (listed \/ snapshot) /\ snapshot' = FALSE
       ELSE UNCHANGED <<listed, snapshot>>

\* apply_hydrated_entries, apply_hydrated and apply_refreshed replace the cache
\* with its state.  Rows that do not fit are left out: the role's may be one.
Install(c, full) ==
    /\ state' = [state EXCEPT ![c] = IF full THEN "Overflow" ELSE "Ready"]
    /\ fresh' = IF clean THEN fresh \cup {c} ELSE fresh \ {c}
    /\ clean' = FALSE
    /\ IF c = "bypass"
       THEN listed' \in (IF full THEN {snapshot, FALSE} ELSE {snapshot}) /\ snapshot' = FALSE
       ELSE UNCHANGED <<listed, snapshot>>

\* After the lock cache comes the expiry cache, then the bypass cache.
NextCache(ok) ==
    /\ done' = IF ok THEN done \cup {at} ELSE done
    /\ at' = CASE at = "lock" -> "expiry" [] at = "expiry" -> "bypass" [] OTHER -> "lock"
    /\ wpc' = IF at = "bypass" THEN "decide" ELSE "read"
    /\ UNCHANGED <<need, observed, degraded>>

\* An overflow counts as done, and is a fault of the environment.
ApplyTable ==
    /\ wpc = "apply"
    /\ \/ Install(at, FALSE) /\ UNCHANGED faults
       \/ Fault /\ Install(at, TRUE)
    /\ NextCache(TRUE)
    /\ UNCHANGED <<clock, health, waiting, conf, exempt, failures>>

HydrationFails ==
    /\ wpc \in {"read", "apply"} /\ Fault
    /\ state' = [state EXCEPT ![at] = "NotReady"]
    /\ clean' = FALSE /\ snapshot' = FALSE
    /\ NextCache(FALSE)
    /\ UNCHANGED <<clock, health, waiting, conf, exempt, listed, fresh, failures>>

\* Mutant: the marker is simply stored.
ClearDurableDegradation_Stores ==
    marker' = IF observed # Healthy /\ clock - observed >= Quiet THEN Healthy ELSE marker

\* clear_durable_degradation_if_quiet, with its compare and exchange.
ClearDurableDegradation ==
    marker' = IF observed # Healthy /\ clock - observed >= Quiet /\ marker = observed
              THEN Healthy ELSE marker

\* Every needed cache is rebuilt and the loop begins, or all is tried again.
FinishHydration ==
    /\ wpc = "decide"
    /\ IF need \subseteq done
       THEN ClearDurableDegradation /\ wpc' = "top"
       ELSE wpc' = "begin" /\ UNCHANGED marker
    /\ Forget
    /\ UNCHANGED <<clock, running, corrupt, waiting, conf, state, bypass, history, bounds, at,
                   degraded>>

----------------------------------------------------------------------------
(* The event loop. *)

\* A needed cache is not usable, and not because of this loop's own retries.
Incomplete ==
    \E c \in Needed : /\ state[c] \in {"NotReady", "WorkerFailed"}
                      /\ ~(c \in degraded /\ state[c] = "WorkerFailed")

\* Mutant: a marker that has been quiet does not send the worker back.
QuietAgain_Never == FALSE
QuietAgain == marker # Healthy /\ clock - marker >= Quiet

\* The checks at the top of consume_events, after SIGHUP.
CheckLoop ==
    /\ wpc = "top"
    /\ wpc' = CASE corrupt -> "suspended"
                [] ~corrupt /\ (Incomplete \/ QuietAgain) -> "begin"
                [] OTHER -> "work"
    /\ need' = Needed
    /\ UNCHANGED <<clock, health, waiting, conf, state, bypass, history, bounds,
                   at, observed, done, degraded>>

\* BYPASS_REFRESH_INTERVAL has passed: the exemptions are read again ...
ReadExemptions ==
    /\ wpc = "work"
    /\ snapshot' = exempt /\ clean' = TRUE
    /\ Goto("refresh")
    /\ UNCHANGED <<clock, health, waiting, conf, state, exempt, listed, fresh, bounds>>

\* ... and replace the cache, or the refresh fails.
RefreshExemptions ==
    /\ wpc = "refresh"
    /\ \/ Install("bypass", FALSE) /\ UNCHANGED faults
       \/ Fault /\ Install("bypass", TRUE)
    /\ Goto("event")
    /\ UNCHANGED <<clock, health, waiting, conf, exempt, failures>>

RefreshFails ==
    /\ wpc = "refresh" /\ Fault
    /\ state' = [state EXCEPT !["bypass"] = "NotReady"]
    /\ snapshot' = FALSE /\ clean' = FALSE
    /\ Goto(IF "bypass" \in need THEN "begin" ELSE "event")
    /\ UNCHANGED <<clock, health, waiting, conf, exempt, listed, fresh, failures>>

\* handle_journal_io_failure: the marker is set, and again after the backoff.
JournalFails ==
    /\ wpc \in {"work", "event"}
    /\ Failure /\ ClockRead /\ MarkFailure(clock)
    /\ Goto("backoff") /\ RoomForBackoff
    /\ UNCHANGED <<running, corrupt, waiting, conf, state, bypass, faults>>

BackoffEnds ==
    /\ wpc = "backoff"
    /\ ClockRead /\ MarkFailure(clock)
    /\ Goto("top")
    /\ UNCHANGED <<running, corrupt, waiting, conf, state, bypass, bounds>>

\* Mutant: the bypass cache is degraded as well.
EventFails_AllCaches ==
    /\ wpc \in {"work", "event"} /\ Fault
    /\ \E affects \in SUBSET Cache \ {{}} :
          LET marked == {c \in affects : state[c] = "Ready"}
          IN  /\ state' = [c \in Cache |-> IF c \in marked THEN "WorkerFailed" ELSE state[c]]
              /\ degraded' = degraded \cup marked
    /\ wpc' = "top"
    /\ UNCHANGED <<clock, health, waiting, conf, bypass, at, need, observed, done, history,
                   failures>>

\* An event's transaction fails: DegradedByRetry::mark, for the caches that the
\* event affects.  (The read and the write of a state are two sections; what a
\* commit callback may record between them is in LoginLockout.)
EventFails ==
    /\ wpc \in {"work", "event"} /\ Fault
    /\ \E affects \in SUBSET Feature \ {{}} :
          LET marked == {c \in affects : state[c] = "Ready"}
          IN  /\ state' = [c \in Cache |-> IF c \in marked THEN "WorkerFailed" ELSE state[c]]
              /\ degraded' = degraded \cup marked
    /\ wpc' = "top"
    /\ UNCHANGED <<clock, health, waiting, conf, bypass, at, need, observed, done, history,
                   failures>>

\* An event commits: what its retries degraded is restored, unless something
\* else was recorded meanwhile.
EventCommits ==
    /\ wpc \in {"work", "event"}
    /\ state' = [c \in Cache |-> IF c \in degraded /\ state[c] = "WorkerFailed"
                                 THEN "Ready" ELSE state[c]]
    /\ wpc' = IF \E c \in degraded : state'[c] # "Ready" THEN "begin" ELSE "top"
    /\ degraded' = {}
    /\ UNCHANGED <<clock, health, waiting, conf, bypass, at, need, observed, done, history,
                   bounds>>

\* suspend_on_unhealthy_queue leaves the caches as they are.
Resume ==
    /\ wpc = "suspended" /\ ~corrupt
    /\ Goto("begin")
    /\ UNCHANGED <<clock, health, waiting, conf, state, bypass, history, bounds>>

----------------------------------------------------------------------------
(* The worker ends. *)

\* SIGTERM where the worker looks for it, or an error its outermost guard
\* contains: auth_event_consumer_main, mark_stopped first.
MarkStopped ==
    /\ wpc \notin {"start", "stop", "stopped"} /\ Fault
    /\ running' = FALSE
    /\ wpc' = "stop" /\ at' = "lock" /\ Forget /\ degraded' = {}
    /\ UNCHANGED <<clock, marker, corrupt, waiting, conf, state, bypass, history, failures>>

\* Then each cache that is Ready becomes WorkerFailed.
StopCache ==
    /\ wpc = "stop"
    /\ state' = [state EXCEPT ![at] = IF @ = "Ready" THEN "WorkerFailed" ELSE @]
    /\ at' = CASE at = "lock" -> "expiry" [] at = "expiry" -> "bypass" [] OTHER -> "lock"
    /\ wpc' = IF at = "bypass" THEN "stopped" ELSE "stop"
    /\ UNCHANGED <<clock, health, waiting, conf, bypass, need, observed, done, degraded,
                   history, bounds>>

\* A FATAL ends the process with none of that; the postmaster starts another.
WorkerDies ==
    /\ wpc \notin {"start", "stopped"} /\ Fault
    /\ wpc' = "start" /\ at' = "lock" /\ Forget /\ degraded' = {}
    /\ UNCHANGED <<clock, health, waiting, conf, state, bypass, history, failures>>

HydrationStep == BeginHydration \/ ReadTable \/ ApplyTable \/ FinishHydration

LoopStep ==
    \/ CheckLoop \/ RefreshExemptions \/ EventCommits \/ BackoffEnds \/ Resume

Next ==
    \/ Tick \/ Reload \/ AlterRole
    \/ BackendReadsClock \/ BackendAppendFails \/ BackendAppends
    \/ CommitOverflows \/ QueueCorrupts \/ RecoverQueue \/ ServerRestart
    \/ MarkRunning \/ HydrationStep \/ HydrationFails
    \/ LoopStep \/ ReadExemptions \/ RefreshFails \/ JournalFails \/ EventFails
    \/ MarkStopped \/ StopCache \/ WorkerDies

Spec == Init /\ [][Next]_vars

\* The clock and the worker go on; a loop that comes round for ever refreshes
\* the exemptions, since its interval passes.  Faults are bounded: after the
\* last one what the worker retries succeeds.
Fairness ==
    /\ WF_vars(Tick)
    /\ WF_vars(MarkRunning) /\ WF_vars(HydrationStep) /\ WF_vars(LoopStep)
    /\ SF_vars(ReadExemptions) /\ WF_vars(StopCache)

FairSpec == Spec /\ Fairness

----------------------------------------------------------------------------
(* Properties. *)

EnforcementOn == running /\ ~corrupt /\ marker = Healthy

\* Enforcement is never announced healthy by a cache that was read before the
\* last recorded failure (src/worker_health.rs:199-205: "the caches are never
\* announced healthy on the strength of a hydration that a later failure
\* already invalidated").
HealthyIsEarned ==
    EnforcementOn => \A c \in Cache : state[c] = "Ready" => c \in fresh

\* Enforcement comes back by itself once failures have stopped, while there is
\* a worker and the queue is sound: the marker is cleared and what the switches
\* need has been rebuilt, as Ready, or as Overflow if its rows do not fit, in
\* which case that feature stays off (src/worker_health.rs:52-53: "Enforcement resumes one
\* hydration after the storage problem actually stops").
EnforcementResumes ==
    \A c \in Conf :
        <>[](running /\ ~corrupt /\ conf = c) =>
            <>[](marker = Healthy /\ \A k \in Needed : state[k] \in {"Ready", "Overflow"})

\* A role whose exemption was set or reset is treated so at its logins in the
\* end (README.md:250, "The bypass change becomes visible to login checks").
ExemptionConverges ==
    \A b \in BOOLEAN :
        <>[](exempt = b) => <>[](EnforcementOn /\ state["bypass"] = "Ready" => listed = b)
=============================================================================
