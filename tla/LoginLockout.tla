---------------------------- MODULE LoginLockout ----------------------------
(***************************************************************************)
(* Failed logins, lockouts and the shared lock cache: the rows of          *)
(* password_profile.login_attempts (src/lib.rs), the bounded cache of      *)
(* active lockouts the authentication hook trusts (src/lock_cache.rs), the *)
(* worker's hydration of it and its degradation while an event is retried  *)
(* (src/worker.rs).                                                        *)
(*                                                                         *)
(* Sessions run transactions concurrently.  A transaction takes the user's *)
(* advisory lock, changes the row and stages a decision; its commit first  *)
(* becomes visible, then the callback applies the decision to the cache,   *)
(* and only then the advisory and table locks go.                          *)
(*                                                                         *)
(* Abstractions: one operation per transaction (PendingCacheOps has the    *)
(* rest); slots are a set of entries, since only their number matters;     *)
(* failures are counted up to MaxFails, since no more are told apart;      *)
(* superusers and exempt roles, which are not recorded, are left out; the  *)
(* lockout switch is on.                                                   *)
(***************************************************************************)
EXTENDS Integers, FiniteSets

CONSTANTS User,
          Backend,      \* sessions that call the SQL functions
          Worker,       \* the session of the auth event consumer
          MaxFails,     \* failed_login_max
          Minutes,      \* the lockout_minutes in force for some failure
          Capacity,     \* LOCK_CACHE_SIZE
          MaxTime,      \* bound on the clock
          MaxFaults     \* bound on crashes, failed hydrations and event retries

ASSUME LockoutAssumption ==
    /\ Worker \notin Backend /\ IsFiniteSet(User)
    /\ MaxFails \in Nat \ {0} /\ Minutes \subseteq Nat \ {0}
    /\ Capacity \in Nat \ {0} /\ MaxTime \in Nat /\ MaxFaults \in Nat

Session == Backend \cup {Worker}
NoTime == -1                                \* SQL NULL
Time == Nat \cup {NoTime}
NoRow == [fails |-> 0, until |-> NoTime]    \* no row for the user
Row == [fails : 0 .. MaxFails, until : Time]
CacheState == {"NotReady", "Ready", "Overflow", "WorkerFailed"}
Entry == [user : User, expires : Nat]
Kind == {"failure", "automatic", "forced"}

\* What a session does: begun, then holding the user's advisory lock, then
\* having changed the row and staged a decision, then visibly committed.
Txn == [pc : {"begun", "locked", "staged", "committed"}, user : User,
        kind : Kind, start : Nat, row : Row, decision : Time]
Idle == [pc |-> "idle"]
Event == [user : User, kind : {"failure", "automatic"}]
NoEvent == [kind |-> "none"]

VARIABLES
    clock,      \* GetCurrentTimestamp
    rows,       \* committed login_attempts
    txn,        \* the open transaction of each session
    entries,    \* the occupied slots of the cache
    state,      \* CacheState
    wpc,        \* where the worker is
    start,      \* now() of the hydration transaction
    prepared,   \* the rows hydration has read, and whether some did not fit
    event,      \* the pending event whose transaction failed, or NoEvent
    degraded,   \* DegradedByRetry.lock
    overwritten,\* history: since the last hydration, mark or restore wrote over a
                \* state that was recorded after it had looked
    faults      \* faults so far

cache == <<entries, state>>
worker == <<wpc, start, prepared, event, degraded>>
vars == <<clock, rows, txn, cache, worker, overwritten, faults>>

NothingPrepared == [entries |-> {}, overflow |-> FALSE]
WorkerPC == {"hydrate", "wait", "apply", "loop", "txn",
             "mark", "marking", "restore", "restoring"}

TypeOK ==
    /\ clock \in 0 .. MaxTime
    /\ rows \in [User -> Row]
    /\ txn \in [Session -> Txn \cup {Idle}]
    /\ entries \subseteq Entry /\ Cardinality(entries) <= Capacity
    /\ state \in CacheState
    /\ wpc \in WorkerPC /\ start \in Nat
    /\ prepared \in [entries : SUBSET Entry, overflow : BOOLEAN]
    /\ event \in Event \cup {NoEvent} /\ degraded \in BOOLEAN /\ overwritten \in BOOLEAN
    /\ faults \in 0 .. MaxFaults

Init ==
    /\ clock = 0
    /\ rows = [u \in User |-> NoRow]
    /\ txn = [s \in Session |-> Idle]
    /\ entries = {} /\ state = "NotReady"
    /\ wpc = "hydrate" /\ start = 0 /\ prepared = NothingPrepared
    /\ event = NoEvent /\ degraded = FALSE /\ overwritten = FALSE /\ faults = 0

Tick ==
    /\ clock < MaxTime /\ clock' = clock + 1
    /\ UNCHANGED <<rows, txn, cache, worker, overwritten, faults>>

----------------------------------------------------------------------------
(* login_attempts, as a transaction that began at `now` changes it. *)

\* The failures that count after the reset UPDATE: an expired lockout is
\* forgotten with its count.
Counted(row, now) ==
    IF row.until # NoTime /\ row.until <= now THEN 0 ELSE row.fails

\* Mutant: the threshold is compared with >.
Failed_StrictThreshold(row, now, minutes) ==
    LET fails == Counted(row, now) + 1
    IN  [fails |-> IF fails > MaxFails THEN MaxFails ELSE fails,
         until |-> IF row # NoRow /\ fails > MaxFails THEN now + minutes ELSE NoTime]

\* record_failed_login: the reset, then INSERT ... ON CONFLICT.  A row that is
\* inserted has no lockout, whatever the threshold.
Failed(row, now, minutes) ==
    LET fails == Counted(row, now) + 1
    IN  [fails |-> IF fails > MaxFails THEN MaxFails ELSE fails,
         until |-> IF row # NoRow /\ fails >= MaxFails THEN now + minutes ELSE NoTime]

\* The automatic clear deletes only a row without an active lockout.
AutoCleared(row, now) ==
    IF row.until = NoTime \/ row.until <= now THEN NoRow ELSE row

\* decision_for: the expiry to cache, or NoTime for ClearLock.
DecisionFor(until, now) == IF until > now THEN until ELSE NoTime

----------------------------------------------------------------------------
(* The lock cache. *)

Active(e, now) == e.expires > now

\* set: an expiry already past is not installed; the user's own slot is used,
\* else a free or expired one; with every slot active nothing is evicted.
\* (Which slot is found first is open: there may be several results.)
SetResults(user, expires, now) ==
    LET new == [user |-> user, expires |-> expires]
        own == {e \in entries : e.user = user}
        expired == {e \in entries : ~Active(e, now)}
        free == Cardinality(entries) < Capacity
    IN  CASE expires <= now -> {cache}
          [] expires > now /\ own # {} ->
                {<<(entries \ {e}) \cup {new}, state>> : e \in own}
          [] expires > now /\ own = {} /\ (free \/ expired # {}) ->
                {<<(entries \ {e}) \cup {new}, state>> : e \in expired}
                \cup (IF free THEN {<<entries \cup {new}, state>>} ELSE {})
          [] OTHER -> {<<entries, "Overflow">>}

\* clear: one slot of the user is emptied.
ClearResults(user) ==
    LET own == {e \in entries : e.user = user}
    IN  IF own = {} THEN {cache} ELSE {<<entries \ {e}, state>> : e \in own}

----------------------------------------------------------------------------
(* A session's transaction. *)

Holders(u) == {s \in Session : /\ txn[s].pc \in {"locked", "staged", "committed"}
                               /\ txn[s].user = u}

\* Sessions that hold ROW EXCLUSIVE on login_attempts.
Writers == {s \in Session : txn[s].pc \in {"staged", "committed"}}

Begin(s, user, kind) ==
    /\ txn[s] = Idle
    /\ txn' = [txn EXCEPT ![s] = [pc |-> "begun", user |-> user, kind |-> kind,
                                  start |-> clock, row |-> NoRow, decision |-> NoTime]]

\* A backend: record_failed_login and clear_login_attempts.
BeginBackend(s) ==
    /\ s \in Backend
    /\ \E u \in User, k \in {"failure", "forced"} : Begin(s, u, k)
    /\ UNCHANGED <<clock, rows, cache, worker, overwritten, faults>>

\* lock_login_attempts_for.
AdvisoryLock(s) ==
    /\ txn[s].pc = "begun" /\ Holders(txn[s].user) = {}
    /\ txn' = [txn EXCEPT ![s].pc = "locked"]
    /\ UNCHANGED <<clock, rows, cache, worker, overwritten, faults>>

\* The statements and the staging, for which the table must not be locked.
ChangeRow(s, kind, row, decision) ==
    /\ txn[s].pc = "locked" /\ txn[s].kind = kind
    /\ wpc # "apply"
    /\ txn' = [txn EXCEPT ![s].pc = "staged", ![s].row = row, ![s].decision = decision]
    /\ UNCHANGED <<clock, rows, cache, worker, overwritten, faults>>

RecordFailedLogin(s) ==
    \E minutes \in Minutes :
        LET row == Failed(rows[txn[s].user], txn[s].start, minutes)
        IN  ChangeRow(s, "failure", row, DecisionFor(row.until, clock))

AutomaticClear(s) ==
    LET row == AutoCleared(rows[txn[s].user], txn[s].start)
    IN  ChangeRow(s, "automatic", row, DecisionFor(row.until, clock))

ForcedClear(s) == ChangeRow(s, "forced", NoRow, NoTime)

\* The commit is durable and visible to every other session.
CommitRow(s) ==
    /\ txn[s].pc = "staged"
    /\ rows' = [rows EXCEPT ![txn[s].user] = txn[s].row]
    /\ txn' = [txn EXCEPT ![s].pc = "committed"]
    /\ UNCHANGED <<clock, cache, worker, overwritten, faults>>

\* XACT_EVENT_COMMIT: the staged decision reaches the cache, the locks go, and
\* the worker goes on after its event.
CommitCallback(s) ==
    /\ txn[s].pc = "committed"
    /\ \E result \in IF txn[s].decision = NoTime THEN ClearResults(txn[s].user)
                     ELSE SetResults(txn[s].user, txn[s].decision, clock) :
          entries' = result[1] /\ state' = result[2]
    /\ txn' = [txn EXCEPT ![s] = Idle]
    /\ wpc' = CASE s # Worker -> wpc
                [] s = Worker /\ event = NoEvent -> "loop"
                [] OTHER -> "restore"
    /\ UNCHANGED <<clock, rows, start, prepared, event, degraded, overwritten, faults>>

\* The transaction rolls back, its staged decision with it.
RollBack(s) ==
    /\ txn[s].pc \in {"begun", "locked", "staged"}
    /\ txn' = [txn EXCEPT ![s] = Idle]

Abort(s) ==
    /\ s \in Backend /\ RollBack(s)
    /\ UNCHANGED <<clock, rows, cache, worker, overwritten, faults>>

\* The worker's transaction fails: it keeps its event.
EventFails ==
    /\ faults < MaxFaults /\ faults' = faults + 1
    /\ RollBack(Worker)
    /\ event' = [user |-> txn[Worker].user, kind |-> txn[Worker].kind]
    /\ wpc' = "mark"
    /\ UNCHANGED <<clock, rows, cache, start, prepared, degraded, overwritten>>

----------------------------------------------------------------------------
(* The worker: hydration. *)

\* Mutant: the table is not locked, so a commit may still be unapplied.
CanLockTable_Always == TRUE

\* LOCK TABLE ... IN SHARE MODE waits for every session that wrote.
CanLockTable == Writers = {}

\* The hydration transaction begins; its now() is this instant.
BeginHydration ==
    /\ wpc = "hydrate"
    /\ wpc' = "wait" /\ start' = clock
    /\ UNCHANGED <<clock, rows, txn, cache, prepared, event, degraded, overwritten, faults>>

\* The count and the bounded read, under the SHARE lock: the furthest expiries
\* first (how ties are broken does not matter).
ReadLockouts ==
    /\ wpc = "wait" /\ CanLockTable
    /\ LET active == {u \in User : rows[u].until > start}
       IN  \E loaded \in SUBSET active :
              /\ Cardinality(loaded) = IF Cardinality(active) > Capacity
                                       THEN Capacity ELSE Cardinality(active)
              /\ \A u \in loaded, v \in active \ loaded : rows[u].until >= rows[v].until
              /\ prepared' = [entries |-> {[user |-> u, expires |-> rows[u].until] :
                                              u \in loaded},
                              overflow |-> loaded # active]
    /\ wpc' = "apply"
    /\ UNCHANGED <<clock, rows, txn, cache, start, event, degraded, overwritten, faults>>

\* apply_hydrated_entries replaces the cache and its state in one section.
ApplyHydrated ==
    /\ wpc = "apply"
    /\ entries' = {e \in prepared.entries : Active(e, clock)}
    /\ state' = IF prepared.overflow THEN "Overflow" ELSE "Ready"
    /\ overwritten' = FALSE
    /\ wpc' = "loop" /\ start' = 0 /\ prepared' = NothingPrepared
    /\ UNCHANGED <<clock, rows, txn, event, degraded, faults>>

\* A lock timeout or another error: the cache is NotReady and hydration is
\* tried again.
HydrationFails ==
    /\ wpc \in {"wait", "apply"}
    /\ faults < MaxFaults /\ faults' = faults + 1
    /\ state' = "NotReady"
    /\ wpc' = "hydrate" /\ start' = 0 /\ prepared' = NothingPrepared
    /\ UNCHANGED <<clock, rows, txn, entries, event, degraded, overwritten>>

----------------------------------------------------------------------------
(* The worker: consume_events, as far as the lock cache is concerned. *)

LeaveLoop == wpc' = "hydrate" /\ event' = NoEvent /\ degraded' = FALSE

\* The cache is not usable, and not because of this loop's own retries.
Incomplete ==
    /\ state \in {"NotReady", "WorkerFailed"}
    /\ ~(degraded /\ state = "WorkerFailed")

\* Back to hydration: for that, or for a reason outside this module (the bypass
\* or expiry cache, the durable marker's quiet period, a recovered queue).  With
\* the lockout switch on, only the worker itself records the two states above,
\* so its loop meets them no sooner than the switch is turned on.
Rehydrate ==
    /\ wpc = "loop"
    /\ LeaveLoop
    /\ UNCHANGED <<clock, rows, txn, cache, start, prepared, overwritten, faults>>

\* The next event, a failure or a success, or the pending one again.
BeginEvent ==
    /\ wpc = "loop" /\ ~Incomplete
    /\ \E e \in IF event = NoEvent THEN Event ELSE {event} : Begin(Worker, e.user, e.kind)
    /\ wpc' = "txn"
    /\ UNCHANGED <<clock, rows, cache, start, prepared, event, degraded, overwritten, faults>>

\* DegradedByRetry::mark reads the state under one lock section ...
Mark ==
    /\ wpc = "mark"
    /\ wpc' = IF ~degraded /\ state = "Ready" THEN "marking" ELSE "loop"
    /\ UNCHANGED <<clock, rows, txn, cache, start, prepared, event, degraded, overwritten, faults>>

\* ... and writes it under another.
MarkFailed ==
    /\ wpc = "marking"
    /\ state' = "WorkerFailed" /\ degraded' = TRUE
    /\ overwritten' = (overwritten \/ state # "Ready")
    /\ wpc' = "loop"
    /\ UNCHANGED <<clock, rows, txn, entries, start, prepared, event, faults>>

\* Mutant: the state is left as it is.
Restore_Forgets ==
    /\ wpc = "restore"
    /\ event' = NoEvent /\ wpc' = "loop"
    /\ UNCHANGED <<clock, rows, txn, cache, start, prepared, degraded, overwritten, faults>>

\* DegradedByRetry::restore, again a read and then a write.  What another
\* session recorded meanwhile sends the worker back to hydration.
Restore ==
    /\ wpc = "restore"
    /\ event' = NoEvent /\ degraded' = FALSE
    /\ wpc' = CASE degraded /\ state = "WorkerFailed" -> "restoring"
                [] degraded /\ state \notin {"WorkerFailed", "Ready"} -> "hydrate"
                [] OTHER -> "loop"
    /\ UNCHANGED <<clock, rows, txn, cache, start, prepared, overwritten, faults>>

RestoreReady ==
    /\ wpc = "restoring"
    /\ state' = "Ready"
    /\ overwritten' = (overwritten \/ state # "WorkerFailed")
    /\ wpc' = "loop"
    /\ UNCHANGED <<clock, rows, txn, entries, start, prepared, event, degraded, faults>>

\* A server restart or crash: shared memory is new, what committed stays.
Crash ==
    /\ faults < MaxFaults /\ faults' = faults + 1
    /\ txn' = [s \in Session |-> Idle]
    /\ entries' = {} /\ state' = "NotReady" /\ overwritten' = FALSE
    /\ LeaveLoop /\ start' = 0 /\ prepared' = NothingPrepared
    /\ UNCHANGED <<clock, rows>>

SessionStep(s) ==
    \/ AdvisoryLock(s) \/ RecordFailedLogin(s) \/ AutomaticClear(s) \/ ForcedClear(s)
    \/ CommitRow(s) \/ CommitCallback(s)

WorkerStep ==
    \/ BeginHydration \/ ReadLockouts \/ ApplyHydrated
    \/ Mark \/ MarkFailed \/ Restore \/ RestoreReady

Next ==
    \/ Tick \/ Crash
    \/ \E s \in Session : BeginBackend(s) \/ SessionStep(s) \/ Abort(s)
    \/ WorkerStep \/ BeginEvent \/ EventFails \/ Rehydrate \/ HydrationFails

Spec == Init /\ [][Next]_vars

\* Sessions end their transactions and the worker goes on, with the event that
\* is pending too; it is not passed over for ever when it waits for a lock.
\* Faults are bounded: after the last one what the worker retries succeeds.
Fairness ==
    /\ WF_vars(Tick) /\ WF_vars(WorkerStep)
    /\ \A s \in Session : WF_vars(SessionStep(s))
    /\ WF_vars(event # NoEvent /\ BeginEvent) /\ WF_vars(Incomplete /\ Rehydrate)
    /\ SF_vars(ReadLockouts) /\ SF_vars(AdvisoryLock(Worker))

FairSpec == Spec /\ Fairness

----------------------------------------------------------------------------
(* Properties. *)

\* Nobody is between a visible commit and its callback for this user.
Settled(u) == \A s \in Session : ~(txn[s].pc = "committed" /\ txn[s].user = u)

\* While the cache is Ready it has every active lockout of the table with its
\* exact expiry, up to a commit whose callback is due: a locked user is not
\* let in (src/lock_cache.rs:66-67).  One thing breaks it until the next
\* hydration: an Overflow recorded by a commit between the look and the write of
\* DegradedByRetry::mark or ::restore (src/worker.rs:121-122, 141-142), which
\* the write then hides.
ReadyCoversLockouts ==
    state = "Ready" /\ ~overwritten =>
        \A u \in User :
            rows[u].until > clock /\ Settled(u) =>
                [user |-> u, expires |-> rows[u].until] \in entries

\* An account that has failed_login_max failures on record is or was locked
\* for it (src/lib.rs:1071-1072, "Lock account after this many failures").
ThresholdLocks == \A u \in User : rows[u].fails >= MaxFails => rows[u].until # NoTime

\* After hydration failed or an event was stuck, lockout enforcement comes back
\* by itself, unless more accounts are locked, in the table or still in the
\* cache, than there are slots: then the cache is Overflow, in which enforcement
\* is off and from which the worker's loop does not return to hydration
\* (src/worker.rs:862-868).
CacheComesBack ==
    state \in {"NotReady", "WorkerFailed"} ~>
        \/ state = "Ready"
        \/ /\ state = "Overflow"
           /\ Cardinality({u \in User : \/ rows[u].until # NoTime
                                       \/ \E e \in entries : e.user = u}) > Capacity
=============================================================================
