----------------------------- MODULE GraceLogins -----------------------------
(***************************************************************************)
(* Grace logins after a password has expired: the rows of                  *)
(* password_profile.password_expiry and their recorder (src/lib.rs), the   *)
(* shared expiry cache from which the hook takes a grace login             *)
(* (src/expiry_cache.rs), the event that records it, the worker that       *)
(* persists the event and hydrates the cache (src/worker.rs,               *)
(* src/lock_cache.rs).                                                     *)
(*                                                                         *)
(* The cache is decremented at the login, the row when the worker replays  *)
(* the event: what a password has left is the row less what is queued.     *)
(*                                                                         *)
(* Abstractions: the journal and the ring are one durable queue from which *)
(* an event takes effect once and in order, which is what AuthPipeline     *)
(* shows; a generation is the number of its password change, since         *)
(* clock_timestamp() and the floor under it never repeat; instants are the *)
(* set of generations whose must_change_by has passed; logins that are not *)
(* judged (enforcement off or paused, cache not Ready) leave no trace and  *)
(* are left out, as are events of other kinds; the pause that a failed     *)
(* append causes (WorkerHealth) is not used: logins may go on as those do  *)
(* that looked before it; a transaction changes one user's row once        *)
(* (PendingCacheOps has the rest).                                         *)
(***************************************************************************)
EXTENDS Integers, Sequences, FiniteSets

CONSTANTS User,
          Session,      \* sessions that change passwords
          Client,       \* connections in the authentication hook
          Grant,        \* password_grace_logins
          Capacity,     \* EXPIRY_CACHE_SIZE
          MaxChanges,   \* bound on password changes
          MaxFaults,    \* bound on crashes, hydrations, failed transactions and appends
          Overlap       \* whether hydration may overlap unrecorded grace logins

ASSUME GraceAssumption ==
    /\ IsFiniteSet(User) /\ "none" \notin User
    /\ Grant \in Nat /\ Capacity \in Nat \ {0}
    /\ MaxChanges \in Nat /\ MaxFaults \in Nat /\ Overlap \in BOOLEAN

Generation == 1 .. MaxChanges
Row == [gen : Generation, grace : 0 .. Grant]   \* an entry of the cache, too
None == [gen |-> 0, grace |-> 0]                \* no row, a free slot
ExpiryCacheState == {"NotReady", "Ready", "Overflow", "WorkerFailed"}
Event == [user : User, gen : Generation]        \* GraceConsumed
Txn == [pc : {"staged", "committed"}, user : User, row : Row \cup {None}]
Login == [user : User, now : SUBSET Generation]
Idle == [user |-> "none"]
WorkerPC == {"hydrate", "apply", "loop", "mark", "marking", "restore", "restoring"}

VARIABLES
    changes,    \* password changes so far; the latest generation
    lapsed,     \* the generations whose must_change_by has passed
    rows,       \* committed password_expiry
    txn,        \* the open transaction of each session
    login,      \* what each connection saw in lookup, or Idle
    cached,     \* the entry of each user in the expiry cache
    state,      \* ExpiryCacheState
    queue,      \* durable grace events not yet persisted
    wpc,        \* where the worker is
    prepared,   \* the rows hydration has read
    failed,     \* event_failures > 0
    degraded,   \* DegradedByRetry.expiry
    consumed,   \* history: grace logins taken under each generation
    kept,       \* history: records kept of logins that were not counted, likewise
    faults      \* faults so far

cache == <<cached, state>>
worker == <<wpc, prepared, failed, degraded>>
history == <<consumed, kept>>
vars == <<changes, lapsed, rows, txn, login, cache, queue, worker, history, faults>>

Occupied(entries) == {u \in User : entries[u] # None}
Empty == [u \in User |-> None]

TypeOK ==
    /\ changes \in 0 .. MaxChanges /\ lapsed \subseteq 1 .. changes
    /\ rows \in [User -> Row \cup {None}]
    /\ txn \in [Session -> Txn \cup {Idle}]
    /\ login \in [Client -> Login \cup {Idle}]
    /\ cached \in [User -> Row \cup {None}] /\ Cardinality(Occupied(cached)) <= Capacity
    /\ state \in ExpiryCacheState
    /\ queue \in Seq(Event)
    /\ wpc \in WorkerPC /\ prepared \in [User -> Row \cup {None}]
    /\ failed \in BOOLEAN /\ degraded \in BOOLEAN
    /\ consumed \in [Generation -> Nat] /\ kept \in [Generation -> Nat]
    /\ faults \in 0 .. MaxFaults

Init ==
    /\ changes = 0 /\ lapsed = {}
    /\ rows = Empty
    /\ txn = [s \in Session |-> Idle] /\ login = [c \in Client |-> Idle]
    /\ cached = Empty /\ state = "NotReady"
    /\ queue = <<>>
    /\ wpc = "hydrate" /\ prepared = Empty /\ failed = FALSE /\ degraded = FALSE
    /\ consumed = [g \in Generation |-> 0] /\ kept = [g \in Generation |-> 0]
    /\ faults = 0

Fault == faults < MaxFaults /\ faults' = faults + 1

\* Time passes the must_change_by of a password.
Expire ==
    /\ \E g \in (1 .. changes) \ lapsed : lapsed' = lapsed \cup {g}
    /\ UNCHANGED <<changes, rows, txn, login, cache, queue, worker, history, faults>>

----------------------------------------------------------------------------
(* Password changes: record_password_change_internal. *)

\* Sessions that hold the user's advisory lock, until after their callback.
Holders(u) == {s \in Session : txn[s].user = u}

\* The row is written with a fresh generation and the full grant, or deleted
\* when expiry is disabled, and the decision is staged.
ChangePassword(s) ==
    /\ txn[s] = Idle /\ changes < MaxChanges
    /\ wpc # "apply"                                 \* the SHARE lock
    /\ changes' = changes + 1
    /\ \E u \in User, row \in {None, [gen |-> changes', grace |-> Grant]} :
          /\ Holders(u) = {}
          /\ txn' = [txn EXCEPT ![s] = [pc |-> "staged", user |-> u, row |-> row]]
    /\ UNCHANGED <<lapsed, rows, login, cache, queue, worker, history, faults>>

Abort(s) ==
    /\ txn[s] # Idle /\ txn[s].pc = "staged"
    /\ txn' = [txn EXCEPT ![s] = Idle]
    /\ UNCHANGED <<changes, lapsed, rows, login, cache, queue, worker, history, faults>>

\* The commit is visible to every other session.
CommitRow(s) ==
    /\ txn[s] # Idle /\ txn[s].pc = "staged"
    /\ rows' = [rows EXCEPT ![txn[s].user] = txn[s].row]
    /\ txn' = [txn EXCEPT ![s].pc = "committed"]
    /\ UNCHANGED <<changes, lapsed, login, cache, queue, worker, history, faults>>

\* set_entry and clear_entry: the user's slot or a free one; a live entry of
\* another user is never evicted.
Fits(u) == cached[u] # None \/ Cardinality(Occupied(cached)) < Capacity
SetOrClear(u, row) ==
    IF row = None \/ Fits(u)
    THEN cached' = [cached EXCEPT ![u] = row] /\ UNCHANGED state
    ELSE state' = "Overflow" /\ UNCHANGED cached

\* XACT_EVENT_COMMIT, then the locks go.
CommitCallback(s) ==
    /\ txn[s] # Idle /\ txn[s].pc = "committed"
    /\ SetOrClear(txn[s].user, txn[s].row)
    /\ txn' = [txn EXCEPT ![s] = Idle]
    /\ UNCHANGED <<changes, lapsed, rows, login, queue, worker, history, faults>>

----------------------------------------------------------------------------
(* The authentication hook, after PostgreSQL accepted the password. *)

\* classify = ExpiredWithGrace, of the entry of a user who has one.
Expired(entry, now) == entry # None /\ entry.gen \in now
WithGrace(entry, now) == Expired(entry, now) /\ entry.grace > 0

\* lookup.  Every answer but one admits or refuses at once and leaves nothing.
Lookup(c) ==
    /\ login[c] = Idle
    /\ \E u \in User :
          login' = IF state = "Ready" /\ WithGrace(cached[u], lapsed)
                   THEN [login EXCEPT ![c] = [user |-> u, now |-> lapsed]]
                   ELSE login
    /\ UNCHANGED <<changes, lapsed, rows, txn, cache, queue, worker, history, faults>>

\* The event of a grace login is in the journal.
Journaled(u) == queue' = Append(queue, [user |-> u, gen |-> cached[u].gen])

\* One grace login: the event is durable, then the entry has one less.
Take(u) ==
    /\ Journaled(u)
    /\ cached' = [cached EXCEPT ![u].grace = @ - 1]
    /\ consumed' = [consumed EXCEPT ![cached[u].gen] = @ + 1] /\ UNCHANGED kept

Hydrating == wpc \in {"hydrate", "apply"}

\* Mutant: what lookup said is not looked at again under the exclusive lock.
TryConsumeGrace_TrustsLookup(c) ==
    /\ login[c] # Idle /\ (Overlap \/ ~Hydrating)
    /\ IF state = "Ready" /\ cached[login[c].user] # None
       THEN Take(login[c].user) ELSE UNCHANGED <<queue, cached, history>>
    /\ login' = [login EXCEPT ![c] = Idle]
    /\ UNCHANGED <<changes, lapsed, rows, txn, state, worker, faults>>

\* try_consume_grace, in one section under EXPIRY_CACHE_LWLOCK: the entry is
\* judged again, by the instant of the lookup.
Entitled(c) ==
    /\ login[c] # Idle /\ (Overlap \/ ~Hydrating)
    /\ state = "Ready" /\ WithGrace(cached[login[c].user], login[c].now)

TryConsumeGrace(c) ==
    /\ Entitled(c)
    /\ Take(login[c].user)
    /\ login' = [login EXCEPT ![c] = Idle]
    /\ UNCHANGED <<changes, lapsed, rows, txn, state, worker, faults>>

\* The record is written and its fsync fails: Unavailable, so the login is let in
\* and not counted, but the record stays in the journal and will be replayed.
AppendFails(c) ==
    /\ Entitled(c) /\ Fault
    /\ Journaled(login[c].user)
    /\ kept' = [kept EXCEPT ![cached[login[c].user].gen] = @ + 1]
    /\ login' = [login EXCEPT ![c] = Idle]
    /\ UNCHANGED <<changes, lapsed, rows, txn, cache, worker, consumed>>

\* NotNeeded or NoGrace by then, or Unavailable with no record left: nothing is
\* decremented.
NothingConsumed(c) ==
    /\ login[c] # Idle
    /\ login' = [login EXCEPT ![c] = Idle]
    /\ UNCHANGED <<changes, lapsed, rows, txn, cache, queue, worker, history, faults>>

----------------------------------------------------------------------------
(* The worker: hydration. *)

\* Mutant: the table is not locked, so a commit may still be unapplied.
CanLockTable_Always == TRUE

\* LOCK TABLE ... IN SHARE MODE waits for every session that wrote.
CanLockTable == \A s \in Session : txn[s] = Idle

\* As many rows as fit are read (the soonest to expire first: any, here).
ReadRows ==
    /\ wpc = "hydrate" /\ CanLockTable
    /\ \E loaded \in SUBSET Occupied(rows) :
          /\ Cardinality(loaded) = IF Cardinality(Occupied(rows)) > Capacity
                                   THEN Capacity ELSE Cardinality(Occupied(rows))
          /\ prepared' = [u \in User |-> IF u \in loaded THEN rows[u] ELSE None]
    /\ wpc' = "apply"
    /\ UNCHANGED <<changes, lapsed, rows, txn, login, cache, queue, failed, degraded,
                   history, faults>>

\* apply_hydrated replaces the whole cache and its state in one section.
ApplyHydrated ==
    /\ wpc = "apply"
    /\ cached' = prepared
    /\ state' = IF Occupied(prepared) = Occupied(rows) THEN "Ready" ELSE "Overflow"
    /\ wpc' = "loop" /\ prepared' = Empty
    /\ UNCHANGED <<changes, lapsed, rows, txn, login, queue, failed, degraded,
                   history, faults>>

HydrationFails ==
    /\ Hydrating /\ Fault
    /\ state' = "NotReady"
    /\ wpc' = "hydrate" /\ prepared' = Empty
    /\ UNCHANGED <<changes, lapsed, rows, txn, login, cached, queue, failed, degraded,
                   history>>

LeaveLoop == wpc' = "hydrate" /\ prepared' = Empty /\ failed' = FALSE /\ degraded' = FALSE

\* NeedsRehydration, for any of its reasons.
Rehydrate ==
    /\ wpc = "loop" /\ Fault
    /\ Overlap \/ queue = <<>>
    /\ LeaveLoop
    /\ UNCHANGED <<changes, lapsed, rows, txn, login, cache, queue, history>>

----------------------------------------------------------------------------
(* The worker: one grace event. *)

\* The loop consumes only while the cache is usable, or unusable by its own
\* retries.
Usable == state \in {"Ready", "Overflow"} \/ (degraded /\ state = "WorkerFailed")

\* The oldest event, once its user's advisory lock is free.
CanReplay ==
    /\ wpc = "loop" /\ Usable
    /\ queue # <<>> /\ Holders(Head(queue).user) = {}

\* Mutant: the generation is not compared.
Matches_AnyGeneration(row, event) == row # None

\* The row is still the password under which the grace login was taken.
Matches(row, event) == row # None /\ row.gen = event.gen

\* Mutant: an event of an older password is refused as well.
Contradicted_IfStale(row, event) == ~Matches(row, event) \/ row.grace = 0

\* The row has no grace left for a login that was admitted.
Contradicted(row, event) == Matches(row, event) /\ row.grace = 0

\* The transaction rolls back; the event stays.
RollBack ==
    /\ failed' = TRUE /\ wpc' = "mark"
    /\ UNCHANGED <<rows, queue>>

\* persist_grace_consumption: one less, or nothing for a stale event; a
\* contradiction is an error.
PersistGrace ==
    /\ CanReplay
    /\ LET event == Head(queue)
           row == rows[event.user]
       IN  IF Contradicted(row, event)
           THEN RollBack
           ELSE /\ rows' = IF Matches(row, event)
                           THEN [rows EXCEPT ![event.user].grace = @ - 1] ELSE rows
                /\ queue' = Tail(queue)
                /\ wpc' = IF failed THEN "restore" ELSE "loop"
                /\ UNCHANGED failed
    /\ UNCHANGED <<changes, lapsed, txn, login, cache, prepared, degraded, history, faults>>

\* A lock timeout or another error.
EventFails ==
    /\ wpc = "loop" /\ Usable /\ queue # <<>>
    /\ Fault /\ RollBack
    /\ UNCHANGED <<changes, lapsed, txn, login, cache, prepared, degraded, history>>

\* DegradedByRetry::mark and restore: a read, then a write.
Mark ==
    /\ wpc = "mark"
    /\ wpc' = IF ~degraded /\ state = "Ready" THEN "marking" ELSE "loop"
    /\ UNCHANGED <<changes, lapsed, rows, txn, login, cache, queue, prepared, failed,
                   degraded, history, faults>>

MarkFailed ==
    /\ wpc = "marking"
    /\ state' = "WorkerFailed" /\ degraded' = TRUE /\ wpc' = "loop"
    /\ UNCHANGED <<changes, lapsed, rows, txn, login, cached, queue, prepared, failed,
                   history, faults>>

Restore ==
    /\ wpc = "restore"
    /\ failed' = FALSE /\ degraded' = FALSE
    /\ wpc' = CASE degraded /\ state = "WorkerFailed" -> "restoring"
                [] degraded /\ state \notin {"WorkerFailed", "Ready"} -> "hydrate"
                [] OTHER -> "loop"
    /\ UNCHANGED <<changes, lapsed, rows, txn, login, cache, queue, prepared, history,
                   faults>>

RestoreReady ==
    /\ wpc = "restoring"
    /\ state' = "Ready" /\ wpc' = "loop"
    /\ UNCHANGED <<changes, lapsed, rows, txn, login, cached, queue, prepared, failed,
                   degraded, history, faults>>

\* A crash or restart: shared memory is new; rows and the journal stay.
Crash ==
    /\ Fault
    /\ Overlap \/ queue = <<>>
    /\ txn' = [s \in Session |-> Idle] /\ login' = [c \in Client |-> Idle]
    /\ cached' = Empty /\ state' = "NotReady"
    /\ LeaveLoop
    /\ UNCHANGED <<changes, lapsed, rows, queue, history>>

WorkerStep ==
    \/ ReadRows \/ ApplyHydrated
    \/ PersistGrace \/ Mark \/ MarkFailed \/ Restore \/ RestoreReady

Next ==
    \/ Expire \/ Crash
    \/ \E s \in Session : ChangePassword(s) \/ Abort(s) \/ CommitRow(s) \/ CommitCallback(s)
    \/ \E c \in Client : Lookup(c) \/ TryConsumeGrace(c) \/ AppendFails(c)
                       \/ NothingConsumed(c)
    \/ WorkerStep \/ HydrationFails \/ Rehydrate \/ EventFails

Spec == Init /\ [][Next]_vars

\* Sessions end their transactions and the worker goes on; the worker is not
\* passed over for ever when it waits for a lock.
Fairness ==
    /\ WF_vars(WorkerStep) /\ SF_vars(ReadRows) /\ SF_vars(PersistGrace)
    /\ \A s \in Session : WF_vars(CommitRow(s) \/ CommitCallback(s))

FairSpec == Spec /\ Fairness

----------------------------------------------------------------------------
(* Properties. *)

\* The recorded grace logins of a password still in the queue.
Pending(u, g) ==
    Cardinality({i \in DOMAIN queue : queue[i] = [user |-> u, gen |-> g]})

\* No password gives more grace logins than password_grace_logins ("Logins
\* allowed after expiry", README.md:192), however many connections ask at once.
GrantRespected == \A g \in Generation : consumed[g] <= Grant

\* The row accounts for every record that was persisted and for no other: an
\* event of an older password does not touch a fresh grant
\* (src/expiry_cache.rs:11-16).  Records are those of the logins that were
\* counted and, against src/lib.rs:824-825 ("not counted"), those that a failed
\* append left behind.
RowCountsPersisted ==
    \A u \in User : rows[u] # None =>
        LET g == rows[u].gen
        IN  rows[u].grace = Grant - (consumed[g] + kept[g] - Pending(u, g))

\* Nobody is between a visible commit and its callback for this user.
Settled(u) == \A s \in Holders(u) : txn[s].pc # "committed"

\* While the cache is Ready it has every row, of the same password, with what
\* the row will have left once the queue has been replayed, and beyond that no
\* more than the records a failed append left will take from the row alone.
ReadyMatchesRows ==
    state = "Ready" => \A u \in User : Settled(u) =>
        /\ cached[u].gen = rows[u].gen
        /\ rows[u] # None =>
              LET left == rows[u].grace - Pending(u, rows[u].gen)
              IN  cached[u].grace \in left .. left + kept[rows[u].gen]

\* Every grace login is persisted in the end: no event blocks the queue, unless a
\* record kept by a failed append took the row's last grace login first and the
\* event now contradicts the row.
QueueDrains ==
    queue # <<>> ~>
        \/ queue = <<>>
        \/ LET event == Head(queue)
           IN  Contradicted(rows[event.user], event) /\ kept[event.gen] > 0
=============================================================================
