# password_profile: TLA+ models and proofs

`password_profile` is a PostgreSQL extension (Rust, pgrx) that enforces password
policy, counts failed logins, locks accounts and expires passwords. Its hard part
is what lies between the authentication hook, which runs in every backend before a
transaction can exist, and the tables that are authoritative: a durable journal, a
ring in shared memory, one background worker, and caches that the hook trusts. This
directory models that part.

Source paths below are relative to the repository's `src/`; line numbers are in
`PROJECT.json`, which maps every definition to the code it stands for.

## Inventory

| Part | State | Operations | What makes it correct |
|---|---|---|---|
| RAM ring (`auth_event.rs`) | slots, head, tail, next sequence number, counters, Healthy/Overflowed/Corrupt | `try_enqueue`, `claim`, `ack`, `recover_corrupt_ring` | bounded FIFO; an acknowledgement removes exactly the claimed event; counters agree with the content |
| Journal (`auth_journal.rs`) | the `active` and the `processing` file | `append`, `rotate`, `JournalReader`, `remove_processing`, `verify_pending` | what was acknowledged to a producer stays readable; files are removed only when processed |
| Worker (`worker.rs`) | batch, pending event, retry state | hydrate, consume, retry, suspend, stop | each event takes effect once and in order; it never stops for a recoverable failure |
| Staging (`pending_cache_op.rs`) | 16 entries and one acknowledgement per transaction | `stage*`, savepoint and transaction callbacks | after commit, caches say what the tables say |
| Login attempts, lock cache (`lib.rs`, `lock_cache.rs`) | `login_attempts` rows; 2048 slots and a state | `record_failed_login`, forced and automatic clear, `set`, `clear`, hydration | while Ready, every active lockout is in the cache |
| Expiry cache (`expiry_cache.rs`) | must-change times, grace counts | `lookup`, `try_consume_grace`, hydration | no more grace logins than granted |
| Bypass cache (`bypass_cache.rs`) | set of exempt roles | `lookup`, refresh | an exemption is not invented |
| Worker health (`worker_health.rs`) | running flag, durable-failure marker | mark, clear by compare-and-exchange | a failure is not erased by an older hydration |
| Hook (`lib.rs`, `shim/client_auth.c`) | none of its own | `client_auth_hook` | refuses what a sound policy refuses, and nobody while enforcement is paused |
| Password check and change (`lib.rs`, `blacklist.rs`) | history, expiry rows | `validate_password`, `record_password_change` | no recent password is set again; every change has a later generation |
| Role rename and removal (`lib.rs`) | the rows under a name | `rename_role_state`, `remove_role_state` | the state follows the role, and so do the caches |

Interaction: a backend's hook appends to the journal and offers the event to the
ring under one LWLock. The worker rotates the journal, reads it record by record,
and runs one transaction per event that inserts a receipt, changes the tables and
stages the cache change and the acknowledgement. The commit callback applies both.
After a batch the worker deletes the file, then the receipts. Hydration rebuilds the
caches from the tables under a SHARE lock. An administrator may reset a corrupt ring
once both files verify. The hook trusts the caches only while the worker runs, the
queue is not corrupt and no durable failure is marked; the worker clears the marker
after a hydration that no later failure has overtaken. The password hook validates
and records in the transaction of `ALTER ROLE`; renaming and dropping a role leave
the state under the old name until `rename_role_state` or `remove_role_state` is
called.

What is hard: interleavings of backends, worker and administrator; a crash between
any two of these steps; I/O that fails half way; time that passes between a decision
and its application; bounded rings, lists and caches at their limit. `PROJECT.json`
lists each hazard at its line, with the properties that cover it.

## Modules

| Module | Models | Notes |
|---|---|---|
| `AuthEventRing` | `impl AuthEventRing` | operators on a ring record; an event is its identifier |
| `EventFifo` | abstract specification | bounded queue, one consumer, one claim |
| `AuthEventQueue` | the ring with producers, worker, administrator, restarts | refines `EventFifo`; the journal is only an append's outcome |
| `AuthEventQueueProofs` | theorems about `AuthEventQueue` | |
| `AuthJournal` | record layout and files | byte k of a record is the pair (event, k), so torn and misaligned records are visible and nothing else is |
| `AuthPipeline` | hook to committed effect: ring, files, receipts, worker | composes `AuthEventRing` and `AuthJournal`; refines `AuthEventQueue` |
| `AuthPipelineProofs` | theorems about `AuthPipeline` | |
| `PendingCacheOps` | staging in one backend, savepoints, commit, prepare | tables and caches are functions from users to values |
| `PendingCacheOpsProofs` | theorems about `PendingCacheOps` | |
| `LoginLockout` | `login_attempts`, lock cache, hydration, degradation by retries | concurrent sessions with advisory and table locks, and a clock |
| `LoginLockoutProofs` | theorems about `LoginLockout` | |
| `GraceLogins` | expiry rows, expiry cache, grace logins, their replay | the journal and the ring are one durable queue, as `AuthPipeline` justifies |
| `GraceLoginsProofs` | theorems about `GraceLogins` | |
| `EnforcementState` | the shared memory that the worker writes and the hook reads | variables and constants of the next two |
| `WorkerHealth` | running flag, failure marker, states of the three caches, exemptions, the worker from start to end | a cache is its state; the rows are in `LoginLockout` and `GraceLogins` |
| `ClientAuthHook` | one login through `client_auth_hook` | every state it reads may change between two reads, so nothing rests on the other modules |
| `EnforcementProofs` | theorems about `WorkerHealth` and `ClientAuthHook` | what enforcement rests on and what it does |
| `PasswordChange` | validating and recording passwords of one role | concurrent transactions, several changes in one, rollback, the clock |
| `PasswordChangeProofs` | theorems about `PasswordChange` | |
| `RoleState` | create, rename, drop, move and remove state, password changes, the worker's events | composes what the other modules show about rows, caches and events; locks are taken one at a time |
| `RoleStateProofs` | theorems about `RoleState` | |
| `MC*` | instances for TLC | symmetry or values of constants |

Definitions whose name has an underscore suffix and a comment starting with
"Mutant" are plausible bugs. They are not part of the specifications; replacing the
definition they follow by them must make the named property fail.

Correspondence in brief:

* `AuthEventQueue`: `ring` is the struct in shared memory, `held` the worker's staged
  claim, `phase` its position in one iteration of `consume_events`. Each action is
  one LWLock section.
* `AuthPipeline`: `pc` names the steps of `consume_events`: health check, rotate,
  open, read, claim, transaction, acknowledgement, remove, cleanup. Each I/O step has
  a failing twin (`RotateFails`, `OpenFails`, `ReadFails`, `RemoveFails`) with every
  partial effect the code can leave. `applied`, `written`, `durable`, `drawn` are
  history. `ReadFails` models the BufReader: a refill can fail only when the record
  is not in the buffer, and what was in it is then consumed.
  `directory` is what the disk still has under a name whose change was not synced: a
  crash of the machine may bring it back, for the sets of changes in `Undone`.
* `PendingCacheOps`: `stack` and `views` are PostgreSQL's subtransactions and what
  each sees of the tables; `entries` and `ack` are the static `PENDING`. `kinds` and
  `mixed` are history: the kinds of operation that the transaction has run for a user,
  and the users for whom a committed transaction ran several.
* `LoginLockout`: a session's transaction goes from begun (which fixes `now()`) to
  the advisory lock, to the changed row and staged decision, to the visible commit,
  to the callback, after which locks are released. This order is PostgreSQL's
  `CommitTransaction`, on which the extension depends. `Mark`/`MarkFailed` and
  `Restore`/`RestoreReady` are the two lock sections of `DegradedByRetry`, between which
  any callback may run; `overwritten` is history: the second hid what one recorded.
* `GraceLogins`: `Lookup` and `TryConsumeGrace` are the two lock sections of one login;
  `AppendFails` is the second when the record is written and its fsync fails, so that it
  is replayed although the login was not counted. `consumed` and `kept` are history: the
  logins that were counted and the records of others, by password. A password change goes through the same four stages as a
  transaction of `LoginLockout`; `PersistGrace` is the event transaction with its
  stale, current and contradicted cases.
* `WorkerHealth`: `wpc` follows `auth_event_consumer_main` and `consume_events`;
  `BackendReadsClock` and `BackendAppendFails` are the two halves of a failing append,
  before and after the wait for the queue's lock; `FinishHydration` is the
  compare-and-exchange; `MarkStopped` and `StopCache` are the guarded end of the
  worker, `WorkerDies` the unguarded one. `fresh` and `clean` are history.
  What a hydration found is forgotten when it ends (`Forget`), as its locals are.
* `ClientAuthHook`: `login.pc` names the reads in the order of the code; `steady` is
  the set of conditions that have held in every state since the login began, so that a
  property speaks of what a login may count on and not of what changed under it.
  `locked` is an entry of the lock cache, not a row: the hook has no database.
* `PasswordChange`: `Validate`, `Lock` and `Record` are the statement; `rows`, `expiry`
  and `changes` of a transaction are what it has written and not committed. A change
  knows the history row that stands for it: its own or, when the password was the latest
  one already, the row from before. PostgreSQL's
  refusal of a concurrently updated `pg_authid` row is `version`.
* `RoleState`: `todo` is the list of locks a transaction has still to take, in the order
  of the code; its reads and writes under them are one step at the commit. `own` is
  what each role's state would be if it were kept by role and not by name;
  `overtaken` collects the roles for which an observation below applies.

## Runs

| Run | Result | Shows |
|---|---|---|
| `AuthEventQueue` | passes | the ring's invariants, no ABA, refinement of the FIFO |
| `AuthPipeline` | passes | at most once, in journal order, with receipts; RAM copies only pending events; no early deletion; the ring is used as in `AuthEventQueue` (`QueueSpec`); also when a crash of the machine undoes a rename or a removal |
| `AuthPipelineLive` | passes | durable events are kept and applied, and overflow heals, unless the worker is stopped, the queue is corrupt or a failed read has put the reader out of step |
| `AuthPipelineTornAppend` | violated | a fragment swallows a later acknowledged record |
| `PendingCacheOps` | passes | caches match tables through any savepoints, for users whose transactions do not mix kinds of operation |
| `LoginLockout` | passes | a Ready cache covers every active lockout, also when it overflows and through retries, until a retry overwrites a concurrent Overflow; the threshold locks; the cache is rebuilt, or is full |
| `GraceLogins` | passes | each grace login and each record kept by a failed append is counted once, against its password; the queue drains unless such a record took the last grace login first |
| `GraceLoginsOverlap` | violated | hydration restores a count whose decrements are queued |
| `WorkerHealth` | passes | enforcement is never announced by a cache older than the last failure; it resumes when failures stop; exemptions reach the logins |
| `ClientAuthHook` | passes | sound enforcement is firm; a pause or an exemption refuses nobody; one event per login |
| `PasswordChange` | passes | no password is set again while its history row is among the newest, by count and by days; generations grow |
| `RoleState` | passes | the state and the caches follow the role; calls in order do not deadlock each other; events drain |

Each violated run states what a comment or description in the repository says; the
findings in `PROJECT.json` quote it.

Some constants state an assumption under which a property holds rather than a size.
`Overlap` (`GraceLogins`), `ManualAlone` (`PasswordChange`), and `FragmentLengths`,
`BufferSize` and `Undone` (`AuthPipeline`) are of this sort. What happens without the
assumption is a violated run or one of the observations below; changing the one line of
the cfg reproduces it.

Where the code has a flaw that these do not exclude, the run has it too, and the property
names exactly what it costs. Each of these exceptions was checked to be needed: without
it TLC refutes the property, at the bounds of the run unless others are named.

* `Consuming` (`EventuallyApplied`, `OverflowHeals`): a reader that is out of step. (For
  the second it takes a third event, with `MaxFaults = 0`.)
* `overwritten` (`ReadyCoversLockouts`): a state that `DegradedByRetry` overwrote.
* `Overflow` with more locked accounts than slots (`CacheComesBack`).
* `kept` (`RowCountsPersisted`, `ReadyMatchesRows`, `QueueDrains`): records of logins that
  were not counted.
* `mixed` (`CachesMatchTables`) and `Single` (`EveryLevelResolves`): users for whom one
  transaction ran operations of several kinds.
* The stamps of the history rows, where one would have the order of the changes
  (`RecentNotReused`, `ReusePeriodKept`).

### Bounds

* `AuthEventQueue`: 3 slots (2 usable), so head and tail wrap several times; counters
  up to 8, so sequence numbers run out, and do so while the worker holds a claim on
  the very slot that a reset ring starts with again (the ABA case); 4 identifiers,
  more than fit in ring and claim.
* `AuthPipeline`: 1 usable slot, so overflow is common; counters up to 3, so the ring
  becomes corrupt; records of 2 bytes, with fragments of 0, 1 and 2 bytes (2: all
  bytes written and the fsync failed); a buffer of 4 bytes, so
  that no record straddles it (the proof below has the other buffers);
  3 events; 2 faults: crashes, crashes of the machine that undo a rename or a removal,
  and returns to hydration. The live run has 2 events and 3 faults, no torn record, a
  buffer of 3 bytes, which records straddle as they do in the build (8192 and 112), and
  crashes that undo both changes of the directory at once; the violated run allows a
  fragment of 1 byte.
* `PendingCacheOps`: 2 users, one with lockouts and password changes, in one transaction
  or in several, the other with renames and drops, 2 entries and 3 subtransactions, so
  the list overflows with nested savepoints. `Kinds` only bounds who does what; the
  proofs have every user do everything. 5 million states.
* `LoginLockout`: 2 users, a backend and the worker, threshold 2, a clock up to 2 with
  lockouts that expire, a capacity of 1, so that the second lockout overflows, one
  fault. 987,000 states.
* `GraceLogins`: 2 users, 2 connections, a grant of 2, 2 password changes, 2 faults.
  `Overlap = FALSE` states the assumption under which the code's accounting is right:
  no hydration starts with a grace event queued, and none is taken during one. The
  other run drops it. The cache has room for both users, since with less the race of
  `DegradedByRetry` below, which this cache shares, exists here too. 124,000 states.
* `WorkerHealth`: a quiet period of 1 and a clock up to 5, 2 recorded failures, so that
  the second can fall in any phase of the recovery from the first, and one other
  fault; both switches off, lockouts alone, and both on, with reloads between them
  (expiry alone differs only in which of the two caches of rows is needed). 764,000 states.
* `ClientAuthHook`: one login; its only bound is the finite set of answers each read
  can give. Every change of the environment is allowed before every step, and the
  switches have all four settings.
* `PasswordChange`: 2 sessions, 2 passwords, the last one not reusable and none for 2
  ticks of a clock up to 3, 4 changes, so that a transaction changes the password several
  times, its rows tie, transactions commit in either order of their starts, and rows leave
  the window by count and by age. 1.6 million states.
* `RoleState`: 2 names, 2 administrators besides the worker, a threshold of 2, an
  allowance of 1, 2 roles over time (a name is reused), 2 administrative transactions
  and 2 logins. 152,000 states; the invariants were also checked with 3 transactions
  (1.7 million states).

`CHECK_DEADLOCK` is off only for `AuthPipeline`, whose worker may stop for good, and
`RoleState`, which ends when its bounded operations are done.

### Fairness

* `AuthPipeline`: the worker is a scheduled process (weak fairness of its steps), and
  an operation it retries with backoff succeeds if tried infinitely often (strong
  fairness of rotation, opening, reading, removal, commit). Nothing is assumed of
  producers, crashes, signals or the administrator: the liveness properties allow a
  stopped worker.
* `LoginLockout`, `GraceLogins`: sessions end their transactions, the worker continues, and it is
  not passed over for ever by other sessions when it waits for the table or an
  advisory lock (PostgreSQL's lock queues are first come, first served). Faults are
  bounded by a counter, i.e. they stop at some point. A client that stays idle in a
  transaction for ever breaks the assumption; the worker then times out and retries.
* `WorkerHealth`: the clock advances, a running worker takes its steps, and a loop that
  comes round for ever refreshes the exemptions, because its interval passes. Nothing
  is assumed of backends, the administrator, reloads or an ending worker. Faults are
  bounded.
* `RoleState`: the worker begins and ends its transactions, PostgreSQL grants a lock to
  those who wait in turn and breaks deadlocks, and administrators end their
  transactions.
* `ClientAuthHook`, `PasswordChange`, `AuthEventQueue`, `PendingCacheOps` need none.

### Observations

What the models show beyond the findings, and what was met while writing them. Those
that name a constant can be reproduced with it.

Journal and queue

* A read error inside a record makes the `BufReader` (`auth_journal.rs:230`) lose what it
  had buffered of that record, when the buffer is not a multiple of the record, as the
  build's 8192 bytes are not of its 112. The worker keeps the reader and goes on
  (`worker.rs:1039-1044`) from the middle of the record: what it reads next does not decode,
  and the queue is corrupt, or the file ends too soon at every retry. The live run has this, as
  the exception `OutOfStep` of its two liveness properties; without it a trace of some 15
  states refutes `EventuallyApplied`.
* With torn appends as well, such a retry can get back into step and skip an event:
  `BufferSize = 3` and five events in the first run refute `AppliedInJournalOrder`, which
  took a scripted order of steps to show. A fragment precedes the second record; a rotation whose
  directory sync fails is followed by the truncation of the batch, which cuts a record; a crash of
  the machine undoes the rename and another record is appended. Two read errors then
  lose a byte each, of the fragment and of the cut record, and the events on either
  side of the cut one take effect without it. The attempt at a proof found this: without
  torn appends, or with a buffer that is a multiple of the record, it cannot happen.
* The directory is synced only by the append that created the file. A machine crash that
  undoes that creation (`{"create"}` in `Undone`) loses acknowledged events; one that
  undoes rename and removal together replays a batch whose receipts are gone
  (`ReplayHasReceipt` with that element added to the first run).
* `recover_corrupt_ring` starts sequence numbers at 1 again, where the comment on the
  token (`auth_event.rs:71-73`) speaks of numbers that are never reused; the proof below
  says why a stale claim cannot validate all the same.
* The receipt cleanup after a batch is the one transaction of the worker without an
  error boundary of its own: a PostgreSQL ERROR in it ends the worker for good
  (`CleanupRaises` in `AuthPipeline`).

Staging and caches

* `stage_entry` (`pending_cache_op.rs:199`) keeps one entry per user and level and
  overwrites the half that a different kind of operation staged: a transaction that changes
  a user's password and then clears the user's failures, at the same level, leaves the
  expiry cache behind. This is the exception `mixed` of `CachesMatchTables`, without which
  begin, lock, expiry, commit refute it.
* `DegradedByRetry` reads a cache's state in one lock section and writes it in another
  (`worker.rs:121-122` and `141-142`): WorkerFailed, and then Ready, may be written over an
  Overflow that a commit callback recorded in between, although the comment at
  `worker.rs:105-107` says that it "is never overwritten". The lockout that did not fit is
  then not enforced until the next hydration. This is the exception `overwritten` of
  `ReadyCoversLockouts`.
* When the fsync of a grace login's record fails, the login is admitted and, as the comment
  at `lib.rs:824-830` says, not counted; but the record is in the file
  (`auth_journal.rs:171-172`) and its replay takes one from the row. The cache then has more
  than the row, and when it has been used up the last event contradicts the row and blocks
  the queue (`kept` in `GraceLogins`).
* With `failed_login_max = 1`, the GUC's minimum, `ThresholdLocks` does not hold: the
  `INSERT` branch of `record_failed_login` stores no lockout, so the second failure
  locks. `LoginLockout` assumes nothing of `MaxFails`; its runs use 2.
* `lock_cache::set` skips an expiry that has passed by the time of the commit
  callback and leaves the user's slot alone. When two failures commit in the other
  order of their transactions' starts, the slot may hold a later expiry than the row.
* A lock cache that a commit callback overflowed stays `Overflow` until something else
  makes the worker hydrate: `consume_events` returns to hydration for `NotReady` and
  `WorkerFailed` only (`worker.rs:862-868`), although the comment above `lock_cache::set`
  (`lock_cache.rs:236-239`) says that Overflow "sends the worker back to hydration".
  `CacheComesBack` therefore ends in Ready, or in an Overflow of more locked accounts than
  slots, in which lockouts are not enforced.
* The surplus grace event of `GraceLoginsOverlap` is refused at every try, so
  `QueueDrains` fails there as well: no later event is processed until the user's
  password is changed.

Health and exemptions

* A backend stamps the marker with the time it read before it waited for the lock, so
  the marker may move backwards; what `HealthyIsEarned` needs is only that it changes.
  Two failures in the same microsecond are one value to the compare-and-exchange, and a
  clock set back lengthens the quiet period.
* A worker that ends by a FATAL does not run `mark_stopped` (`WorkerDies`): the running
  flag and the caches stay as they were until the postmaster has started another.
* The exemptions are not refreshed while the worker waits in a backoff of up to 30 s or
  is suspended, where the repository's `README.md:250` says about one second. A bypass
  cache that overflows has no exemptions for anybody.
* `record_failed_login` recognises an exemption by `=true` exactly, the query of the
  bypass cache by several spellings.

The hook

* The three reasons to pause are read one after the other; a login that sees each of
  them before it arises goes on. `EnforcementIsFirm` and `PauseNeverRefuses` therefore
  speak of what held during the whole login.
* `GraceOutcome::Unavailable` is documented as a login that "must be rejected"; the hook
  admits it, uncounted, as its own comment explains. Such a login records no success
  either, so the failed logins of the user stay.

Password history

* History rows carry `now()` (`lib.rs:1853`), the start of the transaction, and are read
  `ORDER BY changed_at DESC` without the id (`lib.rs:1384`). When a transaction that
  began earlier sets its password later, or one transaction sets several, the newest
  password need not be among the newest rows, and may be set again; the comment at
  `lib.rs:1877-1887` describes the same order for the expiry row, which has a stamp of its
  own. `RecentNotReused` says what the stamps guarantee; stated over the order of the
  changes TLC refutes it at the same bounds.
* A password that is set again while it is the latest in the history leaves no new row
  (`lib.rs:1834-1843`): its count and its period run from the row before. `ReusePeriodKept`
  is about the stamp of the row that stands for a password; over the time of its last
  change TLC refutes it at the same bounds.
* After `password_expiry_days = 0` has deleted the expiry row, the next generation is the
  clock alone (`GenerationGrows` leaves this out).
* Validation precedes the lock. `ALTER ROLE` is saved by PostgreSQL's own check of the
  `pg_authid` row; a call of `record_password_change()` beside one is not
  (`ManualAlone = FALSE`).

Role names

* `rename_role_state` and `remove_role_state` check the roles before they lock. A call
  outside the transaction of the renaming or the drop may move or delete the state of a
  role created in between.
* Events name a role by its name at the login. After a rename, a queued failure is
  counted under the old name and a queued grace login is not recorded; renaming there and
  back can leave an event that contradicts the row and is retried until the password
  changes. Failures counted under a free name are inherited by the role that takes it.
* A grace login's transaction takes the history lock before the login lock, renaming
  takes them in the other order. PostgreSQL's deadlock detector or `lock_timeout` ends
  one of the two, and the worker retries (`EventsDrain`).

## Proofs

`AuthEventQueueProofs` proves, for every number of slots `RingSlots >= 2`, every
`U64Max > RingSlots` and every set of identifiers:

* `SeqsConsecutiveThm`, `CountersAgreeThm`, `ClaimIsTailOrStaleThm`: the invariants of
  the run, and `TypeCorrect` and `OverflowedHasEntriesThm`, which it leaves to the proof;
* `AckRemovesClaimedEventThm` and `CorruptIsStickyThm`: action properties, the second
  again only proved;
* `ImplementsFifo`: every behaviour of the queue is one of `EventFifo`, under the
  mapping of `Contents(ring)` to the queue and `held.event_id` to the claim.

The inductive invariant (`IndInv`) is the conjunction of the type invariant, the
consecutive sequence numbers, the counters, the overflow condition, the claim
condition and the worker's phase. None is inductive alone. That an acknowledgement
moves the tail by one entry and keeps the others in order needs the arithmetic of
indices modulo `RingSlots`, which lemmas about `Depth`, `SlotOf` and `Advance`
provide. That a claim from before a reset cannot validate needs both the sequence
numbers (the oldest entry of a ring that was never acknowledged is number 1) and the
claim condition (the stale token's number is greater than 1): a token of number 1
is of the ring's first entry, and the ring is reset only when corrupt, which with a
claim outstanding happens only when sequence numbers ran out (the phase condition),
by when `RingSlots < U64Max` guarantees that entry was acknowledged.

The assumption is `RingAssumption`; the build has 1024 slots and 64-bit counters.

`EnforcementProofs` proves, of `WorkerHealth`, `TypeCorrect` and `HealthyIsEarnedThm` for every set of
settings, every quiet period and any number of faults. `IndInv` adds what the phases
of a hydration mean: while the marker is still what the hydration observed, what it
has installed is younger than the last failure (`HydrationIsFresh`); what is read
while no failure is marked is young when it is installed (`RefreshIsFresh`); and
while none is marked, every usable cache is young (`UsableIsFresh`). The last step of a
recovery, the exchange of the observed marker for `Healthy`, needs that two failures
never have one time stamp (`StampsDiffer`): otherwise the exchange could succeed over a
failure it did not observe.

The same module proves, of `ClientAuthHook`, `HookTypeCorrect`,
`EnforcementIsFirmThm`, `PauseNeverRefusesThm` and `OneEventPerLoginThm`. `HookInv` has one condition for each
fact that may hold all along a login (locked out, spent, a reason to pause, the
counted event): the program points such a login can still reach. Everything that the
login reads may change between two of its reads: the theorems are about `HookSpec`, whose
environment may change any of it at any moment, and assume nothing of `WorkerHealth`.

`PasswordChangeProofs` proves `TypeCorrect` and `GenerationGrowsThm` for all constants:
a transaction that has recorded a password holds the advisory lock and, unless it has
deleted the expiry row, a later generation than the committed one (`StagedIsLater`).
`RecentNotReusedThm` and `ReusePeriodKeptThm` have the one hypothesis `ManualAlone` (no
ALTER ROLE overlaps a call of `record_password_change()`); transactions begin, change the
password any number of times and commit in any order. `RulesInv` says that every history,
the committed one and that which an open transaction sees, has the row that stands for
each change of its sequence (`Match`), and that the sequence obeys both rules (`Rules`,
together `Valid`); and that what a statement has validated is still allowed by the
changes it is recorded after, unless PostgreSQL will refuse it (`ValidatedHolds`, `Doomed`).
That what the two queries accept is allowed, although the first may break ties in any way,
is a pigeonhole argument on the rows no older than the candidate's (`AcceptedIsAllowed`).

`LoginLockoutProofs` proves `TypeCorrect`; `ThresholdLocksThm` when `MaxFails >= 2` (with a
threshold of one, the INSERT of the first failure leaves the lockout NULL); and
`ReadyCoversLockoutsThm`, with commit callbacks between the two lock sections of
`DegradedByRetry::mark` and `::restore`, whose harm is the property's exception. `CacheInv` says, of a transaction from its read to its commit
callback, that it alone holds the user's lock (`OneHolder`), that its decision is the
lockout of the row it writes (`Decided`) and that the row stays as committed until the
callback (`RowCommitted`); of a hydration, that what it has read is still in the table
when it is applied (`ReadStands`); and that a cache which is trusted, or will be once the
callbacks under way are done, covers every lockout.

`GraceLoginsProofs` proves `TypeCorrect` and `RowCountsPersistedThm` for every number of
slots, whether or not a hydration overlaps grace logins that are not recorded yet. `RowInv` has one owner of each
generation (`OneOwner`) and no login under a generation before it is in the cache
(`FreshInv`), so that each consumed login, and each record kept by a failed append, is
counted against the row of its own password. `GrantRespectedThm` and `ReadyMatchesRowsThm` hold when `Roomy`: hydration does
not overlap such logins (that it may is a finding) and there is a slot for every user. `CacheInv` then follows the entry of a
user through the queue: what the cache has left is what the row will have left once the
queue is replayed, and at most the kept records more. Roominess cannot be dropped from `ReadyMatchesRows`: with one slot for two users
TLC shows the commit callback overflow between the two lock sections of a restore,
which then sets the cache ready without that user.

`RoleStateProofs` proves, for any number of names, roles, administrators and logins,
`TypeCorrect`, `RoleStateCallsInOrderThm`, `StateFollowsRoleThm`, `CachesMatchRowsThm` and
`RoleKeepsStateThm`. The first safety theorem is absence of deadlock among the calls that move or
remove state: in `LocksInv` the locks that a transaction holds precede those it still
has to take, in one order, and of finitely many transactions one holds the greatest
(`HasMaximal`, from the well-foundedness of the strict subset order). The others rest on
`StateInv`: a name's state belongs to the role of that name unless both roles were
overtaken (`FollowInv`); an event or a login under a name is one of that name's role
(`EventsInv`); a row, its lock entry and its expiry entry agree outside of a
transaction that holds the name's lock (`LockedMatch`, `GenMatch`, `GraceMatch`).

`AuthPipelineProofs` proves `AppliedInJournalOrderThm`, `ReplayHasReceiptThm` and
`RemovedWhenAppliedThm` for any number of events, slots, crashes and failing calls and
any size of the records, when a crash of the machine undoes at most one change of the
directory (`UndoesOne`) and either no append is torn or no record straddles the reader's
buffer (`InStep`); and `DurableIsKeptThm` when no append is torn (`NoTears`), for any buffer.
Each hypothesis is needed by one of these: the observations above and the violated run show what
happens without it, save that undoing both changes at once leaves `DurableIsKept` intact,
which the live run checks. The invariant `JournalInv` says
where every event is (`PlaceInv`): for some `p <= a`, the batch has the written events
`p + 1 .. a` and the active file the later ones, as far as each can be read; those up
to `Len(applied)` took effect, and those of them from `p + 1` on have their receipts; the reader is at the
next record (`ReaderInv`). Beside these files there may be a removed one
whose name is still on disk, all of it applied, whose receipts stay until the directory is synced
(`UnlinkedInv`). Two facts about bytes carry the proof: identifiers are drawn once, so
a fragment together with the bytes behind it never decodes (`BytesInv`); and without tears
every record begins at a multiple of the record size, so a reader that lost a part of one
decodes nothing (`BatchInv`).

`RamCopiesPendingThm` has the same two hypotheses. `RamInv` adds to the property that a
transaction on the event at the ring's tail holds the tail's token, and that the copy of
an event that took effect is there only while that token is still to be acknowledged.
A new copy goes behind the others because its event is the last written; the copy
of the pending event is the tail's, because all events before it took effect.

`ImplementsQueue` proves that the pipeline implements `AuthEventQueue` for every value
of the constants, torn appends and undone changes included. The worker's claim is its
token with the event at its reader's position, its phase follows from `pc`. `PositionInv`
says where the worker has a batch, an event and a token, `ReadInv` that the pending event
is the last record read, and `QueueInv` is the queue's own inductive invariant under the
mapping, with the identifiers in the ring among those drawn. What is proved of the queue,
and through it of the FIFO, so holds of the whole pipeline.

`PendingCacheOpsProofs` proves, for any users, decisions, depth of savepoints and length
of the list, `TypeCorrect`, `CachesMatchTablesThm` and `EveryLevelResolvesThm`, without
further hypotheses: a transaction may run any operations, and the properties leave out the
users for whom one ran several kinds, where the entry that `stage_entry` replaces had
decided about the other cache. The commit callback is a fold over the list; `ApplyAllIs` proves its closed
form, that the latest entry of a user decides, by the well-foundedness of the strict subset
order on the indices rather than by induction on the fold. `RetainedIs` says the same of
the lists that compaction and rollback leave. The invariant then needs no fold: subids
grow with the nesting (`StackInv`); a user has at most one entry at each open level, the
deeper one later (`LevelsInv`), which makes the order of the list and that of the levels
the same; entries have the shape of a kind that was run for their user (`ShapesInv`); and
each level that is not in an error state sees what its surviving entries make of the
caches, for the users with one kind (`ViewsInv`).

Each invariant was model-checked before it was proved. The assumptions are those named
in the modules, which TLC evaluates in every run, and the hypotheses above.

Model-checked only:

* `DurableIsKept` when a crash undoes a rename and a removal together.
* What rests on fairness, since TLAPS handles neither liveness nor `ENABLED`:
  `EventuallyApplied`, `OverflowHeals`, `CacheComesBack`, `QueueDrains`,
  `EnforcementResumes`, `ExemptionConverges` and `EventsDrain`.
* The findings.

## Not modelled

* Commits lost with `synchronous_commit = off`: the worker's transactions are assumed
  durable when they have committed.
* Standbys, where the hook does nothing, and the lockout lookup's fallback to the
  database, which finds no database connection in the hook.
* The rules on a single password (length, classes, user name, blacklist, a custom
  check): one candidate is refused or not, which `PasswordChange` has as a choice. The
  word list's maintenance, hashing and the comparison of hashes are data.
* Log lines and their rate limits, statistics functions, SQL argument helpers, build
  and packaging: output, with no state the properties are about.

## State of the project

The system's stateful parts are modelled. All nine specifications have proofs, and every
invariant and action property that a passing run checks is stated by a theorem, as are
both refinements (`EventFifo` by the queue, the queue by the pipeline).
