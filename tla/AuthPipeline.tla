---------------------------- MODULE AuthPipeline ----------------------------
(***************************************************************************)
(* From an authentication event to its effect in the database: producers   *)
(* append to the journal and offer the event to the RAM ring, the worker   *)
(* replays the journal in transactions with receipts and acknowledges the  *)
(* RAM copy from the commit callback (consume_events in src/worker.rs).    *)
(*                                                                         *)
(* Any step of the worker may interleave with producers and with the       *)
(* administrator's recovery; the server may crash between any two steps    *)
(* and in the middle of an append.  A crash of the machine may also undo   *)
(* what was done in the directory since it was last synced.                *)
(*                                                                         *)
(* Abstractions: the effect of an event on login_attempts and              *)
(* password_expiry is its entry in `applied`; the reasons to return to     *)
(* hydration (cache states, the quiet period of the durable marker, the    *)
(* bypass refresh) are a choice the worker may make at the top of its      *)
(* loop; commits are synchronous, and bytes written to a file stay.        *)
(***************************************************************************)
EXTENDS AuthJournal, SequencesExt

CONSTANTS FragmentLengths, \* bytes a failed or interrupted append may leave
          BufferSize,      \* capacity of the reader's BufReader
          Undone,          \* the sets of directory changes ("create", "rename",
                           \* "remove") that a crash of the machine may undo
          MaxFaults        \* bound on crashes and returns to hydration

ASSUME FaultAssumption ==
    /\ FragmentLengths \subseteq 0 .. RecordSize
    /\ BufferSize \in Nat /\ BufferSize >= RecordSize
    /\ Undone \subseteq SUBSET {"create", "rename", "remove"} /\ MaxFaults \in Nat

VARIABLES
    ring,         \* the AuthEventRing
    active,       \* password_profile_auth_events.active
    processing,   \* password_profile_auth_events.processing
    directory,    \* which file each of the two names has in the directory on disk
    receipts,     \* password_profile.auth_event_receipts
    applied,      \* the events whose effect is committed, in commit order
    pc,           \* where the worker is
    batch,        \* its JournalReader
    pending,      \* pending_event
    token,        \* the ClaimToken of the event transaction, or NoToken
    written,      \* history: the events whose whole record was written
    durable,      \* history: the events reported durable to their producer
    drawn,        \* history: the identifiers drawn so far
    faults        \* crashes and returns to hydration so far

journal == <<active, processing, directory>>
database == <<receipts, applied>>
worker == <<pc, batch, pending, token>>
history == <<written, durable, drawn>>
vars == <<ring, journal, database, worker, history, faults>>

NoToken == [slot |-> 0, seq |-> 0]
NoBatch == [open |-> FALSE, offset |-> 0, read |-> 0, complete |-> 0]

\* An entry of the directory on disk: a file that has one of the two names now,
\* one that was removed since, or none.
DirectoryLink == [now : {"active", "processing", "none"}, removed : File]
Link(name) == [now |-> name, removed |-> NoFile]

PC == {"hydrate", "check", "rotate", "open", "read", "remove", "cleanup",
       "claim", "txn", "ack", "suspended", "stopped"}

TypeOK ==
    /\ ring \in Ring
    /\ active \in File /\ processing \in File
    /\ directory \in [{"active", "processing"} -> DirectoryLink]
    /\ receipts \subseteq EventId
    /\ applied \in Seq(EventId) /\ written \in Seq(EventId)
    /\ pc \in PC
    /\ batch \in [open : BOOLEAN, offset : Nat, read : Nat, complete : Nat]
    /\ pending \in EventId \cup {NoEvent}
    /\ token \in ClaimToken
    /\ durable \subseteq drawn /\ drawn \subseteq EventId
    /\ faults \in 0 .. MaxFaults

Init ==
    /\ ring = NewRing
    /\ active = NoFile /\ processing = NoFile 
    /\ directory = [name \in {"active", "processing"} |-> Link("none")]
    /\ receipts = {} /\ applied = <<>>
    /\ pc = "hydrate" /\ batch = NoBatch /\ pending = NoEvent /\ token = NoToken
    /\ written = <<>> /\ durable = {} /\ drawn = {}
    /\ faults = 0

----------------------------------------------------------------------------
(* The directory: creating, renaming and removing a file change it; fsync on *)
(* it makes the changes durable.                                             *)

SyncDirectory ==
    directory' = [active |-> Link(IF active'.exists THEN "active" ELSE "none"),
                  processing |-> Link(IF processing'.exists THEN "processing" ELSE "none")]

\* The file that had the name `old` has changed its entry.
Becomes(old, link) ==
    [name \in DOMAIN directory |-> IF directory[name].now = old THEN link ELSE directory[name]]

\* The file the directory on disk has under a name.
OnDisk(name) ==
    CASE directory[name].now = "active" -> active
      [] directory[name].now = "processing" -> processing
      [] OTHER -> directory[name].removed

\* What was done since the last sync.
UnsyncedChanges ==
    LET named == {directory["active"].now, directory["processing"].now}
        wasActive == directory["active"]
    IN  {change \in {"create", "rename", "remove"} :
            \/ change = "create" /\ active.exists /\ "active" \notin named
            \/ change = "create" /\ processing.exists /\ "processing" \notin named
            \/ change = "rename" /\ (wasActive.now = "processing" \/ wasActive.removed.exists)
            \/ change = "remove" /\ \E name \in DOMAIN directory : directory[name].removed.exists}

----------------------------------------------------------------------------
(* Producers: enqueue_encoded_silent, under AUTH_EVENT_LWLOCK. *)

\* The first `n` bytes of the record of `id` reach the active file.
AppendBytes(id, n) ==
    /\ active' = Appended(active, id, n)
    /\ written' = IF n = RecordSize THEN written \o <<id>> ELSE written
    /\ drawn' = drawn \cup {id}

\* The append succeeds; the event is durable whatever the ring does with it.
Enqueue ==
    \E id \in EventId \ drawn :
        LET step == EnqueueEncoded(ring, id, TRUE)
        IN  /\ AppendBytes(id, RecordSize) /\ UNCHANGED processing
            /\ IF active.exists THEN UNCHANGED directory ELSE SyncDirectory
            /\ ring' = step.ring
            /\ durable' = IF IsDurable(step.outcome) THEN durable \cup {id}
                          ELSE durable
            /\ UNCHANGED <<database, worker, faults>>

\* The file is not opened, or write_all or an fsync fails; the event is reported
\* Unavailable.
EnqueueFails ==
    \E id \in EventId \ drawn :
        /\ \/ \E n \in FragmentLengths : AppendBytes(id, n)
           \/ drawn' = drawn \cup {id} /\ UNCHANGED <<active, written>>
        /\ ring' = EnqueueEncoded(ring, id, FALSE).ring
        /\ UNCHANGED <<processing, directory, database, worker, durable, faults>>

----------------------------------------------------------------------------
(* The worker: hydration and the top of the consume_events loop. *)

\* Leaving consume_events drops its local batch and pending event.
LeaveLoop(to) == pc' = to /\ batch' = NoBatch /\ pending' = NoEvent

HydrateCaches ==
    /\ pc = "hydrate"
    /\ pc' = "check"
    /\ UNCHANGED <<ring, journal, database, batch, pending, token, history, faults>>

CheckHealth ==
    /\ pc = "check"
    /\ IF ring.state = "Corrupt"
       THEN LeaveLoop("suspended")
       ELSE /\ pc' = CASE ~batch.open -> "rotate"
                       [] batch.open /\ pending = NoEvent -> "read"
                       [] OTHER -> "claim"
            /\ UNCHANGED <<batch, pending>>
    /\ UNCHANGED <<ring, journal, database, token, history, faults>>

\* NeedsRehydration.
Rehydrate ==
    /\ pc = "check" /\ ring.state # "Corrupt"
    /\ faults < MaxFaults /\ faults' = faults + 1
    /\ LeaveLoop("hydrate")
    /\ UNCHANGED <<ring, journal, database, token, history>>

\* suspend_on_unhealthy_queue returns once the queue has been recovered.
Resume ==
    /\ pc = "suspended" /\ ring.state # "Corrupt"
    /\ pc' = "hydrate"
    /\ UNCHANGED <<ring, journal, database, batch, pending, token, history, faults>>

\* SIGTERM, seen where the worker looks for it; it does not come back.
Shutdown ==
    /\ pc \in {"hydrate", "check", "suspended"}
    /\ LeaveLoop("stopped")
    /\ UNCHANGED <<ring, journal, database, token, history, faults>>

----------------------------------------------------------------------------
(* The worker: one batch.  Any journal step may fail with an I/O error, which *)
(* handle_journal_io_failure answers with a backoff and another try.          *)

\* Mutant: rotation replaces a batch that is still being processed.
CanRename_Overwrites == active.bytes # <<>>

\* rotate() renames a non-empty active file when no batch is left to process.
CanRename == ~processing.exists /\ active.bytes # <<>>

Rename == active' = NoFile /\ processing' = active

\* Mutant: a batch left by an earlier pass is not taken up again.
RotateJournal_OnlyNew ==
    /\ pc = "rotate"
    /\ IF CanRename THEN Rename /\ SyncDirectory ELSE UNCHANGED journal
    /\ pc' = IF CanRename THEN "open" ELSE "check"
    /\ UNCHANGED <<ring, database, batch, pending, token, history, faults>>

RotateJournal ==
    /\ pc = "rotate"
    /\ IF CanRename THEN Rename /\ SyncDirectory ELSE UNCHANGED journal
    /\ pc' = IF processing'.exists THEN "open" ELSE "check"
    /\ UNCHANGED <<ring, database, batch, pending, token, history, faults>>

\* The rename failed, or it happened and the directory fsync failed.
RotateFails ==
    /\ pc = "rotate"
    /\ \/ UNCHANGED journal
       \/ /\ CanRename /\ Rename
          /\ directory' = Becomes("active", Link("processing"))
    /\ pc' = "check"
    /\ UNCHANGED <<ring, database, batch, pending, token, history, faults>>

OpenBatch ==
    /\ pc = "open"
    /\ processing' = Truncated(processing)
    /\ batch' = [open |-> TRUE, offset |-> 0, read |-> 0,
                 complete |-> CompleteRecords(processing)]
    /\ pc' = "read"
    /\ UNCHANGED <<ring, active, directory, database, pending, token, history, faults>>

\* Opening failed, or the truncation's fsync did.
OpenFails ==
    /\ pc = "open"
    /\ processing' \in {processing, Truncated(processing)}
    /\ pc' = "check"
    /\ UNCHANGED <<ring, active, directory, database, batch, pending, token, history, faults>>

\* next_event with a record left: it decodes, or the queue is corrupt.
NextEvent ==
    /\ pc = "read"
    /\ batch.read < batch.complete
    /\ HasBlock(processing, batch.offset)
    /\ LET block == Block(processing, batch.offset)
       IN  IF Decodes(block)
           THEN /\ pending' = EventOf(block)
                /\ batch' = [batch EXCEPT !.offset = @ + RecordSize, !.read = @ + 1]
                /\ pc' = "claim"
                /\ UNCHANGED ring
           ELSE /\ ring' = DegradeTo(ring, "Corrupt")
                /\ LeaveLoop("suspended")
    /\ UNCHANGED <<journal, database, token, history, faults>>

\* Bytes of the file's current buffer that a reader at `offset` has not used.
Buffered(offset) == (BufferSize - (offset % BufferSize)) % BufferSize

\* read_exact fails, which it can only when it must refill the buffer: what
\* was left in the buffer has been consumed by then.  A reader left with fewer
\* bytes than a record consumes them and fails for want of more.
ReadFails ==
    /\ pc = "read"
    /\ batch.read < batch.complete
    /\ IF HasBlock(processing, batch.offset)
       THEN /\ Buffered(batch.offset) < RecordSize
            /\ batch' = [batch EXCEPT !.offset = @ + Buffered(@)]
       ELSE batch' = [batch EXCEPT !.offset = Len(processing.bytes)]
    /\ pc' = "check"
    /\ UNCHANGED <<ring, journal, database, pending, token, history, faults>>

\* Mutant: the receipts are cleaned before the file is removed.
EndOfBatch_CleansFirst ==
    /\ pc = "read"
    /\ batch.read = batch.complete
    /\ batch' = NoBatch
    /\ receipts' = {}
    /\ pc' = "remove"
    /\ UNCHANGED <<ring, journal, applied, pending, token, history, faults>>

EndOfBatch ==
    /\ pc = "read"
    /\ batch.read = batch.complete
    /\ batch' = NoBatch
    /\ pc' = "remove"
    /\ UNCHANGED <<ring, journal, database, pending, token, history, faults>>

RemoveProcessing ==
    /\ pc = "remove"
    /\ processing' = NoFile /\ UNCHANGED active /\ SyncDirectory
    /\ pc' = "cleanup"
    /\ UNCHANGED <<ring, database, batch, pending, token, history, faults>>

\* The unlink failed, or it happened and the directory fsync failed; either
\* way the receipts stay.
RemoveFails ==
    /\ pc = "remove"
    /\ \/ UNCHANGED journal
       \/ /\ processing' = NoFile /\ UNCHANGED active
          /\ directory' = Becomes("processing", [now |-> "none", removed |-> processing])
    /\ pc' = "check"
    /\ UNCHANGED <<ring, database, batch, pending, token, history, faults>>

\* DELETE FROM auth_event_receipts.  An SPI failure code is only reported; a
\* PostgreSQL ERROR has no handler below the worker's outermost guard.
CleanReceipts ==
    /\ pc = "cleanup"
    /\ receipts' \in {receipts, {}}
    /\ pc' = "check"
    /\ UNCHANGED <<ring, journal, applied, batch, pending, token, history, faults>>

CleanupRaises ==
    /\ pc = "cleanup"
    /\ LeaveLoop("stopped")
    /\ UNCHANGED <<ring, journal, database, token, history, faults>>

----------------------------------------------------------------------------
(* The worker: one event. *)

MatchingClaim ==
    /\ pc = "claim"
    /\ token' = IF CanClaim(ring, pending) THEN TailToken(ring) ELSE NoToken
    /\ ring' = Claimed(ring)
    /\ pc' = "txn"
    /\ UNCHANGED <<journal, database, batch, pending, history, faults>>

\* Mutants: the receipt is not looked at; the acknowledgement is not staged.
CommitEvent_IgnoresReceipt ==
    /\ pc = "txn"
    /\ receipts' = receipts \cup {pending}
    /\ applied' = applied \o <<pending>>
    /\ pending' = NoEvent
    /\ pc' = IF token = NoToken THEN "check" ELSE "ack"
    /\ UNCHANGED <<ring, journal, batch, token, history, faults>>
CommitEvent_NoAck ==
    /\ pc = "txn"
    /\ receipts' = receipts \cup {pending}
    /\ applied' = IF pending \in receipts THEN applied ELSE applied \o <<pending>>
    /\ pending' = NoEvent /\ token' = NoToken
    /\ pc' = "check"
    /\ UNCHANGED <<ring, journal, batch, history, faults>>

\* run_event_transaction commits: the receipt and the event's effect together,
\* or neither when the receipt was there already.
CommitEvent ==
    /\ pc = "txn"
    /\ receipts' = receipts \cup {pending}
    /\ applied' = IF pending \in receipts THEN applied ELSE applied \o <<pending>>
    /\ pending' = NoEvent
    /\ pc' = IF token = NoToken THEN "check" ELSE "ack"
    /\ UNCHANGED <<ring, journal, batch, token, history, faults>>

\* Mutant: a failed event is given up.
AbortEvent_DropsEvent ==
    /\ pc = "txn"
    /\ token' = NoToken /\ pending' = NoEvent
    /\ pc' = "check"
    /\ UNCHANGED <<ring, journal, database, batch, history, faults>>

\* It rolls back: the same event is tried again.
AbortEvent ==
    /\ pc = "txn"
    /\ token' = NoToken
    /\ pc' = "check"
    /\ UNCHANGED <<ring, journal, database, batch, pending, history, faults>>

\* The commit callback, after the commit is visible to others.
AckCallback ==
    /\ pc = "ack"
    /\ ring' = AckClaim(ring, token)
    /\ token' = NoToken
    /\ pc' = "check"
    /\ UNCHANGED <<journal, database, batch, pending, history, faults>>

----------------------------------------------------------------------------
(* The administrator and the server. *)

\* Mutant: the ring is reset whatever its state.
RecoverQueue_AnyState ==
    /\ processing' = Truncated(processing)
    /\ active' = IF Verifies(processing) THEN Truncated(active) ELSE active
    /\ ring' = IF Verifies(processing) /\ Verifies(active) THEN NewRing ELSE ring
    /\ UNCHANGED <<directory, database, worker, history, faults>>

\* recover_corrupt_ring: verify_pending opens, and so truncates, the files in
\* turn and stops at the first that does not verify; only then the ring is
\* reset.
RecoverQueue ==
    /\ ring.state = "Corrupt"
    /\ processing' = Truncated(processing)
    /\ active' = IF Verifies(processing) THEN Truncated(active) ELSE active
    /\ ring' = IF Verifies(processing) /\ Verifies(active) THEN NewRing ELSE ring
    /\ UNCHANGED <<directory, database, worker, history, faults>>

\* The same, with an I/O error while one of the files is opened, truncated or read.
RecoverFails ==
    /\ ring.state = "Corrupt"
    /\ \/ processing' \in {processing, Truncated(processing)} /\ UNCHANGED active
       \/ /\ Verifies(processing)
          /\ processing' = Truncated(processing) /\ active' = Truncated(active)
    /\ UNCHANGED <<ring, directory, database, worker, history, faults>>

\* A crash or restart of the server, possibly in the middle of an append, or of
\* the machine, which then has the directory that is on disk.
Crash ==
    /\ faults < MaxFaults /\ faults' = faults + 1
    /\ ring' = NewRing
    /\ LeaveLoop("hydrate") /\ token' = NoToken
    /\ \/ UNCHANGED <<journal, written, drawn>>
       \/ /\ \E id \in EventId \ drawn, n \in FragmentLengths : AppendBytes(id, n)
          /\ UNCHANGED <<processing, directory>>
       \/ /\ UnsyncedChanges \in Undone
          /\ active' = OnDisk("active") /\ processing' = OnDisk("processing")
          /\ SyncDirectory /\ UNCHANGED <<written, drawn>>
    /\ UNCHANGED <<database, durable>>

Producer == Enqueue \/ EnqueueFails

\* What the worker does until a transaction, a reload or a signal intervenes.
WorkerStep ==
    \/ HydrateCaches \/ CheckHealth \/ Resume
    \/ RotateJournal \/ RotateFails \/ OpenBatch \/ OpenFails
    \/ NextEvent \/ ReadFails \/ EndOfBatch
    \/ RemoveProcessing \/ RemoveFails \/ CleanReceipts
    \/ MatchingClaim \/ CommitEvent \/ AbortEvent \/ AckCallback

Next == \/ Producer \/ WorkerStep
        \/ Rehydrate \/ Shutdown \/ CleanupRaises
        \/ RecoverQueue \/ RecoverFails \/ Crash

Spec == Init /\ [][Next]_vars

\* The worker is a process the server schedules; what it retries after a
\* backoff succeeds if it is tried often enough.  Producers, faults, SIGTERM
\* and the administrator owe nothing.
Fairness ==
    /\ WF_vars(WorkerStep)
    /\ SF_vars(RotateJournal) /\ SF_vars(OpenBatch) /\ SF_vars(NextEvent)
    /\ SF_vars(RemoveProcessing) /\ SF_vars(CommitEvent)

FairSpec == Spec /\ Fairness

----------------------------------------------------------------------------
(* Properties. *)

\* Events take effect in the order in which their records were written, each
\* once: through retries, replays of a batch, crashes between commit and
\* acknowledgement, and recovery (src/auth_journal.rs:3-7).
AppliedInJournalOrder == IsPrefix(applied, written)

\* An event that took effect and can still be read again has its receipt.
\* Otherwise a replay would count a failed login twice.
ReplayHasReceipt ==
    (ReadableEvents(processing) \cup ReadableEvents(active)) \cap ToSet(applied)
        \subseteq receipts

\* An event reported durable took effect or is in a journal file from which
\* the worker can read it (src/auth_event.rs:21-25).
DurableIsKept ==
    durable \subseteq ToSet(applied) \cup ReadableEvents(processing)
                                     \cup ReadableEvents(active)

\* Every RAM copy belongs to an event that is still to be processed, in
\* journal order, save the one between its commit and its acknowledgement.
\* A RAM copy of a processed event would stay at the tail and block the ring.
RamCopiesPending ==
    /\ \A i \in 1 .. Depth(ring) :
          /\ Contents(ring)[i] \in ToSet(written)
          /\ Contents(ring)[i] \in ToSet(applied) => i = 1 /\ pc = "ack"
    /\ \A i, j \in 1 .. Depth(ring), k, l \in DOMAIN written :
          i < j /\ written[k] = Contents(ring)[i] /\ written[l] = Contents(ring)[j]
             => k < l

\* The batch goes only when each of its records took effect, or back to the
\* active file it came from when a crash undoes the rotation.
RemovedWhenApplied ==
    [][processing.exists /\ ~processing'.exists =>
          \/ ReadableEvents(processing) \subseteq ToSet(applied)
          \/ active' = processing]_vars

\* The pipeline uses the ring as the queue of AuthEventQueue does: the worker's
\* claim is its token with the event it read last, and its phase follows from
\* where it is.
HeldClaim ==
    [token |-> token,
     event_id |-> IF token = NoToken THEN NoEvent
                  ELSE EventOf(Block(processing, batch.offset - RecordSize))]
WorkerPhase ==
    IF token # NoToken THEN "claimed"
    ELSE IF pc \in {"rotate", "open", "read", "remove", "cleanup", "claim"}
         THEN "reading" ELSE "check"
Queue == INSTANCE AuthEventQueue WITH held <- HeldClaim, phase <- WorkerPhase

\* Every step of the pipeline does to the ring and to the claim what a step of
\* AuthEventQueue does, or nothing: an event offered twice, a reset of a ring in
\* use or a claim kept past its transaction would be no such step.
QueueSpec == Queue!Spec

\* The reader is not at the start of the record it has to read next: read_exact
\* failed after it had used up the end of a buffer (auth_journal.rs:230-231), and
\* the worker goes on with the same reader (worker.rs:1033-1047).
OutOfStep == batch.open /\ batch.offset # batch.read * RecordSize

\* The consumer goes on by itself: it was not stopped, the queue is not waiting for
\* recover_auth_event_queue, and the reader has not lost its place.
Consuming == pc # "stopped" /\ ring.state # "Corrupt" /\ ~OutOfStep

\* Every event reported durable takes effect.  What may keep it from that is a
\* worker that was stopped, a Corrupt queue that nobody recovers, or a failed read
\* in the middle of a record, after which the worker retries a reader that is out
\* of step until it happens to be restarted; nothing else.
EventuallyApplied ==
    \A id \in EventId : id \in durable ~> id \in ToSet(applied) \/ ~Consuming

\* An overflowed ring drains and heals, with the same exceptions.
OverflowHeals == ring.state = "Overflowed" ~> ring.state # "Overflowed" \/ ~Consuming
=============================================================================
