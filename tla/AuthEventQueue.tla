--------------------------- MODULE AuthEventQueue ---------------------------
(***************************************************************************)
(* The auth-event ring shared by the backends that produce events, the one *)
(* worker that consumes them, and the administrator who may reset it:      *)
(* the public functions of src/auth_event.rs.  The durable journal is only *)
(* the outcome of an append here; AuthPipeline models its files.           *)
(***************************************************************************)
EXTENDS AuthEventRing, Sequences

VARIABLES ring,    \* the AuthEventRing in shared memory
          held,    \* the worker's staged claim: a token and the event it
                   \* believes the token stands for, or NoClaim
          phase    \* where the worker is in one pass of consume_events

vars == <<ring, held, phase>>

Claim == [token : ClaimToken, event_id : EventId]
NoClaim == [token |-> [slot |-> 0, seq |-> 0], event_id |-> NoEvent]
Phase == {"check", "reading", "claimed"}

TypeOK == /\ ring \in Ring
          /\ held \in Claim \cup {NoClaim}
          /\ phase \in Phase

Init == ring = NewRing /\ held = NoClaim /\ phase = "check"

----------------------------------------------------------------------------
(* Producers. *)

\* enqueue_encoded_silent in some backend: a fresh 128-bit identifier, then
\* append and ring insertion under one lock.  (When no identifier can be
\* drawn, nothing reaches the journal or the ring.)
Enqueue ==
    /\ \E id \in EventId, appended \in BOOLEAN :
          /\ id \notin LiveIds(ring) \cup {held.event_id}
          /\ ring' = EnqueueEncoded(ring, id, appended).ring
    /\ UNCHANGED <<held, phase>>

----------------------------------------------------------------------------
(* The worker: one pass of the consume_events loop. *)

\* The health check at the top of the loop; a corrupt queue suspends the
\* worker until this check finds it recovered.
CheckHealth ==
    /\ phase = "check"
    /\ ring.state # "Corrupt"
    /\ phase' = "reading"
    /\ UNCHANGED <<ring, held>>

\* matching_claim for the journal record just read.
MatchingClaim ==
    /\ phase = "reading"
    /\ \E id \in EventId :
          /\ CanClaim(ring, id)
          /\ held' = [token |-> TailToken(ring), event_id |-> id]
    /\ ring' = Claimed(ring)
    /\ phase' = "claimed"

\* The record has no RAM copy at the tail: it commits without a token.
DurableOnlyEvent ==
    /\ phase = "reading"
    /\ ring' = Claimed(ring)
    /\ phase' = "check"
    /\ UNCHANGED held

\* The commit callback of the event's transaction acknowledges the token.
CommitAck ==
    /\ phase = "claimed"
    /\ ring' = AckClaim(ring, held.token)
    /\ held' = NoClaim
    /\ phase' = "check"

\* The abort callback discards the staged acknowledgement.
AbortRelease ==
    /\ phase = "claimed"
    /\ held' = NoClaim
    /\ phase' = "check"
    /\ UNCHANGED ring

\* mark_corrupt: a journal record could not be decoded.
MarkCorrupt ==
    /\ phase = "reading"
    /\ ring' = DegradeTo(ring, "Corrupt")
    /\ phase' = "check"
    /\ UNCHANGED held

----------------------------------------------------------------------------
(* The administrator and the postmaster. *)

\* recover_corrupt_ring: only a corrupt ring, only when both journal files
\* verify (when they do not, nothing happens), is reset to new().
RecoverCorruptRing ==
    /\ ring.state = "Corrupt"
    /\ ring' = NewRing
    /\ UNCHANGED <<held, phase>>

\* A server restart or crash: init() builds a new ring, the worker starts over.
Restart == ring' = NewRing /\ held' = NoClaim /\ phase' = "check"

Next == \/ Enqueue
        \/ CheckHealth \/ MatchingClaim \/ DurableOnlyEvent
        \/ CommitAck \/ AbortRelease \/ MarkCorrupt
        \/ RecoverCorruptRing \/ Restart

Spec == Init /\ [][Next]_vars

----------------------------------------------------------------------------
(* Properties. *)

\* Live entries carry consecutive, never reused sequence numbers, in queue
\* order, through every wraparound of the slots (src/auth_event.rs:69-74).
SeqsConsecutive == ConsecutiveSeqs(ring)

\* The counters get_lock_cache_stats() shows agree with the ring's content:
\* no event is counted twice and none is missed.
CountersAgree == CountersMatch(ring)

\* The ring is never Overflowed and empty: nothing would heal it any more.
OverflowedHasEntries == OverflowHasEntries(ring)

\* What the worker holds is the tail, or belongs to a ring that was reset
\* since: then the ring's oldest entry is number 1 and the token's is not, so
\* acknowledging it fails validation instead of removing another event.
ClaimIsTailOrStale ==
    held # NoClaim =>
        \/ /\ Depth(ring) > 0
           /\ held.token = TailToken(ring)
           /\ held.event_id = ring.events[ring.tail].event_id
        \/ /\ held.token.seq > 1
           /\ ring.acknowledged = 0

\* The worker's program counter and what it holds: a claim exists exactly
\* during an event transaction, and if the queue became corrupt while the
\* worker was past its health check, a producer ran out of sequence numbers.
WorkerInPhase ==
    /\ phase = "claimed" <=> held # NoClaim
    /\ ring.state = "Corrupt" /\ phase # "check" => ring.next_seq = U64Max

\* An acknowledgement removes the event whose transaction committed and no
\* other, whatever producers, the administrator and wraparound did since the
\* claim (the ABA hazard of src/auth_event.rs:70-73, 493-494).
AckRemovesClaimedEvent ==
    [][ring'.acknowledged > ring.acknowledged =>
          /\ held # NoClaim
          /\ held.event_id = ring.events[ring.tail].event_id]_vars

\* Corrupt is left only by the recovery function or a restart: no producer,
\* claim or acknowledgement makes a ring it cannot trust look usable again.
CorruptIsSticky ==
    [][ring.state = "Corrupt" /\ ring'.state # "Corrupt" => ring' = NewRing]_vars

\* The ring implements the bounded FIFO queue with one claim.
Fifo == INSTANCE EventFifo WITH
            Capacity <- RingSlots - 1,
            queue <- Contents(ring),
            claim <- held.event_id
FifoSpec == Fifo!Spec
=============================================================================
