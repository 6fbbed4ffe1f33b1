--------------------------- MODULE AuthEventRing ---------------------------
(***************************************************************************)
(* The bounded RAM ring of src/auth_event.rs: `impl AuthEventRing`, as     *)
(* operators on a ring record.  Every method runs under AUTH_EVENT_LWLOCK, *)
(* so each one is atomic; AuthEventQueue and AuthPipeline call them from   *)
(* their actions.                                                          *)
(*                                                                         *)
(* Abstractions: an event is its 128-bit identifier (the payload travels   *)
(* with it and no method of the ring reads it), and the rate limit of the  *)
(* queue-full warning (`last_warned_at`, `should_warn`) is left out, since *)
(* it only decides whether a line is logged.                               *)
(***************************************************************************)
EXTENDS Integers

CONSTANTS RingSlots,   \* RING_SLOTS; one slot always stays empty
          U64Max,      \* u64::MAX: sequence numbers stop, counters saturate
          EventId,     \* the identifiers pg_strong_random can draw
          NoEvent      \* the all-zero identifier of SharedAuthEvent::EMPTY

\* 1024 slots and 2^64 - 1 in the build.  RingSlots < U64Max is what keeps a
\* token from before a reset distinct from the tail of the ring after it.
ASSUME RingAssumption ==
    /\ RingSlots \in Nat /\ RingSlots >= 2
    /\ U64Max \in Nat /\ RingSlots < U64Max
    /\ NoEvent \notin EventId

Slot == 0 .. RingSlots - 1
Counter == 0 .. U64Max
QueueState == {"Healthy", "Overflowed", "Corrupt"}
EnqueueOutcome == {"Enqueued", "DurableOnly", "Unavailable"}
AckOutcome == {"Acknowledged", "Stale", "Corrupt"}

SharedAuthEvent == [event_id : EventId \cup {NoEvent}, seq : Counter]
ClaimToken == [slot : Slot, seq : Counter]

Ring == [head : Slot, tail : Slot, next_seq : Counter,
         accepted : Counter, acknowledged : Counter, rejected : Counter,
         journaled : Counter, durable_only : Counter,
         journal_failures : Counter, state : QueueState,
         events : [Slot -> SharedAuthEvent]]

----------------------------------------------------------------------------
(* Helpers of the impl block. *)

\* u64::saturating_add(1).
SaturatingInc(n) == IF n = U64Max THEN n ELSE n + 1

NewRing ==
    [head |-> 0, tail |-> 0, next_seq |-> 1,
     accepted |-> 0, acknowledged |-> 0, rejected |-> 0,
     journaled |-> 0, durable_only |-> 0, journal_failures |-> 0,
     state |-> "Healthy",
     events |-> [s \in Slot |-> [event_id |-> NoEvent, seq |-> 0]]]

IndicesValid(r) == r.head < RingSlots /\ r.tail < RingSlots

Advance(index) == (index + 1) % RingSlots

Depth(r) ==
    IF IndicesValid(r) THEN (r.head + RingSlots - r.tail) % RingSlots ELSE 0

\* Corrupt outranks Overflowed, and only Healthy becomes Overflowed.
DegradeTo(r, new) ==
    IF new = "Corrupt" \/ (new = "Overflowed" /\ r.state = "Healthy")
    THEN [r EXCEPT !.state = new]
    ELSE r

----------------------------------------------------------------------------
(* Producer side. *)

Full(r) == Advance(r.head) = r.tail

\* The slot at head written and published, with the sequence number `next`
\* left for the event after it.
Publish(r, id, next) ==
    [r EXCEPT !.events[r.head] = [event_id |-> id, seq |-> r.next_seq],
              !.next_seq = next,
              !.head = Advance(@),
              !.accepted = SaturatingInc(@)]

\* Mutants: no full check; the oldest entry makes room when the ring is full;
\* the sequence number saturates instead of failing closed.
TryEnqueue_NoFullCheck(r, id) ==
    IF r.state = "Corrupt" \/ r.next_seq = U64Max
    THEN [ring |-> DegradeTo(r, "Corrupt"), outcome |-> "Unavailable"]
    ELSE [ring |-> Publish(r, id, r.next_seq + 1), outcome |-> "Enqueued"]
TryEnqueue_DropOldest(r, id) ==
    IF r.state = "Corrupt" \/ r.next_seq = U64Max
    THEN [ring |-> DegradeTo(r, "Corrupt"), outcome |-> "Unavailable"]
    ELSE [ring |-> Publish(IF Full(r)
                           THEN [r EXCEPT !.tail = Advance(@),
                                          !.acknowledged = SaturatingInc(@)]
                           ELSE r, id, r.next_seq + 1),
          outcome |-> "Enqueued"]
TryEnqueue_SeqSaturates(r, id) ==
    IF r.state = "Corrupt" \/ Full(r)
    THEN [ring |-> r, outcome |-> "Unavailable"]
    ELSE [ring |-> Publish(r, id, SaturatingInc(r.next_seq)),
          outcome |-> "Enqueued"]

\* try_enqueue: refuse when the indices or the state cannot be trusted, when
\* the ring is full, or when sequence numbers have run out; otherwise write
\* the slot at head and publish it.
TryEnqueue(r, id) ==
    CASE ~IndicesValid(r) ->
            [ring |-> DegradeTo(r, "Corrupt"), outcome |-> "Unavailable"]
      [] IndicesValid(r) /\ r.state = "Corrupt" ->
            [ring |-> r, outcome |-> "Unavailable"]
      [] IndicesValid(r) /\ r.state # "Corrupt" /\ Full(r) ->
            [ring |-> DegradeTo([r EXCEPT !.rejected = SaturatingInc(@),
                                          !.durable_only = SaturatingInc(@)],
                                "Overflowed"),
             outcome |-> "DurableOnly"]
      [] IndicesValid(r) /\ r.state # "Corrupt" /\ ~Full(r)
                         /\ r.next_seq = U64Max ->
            [ring |-> DegradeTo([r EXCEPT !.rejected = SaturatingInc(@)],
                                "Corrupt"),
             outcome |-> "Unavailable"]
      [] OTHER ->
            [ring |-> Publish(r, id, r.next_seq + 1), outcome |-> "Enqueued"]

\* enqueue_encoded_with_id_silent after the lock is taken: the journal append
\* decides whether the event is durable at all; a ring that then refuses it
\* leaves it durable-only.  (The marker mark_durable_failure sets is modelled
\* where the health of the worker is.)
EnqueueEncoded(r, id, appended) ==
    IF ~appended
    THEN [ring |-> [r EXCEPT !.rejected = SaturatingInc(@),
                             !.journal_failures = SaturatingInc(@)],
          outcome |-> "Unavailable"]
    ELSE LET step == TryEnqueue([r EXCEPT !.journaled = SaturatingInc(@)], id)
         IN  IF step.outcome = "Unavailable"
             THEN [ring |-> [step.ring EXCEPT
                                !.durable_only = SaturatingInc(@)],
                   outcome |-> "DurableOnly"]
             ELSE step

IsDurable(outcome) == outcome \in {"Enqueued", "DurableOnly"}

----------------------------------------------------------------------------
(* Consumer side. *)

Empty(r) == r.head = r.tail

TailToken(r) == [slot |-> r.tail, seq |-> r.events[r.tail].seq]

\* matching_claim: the tail's token when the tail is the RAM copy of `id`.
\* (A claim on invalid indices also degrades the ring; see Claimed.)
CanClaim(r, id) ==
    IndicesValid(r) /\ ~Empty(r) /\ r.events[r.tail].event_id = id

Claimed(r) == IF IndicesValid(r) THEN r ELSE DegradeTo(r, "Corrupt")

\* The token still names the tail, by position and by sequence number.
TokenMatches(r, token) ==
    /\ ~Empty(r)
    /\ token.slot = r.tail
    /\ r.events[token.slot].seq = token.seq

\* Tail moved past the acknowledged entry; draining an overflowed ring heals it.
Removed(r) ==
    LET tail == Advance(r.tail)
    IN  [r EXCEPT !.tail = tail,
                  !.acknowledged = SaturatingInc(@),
                  !.state = IF r.head = tail /\ @ = "Overflowed"
                            THEN "Healthy" ELSE @]

\* Mutants: the sequence number is not compared; an overflowed ring is not
\* healed when it drains.
Ack_NoSeqCheck(r, token) ==
    IF Empty(r) \/ token.slot # r.tail
    THEN [ring |-> r, outcome |-> "Stale"]
    ELSE [ring |-> Removed(r), outcome |-> "Acknowledged"]
Ack_NeverHeals(r, token) ==
    IF ~TokenMatches(r, token)
    THEN [ring |-> r, outcome |-> "Stale"]
    ELSE [ring |-> [Removed(r) EXCEPT !.state = r.state],
          outcome |-> "Acknowledged"]

\* ack: advance tail past exactly the claimed entry, if position and sequence
\* number both still match.
Ack(r, token) ==
    CASE ~IndicesValid(r) ->
            [ring |-> DegradeTo(r, "Corrupt"), outcome |-> "Corrupt"]
      [] IndicesValid(r) /\ ~TokenMatches(r, token) ->
            [ring |-> r, outcome |-> "Stale"]
      [] OTHER ->
            [ring |-> Removed(r), outcome |-> "Acknowledged"]

\* ack_claim: the commit has already happened, so an acknowledgement that
\* does not validate is recorded as corruption instead of raised.
AckClaim(r, token) ==
    LET step == Ack(r, token)
    IN  IF step.outcome = "Acknowledged" THEN step.ring
        ELSE DegradeTo(step.ring, "Corrupt")

----------------------------------------------------------------------------
(* The ring read as a queue: the i-th oldest entry and the whole content. *)

SlotOf(r, i) == (r.tail + i - 1) % RingSlots
Entry(r, i) == r.events[SlotOf(r, i)]
Contents(r) == [i \in 1 .. Depth(r) |-> Entry(r, i).event_id]
LiveIds(r) == {Entry(r, i).event_id : i \in 1 .. Depth(r)}

----------------------------------------------------------------------------
(* What every ring the program can build satisfies. *)

\* The live entries carry the `depth` latest sequence numbers in queue order:
\* wraparound neither reuses nor reorders them.
ConsecutiveSeqs(r) ==
    \A i \in 1 .. Depth(r) :
        /\ Entry(r, i).event_id \in EventId
        /\ Entry(r, i).seq = r.next_seq - 1 - Depth(r) + i

\* What was accepted and not acknowledged is what the ring holds, and every
\* journaled event is counted exactly once as accepted or durable-only (until
\* a u64 saturates).
CountersMatch(r) ==
    /\ r.next_seq >= 1
    /\ r.accepted = r.next_seq - 1
    /\ r.accepted - r.acknowledged = Depth(r)
    /\ r.journaled < U64Max => r.journaled = r.accepted + r.durable_only

\* Acknowledging the last entry is the only way back to Healthy, so an empty
\* ring that is Overflowed would stay so for ever.
OverflowHasEntries(r) == r.state = "Overflowed" => Depth(r) > 0
=============================================================================
