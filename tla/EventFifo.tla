----------------------------- MODULE EventFifo -----------------------------
(***************************************************************************)
(* What the auth-event ring promises: a bounded first-in first-out queue   *)
(* with one consumer that may hold a claim on one event.  An event leaves  *)
(* the queue only from its head, only when the consumer acknowledges the   *)
(* event it claimed, or when the whole queue is reset.                     *)
(***************************************************************************)
EXTENDS Naturals, Sequences

CONSTANTS Capacity, EventId, NoEvent

VARIABLES queue,   \* the accepted, unacknowledged events, oldest first
          claim    \* the event the consumer works on, or NoEvent

vars == <<queue, claim>>

Init == queue = <<>> /\ claim = NoEvent

Offer(id) ==
    /\ Len(queue) < Capacity
    /\ queue' = Append(queue, id)
    /\ UNCHANGED claim

Take ==
    /\ queue # <<>>
    /\ claim' = Head(queue)
    /\ UNCHANGED queue

Acknowledge ==
    /\ queue # <<>>
    /\ claim = Head(queue)
    /\ queue' = Tail(queue)
    /\ claim' = NoEvent

\* The consumer's transaction rolled back, or its claim was no longer valid.
Release ==
    /\ claim' = NoEvent
    /\ UNCHANGED queue

\* An administrator's recovery keeps the consumer; a restart ends it.
Reset ==
    /\ queue' = <<>>
    /\ claim' \in {claim, NoEvent}

Next == \/ \E id \in EventId : Offer(id)
        \/ Take \/ Acknowledge \/ Release \/ Reset

Spec == Init /\ [][Next]_vars
=============================================================================
