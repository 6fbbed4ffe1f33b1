------------------------ MODULE AuthEventQueueProofs ------------------------
(***************************************************************************)
(* Proofs about AuthEventQueue, for every ring size, every bound on the    *)
(* sequence numbers and every set of event identifiers.                    *)
(***************************************************************************)
EXTENDS AuthEventQueue, TLAPS

----------------------------------------------------------------------------
(* Arithmetic of the ring's indices. *)

\* The distance from tail to head, without the modulo.
Dist(h, t) == IF h >= t THEN h - t ELSE h + RingSlots - t

\* The code's depth() is that distance.
LEMMA DepthIsDist ==
    ASSUME NEW r, r.head \in Slot, r.tail \in Slot
    PROVE  /\ IndicesValid(r)
           /\ Depth(r) = Dist(r.head, r.tail)
           /\ Depth(r) \in 0 .. RingSlots - 1
           /\ Empty(r) <=> Depth(r) = 0
<1>1. IndicesValid(r)
  BY RingAssumption DEF IndicesValid, Slot
<1>2. (r.head + RingSlots - r.tail) % RingSlots = Dist(r.head, r.tail)
  BY RingAssumption DEF Slot, Dist
<1>3. Dist(r.head, r.tail) \in 0 .. RingSlots - 1
  BY RingAssumption DEF Slot, Dist
<1>4. (r.head = r.tail) <=> Dist(r.head, r.tail) = 0
  BY RingAssumption DEF Slot, Dist
<1> QED
  BY <1>1, <1>2, <1>3, <1>4 DEF Depth, Empty

\* advance() stays in range and moves by one, wrapping at the end.
LEMMA AdvanceFacts ==
    ASSUME NEW s \in Slot
    PROVE  /\ Advance(s) \in Slot
           /\ Advance(s) = IF s = RingSlots - 1 THEN 0 ELSE s + 1
BY RingAssumption DEF Slot, Advance

\* The slot of the i-th oldest entry, without the modulo.
LEMMA SlotOfFacts ==
    ASSUME NEW r, r.tail \in Slot, NEW i \in 1 .. RingSlots
    PROVE  /\ SlotOf(r, i) \in Slot
           /\ SlotOf(r, i) = IF r.tail + i - 1 < RingSlots
                             THEN r.tail + i - 1
                             ELSE r.tail + i - 1 - RingSlots
BY RingAssumption DEF Slot, SlotOf

\* Moving head on one position adds one to the depth, unless the ring is full.
LEMMA DepthAfterPublish ==
    ASSUME NEW h \in Slot, NEW t \in Slot, Advance(h) # t
    PROVE  Dist(Advance(h), t) = Dist(h, t) + 1
BY RingAssumption, AdvanceFacts DEF Slot, Dist

\* Moving tail on one position takes one from the depth, unless it is empty.
LEMMA DepthAfterAck ==
    ASSUME NEW h \in Slot, NEW t \in Slot, h # t
    PROVE  Dist(h, Advance(t)) = Dist(h, t) - 1
BY RingAssumption, AdvanceFacts DEF Slot, Dist

\* A full ring holds RING_SLOTS - 1 entries.
LEMMA FullDepth ==
    ASSUME NEW h \in Slot, NEW t \in Slot
    PROVE  (Advance(h) = t) <=> Dist(h, t) = RingSlots - 1
BY RingAssumption, AdvanceFacts DEF Slot, Dist

\* Saturating counters stay counters.
LEMMA SaturatingIncType ==
    ASSUME NEW n \in Counter
    PROVE  SaturatingInc(n) \in Counter
BY RingAssumption DEF Counter, SaturatingInc

----------------------------------------------------------------------------
(* The ring invariant, and what each operation does to a ring. *)

RingOK(r) == /\ r \in Ring
             /\ ConsecutiveSeqs(r)
             /\ CountersMatch(r)
             /\ OverflowHasEntries(r)

\* A new ring is well formed.
LEMMA NewRingOK == RingOK(NewRing) /\ Depth(NewRing) = 0
<1> DEFINE r == NewRing
<1>1. r \in Ring
  BY RingAssumption
     DEF NewRing, Ring, Slot, Counter, QueueState, SharedAuthEvent
<1>2. r.head = 0 /\ r.tail = 0 /\ r.head \in Slot /\ r.tail \in Slot
  BY RingAssumption DEF NewRing, Slot
<1>3. Depth(r) = 0
  BY <1>2, DepthIsDist DEF Dist
<1>4. ConsecutiveSeqs(r) /\ CountersMatch(r) /\ OverflowHasEntries(r)
  BY <1>3, RingAssumption
     DEF ConsecutiveSeqs, CountersMatch, OverflowHasEntries, NewRing
<1> QED
  BY <1>1, <1>3, <1>4 DEF RingOK

\* Rings that agree on indices, sequence counter and slots hold the same
\* entries.
SameEntries(q, r) == /\ q.head = r.head /\ q.tail = r.tail
                     /\ q.events = r.events /\ q.next_seq = r.next_seq

LEMMA SameEntriesFacts ==
    ASSUME NEW q, NEW r, SameEntries(q, r)
    PROVE  /\ Depth(q) = Depth(r)
           /\ \A i : Entry(q, i) = Entry(r, i)
           /\ TailToken(q) = TailToken(r)
           /\ Contents(q) = Contents(r)
           /\ ConsecutiveSeqs(r) => ConsecutiveSeqs(q)
<1>1. Depth(q) = Depth(r)
  BY DEF SameEntries, Depth, IndicesValid
<1>2. \A i : Entry(q, i) = Entry(r, i)
  BY DEF SameEntries, Entry, SlotOf
<1>3. TailToken(q) = TailToken(r)
  BY DEF SameEntries, TailToken
<1>4. Contents(q) = Contents(r)
  BY <1>1, <1>2 DEF Contents
<1>5. ConsecutiveSeqs(r) => ConsecutiveSeqs(q)
  BY <1>1, <1>2 DEF ConsecutiveSeqs, SameEntries
<1> QED
  BY <1>1, <1>2, <1>3, <1>4, <1>5

\* A step that only moves counters and the health state keeps the ring well
\* formed, provided it counts a journaled event and declares overflow honestly.
LEMMA BookkeepingOnly ==
    ASSUME NEW r, RingOK(r), NEW q \in Ring, SameEntries(q, r),
           q.accepted = r.accepted, q.acknowledged = r.acknowledged,
           \/ q.journaled = r.journaled /\ q.durable_only = r.durable_only
           \/ /\ q.journaled = SaturatingInc(r.journaled)
              /\ q.durable_only = SaturatingInc(r.durable_only),
           q.state = "Overflowed" => r.state = "Overflowed" \/ Depth(r) > 0
    PROVE  RingOK(q)
<1>1. r \in Ring /\ ConsecutiveSeqs(r) /\ CountersMatch(r) /\ OverflowHasEntries(r)
  BY DEF RingOK
<1>2. Depth(q) = Depth(r) /\ ConsecutiveSeqs(q)
  BY <1>1, SameEntriesFacts
<1>3. /\ r.journaled \in Counter /\ r.durable_only \in Counter
      /\ r.accepted \in Counter /\ q.next_seq = r.next_seq
  BY <1>1 DEF Ring, SameEntries
<1>4. CountersMatch(q)
  BY <1>1, <1>2, <1>3, RingAssumption DEF CountersMatch, SaturatingInc, Counter
<1>5. OverflowHasEntries(q)
  BY <1>1, <1>2 DEF OverflowHasEntries
<1> QED
  BY <1>2, <1>4, <1>5 DEF RingOK

\* What an enqueue does to a well-formed ring: the event is accepted at the
\* end of the queue, or no entry changes.
LEMMA EnqueueEffect ==
    ASSUME NEW r, RingOK(r), NEW id \in EventId, NEW appended \in BOOLEAN,
           NEW q, q = EnqueueEncoded(r, id, appended).ring
    PROVE  /\ RingOK(q)
           /\ q.acknowledged = r.acknowledged
           /\ q.tail = r.tail
           /\ \/ /\ SameEntries(q, r)
                 /\ q.state = "Corrupt" =>
                       r.state = "Corrupt" \/ r.next_seq = U64Max
              \/ /\ Depth(r) < RingSlots - 1
                 /\ Depth(q) = Depth(r) + 1
                 /\ \A i \in 1 .. Depth(r) : Entry(q, i) = Entry(r, i)
                 /\ Entry(q, Depth(r) + 1).event_id = id
                 /\ q.state # "Corrupt"
           /\ r.state = "Corrupt" => q.state = "Corrupt"
<1>1. r \in Ring /\ ConsecutiveSeqs(r) /\ CountersMatch(r) /\ OverflowHasEntries(r)
  BY DEF RingOK
<1>2. /\ r.head \in Slot /\ r.tail \in Slot
      /\ IndicesValid(r)
      /\ Depth(r) = Dist(r.head, r.tail)
      /\ Depth(r) \in 0 .. RingSlots - 1
  BY <1>1, DepthIsDist DEF Ring
<1>3. CASE ~appended
  <2>1. q = [r EXCEPT !.rejected = SaturatingInc(@),
                      !.journal_failures = SaturatingInc(@)]
    BY <1>3 DEF EnqueueEncoded
  <2>2. q \in Ring
    BY <1>1, <2>1, SaturatingIncType DEF Ring
  <2>3. /\ SameEntries(q, r) /\ q.accepted = r.accepted
        /\ q.acknowledged = r.acknowledged /\ q.journaled = r.journaled
        /\ q.durable_only = r.durable_only /\ q.state = r.state
    BY <1>1, <2>1 DEF SameEntries, Ring
  <2> QED
    BY <2>2, <2>3, BookkeepingOnly DEF SameEntries
<1> DEFINE jdef == [r EXCEPT !.journaled = SaturatingInc(@)]
<1>4. PICK j : /\ j = jdef
               /\ j \in Ring /\ SameEntries(j, r)
               /\ IndicesValid(j) /\ Full(j) = Full(r)
               /\ j.journaled = SaturatingInc(r.journaled)
               /\ j.state = r.state /\ j.accepted = r.accepted
               /\ j.acknowledged = r.acknowledged
               /\ j.durable_only = r.durable_only
  <2>1. jdef \in Ring
    BY <1>1, SaturatingIncType DEF Ring
  <2> QED
    BY <1>1, <1>2, <2>1 DEF Ring, SameEntries, IndicesValid, Full
<1>5. ASSUME appended
      PROVE  LET step == TryEnqueue(j, id)
             IN  /\ step.outcome = "Unavailable" =>
                        q = [step.ring EXCEPT !.durable_only = SaturatingInc(@)]
                 /\ step.outcome # "Unavailable" => q = step.ring
  BY <1>4, <1>5 DEF EnqueueEncoded
<1> HIDE DEF jdef
<1>6. CASE appended /\ r.state = "Corrupt"
  <2>1. TryEnqueue(j, id) = [ring |-> j, outcome |-> "Unavailable"]
    BY <1>4, <1>6 DEF TryEnqueue
  <2>2. q = [j EXCEPT !.durable_only = SaturatingInc(@)]
    <3>1. TryEnqueue(j, id).ring = j /\ TryEnqueue(j, id).outcome = "Unavailable"
      BY <2>1
    <3> QED
      BY <1>5, <1>6, <3>1
  <2>3. q \in Ring
    BY <1>4, <2>2, SaturatingIncType DEF Ring
  <2>4. /\ SameEntries(q, j) /\ q.accepted = j.accepted
        /\ q.acknowledged = j.acknowledged /\ q.journaled = j.journaled
        /\ q.durable_only = SaturatingInc(j.durable_only) /\ q.state = j.state
    BY <1>4, <2>2 DEF SameEntries, Ring
  <2>5. /\ SameEntries(q, r) /\ q.accepted = r.accepted
        /\ q.acknowledged = r.acknowledged
        /\ q.journaled = SaturatingInc(r.journaled)
        /\ q.durable_only = SaturatingInc(r.durable_only) /\ q.state = r.state
    BY <1>4, <2>4 DEF SameEntries
  <2>6. RingOK(q)
    BY <2>3, <2>5, BookkeepingOnly
  <2> QED
    BY <1>6, <2>5, <2>6 DEF SameEntries
<1>7. CASE appended /\ r.state # "Corrupt" /\ Full(r)
  <2>1. PICK f : f = [j EXCEPT !.rejected = SaturatingInc(@),
                               !.durable_only = SaturatingInc(@)]
    OBVIOUS
  <2>2. f \in Ring
    BY <1>4, <2>1, SaturatingIncType DEF Ring
  <2>3. /\ SameEntries(f, j) /\ f.accepted = j.accepted
        /\ f.acknowledged = j.acknowledged /\ f.journaled = j.journaled
        /\ f.durable_only = SaturatingInc(j.durable_only) /\ f.state = j.state
    BY <1>4, <2>1 DEF SameEntries, Ring
  <2>4. TryEnqueue(j, id) = [ring |-> DegradeTo(f, "Overflowed"),
                             outcome |-> "DurableOnly"]
    BY <1>4, <1>7, <2>1 DEF TryEnqueue
  <2>5. q = DegradeTo(f, "Overflowed")
    <3>1. /\ TryEnqueue(j, id).ring = DegradeTo(f, "Overflowed")
          /\ TryEnqueue(j, id).outcome # "Unavailable"
      BY <2>4
    <3> QED
      BY <1>5, <1>7, <3>1
  <2>6. q = [f EXCEPT !.state = "Overflowed"]
    BY <1>1, <1>4, <1>7, <2>2, <2>3, <2>5 DEF DegradeTo, Ring, QueueState
  <2>7. q \in Ring
    BY <2>2, <2>6 DEF Ring, QueueState
  <2>8. /\ SameEntries(q, f) /\ q.accepted = f.accepted
        /\ q.acknowledged = f.acknowledged /\ q.journaled = f.journaled
        /\ q.durable_only = f.durable_only /\ q.state = "Overflowed"
    BY <2>2, <2>6 DEF SameEntries, Ring
  <2>9. Depth(r) > 0
    BY <1>2, <1>7, FullDepth, RingAssumption DEF Full
  <2>10. /\ SameEntries(q, r) /\ q.accepted = r.accepted
         /\ q.acknowledged = r.acknowledged
         /\ q.journaled = SaturatingInc(r.journaled)
         /\ q.durable_only = SaturatingInc(r.durable_only)
    BY <1>4, <2>3, <2>8 DEF SameEntries
  <2>11. RingOK(q)
    BY <2>7, <2>9, <2>10, BookkeepingOnly
  <2> QED
    BY <1>7, <2>8, <2>10, <2>11 DEF SameEntries
<1>8. CASE appended /\ r.state # "Corrupt" /\ ~Full(r) /\ r.next_seq = U64Max
  <2>1. PICK f : f = [j EXCEPT !.rejected = SaturatingInc(@)]
    OBVIOUS
  <2>2. f \in Ring
    BY <1>4, <2>1, SaturatingIncType DEF Ring
  <2>3. /\ SameEntries(f, j) /\ f.accepted = j.accepted
        /\ f.acknowledged = j.acknowledged /\ f.journaled = j.journaled
        /\ f.durable_only = j.durable_only
    BY <1>4, <2>1 DEF SameEntries, Ring
  <2>4. PICK g : g = [f EXCEPT !.state = "Corrupt"]
    OBVIOUS
  <2>5. g \in Ring
    BY <2>2, <2>4 DEF Ring, QueueState
  <2>6. /\ SameEntries(g, f) /\ g.accepted = f.accepted
        /\ g.acknowledged = f.acknowledged /\ g.journaled = f.journaled
        /\ g.durable_only = f.durable_only /\ g.state = "Corrupt"
    BY <2>2, <2>4 DEF SameEntries, Ring
  <2>7. TryEnqueue(j, id) = [ring |-> g, outcome |-> "Unavailable"]
    BY <1>4, <1>8, <2>1, <2>4 DEF TryEnqueue, SameEntries, DegradeTo
  <2>8. q = [g EXCEPT !.durable_only = SaturatingInc(@)]
    <3>1. TryEnqueue(j, id).ring = g /\ TryEnqueue(j, id).outcome = "Unavailable"
      BY <2>7
    <3> QED
      BY <1>5, <1>8, <3>1
  <2>9. q \in Ring
    BY <2>5, <2>8, SaturatingIncType DEF Ring
  <2>10. /\ SameEntries(q, g) /\ q.accepted = g.accepted
         /\ q.acknowledged = g.acknowledged /\ q.journaled = g.journaled
         /\ q.durable_only = SaturatingInc(g.durable_only) /\ q.state = g.state
    BY <2>5, <2>8 DEF SameEntries, Ring
  <2>11. /\ SameEntries(q, r) /\ q.accepted = r.accepted
         /\ q.acknowledged = r.acknowledged
         /\ q.journaled = SaturatingInc(r.journaled)
         /\ q.durable_only = SaturatingInc(r.durable_only)
         /\ q.state = "Corrupt"
    BY <1>4, <2>3, <2>6, <2>10 DEF SameEntries
  <2>12. RingOK(q)
    BY <2>9, <2>11, BookkeepingOnly
  <2> QED
    BY <1>8, <2>11, <2>12 DEF SameEntries
<1>9. CASE appended /\ r.state # "Corrupt" /\ ~Full(r) /\ r.next_seq # U64Max
  <2>1. PICK e : e = [event_id |-> id, seq |-> r.next_seq]
    OBVIOUS
  <2>2. TryEnqueue(j, id) = [ring |-> Publish(j, id, j.next_seq + 1),
                             outcome |-> "Enqueued"]
    BY <1>4, <1>9 DEF TryEnqueue, SameEntries
  <2>3. q = Publish(j, id, r.next_seq + 1)
    <3>1. /\ TryEnqueue(j, id).ring = Publish(j, id, j.next_seq + 1)
          /\ TryEnqueue(j, id).outcome # "Unavailable"
      BY <2>2
    <3>2. j.next_seq = r.next_seq
      BY <1>4 DEF SameEntries
    <3> QED
      BY <1>5, <1>9, <3>1, <3>2
  <2>4. /\ q.head = Advance(r.head) /\ q.tail = r.tail
        /\ q.next_seq = r.next_seq + 1
        /\ q.accepted = SaturatingInc(r.accepted)
        /\ q.acknowledged = r.acknowledged
        /\ q.durable_only = r.durable_only
        /\ q.journaled = SaturatingInc(r.journaled)
        /\ q.state = r.state
        /\ q.events = [r.events EXCEPT ![r.head] = e]
    BY <1>4, <2>1, <2>3 DEF Publish, SameEntries, Ring
  <2>5. q \in Ring
    <3>1. e \in SharedAuthEvent
      BY <1>1, <2>1 DEF SharedAuthEvent, Ring
    <3>2. q.events \in [Slot -> SharedAuthEvent]
      BY <1>1, <2>4, <3>1 DEF Ring
    <3>3. q.head \in Slot
      BY <1>2, <2>4, AdvanceFacts
    <3>4. r.next_seq \in Counter /\ r.accepted \in Counter
      BY <1>1 DEF Ring
    <3>5. q.next_seq \in Counter
      <4>1. r.next_seq # U64Max
        BY <1>9
      <4> QED
        BY <2>4, <3>4, <4>1, RingAssumption DEF Counter
    <3>6. q.accepted \in Counter
      BY <2>4, <3>4, SaturatingIncType
    <3>7. PICK k : k = [j EXCEPT !.events = q.events, !.next_seq = q.next_seq]
      OBVIOUS
    <3>8. k \in Ring
      BY <1>4, <3>2, <3>5, <3>7 DEF Ring
    <3>9. [k EXCEPT !.head = q.head, !.accepted = q.accepted] \in Ring
      BY <3>3, <3>6, <3>8 DEF Ring
    <3>10. q = [k EXCEPT !.head = q.head, !.accepted = q.accepted]
      BY <1>4, <2>3, <3>7 DEF Ring, Publish
    <3> QED
      BY <3>9, <3>10
  <2>6. /\ Depth(r) < RingSlots - 1
        /\ Depth(q) = Depth(r) + 1
    <3>1. q.head \in Slot /\ q.tail \in Slot
      BY <1>2, <2>4, AdvanceFacts
    <3>2. Depth(q) = Dist(q.head, q.tail)
      BY <3>1, DepthIsDist
    <3>3. Advance(r.head) # r.tail
      BY <1>9 DEF Full
    <3> QED
      BY <1>2, <2>4, <3>2, <3>3, DepthAfterPublish, FullDepth, RingAssumption
  <2>7. \A i \in 1 .. Depth(r) : SlotOf(r, i) \in Slot /\ SlotOf(r, i) # r.head
    BY <1>2, <2>6, SlotOfFacts, RingAssumption DEF Dist, Slot
  <2>8. \A i \in 1 .. Depth(r) : Entry(q, i) = Entry(r, i)
    BY <1>1, <2>4, <2>7 DEF Entry, SlotOf, Ring
  <2>9. SlotOf(r, Depth(r) + 1) = r.head
    BY <1>2, <2>6, SlotOfFacts, RingAssumption DEF Dist, Slot
  <2>10. Entry(q, Depth(r) + 1) = e
    BY <1>1, <1>2, <2>4, <2>9 DEF Entry, SlotOf, Ring
  <2>11. e.event_id = id /\ e.seq = r.next_seq
    BY <2>1
  <2>12. r.next_seq \in Counter /\ r.accepted \in Counter
         /\ r.journaled \in Counter /\ r.durable_only \in Counter
         /\ r.acknowledged \in Counter
    BY <1>1 DEF Ring
  <2>13. ConsecutiveSeqs(q)
    <3> SUFFICES ASSUME NEW i \in 1 .. Depth(q)
                 PROVE  /\ Entry(q, i).event_id \in EventId
                        /\ Entry(q, i).seq = q.next_seq - 1 - Depth(q) + i
      BY DEF ConsecutiveSeqs
    <3>1. CASE i \in 1 .. Depth(r)
      BY <1>1, <1>2, <2>4, <2>6, <2>8, <2>12, <3>1 DEF ConsecutiveSeqs, Counter
    <3>2. CASE i = Depth(r) + 1
      BY <1>2, <2>4, <2>6, <2>10, <2>11, <2>12, <3>2 DEF Counter
    <3> QED
      BY <1>2, <2>6, <3>1, <3>2
  <2>14. CountersMatch(q)
    <3>1. r.next_seq # U64Max
      BY <1>9
    <3> QED
      BY <1>1, <1>2, <2>4, <2>6, <2>12, <3>1, RingAssumption
         DEF CountersMatch, SaturatingInc, Counter
  <2>15. OverflowHasEntries(q)
    BY <1>2, <2>6 DEF OverflowHasEntries
  <2>16. RingOK(q)
    BY <2>5, <2>13, <2>14, <2>15 DEF RingOK
  <2> QED
    BY <1>9, <2>4, <2>6, <2>8, <2>10, <2>11, <2>16
<1> QED
  BY <1>3, <1>6, <1>7, <1>8, <1>9

\* The oldest entry is the one in the tail slot, and its number follows the
\* acknowledged ones.
LEMMA TailEntry ==
    ASSUME NEW r, RingOK(r), Depth(r) > 0
    PROVE  /\ Entry(r, 1) = r.events[r.tail]
           /\ r.events[r.tail].seq = r.acknowledged + 1
           /\ r.events[r.tail].seq = r.next_seq - Depth(r)
           /\ r.events[r.tail].event_id \in EventId
           /\ TailToken(r) \in ClaimToken
<1>1. r \in Ring /\ ConsecutiveSeqs(r) /\ CountersMatch(r)
  BY DEF RingOK
<1>2. r.head \in Slot /\ r.tail \in Slot /\ Depth(r) \in 0 .. RingSlots - 1
  BY <1>1, DepthIsDist DEF Ring
<1>3. SlotOf(r, 1) = r.tail
  BY <1>2, SlotOfFacts, RingAssumption DEF Slot
<1>4. Entry(r, 1) = r.events[r.tail]
  BY <1>3 DEF Entry
<1>5. 1 \in 1 .. Depth(r)
  BY <1>2
<1>6. Entry(r, 1).seq = r.next_seq - 1 - Depth(r) + 1 /\ Entry(r, 1).event_id \in EventId
  BY <1>1, <1>5 DEF ConsecutiveSeqs
<1>7. /\ r.next_seq \in Counter /\ r.accepted \in Counter
      /\ r.acknowledged \in Counter /\ r.events[r.tail] \in SharedAuthEvent
  BY <1>1, <1>2 DEF Ring
<1>8. r.events[r.tail].seq \in Counter
  BY <1>7 DEF SharedAuthEvent
<1>9. TailToken(r) \in ClaimToken
  BY <1>2, <1>8 DEF TailToken, ClaimToken
<1> QED
  BY <1>1, <1>2, <1>4, <1>6, <1>7, <1>9 DEF CountersMatch, Counter

\* What the commit callback does to a well-formed ring: a matching token takes
\* off the oldest entry, any other changes no entry and marks the ring corrupt.
LEMMA AckEffect ==
    ASSUME NEW r, RingOK(r), NEW token, NEW q, q = AckClaim(r, token)
    PROVE  /\ RingOK(q)
           /\ \/ /\ TokenMatches(r, token) /\ Depth(r) > 0
                 /\ Depth(q) = Depth(r) - 1
                 /\ \A i \in 1 .. Depth(q) : Entry(q, i) = Entry(r, i + 1)
                 /\ r.state = "Corrupt" => q.state = "Corrupt"
              \/ /\ ~TokenMatches(r, token)
                 /\ SameEntries(q, r) /\ q.acknowledged = r.acknowledged
                 /\ q.state = "Corrupt"
<1>1. r \in Ring /\ ConsecutiveSeqs(r) /\ CountersMatch(r) /\ OverflowHasEntries(r)
  BY DEF RingOK
<1>2. /\ r.head \in Slot /\ r.tail \in Slot
      /\ IndicesValid(r)
      /\ Depth(r) = Dist(r.head, r.tail)
      /\ Depth(r) \in 0 .. RingSlots - 1
      /\ Empty(r) <=> Depth(r) = 0
  BY <1>1, DepthIsDist DEF Ring
<1>3. CASE ~TokenMatches(r, token)
  <2>1. Ack(r, token) = [ring |-> r, outcome |-> "Stale"]
    BY <1>2, <1>3 DEF Ack
  <2>2. Ack(r, token).outcome # "Acknowledged" /\ Ack(r, token).ring = r
    BY <2>1
  <2>3. q = [r EXCEPT !.state = "Corrupt"]
    BY <2>2 DEF AckClaim, DegradeTo
  <2>4. q \in Ring
    BY <1>1, <2>3 DEF Ring, QueueState
  <2>5. /\ SameEntries(q, r) /\ q.accepted = r.accepted
        /\ q.acknowledged = r.acknowledged /\ q.journaled = r.journaled
        /\ q.durable_only = r.durable_only /\ q.state = "Corrupt"
    BY <1>1, <2>3 DEF SameEntries, Ring
  <2>6. RingOK(q)
    BY <2>4, <2>5, BookkeepingOnly
  <2> QED
    BY <1>3, <2>5, <2>6
<1>4. CASE TokenMatches(r, token)
  <2>1. Ack(r, token) = [ring |-> Removed(r), outcome |-> "Acknowledged"]
    BY <1>2, <1>4 DEF Ack
  <2>2. Ack(r, token).outcome = "Acknowledged" /\ Ack(r, token).ring = Removed(r)
    BY <2>1
  <2>3. q = Removed(r)
    BY <2>2 DEF AckClaim
  <2>4. Depth(r) > 0 /\ r.head # r.tail
    BY <1>2, <1>4 DEF TokenMatches, Empty
  <2>5. PICK s : s = IF r.head = Advance(r.tail) /\ r.state = "Overflowed"
                     THEN "Healthy" ELSE r.state
    OBVIOUS
  <2>6. q = [r EXCEPT !.tail = Advance(r.tail),
                      !.acknowledged = SaturatingInc(@), !.state = s]
    BY <2>3, <2>5 DEF Removed
  <2>7. /\ q.head = r.head /\ q.tail = Advance(r.tail)
        /\ q.next_seq = r.next_seq /\ q.accepted = r.accepted
        /\ q.acknowledged = SaturatingInc(r.acknowledged)
        /\ q.journaled = r.journaled /\ q.durable_only = r.durable_only
        /\ q.events = r.events /\ q.state = s
    BY <1>1, <2>6 DEF Ring
  <2>8. s \in QueueState /\ (r.state = "Corrupt" => s = "Corrupt")
    BY <1>1, <2>5 DEF Ring, QueueState
  <2>9. Advance(r.tail) \in Slot
    BY <1>2, AdvanceFacts
  <2>10. q \in Ring
    BY <1>1, <2>6, <2>8, <2>9, SaturatingIncType DEF Ring
  <2>11. Depth(q) = Depth(r) - 1 /\ Depth(q) = Dist(q.head, q.tail)
    <3>1. Depth(q) = Dist(q.head, q.tail)
      BY <1>2, <2>7, <2>9, DepthIsDist
    <3> QED
      BY <1>2, <2>4, <2>7, <3>1, DepthAfterAck
  <2>12. ASSUME NEW i \in 1 .. Depth(q)
         PROVE  SlotOf(q, i) = SlotOf(r, i + 1)
    <3>1. i \in 1 .. RingSlots /\ i + 1 \in 1 .. RingSlots
      BY <1>2, <2>11, RingAssumption
    <3>2. SlotOf(r, i + 1) = IF r.tail + (i + 1) - 1 < RingSlots
                             THEN r.tail + (i + 1) - 1
                             ELSE r.tail + (i + 1) - 1 - RingSlots
      BY <1>2, <3>1, SlotOfFacts
    <3>3. SlotOf(q, i) = IF q.tail + i - 1 < RingSlots
                         THEN q.tail + i - 1 ELSE q.tail + i - 1 - RingSlots
      BY <2>7, <2>9, <3>1, SlotOfFacts
    <3>4. q.tail = IF r.tail = RingSlots - 1 THEN 0 ELSE r.tail + 1
      BY <1>2, <2>7, AdvanceFacts
    <3> QED
      BY <1>2, <3>1, <3>2, <3>3, <3>4, RingAssumption DEF Slot
  <2>13. \A i \in 1 .. Depth(q) : Entry(q, i) = Entry(r, i + 1)
    BY <2>7, <2>12 DEF Entry
  <2>14. /\ r.next_seq \in Counter /\ r.accepted \in Counter
         /\ r.journaled \in Counter /\ r.durable_only \in Counter
         /\ r.acknowledged \in Counter
    BY <1>1 DEF Ring
  <2>15. ConsecutiveSeqs(q)
    BY <1>1, <1>2, <2>7, <2>11, <2>13, <2>14 DEF ConsecutiveSeqs, Counter
  <2>16. CountersMatch(q)
    BY <1>1, <1>2, <2>4, <2>7, <2>11, <2>14, RingAssumption
       DEF CountersMatch, SaturatingInc, Counter
  <2>17. OverflowHasEntries(q)
    <3>1. Depth(q) = 0 => r.head = Advance(r.tail)
      BY <1>2, <2>7, <2>9, DepthIsDist DEF Empty
    <3>2. r.head = Advance(r.tail) => q.state # "Overflowed"
      BY <2>5, <2>7
    <3>3. Depth(q) # 0 => Depth(q) > 0
      BY <1>2, <2>4, <2>11
    <3> QED
      BY <3>1, <3>2, <3>3 DEF OverflowHasEntries
  <2>18. RingOK(q)
    BY <2>10, <2>15, <2>16, <2>17 DEF RingOK
  <2> QED
    BY <1>4, <2>4, <2>7, <2>8, <2>11, <2>13, <2>18
<1> QED
  BY <1>3, <1>4

----------------------------------------------------------------------------
(* The inductive invariant. *)

\* RingOK carries the ring; the claim is typed; and the two facts that relate
\* the claim, the worker's position and the ring.  ClaimIsTailOrStale is not
\* inductive without WorkerInPhase: a recovery makes the held token stale,
\* and its number is above 1 only because a ring that became corrupt under a
\* claim had used up its sequence numbers.
IndInv == /\ RingOK(ring)
          /\ held \in Claim \cup {NoClaim}
          /\ phase \in Phase
          /\ ClaimIsTailOrStale
          /\ WorkerInPhase

\* A claim and no claim differ.
LEMMA ClaimIsNotNoClaim ==
    ASSUME NEW c \in Claim
    PROVE  c # NoClaim /\ c.event_id \in EventId /\ c.token \in ClaimToken
BY RingAssumption DEF Claim, NoClaim

\* Steps that do not touch the claim and keep tail, its entry and the count of
\* acknowledgements keep ClaimIsTailOrStale.
LEMMA ClaimKept ==
    ASSUME ClaimIsTailOrStale, held' = held, ring'.tail = ring.tail,
           Depth(ring) > 0 => /\ Depth(ring') > 0
                              /\ ring'.events[ring'.tail] = ring.events[ring.tail],
           ring'.acknowledged = ring.acknowledged
    PROVE  ClaimIsTailOrStale'
<1> SUFFICES ASSUME held # NoClaim
             PROVE  \/ /\ Depth(ring') > 0
                       /\ held.token = TailToken(ring')
                       /\ held.event_id = ring'.events[ring'.tail].event_id
                    \/ held.token.seq > 1 /\ ring'.acknowledged = 0
  BY DEF ClaimIsTailOrStale
<1>1. CASE /\ Depth(ring) > 0
           /\ held.token = TailToken(ring)
           /\ held.event_id = ring.events[ring.tail].event_id
  BY <1>1 DEF TailToken
<1>2. CASE held.token.seq > 1 /\ ring.acknowledged = 0
  BY <1>2
<1> QED
  BY <1>1, <1>2 DEF ClaimIsTailOrStale

\* Init establishes the invariant.
LEMMA InitInd == Init => IndInv
<1> SUFFICES ASSUME Init PROVE IndInv
  OBVIOUS
<1>1. ring = NewRing /\ held = NoClaim /\ phase = "check"
  BY DEF Init
<1>2. RingOK(ring)
  BY <1>1, NewRingOK
<1>3. ClaimIsTailOrStale /\ phase \in Phase
  BY <1>1 DEF ClaimIsTailOrStale, Phase
<1>4. WorkerInPhase
  BY <1>1 DEF WorkerInPhase, NewRing
<1> QED
  BY <1>1, <1>2, <1>3, <1>4 DEF IndInv

\* Producers keep it.
LEMMA EnqueueInd == IndInv /\ Enqueue => IndInv'
<1> SUFFICES ASSUME IndInv, Enqueue PROVE IndInv'
  OBVIOUS
<1>1. PICK id \in EventId, appended \in BOOLEAN :
          ring' = EnqueueEncoded(ring, id, appended).ring
  BY DEF Enqueue
<1>2. /\ RingOK(ring) /\ held' = held /\ phase' = phase
      /\ held \in Claim \cup {NoClaim} /\ phase \in Phase
  BY DEF IndInv, Enqueue
<1>3. /\ RingOK(ring')
      /\ ring'.acknowledged = ring.acknowledged
      /\ ring'.tail = ring.tail
      /\ \/ /\ SameEntries(ring', ring)
            /\ ring'.state = "Corrupt" =>
                  ring.state = "Corrupt" \/ ring.next_seq = U64Max
         \/ /\ Depth(ring') = Depth(ring) + 1
            /\ \A i \in 1 .. Depth(ring) : Entry(ring', i) = Entry(ring, i)
            /\ ring'.state # "Corrupt"
  BY <1>1, <1>2, EnqueueEffect
<1>4. Depth(ring) \in 0 .. RingSlots - 1
  BY <1>2, DepthIsDist DEF RingOK, Ring
<1>5. Depth(ring) > 0 => /\ Depth(ring') > 0
                         /\ ring'.events[ring'.tail] = ring.events[ring.tail]
  <2> SUFFICES ASSUME Depth(ring) > 0
               PROVE  /\ Depth(ring') > 0
                      /\ ring'.events[ring'.tail] = ring.events[ring.tail]
    OBVIOUS
  <2>1. CASE SameEntries(ring', ring)
    BY <2>1, SameEntriesFacts DEF SameEntries
  <2>2. CASE /\ Depth(ring') = Depth(ring) + 1
             /\ \A i \in 1 .. Depth(ring) : Entry(ring', i) = Entry(ring, i)
    <3>1. Depth(ring') > 0 /\ 1 \in 1 .. Depth(ring)
      BY <1>4, <2>2
    <3>2. Entry(ring', 1) = Entry(ring, 1)
      BY <2>2, <3>1
    <3>3. Entry(ring, 1) = ring.events[ring.tail]
      BY <1>2, TailEntry
    <3>4. Entry(ring', 1) = ring'.events[ring'.tail]
      BY <1>3, <3>1, TailEntry
    <3> QED
      BY <3>1, <3>2, <3>3, <3>4
  <2> QED
    BY <1>3, <2>1, <2>2
<1>6. ClaimIsTailOrStale'
  BY <1>2, <1>3, <1>5, ClaimKept DEF IndInv
<1>7. WorkerInPhase'
  BY <1>2, <1>3 DEF IndInv, WorkerInPhase, SameEntries
<1> QED
  BY <1>2, <1>3, <1>6, <1>7 DEF IndInv

\* The worker's steps before a transaction keep it.
LEMMA ReadingInd ==
    IndInv /\ (CheckHealth \/ MatchingClaim \/ DurableOnlyEvent) => IndInv'
<1> SUFFICES ASSUME IndInv, CheckHealth \/ MatchingClaim \/ DurableOnlyEvent
             PROVE  IndInv'
  OBVIOUS
<1>1. /\ RingOK(ring) /\ IndicesValid(ring)
      /\ Empty(ring) <=> Depth(ring) = 0
      /\ Depth(ring) \in 0 .. RingSlots - 1
  BY DepthIsDist DEF IndInv, RingOK, Ring
<1>2. ring' = ring
  BY <1>1 DEF CheckHealth, MatchingClaim, DurableOnlyEvent, Claimed
<1>3. CASE CheckHealth
  BY <1>2, <1>3 DEF CheckHealth, IndInv, ClaimIsTailOrStale, WorkerInPhase, Phase
<1>4. CASE DurableOnlyEvent
  BY <1>2, <1>4
     DEF DurableOnlyEvent, IndInv, ClaimIsTailOrStale, WorkerInPhase, Phase
<1>5. CASE MatchingClaim
  <2>1. PICK id \in EventId :
            /\ CanClaim(ring, id)
            /\ held' = [token |-> TailToken(ring), event_id |-> id]
    BY <1>5 DEF MatchingClaim
  <2>2. phase = "reading" /\ phase' = "claimed"
    BY <1>5 DEF MatchingClaim
  <2>3. Depth(ring) > 0 /\ ring.events[ring.tail].event_id = id
    BY <1>1, <2>1 DEF CanClaim
  <2>4. TailToken(ring) \in ClaimToken
    BY <1>1, <2>3, TailEntry
  <2>5. held' \in Claim
    BY <2>1, <2>4 DEF Claim
  <2>6. held' # NoClaim
    BY <2>5, ClaimIsNotNoClaim
  <2>7. ClaimIsTailOrStale'
    BY <1>2, <2>1, <2>3 DEF ClaimIsTailOrStale
  <2>8. WorkerInPhase'
    BY <1>2, <2>2, <2>6 DEF IndInv, WorkerInPhase
  <2> QED
    BY <1>1, <1>2, <2>2, <2>5, <2>7, <2>8 DEF IndInv, Phase
<1> QED
  BY <1>3, <1>4, <1>5

\* The steps that end a pass keep it.
LEMMA FinishingInd ==
    IndInv /\ (CommitAck \/ AbortRelease \/ MarkCorrupt) => IndInv'
<1> SUFFICES ASSUME IndInv, CommitAck \/ AbortRelease \/ MarkCorrupt
             PROVE  IndInv'
  OBVIOUS
<1>1. held' = NoClaim /\ phase' = "check"
  BY DEF CommitAck, AbortRelease, MarkCorrupt, IndInv, WorkerInPhase
<1>2. ClaimIsTailOrStale' /\ WorkerInPhase' /\ phase' \in Phase
  BY <1>1 DEF ClaimIsTailOrStale, WorkerInPhase, Phase
<1>3. RingOK(ring')
  <2>1. CASE CommitAck
    BY <2>1, AckEffect DEF CommitAck, IndInv
  <2>2. CASE AbortRelease
    BY <2>2 DEF AbortRelease, IndInv
  <2>3. CASE MarkCorrupt
    <3>1. RingOK(ring) /\ ring \in Ring
      BY DEF IndInv, RingOK
    <3>2. ring' = [ring EXCEPT !.state = "Corrupt"]
      BY <2>3 DEF MarkCorrupt, DegradeTo
    <3>3. ring' \in Ring
      BY <3>1, <3>2 DEF Ring, QueueState
    <3>4. /\ SameEntries(ring', ring) /\ ring'.accepted = ring.accepted
          /\ ring'.acknowledged = ring.acknowledged
          /\ ring'.journaled = ring.journaled
          /\ ring'.durable_only = ring.durable_only
          /\ ring'.state = "Corrupt"
      BY <3>1, <3>2 DEF Ring, SameEntries
    <3> QED
      BY <3>1, <3>3, <3>4, BookkeepingOnly
  <2> QED
    BY <2>1, <2>2, <2>3
<1> QED
  BY <1>1, <1>2, <1>3 DEF IndInv

\* A reset by the administrator or by a restart keeps it.
LEMMA ResetInd == IndInv /\ (RecoverCorruptRing \/ Restart) => IndInv'
<1> SUFFICES ASSUME IndInv, RecoverCorruptRing \/ Restart PROVE IndInv'
  OBVIOUS
<1>1. ring' = NewRing /\ NewRing.acknowledged = 0 /\ NewRing.state = "Healthy"
  BY DEF RecoverCorruptRing, Restart, NewRing
<1>2. RingOK(ring')
  BY <1>1, NewRingOK
<1>3. CASE Restart
  BY <1>1, <1>2, <1>3
     DEF Restart, IndInv, ClaimIsTailOrStale, WorkerInPhase, Phase
<1>4. CASE RecoverCorruptRing
  <2>1. held' = held /\ phase' = phase /\ ring.state = "Corrupt"
    BY <1>4 DEF RecoverCorruptRing
  <2>2. WorkerInPhase'
    BY <1>1, <2>1 DEF IndInv, WorkerInPhase
  <2>3. ASSUME held # NoClaim PROVE held.token.seq > 1
    <3>1. CASE held.token = TailToken(ring) /\ Depth(ring) > 0
      <4>1. ring.next_seq = U64Max
        BY <2>1, <2>3 DEF IndInv, WorkerInPhase
      <4>2. held.token.seq = ring.next_seq - Depth(ring)
        BY <3>1, TailEntry DEF IndInv, TailToken
      <4>3. Depth(ring) \in 0 .. RingSlots - 1
        BY DepthIsDist DEF IndInv, RingOK, Ring
      <4> QED
        BY <4>1, <4>2, <4>3, RingAssumption
    <3> QED
      BY <2>3, <3>1 DEF IndInv, ClaimIsTailOrStale
  <2>4. ClaimIsTailOrStale'
    BY <1>1, <2>1, <2>3 DEF ClaimIsTailOrStale
  <2> QED
    BY <1>2, <2>1, <2>2, <2>4 DEF IndInv
<1> QED
  BY <1>3, <1>4

\* The invariant holds in every reachable state.
THEOREM Invariance == Spec => []IndInv
<1>1. IndInv /\ UNCHANGED vars => IndInv'
  BY DEF IndInv, ClaimIsTailOrStale, WorkerInPhase, vars
<1>2. IndInv /\ [Next]_vars => IndInv'
  BY <1>1, EnqueueInd, ReadingInd, FinishingInd, ResetInd DEF Next
<1> QED
  BY InitInd, <1>2, PTL DEF Spec

----------------------------------------------------------------------------
(* The properties the runs check, for every instance. *)

\* The type invariant.
THEOREM TypeCorrect == Spec => []TypeOK
<1>1. IndInv => TypeOK
  BY DEF IndInv, RingOK, TypeOK
<1> QED
  BY <1>1, Invariance, PTL

\* Live entries carry consecutive sequence numbers in queue order, for every
\* ring size (AuthEventRing::try_enqueue, ack).
THEOREM SeqsConsecutiveThm == Spec => []SeqsConsecutive
<1>1. IndInv => SeqsConsecutive
  BY DEF IndInv, RingOK, SeqsConsecutive
<1> QED
  BY <1>1, Invariance, PTL

\* The counters of get_lock_cache_stats() agree with the ring's content.
THEOREM CountersAgreeThm == Spec => []CountersAgree
<1>1. IndInv => CountersAgree
  BY DEF IndInv, RingOK, CountersAgree
<1> QED
  BY <1>1, Invariance, PTL

\* An overflowed ring always has an entry left whose acknowledgement can heal
\* it (AuthEventRing::ack).
THEOREM OverflowedHasEntriesThm == Spec => []OverflowedHasEntries
<1>1. IndInv => OverflowedHasEntries
  BY DEF IndInv, RingOK, OverflowedHasEntries
<1> QED
  BY <1>1, Invariance, PTL

\* The worker's claim is the tail of the ring or cannot validate.
THEOREM ClaimIsTailOrStaleThm == Spec => []ClaimIsTailOrStale
<1>1. IndInv => ClaimIsTailOrStale
  BY DEF IndInv
<1> QED
  BY <1>1, Invariance, PTL

\* A token that matches the ring is the claim on its oldest event: a stale one
\* carries a number above 1, and after a reset the oldest entry is number 1.
LEMMA MatchIsOwnClaim ==
    ASSUME IndInv, held # NoClaim, TokenMatches(ring, held.token)
    PROVE  /\ Depth(ring) > 0
           /\ held.event_id = ring.events[ring.tail].event_id
<1>1. RingOK(ring) /\ ring \in Ring
  BY DEF IndInv, RingOK
<1>2. Depth(ring) \in 0 .. RingSlots - 1 /\ (Empty(ring) <=> Depth(ring) = 0)
  BY <1>1, DepthIsDist DEF Ring
<1>3. Depth(ring) > 0
  BY <1>2 DEF TokenMatches
<1>4. held.token.seq = ring.acknowledged + 1
  <2>1. ring.events[ring.tail].seq = ring.acknowledged + 1
    BY <1>1, <1>3, TailEntry
  <2> QED
    BY <2>1 DEF TokenMatches
<1>5. ~(held.token.seq > 1 /\ ring.acknowledged = 0)
  BY <1>4
<1> QED
  BY <1>3, <1>5 DEF IndInv, ClaimIsTailOrStale

\* Steps other than the commit callback acknowledge nothing and leave Corrupt
\* only by building a new ring.
LEMMA QuietSteps ==
    ASSUME IndInv, Next, ~CommitAck
    PROVE  /\ ~(ring'.acknowledged > ring.acknowledged)
           /\ ring.state = "Corrupt" =>
                 ring'.state = "Corrupt" \/ ring' = NewRing
<1>1. RingOK(ring) /\ ring \in Ring /\ IndicesValid(ring)
  BY DepthIsDist DEF IndInv, RingOK, Ring
<1>2. ring.acknowledged \in Nat
  BY <1>1, RingAssumption DEF Ring, Counter
<1>3. CASE Enqueue
  <2>1. PICK id \in EventId, appended \in BOOLEAN :
            ring' = EnqueueEncoded(ring, id, appended).ring
    BY <1>3 DEF Enqueue
  <2>2. /\ ring'.acknowledged = ring.acknowledged
        /\ ring.state = "Corrupt" => ring'.state = "Corrupt"
    BY <1>1, <2>1, EnqueueEffect
  <2> QED
    BY <1>2, <2>2
<1>4. CASE CheckHealth \/ MatchingClaim \/ DurableOnlyEvent \/ AbortRelease
  <2>1. ring' = ring
    BY <1>1, <1>4
       DEF CheckHealth, MatchingClaim, DurableOnlyEvent, AbortRelease, Claimed
  <2> QED
    BY <1>2, <2>1
<1>5. CASE MarkCorrupt
  <2>1. ring' = [ring EXCEPT !.state = "Corrupt"]
    BY <1>5 DEF MarkCorrupt, DegradeTo
  <2>2. ring'.acknowledged = ring.acknowledged /\ ring'.state = "Corrupt"
    BY <1>1, <2>1 DEF Ring
  <2> QED
    BY <1>2, <2>2
<1>6. CASE RecoverCorruptRing \/ Restart
  <2>1. ring' = NewRing /\ NewRing.acknowledged = 0
    BY <1>6 DEF RecoverCorruptRing, Restart, NewRing
  <2> QED
    BY <1>2, <2>1
<1> QED
  BY <1>3, <1>4, <1>5, <1>6 DEF Next

\* An acknowledgement removes exactly the event whose transaction committed,
\* whatever the other processes did since the claim (ack, ack_claim).
THEOREM AckRemovesClaimedEventThm == Spec => AckRemovesClaimedEvent
<1> DEFINE A == ring'.acknowledged > ring.acknowledged =>
                   /\ held # NoClaim
                   /\ held.event_id = ring.events[ring.tail].event_id
<1>1. IndInv /\ [Next]_vars => [A]_vars
  <2> SUFFICES ASSUME IndInv, Next PROVE A
    OBVIOUS
  <2>1. CASE CommitAck
    <3>1. held # NoClaim /\ ring' = AckClaim(ring, held.token)
      BY <2>1 DEF CommitAck, IndInv, WorkerInPhase
    <3>2. \/ TokenMatches(ring, held.token)
          \/ ring'.acknowledged = ring.acknowledged
      BY <3>1, AckEffect DEF IndInv
    <3>3. ring.acknowledged \in Nat
      BY RingAssumption DEF IndInv, RingOK, Ring, Counter
    <3>4. TokenMatches(ring, held.token) =>
              held.event_id = ring.events[ring.tail].event_id
      BY <3>1, MatchIsOwnClaim
    <3> QED
      BY <3>1, <3>2, <3>3, <3>4
  <2> QED
    BY <2>1, QuietSteps
<1> QED
  BY <1>1, Invariance, PTL DEF Spec, AckRemovesClaimedEvent

\* Only a reset leaves Corrupt (degrade_to, ack, recover_corrupt_ring).
THEOREM CorruptIsStickyThm == Spec => CorruptIsSticky
<1> DEFINE A == ring.state = "Corrupt" /\ ring'.state # "Corrupt" => ring' = NewRing
<1>1. IndInv /\ [Next]_vars => [A]_vars
  <2> SUFFICES ASSUME IndInv, Next PROVE A
    OBVIOUS
  <2>1. CASE CommitAck
    <3>1. ring' = AckClaim(ring, held.token)
      BY <2>1 DEF CommitAck
    <3>2. ring.state = "Corrupt" => ring'.state = "Corrupt"
      BY <3>1, AckEffect DEF IndInv
    <3> QED
      BY <3>2
  <2> QED
    BY <2>1, QuietSteps
<1> QED
  BY <1>1, Invariance, PTL DEF Spec, CorruptIsSticky

----------------------------------------------------------------------------
(* Refinement: the ring implements the bounded FIFO queue. *)

\* The content of a well-formed ring is a sequence as long as its depth.
LEMMA ContentsFacts ==
    ASSUME NEW r, RingOK(r)
    PROVE  /\ Contents(r) \in Seq(EventId)
           /\ Len(Contents(r)) = Depth(r)
           /\ \A i \in 1 .. Depth(r) : Contents(r)[i] = Entry(r, i).event_id
           /\ Depth(r) \in Nat
<1>1. Depth(r) \in Nat
  BY DepthIsDist, RingAssumption DEF RingOK, Ring
<1>2. \A i \in 1 .. Depth(r) : Entry(r, i).event_id \in EventId
  BY DEF RingOK, ConsecutiveSeqs
<1> QED
  BY <1>1, <1>2 DEF Contents

\* Accepting an event appends it.
LEMMA ContentsAppend ==
    ASSUME NEW r, RingOK(r), NEW q, RingOK(q), NEW id \in EventId,
           Depth(q) = Depth(r) + 1,
           \A i \in 1 .. Depth(r) : Entry(q, i) = Entry(r, i),
           Entry(q, Depth(r) + 1).event_id = id
    PROVE  Contents(q) = Append(Contents(r), id)
<1>1. \A i \in 1 .. Depth(q) :
          Contents(q)[i] = IF i = Depth(r) + 1 THEN id ELSE Contents(r)[i]
  <2> TAKE i \in 1 .. Depth(q)
  <2>1. Contents(q)[i] = Entry(q, i).event_id
    BY ContentsFacts
  <2>2. CASE i = Depth(r) + 1
    BY <2>1, <2>2
  <2>3. CASE i \in 1 .. Depth(r)
    <3>1. Contents(r)[i] = Entry(r, i).event_id /\ i # Depth(r) + 1
      BY <2>3, ContentsFacts
    <3> QED
      BY <2>1, <2>3, <3>1
  <2>4. Depth(r) \in Nat
    BY ContentsFacts
  <2> QED
    BY <2>2, <2>3, <2>4
<1>2. /\ Contents(q) \in Seq(EventId) /\ Len(Contents(q)) = Depth(r) + 1
      /\ Contents(r) \in Seq(EventId) /\ Len(Contents(r)) = Depth(r)
      /\ Depth(r) \in Nat
  BY ContentsFacts
<1> QED
  BY <1>1, <1>2

\* Acknowledging the oldest event takes off the head.
LEMMA ContentsTail ==
    ASSUME NEW r, RingOK(r), NEW q, RingOK(q), Depth(r) > 0,
           Depth(q) = Depth(r) - 1,
           \A i \in 1 .. Depth(q) : Entry(q, i) = Entry(r, i + 1)
    PROVE  Contents(q) = Tail(Contents(r))
<1>1. /\ Contents(q) \in Seq(EventId) /\ Len(Contents(q)) = Depth(r) - 1
      /\ Contents(r) \in Seq(EventId) /\ Len(Contents(r)) = Depth(r)
      /\ Depth(r) \in Nat
  BY ContentsFacts
<1>2. \A i \in 1 .. Depth(q) : Contents(q)[i] = Contents(r)[i + 1]
  <2> TAKE i \in 1 .. Depth(q)
  <2>1. i + 1 \in 1 .. Depth(r)
    BY <1>1
  <2>2. Contents(r)[i + 1] = Entry(r, i + 1).event_id
    BY <2>1, ContentsFacts
  <2>3. Contents(q)[i] = Entry(q, i).event_id
    BY ContentsFacts
  <2> QED
    BY <2>2, <2>3
<1> QED
  BY <1>1, <1>2

\* A non-empty ring's head event is the one in the tail slot.
LEMMA ContentsHead ==
    ASSUME NEW r, RingOK(r), Depth(r) > 0
    PROVE  /\ Contents(r) # <<>>
           /\ Head(Contents(r)) = r.events[r.tail].event_id
<1>1. /\ Contents(r) \in Seq(EventId) /\ Len(Contents(r)) = Depth(r)
      /\ Depth(r) \in Nat
  BY ContentsFacts
<1>2. 1 \in 1 .. Depth(r)
  BY <1>1
<1>3. Contents(r)[1] = Entry(r, 1).event_id
  BY <1>2, ContentsFacts
<1> QED
  BY <1>1, <1>3, TailEntry

\* An empty ring's content is the empty sequence.
LEMMA ContentsEmpty == Contents(NewRing) = <<>>
<1>1. RingOK(NewRing) /\ Depth(NewRing) = 0
  BY NewRingOK
<1>2. Contents(NewRing) \in Seq(EventId) /\ Len(Contents(NewRing)) = 0
  BY <1>1, ContentsFacts
<1> QED
  BY <1>2

\* Every step of the ring and its processes is a step of the FIFO queue or
\* leaves it unchanged.
LEMMA StepRefines == IndInv /\ [Next]_vars => [Fifo!Next]_(Fifo!vars)
<1> SUFFICES ASSUME IndInv, [Next]_vars PROVE Fifo!Next \/ UNCHANGED Fifo!vars
  OBVIOUS
<1> USE DEF Fifo!vars
<1>1. RingOK(ring) /\ ring \in Ring /\ IndicesValid(ring)
  BY DepthIsDist DEF IndInv, RingOK, Ring
<1>2. ASSUME ring' = ring, held' = held PROVE UNCHANGED Fifo!vars
  BY <1>2
<1>3. CASE UNCHANGED vars
  BY <1>2, <1>3 DEF vars
<1>4. CASE Enqueue
  <2>1. PICK id \in EventId, appended \in BOOLEAN :
            ring' = EnqueueEncoded(ring, id, appended).ring
    BY <1>4 DEF Enqueue
  <2>2. held' = held
    BY <1>4 DEF Enqueue
  <2>3. /\ RingOK(ring')
        /\ \/ SameEntries(ring', ring)
           \/ /\ Depth(ring) < RingSlots - 1
              /\ Depth(ring') = Depth(ring) + 1
              /\ \A i \in 1 .. Depth(ring) : Entry(ring', i) = Entry(ring, i)
              /\ Entry(ring', Depth(ring) + 1).event_id = id
    BY <1>1, <2>1, EnqueueEffect
  <2>4. CASE SameEntries(ring', ring)
    <3>1. Contents(ring') = Contents(ring)
      BY <2>4, SameEntriesFacts
    <3> QED
      BY <2>2, <3>1
  <2>5. CASE /\ Depth(ring) < RingSlots - 1
             /\ Depth(ring') = Depth(ring) + 1
             /\ \A i \in 1 .. Depth(ring) : Entry(ring', i) = Entry(ring, i)
             /\ Entry(ring', Depth(ring) + 1).event_id = id
    <3>1. Contents(ring') = Append(Contents(ring), id)
      BY <1>1, <2>3, <2>5, ContentsAppend
    <3>2. Len(Contents(ring)) < RingSlots - 1
      BY <1>1, <2>5, ContentsFacts
    <3>3. Fifo!Offer(id)
      BY <2>2, <3>1, <3>2 DEF Fifo!Offer
    <3> QED
      BY <3>3 DEF Fifo!Next
  <2> QED
    BY <2>3, <2>4, <2>5
<1>5. CASE CheckHealth \/ DurableOnlyEvent
  BY <1>1, <1>2, <1>5 DEF CheckHealth, DurableOnlyEvent, Claimed
<1>6. CASE MatchingClaim
  <2>1. PICK id \in EventId :
            /\ CanClaim(ring, id)
            /\ held' = [token |-> TailToken(ring), event_id |-> id]
    BY <1>6 DEF MatchingClaim
  <2>2. ring' = ring /\ held'.event_id = id
    BY <1>1, <1>6, <2>1 DEF MatchingClaim, Claimed
  <2>3. Depth(ring) \in Nat /\ (Empty(ring) <=> Depth(ring) = 0)
    BY <1>1, DepthIsDist, RingAssumption DEF Ring
  <2>4. Depth(ring) > 0 /\ ring.events[ring.tail].event_id = id
    BY <2>1, <2>3 DEF CanClaim
  <2>5. Contents(ring) # <<>> /\ Head(Contents(ring)) = id
    BY <1>1, <2>4, ContentsHead
  <2>6. Fifo!Take
    BY <2>2, <2>5 DEF Fifo!Take
  <2> QED
    BY <2>6 DEF Fifo!Next
<1>7. CASE CommitAck
  <2>1. /\ ring' = AckClaim(ring, held.token)
        /\ held' = NoClaim /\ held'.event_id = NoEvent /\ held # NoClaim
    BY <1>7 DEF CommitAck, NoClaim, IndInv, WorkerInPhase
  <2>2. /\ RingOK(ring')
        /\ \/ /\ TokenMatches(ring, held.token) /\ Depth(ring) > 0
              /\ Depth(ring') = Depth(ring) - 1
              /\ \A i \in 1 .. Depth(ring') : Entry(ring', i) = Entry(ring, i + 1)
           \/ SameEntries(ring', ring)
    BY <1>1, <2>1, AckEffect
  <2>3. CASE SameEntries(ring', ring)
    <3>1. Contents(ring') = Contents(ring)
      BY <2>3, SameEntriesFacts
    <3>2. Fifo!Release
      BY <2>1, <3>1 DEF Fifo!Release
    <3> QED
      BY <3>2 DEF Fifo!Next
  <2>4. CASE /\ TokenMatches(ring, held.token) /\ Depth(ring) > 0
             /\ Depth(ring') = Depth(ring) - 1
             /\ \A i \in 1 .. Depth(ring') : Entry(ring', i) = Entry(ring, i + 1)
    <3>1. Contents(ring') = Tail(Contents(ring))
      BY <1>1, <2>2, <2>4, ContentsTail
    <3>2. held.event_id = ring.events[ring.tail].event_id
      BY <2>1, <2>4, MatchIsOwnClaim
    <3>3. Contents(ring) # <<>> /\ Head(Contents(ring)) = held.event_id
      BY <1>1, <2>4, <3>2, ContentsHead
    <3>4. Fifo!Acknowledge
      BY <2>1, <3>1, <3>3 DEF Fifo!Acknowledge
    <3> QED
      BY <3>4 DEF Fifo!Next
  <2> QED
    BY <2>2, <2>3, <2>4
<1>8. CASE AbortRelease
  <2>1. Fifo!Release
    BY <1>8 DEF AbortRelease, NoClaim, Fifo!Release
  <2> QED
    BY <2>1 DEF Fifo!Next
<1>9. CASE MarkCorrupt
  <2>1. ring' = [ring EXCEPT !.state = "Corrupt"] /\ held' = held
    BY <1>9 DEF MarkCorrupt, DegradeTo
  <2>2. SameEntries(ring', ring)
    BY <1>1, <2>1 DEF Ring, SameEntries
  <2>3. Contents(ring') = Contents(ring)
    BY <2>2, SameEntriesFacts
  <2> QED
    BY <2>1, <2>3
<1>10. CASE RecoverCorruptRing \/ Restart
  <2>1. Contents(ring') = <<>>
    BY <1>10, ContentsEmpty DEF RecoverCorruptRing, Restart
  <2>2. held'.event_id \in {held.event_id, NoEvent}
    BY <1>10 DEF RecoverCorruptRing, Restart, NoClaim
  <2>3. Fifo!Reset
    BY <2>1, <2>2 DEF Fifo!Reset
  <2> QED
    BY <2>3 DEF Fifo!Next
<1> QED
  BY <1>3, <1>4, <1>5, <1>6, <1>7, <1>8, <1>9, <1>10 DEF Next

\* The ring with its producers, its consumer, recovery and restart implements
\* the bounded FIFO queue with one claim, for every ring size.
THEOREM ImplementsFifo == Spec => FifoSpec
<1>1. Init => Fifo!Init
  BY ContentsEmpty DEF Init, Fifo!Init, NoClaim
<1> QED
  BY <1>1, StepRefines, Invariance, PTL DEF Spec, FifoSpec, Fifo!Spec
=============================================================================
