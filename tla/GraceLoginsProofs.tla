-------------------------- MODULE GraceLoginsProofs --------------------------
(***************************************************************************)
(* Proofs about GraceLogins, for any number of users, sessions,            *)
(* connections and password changes.                                       *)
(***************************************************************************)
EXTENDS GraceLogins, FiniteSetTheorems, TLAPS

USE DEF history

Open(s) == txn[s] # Idle

TypeInv ==
    /\ TypeOK
    /\ Cardinality(Occupied(prepared)) <= Capacity
    /\ wpc # "apply" => prepared = Empty

\* The user's advisory lock has one holder, and no transaction that wrote is open
\* between the read of a hydration and its end.
LocksInv ==
    /\ \A s, t \in Session : Open(s) /\ Open(t) /\ txn[s].user = txn[t].user => s = t
    /\ wpc = "apply" => \A s \in Session : ~Open(s)

\* The password of this generation is, or was, the user's.
Has(u, g) ==
    \/ rows[u].gen = g \/ cached[u].gen = g \/ prepared[u].gen = g
    \/ \E s \in Session : Open(s) /\ txn[s].user = u /\ txn[s].row.gen = g
    \/ \E i \in DOMAIN queue : queue[i].user = u /\ queue[i].gen = g

OneOwner ==
    /\ \A u \in User, g \in Generation : Has(u, g) => g <= changes
    /\ \A u, v \in User, g \in Generation : Has(u, g) /\ Has(v, g) => u = v

\* No login has been admitted or recorded under the generation.
Fresh(g) ==
    /\ consumed[g] = 0 /\ kept[g] = 0
    /\ \A i \in DOMAIN queue : queue[i].gen # g
    /\ \A u \in User : cached[u].gen # g

\* A generation that is not given out or not in the cache yet is fresh.
FreshInv ==
    /\ \A g \in Generation : g > changes => Fresh(g)
    /\ \A s \in Session : Open(s) /\ txn[s].row # None =>
          Fresh(txn[s].row.gen) /\ txn[s].row.grace = Grant

RowInv == LocksInv /\ OneOwner /\ FreshInv /\ RowCountsPersisted

\* Where hydration does not overlap unrecorded grace logins and every user has a
\* slot: each entry has what its password has left, of the row's password, save what
\* was recorded and not counted.
QueueEmpty == Hydrating => queue = <<>>
StateKnown == state # "Overflow" /\ (~Hydrating => state # "NotReady")
ReadStands == wpc = "apply" => prepared = rows
EntryCounts == \A u \in User : cached[u] # None =>
                  LET g == cached[u].gen
                  IN  /\ cached[u].grace + consumed[g] <= Grant
                      /\ cached[u].grace + consumed[g] + kept[g] >= Grant
CommittedIsRow == \A s \in Session : Open(s) /\ txn[s].pc = "committed" =>
                    rows[txn[s].user].gen = txn[s].row.gen
SamePassword == state # "NotReady" =>
                  \A u \in User : Settled(u) => cached[u].gen = rows[u].gen

CacheInv ==
    /\ QueueEmpty /\ StateKnown /\ ReadStands
    /\ CommittedIsRow /\ EntryCounts /\ SamePassword /\ GrantRespected

----------------------------------------------------------------------------
(* Counting the events of the queue. *)

Where(q, e) == {i \in DOMAIN q : q[i] = e}
CountOf(q, e) == Cardinality(Where(q, e))

LEMMA CountType ==
    ASSUME NEW q \in Seq(Event), NEW e
    PROVE  IsFiniteSet(Where(q, e)) /\ CountOf(q, e) \in Nat
<1>1. Where(q, e) \in SUBSET (1 .. Len(q)) /\ Len(q) \in Int
  BY DEF Where
<1>2. IsFiniteSet(1 .. Len(q))
  BY <1>1, FS_Interval
<1>3. IsFiniteSet(Where(q, e))
  BY <1>1, <1>2, FS_Subset
<1> QED
  BY <1>3, FS_CardinalityType DEF CountOf

LEMMA CountAppend ==
    ASSUME NEW q \in Seq(Event), NEW new \in Event, NEW e
    PROVE  CountOf(Append(q, new), e) = CountOf(q, e) + (IF new = e THEN 1 ELSE 0)
<1> DEFINE n == Len(q) + 1
<1>1. /\ n \in Nat /\ DOMAIN q = 1 .. n - 1 /\ DOMAIN Append(q, new) = 1 .. n
      /\ Append(q, new)[n] = new
      /\ \A i \in 1 .. n - 1 : Append(q, new)[i] = q[i]
  OBVIOUS
<1> HIDE DEF n
<1>2. IsFiniteSet(Where(q, e)) /\ n \notin Where(q, e)
  <2>1. n \notin DOMAIN q
    BY <1>1
  <2>2. IsFiniteSet(Where(q, e))
    BY CountType
  <2> QED
    BY <2>1, <2>2 DEF Where
<1>3. Where(Append(q, new), e) = Where(q, e) \cup (IF new = e THEN {n} ELSE {})
  BY <1>1 DEF Where
<1>4. CASE new = e
  <2>1. Where(Append(q, new), e) = Where(q, e) \cup {n}
    BY <1>3, <1>4
  <2> QED
    BY <1>2, <1>4, <2>1, FS_AddElement DEF CountOf
<1>5. CASE new # e
  <2>1. Where(Append(q, new), e) = Where(q, e)
    BY <1>3, <1>5
  <2> QED
    BY <1>5, <2>1, CountType DEF CountOf
<1> QED
  BY <1>4, <1>5

LEMMA CountTail ==
    ASSUME NEW q \in Seq(Event), q # <<>>, NEW e
    PROVE  CountOf(Tail(q), e) = CountOf(q, e) - (IF Head(q) = e THEN 1 ELSE 0)
<1> DEFINE n == Len(q)
           later == Where(q, e) \ {1}
           f == [i \in Where(Tail(q), e) |-> i + 1]
<1>1. /\ n \in Nat /\ n >= 1 /\ DOMAIN q = 1 .. n /\ DOMAIN Tail(q) = 1 .. n - 1
      /\ \A i \in 1 .. n - 1 : Tail(q)[i] = q[i + 1]
      /\ Head(q) = q[1] /\ Tail(q) \in Seq(Event)
  OBVIOUS
<1> HIDE DEF n
<1>2. \A i \in Where(Tail(q), e) : i \in Nat /\ i + 1 \in later
  BY <1>1 DEF Where
<1>3. \A j \in later : j - 1 \in Where(Tail(q), e) /\ j = (j - 1) + 1
  BY <1>1 DEF Where
<1>4. f \in [Where(Tail(q), e) -> later]
  BY <1>2
<1>5. f \in Bijection(Where(Tail(q), e), later)
  <2>1. \A i, j \in Where(Tail(q), e) : f[i] = f[j] => i = j
    BY <1>2
  <2>2. \A j \in later : \E i \in Where(Tail(q), e) : f[i] = j
    BY <1>3
  <2> HIDE DEF f, later
  <2>3. f \in Injection(Where(Tail(q), e), later)
    BY <1>4, <2>1 DEF Injection, IsInjective
  <2>4. f \in Surjection(Where(Tail(q), e), later)
    BY <1>4, <2>2 DEF Surjection
  <2> QED
    BY <2>3, <2>4 DEF Bijection
<1>6. IsFiniteSet(Where(Tail(q), e)) /\ IsFiniteSet(Where(q, e))
  BY <1>1, CountType
<1>7. Cardinality(later) = CountOf(Tail(q), e)
  <2> HIDE DEF later, f
  <2>1. ExistsBijection(Where(Tail(q), e), later)
    BY <1>5 DEF ExistsBijection
  <2> QED
    BY <1>6, <2>1, FS_Bijection DEF CountOf
<1>8. Cardinality(later) = IF 1 \in Where(q, e) THEN CountOf(q, e) - 1 ELSE CountOf(q, e)
  BY <1>6, FS_RemoveElement DEF CountOf
<1>9. 1 \in Where(q, e) <=> Head(q) = e
  BY <1>1 DEF Where
<1>10. CountOf(q, e) \in Nat
  BY CountType
<1> QED
  BY <1>7, <1>8, <1>9, <1>10

LEMMA CountNone ==
    ASSUME NEW q \in Seq(Event), NEW e, \A i \in DOMAIN q : q[i] # e
    PROVE  CountOf(q, e) = 0
<1>1. Where(q, e) = {}
  BY DEF Where
<1> QED
  BY <1>1, FS_EmptySet DEF CountOf

----------------------------------------------------------------------------
(* The steps, transaction by transaction, and the slots of the cache. *)

OthersKeep(s) == \A t \in Session \ {s} : txn'[t] = txn[t]

LEMMA EmptyType == None \notin Row /\ Empty \in [User -> Row \cup {None}]
BY GraceAssumption DEF None, Row, Generation, Empty

LEMMA RowGen ==
    ASSUME NEW r \in Row \cup {None}
    PROVE  /\ r = None <=> r.gen = 0
           /\ r # None => r \in Row /\ r.gen \in Generation /\ r.grace \in 0 .. Grant
           /\ r.gen \in Nat /\ r.grace \in Nat
BY GraceAssumption DEF None, Row, Generation

LEMMA ChangeFields ==
    ASSUME TypeOK, NEW s \in Session, ChangePassword(s)
    PROVE  /\ ~Open(s) /\ txn' \in [Session -> Txn \cup {Idle}] /\ OthersKeep(s)
           /\ Open(s)' /\ txn'[s].pc = "staged" /\ txn'[s].user \in User
           /\ txn'[s].row \in Row \cup {None}
           /\ txn'[s].row \in {None, [gen |-> changes + 1, grace |-> Grant]}
           /\ \A t \in Session : Open(t) => txn[t].user # txn'[s].user
           /\ changes' = changes + 1 /\ changes' \in Generation
<1>1. changes' = changes + 1 /\ changes' \in Generation
  BY GraceAssumption DEF TypeOK, ChangePassword, Generation
<1>2. PICK u \in User, row \in {None, [gen |-> changes', grace |-> Grant]} :
         /\ Holders(u) = {}
         /\ txn' = [txn EXCEPT ![s] = [pc |-> "staged", user |-> u, row |-> row]]
  BY DEF ChangePassword
<1>3. row \in Row \cup {None}
  BY <1>1, GraceAssumption DEF Row
<1> DEFINE t == [pc |-> "staged", user |-> u, row |-> row]
<1>4. t \in Txn /\ t # Idle
  BY <1>3 DEF Txn, Idle
<1>5. txn'[s] = t /\ OthersKeep(s) /\ txn' \in [Session -> Txn \cup {Idle}]
  BY <1>2, <1>4 DEF TypeOK, OthersKeep
<1>6. \A v \in Session : Open(v) => txn[v].user # u
  BY <1>2 DEF Holders, Open
<1>7. ~Open(s)
  BY DEF ChangePassword, Open
<1> QED
  BY <1>1, <1>2, <1>3, <1>4, <1>5, <1>6, <1>7 DEF Open

LEMMA OpenIsTxn ==
    ASSUME TypeOK, NEW s \in Session, Open(s)
    PROVE  /\ txn[s] \in Txn /\ txn[s].user \in User /\ txn[s].row \in Row \cup {None}
           /\ txn[s].pc \in {"staged", "committed"}
BY DEF TypeOK, Open, Txn

LEMMA CommitFields ==
    ASSUME TypeOK, NEW s \in Session, CommitRow(s)
    PROVE  /\ Open(s) /\ txn' \in [Session -> Txn \cup {Idle}] /\ OthersKeep(s)
           /\ Open(s)' /\ txn'[s].pc = "committed" /\ txn'[s].user = txn[s].user
           /\ txn'[s].row = txn[s].row
<1>1. Open(s) /\ txn[s] \in Txn
  BY OpenIsTxn DEF CommitRow, Open
<1> DEFINE t == [txn[s] EXCEPT !.pc = "committed"]
<1>2. t \in Txn /\ t # Idle
  BY <1>1 DEF Txn, Idle
<1>3. txn' = [txn EXCEPT ![s] = t]
  BY DEF CommitRow
<1>4. txn'[s] = t /\ OthersKeep(s) /\ txn' \in [Session -> Txn \cup {Idle}]
  BY <1>2, <1>3 DEF TypeOK, OthersKeep
<1> QED
  BY <1>1, <1>2, <1>4 DEF Txn, Open

LEMMA EndFields ==
    ASSUME TypeOK, NEW s \in Session, Abort(s) \/ CommitCallback(s)
    PROVE  /\ Open(s) /\ txn' \in [Session -> Txn \cup {Idle}] /\ OthersKeep(s) /\ ~Open(s)'
<1>1. Open(s) /\ txn' = [txn EXCEPT ![s] = Idle]
  BY DEF Abort, CommitCallback, Open
<1> QED
  BY <1>1 DEF TypeOK, OthersKeep, Open

LEMMA OccupiedFinite ==
    ASSUME NEW f
    PROVE  IsFiniteSet(Occupied(f)) /\ Cardinality(Occupied(f)) \in Nat
<1>1. Occupied(f) \in SUBSET User
  BY DEF Occupied
<1>2. IsFiniteSet(Occupied(f))
  BY <1>1, FS_Subset, GraceAssumption
<1> QED
  BY <1>2, FS_CardinalityType

\* The callback changes the user's entry, or the cache has overflowed; it never
\* needs more slots than there are, and where every user has one it does not
\* overflow.
LEMMA SlotFields ==
    ASSUME TypeOK, NEW u \in User, NEW row \in Row \cup {None}, SetOrClear(u, row)
    PROVE  /\ cached' \in [User -> Row \cup {None}]
           /\ Cardinality(Occupied(cached')) <= Capacity
           /\ state' \in ExpiryCacheState
           /\ cached' \in {cached, [cached EXCEPT ![u] = row]}
           /\ Cardinality(User) <= Capacity =>
                 cached' = [cached EXCEPT ![u] = row] /\ state' = state
<1> USE GraceAssumption
<1>1. cached \in [User -> Row \cup {None}] /\ Cardinality(Occupied(cached)) <= Capacity
  BY DEF TypeOK
<1>2. IsFiniteSet(Occupied(cached)) /\ Cardinality(Occupied(cached)) \in Nat
  BY OccupiedFinite
<1>3. CASE row = None \/ Fits(u)
  <2>1. cached' = [cached EXCEPT ![u] = row] /\ state' = state
    BY <1>3 DEF SetOrClear
  <2>2. cached' \in [User -> Row \cup {None}]
    BY <1>1, <2>1
  <2>3. Cardinality(Occupied(cached')) <= Capacity
    <3>1. CASE row = None \/ cached[u] # None
      <4>1. Occupied(cached') \in SUBSET Occupied(cached)
        BY <1>1, <2>1, <3>1 DEF Occupied
      <4>2. /\ Cardinality(Occupied(cached')) <= Cardinality(Occupied(cached))
            /\ Cardinality(Occupied(cached')) \in Nat
        BY <1>2, <4>1, FS_Subset, OccupiedFinite
      <4> QED
        BY <1>1, <1>2, <4>2
    <3>2. CASE row # None /\ cached[u] = None
      <4>1. Occupied(cached') = Occupied(cached) \cup {u}
        BY <1>1, <2>1, <3>2 DEF Occupied
      <4>2. Cardinality(Occupied(cached)) < Capacity
        BY <1>3, <3>2 DEF Fits
      <4>3. Cardinality(Occupied(cached')) \in {Cardinality(Occupied(cached)),
                                               Cardinality(Occupied(cached)) + 1}
        BY <1>2, <4>1, FS_AddElement
      <4> QED
        BY <1>2, <4>2, <4>3
    <3> QED
      BY <3>1, <3>2
  <2> QED
    BY <2>1, <2>2, <2>3 DEF TypeOK
<1>4. CASE ~(row = None \/ Fits(u))
  <2>1. cached' = cached /\ state' = "Overflow"
    BY <1>4 DEF SetOrClear
  <2>2. ASSUME Cardinality(User) <= Capacity
        PROVE  FALSE
    <3>1. Occupied(cached) \in SUBSET (User \ {u})
      BY <1>4 DEF Fits, Occupied
    <3>2. /\ IsFiniteSet(User \ {u}) /\ Cardinality(User \ {u}) = Cardinality(User) - 1
          /\ Cardinality(User) \in Nat
      BY FS_RemoveElement, FS_CardinalityType
    <3>3. Cardinality(Occupied(cached)) <= Cardinality(User \ {u})
      BY <3>1, <3>2, FS_Subset
    <3> QED
      BY <1>2, <1>4, <2>2, <3>2, <3>3 DEF Fits
  <2> QED
    BY <1>1, <2>1, <2>2 DEF ExpiryCacheState
<1> QED
  BY <1>3, <1>4

\* What hydration reads: rows that fit, and all of them where every user has a slot.
LEMMA ReadFields ==
    ASSUME TypeOK, ReadRows
    PROVE  /\ prepared' \in [User -> Row \cup {None}]
           /\ Cardinality(Occupied(prepared')) <= Capacity
           /\ \A u \in User : prepared'[u] \in {rows[u], None}
           /\ Cardinality(User) <= Capacity => prepared' = rows
<1> USE GraceAssumption
<1>1. PICK loaded \in SUBSET Occupied(rows) :
         /\ Cardinality(loaded) = IF Cardinality(Occupied(rows)) > Capacity
                                  THEN Capacity ELSE Cardinality(Occupied(rows))
         /\ prepared' = [u \in User |-> IF u \in loaded THEN rows[u] ELSE None]
  BY DEF ReadRows
<1>2. rows \in [User -> Row \cup {None}]
  BY DEF TypeOK
<1>3. /\ IsFiniteSet(Occupied(rows)) /\ Cardinality(Occupied(rows)) \in Nat
      /\ IsFiniteSet(loaded) /\ Cardinality(loaded) \in Nat
      /\ Cardinality(Occupied(rows)) = Cardinality(loaded) => loaded = Occupied(rows)
  BY OccupiedFinite, FS_Subset, FS_CardinalityType
<1>4. Occupied(prepared') = loaded
  BY <1>1, <1>2 DEF Occupied
<1>5. Cardinality(loaded) <= Capacity
  BY <1>1, <1>3
<1>6. ASSUME Cardinality(User) <= Capacity
      PROVE  prepared' = rows
  <2>1. Occupied(rows) \in SUBSET User /\ IsFiniteSet(User) /\ Cardinality(User) \in Nat
    BY FS_CardinalityType DEF Occupied
  <2>2. Cardinality(Occupied(rows)) <= Cardinality(User)
    BY <2>1, FS_Subset
  <2>3. Cardinality(loaded) = Cardinality(Occupied(rows))
    BY <1>1, <1>3, <1>6, <2>1, <2>2
  <2>4. loaded = Occupied(rows)
    BY <1>3, <2>3
  <2>5. \A u \in User : prepared'[u] = rows[u]
    BY <1>1, <2>4 DEF Occupied
  <2> QED
    BY <1>1, <1>2, <2>5
<1> QED
  BY <1>1, <1>2, <1>4, <1>5, <1>6

\* A grace login with its record: it is counted (d = 1), or the append failed after
\* the record was written (d = 0).
Recorded(c) == TryConsumeGrace(c) \/ AppendFails(c)

LEMMA TakeFields ==
    ASSUME TypeOK, NEW c \in Client, Recorded(c)
    PROVE  \E u \in User, g \in Generation, d \in {0, 1} :
              /\ cached[u] \in Row /\ cached[u].gen = g /\ cached[u].grace > 0
              /\ [user |-> u, gen |-> g] \in Event
              /\ queue' = Append(queue, [user |-> u, gen |-> g])
              /\ cached' \in [User -> Row \cup {None}]
              /\ cached'[u] \in Row /\ cached'[u].gen = g
              /\ cached'[u].grace = cached[u].grace - d
              /\ \A v \in User \ {u} : cached'[v] = cached[v]
              /\ Occupied(cached') = Occupied(cached)
              /\ consumed' \in [Generation -> Nat] /\ kept' \in [Generation -> Nat]
              /\ consumed'[g] = consumed[g] + d /\ kept'[g] = kept[g] + 1 - d
              /\ \A h \in Generation \ {g} : consumed'[h] = consumed[h] /\ kept'[h] = kept[h]
<1> USE GraceAssumption
<1> DEFINE u == login[c].user
           g == cached[u].gen
<1>1. u \in User /\ cached[u] # None /\ cached[u].grace > 0
  BY DEF Recorded, TryConsumeGrace, AppendFails, Entitled, WithGrace, Expired, TypeOK, Login
<1>2. /\ cached \in [User -> Row \cup {None}]
      /\ consumed \in [Generation -> Nat] /\ kept \in [Generation -> Nat]
  BY DEF TypeOK
<1>3. cached[u] \in Row /\ g \in Generation /\ cached[u].grace \in 0 .. Grant
  BY <1>1, <1>2, RowGen
<1>4. [user |-> u, gen |-> g] \in Event
  BY <1>1, <1>3 DEF Event
<1>5. CASE TryConsumeGrace(c)
  <2>1. /\ queue' = Append(queue, [user |-> u, gen |-> g])
        /\ cached' = [cached EXCEPT ![u].grace = @ - 1]
        /\ consumed' = [consumed EXCEPT ![g] = @ + 1] /\ kept' = kept
    BY <1>5 DEF TryConsumeGrace, Take, Journaled
  <2> HIDE DEF u
  <2>2. /\ cached' = [cached EXCEPT ![u] = [cached[u] EXCEPT !.grace = cached[u].grace - 1]]
    BY <2>1
  <2>3. [cached[u] EXCEPT !.grace = cached[u].grace - 1] \in Row
    BY <1>1, <1>3 DEF Row
  <2>4. /\ cached' \in [User -> Row \cup {None}] /\ cached'[u] \in Row /\ cached'[u].gen = g
        /\ cached'[u].grace = cached[u].grace - 1
        /\ \A v \in User \ {u} : cached'[v] = cached[v]
    BY <1>1, <1>2, <1>3, <2>2, <2>3 DEF Row
  <2>5. Occupied(cached') = Occupied(cached)
    BY <1>1, <2>4, EmptyType DEF Occupied
  <2>6. /\ consumed' \in [Generation -> Nat] /\ consumed'[g] = consumed[g] + 1
        /\ \A h \in Generation \ {g} : consumed'[h] = consumed[h]
        /\ kept' \in [Generation -> Nat] /\ kept'[g] = kept[g] + 1 - 1
    BY <1>2, <1>3, <2>1
  <2> HIDE DEF g
  <2> QED
    BY <1>1, <1>3, <1>4, <2>1, <2>4, <2>5, <2>6 DEF g
<1>6. CASE AppendFails(c)
  <2>1. /\ queue' = Append(queue, [user |-> u, gen |-> g]) /\ cached' = cached
        /\ kept' = [kept EXCEPT ![g] = @ + 1] /\ consumed' = consumed
    BY <1>6 DEF AppendFails, Journaled, cache
  <2>2. /\ kept' \in [Generation -> Nat] /\ kept'[g] = kept[g] + 1 - 0
        /\ \A h \in Generation \ {g} : kept'[h] = kept[h]
    BY <1>2, <1>3, <2>1
  <2>3. consumed'[g] = consumed[g] + 0 /\ cached'[u].grace = cached[u].grace - 0
    BY <1>2, <1>3, <2>1
  <2> HIDE DEF u, g
  <2> QED
    BY <1>1, <1>2, <1>3, <1>4, <2>1, <2>2, <2>3 DEF g
<1> QED
  BY <1>5, <1>6 DEF Recorded

\* The replay of an event that is not refused.
Replayed(e) ==
    /\ queue # <<>> /\ e = Head(queue) /\ e \in Event /\ queue' = Tail(queue)
    /\ rows' \in [User -> Row \cup {None}]
    /\ \A v \in User \ {e.user} : rows'[v] = rows[v]
    /\ rows'[e.user].gen = rows[e.user].gen
    /\ rows[e.user].gen # e.gen => rows'[e.user] = rows[e.user]
    /\ rows[e.user].gen = e.gen => rows'[e.user].grace = rows[e.user].grace - 1

LEMMA PersistFields ==
    ASSUME TypeOK, PersistGrace
    PROVE  UNCHANGED <<rows, queue>> \/ \E e \in Event : Replayed(e)
<1> USE GraceAssumption
<1> DEFINE e == Head(queue)
           row == rows[e.user]
<1>1. queue # <<>> /\ queue \in Seq(Event)
  BY DEF PersistGrace, CanReplay, TypeOK
<1>2. e \in Event /\ e.user \in User /\ e.gen \in Generation
  <2>1. e \in Event
    BY <1>1
  <2> HIDE DEF e
  <2> QED
    BY <2>1 DEF Event
<1>3. rows \in [User -> Row \cup {None}] /\ row \in Row \cup {None}
  BY <1>2 DEF TypeOK
<1>4. CASE Contradicted(row, e)
  BY <1>4 DEF PersistGrace, RollBack
<1>5. CASE ~Contradicted(row, e)
  <2>1. /\ rows' = IF Matches(row, e) THEN [rows EXCEPT ![e.user].grace = @ - 1] ELSE rows
        /\ queue' = Tail(queue)
    BY <1>5 DEF PersistGrace
  <2> HIDE DEF e, row
  <2>2. CASE Matches(row, e)
    <3>1. row \in Row /\ row.gen = e.gen /\ row.grace \in 1 .. Grant
      BY <1>3, <1>5, <2>2, RowGen DEF Matches, Contradicted
    <3>2. rows' = [rows EXCEPT ![e.user] = [row EXCEPT !.grace = row.grace - 1]]
      BY <2>1, <2>2 DEF row
    <3>3. [row EXCEPT !.grace = row.grace - 1] \in Row
      BY <3>1 DEF Row
    <3>4. Replayed(e)
      BY <1>1, <1>2, <1>3, <2>1, <3>1, <3>2, <3>3 DEF Replayed, Row, e, row
    <3> QED
      BY <1>2, <3>4
  <2>3. CASE ~Matches(row, e)
    <3>1. rows' = rows /\ row.gen # e.gen
      BY <1>2, <1>3, <2>1, <2>3, RowGen DEF Matches, Generation
    <3>2. Replayed(e)
      BY <1>1, <1>2, <1>3, <2>1, <3>1 DEF Replayed, e, row
    <3> QED
      BY <1>2, <3>2
  <2> QED
    BY <2>2, <2>3
<1> QED
  BY <1>4, <1>5

----------------------------------------------------------------------------
(* Types. *)

LEMMA TypeInvInit == Init => TypeInv
<1> SUFFICES ASSUME Init
             PROVE  TypeInv
  OBVIOUS
<1>1. failed \in BOOLEAN /\ degraded \in BOOLEAN
  BY Zenon DEF Init
<1>2. Occupied(Empty) = {}
  BY DEF Occupied, Empty
<1>3. Cardinality(Occupied(Empty)) <= Capacity
  BY <1>2, GraceAssumption, FS_EmptySet
<1>4. changes \in 0 .. MaxChanges /\ lapsed \subseteq 1 .. changes /\ faults \in 0 .. MaxFaults
  BY GraceAssumption DEF Init
<1>5. /\ consumed \in [Generation -> Nat] /\ kept \in [Generation -> Nat]
      /\ queue \in Seq(Event)
  BY DEF Init
<1>6. /\ txn \in [Session -> Txn \cup {Idle}] /\ login \in [Client -> Login \cup {Idle}]
      /\ state \in ExpiryCacheState /\ wpc \in WorkerPC /\ wpc # "apply"
  BY DEF Init, ExpiryCacheState, WorkerPC
<1> QED
  BY <1>1, <1>3, <1>4, <1>5, <1>6, EmptyType DEF Init, TypeInv, TypeOK

LEMMA TypeInvStep ==
    ASSUME TypeInv, [Next]_vars
    PROVE  TypeInv'
<1> USE GraceAssumption
<1>0. TypeOK
  BY DEF TypeInv
<1>1. ASSUME NEW s \in Session, ChangePassword(s)
      PROVE  TypeInv'
  <2>1. txn' \in [Session -> Txn \cup {Idle}] /\ changes' = changes + 1 /\ changes' \in Generation
    BY <1>0, <1>1, ChangeFields
  <2>2. changes' \in 0 .. MaxChanges /\ lapsed' \subseteq 1 .. changes'
    BY <1>0, <1>1, <2>1 DEF TypeOK, ChangePassword, Generation
  <2>3. UNCHANGED <<rows, login, cached, state, queue, wpc, prepared, failed, degraded,
                    history, faults>>
    BY <1>1 DEF ChangePassword, cache, worker
  <2> QED
    BY <1>0, <2>1, <2>2, <2>3 DEF TypeInv, TypeOK
<1>2. ASSUME NEW s \in Session, Abort(s)
      PROVE  TypeInv'
  <2>1. txn' \in [Session -> Txn \cup {Idle}]
    BY <1>0, <1>2, EndFields
  <2> QED
    BY <1>0, <1>2, <2>1 DEF Abort, cache, worker, TypeInv, TypeOK
<1>3. ASSUME NEW s \in Session, CommitRow(s)
      PROVE  TypeInv'
  <2>1. txn' \in [Session -> Txn \cup {Idle}] /\ Open(s)
    BY <1>0, <1>3, CommitFields
  <2>2. rows' \in [User -> Row \cup {None}]
    BY <1>0, <1>3, <2>1, OpenIsTxn DEF CommitRow, TypeOK
  <2> QED
    BY <1>0, <1>3, <2>1, <2>2 DEF CommitRow, cache, worker, TypeInv, TypeOK
<1>4. ASSUME NEW s \in Session, CommitCallback(s)
      PROVE  TypeInv'
  <2>1. txn' \in [Session -> Txn \cup {Idle}] /\ Open(s)
    BY <1>0, <1>4, EndFields
  <2>2. SetOrClear(txn[s].user, txn[s].row)
    BY <1>4 DEF CommitCallback
  <2>3. /\ cached' \in [User -> Row \cup {None}]
        /\ Cardinality(Occupied(cached')) <= Capacity
        /\ state' \in ExpiryCacheState
    BY <1>0, <2>1, <2>2, OpenIsTxn, SlotFields
  <2> QED
    BY <1>0, <1>4, <2>1, <2>3 DEF CommitCallback, worker, TypeInv, TypeOK
<1>5. ASSUME NEW c \in Client, Lookup(c)
      PROVE  TypeInv'
  <2>1. login' \in [Client -> Login \cup {Idle}]
    BY <1>0, <1>5 DEF Lookup, TypeOK, Login, Generation
  <2> QED
    BY <1>0, <1>5, <2>1 DEF Lookup, cache, worker, TypeInv, TypeOK
<1>6. ASSUME NEW c \in Client, Recorded(c)
      PROVE  TypeInv'
  <2>1. PICK e \in Event :
           /\ queue' = Append(queue, e)
           /\ cached' \in [User -> Row \cup {None}]
           /\ Occupied(cached') = Occupied(cached)
           /\ consumed' \in [Generation -> Nat] /\ kept' \in [Generation -> Nat]
    BY <1>0, <1>6, TakeFields
  <2>2. queue' \in Seq(Event) /\ login' \in [Client -> Login \cup {Idle}]
    <3>1. login' = [login EXCEPT ![c] = Idle]
      BY <1>6 DEF Recorded, TryConsumeGrace, AppendFails
    <3> QED
      BY <1>0, <2>1, <3>1 DEF TypeOK
  <2>3. Cardinality(Occupied(cached')) <= Capacity
    BY <1>0, <2>1 DEF TypeOK
  <2>4. /\ faults' \in 0 .. MaxFaults
        /\ UNCHANGED <<changes, lapsed, rows, txn, state, wpc, prepared, failed, degraded>>
    BY <1>0, <1>6 DEF Recorded, TryConsumeGrace, AppendFails, Fault, worker, cache, TypeOK
  <2> QED
    BY <1>0, <2>1, <2>2, <2>3, <2>4 DEF TypeInv, TypeOK
<1>7. ASSUME NEW c \in Client, NothingConsumed(c)
      PROVE  TypeInv'
  BY <1>0, <1>7 DEF NothingConsumed, cache, worker, TypeInv, TypeOK
<1>8. CASE PersistGrace
  <2>1. rows' \in [User -> Row \cup {None}] /\ queue' \in Seq(Event)
    <3>1. UNCHANGED <<rows, queue>> \/ \E e \in Event : Replayed(e)
      BY <1>0, <1>8, PersistFields
    <3>2. CASE UNCHANGED <<rows, queue>>
      BY <1>0, <3>2 DEF TypeOK
    <3>3. ASSUME NEW e \in Event, Replayed(e)
          PROVE  rows' \in [User -> Row \cup {None}] /\ queue' \in Seq(Event)
      BY <1>0, <3>3 DEF TypeOK, Replayed
    <3> QED
      BY <3>1, <3>2, <3>3
  <2>2. failed' \in BOOLEAN
    BY <1>0, <1>8, Zenon DEF PersistGrace, RollBack, TypeOK
  <2>3. wpc' \in WorkerPC /\ wpc' # "apply" /\ wpc # "apply"
    BY <1>8 DEF PersistGrace, CanReplay, RollBack, WorkerPC
  <2>4. UNCHANGED <<changes, lapsed, txn, login, cached, state, prepared, degraded,
                    history, faults>>
    BY <1>8 DEF PersistGrace, cache
  <2> QED
    BY <1>0, <2>1, <2>2, <2>3, <2>4 DEF TypeInv, TypeOK
<1>9. CASE ReadRows
  <2>1. /\ prepared' \in [User -> Row \cup {None}]
        /\ Cardinality(Occupied(prepared')) <= Capacity
    BY <1>0, <1>9, ReadFields
  <2> QED
    BY <1>0, <1>9, <2>1 DEF ReadRows, cache, TypeInv, TypeOK, WorkerPC
<1>10. Cardinality(Occupied(Empty)) <= Capacity
  <2>1. Occupied(Empty) = {}
    BY DEF Occupied, Empty
  <2> QED
    BY <2>1, FS_EmptySet
<1>11. CASE ApplyHydrated
  <2>1. state' \in ExpiryCacheState /\ wpc' \in WorkerPC
    BY <1>11 DEF ApplyHydrated, ExpiryCacheState, WorkerPC
  <2>2. cached' = prepared /\ prepared' = Empty
    BY <1>11 DEF ApplyHydrated
  <2> QED
    BY <1>0, <1>10, <1>11, <2>1, <2>2, EmptyType DEF ApplyHydrated, TypeInv, TypeOK
<1>12. CASE HydrationFails
  BY <1>0, <1>10, <1>12, EmptyType
     DEF HydrationFails, Fault, TypeInv, TypeOK, ExpiryCacheState, WorkerPC
<1>13. CASE Rehydrate \/ Crash
  <2>1. failed' \in BOOLEAN /\ degraded' \in BOOLEAN
    BY <1>13, Zenon DEF Rehydrate, Crash, LeaveLoop
  <2>2. wpc' = "hydrate" /\ prepared' = Empty /\ faults' \in 0 .. MaxFaults
    BY <1>0, <1>13 DEF Rehydrate, Crash, LeaveLoop, Fault, TypeOK
  <2>3. /\ txn' \in [Session -> Txn \cup {Idle}] /\ login' \in [Client -> Login \cup {Idle}]
    BY <1>0, <1>13 DEF Rehydrate, Crash, TypeOK
  <2>4. /\ cached' \in {cached, Empty} /\ state' \in {state, "NotReady"}
        /\ UNCHANGED <<changes, lapsed, rows, queue, history>>
    BY <1>13 DEF Rehydrate, Crash, cache
  <2>5. /\ cached' \in [User -> Row \cup {None}]
        /\ Cardinality(Occupied(cached')) <= Capacity
        /\ state' \in ExpiryCacheState
    BY <1>0, <1>10, <2>4, EmptyType DEF TypeOK, ExpiryCacheState
  <2> QED
    BY <1>0, <1>10, <2>1, <2>2, <2>3, <2>4, <2>5, EmptyType DEF TypeInv, TypeOK, WorkerPC
<1>14. CASE EventFails \/ Mark \/ MarkFailed \/ Restore \/ RestoreReady
  <2>1. failed' \in BOOLEAN /\ degraded' \in BOOLEAN
    BY <1>0, <1>14, Zenon
       DEF EventFails, RollBack, Mark, MarkFailed, Restore, RestoreReady, TypeOK
  <2>2. /\ UNCHANGED <<changes, lapsed, rows, txn, login, cached, queue, prepared, history>>
        /\ state' \in {state, "WorkerFailed", "Ready"}
    BY <1>14 DEF EventFails, RollBack, Mark, MarkFailed, Restore, RestoreReady, cache
  <2>3. wpc' \in WorkerPC /\ wpc' # "apply" /\ wpc # "apply"
    BY <1>14 DEF EventFails, RollBack, Mark, MarkFailed, Restore, RestoreReady, WorkerPC
  <2>4. faults' \in 0 .. MaxFaults
    BY <1>0, <1>14 DEF EventFails, Fault, Mark, MarkFailed, Restore, RestoreReady, TypeOK
  <2> QED
    BY <1>0, <2>1, <2>2, <2>3, <2>4 DEF TypeInv, TypeOK, ExpiryCacheState
<1>15. CASE Expire \/ UNCHANGED vars
  BY <1>0, <1>15 DEF Expire, vars, cache, worker, TypeInv, TypeOK
<1> QED
  BY <1>1, <1>2, <1>3, <1>4, <1>5, <1>6, <1>7, <1>8, <1>9, <1>11, <1>12, <1>13, <1>14, <1>15
     DEF Next, WorkerStep, Recorded

\* The cache never has more entries than slots, no allowance goes below zero, and
\* every value keeps its type.
THEOREM TypeCorrect == Spec => []TypeOK
<1>1. TypeInv /\ [Next]_vars => TypeInv'
  BY TypeInvStep
<1>2. TypeInv => TypeOK
  BY DEF TypeInv
<1> QED
  BY <1>1, <1>2, TypeInvInit, PTL DEF Spec

----------------------------------------------------------------------------
(* The rows: what holds for every capacity, and when hydration overlaps. *)

\* What the other steps leave alone.
Quiet ==
    \/ Expire
    \/ \E c \in Client : Lookup(c) \/ NothingConsumed(c)
    \/ EventFails \/ Mark \/ MarkFailed \/ Restore \/ RestoreReady
    \/ UNCHANGED vars

LEMMA QuietFields ==
    ASSUME Quiet
    PROVE  /\ UNCHANGED <<changes, rows, txn, cached, queue, prepared, history>>
           /\ wpc' = wpc \/ wpc' # "apply"
BY DEF Quiet, Expire, Lookup, NothingConsumed, EventFails, RollBack, Mark, MarkFailed,
       Restore, RestoreReady, vars, cache, worker

\* The steps, as the proofs below take them.
LEMMA Steps ==
    ASSUME [Next]_vars
    PROVE  \/ \E s \in Session : ChangePassword(s) \/ Abort(s) \/ CommitRow(s)
                                  \/ CommitCallback(s)
           \/ \E c \in Client : Recorded(c)
           \/ PersistGrace \/ ReadRows \/ ApplyHydrated
           \/ HydrationFails \/ Rehydrate \/ Crash
           \/ Quiet
BY DEF Next, WorkerStep, Quiet, Recorded

LEMMA LeaveFields ==
    ASSUME HydrationFails \/ Rehydrate \/ Crash
    PROVE  /\ UNCHANGED <<changes, rows, queue, history>>
           /\ wpc' = "hydrate" /\ prepared' = Empty
           /\ cached' \in {cached, Empty}
           /\ txn' = txn \/ \A s \in Session : ~Open(s)'
BY DEF HydrationFails, Rehydrate, Crash, LeaveLoop, cache, Open

LEMMA LocksStep ==
    ASSUME TypeInv, LocksInv, [Next]_vars
    PROVE  LocksInv'
<1>0. TypeOK
  BY DEF TypeInv
<1>1. ASSUME NEW s \in Session, ChangePassword(s)
      PROVE  LocksInv'
  <2>1. wpc' = wpc /\ wpc # "apply"
    BY <1>1 DEF ChangePassword, worker
  <2>2. /\ OthersKeep(s) /\ \A t \in Session : Open(t) => txn[t].user # txn'[s].user
    BY <1>0, <1>1, ChangeFields
  <2> QED
    BY <2>1, <2>2 DEF LocksInv, OthersKeep, Open
<1>2. ASSUME NEW s \in Session, CommitRow(s)
      PROVE  LocksInv'
  <2>1. wpc' = wpc
    BY <1>2 DEF CommitRow, worker
  <2>2. OthersKeep(s) /\ Open(s) /\ txn'[s].user = txn[s].user
    BY <1>0, <1>2, CommitFields
  <2> QED
    BY <2>1, <2>2 DEF LocksInv, OthersKeep, Open
<1>3. ASSUME NEW s \in Session, Abort(s) \/ CommitCallback(s)
      PROVE  LocksInv'
  <2>1. wpc' = wpc
    BY <1>3 DEF Abort, CommitCallback, worker
  <2>2. OthersKeep(s) /\ ~Open(s)'
    BY <1>0, <1>3, EndFields
  <2> QED
    BY <2>1, <2>2 DEF LocksInv, OthersKeep, Open
<1>4. ASSUME NEW c \in Client, Recorded(c)
      PROVE  LocksInv'
  BY <1>4 DEF Recorded, TryConsumeGrace, AppendFails, worker, LocksInv, Open
<1>5. CASE PersistGrace \/ ApplyHydrated \/ Quiet
  <2>1. txn' = txn /\ (wpc' = wpc \/ wpc' # "apply")
    BY <1>5, QuietFields DEF PersistGrace, RollBack, ApplyHydrated
  <2> QED
    BY <2>1 DEF LocksInv, Open
<1>6. CASE ReadRows
  BY <1>6 DEF ReadRows, CanLockTable, LocksInv, Open
<1>7. CASE HydrationFails \/ Rehydrate \/ Crash
  BY <1>7, LeaveFields DEF LocksInv, Open
<1> QED
  BY <1>1, <1>2, <1>3, <1>4, <1>5, <1>6, <1>7, Steps

\* Only a password change brings a generation into the system.
LEMMA HasStep ==
    ASSUME TypeInv, [Next]_vars, ~\E s \in Session : ChangePassword(s)
    PROVE  /\ changes' = changes
           /\ \A u \in User, g \in Generation : Has(u, g)' => Has(u, g)
<1>0. TypeOK
  BY DEF TypeInv
<1>1. ASSUME NEW s \in Session, CommitRow(s)
      PROVE  /\ changes' = changes
             /\ \A u \in User, g \in Generation : Has(u, g)' => Has(u, g)
  <2>1. /\ OthersKeep(s) /\ Open(s) /\ Open(s)' /\ txn'[s].user = txn[s].user
        /\ txn'[s].row = txn[s].row
    BY <1>0, <1>1, CommitFields
  <2>2. txn[s].user \in User
    BY <1>0, <2>1, OpenIsTxn
  <2>3. /\ rows'[txn[s].user] = txn[s].row
        /\ \A u \in User \ {txn[s].user} : rows'[u] = rows[u]
        /\ UNCHANGED <<changes, cached, queue, prepared>>
    BY <1>0, <1>1, <2>2 DEF CommitRow, cache, worker, TypeOK
  <2> QED
    BY <2>1, <2>2, <2>3 DEF Has, OthersKeep, Open
<1>2. ASSUME NEW s \in Session, Abort(s)
      PROVE  /\ changes' = changes
             /\ \A u \in User, g \in Generation : Has(u, g)' => Has(u, g)
  <2>1. OthersKeep(s) /\ ~Open(s)'
    BY <1>0, <1>2, EndFields
  <2>2. UNCHANGED <<changes, rows, cached, queue, prepared>>
    BY <1>2 DEF Abort, cache, worker
  <2> QED
    BY <2>1, <2>2 DEF Has, OthersKeep, Open
<1>3. ASSUME NEW s \in Session, CommitCallback(s)
      PROVE  /\ changes' = changes
             /\ \A u \in User, g \in Generation : Has(u, g)' => Has(u, g)
  <2>1. Open(s) /\ OthersKeep(s) /\ ~Open(s)'
    BY <1>0, <1>3, EndFields
  <2>2. txn[s].user \in User /\ txn[s].row \in Row \cup {None}
    BY <1>0, <2>1, OpenIsTxn
  <2>3. SetOrClear(txn[s].user, txn[s].row) /\ UNCHANGED <<changes, rows, queue, prepared>>
    BY <1>3 DEF CommitCallback, worker
  <2>4. cached' \in {cached, [cached EXCEPT ![txn[s].user] = txn[s].row]}
    BY <1>0, <2>2, <2>3, SlotFields
  <2>5. \A u \in User : cached'[u] = cached[u] \/ (u = txn[s].user /\ cached'[u] = txn[s].row)
    BY <1>0, <2>2, <2>4 DEF TypeOK
  <2> QED
    BY <2>1, <2>3, <2>5 DEF Has, OthersKeep, Open
<1>4. ASSUME NEW c \in Client, Recorded(c)
      PROVE  /\ changes' = changes
             /\ \A u \in User, g \in Generation : Has(u, g)' => Has(u, g)
  <2>1. PICK w \in User, h \in Generation :
           /\ cached[w].gen = h /\ cached'[w].gen = h
           /\ [user |-> w, gen |-> h] \in Event
           /\ queue' = Append(queue, [user |-> w, gen |-> h])
           /\ \A v \in User \ {w} : cached'[v] = cached[v]
    BY <1>0, <1>4, TakeFields
  <2>2. UNCHANGED <<changes, rows, txn, prepared>>
    BY <1>4 DEF Recorded, TryConsumeGrace, AppendFails, cache, worker
  <2>3. \A u \in User : cached'[u].gen = cached[u].gen
    BY <2>1
  <2>4. queue \in Seq(Event)
    BY <1>0 DEF TypeOK
  <2>5. ASSUME NEW i \in DOMAIN queue'
        PROVE  (i \in DOMAIN queue /\ queue'[i] = queue[i])
               \/ queue'[i] = [user |-> w, gen |-> h]
    BY <2>1, <2>4
  <2> QED
    BY <2>1, <2>2, <2>3, <2>5 DEF Has, Open
<1>5. CASE PersistGrace
  <2>1. UNCHANGED <<changes, txn, cached, prepared>>
    BY <1>5 DEF PersistGrace, cache
  <2>2. UNCHANGED <<rows, queue>> \/ \E e \in Event : Replayed(e)
    BY <1>0, <1>5, PersistFields
  <2>3. CASE UNCHANGED <<rows, queue>>
    BY <2>1, <2>3 DEF Has, Open
  <2>4. ASSUME NEW e \in Event, Replayed(e)
        PROVE  \A u \in User, g \in Generation : Has(u, g)' => Has(u, g)
    <3>1. \A u \in User : rows'[u].gen = rows[u].gen
      BY <2>4 DEF Replayed
    <3>2. \A i \in DOMAIN queue' : i + 1 \in DOMAIN queue /\ queue'[i] = queue[i + 1]
      BY <1>0, <2>4 DEF Replayed, TypeOK
    <3> QED
      BY <2>1, <3>1, <3>2 DEF Has, Open
  <2> QED
    BY <2>1, <2>2, <2>3, <2>4
<1>6. CASE ReadRows
  <2>1. \A u \in User : prepared'[u] \in {rows[u], None}
    BY <1>0, <1>6, ReadFields
  <2>2. UNCHANGED <<changes, rows, txn, cached, queue>>
    BY <1>6 DEF ReadRows, cache
  <2>3. None.gen \notin Generation
    BY DEF None, Generation
  <2> QED
    BY <2>1, <2>2, <2>3 DEF Has, Open
<1>7. \A u \in User : Empty[u].gen \notin Generation
  BY DEF Empty, None, Generation
<1>8. CASE ApplyHydrated
  <2>1. cached' = prepared /\ prepared' = Empty /\ UNCHANGED <<changes, rows, txn, queue>>
    BY <1>8 DEF ApplyHydrated
  <2> QED
    BY <1>7, <2>1 DEF Has, Open
<1>9. CASE HydrationFails \/ Rehydrate \/ Crash
  BY <1>7, <1>9, LeaveFields DEF Has, Open
<1>10. CASE Quiet
  BY <1>10, QuietFields DEF Has, Open
<1> QED
  BY <1>1, <1>2, <1>3, <1>4, <1>5, <1>6, <1>8, <1>9, <1>10, Steps

LEMMA OwnerStep ==
    ASSUME TypeInv, OneOwner, [Next]_vars
    PROVE  OneOwner'
<1>0. TypeOK
  BY DEF TypeInv
<1>1. CASE ~\E s \in Session : ChangePassword(s)
  BY <1>1, HasStep DEF OneOwner
<1>2. ASSUME NEW s \in Session, ChangePassword(s)
      PROVE  OneOwner'
  <2>1. /\ OthersKeep(s) /\ ~Open(s) /\ changes' = changes + 1 /\ txn'[s].user \in User
        /\ txn'[s].row \in {None, [gen |-> changes + 1, grace |-> Grant]}
    BY <1>0, <1>2, ChangeFields
  <2>2. UNCHANGED <<rows, cached, queue, prepared>> /\ changes \in Nat
    BY <1>0, <1>2, GraceAssumption DEF ChangePassword, cache, worker, TypeOK
  <2>3. txn'[s].row.gen \in {0, changes + 1}
    BY <2>1 DEF None
  <2>4. ASSUME NEW u \in User, NEW g \in Generation, Has(u, g)'
        PROVE  Has(u, g) \/ (g = changes + 1 /\ u = txn'[s].user)
    BY <2>1, <2>2, <2>3, <2>4 DEF Has, OthersKeep, Open, Generation
  <2>5. \A u \in User, g \in Generation : Has(u, g) => g <= changes
    BY DEF OneOwner
  <2>6. \A g \in Generation : g \in Nat
    BY DEF Generation
  <2>7. \A u \in User, g \in Generation : Has(u, g)' => g <= changes'
    BY <2>1, <2>2, <2>4, <2>5, <2>6
  <2>8. \A u, v \in User, g \in Generation : Has(u, g)' /\ Has(v, g)' => u = v
    BY <2>2, <2>4, <2>5, <2>6 DEF OneOwner
  <2> QED
    BY <2>7, <2>8 DEF OneOwner
<1> QED
  BY <1>1, <1>2

\* A fresh generation stays fresh until its entry reaches the cache.
LEMMA FreshKept ==
    ASSUME TypeInv, [Next]_vars, NEW g \in Generation, Fresh(g),
           \A u \in User : prepared[u].gen # g,
           \A s \in Session : CommitCallback(s) => txn[s].row.gen # g
    PROVE  Fresh(g)'
<1>0. TypeOK
  BY DEF TypeInv
<1>1. ASSUME NEW s \in Session, ChangePassword(s) \/ Abort(s) \/ CommitRow(s)
      PROVE  Fresh(g)'
  BY <1>1 DEF ChangePassword, Abort, CommitRow, cache, Fresh
<1>2. ASSUME NEW s \in Session, CommitCallback(s)
      PROVE  Fresh(g)'
  <2>1. Open(s)
    BY <1>0, <1>2, EndFields
  <2>2. txn[s].user \in User /\ txn[s].row \in Row \cup {None} /\ txn[s].row.gen # g
    BY <1>0, <1>2, <2>1, OpenIsTxn
  <2>3. SetOrClear(txn[s].user, txn[s].row) /\ UNCHANGED <<queue, history>>
    BY <1>2 DEF CommitCallback
  <2>4. cached' \in {cached, [cached EXCEPT ![txn[s].user] = txn[s].row]}
    BY <1>0, <2>2, <2>3, SlotFields
  <2>5. \A u \in User : cached'[u] = cached[u] \/ cached'[u] = txn[s].row
    BY <1>0, <2>2, <2>4 DEF TypeOK
  <2> QED
    BY <2>2, <2>3, <2>5 DEF Fresh
<1>3. ASSUME NEW c \in Client, Recorded(c)
      PROVE  Fresh(g)'
  <2>1. PICK w \in User, h \in Generation :
           /\ cached[w].gen = h /\ cached'[w].gen = h
           /\ [user |-> w, gen |-> h] \in Event
           /\ queue' = Append(queue, [user |-> w, gen |-> h])
           /\ \A v \in User \ {w} : cached'[v] = cached[v]
           /\ \A k \in Generation \ {h} : consumed'[k] = consumed[k] /\ kept'[k] = kept[k]
    BY <1>0, <1>3, TakeFields
  <2>2. h # g
    BY <2>1 DEF Fresh
  <2>3. queue \in Seq(Event)
    BY <1>0 DEF TypeOK
  <2>4. \A i \in DOMAIN queue' : (i \in DOMAIN queue /\ queue'[i] = queue[i])
                                 \/ queue'[i] = [user |-> w, gen |-> h]
    BY <2>1, <2>3
  <2> QED
    BY <2>1, <2>2, <2>4 DEF Fresh
<1>4. CASE PersistGrace
  <2>1. UNCHANGED <<cached, history>>
    BY <1>4 DEF PersistGrace, cache
  <2>2. UNCHANGED <<rows, queue>> \/ \E e \in Event : Replayed(e)
    BY <1>0, <1>4, PersistFields
  <2>3. ASSUME NEW e \in Event, Replayed(e)
        PROVE  \A i \in DOMAIN queue' : i + 1 \in DOMAIN queue /\ queue'[i] = queue[i + 1]
    BY <1>0, <2>3 DEF Replayed, TypeOK
  <2> QED
    BY <2>1, <2>2, <2>3 DEF Fresh
<1>5. CASE ReadRows
  BY <1>5 DEF ReadRows, cache, Fresh
<1>6. CASE ApplyHydrated
  BY <1>6 DEF ApplyHydrated, Fresh
<1>7. CASE HydrationFails \/ Rehydrate \/ Crash
  <2>1. \A u \in User : Empty[u].gen # g
    BY DEF Empty, None, Generation
  <2> QED
    BY <1>7, <2>1, LeaveFields DEF Fresh
<1>8. CASE Quiet
  BY <1>8, QuietFields DEF Fresh
<1> QED
  BY <1>1, <1>2, <1>3, <1>4, <1>5, <1>6, <1>7, <1>8, Steps

\* An open transaction was open with the same decision, or has just begun.
LEMMA TxnStep ==
    ASSUME TypeInv, [Next]_vars, NEW s \in Session, Open(s)'
    PROVE  \/ Open(s) /\ txn'[s].row = txn[s].row
           \/ ChangePassword(s)
<1>0. TypeOK
  BY DEF TypeInv
<1>1. ASSUME NEW t \in Session, ChangePassword(t)
      PROVE  (Open(s) /\ txn'[s].row = txn[s].row) \/ ChangePassword(s)
  <2>1. OthersKeep(t)
    BY <1>0, <1>1, ChangeFields
  <2> QED
    BY <1>1, <2>1 DEF OthersKeep, Open
<1>2. ASSUME NEW t \in Session, CommitRow(t)
      PROVE  Open(s) /\ txn'[s].row = txn[s].row
  BY <1>0, <1>2, CommitFields DEF OthersKeep, Open
<1>3. ASSUME NEW t \in Session, Abort(t) \/ CommitCallback(t)
      PROVE  Open(s) /\ txn'[s].row = txn[s].row
  BY <1>0, <1>3, EndFields DEF OthersKeep, Open
<1>4. ASSUME NEW c \in Client, Recorded(c)
      PROVE  Open(s) /\ txn'[s].row = txn[s].row
  BY <1>4 DEF Recorded, TryConsumeGrace, AppendFails, cache, Open
<1>5. CASE PersistGrace \/ ReadRows \/ ApplyHydrated \/ Quiet
  <2>1. txn' = txn
    BY <1>5, QuietFields DEF PersistGrace, ReadRows, ApplyHydrated
  <2> QED
    BY <2>1 DEF Open
<1>6. CASE HydrationFails \/ Rehydrate \/ Crash
  BY <1>6, LeaveFields DEF Open
<1> QED
  BY <1>1, <1>2, <1>3, <1>4, <1>5, <1>6, Steps

LEMMA FreshStep ==
    ASSUME TypeInv, LocksInv, OneOwner, FreshInv, [Next]_vars
    PROVE  FreshInv'
<1>0. TypeOK /\ changes \in Nat
  BY GraceAssumption DEF TypeInv, TypeOK
<1>1. ASSUME NEW g \in Generation, g > changes
      PROVE  Fresh(g)'
  <2>1. Fresh(g)
    BY <1>1 DEF FreshInv
  <2>2. \A u \in User : ~Has(u, g)
    BY <1>0, <1>1 DEF OneOwner, Generation
  <2>3. \A u \in User : prepared[u].gen # g
    BY <2>2 DEF Has
  <2>4. ASSUME NEW s \in Session, CommitCallback(s)
        PROVE  txn[s].row.gen # g
    <3>1. Open(s)
      BY <1>0, <2>4, EndFields
    <3>2. txn[s].user \in User
      BY <1>0, <3>1, OpenIsTxn
    <3> QED
      BY <2>2, <3>1, <3>2 DEF Has
  <2> QED
    BY <1>1, <2>1, <2>3, <2>4, FreshKept
<1>2. ASSUME NEW s \in Session, Open(s), Open(s)', txn[s].row # None,
             NEW g \in Generation, g = txn[s].row.gen
      PROVE  Fresh(g)'
  <2>1. txn[s].user \in User
    BY <1>0, <1>2, OpenIsTxn
  <2>2. Fresh(g)
    BY <1>2 DEF FreshInv
  <2>3. \A u \in User : prepared[u].gen # g
    <3>1. wpc # "apply"
      BY <1>2 DEF LocksInv
    <3>2. prepared = Empty
      BY <3>1 DEF TypeInv
    <3> QED
      BY <3>2 DEF Empty, None, Generation
  <2>4. ASSUME NEW t \in Session, CommitCallback(t), txn[t].row.gen = g
        PROVE  FALSE
    <3>1. Open(t) /\ ~Open(t)'
      BY <1>0, <2>4, EndFields
    <3>2. txn[t].user \in User
      BY <1>0, <3>1, OpenIsTxn
    <3>3. Has(txn[t].user, g) /\ Has(txn[s].user, g)
      BY <1>2, <2>1, <2>4, <3>1, <3>2 DEF Has
    <3>4. txn[t].user = txn[s].user
      BY <2>1, <3>2, <3>3 DEF OneOwner
    <3>5. t = s
      BY <1>2, <3>1, <3>4 DEF LocksInv
    <3> QED
      BY <1>2, <3>1, <3>5
  <2> QED
    BY <2>2, <2>3, <2>4, FreshKept
<1>3. ASSUME NEW g \in Generation, g > changes'
      PROVE  Fresh(g)'
  <2>1. changes' = changes \/ changes' = changes + 1
    BY <1>0, HasStep, ChangeFields
  <2> QED
    BY <1>0, <1>1, <1>3, <2>1 DEF Generation
<1>4. ASSUME NEW s \in Session, Open(s)', txn'[s].row # None
      PROVE  /\ \E g \in Generation : txn'[s].row.gen = g /\ Fresh(g)'
             /\ txn'[s].row.grace = Grant
  <2>1. CASE Open(s) /\ txn'[s].row = txn[s].row
    <3>1. txn[s].row \in Row \cup {None}
      BY <1>0, <2>1, OpenIsTxn
    <3>2. PICK g \in Generation : g = txn[s].row.gen
      BY <1>4, <2>1, <3>1, RowGen
    <3>3. Fresh(g)'
      BY <1>2, <1>4, <2>1, <3>2
    <3>4. txn[s].row.grace = Grant
      BY <1>4, <2>1 DEF FreshInv
    <3> QED
      BY <2>1, <3>2, <3>3, <3>4
  <2>2. CASE ChangePassword(s)
    <3>1. /\ txn'[s].row \in {None, [gen |-> changes + 1, grace |-> Grant]}
          /\ changes + 1 \in Generation
      BY <1>0, <2>2, ChangeFields
    <3>2. txn'[s].row.gen = changes + 1 /\ txn'[s].row.grace = Grant
      BY <1>4, <3>1
    <3>3. PICK g \in Generation : g = changes + 1
      BY <3>1
    <3>4. Fresh(g)'
      BY <1>0, <1>1, <3>3
    <3> QED
      BY <3>2, <3>3, <3>4
  <2> QED
    BY <1>4, <2>1, <2>2, TxnStep
<1>5. \A s \in Session : Open(s)' /\ txn'[s].row # None =>
         Fresh(txn[s].row.gen)' /\ txn'[s].row.grace = Grant
  <2> SUFFICES ASSUME NEW s \in Session, Open(s)', txn'[s].row # None
               PROVE  Fresh(txn[s].row.gen)' /\ txn'[s].row.grace = Grant
    OBVIOUS
  <2>1. PICK g \in Generation : txn'[s].row.gen = g /\ Fresh(g)'
    BY <1>4
  <2> QED
    BY <1>4, <2>1 DEF Fresh
<1> QED
  BY <1>3, <1>5 DEF FreshInv

LEMMA PendingIsCount ==
    ASSUME NEW u, NEW g
    PROVE  Pending(u, g) = CountOf(queue, [user |-> u, gen |-> g])
BY DEF Pending, CountOf, Where

LEMMA RowCountsStep ==
    ASSUME TypeInv, OneOwner, FreshInv, RowCountsPersisted, [Next]_vars
    PROVE  RowCountsPersisted'
<1> USE GraceAssumption
<1>0. TypeOK
  BY DEF TypeInv
<1>1. /\ queue \in Seq(Event) /\ rows \in [User -> Row \cup {None}]
      /\ consumed \in [Generation -> Nat] /\ kept \in [Generation -> Nat]
  BY <1>0 DEF TypeOK
<1>2. ASSUME NEW s \in Session, CommitRow(s)
      PROVE  RowCountsPersisted'
  <2>1. Open(s) /\ UNCHANGED <<history, queue>>
    BY <1>2 DEF CommitRow, Open
  <2>2. txn[s].user \in User /\ txn[s].row \in Row \cup {None}
    BY <1>0, <2>1, OpenIsTxn
  <2>3. rows' = [rows EXCEPT ![txn[s].user] = txn[s].row]
    BY <1>2 DEF CommitRow
  <2>4. ASSUME NEW u \in User, rows'[u] # None
        PROVE  rows'[u].grace = Grant - (consumed[rows'[u].gen] + kept[rows'[u].gen] - CountOf(queue,
                                            [user |-> u, gen |-> rows'[u].gen]))
    <3>1. CASE u # txn[s].user
      <4>1. rows'[u] = rows[u]
        BY <1>1, <2>2, <2>3, <3>1
      <4> QED
        BY <2>4, <4>1, PendingIsCount DEF RowCountsPersisted
    <3>2. CASE u = txn[s].user
      <4>1. rows'[u] = txn[s].row
        BY <1>1, <2>2, <2>3, <3>2
      <4>2. PICK g \in Generation : g = txn[s].row.gen
        BY <2>2, <2>4, <4>1, RowGen
      <4>3. Fresh(g) /\ rows'[u].grace = Grant
        BY <2>1, <2>4, <4>1, <4>2 DEF FreshInv
      <4>4. \A i \in DOMAIN queue : queue[i] # [user |-> u, gen |-> g]
        BY <4>3 DEF Fresh
      <4>5. CountOf(queue, [user |-> u, gen |-> g]) = 0
        BY <1>1, <4>4, CountNone
      <4> QED
        BY <4>1, <4>2, <4>3, <4>5 DEF Fresh
    <3> QED
      BY <3>1, <3>2
  <2> QED
    BY <2>1, <2>4 DEF RowCountsPersisted, Pending, CountOf, Where
<1>3. ASSUME NEW c \in Client, Recorded(c)
      PROVE  RowCountsPersisted'
  <2>1. PICK w \in User, h \in Generation, d \in {0, 1} :
           /\ cached[w].gen = h
           /\ [user |-> w, gen |-> h] \in Event
           /\ queue' = Append(queue, [user |-> w, gen |-> h])
           /\ consumed'[h] = consumed[h] + d /\ kept'[h] = kept[h] + 1 - d
           /\ \A k \in Generation \ {h} : consumed'[k] = consumed[k] /\ kept'[k] = kept[k]
    BY <1>0, <1>3, TakeFields
  <2>2. rows' = rows
    BY <1>3 DEF Recorded, TryConsumeGrace, AppendFails, cache
  <2>3. ASSUME NEW u \in User, rows[u] # None
        PROVE  rows[u].grace = Grant - (consumed'[rows[u].gen] + kept'[rows[u].gen] - CountOf(queue',
                                            [user |-> u, gen |-> rows[u].gen]))
    <3>1. PICK g \in Generation : g = rows[u].gen
      BY <1>1, <2>3, RowGen
    <3> DEFINE e == [user |-> u, gen |-> g]
               n == CountOf(queue, e)
    <3>2. rows[u].grace = Grant - (consumed[g] + kept[g] - n)
      BY <2>3, <3>1, PendingIsCount DEF RowCountsPersisted
    <3>3. n \in Nat /\ consumed[g] \in Nat /\ kept[g] \in Nat
      BY <1>1, CountType
    <3>4. CountOf(queue', e) = n + (IF [user |-> w, gen |-> h] = e THEN 1 ELSE 0)
      BY <1>1, <2>1, CountAppend
    <3>5. CASE g = h
      <4>1. Has(u, g) /\ Has(w, g)
        BY <2>1, <3>1, <3>5 DEF Has
      <4>2. u = w
        BY <4>1 DEF OneOwner
      <4>3. CountOf(queue', e) = n + 1
        BY <3>4, <3>5, <4>2
      <4>4. /\ consumed'[g] = consumed[g] + d /\ kept'[g] = kept[g] + 1 - d
            /\ d \in Nat
        BY <2>1, <3>5
      <4>5. consumed'[g] + kept'[g] - CountOf(queue', e) = consumed[g] + kept[g] - n
        <5> HIDE DEF n, e
        <5> QED
          BY <3>3, <4>3, <4>4
      <4> HIDE DEF n
      <4> QED
        BY <3>1, <3>2, <4>5
    <3>6. CASE g # h
      <4>1. CountOf(queue', e) = n
        BY <3>3, <3>4, <3>6
      <4>2. consumed'[g] = consumed[g] /\ kept'[g] = kept[g]
        BY <2>1, <3>6
      <4> QED
        BY <3>1, <3>2, <4>1, <4>2
    <3> QED
      BY <3>5, <3>6
  <2> QED
    BY <2>2, <2>3 DEF RowCountsPersisted, Pending, CountOf, Where
<1>4. CASE PersistGrace
  <2>1. consumed' = consumed /\ kept' = kept
    BY <1>4 DEF PersistGrace
  <2>2. CASE UNCHANGED <<rows, queue>>
    BY <2>1, <2>2 DEF RowCountsPersisted, Pending
  <2>3. ASSUME NEW f \in Event, Replayed(f)
        PROVE  RowCountsPersisted'
    <3>1. /\ queue # <<>> /\ f = Head(queue) /\ queue' = Tail(queue) /\ f.user \in User
          /\ rows' \in [User -> Row \cup {None}]
      BY <2>3 DEF Replayed, Event
    <3>2. ASSUME NEW u \in User, rows'[u] # None
          PROVE  rows'[u].grace = Grant - (consumed[rows'[u].gen] + kept[rows'[u].gen] - CountOf(queue',
                                              [user |-> u, gen |-> rows'[u].gen]))
      <4>1. rows'[u].gen = rows[u].gen
        BY <2>3 DEF Replayed
      <4>2. PICK g \in Generation : g = rows[u].gen
        BY <3>1, <3>2, <4>1, RowGen
      <4>3. rows[u] # None
        BY <4>2 DEF None, Generation
      <4> DEFINE e == [user |-> u, gen |-> g]
                 n == CountOf(queue, e)
      <4>4. rows[u].grace = Grant - (consumed[g] + kept[g] - n)
        BY <4>2, <4>3, PendingIsCount DEF RowCountsPersisted
      <4>5. n \in Nat /\ consumed[g] \in Nat /\ kept[g] \in Nat
        BY <1>1, CountType
      <4>6. CountOf(queue', e) = n - (IF f = e THEN 1 ELSE 0)
        BY <1>1, <3>1, CountTail
      <4>7. CASE u = f.user /\ g = f.gen
        <5>1. f = e
          BY <4>7 DEF Event
        <5>2. rows'[u].grace = rows[u].grace - 1
          BY <2>3, <4>2, <4>7 DEF Replayed
        <5>3. CountOf(queue', e) = n - 1
          BY <4>6, <5>1
        <5> HIDE DEF n
        <5> QED
          BY <4>1, <4>2, <4>4, <4>5, <5>2, <5>3
      <4>8. CASE ~(u = f.user /\ g = f.gen)
        <5>1. f # e
          BY <4>8
        <5>2. rows'[u] = rows[u]
          BY <2>3, <4>2, <4>8 DEF Replayed
        <5>3. CountOf(queue', e) = n
          BY <4>5, <4>6, <5>1
        <5> QED
          BY <4>2, <4>4, <5>2, <5>3
      <4> QED
        BY <4>7, <4>8
    <3> QED
      BY <2>1, <3>2 DEF RowCountsPersisted, Pending, CountOf, Where
  <2> QED
    BY <1>0, <1>4, <2>2, <2>3, PersistFields
<1>5. ASSUME NEW s \in Session, ChangePassword(s) \/ Abort(s) \/ CommitCallback(s)
      PROVE  RowCountsPersisted'
  BY <1>5 DEF ChangePassword, Abort, CommitCallback, RowCountsPersisted, Pending
<1>6. CASE ReadRows \/ ApplyHydrated \/ HydrationFails \/ Rehydrate \/ Crash \/ Quiet
  <2>1. UNCHANGED <<rows, queue, history>>
    BY <1>6, LeaveFields, QuietFields DEF ReadRows, ApplyHydrated
  <2> QED
    BY <2>1 DEF RowCountsPersisted, Pending
<1> QED
  BY <1>2, <1>3, <1>4, <1>5, <1>6, Steps

LEMMA RowInvInit == Init => RowInv
<1> SUFFICES ASSUME Init
             PROVE  RowInv
  OBVIOUS
<1>1. \A s \in Session : ~Open(s)
  BY DEF Init, Open
<1>2. \A u \in User : rows[u] = None /\ cached[u] = None /\ prepared[u] = None
  BY DEF Init, Empty
<1>3. DOMAIN queue = {} /\ wpc # "apply" /\ \A g \in Generation : consumed[g] = 0 /\ kept[g] = 0
  BY DEF Init
<1>4. None.gen \notin Generation
  BY DEF None, Generation
<1>5. \A u \in User, g \in Generation : ~Has(u, g)
  BY <1>1, <1>2, <1>3, <1>4 DEF Has
<1> QED
  BY <1>1, <1>2, <1>3, <1>4, <1>5
     DEF RowInv, LocksInv, OneOwner, FreshInv, Fresh, RowCountsPersisted

\* A generation belongs to one user, and it is unused until its password change has
\* reached the cache: RowInv is inductive.
THEOREM RowInductive == Spec => [](TypeInv /\ RowInv)
<1>1. TypeInv /\ RowInv /\ [Next]_vars => TypeInv' /\ RowInv'
  BY TypeInvStep, LocksStep, OwnerStep, FreshStep, RowCountsStep DEF RowInv
<1> QED
  BY <1>1, TypeInvInit, RowInvInit, PTL DEF Spec

\* The row of a password accounts for every record that was persisted under it, of a
\* login that was counted or kept by a failed append, and for no other, also when
\* hydration overlaps unrecorded logins and when there are more users than slots:
\* persist_grace_consumption never charges a fresh grant for a login of an older
\* password.
THEOREM RowCountsPersistedThm == Spec => []RowCountsPersisted
<1>1. TypeInv /\ RowInv => RowCountsPersisted
  BY DEF RowInv
<1> QED
  BY <1>1, RowInductive, PTL

----------------------------------------------------------------------------
(* The cache: hydration waits for the queue and every user has a slot. *)

Roomy == ~Overlap /\ Cardinality(User) <= Capacity

\* What a step does to the state, the worker's place and the queue.
LEMMA ControlStep ==
    ASSUME Roomy, TypeInv, LocksInv, QueueEmpty, StateKnown, ReadStands, [Next]_vars
    PROVE  (QueueEmpty /\ StateKnown /\ ReadStands)'
<1>0. TypeOK
  BY DEF TypeInv
<1>1. ASSUME NEW s \in Session, ChangePassword(s) \/ Abort(s)
      PROVE  (QueueEmpty /\ StateKnown /\ ReadStands)'
  BY <1>1 DEF ChangePassword, Abort, cache, worker, QueueEmpty, StateKnown, ReadStands, Hydrating
<1>2. ASSUME NEW s \in Session, CommitRow(s)
      PROVE  (QueueEmpty /\ StateKnown /\ ReadStands)'
  <2>1. wpc # "apply"
    BY <1>2 DEF CommitRow, LocksInv, Open
  <2> QED
    BY <1>2, <2>1 DEF CommitRow, cache, worker, QueueEmpty, StateKnown, ReadStands, Hydrating
<1>3. ASSUME NEW s \in Session, CommitCallback(s)
      PROVE  (QueueEmpty /\ StateKnown /\ ReadStands)'
  <2>1. Open(s)
    BY <1>0, <1>3, EndFields
  <2>2. txn[s].user \in User /\ txn[s].row \in Row \cup {None}
    BY <1>0, <2>1, OpenIsTxn
  <2>3. SetOrClear(txn[s].user, txn[s].row)
    BY <1>3 DEF CommitCallback
  <2>4. state' = state
    BY <1>0, <2>2, <2>3, SlotFields DEF Roomy
  <2> QED
    BY <1>3, <2>4 DEF CommitCallback, worker, QueueEmpty, StateKnown, ReadStands, Hydrating
<1>4. ASSUME NEW c \in Client, Recorded(c)
      PROVE  (QueueEmpty /\ StateKnown /\ ReadStands)'
  <2>1. wpc' = wpc /\ state' = state /\ ~Hydrating
    BY <1>4 DEF Recorded, TryConsumeGrace, AppendFails, Entitled, cache, worker, Roomy
  <2> QED
    BY <2>1 DEF QueueEmpty, StateKnown, ReadStands, Hydrating
<1>5. CASE PersistGrace
  <2>1. wpc = "loop" /\ wpc' \in {"loop", "mark", "restore"} /\ state' = state
    BY <1>5 DEF PersistGrace, CanReplay, RollBack, cache
  <2> QED
    BY <2>1 DEF QueueEmpty, StateKnown, ReadStands, Hydrating
<1>6. CASE ReadRows
  <2>1. prepared' = rows
    BY <1>0, <1>6, ReadFields DEF Roomy
  <2> QED
    BY <1>6, <2>1 DEF ReadRows, cache, QueueEmpty, StateKnown, ReadStands, Hydrating
<1>7. CASE ApplyHydrated
  <2>1. prepared = rows
    BY <1>7 DEF ApplyHydrated, ReadStands
  <2>2. state' = "Ready" /\ wpc' = "loop"
    BY <1>7, <2>1 DEF ApplyHydrated
  <2> QED
    BY <2>2 DEF QueueEmpty, StateKnown, ReadStands, Hydrating
<1>8. CASE HydrationFails
  BY <1>8 DEF HydrationFails, QueueEmpty, StateKnown, ReadStands, Hydrating
<1>9. CASE Rehydrate \/ Crash
  <2>1. queue' = <<>> /\ wpc' = "hydrate" /\ state' \in {state, "NotReady"}
    BY <1>9 DEF Rehydrate, Crash, LeaveLoop, cache, Roomy
  <2> QED
    BY <2>1 DEF QueueEmpty, StateKnown, ReadStands, Hydrating
<1>10. CASE Quiet
  <2>1. UNCHANGED <<rows, queue, prepared>>
    BY <1>10, QuietFields
  <2>2. CASE EventFails \/ Mark \/ MarkFailed \/ RestoreReady
    <3>1. wpc \notin {"hydrate", "apply"} /\ wpc' \notin {"hydrate", "apply"}
      BY <2>2 DEF EventFails, RollBack, Mark, MarkFailed, RestoreReady
    <3>2. state' \in {state, "WorkerFailed", "Ready"}
      BY <2>2 DEF EventFails, Mark, MarkFailed, RestoreReady, cache
    <3> QED
      BY <3>1, <3>2 DEF QueueEmpty, StateKnown, ReadStands, Hydrating
  <2>3. CASE Restore
    <3>1. wpc = "restore" /\ state' = state
      BY <2>3 DEF Restore, cache
    <3>2. state \in {"Ready", "WorkerFailed"}
      BY <1>0, <3>1 DEF TypeOK, ExpiryCacheState, StateKnown, Hydrating
    <3>3. wpc' \in {"restoring", "loop"}
      BY <2>3, <3>2 DEF Restore
    <3> QED
      BY <3>1, <3>2, <3>3 DEF QueueEmpty, StateKnown, ReadStands, Hydrating
  <2>4. CASE wpc' = wpc /\ state' = state
    BY <2>1, <2>4 DEF QueueEmpty, StateKnown, ReadStands, Hydrating
  <2> QED
    BY <1>10, <2>2, <2>3, <2>4
       DEF Quiet, Expire, Lookup, NothingConsumed, vars, cache, worker
<1> QED
  BY <1>1, <1>2, <1>3, <1>4, <1>5, <1>6, <1>7, <1>8, <1>9, <1>10, Steps

LEMMA CommittedStep ==
    ASSUME TypeInv, LocksInv, CommittedIsRow, [Next]_vars
    PROVE  CommittedIsRow'
<1>0. TypeOK
  BY DEF TypeInv
<1>1. ASSUME NEW s \in Session, ChangePassword(s)
      PROVE  CommittedIsRow'
  <2>1. OthersKeep(s) /\ txn'[s].pc = "staged"
    BY <1>0, <1>1, ChangeFields
  <2>2. rows' = rows
    BY <1>1 DEF ChangePassword
  <2> QED
    BY <2>1, <2>2 DEF CommittedIsRow, OthersKeep, Open
<1>2. ASSUME NEW s \in Session, CommitRow(s)
      PROVE  CommittedIsRow'
  <2>1. /\ OthersKeep(s) /\ Open(s) /\ txn'[s].user = txn[s].user
        /\ txn'[s].row = txn[s].row
    BY <1>0, <1>2, CommitFields
  <2>2. txn[s].user \in User
    BY <1>0, <2>1, OpenIsTxn
  <2>3. /\ rows'[txn[s].user] = txn[s].row
        /\ \A u \in User \ {txn[s].user} : rows'[u] = rows[u]
    BY <1>0, <1>2, <2>2 DEF CommitRow, TypeOK
  <2>4. \A t \in Session \ {s} : Open(t) => txn[t].user \in User \ {txn[s].user}
    BY <1>0, <2>1, OpenIsTxn DEF LocksInv
  <2> QED
    BY <2>1, <2>3, <2>4 DEF CommittedIsRow, OthersKeep, Open
<1>3. ASSUME NEW s \in Session, Abort(s) \/ CommitCallback(s)
      PROVE  CommittedIsRow'
  <2>1. OthersKeep(s) /\ ~Open(s)'
    BY <1>0, <1>3, EndFields
  <2>2. rows' = rows
    BY <1>3 DEF Abort, CommitCallback
  <2> QED
    BY <2>1, <2>2 DEF CommittedIsRow, OthersKeep, Open
<1>4. CASE PersistGrace
  <2>1. UNCHANGED <<rows, queue>> \/ \E e \in Event : Replayed(e)
    BY <1>0, <1>4, PersistFields
  <2>2. \A u \in User : rows'[u].gen = rows[u].gen
    BY <2>1 DEF Replayed
  <2>3. txn' = txn /\ \A s \in Session : Open(s) => txn[s].user \in User
    BY <1>0, <1>4, OpenIsTxn DEF PersistGrace
  <2> QED
    BY <2>2, <2>3 DEF CommittedIsRow, Open
<1>5. CASE \/ (\E c \in Client : Recorded(c)) \/ ReadRows \/ ApplyHydrated
           \/ HydrationFails \/ Rehydrate \/ Crash \/ Quiet
  <2>1. rows' = rows /\ (txn' = txn \/ \A s \in Session : ~Open(s)')
    BY <1>5, LeaveFields, QuietFields DEF Recorded, TryConsumeGrace, AppendFails, cache, ReadRows, ApplyHydrated
  <2> QED
    BY <2>1 DEF CommittedIsRow, Open
<1> QED
  BY <1>1, <1>2, <1>3, <1>4, <1>5, Steps

\* An entry of the cache and the count of its password move together.
LEMMA EntryStep ==
    ASSUME Roomy, TypeInv, RowInv, QueueEmpty, ReadStands, EntryCounts, GrantRespected,
           [Next]_vars
    PROVE  EntryCounts' /\ GrantRespected'
<1> USE GraceAssumption
<1>0. TypeOK
  BY DEF TypeInv
<1>1. /\ cached \in [User -> Row \cup {None}]
      /\ consumed \in [Generation -> Nat] /\ kept \in [Generation -> Nat]
      /\ rows \in [User -> Row \cup {None}] /\ queue \in Seq(Event)
  BY <1>0 DEF TypeOK
<1>2. ASSUME NEW s \in Session, CommitCallback(s)
      PROVE  EntryCounts' /\ GrantRespected'
  <2>1. Open(s) /\ consumed' = consumed /\ kept' = kept
    BY <1>2 DEF CommitCallback, Open
  <2>2. txn[s].user \in User /\ txn[s].row \in Row \cup {None}
    BY <1>0, <2>1, OpenIsTxn
  <2>3. SetOrClear(txn[s].user, txn[s].row)
    BY <1>2 DEF CommitCallback
  <2>4. cached' = [cached EXCEPT ![txn[s].user] = txn[s].row]
    BY <1>0, <2>2, <2>3, SlotFields DEF Roomy
  <2>5. txn[s].row # None => /\ txn[s].row.grace = Grant
                             /\ consumed[txn[s].row.gen] = 0 /\ kept[txn[s].row.gen] = 0
    BY <2>1 DEF RowInv, FreshInv, Fresh
  <2>6. \A u \in User : cached'[u] = cached[u] \/ cached'[u] = txn[s].row
    BY <1>1, <2>2, <2>4
  <2> QED
    BY <2>1, <2>5, <2>6 DEF EntryCounts, GrantRespected
<1>3. ASSUME NEW c \in Client, Recorded(c)
      PROVE  EntryCounts' /\ GrantRespected'
  <2>1. PICK w \in User, h \in Generation, d \in {0, 1} :
           /\ cached[w] \in Row /\ cached[w].gen = h /\ cached[w].grace > 0
           /\ cached'[w].gen = h /\ cached'[w].grace = cached[w].grace - d
           /\ \A v \in User \ {w} : cached'[v] = cached[v]
           /\ consumed'[h] = consumed[h] + d /\ kept'[h] = kept[h] + 1 - d
           /\ \A k \in Generation \ {h} : consumed'[k] = consumed[k] /\ kept'[k] = kept[k]
    BY <1>0, <1>3, TakeFields
  <2>2. /\ cached[w].grace + consumed[h] <= Grant /\ cached[w].grace \in Nat
        /\ cached[w].grace + consumed[h] + kept[h] >= Grant
    BY <1>1, <2>1, EmptyType, RowGen DEF EntryCounts
  <2>3. consumed[h] \in Nat /\ kept[h] \in Nat /\ Grant \in Nat
    BY <1>1
  <2>4. ASSUME NEW g \in Generation
        PROVE  consumed'[g] <= Grant
    BY <2>1, <2>2, <2>3 DEF GrantRespected
  <2>5. ASSUME NEW u \in User, cached'[u] # None
        PROVE  /\ cached'[u].grace + consumed'[cached'[u].gen] <= Grant
               /\ cached'[u].grace + consumed'[cached'[u].gen] + kept'[cached'[u].gen] >= Grant
    <3>1. CASE u = w
      BY <2>1, <2>2, <2>3, <3>1
    <3>2. CASE u # w
      <4>1. cached'[u] = cached[u] /\ cached[u] # None
        BY <2>1, <2>5, <3>2
      <4>2. PICK g \in Generation : g = cached[u].gen
        BY <1>1, <4>1, RowGen
      <4>3. g # h
        <5>1. Has(w, h) /\ (g = h => Has(u, h))
          BY <2>1, <4>2 DEF Has
        <5> QED
          BY <3>2, <5>1 DEF RowInv, OneOwner
      <4> QED
        BY <2>1, <4>1, <4>2, <4>3 DEF EntryCounts
    <3> QED
      BY <3>1, <3>2
  <2> QED
    BY <2>4, <2>5 DEF EntryCounts, GrantRespected
<1>4. CASE ApplyHydrated
  <2>1. cached' = rows /\ consumed' = consumed /\ kept' = kept /\ queue = <<>>
    BY <1>4 DEF ApplyHydrated, ReadStands, QueueEmpty, Hydrating
  <2>2. ASSUME NEW u \in User, rows[u] # None
        PROVE  /\ rows[u].grace + consumed[rows[u].gen] <= Grant
               /\ rows[u].grace + consumed[rows[u].gen] + kept[rows[u].gen] >= Grant
    <3>1. PICK g \in Generation : g = rows[u].gen
      BY <1>1, <2>2, RowGen
    <3>2. CountOf(queue, [user |-> u, gen |-> g]) = 0
      <4>1. \A i \in DOMAIN queue : queue[i] # [user |-> u, gen |-> g]
        BY <2>1
      <4> QED
        BY <1>1, <4>1, CountNone
    <3>3. rows[u].grace = Grant - (consumed[g] + kept[g] - 0)
      BY <2>2, <3>1, <3>2, PendingIsCount DEF RowInv, RowCountsPersisted
    <3>4. consumed[g] \in Nat /\ kept[g] \in Nat
      BY <1>1
    <3> QED
      BY <3>1, <3>3, <3>4
  <2> QED
    BY <2>1, <2>2 DEF EntryCounts, GrantRespected
<1>5. ASSUME NEW s \in Session, ChangePassword(s) \/ Abort(s) \/ CommitRow(s)
      PROVE  EntryCounts' /\ GrantRespected'
  BY <1>5 DEF ChangePassword, Abort, CommitRow, cache, EntryCounts, GrantRespected
<1>6. CASE PersistGrace \/ ReadRows
  BY <1>6 DEF PersistGrace, ReadRows, cache, EntryCounts, GrantRespected
<1>7. CASE HydrationFails \/ Rehydrate \/ Crash
  <2>1. \A u \in User : Empty[u] = None
    BY DEF Empty
  <2> QED
    BY <1>7, <2>1, LeaveFields DEF EntryCounts, GrantRespected
<1>8. CASE Quiet
  BY <1>8, QuietFields DEF EntryCounts, GrantRespected
<1> QED
  BY <1>2, <1>3, <1>4, <1>5, <1>6, <1>7, <1>8, Steps

\* Settled, in terms of open transactions.
Committed(u) == \E s \in Session : Open(s) /\ txn[s].user = u /\ txn[s].pc = "committed"

LEMMA SettledIs ==
    ASSUME NEW u \in User
    PROVE  (Settled(u) <=> ~Committed(u)) /\ (Settled(u)' <=> ~Committed(u)')
<1>1. Idle.user \notin User
  BY GraceAssumption DEF Idle
<1> QED
  BY <1>1 DEF Settled, Holders, Committed, Open

\* A commit is not settled until its callback has brought the entry to the row.
LEMMA SameStep ==
    ASSUME Roomy, TypeInv, LocksInv, StateKnown, ReadStands, CommittedIsRow,
           SamePassword, [Next]_vars
    PROVE  SamePassword'
<1>0. TypeOK
  BY DEF TypeInv
<1>1. \A u \in User : state # "NotReady" /\ ~Committed(u) => cached[u].gen = rows[u].gen
  BY SettledIs DEF SamePassword
<1>2. SUFFICES ASSUME NEW u \in User, state' # "NotReady", ~Committed(u)'
               PROVE  cached'[u].gen = rows'[u].gen
  BY SettledIs DEF SamePassword
<1>3. ASSUME NEW s \in Session, ChangePassword(s)
      PROVE  cached'[u].gen = rows'[u].gen
  <2>1. OthersKeep(s) /\ ~Open(s)
    BY <1>0, <1>3, ChangeFields
  <2>2. ~Committed(u)
    BY <1>2, <2>1 DEF Committed, OthersKeep, Open
  <2>3. UNCHANGED <<rows, cached, state>>
    BY <1>3 DEF ChangePassword, cache
  <2> QED
    BY <1>1, <1>2, <2>2, <2>3
<1>4. ASSUME NEW s \in Session, Abort(s)
      PROVE  cached'[u].gen = rows'[u].gen
  <2>1. OthersKeep(s) /\ txn[s].pc = "staged"
    BY <1>0, <1>4, EndFields DEF Abort
  <2>2. ~Committed(u)
    BY <1>2, <2>1 DEF Committed, OthersKeep, Open
  <2>3. UNCHANGED <<rows, cached, state>>
    BY <1>4 DEF Abort, cache
  <2> QED
    BY <1>1, <1>2, <2>2, <2>3
<1>5. ASSUME NEW s \in Session, CommitRow(s)
      PROVE  cached'[u].gen = rows'[u].gen
  <2>1. /\ OthersKeep(s) /\ Open(s) /\ Open(s)' /\ txn'[s].pc = "committed"
        /\ txn'[s].user = txn[s].user /\ txn[s].pc = "staged"
    BY <1>0, <1>5, CommitFields DEF CommitRow
  <2>2. u # txn[s].user /\ ~Committed(u)
    BY <1>2, <2>1 DEF Committed, OthersKeep, Open
  <2>3. rows'[u] = rows[u]
    BY <1>0, <1>5, <2>1, <2>2, OpenIsTxn DEF CommitRow, TypeOK
  <2>4. UNCHANGED <<cached, state>>
    BY <1>5 DEF CommitRow, cache
  <2> QED
    BY <1>1, <1>2, <2>2, <2>3, <2>4
<1>6. ASSUME NEW s \in Session, CommitCallback(s)
      PROVE  cached'[u].gen = rows'[u].gen
  <2>1. /\ Open(s) /\ OthersKeep(s) /\ ~Open(s)' /\ txn[s].pc = "committed"
    BY <1>0, <1>6, EndFields DEF CommitCallback
  <2>2. txn[s].user \in User /\ txn[s].row \in Row \cup {None}
    BY <1>0, <2>1, OpenIsTxn
  <2>3. SetOrClear(txn[s].user, txn[s].row) /\ rows' = rows
    BY <1>6 DEF CommitCallback
  <2>4. cached' = [cached EXCEPT ![txn[s].user] = txn[s].row] /\ state' = state
    BY <1>0, <2>2, <2>3, SlotFields DEF Roomy
  <2>5. CASE u = txn[s].user
    BY <1>0, <2>1, <2>2, <2>3, <2>4, <2>5 DEF CommittedIsRow, TypeOK
  <2>6. CASE u # txn[s].user
    <3>1. ~Committed(u)
      BY <1>2, <2>1, <2>6 DEF Committed, OthersKeep, Open
    <3>2. cached'[u] = cached[u]
      BY <1>0, <2>4, <2>6 DEF TypeOK
    <3> QED
      BY <1>1, <1>2, <2>3, <2>4, <3>1, <3>2
  <2> QED
    BY <2>5, <2>6
<1>7. ASSUME NEW c \in Client, Recorded(c)
      PROVE  cached'[u].gen = rows'[u].gen
  <2>1. cached'[u].gen = cached[u].gen
    BY <1>0, <1>7, TakeFields
  <2>2. UNCHANGED <<rows, txn, state>>
    BY <1>7 DEF Recorded, TryConsumeGrace, AppendFails, cache
  <2> QED
    BY <1>1, <1>2, <2>1, <2>2 DEF Committed, Open
<1>8. CASE PersistGrace
  <2>1. UNCHANGED <<rows, queue>> \/ \E e \in Event : Replayed(e)
    BY <1>0, <1>8, PersistFields
  <2>2. rows'[u].gen = rows[u].gen
    BY <2>1 DEF Replayed
  <2>3. UNCHANGED <<txn, cached, state>>
    BY <1>8 DEF PersistGrace, cache
  <2> QED
    BY <1>1, <1>2, <2>2, <2>3 DEF Committed, Open
<1>9. CASE ReadRows
  BY <1>1, <1>2, <1>9 DEF ReadRows, cache, Committed, Open
<1>10. CASE ApplyHydrated
  BY <1>10 DEF ApplyHydrated, ReadStands
<1>11. CASE HydrationFails \/ Rehydrate \/ Crash
  BY <1>1, <1>2, <1>11 DEF HydrationFails, Rehydrate, Crash, cache, Committed, Open
<1>12. CASE Quiet
  <2>1. UNCHANGED <<rows, txn, cached>>
    BY <1>12, QuietFields
  <2>2. state # "NotReady"
    BY <1>2, <1>12 DEF Quiet, Expire, Lookup, NothingConsumed, EventFails, Mark, MarkFailed,
                       Restore, RestoreReady, vars, cache, StateKnown, Hydrating
  <2> QED
    BY <1>1, <1>2, <2>1, <2>2 DEF Committed, Open
<1> QED
  BY <1>3, <1>4, <1>5, <1>6, <1>7, <1>8, <1>9, <1>10, <1>11, <1>12, Steps

LEMMA CacheInvInit == Init => CacheInv
<1> SUFFICES ASSUME Init
             PROVE  CacheInv
  OBVIOUS
<1>1. \A s \in Session : ~Open(s)
  BY DEF Init, Open
<1>2. \A u \in User : cached[u] = None
  BY DEF Init, Empty
<1>3. /\ queue = <<>> /\ wpc = "hydrate" /\ state = "NotReady"
      /\ \A g \in Generation : consumed[g] = 0 /\ kept[g] = 0
  BY DEF Init
<1> QED
  BY <1>1, <1>2, <1>3, GraceAssumption
     DEF CacheInv, QueueEmpty, StateKnown, ReadStands, CommittedIsRow, EntryCounts,
         SamePassword, GrantRespected, Hydrating

\* Where hydration waits for the queue and every user has a slot, CacheInv is
\* inductive together with RowInv.
THEOREM CacheInductive ==
    ASSUME Roomy
    PROVE  Spec => [](TypeInv /\ RowInv /\ CacheInv)
<1>1. TypeInv /\ RowInv /\ CacheInv /\ [Next]_vars => CacheInv'
  BY ControlStep, CommittedStep, EntryStep, SameStep DEF RowInv, CacheInv
<1> QED
  BY <1>1, CacheInvInit, RowInductive, PTL DEF Spec

\* However many connections ask at once, whatever crashes, and in whatever order
\* commits, callbacks and replays come, no password gives more grace logins than
\* password_grace_logins: the entry is judged again where it is decremented, and
\* hydration rebuilds it from a row that has every recorded login.
THEOREM GrantRespectedThm ==
    ASSUME Roomy
    PROVE  Spec => []GrantRespected
<1>1. TypeInv /\ RowInv /\ CacheInv => GrantRespected
  BY DEF CacheInv
<1> QED
  BY <1>1, CacheInductive, PTL

\* A Ready cache has every settled row, of the same password, with what the row
\* will have left once the worker has replayed the queue, and beyond that at most
\* one for each record that a failed append kept.
THEOREM ReadyMatchesRowsThm ==
    ASSUME Roomy
    PROVE  Spec => []ReadyMatchesRows
<1>1. ASSUME TypeInv, RowInv, CacheInv
      PROVE  ReadyMatchesRows
  <2> SUFFICES ASSUME state = "Ready", NEW u \in User, Settled(u)
               PROVE  /\ cached[u].gen = rows[u].gen
                      /\ rows[u] # None =>
                            cached[u].grace \in
                               rows[u].grace - Pending(u, rows[u].gen) ..
                               rows[u].grace - Pending(u, rows[u].gen) + kept[rows[u].gen]
    BY DEF ReadyMatchesRows
  <2>1. /\ cached[u] \in Row \cup {None} /\ rows[u] \in Row \cup {None}
        /\ consumed \in [Generation -> Nat] /\ kept \in [Generation -> Nat]
        /\ queue \in Seq(Event)
    BY <1>1 DEF TypeInv, TypeOK
  <2>2. cached[u].gen = rows[u].gen
    BY <1>1 DEF CacheInv, SamePassword
  <2>3. ASSUME rows[u] # None
        PROVE  cached[u].grace \in
                  rows[u].grace - Pending(u, rows[u].gen) ..
                  rows[u].grace - Pending(u, rows[u].gen) + kept[rows[u].gen]
    <3>1. /\ cached[u] # None /\ cached[u] \in Row /\ rows[u].gen \in Generation
          /\ cached[u].grace \in Nat
      BY <2>1, <2>2, <2>3, RowGen
    <3> DEFINE g == rows[u].gen
               n == Pending(u, g)
    <3>2. n \in Nat /\ consumed[g] \in Nat /\ kept[g] \in Nat /\ Grant \in Nat
      BY <2>1, <3>1, CountType, PendingIsCount, GraceAssumption
    <3>3. /\ cached[u].grace + consumed[g] <= Grant
          /\ cached[u].grace + consumed[g] + kept[g] >= Grant
      BY <1>1, <2>2, <3>1 DEF CacheInv, EntryCounts
    <3>4. rows[u].grace = Grant - (consumed[g] + kept[g] - n)
      BY <1>1, <2>3 DEF RowInv, RowCountsPersisted
    <3> HIDE DEF n, g
    <3>5. cached[u].grace \in rows[u].grace - n .. rows[u].grace - n + kept[g]
      BY <3>1, <3>2, <3>3, <3>4
    <3> QED
      BY <3>5 DEF n, g
  <2> QED
    BY <2>2, <2>3
<1> QED
  BY <1>1, CacheInductive, PTL
=============================================================================
