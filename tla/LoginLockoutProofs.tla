------------------------- MODULE LoginLockoutProofs -------------------------
(***************************************************************************)
(* Proofs about LoginLockout, for any number of users, sessions and slots. *)
(***************************************************************************)
EXTENDS LoginLockout, FiniteSetTheorems, TLAPS

Holding(s) == txn[s].pc \in {"locked", "staged", "committed"}
Writing(s) == txn[s].pc \in {"staged", "committed"}

\* What hydration has read fits into the slots, and the worker clears nothing by
\* force.
TypeInv ==
    /\ TypeOK
    /\ IsFiniteSet(entries) /\ IsFiniteSet(prepared.entries)
    /\ Cardinality(prepared.entries) <= Capacity
    /\ txn[Worker].pc # "idle" => txn[Worker].kind \in {"failure", "automatic"}

\* A row at the threshold has a lockout, the rows about to be committed too.
Locks(row) == row.fails >= MaxFails => row.until # NoTime
ThresholdInv ==
    /\ \A u \in User : Locks(rows[u])
    /\ \A s \in Session : Writing(s) => Locks(txn[s].row)

\* The advisory lock of a user has one holder.
OneHolder ==
    \A s, t \in Session :
        Holding(s) /\ Holding(t) /\ txn[s].user = txn[t].user => s = t

\* What was staged is the lockout of the row, if there is an active one.
Decided(s) ==
    Writing(s) => \/ txn[s].decision = txn[s].row.until
                  \/ txn[s].decision = NoTime /\ txn[s].row.until <= clock

\* Until its callback, the row is as the transaction committed it.
RowCommitted(s) == txn[s].pc = "committed" => rows[txn[s].user] = txn[s].row

EntryOf(u) == [user |-> u, expires |-> rows[u].until]

\* What hydration has read is still in the table when it is applied.
ReadStands ==
    /\ wpc \in {"wait", "apply"} => start <= clock
    /\ wpc = "apply" =>
          /\ \A s \in Session : ~Writing(s)
          /\ ~prepared.overflow =>
                \A u \in User : rows[u].until > start => EntryOf(u) \in prepared.entries

\* The entries are or will be trusted without a new hydration, and no write of mark
\* or restore has hidden an Overflow.
Trusted ==
    /\ ~overwritten
    /\ \/ state = "Ready"
       \/ state = "WorkerFailed" /\ (degraded \/ wpc = "restoring")

Covered == \A u \in User : rows[u].until > clock /\ Settled(u) => EntryOf(u) \in entries

CacheInv ==
    /\ OneHolder /\ ReadStands
    /\ \A s \in Session : Decided(s) /\ RowCommitted(s)
    /\ Trusted => Covered

----------------------------------------------------------------------------
(* The steps, transaction by transaction. *)

OthersKeep(s) == \A t \in Session \ {s} : txn'[t] = txn[t]

LEMMA OpenIsTxn ==
    ASSUME TypeOK, NEW s \in Session, txn[s].pc # "idle"
    PROVE  txn[s] \in Txn
BY DEF TypeOK, Idle

LEMMA BeginFields ==
    ASSUME TypeOK, NEW s \in Session, NEW u \in User, NEW k \in Kind, Begin(s, u, k)
    PROVE  /\ txn' \in [Session -> Txn \cup {Idle}] /\ OthersKeep(s)
           /\ txn'[s].pc = "begun" /\ txn'[s].kind = k
<1> DEFINE t == [pc |-> "begun", user |-> u, kind |-> k, start |-> clock,
                 row |-> NoRow, decision |-> NoTime]
<1>1. NoRow \in Row /\ NoTime \in Time /\ clock \in Nat
  BY LockoutAssumption DEF NoRow, Row, NoTime, Time, TypeOK
<1>2. t \in Txn
  BY <1>1 DEF Txn
<1>3. txn' = [txn EXCEPT ![s] = t]
  BY DEF Begin
<1> QED
  BY <1>2, <1>3 DEF TypeOK, OthersKeep

LEMMA LockFields ==
    ASSUME TypeOK, NEW s \in Session, AdvisoryLock(s)
    PROVE  /\ txn[s] \in Txn /\ txn' \in [Session -> Txn \cup {Idle}] /\ OthersKeep(s)
           /\ txn'[s].pc = "locked" /\ txn'[s].user = txn[s].user
           /\ txn'[s].kind = txn[s].kind
<1>1. txn[s] \in Txn
  BY OpenIsTxn DEF AdvisoryLock
<1> DEFINE t == [txn[s] EXCEPT !.pc = "locked"]
<1>2. t \in Txn
  BY <1>1 DEF Txn
<1>3. txn' = [txn EXCEPT ![s] = t]
  BY DEF AdvisoryLock
<1>4. txn'[s] = t /\ OthersKeep(s) /\ txn' \in [Session -> Txn \cup {Idle}]
  BY <1>2, <1>3 DEF TypeOK, OthersKeep
<1> QED
  BY <1>1, <1>4 DEF Txn

LEMMA ChangeFields ==
    ASSUME TypeOK, NEW s \in Session, NEW k, NEW row \in Row, NEW d \in Time,
           ChangeRow(s, k, row, d)
    PROVE  /\ txn[s] \in Txn /\ txn' \in [Session -> Txn \cup {Idle}] /\ OthersKeep(s)
           /\ txn'[s].pc = "staged" /\ txn'[s].user = txn[s].user
           /\ txn'[s].kind = txn[s].kind /\ txn'[s].row = row /\ txn'[s].decision = d
<1>1. txn[s] \in Txn
  BY OpenIsTxn DEF ChangeRow
<1> DEFINE t == [txn[s] EXCEPT !.pc = "staged", !.row = row, !.decision = d]
<1>2. t \in Txn
  BY <1>1 DEF Txn
<1>3. txn' = [txn EXCEPT ![s] = t]
  BY DEF ChangeRow, TypeOK
<1>4. txn'[s] = t /\ OthersKeep(s) /\ txn' \in [Session -> Txn \cup {Idle}]
  BY <1>2, <1>3 DEF TypeOK, OthersKeep
<1> QED
  BY <1>1, <1>4 DEF Txn

LEMMA CommitFields ==
    ASSUME TypeOK, NEW s \in Session, CommitRow(s)
    PROVE  /\ txn[s] \in Txn /\ txn' \in [Session -> Txn \cup {Idle}] /\ OthersKeep(s)
           /\ txn'[s].pc = "committed" /\ txn'[s].user = txn[s].user
           /\ txn'[s].kind = txn[s].kind /\ txn'[s].row = txn[s].row
           /\ txn'[s].decision = txn[s].decision
<1>1. txn[s] \in Txn
  BY OpenIsTxn DEF CommitRow
<1> DEFINE t == [txn[s] EXCEPT !.pc = "committed"]
<1>2. t \in Txn
  BY <1>1 DEF Txn
<1>3. txn' = [txn EXCEPT ![s] = t]
  BY DEF CommitRow
<1>4. txn'[s] = t /\ OthersKeep(s) /\ txn' \in [Session -> Txn \cup {Idle}]
  BY <1>2, <1>3 DEF TypeOK, OthersKeep
<1> QED
  BY <1>1, <1>4 DEF Txn

LEMMA EndFields ==
    ASSUME TypeOK, NEW s \in Session, txn' = [txn EXCEPT ![s] = Idle]
    PROVE  txn' \in [Session -> Txn \cup {Idle}] /\ OthersKeep(s) /\ txn'[s].pc = "idle"
BY DEF TypeOK, OthersKeep, Idle

\* The three operations change the row to a row, and stage its lockout if that is
\* active and nothing otherwise.
LEMMA OperationFields ==
    ASSUME TypeOK, NEW s \in Session,
           RecordFailedLogin(s) \/ AutomaticClear(s) \/ ForcedClear(s)
    PROVE  \E k \in Kind, row \in Row, d \in Time :
              /\ ChangeRow(s, k, row, d)
              /\ d = row.until \/ (d = NoTime /\ row.until <= clock)
              /\ MaxFails >= 2 /\ Locks(rows[txn[s].user]) => Locks(row)
<1> USE LockoutAssumption
<1>1. txn[s].pc = "locked"
  BY DEF RecordFailedLogin, AutomaticClear, ForcedClear, ChangeRow
<1>2. txn[s] \in Txn /\ txn[s].user \in User /\ txn[s].start \in Nat /\ clock \in Nat
  BY <1>1, OpenIsTxn DEF Txn, TypeOK
<1> DEFINE old == rows[txn[s].user]
           now == txn[s].start
<1>3. /\ old \in Row /\ old.fails \in 0 .. MaxFails /\ old.until \in Time
      /\ NoRow \in Row /\ NoRow.until = NoTime /\ NoRow.fails = 0
  BY <1>2 DEF TypeOK, Row, NoRow, Time, NoTime
<1> HIDE DEF old, now
<1>4. \A u \in Time : LET d == DecisionFor(u, clock)
                      IN  d \in Time /\ (d = u \/ (d = NoTime /\ u <= clock))
  BY <1>2 DEF DecisionFor, Time, NoTime
<1>5. ASSUME NEW minutes \in Minutes,
             ChangeRow(s, "failure", Failed(old, now, minutes),
                       DecisionFor(Failed(old, now, minutes).until, clock))
      PROVE  \E k \in Kind, row \in Row, d \in Time :
                /\ ChangeRow(s, k, row, d)
                /\ d = row.until \/ (d = NoTime /\ row.until <= clock)
                /\ MaxFails >= 2 /\ Locks(old) => Locks(row)
  <2> DEFINE row == Failed(old, now, minutes)
             fails == Counted(old, now) + 1
  <2>1. Counted(old, now) \in 0 .. MaxFails /\ (old = NoRow => Counted(old, now) = 0)
    BY <1>3 DEF Counted
  <2>2. now + minutes \in Nat /\ NoTime \in Time /\ NoTime \notin Nat
    BY <1>2 DEF now, NoTime, Time
  <2>3. /\ row.fails = (IF fails > MaxFails THEN MaxFails ELSE fails)
        /\ row.until = (IF old # NoRow /\ fails >= MaxFails THEN now + minutes ELSE NoTime)
        /\ row = [fails |-> row.fails, until |-> row.until]
    BY DEF Failed
  <2>4. row.fails \in 0 .. MaxFails /\ row.until \in Time
    BY <2>1, <2>2, <2>3 DEF Time
  <2>5. row \in Row
    BY <2>3, <2>4 DEF Row
  <2>6. MaxFails >= 2 => Locks(row)
    BY <2>1, <2>2, <2>3 DEF Locks
  <2> HIDE DEF row
  <2>7. "failure" \in Kind
    BY DEF Kind
  <2> QED
    BY <1>4, <1>5, <2>4, <2>5, <2>6, <2>7 DEF row
<1>6. ASSUME ChangeRow(s, "automatic", AutoCleared(old, now),
                       DecisionFor(AutoCleared(old, now).until, clock))
      PROVE  \E k \in Kind, row \in Row, d \in Time :
                /\ ChangeRow(s, k, row, d)
                /\ d = row.until \/ (d = NoTime /\ row.until <= clock)
                /\ MaxFails >= 2 /\ Locks(old) => Locks(row)
  <2> DEFINE row == AutoCleared(old, now)
  <2>1. row \in {old, NoRow}
    BY DEF AutoCleared
  <2>2. row \in Row /\ row.until \in Time /\ (MaxFails >= 2 /\ Locks(old) => Locks(row))
    BY <1>3, <2>1 DEF Locks, Time, NoTime
  <2> HIDE DEF row
  <2>3. "automatic" \in Kind
    BY DEF Kind
  <2> QED
    BY <1>4, <1>6, <2>2, <2>3 DEF row
<1>7. ASSUME ChangeRow(s, "forced", NoRow, NoTime)
      PROVE  \E k \in Kind, row \in Row, d \in Time :
                /\ ChangeRow(s, k, row, d)
                /\ d = row.until \/ (d = NoTime /\ row.until <= clock)
                /\ MaxFails >= 2 /\ Locks(old) => Locks(row)
  <2>1. "forced" \in Kind /\ NoTime \in Time /\ (MaxFails >= 2 => Locks(NoRow))
    BY <1>3 DEF Kind, Time, Locks
  <2> QED
    BY <1>3, <1>7, <2>1
<1> QED
  BY <1>5, <1>6, <1>7 DEF RecordFailedLogin, AutomaticClear, ForcedClear, old, now

----------------------------------------------------------------------------
(* The lock cache. *)

\* Replacing an entry takes no slot.
LEMMA ReplaceFits ==
    ASSUME NEW S, IsFiniteSet(S), NEW e \in S, NEW n
    PROVE  /\ IsFiniteSet((S \ {e}) \cup {n})
           /\ Cardinality((S \ {e}) \cup {n}) <= Cardinality(S)
<1>1. IsFiniteSet(S \ {e}) /\ Cardinality(S \ {e}) = Cardinality(S) - 1
  BY FS_RemoveElement
<1>2. /\ IsFiniteSet((S \ {e}) \cup {n})
      /\ Cardinality((S \ {e}) \cup {n}) \in {Cardinality(S \ {e}), Cardinality(S \ {e}) + 1}
  BY <1>1, FS_AddElement
<1>3. Cardinality(S) \in Nat
  BY FS_CardinalityType
<1> QED
  BY <1>1, <1>2, <1>3

\* set keeps the active entries of the other users; it installs this one, or the
\* cache has overflowed.
LEMMA SetFields ==
    ASSUME TypeOK, IsFiniteSet(entries), NEW u \in User, NEW x \in Nat,
           \E result \in SetResults(u, x, clock) :
              entries' = result[1] /\ state' = result[2]
    PROVE  /\ entries' \subseteq Entry /\ IsFiniteSet(entries')
           /\ Cardinality(entries') <= Capacity
           /\ state' \in {state, "Overflow"}
           /\ \A e \in entries : e.user # u /\ Active(e, clock) => e \in entries'
           /\ x > clock /\ state' # "Overflow" => [user |-> u, expires |-> x] \in entries'
<1> USE LockoutAssumption
<1> DEFINE new == [user |-> u, expires |-> x]
           own == {e \in entries : e.user = u}
           expired == {e \in entries : ~Active(e, clock)}
           free == Cardinality(entries) < Capacity
<1>1. new \in Entry /\ entries \subseteq Entry /\ clock \in Nat
  BY DEF Entry, TypeOK
<1>2. Cardinality(entries) \in Nat /\ Cardinality(entries) <= Capacity
  BY FS_CardinalityType DEF TypeOK
<1>3. \/ x <= clock /\ entries' = entries /\ state' = state
      \/ \E e \in own : entries' = (entries \ {e}) \cup {new} /\ state' = state
      \/ \E e \in expired : entries' = (entries \ {e}) \cup {new} /\ state' = state
      \/ free /\ entries' = entries \cup {new} /\ state' = state
      \/ entries' = entries /\ state' = "Overflow"
  <2>1. x <= clock \/ x > clock
    BY <1>1
  <2>2. CASE x <= clock
    BY <1>1, <2>2 DEF SetResults, cache
  <2>3. CASE x > clock /\ own # {}
    <3>1. SetResults(u, x, clock) = {<<(entries \ {e}) \cup {new}, state>> : e \in own}
      BY <1>1, <2>3 DEF SetResults
    <3> QED
      BY <3>1
  <2>4. CASE x > clock /\ own = {} /\ (free \/ expired # {})
    <3>1. SetResults(u, x, clock) =
             {<<(entries \ {e}) \cup {new}, state>> : e \in expired}
             \cup (IF free THEN {<<entries \cup {new}, state>>} ELSE {})
      BY <1>1, <2>4 DEF SetResults
    <3> QED
      BY <3>1
  <2>5. CASE x > clock /\ own = {} /\ ~(free \/ expired # {})
    <3>1. SetResults(u, x, clock) = {<<entries, "Overflow">>}
      BY <1>1, <2>5 DEF SetResults
    <3> QED
      BY <3>1
  <2> QED
    BY <2>1, <2>2, <2>3, <2>4, <2>5
<1> HIDE DEF new, free
<1>4. CASE x <= clock /\ entries' = entries /\ state' = state
  BY <1>1, <1>2, <1>4
<1>5. CASE \E e \in own : entries' = (entries \ {e}) \cup {new} /\ state' = state
  <2>1. PICK e \in own : entries' = (entries \ {e}) \cup {new} /\ state' = state
    BY <1>5
  <2>2. IsFiniteSet(entries') /\ Cardinality(entries') <= Capacity
    <3>1. e \in entries
      BY <2>1
    <3>2. IsFiniteSet(entries') /\ Cardinality(entries') <= Cardinality(entries)
      BY <2>1, <3>1, ReplaceFits
    <3>3. Cardinality(entries') \in Nat
      BY <3>2, FS_CardinalityType
    <3> QED
      BY <1>2, <3>2, <3>3
  <2> QED
    BY <1>1, <2>1, <2>2 DEF new
<1>6. CASE \E e \in expired : entries' = (entries \ {e}) \cup {new} /\ state' = state
  <2>1. PICK e \in expired : entries' = (entries \ {e}) \cup {new} /\ state' = state
    BY <1>6
  <2>2. IsFiniteSet(entries') /\ Cardinality(entries') <= Capacity
    <3>1. e \in entries
      BY <2>1
    <3>2. IsFiniteSet(entries') /\ Cardinality(entries') <= Cardinality(entries)
      BY <2>1, <3>1, ReplaceFits
    <3>3. Cardinality(entries') \in Nat
      BY <3>2, FS_CardinalityType
    <3> QED
      BY <1>2, <3>2, <3>3
  <2> QED
    BY <1>1, <2>1, <2>2 DEF new
<1>7. CASE free /\ entries' = entries \cup {new} /\ state' = state
  <2>1. /\ IsFiniteSet(entries')
        /\ Cardinality(entries') \in {Cardinality(entries), Cardinality(entries) + 1}
    BY <1>7, FS_AddElement
  <2>2. Cardinality(entries') <= Capacity
    BY <1>2, <1>7, <2>1 DEF free
  <2> QED
    BY <1>1, <1>7, <2>1, <2>2 DEF new
<1>8. CASE entries' = entries /\ state' = "Overflow"
  BY <1>1, <1>2, <1>8
<1> QED
  BY <1>3, <1>4, <1>5, <1>6, <1>7, <1>8

\* clear takes nothing from the other users.
LEMMA ClearFields ==
    ASSUME TypeOK, IsFiniteSet(entries), NEW u \in User,
           \E result \in ClearResults(u) : entries' = result[1] /\ state' = result[2]
    PROVE  /\ entries' \subseteq Entry /\ IsFiniteSet(entries')
           /\ Cardinality(entries') <= Capacity
           /\ state' = state
           /\ \A e \in entries : e.user # u => e \in entries'
<1> USE LockoutAssumption
<1>1. /\ entries' \subseteq entries /\ state' = state
      /\ \A e \in entries : e.user # u => e \in entries'
  <2> DEFINE own == {e \in entries : e.user = u}
  <2>1. CASE own = {}
    BY <2>1 DEF ClearResults, cache
  <2>2. CASE own # {}
    <3>1. ClearResults(u) = {<<entries \ {e}, state>> : e \in own}
      BY <2>2 DEF ClearResults
    <3> QED
      BY <3>1
  <2> QED
    BY <2>1, <2>2
<1>2. /\ IsFiniteSet(entries') /\ Cardinality(entries') <= Cardinality(entries)
      /\ Cardinality(entries) \in Nat /\ Cardinality(entries') \in Nat
  BY <1>1, FS_Subset, FS_CardinalityType
<1> QED
  BY <1>1, <1>2 DEF TypeOK

\* What a commit callback does to the cache.
LEMMA CallbackFields ==
    ASSUME TypeOK, IsFiniteSet(entries), NEW s \in Session, CommitCallback(s)
    PROVE  /\ txn[s] \in Txn
           /\ txn' \in [Session -> Txn \cup {Idle}] /\ OthersKeep(s) /\ txn'[s].pc = "idle"
           /\ entries' \subseteq Entry /\ IsFiniteSet(entries')
           /\ Cardinality(entries') <= Capacity
           /\ state' \in {state, "Overflow"}
           /\ \A e \in entries : e.user # txn[s].user /\ Active(e, clock) => e \in entries'
           /\ txn[s].decision # NoTime /\ txn[s].decision > clock /\ state' # "Overflow"
              => [user |-> txn[s].user, expires |-> txn[s].decision] \in entries'
<1>1. txn[s] \in Txn /\ txn[s].user \in User /\ txn[s].decision \in Time
  BY OpenIsTxn DEF CommitCallback, Txn
<1>2. txn' = [txn EXCEPT ![s] = Idle]
  BY DEF CommitCallback
<1>3. CASE txn[s].decision = NoTime
  <2>1. \E result \in ClearResults(txn[s].user) : entries' = result[1] /\ state' = result[2]
    BY <1>3 DEF CommitCallback
  <2> QED
    BY <1>1, <1>2, <1>3, <2>1, ClearFields, EndFields
<1>4. CASE txn[s].decision # NoTime
  <2>1. \E result \in SetResults(txn[s].user, txn[s].decision, clock) :
           entries' = result[1] /\ state' = result[2]
    BY <1>4 DEF CommitCallback
  <2>2. txn[s].decision \in Nat
    BY <1>1, <1>4 DEF Time
  <2> QED
    BY <1>1, <1>2, <2>1, <2>2, SetFields, EndFields
<1> QED
  BY <1>3, <1>4

----------------------------------------------------------------------------
(* Types. *)

\* A transaction's step keeps the types, when the rest of the state does.
LEMMA SessionTypes ==
    ASSUME TypeInv, NEW s \in Session, OthersKeep(s),
           txn' \in [Session -> Txn \cup {Idle}],
           s = Worker => txn'[s].pc = "idle" \/ txn'[s].kind \in {"failure", "automatic"},
           clock' \in 0 .. MaxTime, rows' \in [User -> Row],
           entries' \subseteq Entry, IsFiniteSet(entries'), Cardinality(entries') <= Capacity,
           state' \in CacheState, wpc' \in WorkerPC, event' \in Event \cup {NoEvent},
           faults' \in 0 .. MaxFaults, UNCHANGED <<start, prepared, degraded, overwritten>>
    PROVE  TypeInv'
<1>1. txn'[Worker].pc # "idle" => txn'[Worker].kind \in {"failure", "automatic"}
  BY DEF TypeInv, OthersKeep, Session
<1>2. TypeOK'
  BY DEF TypeInv, TypeOK
<1> QED
  BY <1>1, <1>2 DEF TypeInv

LEMMA NothingFits ==
    /\ NothingPrepared \in [entries : SUBSET Entry, overflow : BOOLEAN]
    /\ NothingPrepared.entries = {} /\ IsFiniteSet({}) /\ Cardinality({}) <= Capacity
BY LockoutAssumption, FS_EmptySet DEF NothingPrepared

LEMMA TypeInvInit == Init => TypeInv
<1> SUFFICES ASSUME Init
             PROVE  TypeInv
  OBVIOUS
<1>1. clock \in 0 .. MaxTime /\ start \in Nat /\ faults \in 0 .. MaxFaults
  BY LockoutAssumption DEF Init
<1>2. rows \in [User -> Row]
  BY LockoutAssumption DEF Init, Row, NoRow, Time, NoTime
<1>3. txn \in [Session -> Txn \cup {Idle}] /\ txn[Worker].pc = "idle"
  BY DEF Init, Idle, Session
<1>4. degraded \in BOOLEAN /\ overwritten \in BOOLEAN
  BY Zenon DEF Init
<1>5. state \in CacheState /\ wpc \in WorkerPC /\ event \in Event \cup {NoEvent}
  BY DEF Init, CacheState, WorkerPC
<1> QED
  BY <1>1, <1>2, <1>3, <1>4, <1>5, NothingFits DEF Init, TypeInv, TypeOK

\* What hydration reads fits.
LEMMA PreparedFits ==
    ASSUME TypeInv, ReadLockouts
    PROVE  /\ prepared' \in [entries : SUBSET Entry, overflow : BOOLEAN]
           /\ IsFiniteSet(prepared'.entries) /\ Cardinality(prepared'.entries) <= Capacity
           /\ ~prepared'.overflow =>
                 \A u \in User : rows[u].until > start => EntryOf(u) \in prepared'.entries
<1> USE LockoutAssumption
<1> DEFINE active == {u \in User : rows[u].until > start}
<1>1. PICK loaded \in SUBSET active :
         /\ Cardinality(loaded) = IF Cardinality(active) > Capacity
                                  THEN Capacity ELSE Cardinality(active)
         /\ prepared' = [entries |-> {[user |-> u, expires |-> rows[u].until] : u \in loaded},
                         overflow |-> loaded # active]
  BY DEF ReadLockouts
<1>2. rows \in [User -> Row] /\ start \in Nat
  BY DEF TypeInv, TypeOK
<1>3. \A u \in User : rows[u].until \in Time
  BY <1>2 DEF Row
<1>4. \A u \in active : EntryOf(u) \in Entry
  BY <1>2, <1>3 DEF EntryOf, Entry, Time, NoTime
<1>5. IsFiniteSet(active) /\ IsFiniteSet(loaded)
  BY FS_Subset
<1>6. Cardinality(loaded) \in Nat /\ Cardinality(active) \in Nat
  BY <1>5, FS_CardinalityType
<1>7. Cardinality(loaded) <= Capacity
  BY <1>1, <1>6
<1> DEFINE some == {EntryOf(u) : u \in loaded}
           f == [u \in loaded |-> EntryOf(u)]
<1>8. prepared' = [entries |-> some, overflow |-> loaded # active]
  BY <1>1 DEF EntryOf
<1>9. f \in Surjection(loaded, some)
  BY DEF Surjection
<1>10. IsFiniteSet(some) /\ Cardinality(some) <= Cardinality(loaded)
  <2> HIDE DEF f, some
  <2> QED
    BY <1>5, <1>9, FS_Surjection
<1>11. Cardinality(some) \in Nat
  BY <1>10, FS_CardinalityType
<1>12. Cardinality(some) <= Capacity
  BY <1>6, <1>7, <1>10, <1>11
<1>13. some \subseteq Entry
  BY <1>4
<1> QED
  BY <1>8, <1>10, <1>12, <1>13

LEMMA TypeInvStep ==
    ASSUME TypeInv, [Next]_vars
    PROVE  TypeInv'
<1> USE LockoutAssumption
<1>0. TypeOK /\ IsFiniteSet(entries)
  BY DEF TypeInv
<1>1. ASSUME NEW s \in Session, BeginBackend(s)
      PROVE  TypeInv'
  <2>1. PICK u \in User, k \in {"failure", "forced"} : Begin(s, u, k)
    BY <1>1 DEF BeginBackend
  <2>2. k \in Kind /\ s # Worker
    BY <1>1 DEF Kind, BeginBackend
  <2>3. txn' \in [Session -> Txn \cup {Idle}] /\ OthersKeep(s)
    BY <1>0, <2>1, <2>2, BeginFields
  <2> QED
    BY <1>0, <1>1, <2>2, <2>3, SessionTypes
       DEF BeginBackend, cache, worker, TypeOK
<1>2. ASSUME NEW s \in Session, AdvisoryLock(s)
      PROVE  TypeInv'
  <2>1. /\ txn' \in [Session -> Txn \cup {Idle}] /\ OthersKeep(s)
        /\ txn'[s].kind = txn[s].kind /\ txn[s].pc # "idle"
    BY <1>0, <1>2, LockFields DEF AdvisoryLock
  <2>2. s = Worker => txn'[s].kind \in {"failure", "automatic"}
    BY <2>1 DEF TypeInv
  <2> QED
    BY <1>0, <1>2, <2>1, <2>2, SessionTypes DEF AdvisoryLock, cache, worker, TypeOK
<1>3. ASSUME NEW s \in Session, RecordFailedLogin(s) \/ AutomaticClear(s) \/ ForcedClear(s)
      PROVE  TypeInv'
  <2>1. PICK k \in Kind, row \in Row, d \in Time : ChangeRow(s, k, row, d)
    BY <1>0, <1>3, OperationFields
  <2>2. /\ txn' \in [Session -> Txn \cup {Idle}] /\ OthersKeep(s)
        /\ txn'[s].kind = txn[s].kind /\ txn[s].pc # "idle"
    BY <1>0, <2>1, ChangeFields DEF ChangeRow
  <2>3. s = Worker => txn'[s].kind \in {"failure", "automatic"}
    BY <2>2 DEF TypeInv
  <2> QED
    BY <1>0, <2>1, <2>2, <2>3, SessionTypes DEF ChangeRow, cache, worker, TypeOK
<1>4. ASSUME NEW s \in Session, CommitRow(s)
      PROVE  TypeInv'
  <2>1. /\ txn[s] \in Txn /\ txn' \in [Session -> Txn \cup {Idle}] /\ OthersKeep(s)
        /\ txn'[s].kind = txn[s].kind /\ txn[s].pc # "idle"
    BY <1>0, <1>4, CommitFields DEF CommitRow
  <2>2. s = Worker => txn'[s].kind \in {"failure", "automatic"}
    BY <2>1 DEF TypeInv
  <2>3. rows' \in [User -> Row]
    BY <1>0, <1>4, <2>1 DEF CommitRow, TypeOK, Txn
  <2> QED
    BY <1>0, <1>4, <2>1, <2>2, <2>3, SessionTypes DEF CommitRow, cache, worker, TypeOK
<1>5. ASSUME NEW s \in Session, CommitCallback(s)
      PROVE  TypeInv'
  <2>1. wpc' \in WorkerPC
    BY <1>0, <1>5 DEF CommitCallback, TypeOK, WorkerPC
  <2>2. state' \in CacheState
    BY <1>0, <1>5, CallbackFields DEF TypeOK, CacheState
  <2>3. UNCHANGED <<clock, rows, start, prepared, event, degraded, overwritten, faults>>
    BY <1>5 DEF CommitCallback
  <2> QED
    BY <1>0, <1>5, <2>1, <2>2, <2>3, CallbackFields, SessionTypes DEF TypeOK
<1>6. ASSUME NEW s \in Session, Abort(s)
      PROVE  TypeInv'
  BY <1>0, <1>6, EndFields, SessionTypes DEF Abort, RollBack, cache, worker, TypeOK
<1>7. CASE EventFails
  <2>1. Worker \in Session
    BY DEF Session
  <2>2. txn' = [txn EXCEPT ![Worker] = Idle] /\ txn[Worker].pc # "idle"
    BY <1>7 DEF EventFails, RollBack
  <2>3. txn[Worker] \in Txn /\ txn[Worker].kind \in {"failure", "automatic"}
    BY <1>0, <2>1, <2>2, OpenIsTxn DEF TypeInv
  <2>4. event' \in Event
    BY <1>7, <2>3 DEF EventFails, Event, Txn
  <2>5. faults' \in 0 .. MaxFaults /\ wpc' \in WorkerPC
    BY <1>0, <1>7 DEF EventFails, TypeOK, WorkerPC
  <2> QED
    BY <1>0, <1>7, <2>1, <2>2, <2>4, <2>5, EndFields, SessionTypes
       DEF EventFails, cache, TypeOK
<1>8. CASE BeginEvent
  <2>1. Worker \in Session
    BY DEF Session
  <2>2. PICK e \in Event : Begin(Worker, e.user, e.kind)
    <3>1. PICK e \in IF event = NoEvent THEN Event ELSE {event} : Begin(Worker, e.user, e.kind)
      BY <1>8 DEF BeginEvent
    <3>2. e \in Event
      BY <1>0 DEF TypeOK
    <3> QED
      BY <3>1, <3>2
  <2>3. e.user \in User /\ e.kind \in Kind /\ e.kind \in {"failure", "automatic"}
    BY DEF Event, Kind
  <2>4. /\ txn' \in [Session -> Txn \cup {Idle}] /\ OthersKeep(Worker)
        /\ txn'[Worker].kind \in {"failure", "automatic"}
    BY <1>0, <2>1, <2>2, <2>3, BeginFields
  <2> QED
    BY <1>0, <1>8, <2>1, <2>4, SessionTypes DEF BeginEvent, cache, TypeOK, WorkerPC
<1>9. CASE ReadLockouts
  BY <1>0, <1>9, PreparedFits DEF ReadLockouts, TypeInv, TypeOK, cache, WorkerPC
<1>10. CASE ApplyHydrated
  <2>1. entries' \subseteq prepared.entries /\ prepared \in [entries : SUBSET Entry, overflow : BOOLEAN]
    BY <1>0, <1>10 DEF ApplyHydrated, TypeOK
  <2>2. /\ IsFiniteSet(entries') /\ Cardinality(entries') <= Cardinality(prepared.entries)
        /\ Cardinality(entries') \in Nat /\ Cardinality(prepared.entries) \in Nat
    BY <2>1, FS_Subset, FS_CardinalityType DEF TypeInv
  <2>3. Cardinality(entries') <= Capacity
    BY <2>2 DEF TypeInv
  <2>4. state' \in CacheState /\ wpc' \in WorkerPC /\ start' \in Nat
    BY <1>10 DEF ApplyHydrated, CacheState, WorkerPC
  <2>5. /\ prepared' \in [entries : SUBSET Entry, overflow : BOOLEAN]
        /\ IsFiniteSet(prepared'.entries) /\ Cardinality(prepared'.entries) <= Capacity
    BY <1>10, FS_EmptySet DEF ApplyHydrated, NothingPrepared
  <2>6. UNCHANGED <<clock, rows, txn, event, degraded, faults>>
    BY <1>10 DEF ApplyHydrated
  <2>7. overwritten' \in BOOLEAN
    BY <1>10, Zenon DEF ApplyHydrated
  <2> QED
    BY <1>0, <2>1, <2>2, <2>3, <2>4, <2>5, <2>6, <2>7 DEF TypeInv, TypeOK
<1>11. CASE HydrationFails
  BY <1>0, <1>11, FS_EmptySet
     DEF HydrationFails, TypeInv, TypeOK, NothingPrepared, CacheState, WorkerPC
<1>12. CASE Crash
  <2>1. txn' \in [Session -> Txn \cup {Idle}] /\ txn'[Worker].pc = "idle"
    BY <1>12 DEF Crash, Idle, Session
  <2>2. degraded' \in BOOLEAN /\ overwritten' \in BOOLEAN
    BY <1>12, Zenon DEF Crash, LeaveLoop
  <2>3. state' \in CacheState /\ wpc' \in WorkerPC /\ faults' \in 0 .. MaxFaults
    BY <1>0, <1>12 DEF Crash, LeaveLoop, TypeOK, CacheState, WorkerPC
  <2>4. /\ UNCHANGED <<clock, rows>> /\ entries' = {} /\ start' \in Nat
        /\ prepared' = NothingPrepared /\ event' = NoEvent
    BY <1>12 DEF Crash, LeaveLoop
  <2> QED
    BY <1>0, <2>1, <2>2, <2>3, <2>4, NothingFits DEF TypeInv, TypeOK
<1>13. CASE BeginHydration \/ Rehydrate \/ Mark \/ MarkFailed \/ Restore \/ RestoreReady
  <2>1. degraded' \in BOOLEAN /\ overwritten' \in BOOLEAN
    BY <1>0, <1>13, Zenon
       DEF BeginHydration, Rehydrate, LeaveLoop, Mark, MarkFailed, Restore, RestoreReady, TypeOK
  <2>2. /\ UNCHANGED <<clock, rows, txn, entries, prepared, faults>>
        /\ start' \in {start, clock} /\ event' \in {event, NoEvent}
        /\ state' \in {state, "WorkerFailed", "Ready"}
    BY <1>13
       DEF BeginHydration, Rehydrate, LeaveLoop, Mark, MarkFailed, Restore, RestoreReady, cache
  <2>3. wpc' \in WorkerPC
    BY <1>13
       DEF BeginHydration, Rehydrate, LeaveLoop, Mark, MarkFailed, Restore, RestoreReady, WorkerPC
  <2> QED
    BY <1>0, <2>1, <2>2, <2>3 DEF TypeInv, TypeOK, CacheState
<1>14. CASE Tick \/ UNCHANGED vars
  BY <1>0, <1>14 DEF Tick, vars, cache, worker, TypeInv, TypeOK
<1> QED
  BY <1>1, <1>2, <1>3, <1>4, <1>5, <1>6, <1>7, <1>8, <1>9, <1>10, <1>11, <1>12, <1>13, <1>14
     DEF Next, SessionStep, WorkerStep

\* The cache never has more entries than slots, and every value keeps its type.
THEOREM TypeCorrect == Spec => []TypeOK
<1>1. TypeInv /\ [Next]_vars => TypeInv'
  BY TypeInvStep
<1>2. TypeInv => TypeOK
  BY DEF TypeInv
<1> QED
  BY <1>1, <1>2, TypeInvInit, PTL DEF Spec

----------------------------------------------------------------------------
(* The threshold. *)

LEMMA ThresholdStep ==
    ASSUME MaxFails >= 2, TypeInv, ThresholdInv, [Next]_vars
    PROVE  ThresholdInv'
<1> USE LockoutAssumption DEF ThresholdInv, Writing
<1>0. TypeOK /\ IsFiniteSet(entries) /\ Worker \in Session
  BY DEF TypeInv, Session
<1>1. ASSUME NEW s \in Session, OthersKeep(s), ~Writing(s)', UNCHANGED rows
      PROVE  ThresholdInv'
  BY <1>1 DEF OthersKeep, Locks
<1>2. ASSUME NEW s \in Session, BeginBackend(s)
      PROVE  ThresholdInv'
  <2>1. PICK u \in User, k \in {"failure", "forced"} : Begin(s, u, k)
    BY <1>2 DEF BeginBackend
  <2>2. k \in Kind
    BY DEF Kind
  <2>3. OthersKeep(s) /\ txn'[s].pc = "begun"
    BY <1>0, <2>1, <2>2, BeginFields
  <2> QED
    BY <1>1, <1>2, <2>3 DEF BeginBackend
<1>3. ASSUME NEW s \in Session, AdvisoryLock(s)
      PROVE  ThresholdInv'
  BY <1>0, <1>1, <1>3, LockFields DEF AdvisoryLock
<1>4. ASSUME NEW s \in Session, RecordFailedLogin(s) \/ AutomaticClear(s) \/ ForcedClear(s)
      PROVE  ThresholdInv'
  <2>1. PICK k \in Kind, row \in Row, d \in Time :
           /\ ChangeRow(s, k, row, d)
           /\ Locks(rows[txn[s].user]) => Locks(row)
    BY <1>0, <1>4, OperationFields
  <2>2. txn[s] \in Txn /\ OthersKeep(s) /\ txn'[s].row = row
    BY <1>0, <2>1, ChangeFields
  <2>3. Locks(row)
    BY <2>1, <2>2 DEF Txn
  <2>4. UNCHANGED rows
    BY <2>1 DEF ChangeRow
  <2> QED
    BY <2>2, <2>3, <2>4 DEF OthersKeep, Locks
<1>5. ASSUME NEW s \in Session, CommitRow(s)
      PROVE  ThresholdInv'
  <2>1. /\ txn[s] \in Txn /\ OthersKeep(s) /\ txn'[s].row = txn[s].row
        /\ txn[s].user \in User
    BY <1>0, <1>5, CommitFields DEF Txn
  <2>2. Locks(txn[s].row)
    BY <1>5 DEF CommitRow
  <2>3. \A u \in User : Locks(rows'[u])
    BY <1>0, <1>5, <2>1, <2>2 DEF CommitRow, TypeOK
  <2> QED
    BY <2>1, <2>2, <2>3 DEF OthersKeep, Locks
<1>6. ASSUME NEW s \in Session, CommitCallback(s)
      PROVE  ThresholdInv'
  BY <1>0, <1>1, <1>6, CallbackFields DEF CommitCallback
<1>7. ASSUME NEW s \in Session, Abort(s)
      PROVE  ThresholdInv'
  BY <1>0, <1>1, <1>7, EndFields DEF Abort, RollBack
<1>8. CASE EventFails
  BY <1>0, <1>1, <1>8, EndFields DEF EventFails, RollBack
<1>9. CASE BeginEvent
  <2>1. PICK e \in Event : Begin(Worker, e.user, e.kind)
    BY <1>0, <1>9 DEF BeginEvent, TypeOK
  <2>2. e.user \in User /\ e.kind \in Kind
    BY DEF Event, Kind
  <2>3. OthersKeep(Worker) /\ txn'[Worker].pc = "begun"
    BY <1>0, <2>1, <2>2, BeginFields
  <2> QED
    BY <1>0, <1>1, <1>9, <2>3 DEF BeginEvent
<1>10. CASE Crash
  BY <1>10 DEF Crash, Idle, Locks
<1>11. CASE UNCHANGED <<rows, txn>>
  BY <1>11 DEF Locks
<1>12. \/ UNCHANGED <<rows, txn>> \/ Crash \/ EventFails \/ BeginEvent
       \/ \E s \in Session : \/ BeginBackend(s) \/ SessionStep(s) \/ Abort(s)
  BY DEF Next, WorkerStep, Tick, vars, BeginHydration, ReadLockouts, ApplyHydrated, Mark,
         MarkFailed, Restore, RestoreReady, Rehydrate, HydrationFails
<1> QED
  BY <1>2, <1>3, <1>4, <1>5, <1>6, <1>7, <1>8, <1>9, <1>10, <1>11, <1>12 DEF SessionStep

\* With a threshold of two or more, a row that has that many failures has been
\* given a lockout: whatever sessions interleave, and whether the failures come
\* from SQL or from the queue.  (With a threshold of one the INSERT of the first
\* failure leaves the lockout NULL.)
THEOREM ThresholdLocksThm ==
    ASSUME MaxFails >= 2
    PROVE  Spec => []ThresholdLocks
<1>1. Init => ThresholdInv
  BY LockoutAssumption DEF Init, ThresholdInv, Locks, Writing, NoRow, Idle
<1>2. TypeInv /\ [Next]_vars => TypeInv'
  BY TypeInvStep
<1>3. TypeInv /\ ThresholdInv /\ [Next]_vars => ThresholdInv'
  BY ThresholdStep
<1>4. ThresholdInv => ThresholdLocks
  BY DEF ThresholdInv, ThresholdLocks, Locks
<1> QED
  BY <1>1, <1>2, <1>3, <1>4, TypeInvInit, PTL DEF Spec

----------------------------------------------------------------------------
(* The cache covers the lockouts. *)

LEMMA OneHolderStep ==
    ASSUME OneHolder, NEW s \in Session, OthersKeep(s),
           Holding(s)' => \/ Holding(s) /\ txn'[s].user = txn[s].user
                          \/ \A t \in Session \ {s} : Holding(t) => txn[t].user # txn'[s].user
    PROVE  OneHolder'
<1> SUFFICES ASSUME NEW t \in Session, NEW u \in Session, Holding(t)', Holding(u)',
                    txn'[t].user = txn'[u].user, t # u
             PROVE  FALSE
  BY DEF OneHolder
<1>1. \A v \in Session \ {s} : txn'[v] = txn[v] /\ (Holding(v)' => Holding(v))
  BY DEF OthersKeep, Holding
<1>2. CASE t = s
  BY <1>1, <1>2 DEF OneHolder
<1>3. CASE u = s
  BY <1>1, <1>3 DEF OneHolder
<1>4. CASE t # s /\ u # s
  BY <1>1, <1>4 DEF OneHolder
<1> QED
  BY <1>2, <1>3, <1>4

\* A step of one session that touches neither the table nor the cache, and that
\* gives nobody a settled row.
LEMMA SessionKeepsCache ==
    ASSUME CacheInv, NEW s \in Session, OthersKeep(s), OneHolder', Decided(s)',
           txn[s].pc # "committed", txn'[s].pc # "committed", ~Writing(s)' \/ wpc # "apply",
           UNCHANGED <<clock, rows, entries, state, start, prepared, degraded, overwritten>>,
           wpc' = wpc \/ wpc' \in {"txn", "mark"}
    PROVE  CacheInv'
<1>1. ASSUME NEW t \in Session
      PROVE  Decided(t)' /\ RowCommitted(t)'
  BY DEF CacheInv, Decided, RowCommitted, OthersKeep, Writing
<1>2. ReadStands'
  BY DEF CacheInv, ReadStands, EntryOf, OthersKeep, Writing
<1>3. \A u \in User : Settled(u)' => Settled(u)
  BY DEF Settled, OthersKeep
<1>4. Trusted' => Trusted
  BY DEF Trusted
<1>5. Covered => Covered'
  BY <1>3 DEF Covered, EntryOf
<1> QED
  BY <1>1, <1>2, <1>4, <1>5 DEF CacheInv

LEMMA OperationKeepsCache ==
    ASSUME TypeInv, CacheInv, NEW s \in Session,
           RecordFailedLogin(s) \/ AutomaticClear(s) \/ ForcedClear(s)
    PROVE  CacheInv'
<1>0. TypeOK
  BY DEF TypeInv
<1>1. PICK k \in Kind, row \in Row, d \in Time :
         /\ ChangeRow(s, k, row, d)
         /\ d = row.until \/ (d = NoTime /\ row.until <= clock)
  BY <1>0, OperationFields
<1>2. /\ OthersKeep(s) /\ txn'[s].pc = "staged" /\ txn'[s].user = txn[s].user
      /\ txn'[s].row = row /\ txn'[s].decision = d
  BY <1>0, <1>1, ChangeFields
<1>3. /\ txn[s].pc = "locked" /\ wpc # "apply"
      /\ UNCHANGED <<clock, rows, entries, state, wpc, start, prepared, degraded, overwritten>>
  BY <1>1 DEF ChangeRow, cache, worker
<1>4. OneHolder'
  BY <1>2, <1>3, OneHolderStep DEF CacheInv, Holding
<1>5. Decided(s)'
  BY <1>1, <1>2, <1>3 DEF Decided
<1> QED
  BY <1>2, <1>3, <1>4, <1>5, SessionKeepsCache

\* The committed user is unsettled until the callback.
LEMMA CommitKeepsCache ==
    ASSUME TypeInv, CacheInv, NEW s \in Session, CommitRow(s)
    PROVE  CacheInv'
<1>0. TypeOK
  BY DEF TypeInv
<1>1. /\ txn[s] \in Txn /\ OthersKeep(s) /\ txn'[s].pc = "committed"
      /\ txn'[s].user = txn[s].user /\ txn'[s].row = txn[s].row
      /\ txn'[s].decision = txn[s].decision /\ txn[s].user \in User
  BY <1>0, CommitFields DEF Txn
<1>2. /\ txn[s].pc = "staged" /\ rows' = [rows EXCEPT ![txn[s].user] = txn[s].row]
      /\ UNCHANGED <<clock, entries, state, wpc, start, prepared, degraded, overwritten>>
  BY DEF CommitRow, cache, worker
<1>3. /\ rows'[txn[s].user] = txn[s].row
      /\ \A u \in User \ {txn[s].user} : rows'[u] = rows[u]
  BY <1>0, <1>1, <1>2 DEF TypeOK
<1>4. OneHolder'
  BY <1>1, <1>2, OneHolderStep DEF CacheInv, Holding
<1>5. ASSUME NEW t \in Session
      PROVE  Decided(t)' /\ RowCommitted(t)'
  <2>1. CASE t = s
    BY <1>1, <1>2, <1>3, <2>1 DEF CacheInv, Decided, RowCommitted, Writing
  <2>2. CASE t # s
    <3>1. txn'[t] = txn[t] /\ Decided(t) /\ RowCommitted(t)
      BY <1>1, <2>2 DEF OthersKeep, CacheInv
    <3>2. txn[t].pc = "committed" => txn[t].user \in User \ {txn[s].user}
      <4> SUFFICES ASSUME txn[t].pc = "committed"
                   PROVE  txn[t].user \in User \ {txn[s].user}
        OBVIOUS
      <4>1. txn[t].user \in User
        BY <1>0, OpenIsTxn DEF Txn
      <4> QED
        BY <1>2, <2>2, <4>1 DEF CacheInv, OneHolder, Holding
    <3> QED
      BY <1>2, <1>3, <3>1, <3>2 DEF Decided, RowCommitted, Writing
  <2> QED
    BY <2>1, <2>2
<1>6. ReadStands'
  <2>1. wpc # "apply"
    BY <1>2 DEF CacheInv, ReadStands, Writing
  <2> QED
    BY <1>2, <2>1 DEF CacheInv, ReadStands
<1>7. Covered => Covered'
  <2> SUFFICES ASSUME Covered, NEW u \in User, rows'[u].until > clock, Settled(u)'
               PROVE  EntryOf(u)' \in entries
    BY <1>2 DEF Covered
  <2>1. u # txn[s].user
    BY <1>1 DEF Settled
  <2>2. Settled(u)
    BY <1>1, <1>2 DEF Settled, OthersKeep
  <2> QED
    BY <1>3, <2>1, <2>2 DEF Covered, EntryOf
<1>8. Trusted' => Trusted
  BY <1>2 DEF Trusted
<1> QED
  BY <1>2, <1>4, <1>5, <1>6, <1>7, <1>8 DEF CacheInv

\* The callback settles the user: the cache has the row's lockout, or has overflowed.
LEMMA CallbackKeepsCache ==
    ASSUME TypeInv, CacheInv, NEW s \in Session, CommitCallback(s)
    PROVE  CacheInv'
<1>0. TypeOK /\ IsFiniteSet(entries) /\ clock \in Nat /\ rows \in [User -> Row]
  BY LockoutAssumption DEF TypeInv, TypeOK
<1>1. /\ txn[s] \in Txn /\ OthersKeep(s) /\ txn'[s].pc = "idle"
      /\ state' \in {state, "Overflow"}
      /\ \A e \in entries : e.user # txn[s].user /\ Active(e, clock) => e \in entries'
      /\ txn[s].decision # NoTime /\ txn[s].decision > clock /\ state' # "Overflow"
         => [user |-> txn[s].user, expires |-> txn[s].decision] \in entries'
  BY <1>0, CallbackFields
<1>2. /\ txn[s].pc = "committed"
      /\ wpc' = wpc \/ wpc' \in {"loop", "restore"}
      /\ UNCHANGED <<clock, rows, start, prepared, degraded, overwritten>>
  BY DEF CommitCallback
<1>3. OneHolder'
  BY <1>1, OneHolderStep DEF CacheInv, Holding
<1>4. ASSUME NEW t \in Session
      PROVE  Decided(t)' /\ RowCommitted(t)'
  BY <1>1, <1>2 DEF CacheInv, Decided, RowCommitted, OthersKeep, Writing
<1>5. ReadStands'
  BY <1>1, <1>2 DEF CacheInv, ReadStands, Writing
<1>6. Trusted' => Trusted /\ state' # "Overflow"
  BY <1>1, <1>2 DEF Trusted
<1>8. ASSUME Trusted'
      PROVE  Covered'
  <2> SUFFICES ASSUME NEW u \in User, rows[u].until > clock, Settled(u)'
               PROVE  EntryOf(u) \in entries'
    BY <1>2 DEF Covered, EntryOf
  <2>1. CASE u = txn[s].user
    <3>1. rows[u] = txn[s].row /\ Decided(s)
      BY <1>2, <2>1 DEF CacheInv, RowCommitted
    <3>2. rows[u].until \in Time
      BY <1>0 DEF Row
    <3>3. txn[s].decision = rows[u].until
      BY <1>0, <1>2, <3>1, <3>2 DEF Decided, Writing, Time, NoTime
    <3>4. txn[s].decision # NoTime
      BY <1>0, <3>2, <3>3 DEF NoTime
    <3> QED
      BY <1>1, <1>6, <1>8, <2>1, <3>3, <3>4 DEF EntryOf
  <2>2. CASE u # txn[s].user
    <3>1. Settled(u)
      BY <1>1, <2>2 DEF Settled, OthersKeep
    <3>2. EntryOf(u) \in entries
      BY <1>6, <1>8, <3>1 DEF CacheInv, Covered
    <3>3. EntryOf(u).user = u /\ Active(EntryOf(u), clock)
      BY DEF EntryOf, Active
    <3> QED
      BY <1>1, <2>2, <3>2, <3>3
  <2> QED
    BY <2>1, <2>2
<1> QED
  BY <1>3, <1>4, <1>5, <1>8 DEF CacheInv

\* The worker's own steps.
LEMMA WorkerKeepsCache ==
    ASSUME TypeInv, CacheInv,
           BeginHydration \/ HydrationFails \/ Rehydrate \/ Mark \/ MarkFailed
           \/ Restore \/ RestoreReady
    PROVE  CacheInv'
<1>1. UNCHANGED <<clock, rows, txn, entries>>
  BY DEF BeginHydration, HydrationFails, Rehydrate, Mark, MarkFailed, Restore, RestoreReady,
         cache
<1>2. OneHolder' /\ \A s \in Session : Decided(s)' /\ RowCommitted(s)'
  BY <1>1 DEF CacheInv, OneHolder, Holding, Decided, RowCommitted, Writing
<1>3. ReadStands'
  BY <1>1 DEF TypeInv, TypeOK, ReadStands, BeginHydration, HydrationFails, Rehydrate,
              LeaveLoop, Mark, MarkFailed, Restore, RestoreReady
<1>4. Trusted' => Trusted
  <2>1. CASE MarkFailed
    BY <2>1 DEF MarkFailed, CacheInv, Trusted
  <2>2. CASE HydrationFails \/ Rehydrate
    BY <2>2 DEF HydrationFails, Rehydrate, LeaveLoop, Trusted, cache
  <2>3. CASE BeginHydration \/ Mark
    BY <2>3 DEF BeginHydration, Mark, Trusted, cache
  <2>4. CASE Restore
    BY <2>4 DEF Restore, Trusted, cache
  <2>5. CASE RestoreReady
    BY <2>5 DEF RestoreReady, Trusted
  <2> QED
    BY <2>1, <2>2, <2>3, <2>4, <2>5
<1>5. Covered => Covered'
  BY <1>1 DEF Covered, EntryOf, Settled
<1> QED
  BY <1>2, <1>3, <1>4, <1>5 DEF CacheInv

\* Reading under the SHARE lock, and applying what was read.
LEMMA HydrationKeepsCache ==
    ASSUME TypeInv, CacheInv, ReadLockouts \/ ApplyHydrated
    PROVE  CacheInv'
<1>0. TypeOK /\ clock \in Nat /\ start \in Nat /\ rows \in [User -> Row]
  BY LockoutAssumption DEF TypeInv, TypeOK
<1>1. UNCHANGED <<clock, rows, txn>> /\ wpc' \in {"apply", "loop"}
  BY DEF ReadLockouts, ApplyHydrated
<1>2. OneHolder' /\ \A s \in Session : Decided(s)' /\ RowCommitted(s)'
  BY <1>1 DEF CacheInv, OneHolder, Holding, Decided, RowCommitted, Writing
<1>3. CASE ReadLockouts
  <2>1. UNCHANGED <<entries, state, start, degraded, overwritten>> /\ wpc' = "apply"
    BY <1>3 DEF ReadLockouts, cache
  <2>2. ReadStands'
    <3>1. \A s \in Session : ~Writing(s)'
      BY <1>1, <1>3 DEF ReadLockouts, CanLockTable, Writers, Writing
    <3>2. start' <= clock'
      BY <1>1, <1>3, <2>1 DEF ReadLockouts, CacheInv, ReadStands
    <3>3. ~prepared'.overflow =>
             \A u \in User : rows[u].until > start => EntryOf(u) \in prepared'.entries
      BY <1>3, PreparedFits
    <3> QED
      BY <1>1, <2>1, <3>1, <3>2, <3>3 DEF ReadStands, EntryOf
  <2>3. (Trusted' => Trusted) /\ (Covered => Covered')
    BY <1>1, <2>1 DEF Trusted, Covered, EntryOf, Settled
  <2> QED
    BY <1>2, <2>1, <2>2, <2>3 DEF CacheInv
<1>4. CASE ApplyHydrated
  <2>1. /\ wpc = "apply" /\ wpc' = "loop"
        /\ entries' = {e \in prepared.entries : Active(e, clock)}
        /\ state' = IF prepared.overflow THEN "Overflow" ELSE "Ready"
    BY <1>4 DEF ApplyHydrated
  <2>2. Trusted' => ~prepared.overflow
    BY <2>1 DEF Trusted
  <2>3. ASSUME ~prepared.overflow
        PROVE  Covered'
    <3> SUFFICES ASSUME NEW u \in User, rows[u].until > clock
                 PROVE  EntryOf(u) \in entries'
      BY <1>1 DEF Covered, EntryOf
    <3>1. start <= clock /\ rows[u].until \in Int
      BY <1>0, <2>1 DEF CacheInv, ReadStands, Row, Time, NoTime
    <3>2. rows[u].until > start
      BY <1>0, <3>1
    <3>3. EntryOf(u) \in prepared.entries
      BY <2>1, <2>3, <3>2 DEF CacheInv, ReadStands
    <3>4. Active(EntryOf(u), clock)
      BY DEF Active, EntryOf
    <3> QED
      BY <2>1, <3>3, <3>4
  <2> QED
    BY <1>2, <2>1, <2>2, <2>3 DEF CacheInv, ReadStands
<1> QED
  BY <1>3, <1>4

LEMMA CacheInvStep ==
    ASSUME TypeInv, CacheInv, [Next]_vars
    PROVE  CacheInv'
<1> USE LockoutAssumption
<1>0. TypeOK /\ Worker \in Session /\ clock \in Nat /\ rows \in [User -> Row]
  BY DEF TypeInv, TypeOK, Session
<1>1. ASSUME NEW s \in Session, BeginBackend(s)
      PROVE  CacheInv'
  <2>1. PICK u \in User, k \in {"failure", "forced"} : Begin(s, u, k)
    BY <1>1 DEF BeginBackend
  <2>2. k \in Kind /\ txn[s].pc = "idle"
    BY <2>1 DEF Kind, Begin, Idle
  <2>3. OthersKeep(s) /\ txn'[s].pc = "begun"
    BY <1>0, <2>1, <2>2, BeginFields
  <2>4. OneHolder' /\ Decided(s)'
    BY <2>3, OneHolderStep DEF CacheInv, Holding, Decided, Writing
  <2> QED
    BY <1>1, <2>2, <2>3, <2>4, SessionKeepsCache DEF BeginBackend, cache, worker, Writing
<1>2. ASSUME NEW s \in Session, AdvisoryLock(s)
      PROVE  CacheInv'
  <2>1. OthersKeep(s) /\ txn'[s].pc = "locked" /\ txn'[s].user = txn[s].user
    BY <1>0, <1>2, LockFields
  <2>2. \A t \in Session : Holding(t) => txn[t].user # txn[s].user
    BY <1>2 DEF AdvisoryLock, Holders, Holding
  <2>3. OneHolder' /\ Decided(s)'
    BY <2>1, <2>2, OneHolderStep DEF CacheInv, Decided, Writing
  <2> QED
    BY <1>2, <2>1, <2>3, SessionKeepsCache DEF AdvisoryLock, cache, worker, Writing
<1>3. ASSUME NEW s \in Session, RollBack(s),
             UNCHANGED <<clock, rows, entries, state, start, prepared, degraded, overwritten>>,
             wpc' = wpc \/ wpc' \in {"txn", "mark"}
      PROVE  CacheInv'
  <2>1. OthersKeep(s) /\ txn'[s].pc = "idle" /\ txn[s].pc # "committed"
    BY <1>0, <1>3, EndFields DEF RollBack
  <2>2. OneHolder' /\ Decided(s)'
    BY <2>1, OneHolderStep DEF CacheInv, Holding, Decided, Writing
  <2> QED
    BY <1>3, <2>1, <2>2, SessionKeepsCache DEF Writing
<1>4. ASSUME NEW s \in Session, Abort(s)
      PROVE  CacheInv'
  BY <1>3, <1>4 DEF Abort, cache, worker
<1>5. CASE EventFails
  BY <1>0, <1>3, <1>5 DEF EventFails, cache
<1>6. CASE BeginEvent
  <2>1. PICK e \in Event : Begin(Worker, e.user, e.kind)
    BY <1>0, <1>6 DEF BeginEvent, TypeOK
  <2>2. e.user \in User /\ e.kind \in Kind /\ txn[Worker].pc = "idle"
    BY <2>1 DEF Event, Kind, Begin, Idle
  <2>3. OthersKeep(Worker) /\ txn'[Worker].pc = "begun"
    BY <1>0, <2>1, <2>2, BeginFields
  <2>4. OneHolder' /\ Decided(Worker)'
    BY <1>0, <2>3, OneHolderStep DEF CacheInv, Holding, Decided, Writing
  <2> QED
    BY <1>0, <1>6, <2>2, <2>3, <2>4, SessionKeepsCache DEF BeginEvent, cache, Writing
<1>7. CASE Crash
  <2>1. \A s \in Session : txn'[s].pc = "idle"
    BY <1>7 DEF Crash, Idle
  <2>2. OneHolder' /\ \A s \in Session : Decided(s)' /\ RowCommitted(s)'
    BY <2>1 DEF OneHolder, Holding, Decided, RowCommitted, Writing
  <2>3. state' = "NotReady" /\ wpc' = "hydrate"
    BY <1>7 DEF Crash, LeaveLoop
  <2> QED
    BY <2>2, <2>3 DEF CacheInv, ReadStands, Trusted
<1>8. CASE Tick
  <2>1. clock' = clock + 1
    BY <1>8 DEF Tick
  <2>2. UNCHANGED <<rows, txn, entries, state, wpc, start, prepared, degraded, overwritten>>
    BY <1>8 DEF Tick, cache, worker
  <2>3. OneHolder' /\ (Trusted' => Trusted)
    BY <2>2 DEF CacheInv, OneHolder, Holding, Trusted
  <2>4. ASSUME NEW s \in Session
        PROVE  Decided(s)' /\ RowCommitted(s)'
    <3>1. Writing(s) => txn[s].row.until \in Int
      BY <1>0, OpenIsTxn DEF Writing, Txn, Row, Time, NoTime
    <3>2. Decided(s) /\ RowCommitted(s)
      BY DEF CacheInv
    <3> QED
      BY <1>0, <2>1, <2>2, <3>1, <3>2 DEF Decided, RowCommitted, Writing
  <2>5. ReadStands'
    BY <1>0, <2>1, <2>2 DEF CacheInv, ReadStands, Writing, EntryOf, TypeOK
  <2>6. Covered => Covered'
    <3>1. \A u \in User : rows[u].until \in Int
      BY <1>0 DEF Row, Time, NoTime
    <3> QED
      BY <1>0, <2>1, <2>2, <3>1 DEF Covered, EntryOf, Settled
  <2> QED
    BY <2>2, <2>3, <2>4, <2>5, <2>6 DEF CacheInv
<1>9. CASE UNCHANGED vars
  <2>1. UNCHANGED <<clock, rows, txn, entries, state, wpc, start, prepared, degraded, overwritten>>
    BY <1>9 DEF vars, cache, worker
  <2>2. OneHolder' /\ \A s \in Session : Decided(s)' /\ RowCommitted(s)'
    BY <2>1 DEF CacheInv, OneHolder, Holding, Decided, RowCommitted, Writing
  <2>3. ReadStands' /\ (Trusted' => Trusted) /\ (Covered => Covered')
    BY <2>1 DEF CacheInv, ReadStands, Writing, Trusted, Covered, EntryOf, Settled
  <2> QED
    BY <2>1, <2>2, <2>3 DEF CacheInv
<1> QED
  BY <1>1, <1>2, <1>4, <1>5, <1>6, <1>7, <1>8, <1>9, OperationKeepsCache, CommitKeepsCache,
     CallbackKeepsCache, WorkerKeepsCache, HydrationKeepsCache
     DEF Next, SessionStep, WorkerStep

\* The inductive invariant of the lock cache.
THEOREM CacheInductive ==
    Spec => [](TypeInv /\ CacheInv)
<1>1. Init => CacheInv
  BY DEF Init, CacheInv, OneHolder, Holding, ReadStands, Decided, RowCommitted, Writing,
         Trusted, Idle
<1>2. TypeInv /\ [Next]_vars => TypeInv'
  BY TypeInvStep
<1>3. TypeInv /\ CacheInv /\ [Next]_vars => CacheInv'
  BY CacheInvStep
<1> QED
  BY <1>1, <1>2, <1>3, TypeInvInit, PTL DEF Spec

\* While the cache is Ready it has the lockout of every locked user whose commit
\* callback is done, whatever sessions, hydrations, retries of events and crashes
\* interleave, and until a write of DegradedByRetry::mark or ::restore hides an
\* Overflow that a commit recorded between its two lock sections.
THEOREM ReadyCoversLockoutsThm ==
    Spec => []ReadyCoversLockouts
<1>1. CacheInv => ReadyCoversLockouts
  BY DEF CacheInv, Trusted, Covered, EntryOf, ReadyCoversLockouts
<1> QED
  BY <1>1, CacheInductive, PTL

=============================================================================
