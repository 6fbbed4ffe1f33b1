------------------------ MODULE PasswordChangeProofs ------------------------
(***************************************************************************)
(* Proofs about PasswordChange, for any number of sessions, passwords and  *)
(* changes.                                                                *)
(***************************************************************************)
EXTENDS PasswordChange, FiniteSetTheorems, TLAPS

Open(s) == txn[s].pc # "idle"

\* A transaction that has recorded a password and not committed holds a later
\* generation than the committed one, unless it has deleted the row.
StagedIsLater ==
    \A s \in Session : Open(s) /\ txn[s].wrote => txn[s].expiry > expiry \/ txn[s].cleared

----------------------------------------------------------------------------
(* The steps, transaction by transaction. *)

\* The transactions of the other sessions stay as they are.
OthersKeep(s) == \A t \in Session \ {s} : txn'[t] = txn[t]

LEMMA OpenIsTxn ==
    ASSUME TypeOK, NEW s \in Session, txn[s].pc # "idle"
    PROVE  txn[s] \in Txn
BY DEF TypeOK, Idle

LEMMA BeginFields ==
    ASSUME TypeOK, NEW s \in Session, Begin(s)
    PROVE  /\ txn' \in [Session -> Txn \cup {Idle}] /\ OthersKeep(s)
           /\ txn'[s].pc = "open" /\ txn'[s].kind = None /\ txn'[s].start = clock
           /\ txn'[s].seen = 0 /\ txn'[s].rows = {} /\ ~txn'[s].wrote
           /\ txn'[s].changes = <<>>
<1> DEFINE t == [pc |-> "open", kind |-> None, start |-> clock, pw |-> None, seen |-> 0,
                 rows |-> {}, expiry |-> NoRow, wrote |-> FALSE, cleared |-> FALSE,
                 changes |-> <<>>]
<1>1. t \in Txn
  BY PasswordAssumption DEF Txn, TxnPC, NoRow, None, TypeOK
<1>2. txn' = [txn EXCEPT ![s] = t]
  BY DEF Begin
<1> QED
  BY <1>1, <1>2 DEF TypeOK, OthersKeep

LEMMA ValidateFields ==
    ASSUME TypeOK, NEW s \in Session, Validate(s)
    PROVE  /\ txn[s] \in Txn /\ txn' \in [Session -> Txn \cup {Idle}] /\ OthersKeep(s)
           /\ txn'[s].pc = "validated" /\ txn'[s].kind = "alter"
           /\ txn'[s].pw \in Password /\ Accepted(s, txn'[s].pw) /\ txn'[s].seen = version
           /\ txn'[s].start = txn[s].start /\ txn'[s].rows = txn[s].rows
           /\ txn'[s].expiry = txn[s].expiry /\ txn'[s].wrote = txn[s].wrote
           /\ txn'[s].changes = txn[s].changes /\ txn'[s].cleared = txn[s].cleared
<1>1. txn[s] \in Txn
  BY OpenIsTxn DEF Validate
<1>2. PICK pw \in Password :
         /\ Accepted(s, pw)
         /\ txn' = [txn EXCEPT ![s].pc = "validated", ![s].kind = "alter",
                                ![s].pw = pw, ![s].seen = version]
  BY DEF Validate
<1> DEFINE t == [txn[s] EXCEPT !.pc = "validated", !.kind = "alter", !.pw = pw, !.seen = version]
<1>3. txn' = [txn EXCEPT ![s] = t]
  BY <1>2 DEF TypeOK
<1>4. t \in Txn
  BY <1>1 DEF Txn, TxnPC, Kind, TypeOK
<1>5. txn'[s] = t /\ OthersKeep(s) /\ txn' \in [Session -> Txn \cup {Idle}]
  BY <1>3, <1>4 DEF TypeOK, OthersKeep
<1> QED
  BY <1>1, <1>2, <1>5 DEF Txn

LEMMA SkipFields ==
    ASSUME TypeOK, NEW s \in Session, Skip(s)
    PROVE  /\ txn[s] \in Txn /\ txn' \in [Session -> Txn \cup {Idle}] /\ OthersKeep(s)
           /\ txn'[s].pc = "validated" /\ txn'[s].kind = "manual"
           /\ txn'[s].pw \in Password /\ txn'[s].seen = txn[s].seen
           /\ txn'[s].start = txn[s].start /\ txn'[s].rows = txn[s].rows
           /\ txn'[s].expiry = txn[s].expiry /\ txn'[s].wrote = txn[s].wrote
           /\ txn'[s].changes = txn[s].changes /\ txn'[s].cleared = txn[s].cleared
<1>1. txn[s] \in Txn
  BY OpenIsTxn DEF Skip
<1>2. PICK pw \in Password :
         txn' = [txn EXCEPT ![s].pc = "validated", ![s].kind = "manual", ![s].pw = pw]
  BY DEF Skip
<1> DEFINE t == [txn[s] EXCEPT !.pc = "validated", !.kind = "manual", !.pw = pw]
<1>3. txn' = [txn EXCEPT ![s] = t]
  BY <1>2 DEF TypeOK
<1>4. t \in Txn
  BY <1>1 DEF Txn, TxnPC, Kind, TypeOK
<1>5. txn'[s] = t /\ OthersKeep(s) /\ txn' \in [Session -> Txn \cup {Idle}]
  BY <1>3, <1>4 DEF TypeOK, OthersKeep
<1> QED
  BY <1>1, <1>5 DEF Txn

LEMMA LockFields ==
    ASSUME TypeOK, NEW s \in Session, Lock(s)
    PROVE  /\ txn[s] \in Txn /\ txn' \in [Session -> Txn \cup {Idle}] /\ OthersKeep(s)
           /\ txn'[s].pc = "locked" /\ txn'[s].kind = txn[s].kind
           /\ txn'[s].pw = txn[s].pw /\ txn'[s].seen = txn[s].seen
           /\ txn'[s].start = txn[s].start /\ txn'[s].rows = txn[s].rows
           /\ txn'[s].expiry = txn[s].expiry /\ txn'[s].wrote = txn[s].wrote
           /\ txn'[s].changes = txn[s].changes /\ txn'[s].cleared = txn[s].cleared
<1>1. txn[s] \in Txn
  BY OpenIsTxn DEF Lock
<1> DEFINE t == [txn[s] EXCEPT !.pc = "locked"]
<1>2. txn' = [txn EXCEPT ![s] = t]
  BY DEF Lock
<1>3. t \in Txn
  BY <1>1 DEF Txn, TxnPC
<1>4. txn'[s] = t /\ OthersKeep(s) /\ txn' \in [Session -> Txn \cup {Idle}]
  BY <1>2, <1>3 DEF TypeOK, OthersKeep
<1> QED
  BY <1>1, <1>4 DEF Txn

\* The latest row, where there is one for the password.
LEMMA LatestStands ==
    ASSUME TypeOK, NEW s \in Session, txn[s] \in Txn, RecordingEnabled, ~Inserts(s)
    PROVE  Standing(s) \in Visible(s) /\ Standing(s) \in Row /\ Standing(s).pw = txn[s].pw
<1> DEFINE r == CHOOSE x \in Latest(s) : x.pw = txn[s].pw
<1>1. Standing(s) = r
  BY DEF Standing
<1>2. \E x \in Latest(s) : x.pw = txn[s].pw
  BY DEF Inserts, AlreadyRecorded
<1>3. r \in Latest(s) /\ r.pw = txn[s].pw
  BY <1>2
<1>4. Visible(s) \subseteq Row
  BY DEF Visible, TypeOK, Txn
<1> HIDE DEF r
<1> QED
  BY <1>1, <1>3, <1>4 DEF Latest

LEMMA StandingType ==
    ASSUME TypeOK, NEW s \in Session, txn[s] \in Txn, txn[s].pw \in Password, txn[s].kind \in Kind
    PROVE  NewRow(s) \in Row /\ Standing(s) \in Row /\ ChangeOf(s) \in Change
<1>1. NewRow(s) \in Row
  BY DEF NewRow, Row, Txn, TypeOK
<1>2. Standing(s) \in Row
  <2>1. CASE Inserts(s)
    BY <1>1, <2>1 DEF Standing, Inserts
  <2>2. CASE ~Inserts(s) /\ RecordingEnabled
    BY <2>2, LatestStands
  <2>3. CASE ~RecordingEnabled
    <3>1. ~Inserts(s)
      BY <2>3 DEF Inserts
    <3> QED
      BY <2>3, <3>1 DEF Standing, Row, Txn, NoRow
  <2> QED
    BY <2>1, <2>2, <2>3
<1>3. ChangeOf(s) \in Change
  BY <1>2 DEF ChangeOf, Change, Txn, Row
<1> QED
  BY <1>1, <1>2, <1>3

LEMMA RecordFields ==
    ASSUME TypeOK, NEW s \in Session, txn[s].pw \in Password, txn[s].kind \in Kind, Record(s)
    PROVE  /\ txn[s] \in Txn /\ txn' \in [Session -> Txn \cup {Idle}] /\ OthersKeep(s)
           /\ txn'[s].pc = "recorded" /\ txn'[s].kind = txn[s].kind
           /\ txn'[s].pw = txn[s].pw /\ txn'[s].seen = txn[s].seen
           /\ txn'[s].start = txn[s].start /\ txn'[s].wrote
           /\ txn'[s].rows = IF Inserts(s) THEN txn[s].rows \cup {NewRow(s)} ELSE txn[s].rows
           /\ txn'[s].expiry = NewGeneration(s, Previous(s)) \/ txn'[s].cleared
           /\ txn[s].cleared => txn'[s].cleared
           /\ txn'[s].changes = IF Inserts(s) \/ txn[s].kind = "alter"
                                THEN Append(txn[s].changes, ChangeOf(s)) ELSE txn[s].changes
           /\ nextId' = IF Inserts(s) THEN nextId + 1 ELSE nextId
           /\ NewRow(s) \in Row /\ nextId <= MaxChanges
<1>1. txn[s] \in Txn
  BY OpenIsTxn DEF Record
<1>2. PICK expires \in BOOLEAN :
         txn' = [txn EXCEPT ![s].pc = "recorded", ![s].wrote = TRUE,
                            ![s].rows = IF Inserts(s) THEN @ \cup {NewRow(s)} ELSE @,
                            ![s].expiry = IF expires THEN NewGeneration(s, Previous(s)) ELSE NoRow,
                            ![s].cleared = @ \/ ~expires,
                            ![s].changes = IF Inserts(s) \/ txn[s].kind = "alter"
                                           THEN Append(@, ChangeOf(s)) ELSE @]
  BY DEF Record
<1> DEFINE rows == IF Inserts(s) THEN txn[s].rows \cup {NewRow(s)} ELSE txn[s].rows
           more == IF Inserts(s) \/ txn[s].kind = "alter"
                   THEN Append(txn[s].changes, ChangeOf(s)) ELSE txn[s].changes
           gen == IF expires THEN NewGeneration(s, Previous(s)) ELSE NoRow
           gone == txn[s].cleared \/ ~expires
           t == [txn[s] EXCEPT !.pc = "recorded", !.wrote = TRUE, !.rows = rows,
                               !.expiry = gen, !.cleared = gone, !.changes = more]
<1>3. txn' = [txn EXCEPT ![s] = t]
  BY <1>2 DEF TypeOK
<1>4. NewRow(s) \in Row /\ ChangeOf(s) \in Change
  BY <1>1, StandingType
<1>5. rows \subseteq Row
  BY <1>1, <1>4 DEF Txn
<1>6. more \in Seq(Change)
  BY <1>1, <1>4 DEF Txn
<1>7. gen \in Nat
  BY <1>1 DEF NewGeneration, Previous, TypeOK, Txn, NoRow
<1>8. gone \in BOOLEAN
  BY <1>1 DEF Txn
<1>9. gen = NewGeneration(s, Previous(s)) \/ gone
  OBVIOUS
<1>10. txn[s].cleared => gone
  OBVIOUS
<1> HIDE DEF rows, more, gen, gone
<1>11. t \in Txn
  BY <1>1, <1>5, <1>6, <1>7, <1>8 DEF Txn, TxnPC
<1>12. txn'[s] = t /\ OthersKeep(s) /\ txn' \in [Session -> Txn \cup {Idle}]
  BY <1>3, <1>11 DEF TypeOK, OthersKeep
<1>13. /\ t.pc = "recorded" /\ t.wrote = TRUE /\ t.rows = rows /\ t.expiry = gen
       /\ t.cleared = gone /\ t.changes = more /\ t.kind = txn[s].kind
       /\ t.pw = txn[s].pw /\ t.seen = txn[s].seen /\ t.start = txn[s].start
  BY <1>1 DEF Txn
<1>14. /\ nextId' = IF Inserts(s) THEN nextId + 1 ELSE nextId
       /\ nextId <= MaxChanges
  BY DEF Record
<1> HIDE DEF t
<1>15. txn'[s].expiry = NewGeneration(s, Previous(s)) \/ txn'[s].cleared
  BY <1>9, <1>12, <1>13
<1>16. txn[s].cleared => txn'[s].cleared
  BY <1>10, <1>12, <1>13
<1> QED
  BY <1>1, <1>4, <1>12, <1>13, <1>14, <1>15, <1>16 DEF rows, more

LEMMA FinishFields ==
    ASSUME TypeOK, NEW s \in Session, Finish(s)
    PROVE  /\ txn[s] \in Txn /\ txn' \in [Session -> Txn \cup {Idle}] /\ OthersKeep(s)
           /\ txn'[s].pc = "open" /\ txn'[s].kind = None /\ txn'[s].seen = 0
           /\ txn'[s].start = txn[s].start /\ txn'[s].rows = txn[s].rows
           /\ txn'[s].expiry = txn[s].expiry /\ txn'[s].wrote = txn[s].wrote
           /\ txn'[s].changes = txn[s].changes /\ txn'[s].cleared = txn[s].cleared
<1>1. txn[s] \in Txn
  BY OpenIsTxn DEF Finish
<1> DEFINE t == [txn[s] EXCEPT !.pc = "open", !.kind = None, !.pw = None, !.seen = 0]
<1>2. txn' = [txn EXCEPT ![s] = t]
  BY DEF Finish, TypeOK
<1>3. t \in Txn
  BY <1>1 DEF Txn, TxnPC
<1>4. txn'[s] = t /\ OthersKeep(s) /\ txn' \in [Session -> Txn \cup {Idle}]
  BY <1>2, <1>3 DEF TypeOK, OthersKeep
<1> QED
  BY <1>1, <1>4 DEF Txn

LEMMA EndFields ==
    ASSUME TypeOK, NEW s \in Session, Commit(s) \/ Abort(s)
    PROVE  /\ txn' \in [Session -> Txn \cup {Idle}] /\ OthersKeep(s)
           /\ txn'[s].pc = "idle"
           /\ Commit(s) => txn[s] \in Txn
<1>1. txn' = [txn EXCEPT ![s] = Idle]
  BY DEF Commit, Abort
<1>2. Commit(s) => txn[s] \in Txn
  BY OpenIsTxn DEF Commit
<1> QED
  BY <1>1, <1>2 DEF TypeOK, OthersKeep, Idle

----------------------------------------------------------------------------
(* Types and the advisory lock. *)

\* A statement under way has its password.
StatementSet ==
    \A s \in Session : txn[s].pc \in {"validated", "locked", "recorded"} =>
        txn[s].pw \in Password /\ txn[s].kind \in Kind

TypeInv == TypeOK /\ StatementSet

\* A step that gives nobody the lock, or gives it to one while no other has it.
LEMMA LockStaysWithOne ==
    ASSUME TypeOK, NEW s \in Session, OthersKeep(s),
           Holds(s)' => Holds(s) \/ \A t \in Session \ {s} : ~Holds(t)
    PROVE  \A t, u \in Session : Holds(t)' /\ Holds(u)' => t = u
<1> SUFFICES ASSUME NEW t \in Session, NEW u \in Session, Holds(t)', Holds(u)', t # u
             PROVE  FALSE
  OBVIOUS
<1>1. \A v \in Session \ {s} : Holds(v)' => Holds(v)
  BY DEF OthersKeep, Holds
<1>2. \A v, w \in Session : Holds(v) /\ Holds(w) => v = w
  BY DEF TypeOK
<1> QED
  BY <1>1, <1>2

LEMMA TypeInvStep ==
    ASSUME TypeInv, [Next]_vars
    PROVE  TypeInv'
<1> USE PasswordAssumption DEF TypeInv
<1>1. ASSUME NEW s \in Session, Begin(s)
      PROVE  TypeInv'
  <2>1. ~Holds(s)'
    BY <1>1, BeginFields DEF Holds
  <2>2. \A t, u \in Session : Holds(t)' /\ Holds(u)' => t = u
    BY <1>1, <2>1, BeginFields, LockStaysWithOne
  <2>3. StatementSet'
    BY <1>1, BeginFields DEF StatementSet, OthersKeep
  <2> QED
    BY <1>1, <2>2, <2>3, BeginFields DEF Begin, TypeOK
<1>2. ASSUME NEW s \in Session, Validate(s)
      PROVE  TypeInv'
  <2>1. Holds(s)' => Holds(s)
    BY <1>2, ValidateFields DEF Holds, Validate
  <2>2. \A t, u \in Session : Holds(t)' /\ Holds(u)' => t = u
    BY <1>2, <2>1, ValidateFields, LockStaysWithOne
  <2>3. StatementSet'
    BY <1>2, ValidateFields DEF StatementSet, OthersKeep, Kind
  <2> QED
    BY <1>2, <2>2, <2>3, ValidateFields DEF Validate, TypeOK
<1>3. ASSUME NEW s \in Session, Skip(s)
      PROVE  TypeInv'
  <2>1. Holds(s)' => Holds(s)
    BY <1>3, SkipFields DEF Holds, Skip
  <2>2. \A t, u \in Session : Holds(t)' /\ Holds(u)' => t = u
    BY <1>3, <2>1, SkipFields, LockStaysWithOne
  <2>3. StatementSet'
    BY <1>3, SkipFields DEF StatementSet, OthersKeep, Kind
  <2> QED
    BY <1>3, <2>2, <2>3, SkipFields DEF Skip, TypeOK
<1>4. ASSUME NEW s \in Session, Lock(s)
      PROVE  TypeInv'
  <2>1. \A t, u \in Session : Holds(t)' /\ Holds(u)' => t = u
    BY <1>4, LockFields, LockStaysWithOne DEF Lock
  <2>2. StatementSet'
    BY <1>4, LockFields DEF StatementSet, OthersKeep, Lock
  <2> QED
    BY <1>4, <2>1, <2>2, LockFields DEF Lock, TypeOK
<1>5. ASSUME NEW s \in Session, Record(s)
      PROVE  TypeInv'
  <2>0. txn[s].pw \in Password /\ txn[s].kind \in Kind
    BY <1>5 DEF StatementSet, Record
  <2>1. Holds(s)
    BY <1>5 DEF Holds, Record
  <2>2. \A t, u \in Session : Holds(t)' /\ Holds(u)' => t = u
    BY <1>5, <2>0, <2>1, RecordFields, LockStaysWithOne
  <2>3. StatementSet'
    <3>1. txn'[s].pw = txn[s].pw /\ txn'[s].kind = txn[s].kind /\ OthersKeep(s)
      BY <1>5, <2>0, RecordFields
    <3> QED
      BY <2>0, <3>1 DEF StatementSet, OthersKeep
  <2>4. nextId' \in 1 .. MaxChanges + 1
    <3>1. nextId' \in {nextId, nextId + 1} /\ nextId <= MaxChanges
      BY <1>5, <2>0, RecordFields
    <3> QED
      BY <3>1 DEF TypeOK
  <2>5. txn' \in [Session -> Txn \cup {Idle}]
    BY <1>5, <2>0, RecordFields
  <2> QED
    BY <1>5, <2>2, <2>3, <2>4, <2>5 DEF Record, TypeOK
<1>6. ASSUME NEW s \in Session, Finish(s)
      PROVE  TypeInv'
  <2>1. Holds(s)
    BY <1>6 DEF Holds, Finish
  <2>2. \A t, u \in Session : Holds(t)' /\ Holds(u)' => t = u
    BY <1>6, <2>1, FinishFields, LockStaysWithOne
  <2>3. StatementSet'
    BY <1>6, FinishFields DEF StatementSet, OthersKeep
  <2> QED
    BY <1>6, <2>2, <2>3, FinishFields DEF Finish, TypeOK
<1>7. ASSUME NEW s \in Session, Commit(s)
      PROVE  TypeInv'
  <2>1. ~Holds(s)'
    BY <1>7, EndFields DEF Holds
  <2>2. \A t, u \in Session : Holds(t)' /\ Holds(u)' => t = u
    BY <1>7, <2>1, EndFields, LockStaysWithOne
  <2>3. StatementSet'
    BY <1>7, EndFields DEF StatementSet, OthersKeep
  <2>4. txn[s] \in Txn
    BY <1>7, EndFields
  <2>5. history' \subseteq Row /\ expiry' \in Nat /\ version' \in Nat
    BY <1>7, <2>4 DEF Commit, Visible, Txn, TypeOK
  <2>6. changes' \in Seq(Change)
    BY <1>7, <2>4 DEF Commit, Done, Txn, TypeOK
  <2>7. txn' \in [Session -> Txn \cup {Idle}]
    BY <1>7, EndFields
  <2> QED
    BY <1>7, <2>2, <2>3, <2>5, <2>6, <2>7 DEF Commit, TypeOK
<1>8. ASSUME NEW s \in Session, Abort(s)
      PROVE  TypeInv'
  <2>1. ~Holds(s)'
    BY <1>8, EndFields DEF Holds
  <2>2. \A t, u \in Session : Holds(t)' /\ Holds(u)' => t = u
    BY <1>8, <2>1, EndFields, LockStaysWithOne
  <2>3. StatementSet'
    BY <1>8, EndFields DEF StatementSet, OthersKeep
  <2> QED
    BY <1>8, <2>2, <2>3, EndFields DEF Abort, TypeOK
<1>9. CASE Tick
  BY <1>9 DEF Tick, TypeOK, StatementSet, Holds
<1>10. CASE UNCHANGED vars
  BY <1>10 DEF vars, TypeOK, StatementSet, Holds
<1> QED
  BY <1>1, <1>2, <1>3, <1>4, <1>5, <1>6, <1>7, <1>8, <1>9, <1>10 DEF Next

LEMMA TypeInvInit == Init => TypeInv
BY PasswordAssumption DEF Init, TypeInv, TypeOK, StatementSet, Idle, NoRow, Holds

----------------------------------------------------------------------------
(* Generations. *)

\* A commit needs the lock, and so does what is staged: nobody else's staged
\* generation is overtaken.
LEMMA StagedIsLaterStep ==
    ASSUME TypeInv, StagedIsLater, [Next]_vars
    PROVE  StagedIsLater'
<1> USE DEF StagedIsLater, Open
<1>1. ASSUME NEW s \in Session, Begin(s)
      PROVE  StagedIsLater'
  BY <1>1, BeginFields DEF Begin, TypeInv, OthersKeep
<1>2. ASSUME NEW s \in Session, Validate(s)
      PROVE  StagedIsLater'
  <2>1. /\ OthersKeep(s) /\ txn'[s].wrote = txn[s].wrote /\ txn'[s].expiry = txn[s].expiry
        /\ txn'[s].pc = "validated" /\ txn'[s].cleared = txn[s].cleared
    BY <1>2, ValidateFields DEF TypeInv
  <2> QED
    BY <1>2, <2>1 DEF Validate, OthersKeep
<1>3. ASSUME NEW s \in Session, Skip(s)
      PROVE  StagedIsLater'
  <2>1. /\ OthersKeep(s) /\ txn'[s].wrote = txn[s].wrote /\ txn'[s].expiry = txn[s].expiry
        /\ txn'[s].pc = "validated" /\ txn'[s].cleared = txn[s].cleared
    BY <1>3, SkipFields DEF TypeInv
  <2> QED
    BY <1>3, <2>1 DEF Skip, OthersKeep
<1>4. ASSUME NEW s \in Session, Lock(s)
      PROVE  StagedIsLater'
  BY <1>4, LockFields DEF Lock, TypeInv, OthersKeep
<1>5. ASSUME NEW s \in Session, Record(s)
      PROVE  StagedIsLater'
  <2>1. txn[s].pw \in Password /\ txn[s].kind \in Kind
    BY <1>5 DEF TypeInv, StatementSet, Record
  <2>2. /\ txn[s] \in Txn /\ OthersKeep(s)
        /\ txn'[s].expiry = NewGeneration(s, Previous(s)) \/ txn'[s].cleared
        /\ txn[s].cleared => txn'[s].cleared
    BY <1>5, <2>1, RecordFields DEF TypeInv
  <2>3. Previous(s) \in Nat /\ (Previous(s) >= expiry \/ txn[s].cleared)
    <3>1. expiry \in Nat /\ txn[s].expiry \in Nat
      BY <2>2 DEF TypeInv, TypeOK, Txn
    <3>2. Open(s)
      BY <1>5 DEF Record
    <3> QED
      BY <3>1, <3>2 DEF Previous
  <2>4. Previous(s) >= expiry => NewGeneration(s, Previous(s)) > expiry
    BY <2>3 DEF NewGeneration, TypeInv, TypeOK
  <2>5. txn'[s].expiry > expiry \/ txn'[s].cleared
    BY <2>2, <2>3, <2>4
  <2> QED
    BY <1>5, <2>2, <2>5 DEF Record, OthersKeep
<1>6. ASSUME NEW s \in Session, Finish(s)
      PROVE  StagedIsLater'
  <2>1. /\ OthersKeep(s) /\ txn'[s].wrote = txn[s].wrote /\ txn'[s].expiry = txn[s].expiry
        /\ txn'[s].pc = "open" /\ txn'[s].cleared = txn[s].cleared
    BY <1>6, FinishFields DEF TypeInv
  <2> QED
    BY <1>6, <2>1 DEF Finish, OthersKeep
<1>7. ASSUME NEW s \in Session, Commit(s)
      PROVE  StagedIsLater'
  <2>1. Holds(s)
    BY <1>7 DEF Commit, Holds
  <2>2. \A t \in Session \ {s} : ~Holds(t)
    BY <2>1 DEF TypeInv, TypeOK
  <2>3. \A t \in Session \ {s} : ~(txn[t].pc # "idle" /\ txn[t].wrote)
    BY <2>2 DEF Holds
  <2> QED
    BY <1>7, <2>3, EndFields DEF TypeInv, OthersKeep
<1>8. ASSUME NEW s \in Session, Abort(s)
      PROVE  StagedIsLater'
  BY <1>8, EndFields DEF Abort, TypeInv, OthersKeep
<1>9. CASE Tick
  BY <1>9 DEF Tick
<1>10. CASE UNCHANGED vars
  BY <1>10 DEF vars
<1> QED
  BY <1>1, <1>2, <1>3, <1>4, <1>5, <1>6, <1>7, <1>8, <1>9, <1>10 DEF Next

\* The tables, the transactions and the history keep their types, and no two
\* sessions hold the advisory lock of lock_password_history_for.
THEOREM TypeCorrect == Spec => []TypeOK
<1>1. TypeInv /\ [Next]_vars => TypeInv'
  BY TypeInvStep
<1>2. TypeInv => TypeOK
  BY DEF TypeInv
<1> QED
  BY <1>1, <1>2, TypeInvInit, PTL DEF Spec

\* The inductive invariant of the generations.
THEOREM GenerationInv == Spec => [](TypeInv /\ StagedIsLater)
<1>1. Init => StagedIsLater
  BY DEF Init, StagedIsLater, Open, Idle
<1>2. TypeInv /\ [Next]_vars => TypeInv'
  BY TypeInvStep
<1>3. TypeInv /\ StagedIsLater /\ [Next]_vars => StagedIsLater'
  BY StagedIsLaterStep
<1> QED
  BY <1>1, <1>2, <1>3, TypeInvInit, PTL DEF Spec

\* Every committed change gives the expiry row a later generation, whatever the
\* order in which transactions begin, lock and commit, unless it deleted the row.
THEOREM GenerationGrowsThm == Spec => GenerationGrows
<1> DEFINE Grows == changes' # changes \/ expiry' # expiry =>
                       expiry' > expiry \/ \E s \in Session : Commit(s) /\ txn[s].cleared
<1>1. ASSUME TypeInv, StagedIsLater, [Next]_vars
      PROVE  [Grows]_vars
  <2>1. ASSUME NEW s \in Session, Commit(s)
        PROVE  expiry' > expiry \/ txn[s].cleared
    <3>1. Open(s) /\ txn[s].wrote /\ expiry' = txn[s].expiry
      BY <2>1 DEF Open, Commit
    <3> QED
      BY <1>1, <3>1 DEF StagedIsLater
  <2>2. CASE ~\E s \in Session : Commit(s)
    <3>1. UNCHANGED <<changes, expiry>>
      BY <1>1, <2>2
         DEF Next, vars, Tick, Begin, Validate, Skip, Lock, Record, Finish, Abort
    <3> QED
      BY <3>1
  <2>3. CASE \E s \in Session : Commit(s)
    BY <2>1, <2>3
  <2> QED
    BY <2>2, <2>3
<1>2. TypeInv /\ StagedIsLater /\ [Next]_vars => [Grows]_vars
  BY <1>1
<1> QED
  BY <1>2, GenerationInv, PTL DEF Spec, GenerationGrows

----------------------------------------------------------------------------
(* The rules on old passwords, where no ALTER ROLE overlaps a call of        *)
(* record_password_change().  They are about a set of history rows and a     *)
(* sequence of changes: the committed ones, or what a transaction sees and   *)
(* has done.                                                                 *)

\* The rows of the changes before the j-th, stamped no earlier than the i-th's.
RowsBefore(seq, i, j) ==
    {seq[k].row : k \in {m \in 1 .. j - 1 : seq[m].at >= seq[i].at}}

\* Each change has the row that stands for it, and each row its change.
Match(rows, seq) ==
    /\ IsFiniteSet(rows)
    /\ \A i \in DOMAIN seq :
          \E r \in rows : r.pw = seq[i].pw /\ r.at = seq[i].at /\ r.id = seq[i].row
    /\ \A r \in rows : \E i \in DOMAIN seq : r.at = seq[i].at /\ r.id = seq[i].row
    /\ \A q, r \in rows : q.id = r.id => q = r

\* A password the rules allow as the next change, in a transaction begun at `start`.
Allowed(pw, start, seq) ==
    \A i \in DOMAIN seq : seq[i].pw = pw =>
        /\ Cardinality(RowsBefore(seq, i, Len(seq) + 1)) > HistoryCount
        /\ ReuseDays > 0 => start - seq[i].at >= ReuseDays

\* Every ALTER ROLE set a password the rules allowed.
Rules(seq) ==
    \A j \in DOMAIN seq : seq[j].kind = "alter" =>
        \A i \in 1 .. j - 1 : seq[i].pw = seq[j].pw =>
            /\ Cardinality(RowsBefore(seq, i, j)) > HistoryCount
            /\ ReuseDays > 0 => seq[j].start - seq[i].at >= ReuseDays

Valid(rows, seq) == Match(rows, seq) /\ Rules(seq)

\* The ALTER ROLE that has recorded its password will fail: the role's row is no
\* longer the one it read.
Doomed(s) == txn[s].pc = "recorded" /\ txn[s].kind = "alter" /\ txn[s].seen # version

\* What was validated is still true when it is recorded, or the statement fails.
ValidatedHolds(s) ==
    txn[s].pc \in {"validated", "locked"} /\ txn[s].kind = "alter" /\ txn[s].seen = version
    => Allowed(txn[s].pw, txn[s].start, Done(s))

SessionOK(s) ==
    Open(s) => /\ txn[s].seen <= version
               /\ ~txn[s].wrote => txn[s].rows = {} /\ txn[s].changes = <<>>
               /\ txn[s].wrote => Valid(Visible(s), Done(s)) \/ Doomed(s)
               /\ ValidatedHolds(s)

\* The sequence gives identifiers that no row has.
Fresh ==
    /\ \A r \in history : r.id < nextId
    /\ \A s \in Session : Open(s) => \A r \in txn[s].rows : r.id < nextId

\* While one session has a call of record_password_change() that is not committed,
\* no other is in the middle of an ALTER ROLE.
ManualExcludesAlter ==
    \A s, t \in Session :
        s # t /\ Manual(t) =>
            txn[s].pc \in {"idle", "open"} \/ txn[s].kind = "manual"

TablesOK == Valid(history, changes)

RulesInv ==
    TypeInv /\ Fresh /\ TablesOK /\ ManualExcludesAlter /\ \A s \in Session : SessionOK(s)

\* One more change, with its row, that is there already or has a new identifier.
LEMMA MatchAppend ==
    ASSUME NEW rows, NEW seq \in Seq(Change), Match(rows, seq), NEW c \in Change, NEW r,
           c.pw = r.pw, c.at = r.at, c.row = r.id,
           r \in rows \/ \A q \in rows : q.id # r.id
    PROVE  Match(rows \cup {r}, Append(seq, c))
<1> DEFINE t == Append(seq, c)
           n == Len(seq)
<1>1. /\ n \in Nat /\ DOMAIN seq = 1 .. n /\ DOMAIN t = 1 .. n + 1
      /\ t[n + 1] = c /\ \A i \in 1 .. n : t[i] = seq[i] /\ i \in 1 .. n + 1
  OBVIOUS
<1>2. \A i \in 1 .. n + 1 : i \in 1 .. n \/ i = n + 1
  BY <1>1
<1>3. n + 1 \in 1 .. n + 1
  BY <1>1
<1> HIDE DEF t, n
<1>4. IsFiniteSet(rows \cup {r})
  BY FS_AddElement DEF Match
<1>5. \A i \in DOMAIN t :
         \E q \in rows \cup {r} : q.pw = t[i].pw /\ q.at = t[i].at /\ q.id = t[i].row
  BY <1>1, <1>2 DEF Match
<1>6. \A q \in rows \cup {r} : \E i \in DOMAIN t : q.at = t[i].at /\ q.id = t[i].row
  BY <1>1, <1>3 DEF Match
<1>7. \A q, p \in rows \cup {r} : q.id = p.id => q = p
  BY DEF Match
<1> QED
  BY <1>4, <1>5, <1>6, <1>7 DEF Match, t

LEMMA RulesAppend ==
    ASSUME NEW seq \in Seq(Change), Rules(seq), NEW c \in Change,
           c.kind = "alter" => Allowed(c.pw, c.start, seq)
    PROVE  Rules(Append(seq, c))
<1> DEFINE t == Append(seq, c)
           n == Len(seq)
<1>1. /\ n \in Nat /\ DOMAIN seq = 1 .. n /\ DOMAIN t = 1 .. n + 1
      /\ t[n + 1] = c /\ \A i \in 1 .. n : t[i] = seq[i]
  OBVIOUS
<1> HIDE DEF t
<1> SUFFICES ASSUME NEW j \in 1 .. n + 1, t[j].kind = "alter",
                    NEW i \in 1 .. j - 1, t[i].pw = t[j].pw
             PROVE  /\ Cardinality(RowsBefore(t, i, j)) > HistoryCount
                    /\ ReuseDays > 0 => t[j].start - t[i].at >= ReuseDays
  BY <1>1 DEF Rules, t
<1>2. /\ i \in 1 .. n /\ t[i] = seq[i]
      /\ \A m \in 1 .. j - 1 : m \in 1 .. n /\ t[m] = seq[m]
  BY <1>1
<1>3. RowsBefore(t, i, j) = RowsBefore(seq, i, j)
  BY <1>2 DEF RowsBefore
<1>4. CASE j \in 1 .. n
  <2>1. t[j] = seq[j]
    BY <1>1, <1>4
  <2> QED
    BY <1>1, <1>2, <1>3, <1>4, <2>1 DEF Rules
<1>5. CASE j = n + 1
  <2>1. Allowed(c.pw, c.start, seq) /\ t[j] = c /\ seq[i].pw = c.pw /\ i \in DOMAIN seq
    BY <1>1, <1>2, <1>5
  <2> QED
    BY <1>2, <1>3, <1>5, <2>1 DEF Allowed
<1> QED
  BY <1>1, <1>4, <1>5

\* What the two queries of validate_password accept is what the rules allow: the
\* rows that the first returns are stamped no earlier than the ones it leaves out.
LEMMA AcceptedIsAllowed ==
    ASSUME TypeInv, NEW s \in Session, txn[s] \in Txn, Done(s) \in Seq(Change),
           Match(Visible(s), Done(s)), NEW pw \in Password, Accepted(s, pw)
    PROVE  Allowed(pw, txn[s].start, Done(s))
<1> USE PasswordAssumption
<1> DEFINE rows == Visible(s)
           seq == Done(s)
<1>1. rows \subseteq Row
  BY DEF TypeInv, TypeOK, Visible, Txn
<1>2. /\ Len(seq) \in Nat /\ DOMAIN seq = 1 .. Len(seq)
      /\ \A k \in DOMAIN seq : seq[k].at \in Nat
  <2>1. \A k \in DOMAIN seq : seq[k] \in Change
    OBVIOUS
  <2> QED
    BY <2>1 DEF Change
<1>3. /\ HistoryCount > 0 => \E last \in Last(rows) : \A r \in last : r.pw # pw
      /\ ReuseDays > 0 => \A r \in Recent(rows, txn[s].start) : r.pw # pw
  BY DEF Accepted
<1>4. Match(rows, seq)
  OBVIOUS
<1> HIDE DEF rows, seq
<1> SUFFICES ASSUME NEW i \in DOMAIN seq, seq[i].pw = pw
             PROVE  /\ Cardinality(RowsBefore(seq, i, Len(seq) + 1)) > HistoryCount
                    /\ ReuseDays > 0 => txn[s].start - seq[i].at >= ReuseDays
  BY DEF Allowed, seq
<1>5. PICK r \in rows : r.pw = pw /\ r.at = seq[i].at /\ r.id = seq[i].row
  BY <1>4 DEF Match
<1> DEFINE since == {m \in 1 .. Len(seq) : seq[m].at >= seq[i].at}
           ids == {seq[k].row : k \in since}
<1>6. RowsBefore(seq, i, Len(seq) + 1) = ids
  BY <1>2 DEF RowsBefore
<1>7. IsFiniteSet(ids) /\ Cardinality(ids) \in Nat
  <2>1. IsFiniteSet(1 .. Len(seq))
    BY <1>2, FS_Interval
  <2>2. IsFiniteSet(since)
    BY <2>1, FS_Subset
  <2> DEFINE f == [k \in since |-> seq[k].row]
  <2>3. f \in Surjection(since, ids)
    BY DEF Surjection
  <2> HIDE DEF f, since, ids
  <2>4. IsFiniteSet(ids)
    BY <2>2, <2>3, FS_Surjection
  <2> QED
    BY <2>4, FS_CardinalityType
<1>8. i \in since
  BY <1>2
<1>9. Cardinality(ids) > HistoryCount
  <2>1. CASE HistoryCount > 0
    <3>1. PICK last \in SUBSET rows :
             /\ Cardinality(last) = IF Cardinality(rows) < HistoryCount
                                    THEN Cardinality(rows) ELSE HistoryCount
             /\ \A q \in last, p \in rows \ last : q.at >= p.at
             /\ \A q \in last : q.pw # pw
      BY <1>3, <2>1 DEF Last
    <3>2. r \notin last
      BY <1>5, <3>1
    <3>3. /\ IsFiniteSet(last) /\ Cardinality(rows) \in Nat
          /\ Cardinality(last) = Cardinality(rows) => last = rows
      BY <1>4, FS_Subset, FS_CardinalityType DEF Match
    <3>4. Cardinality(last) = HistoryCount
      BY <1>5, <3>1, <3>2, <3>3
    <3> DEFINE all == last \cup {r}
               id == [q \in all |-> q.id]
    <3>5. IsFiniteSet(all) /\ Cardinality(all) = HistoryCount + 1
      BY <3>2, <3>3, <3>4, FS_AddElement
    <3>6. ASSUME NEW q \in all
          PROVE  q \in rows /\ id[q] \in ids
      <4>1. q \in rows /\ q.at >= seq[i].at
        BY <1>1, <1>5, <3>1, <3>2 DEF Row
      <4>2. PICK k \in DOMAIN seq : q.at = seq[k].at /\ q.id = seq[k].row
        BY <1>4, <4>1 DEF Match
      <4>3. k \in since
        BY <1>2, <4>1, <4>2
      <4> QED
        BY <4>1, <4>2, <4>3
    <3>7. id \in [all -> ids]
      BY <3>6
    <3>8. \A p, q \in all : p # q => id[p] # id[q]
      BY <1>4, <3>6 DEF Match
    <3> HIDE DEF all, id, ids
    <3>9. ~(Cardinality(ids) < Cardinality(all))
      BY <1>7, <3>5, <3>7, <3>8, FS_PigeonHole
    <3> QED
      BY <1>7, <3>5, <3>9
  <2>2. CASE HistoryCount = 0
    <3>1. ids # {}
      BY <1>8
    <3> HIDE DEF ids
    <3>2. Cardinality(ids) # 0
      BY <1>7, <3>1, FS_EmptySet
    <3> QED
      BY <1>7, <2>2, <3>2
  <2> QED
    BY <2>1, <2>2
<1>10. ASSUME ReuseDays > 0
       PROVE  txn[s].start - seq[i].at >= ReuseDays
  <2>1. ~(r.at > txn[s].start - ReuseDays)
    BY <1>3, <1>5, <1>10 DEF Recent
  <2>2. txn[s].start \in Nat /\ r.at \in Nat
    BY <1>1 DEF Txn, Row
  <2> QED
    BY <1>5, <2>1, <2>2
<1> QED
  BY <1>6, <1>9, <1>10

----------------------------------------------------------------------------
(* The steps keep the rules. *)

\* What a transaction has done, and what is committed, as sequences.
LEMMA DoneType ==
    ASSUME TypeOK, NEW s \in Session, txn[s] \in Txn
    PROVE  /\ changes \in Seq(Change) /\ txn[s].changes \in Seq(Change)
           /\ Done(s) \in Seq(Change)
           /\ txn[s].changes = <<>> => Done(s) = changes
           /\ \A c \in Change : changes \o Append(txn[s].changes, c) = Append(Done(s), c)
<1>1. changes \in Seq(Change) /\ txn[s].changes \in Seq(Change)
  BY DEF TypeOK, Txn
<1>2. \A a, b \in Seq(Change) : a \o b \in Seq(Change) /\ (b = <<>> => a \o b = a)
  OBVIOUS
<1>3. \A a, b \in Seq(Change), c \in Change : a \o Append(b, c) = Append(a \o b, c)
  OBVIOUS
<1> QED
  BY <1>1, <1>2, <1>3 DEF Done

\* What an open transaction sees obeys the rules, unless it is about to fail.
LEMMA SeesValid ==
    ASSUME RulesInv, NEW s \in Session, Open(s), ~Doomed(s)
    PROVE  Valid(Visible(s), Done(s)) /\ txn[s] \in Txn /\ Done(s) \in Seq(Change)
<1>1. TypeOK /\ TablesOK /\ SessionOK(s) /\ txn[s] \in Txn
  BY OpenIsTxn DEF RulesInv, TypeInv, Open
<1>2. Done(s) \in Seq(Change) /\ (txn[s].changes = <<>> => Done(s) = changes)
  BY <1>1, DoneType
<1>3. CASE ~txn[s].wrote
  <2>1. Visible(s) = history /\ Done(s) = changes
    BY <1>1, <1>2, <1>3 DEF SessionOK, Visible
  <2> QED
    BY <1>1, <1>2, <2>1 DEF TablesOK
<1>4. CASE txn[s].wrote
  BY <1>1, <1>2, <1>4 DEF SessionOK
<1> QED
  BY <1>3, <1>4

\* A step that commits nothing keeps the tables, and the other sessions' part of
\* the invariant.
LEMMA QuietStep ==
    ASSUME NEW s \in Session, OthersKeep(s), UNCHANGED <<history, version, changes>>,
           TablesOK, \A t \in Session : SessionOK(t), SessionOK(s)'
    PROVE  TablesOK' /\ \A t \in Session : SessionOK(t)'
<1>1. TablesOK'
  BY DEF TablesOK
<1>2. ASSUME NEW t \in Session \ {s}
      PROVE  SessionOK(t)'
  <2>1. txn'[t] = txn[t] /\ SessionOK(t)
    BY DEF OthersKeep
  <2>2. Visible(t)' = Visible(t) /\ Done(t)' = Done(t)
    BY <2>1 DEF Visible, Done
  <2> QED
    BY <2>1, <2>2 DEF SessionOK, Open, ValidatedHolds, Doomed
<1> QED
  BY <1>1, <1>2

\* Only Validate puts a session in the middle of an ALTER ROLE, and only Skip makes
\* a call of record_password_change() that is not committed.
LEMMA ManualStep ==
    ASSUME NEW s \in Session, OthersKeep(s), ManualExcludesAlter,
           \/ Manual(s)' => Manual(s)
           \/ \A t \in Session \ {s} : txn[t].pc \in {"idle", "open"},
           \/ txn'[s].pc \in {"idle", "open"} \/ txn'[s].kind = "manual"
           \/ txn[s].pc \notin {"idle", "open"} /\ txn'[s].kind = txn[s].kind
           \/ \A t \in Session \ {s} : ~Manual(t)
    PROVE  ManualExcludesAlter'
<1> SUFFICES ASSUME NEW t \in Session, NEW u \in Session, t # u, Manual(u)'
             PROVE  txn'[t].pc \in {"idle", "open"} \/ txn'[t].kind = "manual"
  BY DEF ManualExcludesAlter
<1>1. \A v \in Session \ {s} : txn'[v] = txn[v] /\ (Manual(v)' => Manual(v))
  BY DEF OthersKeep, Manual
<1>2. CASE t = s
  BY <1>1, <1>2 DEF ManualExcludesAlter
<1>3. CASE t # s /\ u = s
  BY <1>1, <1>3 DEF ManualExcludesAlter
<1>4. CASE t # s /\ u # s
  BY <1>1, <1>4 DEF ManualExcludesAlter
<1> QED
  BY <1>2, <1>3, <1>4

\* A statement that goes on without writing: the transaction sees and has done what
\* it had.
LEMMA GoesOn ==
    ASSUME RulesInv, NEW s \in Session, Open(s), ~Doomed(s), Open(s)', OthersKeep(s),
           UNCHANGED <<history, version, changes>>,
           txn'[s].rows = txn[s].rows, txn'[s].changes = txn[s].changes,
           txn'[s].wrote = txn[s].wrote, txn'[s].seen <= version, ValidatedHolds(s)'
    PROVE  TablesOK' /\ \A t \in Session : SessionOK(t)'
<1>1. Visible(s)' = Visible(s) /\ Done(s)' = Done(s)
  BY DEF Visible, Done
<1>2. Valid(Visible(s), Done(s)) /\ SessionOK(s)
  BY SeesValid DEF RulesInv
<1>3. SessionOK(s)'
  BY <1>1, <1>2 DEF SessionOK
<1> QED
  BY <1>3, QuietStep DEF RulesInv

LEMMA ValidateKeepsRules ==
    ASSUME RulesInv, ManualAlone, NEW s \in Session, Validate(s)
    PROVE  TablesOK' /\ ManualExcludesAlter' /\ \A t \in Session : SessionOK(t)'
<1>1. TypeOK /\ TypeInv /\ Open(s) /\ ~Doomed(s) /\ ManualExcludesAlter
  BY DEF RulesInv, TypeInv, Validate, Open, Doomed
<1>2. UNCHANGED <<history, version, changes>> /\ version \in Nat
  BY <1>1 DEF Validate, TypeOK
<1>3. /\ txn[s] \in Txn /\ OthersKeep(s)
      /\ txn'[s].pc = "validated" /\ txn'[s].kind = "alter"
      /\ txn'[s].pw \in Password /\ Accepted(s, txn'[s].pw) /\ txn'[s].seen = version
      /\ txn'[s].start = txn[s].start /\ txn'[s].rows = txn[s].rows
      /\ txn'[s].wrote = txn[s].wrote /\ txn'[s].changes = txn[s].changes
  BY <1>1, ValidateFields
<1>4. Done(s)' = Done(s) /\ Open(s)'
  BY <1>2, <1>3 DEF Done, Open
<1>5. Allowed(txn'[s].pw, txn[s].start, Done(s))
  <2>1. Match(Visible(s), Done(s)) /\ Done(s) \in Seq(Change)
    BY <1>1, SeesValid DEF Valid
  <2> QED
    BY <1>1, <1>3, <2>1, AcceptedIsAllowed
<1>6. ValidatedHolds(s)'
  BY <1>3, <1>4, <1>5 DEF ValidatedHolds
<1>7. TablesOK' /\ \A t \in Session : SessionOK(t)'
  BY <1>1, <1>2, <1>3, <1>4, <1>6, GoesOn
<1>8. Manual(s)' => Manual(s)
  BY <1>1, <1>3 DEF Manual, Open
<1>9. ManualExcludesAlter'
  BY <1>1, <1>3, <1>8, ManualStep DEF Validate
<1> QED
  BY <1>7, <1>9

LEMMA SkipKeepsRules ==
    ASSUME RulesInv, ManualAlone, NEW s \in Session, Skip(s)
    PROVE  TablesOK' /\ ManualExcludesAlter' /\ \A t \in Session : SessionOK(t)'
<1>1. TypeOK /\ SessionOK(s) /\ Open(s) /\ ~Doomed(s) /\ ManualExcludesAlter
  BY DEF RulesInv, TypeInv, Skip, Open, Doomed
<1>2. UNCHANGED <<history, version, changes>>
  BY DEF Skip
<1>3. /\ OthersKeep(s)
      /\ txn'[s].pc = "validated" /\ txn'[s].kind = "manual" /\ txn'[s].seen = txn[s].seen
      /\ txn'[s].rows = txn[s].rows
      /\ txn'[s].wrote = txn[s].wrote /\ txn'[s].changes = txn[s].changes
  BY <1>1, SkipFields
<1>4. ValidatedHolds(s)' /\ Open(s)' /\ txn'[s].seen <= version
  BY <1>1, <1>3 DEF ValidatedHolds, Open, SessionOK
<1>5. TablesOK' /\ \A t \in Session : SessionOK(t)'
  BY <1>1, <1>2, <1>3, <1>4, GoesOn
<1>6. ManualExcludesAlter'
  BY <1>1, <1>3, ManualStep DEF Skip
<1> QED
  BY <1>5, <1>6

LEMMA LockKeepsRules ==
    ASSUME RulesInv, NEW s \in Session, Lock(s)
    PROVE  TablesOK' /\ ManualExcludesAlter' /\ \A t \in Session : SessionOK(t)'
<1>1. /\ TypeOK /\ SessionOK(s) /\ Open(s) /\ ~Doomed(s) /\ ManualExcludesAlter
      /\ txn[s].pc = "validated"
  BY DEF RulesInv, TypeInv, Lock, Open, Doomed
<1>2. UNCHANGED <<history, version, changes>>
  BY DEF Lock
<1>3. /\ OthersKeep(s)
      /\ txn'[s].pc = "locked" /\ txn'[s].kind = txn[s].kind
      /\ txn'[s].pw = txn[s].pw /\ txn'[s].seen = txn[s].seen
      /\ txn'[s].start = txn[s].start /\ txn'[s].rows = txn[s].rows
      /\ txn'[s].wrote = txn[s].wrote /\ txn'[s].changes = txn[s].changes
  BY <1>1, LockFields
<1>4. Done(s)' = Done(s) /\ Open(s)' /\ txn'[s].seen <= version
  BY <1>1, <1>2, <1>3 DEF Done, Open, SessionOK
<1>5. ValidatedHolds(s)'
  BY <1>1, <1>2, <1>3, <1>4 DEF ValidatedHolds, SessionOK
<1>6. TablesOK' /\ \A t \in Session : SessionOK(t)'
  BY <1>1, <1>2, <1>3, <1>4, <1>5, GoesOn
<1>7. Manual(s)' => Manual(s)
  BY <1>1, <1>3 DEF Manual, Open
<1>8. ManualExcludesAlter'
  BY <1>1, <1>3, <1>7, ManualStep
<1> QED
  BY <1>6, <1>8

LEMMA FinishKeepsRules ==
    ASSUME RulesInv, NEW s \in Session, Finish(s)
    PROVE  TablesOK' /\ ManualExcludesAlter' /\ \A t \in Session : SessionOK(t)'
<1>1. /\ TypeOK /\ Open(s) /\ ~Doomed(s) /\ ManualExcludesAlter /\ version \in Nat
  BY DEF RulesInv, TypeInv, TypeOK, Finish, Open, Doomed
<1>2. UNCHANGED <<history, version, changes>>
  BY DEF Finish
<1>3. /\ OthersKeep(s)
      /\ txn'[s].pc = "open" /\ txn'[s].kind = None /\ txn'[s].seen = 0
      /\ txn'[s].rows = txn[s].rows
      /\ txn'[s].wrote = txn[s].wrote /\ txn'[s].changes = txn[s].changes
  BY <1>1, FinishFields
<1>4. ValidatedHolds(s)' /\ Open(s)' /\ txn'[s].seen <= version
  BY <1>1, <1>3 DEF ValidatedHolds, Open
<1>5. TablesOK' /\ \A t \in Session : SessionOK(t)'
  BY <1>1, <1>2, <1>3, <1>4, GoesOn
<1>6. Manual(s)' => Manual(s)
  BY <1>1, <1>3 DEF Manual, Open, None
<1>7. ManualExcludesAlter'
  BY <1>1, <1>3, <1>6, ManualStep
<1> QED
  BY <1>5, <1>7

LEMMA BeginAbortKeepRules ==
    ASSUME RulesInv, NEW s \in Session, Begin(s) \/ Abort(s)
    PROVE  TablesOK' /\ ManualExcludesAlter' /\ \A t \in Session : SessionOK(t)'
<1> USE DEF RulesInv
<1>1. TypeOK /\ version \in Nat
  BY DEF TypeInv, TypeOK
<1>2. UNCHANGED <<history, version, changes>>
  BY DEF Begin, Abort
<1>3. \/ Abort(s) /\ txn'[s].pc = "idle"
      \/ Begin(s) /\ txn'[s].pc = "open" /\ txn'[s].kind = None /\ txn'[s].seen = 0
         /\ txn'[s].rows = {} /\ txn'[s].changes = <<>> /\ ~txn'[s].wrote
  BY <1>1, BeginFields, EndFields
<1>4. OthersKeep(s)
  BY <1>1, BeginFields, EndFields
<1>5. SessionOK(s)'
  BY <1>1, <1>2, <1>3 DEF SessionOK, ValidatedHolds, Open
<1>6. ~Manual(s)'
  BY <1>3 DEF Manual, None
<1>7. ManualExcludesAlter'
  BY <1>3, <1>4, <1>6, ManualStep
<1> QED
  BY <1>2, <1>4, <1>5, <1>7, QuietStep

\* Recording a validated password adds its change, and the row that stands for it,
\* unless the statement is about to fail.
LEMMA RecordKeepsRules ==
    ASSUME RulesInv, RecordingEnabled, NEW s \in Session, Record(s)
    PROVE  TablesOK' /\ ManualExcludesAlter' /\ \A t \in Session : SessionOK(t)'
<1> USE DEF RulesInv
<1>1. /\ TypeOK /\ SessionOK(s) /\ Open(s) /\ ~Doomed(s) /\ txn[s].pc = "locked"
      /\ txn[s].pw \in Password /\ txn[s].kind \in Kind
  BY DEF TypeInv, StatementSet, Record, Open, Doomed
<1>2. UNCHANGED <<history, version, changes>>
  BY DEF Record
<1>3. /\ txn[s] \in Txn /\ OthersKeep(s)
      /\ txn'[s].pc = "recorded" /\ txn'[s].kind = txn[s].kind
      /\ txn'[s].pw = txn[s].pw /\ txn'[s].seen = txn[s].seen
      /\ txn'[s].wrote
      /\ txn'[s].rows = IF Inserts(s) THEN txn[s].rows \cup {NewRow(s)} ELSE txn[s].rows
      /\ txn'[s].changes = IF Inserts(s) \/ txn[s].kind = "alter"
                           THEN Append(txn[s].changes, ChangeOf(s)) ELSE txn[s].changes
  BY <1>1, RecordFields
<1>4. Valid(Visible(s), Done(s)) /\ Done(s) \in Seq(Change)
  BY <1>1, SeesValid
<1>5. ChangeOf(s) \in Change /\ Standing(s) \in Row
  BY <1>1, <1>3, StandingType
<1>6. /\ ChangeOf(s).pw = txn[s].pw /\ ChangeOf(s).start = txn[s].start
      /\ ChangeOf(s).kind = txn[s].kind
      /\ ChangeOf(s).row = Standing(s).id /\ ChangeOf(s).at = Standing(s).at
  BY DEF ChangeOf
<1>7. Valid(Visible(s), Done(s))' \/ Doomed(s)'
  <2>1. CASE ~Inserts(s) /\ txn[s].kind # "alter"
    <3>1. Visible(s)' = Visible(s) /\ Done(s)' = Done(s)
      BY <1>2, <1>3, <2>1 DEF Visible, Done
    <3> QED
      BY <1>4, <3>1
  <2>2. CASE txn[s].kind = "alter" /\ txn[s].seen # version
    BY <1>2, <1>3, <2>2 DEF Doomed
  <2>3. CASE /\ Inserts(s) \/ txn[s].kind = "alter"
             /\ txn[s].kind = "alter" => txn[s].seen = version
    <3>1. Done(s)' = Append(Done(s), ChangeOf(s))
      BY <1>1, <1>2, <1>3, <1>5, <2>3, DoneType DEF Done
    <3>2. txn[s].kind = "alter" => Allowed(txn[s].pw, txn[s].start, Done(s))
      BY <1>1, <2>3 DEF SessionOK, ValidatedHolds
    <3>3. Rules(Append(Done(s), ChangeOf(s)))
      BY <1>4, <1>5, <1>6, <3>2, RulesAppend DEF Valid
    <3>4. /\ Standing(s).pw = txn[s].pw /\ Visible(s)' = Visible(s) \cup {Standing(s)}
          /\ Standing(s) \in Visible(s) \/ \A q \in Visible(s) : q.id # Standing(s).id
      <4>1. CASE Inserts(s)
        <5>1. Standing(s) = NewRow(s)
          BY <4>1 DEF Standing, Inserts
        <5>2. NewRow(s).pw = txn[s].pw /\ NewRow(s).id = nextId
          BY DEF NewRow
        <5>3. \A q \in Visible(s) : q.id < nextId /\ q.id \in Nat /\ nextId \in Nat
          BY <1>1, <1>3 DEF Fresh, Visible, TypeOK, Row, Txn
        <5>4. Visible(s)' = Visible(s) \cup {NewRow(s)}
          BY <1>2, <1>3, <4>1 DEF Visible
        <5>5. \A q \in Visible(s) : q.id # nextId
          BY <5>3
        <5> QED
          BY <5>1, <5>2, <5>4, <5>5
      <4>2. CASE ~Inserts(s)
        <5>1. Standing(s) \in Visible(s) /\ Standing(s).pw = txn[s].pw
          BY <1>1, <1>3, <4>2, LatestStands
        <5>2. Visible(s)' = Visible(s)
          BY <1>2, <1>3, <4>2 DEF Visible
        <5> QED
          BY <5>1, <5>2
      <4> QED
        BY <4>1, <4>2
    <3>5. Match(Visible(s) \cup {Standing(s)}, Append(Done(s), ChangeOf(s)))
      BY <1>4, <1>5, <1>6, <3>4, MatchAppend DEF Valid
    <3> QED
      BY <3>1, <3>3, <3>4, <3>5 DEF Valid
  <2> QED
    BY <2>1, <2>2, <2>3
<1>8. SessionOK(s)'
  BY <1>1, <1>2, <1>3, <1>7 DEF SessionOK, ValidatedHolds
<1>9. Manual(s)' => Manual(s)
  <2> SUFFICES ASSUME Manual(s)', txn[s].kind # "manual"
               PROVE  Manual(s)
    BY <1>1 DEF Manual, Open
  <2>1. PICK i \in DOMAIN txn'[s].changes : txn'[s].changes[i].kind = "manual"
    BY <1>3 DEF Manual
  <2>2. txn[s].changes \in Seq(Change)
    BY <1>3 DEF Txn
  <2>3. txn'[s].changes \in {txn[s].changes, Append(txn[s].changes, ChangeOf(s))}
    BY <1>3
  <2>4. i \in DOMAIN txn[s].changes /\ txn[s].changes[i].kind = "manual"
    <3>1. CASE txn'[s].changes = txn[s].changes
      BY <2>1, <3>1
    <3>2. CASE txn'[s].changes = Append(txn[s].changes, ChangeOf(s))
      <4>1. \/ i \in DOMAIN txn[s].changes /\ txn'[s].changes[i] = txn[s].changes[i]
            \/ txn'[s].changes[i] = ChangeOf(s)
        BY <2>1, <2>2, <3>2
      <4> QED
        BY <1>6, <2>1, <4>1
    <3> QED
      BY <2>3, <3>1, <3>2
  <2> QED
    BY <1>1, <2>4 DEF Manual, Open
<1>10. ManualExcludesAlter'
  BY <1>1, <1>3, <1>9, ManualStep
<1> QED
  BY <1>2, <1>3, <1>8, <1>10, QuietStep

\* A commit changes what the others validated only when it makes their ALTER ROLE
\* fail, and whoever commits holds the lock, so that nobody else has staged anything.
LEMMA CommitKeepsRules ==
    ASSUME RulesInv, NEW s \in Session, Commit(s)
    PROVE  TablesOK' /\ ManualExcludesAlter' /\ \A t \in Session : SessionOK(t)'
<1> USE DEF RulesInv
<1>1. /\ TypeOK /\ Open(s) /\ ~Doomed(s) /\ version \in Nat
  BY DEF TypeInv, TypeOK, Commit, Open, Doomed
<1>2. OthersKeep(s) /\ txn'[s].pc = "idle" /\ txn[s] \in Txn
  BY <1>1, EndFields
<1>3. SessionOK(s)' /\ ~Manual(s)'
  BY <1>2 DEF SessionOK, Open, Manual
<1>4. ManualExcludesAlter'
  BY <1>2, <1>3, ManualStep
<1>5. TablesOK'
  <2>1. Valid(Visible(s), Done(s))
    BY <1>1, SeesValid
  <2>2. history' = Visible(s) /\ changes' = Done(s)
    BY DEF Commit
  <2> QED
    BY <2>1, <2>2 DEF TablesOK
<1>6. ASSUME NEW t \in Session \ {s}, Open(t)'
      PROVE  SessionOK(t)'
  <2>1. txn'[t] = txn[t] /\ SessionOK(t) /\ Open(t)
    BY <1>2, <1>6 DEF OthersKeep, Open
  <2>2. ~Holds(t)
    BY <1>1 DEF TypeOK, Commit, Holds
  <2>3. txn[t].pc \notin {"locked", "recorded"} /\ ~txn[t].wrote
    BY <2>1, <2>2 DEF Holds, Open
  <2>4. txn[t].seen \in Nat /\ txn[t].seen <= version /\ txn[t].changes = <<>>
    BY <1>1, <2>1, <2>3, OpenIsTxn DEF SessionOK, Txn, Open
  <2>5. version' \in {version, version + 1}
    BY DEF Commit
  <2>6. ValidatedHolds(t)'
    <3> SUFFICES ASSUME txn[t].pc = "validated", txn[t].kind = "alter",
                        txn[t].seen = version'
                 PROVE  Allowed(txn[t].pw, txn[t].start, Done(t))'
      BY <2>1, <2>3 DEF ValidatedHolds
    <3>1. version' = version
      BY <1>1, <2>4, <2>5
    <3>2. ~Manual(s)
      BY DEF ManualExcludesAlter
    <3>3. txn[s].changes = <<>>
      <4>1. \A i \in DOMAIN txn[s].changes : txn[s].changes[i].kind \notin {"alter", "manual"}
        BY <1>1, <3>1, <3>2 DEF Commit, Manual, Open
      <4>2. txn[s].changes \in Seq(Change)
        BY <1>2 DEF Txn
      <4>3. \A i \in DOMAIN txn[s].changes : txn[s].changes[i].kind \in {"alter", "manual"}
        <5>1. \A i \in DOMAIN txn[s].changes : txn[s].changes[i] \in Change
          BY <4>2
        <5> QED
          BY <5>1 DEF Change, Kind
      <4> QED
        BY <4>1, <4>2, <4>3
    <3>4. changes' = changes
      BY <1>1, <1>2, <3>3, DoneType DEF Commit
    <3>5. Done(t)' = Done(t)
      BY <2>1, <3>4 DEF Done
    <3>6. Allowed(txn[t].pw, txn[t].start, Done(t))
      BY <2>1, <3>1 DEF SessionOK, ValidatedHolds
    <3> QED
      BY <2>1, <3>5, <3>6
  <2>7. txn'[t].seen <= version'
    BY <1>1, <2>1, <2>4, <2>5
  <2> QED
    BY <2>1, <2>3, <2>6, <2>7 DEF SessionOK
<1>7. ASSUME NEW t \in Session
      PROVE  SessionOK(t)'
  BY <1>3, <1>6 DEF SessionOK
<1> QED
  BY <1>4, <1>5, <1>7

\* No identifier is given twice.
LEMMA FreshStep ==
    ASSUME TypeInv, Fresh, [Next]_vars
    PROVE  Fresh'
<1> USE DEF TypeInv
<1>1. ASSUME NEW s \in Session, OthersKeep(s), nextId' = nextId, history' = history,
             Open(s)' => (Open(s) /\ txn'[s].rows = txn[s].rows) \/ txn'[s].rows = {}
      PROVE  Fresh'
  <2>1. \A t \in Session \ {s} : txn'[t] = txn[t]
    BY <1>1 DEF OthersKeep
  <2> QED
    BY <1>1, <2>1 DEF Fresh, Open
<1>2. ASSUME NEW s \in Session,
             \/ Begin(s) \/ Validate(s) \/ Skip(s) \/ Lock(s) \/ Finish(s) \/ Abort(s)
      PROVE  Fresh'
  <2>1. OthersKeep(s)
    BY <1>2, BeginFields, ValidateFields, SkipFields, LockFields, FinishFields, EndFields
  <2>2. Open(s)' => (Open(s) /\ txn'[s].rows = txn[s].rows) \/ txn'[s].rows = {}
    <3>1. CASE Begin(s)
      BY <3>1, BeginFields
    <3>2. CASE Validate(s)
      BY <3>2, ValidateFields DEF Validate, Open
    <3>3. CASE Skip(s)
      BY <3>3, SkipFields DEF Skip, Open
    <3>4. CASE Lock(s)
      BY <3>4, LockFields DEF Lock, Open
    <3>5. CASE Finish(s)
      BY <3>5, FinishFields DEF Finish, Open
    <3>6. CASE Abort(s)
      BY <3>6, EndFields DEF Open
    <3> QED
      BY <1>2, <3>1, <3>2, <3>3, <3>4, <3>5, <3>6
  <2>3. nextId' = nextId /\ history' = history
    BY <1>2 DEF Begin, Validate, Skip, Lock, Finish, Abort
  <2> QED
    BY <1>1, <2>1, <2>2, <2>3
<1>3. ASSUME NEW s \in Session, Record(s)
      PROVE  Fresh'
  <2>1. txn[s].pw \in Password /\ txn[s].kind \in Kind /\ Open(s)
    BY <1>3 DEF StatementSet, Record, Open
  <2>2. /\ txn[s] \in Txn /\ OthersKeep(s)
        /\ txn'[s].rows = IF Inserts(s) THEN txn[s].rows \cup {NewRow(s)} ELSE txn[s].rows
        /\ nextId' = IF Inserts(s) THEN nextId + 1 ELSE nextId
    BY <1>3, <2>1, RecordFields
  <2>3. history' = history /\ nextId \in Nat /\ NewRow(s).id = nextId
    BY <1>3 DEF Record, TypeOK, NewRow
  <2>4. \A r \in Row : r.id \in Nat
    BY DEF Row
  <2>5. \A t \in Session : Open(t) => txn[t].rows \subseteq Row
    BY OpenIsTxn DEF Open, Txn
  <2>6. \A r \in history' : r.id < nextId'
    BY <2>2, <2>3, <2>4 DEF Fresh, TypeOK
  <2>7. ASSUME NEW t \in Session, Open(t)', NEW r \in txn'[t].rows
        PROVE  r.id < nextId'
    <3>1. CASE t # s
      BY <2>2, <2>3, <2>4, <2>5, <2>7, <3>1 DEF Fresh, OthersKeep, Open
    <3>2. CASE t = s
      <4>1. r \in txn[s].rows \/ (r = NewRow(s) /\ nextId' = nextId + 1)
        BY <2>2, <2>7, <3>2
      <4>2. r \in txn[s].rows => r.id < nextId /\ r.id \in Nat
        BY <2>1, <2>4, <2>5 DEF Fresh
      <4> QED
        BY <2>2, <2>3, <4>1, <4>2
    <3> QED
      BY <3>1, <3>2
  <2> QED
    BY <2>6, <2>7 DEF Fresh
<1>4. ASSUME NEW s \in Session, Commit(s)
      PROVE  Fresh'
  <2>1. OthersKeep(s) /\ ~Open(s)' /\ Open(s)
    BY <1>4, EndFields DEF Open, Commit
  <2>2. history' = history \cup txn[s].rows /\ nextId' = nextId
    BY <1>4 DEF Commit, Visible
  <2>3. \A r \in history' : r.id < nextId'
    BY <2>1, <2>2 DEF Fresh
  <2> QED
    BY <2>1, <2>2, <2>3 DEF Fresh, OthersKeep, Open
<1>5. CASE Tick \/ UNCHANGED vars
  BY <1>5 DEF Tick, vars, Fresh, Open
<1> QED
  BY <1>2, <1>3, <1>4, <1>5 DEF Next

LEMMA RulesInvStep ==
    ASSUME ManualAlone, RecordingEnabled, RulesInv, [Next]_vars
    PROVE  RulesInv'
<1>1. TypeInv' /\ Fresh'
  BY TypeInvStep, FreshStep DEF RulesInv
<1>2. ASSUME NEW s \in Session,
             \/ Begin(s) \/ Validate(s) \/ Skip(s) \/ Lock(s) \/ Record(s) \/ Finish(s)
             \/ Commit(s) \/ Abort(s)
      PROVE  TablesOK' /\ ManualExcludesAlter' /\ \A t \in Session : SessionOK(t)'
  BY <1>2, BeginAbortKeepRules, ValidateKeepsRules, SkipKeepsRules, LockKeepsRules,
     RecordKeepsRules, FinishKeepsRules, CommitKeepsRules
<1>3. CASE Tick \/ UNCHANGED vars
  <2>1. UNCHANGED <<history, version, changes, txn>>
    BY <1>3 DEF Tick, vars
  <2>2. TablesOK' /\ ManualExcludesAlter'
    BY <2>1 DEF RulesInv, TablesOK, ManualExcludesAlter, Manual
  <2>3. ASSUME NEW s \in Session
        PROVE  SessionOK(s)'
    BY <2>1 DEF RulesInv, SessionOK, Open, ValidatedHolds, Doomed, Visible, Done
  <2> QED
    BY <1>1, <2>2, <2>3 DEF RulesInv
<1> QED
  BY <1>1, <1>2, <1>3 DEF Next, RulesInv

\* The inductive invariant of the rules on old passwords: the rows match the changes,
\* also as an open transaction sees them, what was validated is still allowed or its
\* statement fails, and no identifier is given twice.
THEOREM RulesInductive ==
    ASSUME ManualAlone, RecordingEnabled
    PROVE  Spec => []RulesInv
<1>1. Init => RulesInv
  <2> SUFFICES ASSUME Init
               PROVE  RulesInv
    OBVIOUS
  <2>1. TypeInv
    BY TypeInvInit
  <2>2. Fresh /\ ManualExcludesAlter /\ \A s \in Session : SessionOK(s)
    BY DEF Init, Fresh, ManualExcludesAlter, Manual, SessionOK, Open, Idle
  <2>3. TablesOK
    BY FS_EmptySet DEF Init, TablesOK, Valid, Match, Rules
  <2> QED
    BY <2>1, <2>2, <2>3 DEF RulesInv
<1>2. RulesInv /\ [Next]_vars => RulesInv'
  BY RulesInvStep
<1> QED
  BY <1>1, <1>2, PTL DEF Spec

\* However many sessions change the password at once, and however often one does so
\* in a transaction, ALTER ROLE sets a password again only when the history has
\* HistoryCount other rows stamped no earlier than its own, provided that no ALTER
\* ROLE overlaps a call of record_password_change().
THEOREM RecentNotReusedThm ==
    ASSUME ManualAlone
    PROVE  Spec => []RecentNotReused
<1>1. CASE RecordingEnabled
  <2>1. RulesInv => RecentNotReused
    BY DEF RulesInv, TablesOK, Valid, Rules, RecentNotReused, RowsSince, RowsBefore
  <2> QED
    BY <1>1, <2>1, RulesInductive, PTL
<1>2. CASE ~RecordingEnabled
  <2>1. HistoryCount = 0
    BY <1>2, PasswordAssumption DEF RecordingEnabled
  <2>2. ASSUME TypeInv, NEW j \in DOMAIN changes, NEW i \in 1 .. j - 1
        PROVE  Cardinality(RowsSince(i, j)) > 0
    <3> DEFINE since == {m \in 1 .. j - 1 : changes[m].at >= changes[i].at}
               ids == {changes[k].row : k \in since}
    <3>1. changes \in Seq(Change) /\ j \in Nat
      BY <2>2 DEF TypeInv, TypeOK
    <3>2. i \in DOMAIN changes
      BY <3>1
    <3>3. changes[i].at \in Nat
      <4>1. changes[i] \in Change
        BY <3>1, <3>2
      <4> QED
        BY <4>1 DEF Change
    <3>4. i \in since
      BY <3>3
    <3>5. IsFiniteSet(since)
      <4>1. IsFiniteSet(1 .. j - 1)
        BY <3>1, FS_Interval
      <4> QED
        BY <4>1, FS_Subset
    <3> DEFINE f == [k \in since |-> changes[k].row]
    <3>6. f \in Surjection(since, ids)
      BY DEF Surjection
    <3>7. ids # {}
      BY <3>4
    <3>8. ids = RowsSince(i, j)
      BY DEF RowsSince
    <3> HIDE DEF f, since, ids
    <3>9. IsFiniteSet(ids)
      BY <3>5, <3>6, FS_Surjection
    <3>10. Cardinality(ids) \in Nat /\ Cardinality(ids) # 0
      BY <3>7, <3>9, FS_CardinalityType, FS_EmptySet
    <3> QED
      BY <3>8, <3>10
  <2>3. TypeInv => RecentNotReused
    BY <2>1, <2>2 DEF RecentNotReused
  <2>4. TypeInv /\ [Next]_vars => TypeInv'
    BY TypeInvStep
  <2> QED
    BY <2>3, <2>4, TypeInvInit, PTL DEF Spec
<1> QED
  BY <1>1, <1>2

\* Nor does it set a password again within ReuseDays of the stamp of the row that
\* stands for it, on the same condition.
THEOREM ReusePeriodKeptThm ==
    ASSUME ManualAlone
    PROVE  Spec => []ReusePeriodKept
<1>1. CASE RecordingEnabled
  <2>1. RulesInv => ReusePeriodKept
    BY DEF RulesInv, TablesOK, Valid, Rules, ReusePeriodKept
  <2> QED
    BY <1>1, <2>1, RulesInductive, PTL
<1>2. CASE ~RecordingEnabled
  <2>1. ~(ReuseDays > 0)
    BY <1>2 DEF RecordingEnabled
  <2>2. ReusePeriodKept
    BY <2>1 DEF ReusePeriodKept
  <2> QED
    BY <2>2, PTL
<1> QED
  BY <1>1, <1>2

=============================================================================
