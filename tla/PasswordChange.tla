--------------------------- MODULE PasswordChange ---------------------------
(***************************************************************************)
(* Changing the password of one role: the password hook validates the      *)
(* candidate against the history and then records it, in the transaction   *)
(* of ALTER ROLE (src/lib.rs).                                             *)
(*                                                                         *)
(* Validation reads the history without a lock; recording takes the role's *)
(* advisory lock until the transaction ends, stamps the history row with   *)
(* now(), which is when the transaction began, and the expiry row with a   *)
(* generation of its own.  PostgreSQL refuses an ALTER ROLE whose row      *)
(* another transaction has changed since the statement read it.            *)
(*                                                                         *)
(* Abstractions: a stored hash matches exactly its own password; a         *)
(* candidate that fails another rule (length, classes, user name,          *)
(* blacklist, custom check, a hook of another extension) is a transaction  *)
(* that aborts; exempt roles, which are neither validated nor recorded,    *)
(* are left out; of the settings only password_expiry_days changes, from   *)
(* zero and back; an expiry row is its generation (the grace logins are in *)
(* GraceLogins).                                                           *)
(***************************************************************************)
EXTENDS Integers, Sequences, FiniteSets

CONSTANTS Session, Password,
          HistoryCount,   \* password_history_count
          ReuseDays,      \* password_reuse_days, in ticks of the clock
          MaxTime,        \* bound on the clock, and on the generations changed again
          MaxChanges,     \* bound on the changes that are recorded
          ManualAlone     \* whether no ALTER ROLE runs while a call of
                          \* record_password_change() is not committed

ASSUME PasswordAssumption ==
    /\ IsFiniteSet(Password) /\ "none" \notin Password
    /\ HistoryCount \in Nat /\ ReuseDays \in Nat
    /\ MaxTime \in Nat \ {0} /\ MaxChanges \in Nat /\ ManualAlone \in BOOLEAN

NoRow == 0
Row == [pw : Password, at : Nat, id : Nat]
Kind == {"alter", "manual"}       \* ALTER ROLE; record_password_change()
Change == [pw : Password, kind : Kind, start : Nat, row : Nat, at : Nat]
TxnPC == {"open", "validated", "locked", "recorded"}
Idle == [pc |-> "idle"]
None == "none"
Txn == [pc : TxnPC, kind : Kind \cup {None}, start : Nat, pw : Password \cup {None},
        seen : Nat, rows : SUBSET Row, expiry : Nat, wrote : BOOLEAN,
        cleared : BOOLEAN, changes : Seq(Change)]

\* `kind` is the statement; `rows`, `expiry` and `changes` are what the
\* transaction has written so far, and `wrote` says whether it has; `cleared`, that
\* it has deleted the expiry row.  A change has the start of its transaction, and
\* the identifier and the stamp of the history row that stands for its password.

VARIABLES
    clock,      \* clock_timestamp()
    history,    \* committed password_history
    expiry,     \* the generation of the committed password_expiry row, or NoRow
    version,    \* the committed version of the role's row in pg_authid
    nextId,     \* password_history_id_seq
    txn,        \* the open transaction of each session
    changes     \* history: the passwords set or recorded, in the order of commits

vars == <<clock, history, expiry, version, nextId, txn, changes>>

\* The session holds the role's advisory lock: one that has recorded keeps it
\* to the end of its transaction.
Holds(s) == txn[s].pc \in {"locked", "recorded"} \/ (txn[s].pc # "idle" /\ txn[s].wrote)

TypeOK ==
    /\ clock \in 1 .. MaxTime
    /\ history \subseteq Row
    /\ expiry \in Nat /\ version \in Nat /\ nextId \in 1 .. MaxChanges + 1
    /\ txn \in [Session -> Txn \cup {Idle}]
    /\ changes \in Seq(Change)
    /\ \A s, t \in Session : Holds(s) /\ Holds(t) => s = t

Init ==
    /\ clock = 1 /\ history = {} /\ expiry = NoRow
    /\ version = 0 /\ nextId = 1
    /\ txn = [s \in Session |-> Idle] /\ changes = <<>>

Tick ==
    /\ clock < MaxTime /\ clock' = clock + 1
    /\ UNCHANGED <<history, expiry, version, nextId, txn, changes>>

\* The transaction begins; its now() is this instant.
Begin(s) ==
    /\ txn[s] = Idle
    /\ txn' = [txn EXCEPT ![s] = [pc |-> "open", kind |-> None, start |-> clock,
                                  pw |-> None, seen |-> 0, rows |-> {},
                                  expiry |-> NoRow, wrote |-> FALSE, cleared |-> FALSE,
                                  changes |-> <<>>]]
    /\ UNCHANGED <<clock, history, expiry, version, nextId, changes>>

----------------------------------------------------------------------------
(* validate_password *)

\* What a statement of the session sees.
Visible(s) == history \cup txn[s].rows
Done(s) == changes \o txn[s].changes

\* Mutant: one password less.
Last_OneLess(rows) ==
    {last \in SUBSET rows :
        /\ Cardinality(last) = IF Cardinality(rows) < HistoryCount - 1 THEN Cardinality(rows)
                               ELSE HistoryCount - 1
        /\ \A r \in last, q \in rows \ last : r.at >= q.at}

\* The rows ORDER BY changed_at DESC LIMIT may return: ties are open.
Last(rows) ==
    {last \in SUBSET rows :
        /\ Cardinality(last) = IF Cardinality(rows) < HistoryCount THEN Cardinality(rows)
                               ELSE HistoryCount
        /\ \A r \in last, q \in rows \ last : r.at >= q.at}

\* Mutant: the period is a day short.
Recent_OneLess(rows, now) == {r \in rows : r.at > now - (ReuseDays - 1)}

\* The rows changed_at > now() - ReuseDays, now() being when the transaction began.
Recent(rows, now) == {r \in rows : r.at > now - ReuseDays}

\* Both queries find no row of this password.
Accepted(s, pw) ==
    /\ HistoryCount > 0 => \E last \in Last(Visible(s)) : \A r \in last : r.pw # pw
    /\ ReuseDays > 0 => \A r \in Recent(Visible(s), txn[s].start) : r.pw # pw

\* The session has a call of record_password_change() that is not committed.
Manual(s) ==
    txn[s].pc # "idle" /\ (txn[s].kind = "manual" \/
                           \E i \in DOMAIN txn[s].changes : txn[s].changes[i].kind = "manual")

\* The hook's first half, in a statement that has read the role's row.
Validate(s) ==
    /\ txn[s].pc = "open"
    /\ ManualAlone => \A t \in Session \ {s} : ~Manual(t)
    /\ \E pw \in Password :
          /\ Accepted(s, pw)
          /\ txn' = [txn EXCEPT ![s].pc = "validated", ![s].kind = "alter",
                                 ![s].pw = pw, ![s].seen = version]
    /\ UNCHANGED <<clock, history, expiry, version, nextId, changes>>

\* record_password_change() does not validate.
Skip(s) ==
    /\ txn[s].pc = "open"
    /\ ManualAlone => \A t \in Session \ {s} : txn[t].pc \in {"idle", "open"}
    /\ \E pw \in Password :
          txn' = [txn EXCEPT ![s].pc = "validated", ![s].kind = "manual", ![s].pw = pw]
    /\ UNCHANGED <<clock, history, expiry, version, nextId, changes>>

----------------------------------------------------------------------------
(* record_password_change_internal *)

\* Mutant: recording does not take the lock.
Lock_None(s) ==
    /\ txn[s].pc = "validated"
    /\ txn' = [txn EXCEPT ![s].pc = "locked"]
    /\ UNCHANGED <<clock, history, expiry, version, nextId, changes>>

\* lock_password_history_for.
Lock(s) ==
    /\ txn[s].pc = "validated"
    /\ \A t \in Session \ {s} : ~Holds(t)
    /\ txn' = [txn EXCEPT ![s].pc = "locked"]
    /\ UNCHANGED <<clock, history, expiry, version, nextId, changes>>

\* The row ORDER BY changed_at DESC, id DESC LIMIT 1 returns, if there is one.
Latest(s) == {r \in Visible(s) :
                 \A q \in Visible(s) : q.at < r.at \/ (q.at = r.at /\ q.id <= r.id)}

\* The latest row represents this password.
AlreadyRecorded(s) == \E r \in Latest(s) : r.pw = txn[s].pw

\* password_history_recording_enabled.
RecordingEnabled == HistoryCount > 0 \/ ReuseDays > 0
Inserts(s) == RecordingEnabled /\ ~AlreadyRecorded(s)
NewRow(s) == [pw |-> txn[s].pw, at |-> txn[s].start, id |-> nextId]

\* The row that stands for the change: the new one, or the latest.
Standing(s) ==
    CASE Inserts(s) -> NewRow(s)
      [] ~Inserts(s) /\ RecordingEnabled -> CHOOSE r \in Latest(s) : r.pw = txn[s].pw
      [] ~RecordingEnabled -> [pw |-> txn[s].pw, at |-> txn[s].start, id |-> NoRow]

\* Mutant: the time at which the transaction began.
NewGeneration_TransactionStart(s, previous) == txn[s].start

\* GREATEST(clock_timestamp(), last_changed + 1 microsecond).
NewGeneration(s, previous) == IF clock > previous THEN clock ELSE previous + 1

ChangeOf(s) == [pw |-> txn[s].pw, kind |-> txn[s].kind, start |-> txn[s].start,
                row |-> Standing(s).id, at |-> Standing(s).at]

\* The expiry row this statement finds.
Previous(s) == IF txn[s].wrote THEN txn[s].expiry ELSE expiry

\* The history row, unless it is there, and the expiry row with its generation, or
\* no expiry row where password_expiry_days is zero.
Record(s) ==
    /\ txn[s].pc = "locked" /\ nextId <= MaxChanges /\ Len(Done(s)) < MaxChanges
    /\ Previous(s) <= MaxTime
    /\ \E expires \in BOOLEAN :
          txn' = [txn EXCEPT ![s].pc = "recorded", ![s].wrote = TRUE,
                             ![s].rows = IF Inserts(s) THEN @ \cup {NewRow(s)} ELSE @,
                             ![s].expiry = IF expires THEN NewGeneration(s, Previous(s))
                                           ELSE NoRow,
                             ![s].cleared = @ \/ ~expires,
                             ![s].changes = IF Inserts(s) \/ txn[s].kind = "alter"
                                            THEN Append(@, ChangeOf(s)) ELSE @]
    /\ nextId' = IF Inserts(s) THEN nextId + 1 ELSE nextId
    /\ UNCHANGED <<clock, history, expiry, version, changes>>

\* The rest of the statement.  ALTER ROLE fails when the role's row is not the
\* one it read: "tuple concurrently updated".
Finish(s) ==
    /\ txn[s].pc = "recorded"
    /\ txn[s].kind = "alter" => txn[s].seen = version
    /\ txn' = [txn EXCEPT ![s].pc = "open", ![s].kind = None, ![s].pw = None,
                           ![s].seen = 0]
    /\ UNCHANGED <<clock, history, expiry, version, nextId, changes>>

Commit(s) ==
    /\ txn[s].pc = "open" /\ txn[s].wrote
    /\ history' = Visible(s) /\ expiry' = txn[s].expiry
    /\ version' = IF \E i \in DOMAIN txn[s].changes : txn[s].changes[i].kind = "alter"
                  THEN version + 1 ELSE version
    /\ changes' = Done(s)
    /\ txn' = [txn EXCEPT ![s] = Idle]
    /\ UNCHANGED <<clock, nextId>>

\* A rule refuses the candidate, something fails, or the client gives up.
Abort(s) ==
    /\ txn[s] # Idle
    /\ txn' = [txn EXCEPT ![s] = Idle]
    /\ UNCHANGED <<clock, history, expiry, version, nextId, changes>>

Next ==
    \/ Tick
    \/ \E s \in Session :
          \/ Begin(s) \/ Validate(s) \/ Skip(s) \/ Lock(s) \/ Record(s) \/ Finish(s)
          \/ Commit(s) \/ Abort(s)

Spec == Init /\ [][Next]_vars

----------------------------------------------------------------------------
(* Properties. *)

\* The rows that stand for the changes before the j-th and are stamped no earlier
\* than the one that stands for the i-th.
RowsSince(i, j) ==
    {changes[k].row : k \in {m \in 1 .. j - 1 : changes[m].at >= changes[i].at}}

\* However many sessions change the password at once, and however often one of them
\* does so in a transaction, a password is set again only when the history has
\* HistoryCount other rows that are stamped no earlier than its own ("Number of
\* recent passwords checked", README.md:189).  Where the changes have different
\* stamps, in the order of the changes, these are the HistoryCount changes before;
\* rows with the same now(), or with one from before a later change's, may push out
\* a password that is more recent than theirs.
RecentNotReused ==
    \A j \in DOMAIN changes : changes[j].kind = "alter" =>
        \A i \in 1 .. j - 1 :
            changes[i].pw = changes[j].pw => Cardinality(RowsSince(i, j)) > HistoryCount

\* No password is set again within ReuseDays of the stamp of the row that stands for
\* it ("Minimum reuse period", README.md:190): the row of the change that set it or,
\* where it was set although it was the latest one, the row from before.
ReusePeriodKept ==
    \A j \in DOMAIN changes : changes[j].kind = "alter" =>
        \A i \in 1 .. j - 1 :
            ReuseDays > 0 /\ changes[i].pw = changes[j].pw =>
                changes[j].start - changes[i].at >= ReuseDays

\* Every change of the password gives the expiry row a later generation, so that a
\* grace event of the password before it is stale (src/lib.rs:1877-1887), unless the
\* transaction has deleted the row.
GenerationGrows ==
    [][changes' # changes \/ expiry' # expiry =>
          expiry' > expiry \/ \E s \in Session : Commit(s) /\ txn[s].cleared]_vars
=============================================================================
