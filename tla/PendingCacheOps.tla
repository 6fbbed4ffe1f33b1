-------------------------- MODULE PendingCacheOps --------------------------
(***************************************************************************)
(* One backend's staging of shared-cache changes, src/pending_cache_op.rs: *)
(* a bounded list of entries that savepoints discard or adopt and that the *)
(* commit callback applies to the shared caches, with the tables they      *)
(* describe beside it.                                                     *)
(*                                                                         *)
(* Each operation that writes login_attempts or password_expiry stages the *)
(* matching decision in the same transaction, so an action changes the     *)
(* table as the current subtransaction sees it and stages the entry.       *)
(*                                                                         *)
(* Abstractions: a row, a cache entry and a decision about it are one      *)
(* value (Absent: no row, ClearLock or Clear); the caches have room for    *)
(* every user; the backend is alone, since the per-user advisory lock is   *)
(* held until after the commit callback.                                   *)
(***************************************************************************)
EXTENDS Integers, SequencesExt

CONSTANTS User,
          Value,          \* what a row can hold
          Absent,         \* no row
          Untouched,      \* a decision of None: this cache is left alone
          Kinds,          \* bound on the operations run for a user
          MaxPendingOps,  \* MAX_PENDING_OPS
          MaxSubids       \* bound on the subtransactions of a transaction

\* What an operation decides about.
Kind == {"lock", "expiry", "combined"}

ASSUME PendingAssumption ==
    /\ Absent \notin Value /\ Untouched \notin Value \cup {Absent}
    /\ Kinds \in [User -> SUBSET Kind]
    /\ MaxPendingOps \in Nat \ {0} /\ MaxSubids \in Nat \ {0}

Row == Value \cup {Absent}
Decision == Row \cup {Untouched}
Subid == 1 .. MaxSubids
Entry == [user : User, lock : Decision, expiry : Decision, subid : Subid]

\* The state one level of the transaction sees: both tables, and the parity of
\* the number of auth events it has processed.
View == [lock : [User -> Row], expiry : [User -> Row], events : {0, 1}]

VARIABLES
    entries,   \* PENDING.entries[..len], in staging order
    ack,       \* the subid that staged an acknowledgement, or 0
    stack,     \* the subids of the open transaction, outermost first
    subids,    \* subids the open transaction has used
    views,     \* views[1] is committed, views[l + 1] is what level l sees
    failed,    \* the current level is in an error state
    caches,    \* the shared caches and the acknowledged events, as a View
    kinds,     \* history: the kinds of operation this transaction ran for a user
    mixed      \* history: users for whom a transaction that committed ran several

staging == <<entries, ack>>
transaction == <<stack, subids, views, failed>>
ran == <<kinds, mixed>>
vars == <<staging, transaction, caches, ran>>

NoAck == 0
EmptyView == [lock |-> [u \in User |-> Absent],
              expiry |-> [u \in User |-> Absent], events |-> 0]

Current == Last(stack)
InTransaction == stack # <<>>

\* The users for whom this transaction ran operations of several kinds, and those
\* for whom no transaction has, as far as the tables know.
Mixing == {u \in User : \E k, l \in kinds[u] : k # l}
Single == User \ (mixed \cup Mixing)

TypeOK ==
    /\ entries \in Seq(Entry) /\ Len(entries) <= MaxPendingOps
    /\ ack \in {NoAck} \cup Subid
    /\ stack \in Seq(Subid) /\ subids \in 0 .. MaxSubids
    /\ views \in Seq(View) /\ Len(views) = Len(stack) + 1
    /\ failed \in BOOLEAN
    /\ caches \in View
    /\ kinds \in [User -> SUBSET Kind] /\ mixed \in SUBSET User

Init ==
    /\ entries = <<>> /\ ack = NoAck
    /\ stack = <<>> /\ subids = 0 /\ views = <<EmptyView>> /\ failed = FALSE
    /\ caches = EmptyView
    /\ kinds = [u \in User |-> {}] /\ mixed = {}

----------------------------------------------------------------------------
(* PendingState. *)

\* stage_entry searches backwards for this user's entry at this level.
Matches(list, user, subid) ==
    {i \in DOMAIN list : list[i].user = user /\ list[i].subid = subid}

\* Mutant: the search ignores the level.
Staged_AnyLevel(list, e) ==
    LET found == {i \in DOMAIN list : list[i].user = e.user}
    IN  IF found # {}
        THEN [list EXCEPT ![Max(found)] = [e EXCEPT !.subid = list[Max(found)].subid]]
        ELSE Append(list, e)

Staged(list, e) ==
    LET found == Matches(list, e.user, e.subid)
    IN  IF found # {} THEN [list EXCEPT ![Max(found)] = e] ELSE Append(list, e)

\* Mutant: one entry too many fits.
Exceeds_OffByOne(list, e) ==
    Matches(list, e.user, e.subid) = {} /\ Len(list) > MaxPendingOps

\* No matching entry and no room: StageCapacityExceeded.
Exceeds(list, e) ==
    Matches(list, e.user, e.subid) = {} /\ Len(list) >= MaxPendingOps

\* The entries at the indices in `kept`, moved up in their order.
Retained(list, kept) ==
    [n \in 1 .. Cardinality(kept) |->
        list[CHOOSE i \in kept : Cardinality({j \in kept : j <= i}) = n]]

\* on_sub_abort.
Discarded(list, subid) == Retained(list, {i \in DOMAIN list : list[i].subid # subid})

\* compact_duplicates: an entry goes when a later one of the same level has
\* the same user.
Superseded(list, i) ==
    \E j \in i + 1 .. Len(list) : list[j].subid = list[i].subid /\ list[j].user = list[i].user
Compacted(list) == Retained(list, {i \in DOMAIN list : ~Superseded(list, i)})

\* on_sub_commit: the parent level adopts the entries.
Adopted(list, subid, parent) ==
    Compacted([i \in DOMAIN list |->
                 IF list[i].subid = subid THEN [list[i] EXCEPT !.subid = parent]
                 ELSE list[i]])

----------------------------------------------------------------------------
(* The commit callback's effect on shared memory. *)

ApplyEntry(cache, e) ==
    [cache EXCEPT
       !.lock[e.user] = IF e.lock = Untouched THEN @ ELSE e.lock,
       !.expiry[e.user] = IF e.expiry = Untouched THEN @ ELSE e.expiry]

\* apply_all, then the acknowledgement.
ApplyAll(cache, list) == FoldLeft(ApplyEntry, cache, list)
Acknowledge(cache, staged) ==
    IF staged = NoAck THEN cache ELSE [cache EXCEPT !.events = 1 - @]

----------------------------------------------------------------------------
(* The transaction, and the operations in it. *)

Begin ==
    /\ ~InTransaction
    /\ stack' = <<1>> /\ subids' = 1 /\ views' = Append(views, views[1])
    /\ UNCHANGED <<staging, failed, caches, ran>>

\* One operation on a user: its rows change and its decision is staged.  When
\* there is no room the operation raises, and its level can only roll back.
Operation(user, kind, lock, expiry) ==
    LET e == [user |-> user, lock |-> lock, expiry |-> expiry, subid |-> Current]
    IN  /\ InTransaction /\ ~failed /\ kind \in Kinds[user]
        /\ views' = [views EXCEPT ![Len(views)] = ApplyEntry(@, e)]
        /\ IF Exceeds(entries, e)
           THEN failed' = TRUE /\ UNCHANGED entries
           ELSE entries' = Staged(entries, e) /\ UNCHANGED failed
        /\ kinds' = [kinds EXCEPT ![user] = @ \cup {kind}]
        /\ UNCHANGED <<ack, stack, subids, caches, mixed>>

\* record_failed_login, clear_login_attempts: stage.
StageLock == \E user \in User, v \in Row : Operation(user, "lock", v, Untouched)

\* record_password_change: stage_expiry.
StageExpiry == \E user \in User, v \in Row : Operation(user, "expiry", Untouched, v)

\* rename_role_state, remove_role_state: stage_combined.
StageCombined == \E user \in User, v, w \in Row : Operation(user, "combined", v, w)

\* stage_ack, once the event's database work is done.
StageAck ==
    /\ InTransaction /\ ~failed
    /\ ack = NoAck
    /\ ack' = Current
    /\ views' = [views EXCEPT ![Len(views)].events = 1 - @]
    /\ UNCHANGED <<entries, stack, subids, failed, caches, ran>>

\* Any other error in the level.
Fail ==
    /\ InTransaction /\ ~failed
    /\ failed' = TRUE
    /\ UNCHANGED <<staging, stack, subids, views, caches, ran>>

Savepoint ==
    /\ InTransaction /\ ~failed
    /\ subids < MaxSubids /\ subids' = subids + 1
    /\ stack' = Append(stack, subids + 1)
    /\ views' = Append(views, Last(views))
    /\ UNCHANGED <<staging, failed, caches, ran>>

\* SUBXACT_EVENT_COMMIT_SUB.
ReleaseSavepoint ==
    /\ Len(stack) > 1 /\ ~failed
    /\ LET parent == stack[Len(stack) - 1]
       IN  /\ entries' = Adopted(entries, Current, parent)
           /\ ack' = IF ack = Current THEN parent ELSE ack
    /\ stack' = Front(stack)
    /\ views' = Append(Front(Front(views)), Last(views))
    /\ UNCHANGED <<subids, failed, caches, ran>>

\* SUBXACT_EVENT_ABORT_SUB.
RollbackToSavepoint ==
    /\ Len(stack) > 1
    /\ entries' = Discarded(entries, Current)
    /\ ack' = IF ack = Current THEN NoAck ELSE ack
    /\ stack' = Front(stack) /\ views' = Front(views) /\ failed' = FALSE
    /\ UNCHANGED <<subids, caches, ran>>

\* reset(), and the transaction is over with `committed` in the tables.
EndWith(committed) ==
    /\ entries' = <<>> /\ ack' = NoAck
    /\ stack' = <<>> /\ subids' = 0 /\ views' = <<committed>> /\ failed' = FALSE
    /\ kinds' = [u \in User |-> {}]

\* XACT_EVENT_COMMIT, savepoints released before.
Commit ==
    /\ Len(stack) = 1 /\ ~failed
    /\ caches' = Acknowledge(ApplyAll(caches, entries), ack)
    /\ EndWith(views[2]) /\ mixed' = mixed \cup Mixing

\* XACT_EVENT_ABORT.
Rollback ==
    /\ InTransaction
    /\ EndWith(views[1])
    /\ UNCHANGED <<caches, mixed>>

\* Mutant: PREPARE looks only at the cache operations.
IsEmpty_IgnoresAck == entries = <<>>

\* is_empty().
IsEmpty == entries = <<>> /\ ack = NoAck

\* PREPARE TRANSACTION and its COMMIT PREPARED, which any backend may run:
\* XACT_EVENT_PRE_PREPARE refuses unless nothing is staged, and the refusal
\* rolls the transaction back.
Prepare ==
    /\ Len(stack) = 1 /\ ~failed
    /\ EndWith(IF IsEmpty THEN views[2] ELSE views[1])
    /\ mixed' = IF IsEmpty THEN mixed \cup Mixing ELSE mixed
    /\ UNCHANGED caches

Next ==
    \/ Begin \/ Commit \/ Rollback \/ Prepare
    \/ StageLock \/ StageExpiry \/ StageCombined \/ StageAck \/ Fail
    \/ Savepoint \/ ReleaseSavepoint \/ RollbackToSavepoint

Spec == Init /\ [][Next]_vars

----------------------------------------------------------------------------
(* Properties. *)

\* Two views agree about the events, and about the rows of these users.
Agree(users, v, w) ==
    /\ v.events = w.events
    /\ \A u \in users : v.lock[u] = w.lock[u] /\ v.expiry[u] = w.expiry[u]

\* Between transactions and during one, the shared caches and the ring say
\* what the committed tables say, whatever savepoints were released and rolled
\* back on the way (src/pending_cache_op.rs:4-9), for every user but those for
\* whom one transaction ran operations of several kinds: stage_entry replaces an
\* entry whole (src/pending_cache_op.rs:199), so that a password change after
\* clear_login_attempts() drops its decision about the lock cache.
CachesMatchTables == Agree(User \ mixed, caches, views[1])

\* At every nesting level the entries that would survive, were all deeper
\* levels rolled back, lead from the caches to what that level sees: rolling
\* back a savepoint exposes the outer decision again and releasing it keeps
\* "latest wins" (src/pending_cache_op.rs:96-101), for every user without
\* operations of several kinds in a transaction.
EveryLevelResolves ==
    ~failed =>
        \A l \in 1 .. Len(stack) :
            LET levels == ToSet(SubSeq(stack, 1, l))
                surviving == Retained(entries, {i \in DOMAIN entries : entries[i].subid \in levels})
            IN  Agree(Single,
                      Acknowledge(ApplyAll(caches, surviving),
                                  IF ack \in levels THEN ack ELSE NoAck),
                      views[l + 1])
=============================================================================
