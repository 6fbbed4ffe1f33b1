------------------------------ MODULE RoleState ------------------------------
(***************************************************************************)
(* The state the extension keeps under a role's NAME, while roles are      *)
(* created, renamed and dropped and their passwords changed, and while the *)
(* worker applies the events of their logins (src/lib.rs, src/worker.rs).  *)
(*                                                                         *)
(* A transaction takes its locks one at a time, in the order of the code:  *)
(* the rows of pg_authid, and per name the two advisory locks.  It keeps   *)
(* them until it has committed and changed the caches, so that what it     *)
(* reads and writes under them is one step, at its commit.                 *)
(*                                                                         *)
(* Abstractions: names are numbered in their sort order; a lockout does    *)
(* not expire here (LoginLockout), the caches are usable (LoginLockout,    *)
(* GraceLogins) and are changed with the commit (PendingCacheOps), events  *)
(* are not lost (AuthPipeline) and their appends do not fail (GraceLogins  *)
(* has what a failed one leaves); a history is the role whose it is.       *)
(***************************************************************************)
EXTENDS Integers, Sequences, FiniteSets

CONSTANTS Name, Admin,
          MaxFails,     \* failed_login_max
          Grace,        \* password_grace_logins
          MaxRoles,     \* bound on the roles that are ever created
          MaxOps,       \* bound on the administrators' transactions
          MaxLogins     \* bound on the logins

ASSUME RoleStateAssumption ==
    /\ Name \subseteq Nat \ {0} /\ IsFiniteSet(Name) /\ 1 \in Name
    /\ IsFiniteSet(Admin) /\ Admin \cap {"worker", "free"} = {}
    /\ {MaxFails, Grace, MaxRoles} \subseteq Nat \ {0}
    /\ MaxOps \in Nat /\ MaxLogins \in Nat

Role == 1 .. MaxRoles
NoRole == 0
Session == Admin \cup {"worker"}
Free == "free"
Lock == {"authid", "login", "history"} \X Name

\* What the tables hold under a name.  An expiry row is there when `gen` is not
\* 0; `of` and `past` are the roles whose expiry and whose history it is.
Row == [fails : 0 .. MaxFails, gen : Nat, grace : 0 .. Grace,
        of : Role \cup {NoRole}, past : Role \cup {NoRole}]
NoState == [fails |-> 0, gen |-> 0, grace |-> 0, of |-> NoRole, past |-> NoRole]
Entry == [locked : BOOLEAN, gen : Nat, grace : 0 .. Grace]     \* both caches
EventKind == {"failure", "success", "grace"}
EventFlags == {"none", "clear"}         \* CLEAR_LOGIN_ATTEMPTS
Event == [kind : EventKind, flags : EventFlags, name : Name, gen : Nat,
          role : Role \cup {NoRole}]
Op == {"create", "password", "rename", "drop", "renameState", "removeState"}
Idle == [op |-> "idle", todo |-> <<>>]
Txn == [op : Op, old : Name, new : Name, role : Role \cup {NoRole}, todo : Seq(Lock)]
       \cup [op : {"event"}, todo : Seq(Lock)] \cup {Idle}

VARIABLES
    catalog,    \* committed pg_authid: the role that has each name
    row,        \* login_attempts, password_history and password_expiry
    cache,      \* the lock cache and the expiry cache
    queue,      \* the events the worker has not acknowledged
    txn,        \* the open transactions; `todo` is the locks still to be taken
    locks,      \* who holds each lock
    client,     \* a login that PostgreSQL has decided and the hook has not seen
    gen,        \* the clock, as the last generation
    roles, ops, logins,     \* how many there have been
    own,        \* history: what each role's state would be, were it kept by role
    overtaken   \* history: the roles whose name changed under an event of theirs, or
                \* whose state was moved or removed outside the renaming or the drop

bounds == <<roles, ops, logins>>
tables == <<catalog, row, cache, gen>>
vars == <<tables, queue, txn, locks, client, bounds, own, overtaken>>

Locked(fails) == fails = MaxFails
CacheOf(r) == [locked |-> Locked(r.fails), gen |-> r.gen, grace |-> r.grace]

TypeOK ==
    /\ catalog \in [Name -> Role \cup {NoRole}]
    /\ row \in [Name -> Row] /\ cache \in [Name -> Entry]
    /\ queue \in Seq(Event)
    /\ txn \in [Session -> Txn]
    /\ locks \in [Lock -> Session \cup {Free}]
    /\ client = <<>> \/ client \in Seq(Name \X (Role \cup {NoRole}))
    /\ gen \in Nat /\ roles \in Role /\ ops \in 0 .. MaxOps /\ logins \in 0 .. MaxLogins
    /\ own \in [Role -> [fails : 0 .. MaxFails, grace : 0 .. Grace]]
    /\ overtaken \subseteq Role

\* One role, with a password.
Init ==
    /\ catalog = [n \in Name |-> IF n = 1 THEN 1 ELSE NoRole]
    /\ row = [n \in Name |-> IF n = 1 THEN [fails |-> 0, gen |-> 1, grace |-> Grace,
                                            of |-> 1, past |-> 1]
                                      ELSE NoState]
    /\ cache = [n \in Name |-> CacheOf(row[n])]
    /\ queue = <<>> /\ client = <<>> /\ gen = 1
    /\ txn = [s \in Session |-> Idle] /\ locks = [l \in Lock |-> Free]
    /\ roles = 1 /\ ops = 0 /\ logins = 0
    /\ own = [r \in Role |-> [fails |-> 0, grace |-> Grace]] /\ overtaken = {}

----------------------------------------------------------------------------
(* Logins: PostgreSQL knows the role by its name; so does the event. *)

Authenticate(n) ==
    /\ client = <<>> /\ logins < MaxLogins
    /\ client' = <<<<n, catalog[n]>>>> /\ logins' = logins + 1
    /\ UNCHANGED <<tables, queue, txn, locks, roles, ops, own, overtaken>>

\* EventFlags::for_admission: the lockout switch at the login.  A failure has no
\* flag, and a success is recorded only while the switch is on.
MayFlag(kind, flags) == /\ kind = "failure" => flags = "none"
                        /\ kind = "success" => flags = "clear"

\* client_auth_hook: a failure under a name that exists, or a success that the
\* caches admit.  A grace login takes one from the cache together with its event.
Hook(kind, flags) ==
    /\ client # <<>> /\ MayFlag(kind, flags)
    /\ LET n == client[1][1]
           r == client[1][2]
           e == [kind |-> kind, flags |-> flags, name |-> n, role |-> r,
                 gen |-> IF kind = "grace" THEN cache[n].gen ELSE 0]
       IN  /\ IF kind = "failure" THEN catalog[n] # NoRole
              ELSE r # NoRole /\ (flags = "clear" => ~cache[n].locked)
           /\ kind = "grace" => cache[n].gen # 0 /\ cache[n].grace > 0
           /\ queue' = Append(queue, e)
           /\ cache' = IF kind = "grace" THEN [cache EXCEPT ![n].grace = @ - 1] ELSE cache
           /\ own' = IF kind = "grace" /\ r # NoRole
                     THEN [own EXCEPT ![r].grace = IF @ > 0 THEN @ - 1 ELSE 0] ELSE own
    /\ client' = <<>>
    /\ UNCHANGED <<catalog, row, gen, txn, locks, bounds, overtaken>>

\* A refused login, a failure of a name that does not exist, or enforcement is off.
HookRecordsNothing ==
    /\ client # <<>> /\ client' = <<>>
    /\ UNCHANGED <<tables, queue, txn, locks, bounds, own, overtaken>>

----------------------------------------------------------------------------
(* Locks. *)

Held(s) == {l \in Lock : locks[l] = s}
Released(s) == [l \in Lock |-> IF locks[l] = s THEN Free ELSE locks[l]]
Waits(s) == txn[s].todo # <<>> /\ locks[Head(txn[s].todo)] \notin {Free, s}
Blocker(s) == locks[Head(txn[s].todo)]

\* Everyone in D waits for someone in D.
Closed(D) == D # {} /\ \A s \in D : Waits(s) /\ Blocker(s) \in D

Acquire(s) ==
    /\ txn[s].todo # <<>> /\ ~Waits(s)
    /\ locks' = [locks EXCEPT ![Head(txn[s].todo)] = s]
    /\ txn' = [txn EXCEPT ![s].todo = Tail(@)]
    /\ UNCHANGED <<tables, queue, client, bounds, own, overtaken>>

\* The transaction ends without effect.
Ends(s) ==
    /\ txn' = [txn EXCEPT ![s] = Idle] /\ locks' = Released(s)
    /\ UNCHANGED <<tables, queue, client, bounds, own, overtaken>>

\* The deadlock detector breaks a cycle at any of its members.
BreakDeadlock(s) ==
    /\ \E D \in SUBSET Session :
          s \in D /\ Closed(D) /\ \A C \in SUBSET D : Closed(C) => C = D
    /\ Ends(s)

\* The worker's lock_timeout, or an administrator who gives up.
GiveUp(s) == txn[s] # Idle /\ (s = "worker" => Waits(s)) /\ Ends(s)

----------------------------------------------------------------------------
(* The worker: one transaction per event, retried until it commits. *)

\* persist_grace_consumption takes the history lock; record_failed_login, and
\* clear_login_attempts_internal where the flag asks for it, the login lock.
EventLocks(e) ==
    (IF e.kind = "grace" THEN <<<<"history", e.name>>>> ELSE <<>>)
    \o (IF e.kind = "failure" \/ e.flags = "clear" THEN <<<<"login", e.name>>>> ELSE <<>>)

BeginEvent ==
    /\ txn["worker"] = Idle /\ queue # <<>>
    /\ txn' = [txn EXCEPT !["worker"] = [op |-> "event", todo |-> EventLocks(Head(queue))]]
    /\ UNCHANGED <<tables, queue, locks, client, bounds, own, overtaken>>

\* The row of login_attempts after the event: a lockout stays.
FailsAfter(fails, e) ==
    CASE Locked(fails) -> fails
      [] ~Locked(fails) /\ e.kind = "failure" -> fails + 1
      [] ~Locked(fails) /\ e.kind # "failure" /\ e.flags = "clear" -> 0
      [] OTHER -> fails

\* Mutant: a grace login is counted whatever password it was for.
GraceAfter_AnyGeneration(r, e) == IF e.kind = "grace" /\ r.grace > 0 THEN r.grace - 1 ELSE r.grace

\* The row's allowance after the event; one of another generation is stale.
GraceAfter(r, e) ==
    IF e.kind = "grace" /\ r.gen = e.gen THEN r.grace - 1 ELSE r.grace

\* The row has no grace login left for one that was admitted: the transaction
\* fails, and will until the row changes.
Contradicts(r, e) == e.kind = "grace" /\ r.gen = e.gen /\ r.grace = 0

\* Mutant: the acknowledgement is not staged.
Acknowledged_Not(events) == events

\* The staged acknowledgement, applied by the commit.
Acknowledged(events) == Tail(events)

EventReady == txn["worker"].op = "event" /\ txn["worker"].todo = <<>>

EventFails == EventReady /\ Contradicts(row[Head(queue).name], Head(queue)) /\ Ends("worker")

CommitEvent ==
    /\ EventReady /\ ~Contradicts(row[Head(queue).name], Head(queue))
    /\ LET e == Head(queue)
           r == row[e.name]
           after == [r EXCEPT !.fails = FailsAfter(@, e), !.grace = GraceAfter(r, e)]
       IN  /\ row' = [row EXCEPT ![e.name] = after]
           /\ cache' = [cache EXCEPT ![e.name].locked = Locked(after.fails)]
           /\ own' = IF e.role = NoRole THEN own
                     ELSE [own EXCEPT ![e.role].fails = FailsAfter(@, e)]
    /\ queue' = Acknowledged(queue)
    /\ txn' = [txn EXCEPT !["worker"] = Idle] /\ locks' = Released("worker")
    /\ UNCHANGED <<catalog, gen, client, bounds, overtaken>>

----------------------------------------------------------------------------
(* The administrators. *)

\* Mutant: the names in the order of the arguments.
NameLocks_Unsorted(old, new) ==
    LET names == IF old = new THEN <<old>> ELSE <<old, new>>
        locksOf(space) == [i \in DOMAIN names |-> <<space, names[i]>>]
    IN  locksOf("login") \o locksOf("history")

\* lock_role_state_names: sorted, each name once.
NameLocks(old, new) ==
    LET names == IF old = new THEN <<old>> ELSE IF old < new THEN <<old, new>> ELSE <<new, old>>
        locksOf(space) == [i \in DOMAIN names |-> <<space, names[i]>>]
    IN  locksOf("login") \o locksOf("history")

\* The statements of a transaction, as the locks they take.  PostgreSQL locks
\* the role's row, and its new name, when it changes them: after the hook has
\* recorded a password, before the state is moved or removed.
LocksOf(op, old, new) ==
    LET ddl == IF old = new THEN <<<<"authid", old>>>> ELSE <<<<"authid", old>>, <<"authid", new>>>>
    IN  CASE op \in {"create", "password"}      -> <<<<"history", old>>>> \o ddl
          [] op \in {"rename", "drop"}          -> ddl \o NameLocks(old, new)
          [] op \in {"renameState", "removeState"} -> NameLocks(old, new)

\* The conditions at the start of the statement or function.  The two functions
\* are also called alone, with names that satisfy their checks.
MayBegin(op, old, new) ==
    CASE op = "create" ->
            /\ old = new /\ catalog[old] = NoRole
            /\ roles + Cardinality({s \in Admin : txn[s].op = "create"}) < MaxRoles
      [] op \in {"password", "drop"} -> old = new /\ catalog[old] # NoRole
      [] op = "rename" -> old # new /\ catalog[old] # NoRole /\ catalog[new] = NoRole
      [] op = "renameState" -> old # new /\ catalog[old] = NoRole /\ catalog[new] # NoRole
      [] op = "removeState" -> old = new /\ catalog[old] = NoRole

Begin(s, op, old, new) ==
    /\ txn[s] = Idle /\ ops < MaxOps /\ MayBegin(op, old, new)
    /\ txn' = [txn EXCEPT ![s] = [op |-> op, old |-> old, new |-> new, role |-> catalog[old],
                                  todo |-> LocksOf(op, old, new)]]
    /\ ops' = ops + 1
    /\ UNCHANGED <<tables, queue, locks, client, roles, logins, own, overtaken>>

\* PostgreSQL refuses to change a role that is not the one the statement read,
\* and a name that is taken; rename_role_state a target that has state.
Refused(t) ==
    \/ t.op \in {"create", "password", "rename", "drop"} /\ catalog[t.old] # t.role
    \/ t.op = "rename" /\ catalog[t.new] # NoRole
    \/ t.op \in {"rename", "renameState"} /\ row[t.new] # NoState

\* An event of the name is queued, or about to be.
InFlight(n) ==
    \/ \E i \in DOMAIN queue : queue[i].name = n
    \/ client # <<>> /\ client[1][1] = n

\* Mutant: the history stays behind.
Moved_LeavesHistory(r) == [r EXCEPT !.past = NoRole]

\* Mutant: the failed logins stay behind.
Moved_LeavesFails(r) == [r EXCEPT !.fails = 0]

\* The three UPDATEs of rename_role_state.
Moved(r) == [fails |-> r.fails, past |-> r.past, gen |-> r.gen, grace |-> r.grace, of |-> r.of]

\* What the transaction leaves under the names it has locked.
NewRows(t, r) ==
    CASE t.op \in {"create", "password"} ->
            [row EXCEPT ![t.old] = [@ EXCEPT !.gen = gen + 1, !.grace = Grace, !.of = r, !.past = r]]
      [] t.op \in {"rename", "renameState"} ->
            [row EXCEPT ![t.new] = Moved(row[t.old]), ![t.old] = NoState]
      [] t.op \in {"drop", "removeState"} -> [row EXCEPT ![t.old] = NoState]

NewCatalog(t, r) ==
    CASE t.op = "rename" -> [catalog EXCEPT ![t.new] = r, ![t.old] = NoRole]
      [] t.op = "create" -> [catalog EXCEPT ![t.old] = r]
      [] t.op = "drop" -> [catalog EXCEPT ![t.old] = NoRole]
      [] OTHER -> catalog

Commit(s) ==
    /\ txn[s].op \in Op /\ txn[s].todo = <<>> /\ ~Refused(txn[s])
    /\ LET t == txn[s]
           r == IF t.op = "create" THEN roles + 1 ELSE t.role
           names == {t.old, t.new}
           sets == t.op \in {"create", "password"}
           \* the password of a role leaves its failed logins alone
           entry(n) == IF sets THEN [CacheOf(row'[n]) EXCEPT !.locked = cache[n].locked]
                               ELSE CacheOf(row'[n])
       IN  /\ row' = NewRows(t, r) /\ catalog' = NewCatalog(t, r)
           /\ cache' = [n \in Name |-> IF n \in names THEN entry(n) ELSE cache[n]]
           /\ gen' = IF sets THEN gen + 1 ELSE gen
           /\ roles' = IF t.op = "create" THEN r ELSE roles
           /\ own' = IF sets THEN [own EXCEPT ![r].grace = Grace] ELSE own
           /\ overtaken' = overtaken \cup
                 CASE t.op = "rename" /\ (InFlight(t.old) \/ InFlight(t.new)) -> {r}
                   [] t.op = "create" /\ (InFlight(t.old) \/ row[t.old].fails > 0) -> {r}
                   [] t.op \in {"renameState", "removeState"} ->
                         {catalog[n] : n \in names} \ {NoRole}
                   [] OTHER -> {}
    /\ txn' = [txn EXCEPT ![s] = Idle] /\ locks' = Released(s)
    /\ UNCHANGED <<queue, client, ops, logins>>

Refuse(s) == txn[s].op \in Op /\ txn[s].todo = <<>> /\ Refused(txn[s]) /\ Ends(s)

Next ==
    \/ \E n \in Name : Authenticate(n)
    \/ (\E kind \in EventKind, flags \in EventFlags : Hook(kind, flags)) \/ HookRecordsNothing
    \/ BeginEvent \/ CommitEvent \/ EventFails
    \/ \E s \in Session : Acquire(s) \/ BreakDeadlock(s) \/ GiveUp(s)
    \/ \E s \in Admin :
          \/ \E op \in Op, old, new \in Name : Begin(s, op, old, new)
          \/ Commit(s) \/ Refuse(s)

\* The worker goes on, PostgreSQL breaks deadlocks and grants a lock to those
\* who queue for it in their turn, and no administrator keeps a transaction open.
Fairness ==
    /\ WF_vars(BeginEvent) /\ WF_vars(CommitEvent) /\ WF_vars(EventFails)
    /\ \A s \in Session : SF_vars(Acquire(s)) /\ WF_vars(BreakDeadlock(s))
    /\ \A s \in Admin : WF_vars(Commit(s)) /\ WF_vars(Refuse(s))

Spec == Init /\ [][Next]_vars /\ Fairness

----------------------------------------------------------------------------
(* Properties. *)

Pending(n, g) == {i \in DOMAIN queue : queue[i].kind = "grace" /\ queue[i].name = n
                                       /\ queue[i].gen = g}

\* Whoever has changed the names, the caches describe the rows: the lockouts, the
\* generations, and, for a role that was not overtaken, the allowances less the
\* logins that are still in the queue (rename_role_state and remove_role_state stage both caches).
CachesMatchRows ==
    \A n \in Name :
        /\ cache[n].locked = Locked(row[n].fails)
        /\ cache[n].gen = row[n].gen
        /\ row[n].of \notin {NoRole} \cup overtaken =>
              cache[n].grace = row[n].grace - Cardinality(Pending(n, row[n].gen))

\* The history and the expiry under a name are those of the role that has it, and
\* a free name has none: a password changed while its role is renamed or dropped
\* does not stay behind.  (rename_role_state and remove_role_state check the roles
\* before they lock, so that a call outside the transaction of the renaming or the
\* drop may meet a role that was created in between.)
StateFollowsRole ==
    \A n \in Name :
        {row[n].of, row[n].past, catalog[n]} \cap overtaken = {} =>
            row[n].of = catalog[n] /\ row[n].past = catalog[n]

\* A role keeps its failed logins and its allowance through renames, as if they
\* were kept by role, unless its name changed while an event of it was on its way.
RoleKeepsState ==
    \A n \in Name : catalog[n] \notin {NoRole} \cup overtaken =>
        /\ row[n].fails = own[catalog[n]].fails
        /\ cache[n].grace = own[catalog[n]].grace

\* Calls of rename_role_state and remove_role_state take their locks in one order
\* and never wait for each other in a circle (lock_role_state_names); what their
\* transactions hold of pg_authid by then does not close one.
RoleStateCallsInOrder ==
    \A D \in SUBSET {s \in Admin : /\ txn[s].op \in {"rename", "drop", "renameState", "removeState"}
                                  /\ Waits(s) /\ Head(txn[s].todo)[1] # "authid"} :
        ~Closed(D)

\* Every event is applied in the end, although the worker takes the two locks of
\* a grace login in the other order and loses to an administrator now and then.
\* (A role renamed and renamed back while an event of it is queued may leave the
\* worker with an event that contradicts the row.)
EventsDrain == queue # <<>> ~> (queue = <<>> \/ overtaken # {})
=============================================================================
