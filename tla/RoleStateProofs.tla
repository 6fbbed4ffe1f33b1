--------------------------- MODULE RoleStateProofs ---------------------------
(***************************************************************************)
(* Proofs about RoleState, for any number of names, roles, administrators, *)
(* transactions and logins.                                                *)
(***************************************************************************)
EXTENDS RoleState, FiniteSetTheorems, WellFoundedInduction, SequenceTheorems, TLAPS

\* What a transaction read when it began.
Plan(t) ==
    t.op \in Op =>
        /\ t.op = "create" => t.role = NoRole
        /\ t.op \in {"password", "rename", "drop"} => t.role # NoRole
        /\ t.op \in {"rename", "renameState"} <=> t.old # t.new

Creating == {s \in Admin : txn[s].op = "create"}

\* The worker's transaction is about an event that is still there, and there is a
\* number left for every role that is being created.
TypeInv ==
    /\ TypeOK
    /\ txn["worker"].op = "event" => queue # <<>>
    /\ \A s \in Session : Plan(txn[s])
    /\ roles + Cardinality(Creating) <= MaxRoles

\* A role has one name, and roles are numbered as they are created.
NamesInv ==
    /\ \A n \in Name : catalog[n] <= roles
    /\ \A m, n \in Name : catalog[m] = catalog[n] /\ catalog[m] # NoRole => m = n
    /\ \A r \in Role : r > roles => own[r].fails = 0

\* State that is under another role's name, and the role that has that name, are
\* both known to have been overtaken.
Follows(owner, role) == owner = role \/ {owner, role} \subseteq overtaken \cup {NoRole}
FollowInv == \A n \in Name : Follows(row[n].of, catalog[n]) /\ Follows(row[n].past, catalog[n])

\* Generations are taken from the clock.
GenInv ==
    /\ \A n \in Name : row[n].gen <= gen
    /\ \A i \in DOMAIN queue : queue[i].gen <= gen

\* An event of the queue, or the login that is about to be one.
Incoming == {<<queue[i].name, queue[i].role>> : i \in DOMAIN queue}
            \cup (IF client # <<>> THEN {<<client[1][1], client[1][2]>>} ELSE {})

\* A login or an event under a name is of the role that has it, and of no other.
Theirs(n, r) ==
    /\ r <= roles
    /\ catalog[n] \notin {NoRole} \cup overtaken => r = catalog[n]
    /\ \A m \in Name : catalog[m] = r /\ r \notin {NoRole} \cup overtaken => m = n
EventsInv == \A p \in Incoming : Theirs(p[1], p[2])

DataInv ==
    NamesInv /\ FollowInv /\ GenInv /\ EventsInv /\ CachesMatchRows /\ RoleKeepsState

\* The order in which lock_role_state_names takes its locks.
Before(a, b) ==
    \/ a[1] = "login" /\ b[1] = "history"
    \/ a[1] = b[1] /\ a[1] # "authid" /\ a[2] < b[2]

\* What comes later in the list, and what is held, is in that order.
StateCall(t) == t.op \in {"rename", "drop", "renameState", "removeState"}
Ordered(todo) ==
    \A i, j \in DOMAIN todo :
        i < j /\ todo[i][1] # "authid" /\ todo[j][1] # "authid" => Before(todo[i], todo[j])
InOrder(s) ==
    /\ Ordered(txn[s].todo)
    /\ \A l \in Held(s), i \in DOMAIN txn[s].todo :
          l[1] # "authid" /\ txn[s].todo[i][1] # "authid" => Before(l, txn[s].todo[i])
LocksInv ==
    \A s \in Session : /\ txn[s] = Idle => Held(s) = {}
                       /\ StateCall(txn[s]) => InOrder(s)

----------------------------------------------------------------------------
(* The lists of locks. *)

\* Two lists in order, the first before the second.
LEMMA ConcatOrdered ==
    ASSUME NEW a \in Seq(Lock), NEW b \in Seq(Lock), Ordered(a), Ordered(b),
           \A i \in DOMAIN a, j \in DOMAIN b :
              a[i][1] # "authid" /\ b[j][1] # "authid" => Before(a[i], b[j])
    PROVE  a \o b \in Seq(Lock) /\ Ordered(a \o b)
<1> DEFINE c == a \o b
<1>1. /\ c \in Seq(Lock) /\ Len(c) = Len(a) + Len(b)
      /\ \A i \in 1 .. Len(a) + Len(b) : c[i] = IF i <= Len(a) THEN a[i] ELSE b[i - Len(a)]
  BY ConcatProperties
<1>2. /\ Len(a) \in Nat /\ Len(b) \in Nat
      /\ DOMAIN a = 1 .. Len(a) /\ DOMAIN b = 1 .. Len(b) /\ DOMAIN c = 1 .. Len(c)
  BY <1>1, LenProperties
<1> HIDE DEF c
<1>3. ASSUME NEW i \in DOMAIN c, NEW j \in DOMAIN c, i < j,
             c[i][1] # "authid", c[j][1] # "authid"
      PROVE  Before(c[i], c[j])
  <2>1. CASE j <= Len(a)
    <3>1. i \in DOMAIN a /\ j \in DOMAIN a /\ c[i] = a[i] /\ c[j] = a[j]
      BY <1>1, <1>2, <1>3, <2>1
    <3> QED
      BY <3>1, <1>3 DEF Ordered
  <2>2. CASE i <= Len(a) /\ j > Len(a)
    <3>1. i \in DOMAIN a /\ j - Len(a) \in DOMAIN b /\ c[i] = a[i] /\ c[j] = b[j - Len(a)]
      BY <1>1, <1>2, <1>3, <2>2
    <3> QED
      BY <3>1, <1>3
  <2>3. CASE i > Len(a)
    <3>1. /\ i - Len(a) \in DOMAIN b /\ j - Len(a) \in DOMAIN b /\ i - Len(a) < j - Len(a)
          /\ c[i] = b[i - Len(a)] /\ c[j] = b[j - Len(a)]
      BY <1>1, <1>2, <1>3, <2>3
    <3> QED
      BY <3>1, <1>3 DEF Ordered
  <2> QED
    BY <1>1, <1>2, <1>3, <2>1, <2>2, <2>3
<1>4. Ordered(c)
  BY <1>3 DEF Ordered
<1> QED
  BY <1>1, <1>4 DEF c

\* The locks of names in ascending order.
LEMMA Ascending ==
    ASSUME NEW names \in Seq(Name), NEW space \in {"login", "history"},
           \A i, j \in DOMAIN names : i < j => names[i] < names[j]
    PROVE  LET l == [i \in DOMAIN names |-> <<space, names[i]>>]
           IN  l \in Seq(Lock) /\ Ordered(l)
<1> DEFINE l == [i \in DOMAIN names |-> <<space, names[i]>>]
<1>1. DOMAIN names = 1 .. Len(names) /\ Len(names) \in Nat
  BY LenProperties
<1>2. \A i \in DOMAIN names : l[i] \in Lock /\ l[i][1] = space /\ l[i][2] = names[i]
  BY ElementOfSeq, <1>1 DEF Lock
<1>3. l \in [1 .. Len(names) -> Lock]
  BY <1>1, <1>2
<1>4. l \in Seq(Lock)
  BY <1>1, <1>3, SeqDef
<1>5. Ordered(l)
  BY <1>1, <1>2 DEF Ordered, Before
<1> QED
  BY <1>4, <1>5

LEMMA NameLocksInOrder ==
    ASSUME NEW m \in Name, NEW n \in Name
    PROVE  NameLocks(m, n) \in Seq(Lock) /\ Ordered(NameLocks(m, n))
<1> DEFINE names == IF m = n THEN <<m>> ELSE IF m < n THEN <<m, n>> ELSE <<n, m>>
           a == [i \in DOMAIN names |-> <<"login", names[i]>>]
           b == [i \in DOMAIN names |-> <<"history", names[i]>>]
<1>1. names \in Seq(Name)
  OBVIOUS
<1>2. \A i, j \in DOMAIN names : i < j => names[i] < names[j]
  BY RoleStateAssumption
<1>3. NameLocks(m, n) = a \o b
  BY DEF NameLocks
<1> HIDE DEF names
<1>4. a \in Seq(Lock) /\ Ordered(a) /\ b \in Seq(Lock) /\ Ordered(b)
  BY <1>1, <1>2, Ascending
<1>5. \A i \in DOMAIN a, j \in DOMAIN b : Before(a[i], b[j])
  BY DEF Before
<1> HIDE DEF a, b
<1> QED
  BY <1>3, <1>4, <1>5, ConcatOrdered

\* What a transaction has to lock: a call of one of the two functions in order.
LEMMA LocksOfInOrder ==
    ASSUME NEW op \in Op, NEW m \in Name, NEW n \in Name
    PROVE  /\ LocksOf(op, m, n) \in Seq(Lock)
           /\ op \in {"rename", "drop", "renameState", "removeState"} => Ordered(LocksOf(op, m, n))
<1> DEFINE ddl == IF m = n THEN <<<<"authid", m>>>> ELSE <<<<"authid", m>>, <<"authid", n>>>>
           h == <<<<"history", m>>>>
<1>1. ddl \in Seq(Lock) /\ h \in Seq(Lock)
  <2>1. <<"authid", m>> \in Lock /\ <<"authid", n>> \in Lock /\ <<"history", m>> \in Lock
    BY DEF Lock
  <2>2. /\ <<<<"authid", m>>>> \in Seq(Lock) /\ h \in Seq(Lock)
        /\ <<<<"authid", m>>, <<"authid", n>>>> \in Seq(Lock)
    BY <2>1
  <2> QED
    BY <2>2
<1>2. \A i \in DOMAIN ddl : ddl[i][1] = "authid"
  OBVIOUS
<1>3. /\ op \in {"create", "password"} => LocksOf(op, m, n) = h \o ddl
      /\ op \in {"rename", "drop"} => LocksOf(op, m, n) = ddl \o NameLocks(m, n)
      /\ op \in {"renameState", "removeState"} => LocksOf(op, m, n) = NameLocks(m, n)
  BY DEF LocksOf
<1> HIDE DEF ddl, h
<1>4. Ordered(ddl)
  BY <1>2 DEF Ordered
<1>5. h \o ddl \in Seq(Lock)
  BY <1>1, ConcatProperties
<1>6. ddl \o NameLocks(m, n) \in Seq(Lock) /\ Ordered(ddl \o NameLocks(m, n))
  BY <1>1, <1>2, <1>4, NameLocksInOrder, ConcatOrdered
<1> QED
  BY <1>3, <1>5, <1>6, NameLocksInOrder DEF Op

----------------------------------------------------------------------------
(* The steps, transaction by transaction. *)

OthersKeep(s) == \A t \in Session \ {s} : txn'[t] = txn[t] /\ Held(t)' = Held(t)

\* The transaction of s ends, one way or another.
Closes(s) == txn' = [txn EXCEPT ![s] = Idle] /\ locks' = Released(s)

LEMMA Sessions ==
    /\ "worker" \in Session /\ Admin \subseteq Session /\ Free \notin Session
    /\ "worker" \notin Admin
BY RoleStateAssumption DEF Session, Free

LEMMA IdleFields ==
    Idle.op = "idle" /\ Idle.todo = <<>> /\ Idle \in Txn /\ Plan(Idle) /\ ~StateCall(Idle)
BY DEF Idle, Txn, Plan, Op, StateCall

LEMMA TxnFields ==
    ASSUME NEW t \in Txn
    PROVE  /\ t.todo \in Seq(Lock)
           /\ t.op \in Op => t \in [op : Op, old : Name, new : Name,
                                    role : Role \cup {NoRole}, todo : Seq(Lock)]
           /\ t.op = "idle" => t = Idle
           /\ \A l \in Seq(Lock) :
                 t # Idle => [t EXCEPT !.todo = l] \in Txn /\ [t EXCEPT !.todo = l] # Idle
<1>1. CASE t \in [op : Op, old : Name, new : Name, role : Role \cup {NoRole}, todo : Seq(Lock)]
  <2>1. t.op # "idle" /\ t.op # "event" /\ t.todo \in Seq(Lock)
    BY <1>1 DEF Op
  <2>2. ASSUME NEW l \in Seq(Lock)
        PROVE  [t EXCEPT !.todo = l] \in Txn /\ [t EXCEPT !.todo = l].op # "idle"
    BY <1>1, <2>1 DEF Txn
  <2> QED
    BY <1>1, <2>1, <2>2, IdleFields
<1>2. CASE t \in [op : {"event"}, todo : Seq(Lock)]
  <2>1. t.op = "event" /\ t.todo \in Seq(Lock)
    BY <1>2
  <2>2. ASSUME NEW l \in Seq(Lock)
        PROVE  [t EXCEPT !.todo = l] \in Txn /\ [t EXCEPT !.todo = l].op # "idle"
    BY <1>2 DEF Txn
  <2> QED
    BY <1>2, <2>1, <2>2, IdleFields DEF Op
<1>3. CASE t = Idle
  BY <1>3, IdleFields DEF Op
<1> QED
  BY <1>1, <1>2, <1>3 DEF Txn

LEMMA AcquireFields ==
    ASSUME TypeOK, NEW s \in Session, Acquire(s)
    PROVE  /\ txn' \in [Session -> Txn] /\ locks' \in [Lock -> Session \cup {Free}]
           /\ OthersKeep(s)
           /\ txn[s] # Idle /\ txn'[s] # Idle
           /\ txn[s].todo \in Seq(Lock) /\ txn[s].todo # <<>>
           /\ txn'[s] = [txn[s] EXCEPT !.todo = Tail(txn[s].todo)]
           /\ txn'[s].op = txn[s].op /\ txn'[s].todo = Tail(txn[s].todo)
           /\ Held(s)' \subseteq Held(s) \cup {Head(txn[s].todo)}
<1> DEFINE d == txn[s].todo
           u == [txn[s] EXCEPT !.todo = Tail(d)]
<1>1. /\ txn[s] \in Txn /\ d # <<>> /\ txn \in [Session -> Txn]
      /\ locks \in [Lock -> Session \cup {Free}] /\ ~Waits(s)
      /\ locks' = [locks EXCEPT ![Head(d)] = s] /\ txn' = [txn EXCEPT ![s].todo = Tail(@)]
  BY DEF Acquire, TypeOK
<1>2. txn[s] # Idle /\ d \in Seq(Lock)
  BY <1>1, TxnFields, IdleFields
<1>3. Head(d) \in Lock /\ Tail(d) \in Seq(Lock)
  BY <1>1, <1>2, HeadTailProperties
<1>4. u \in Txn /\ u # Idle
  BY <1>1, <1>2, <1>3, TxnFields
<1>5. u.op = txn[s].op /\ u.todo = Tail(d)
  BY <1>1, <1>2 DEF Txn
<1>6. txn' = [txn EXCEPT ![s] = u]
  BY <1>1
<1> HIDE DEF d, u
<1>7. txn' \in [Session -> Txn] /\ txn'[s] = u /\ \A t \in Session \ {s} : txn'[t] = txn[t]
  BY <1>1, <1>4, <1>6
<1>8. locks' \in [Lock -> Session \cup {Free}]
  BY <1>1, <1>3
<1>9. locks[Head(d)] \in {Free, s}
  BY <1>1 DEF Waits, d
<1>10. \A t \in Session \ {s} : Held(t)' = Held(t)
  BY <1>1, <1>3, <1>9, Sessions DEF Held
<1>11. Held(s)' \subseteq Held(s) \cup {Head(d)}
  BY <1>1, <1>3 DEF Held
<1> QED
  BY <1>1, <1>2, <1>4, <1>5, <1>7, <1>8, <1>10, <1>11 DEF OthersKeep, d, u

LEMMA CloseFields ==
    ASSUME TypeOK, NEW s \in Session, Closes(s)
    PROVE  /\ txn' \in [Session -> Txn] /\ locks' \in [Lock -> Session \cup {Free}]
           /\ OthersKeep(s) /\ txn'[s] = Idle /\ Held(s)' = {}
<1>1. txn \in [Session -> Txn] /\ locks \in [Lock -> Session \cup {Free}]
  BY DEF TypeOK
<1>2. locks' = [l \in Lock |-> IF locks[l] = s THEN Free ELSE locks[l]]
  BY DEF Closes, Released
<1>3. txn' \in [Session -> Txn] /\ txn'[s] = Idle /\ \A t \in Session \ {s} : txn'[t] = txn[t]
  BY <1>1, IdleFields DEF Closes
<1>4. locks' \in [Lock -> Session \cup {Free}]
  BY <1>1, <1>2
<1>5. Held(s)' = {} /\ \A t \in Session \ {s} : Held(t)' = Held(t)
  BY <1>1, <1>2, Sessions DEF Held
<1> QED
  BY <1>3, <1>4, <1>5 DEF OthersKeep

LEMMA BeginFields ==
    ASSUME TypeOK, NEW s \in Admin, NEW op \in Op, NEW old \in Name, NEW new \in Name,
           Begin(s, op, old, new)
    PROVE  /\ txn' \in [Session -> Txn] /\ locks' = locks /\ OthersKeep(s)
           /\ txn[s] = Idle /\ txn'[s] # Idle
           /\ txn'[s] = [op |-> op, old |-> old, new |-> new, role |-> catalog[old],
                         todo |-> LocksOf(op, old, new)]
<1> DEFINE t == [op |-> op, old |-> old, new |-> new, role |-> catalog[old],
                 todo |-> LocksOf(op, old, new)]
<1>1. /\ txn \in [Session -> Txn] /\ catalog[old] \in Role \cup {NoRole} /\ s \in Session
      /\ txn' = [txn EXCEPT ![s] = t] /\ locks' = locks /\ txn[s] = Idle
  BY Sessions DEF Begin, TypeOK
<1>2. t \in Txn
  BY <1>1, LocksOfInOrder DEF Txn
<1>3. t # Idle
  <2>1. t.op # "idle"
    BY DEF Op
  <2> QED
    BY <2>1, IdleFields
<1> HIDE DEF t
<1>4. txn' \in [Session -> Txn] /\ txn'[s] = t /\ \A x \in Session \ {s} : txn'[x] = txn[x]
  BY <1>1, <1>2
<1>5. \A x \in Session : Held(x)' = Held(x)
  BY <1>1 DEF Held
<1> QED
  BY <1>1, <1>3, <1>4, <1>5 DEF OthersKeep, t

LEMMA BeginEventFields ==
    ASSUME TypeOK, BeginEvent
    PROVE  /\ txn' \in [Session -> Txn] /\ locks' = locks /\ OthersKeep("worker")
           /\ txn["worker"] = Idle /\ txn'["worker"].op = "event" /\ txn'["worker"] # Idle
           /\ queue # <<>>
<1> DEFINE t == [op |-> "event", todo |-> EventLocks(Head(queue))]
<1>1. /\ txn \in [Session -> Txn] /\ queue \in Seq(Event) /\ queue # <<>>
      /\ txn' = [txn EXCEPT !["worker"] = t] /\ locks' = locks /\ txn["worker"] = Idle
  BY DEF BeginEvent, TypeOK
<1>2. Head(queue).name \in Name
  <2>1. Head(queue) \in Event
    BY <1>1, HeadTailProperties
  <2> QED
    BY <2>1 DEF Event
<1>3. EventLocks(Head(queue)) \in Seq(Lock)
  <2>1. <<"history", Head(queue).name>> \in Lock /\ <<"login", Head(queue).name>> \in Lock
    BY <1>2 DEF Lock
  <2>2. /\ <<>> \in Seq(Lock)
        /\ <<<<"history", Head(queue).name>>>> \in Seq(Lock)
        /\ <<<<"login", Head(queue).name>>>> \in Seq(Lock)
    BY <2>1
  <2> QED
    BY <2>2, ConcatProperties DEF EventLocks
<1>4. t \in Txn /\ t.op = "event" /\ t # Idle
  BY <1>3, IdleFields DEF Txn
<1> HIDE DEF t
<1>5. /\ txn' \in [Session -> Txn] /\ txn'["worker"] = t
      /\ \A x \in Session \ {"worker"} : txn'[x] = txn[x]
  BY <1>1, <1>4, Sessions
<1>6. \A x \in Session : Held(x)' = Held(x)
  BY <1>1 DEF Held
<1> QED
  BY <1>1, <1>4, <1>5, <1>6 DEF OthersKeep

\* What a step does to the transactions.
LEMMA Steps ==
    ASSUME TypeOK, [Next]_vars
    PROVE  \/ UNCHANGED <<txn, locks>>
           \/ \E s \in Session : Acquire(s) \/ Closes(s)
           \/ \E s \in Admin, op \in Op, old, new \in Name : Begin(s, op, old, new)
           \/ BeginEvent
<1>1. ASSUME NEW s \in Session, Ends(s)
      PROVE  Closes(s)
  BY <1>1 DEF Ends, Closes
<1>2. ASSUME NEW n \in Name, Authenticate(n)
      PROVE  UNCHANGED <<txn, locks>>
  BY <1>2 DEF Authenticate
<1>3. ASSUME NEW k \in EventKind, NEW f \in EventFlags, Hook(k, f)
      PROVE  UNCHANGED <<txn, locks>>
  BY <1>3 DEF Hook
<1>4. HookRecordsNothing => UNCHANGED <<txn, locks>>
  BY DEF HookRecordsNothing
<1>5. CommitEvent \/ EventFails => Closes("worker")
  BY <1>1, Sessions DEF CommitEvent, EventFails, Closes
<1>6. ASSUME NEW s \in Session, BreakDeadlock(s) \/ GiveUp(s)
      PROVE  Closes(s)
  BY <1>1, <1>6 DEF BreakDeadlock, GiveUp
<1>7. ASSUME NEW s \in Admin, Commit(s) \/ Refuse(s)
      PROVE  Closes(s) /\ s \in Session
  BY <1>1, <1>7, Sessions DEF Commit, Refuse, Closes
<1>8. UNCHANGED vars => UNCHANGED <<txn, locks>>
  BY DEF vars
<1> QED
  BY <1>2, <1>3, <1>4, <1>5, <1>6, <1>7, <1>8, Sessions DEF Next

----------------------------------------------------------------------------
(* The calls of the two functions do not wait for each other in a circle. *)

LEMMA LocksInvInit == Init => LocksInv
<1> SUFFICES ASSUME Init PROVE LocksInv
  OBVIOUS
<1>1. \A s \in Session : txn[s] = Idle /\ Held(s) = {}
  BY Sessions DEF Init, Held
<1> QED
  BY <1>1, IdleFields DEF LocksInv

\* Taking the next lock of a list in order leaves what is held before the rest.
LEMMA AcquireInOrder ==
    ASSUME TypeOK, NEW s \in Session, Acquire(s), InOrder(s)
    PROVE  InOrder(s)'
<1> DEFINE d == txn[s].todo
           e == Tail(d)
<1>1. /\ d \in Seq(Lock) /\ d # <<>> /\ txn'[s].todo = e
      /\ Held(s)' \subseteq Held(s) \cup {Head(d)}
  BY AcquireFields
<1>2. /\ e \in Seq(Lock) /\ Len(e) = Len(d) - 1 /\ Head(d) = d[1] /\ Len(d) \in Nat \ {0}
      /\ \A i \in 1 .. Len(e) : e[i] = d[i + 1]
  BY <1>1, HeadTailProperties, EmptySeq
<1>3. DOMAIN d = 1 .. Len(d) /\ DOMAIN e = 1 .. Len(e)
  BY <1>1, <1>2, LenProperties
<1>4. /\ Ordered(d)
      /\ \A l \in Held(s), i \in DOMAIN d :
            l[1] # "authid" /\ d[i][1] # "authid" => Before(l, d[i])
  BY DEF InOrder
<1> HIDE DEF d, e
<1>5. Ordered(e)
  <2> SUFFICES ASSUME NEW i \in DOMAIN e, NEW j \in DOMAIN e, i < j,
                      e[i][1] # "authid", e[j][1] # "authid"
               PROVE  Before(e[i], e[j])
    BY DEF Ordered
  <2>1. i + 1 \in DOMAIN d /\ j + 1 \in DOMAIN d /\ i + 1 < j + 1 /\ e[i] = d[i + 1] /\ e[j] = d[j + 1]
    BY <1>2, <1>3
  <2> QED
    BY <1>4, <2>1 DEF Ordered
<1>6. ASSUME NEW l \in Held(s) \cup {Head(d)}, NEW i \in DOMAIN e,
             l[1] # "authid", e[i][1] # "authid"
      PROVE  Before(l, e[i])
  <2>1. 1 \in DOMAIN d /\ i + 1 \in DOMAIN d /\ 1 < i + 1 /\ e[i] = d[i + 1]
    BY <1>2, <1>3
  <2>2. CASE l \in Held(s)
    BY <1>4, <1>6, <2>1, <2>2
  <2>3. CASE l = Head(d)
    BY <1>2, <1>4, <1>6, <2>1, <2>3 DEF Ordered
  <2> QED
    BY <2>2, <2>3
<1> QED
  BY <1>1, <1>5, <1>6 DEF InOrder

LEMMA LocksInvStep ==
    ASSUME TypeOK, LocksInv, [Next]_vars
    PROVE  LocksInv'
<1> DEFINE OK(x) == /\ txn[x] = Idle => Held(x) = {}
                    /\ StateCall(txn[x]) => InOrder(x)
<1>1. \A x \in Session : OK(x)
  BY DEF LocksInv
<1>2. ASSUME NEW s \in Session, OthersKeep(s), OK(s)'
      PROVE  LocksInv'
  <2>1. ASSUME NEW x \in Session \ {s}
        PROVE  OK(x)'
    <3>1. txn'[x] = txn[x] /\ Held(x)' = Held(x)
      BY <1>2 DEF OthersKeep
    <3>2. InOrder(x) => InOrder(x)'
      BY <3>1 DEF InOrder
    <3> QED
      BY <1>1, <3>1, <3>2
  <2> QED
    BY <1>2, <2>1 DEF LocksInv
<1>3. CASE UNCHANGED <<txn, locks>>
  BY <1>3 DEF LocksInv, InOrder, Held
<1>4. ASSUME NEW s \in Session, Acquire(s)
      PROVE  LocksInv'
  <2>1. OthersKeep(s) /\ txn'[s] # Idle /\ txn'[s].op = txn[s].op
    BY <1>4, AcquireFields
  <2>2. StateCall(txn'[s]) => InOrder(s)'
    BY <1>1, <1>4, <2>1, AcquireInOrder DEF StateCall
  <2> QED
    BY <1>2, <2>1, <2>2
<1>5. ASSUME NEW s \in Session, Closes(s)
      PROVE  LocksInv'
  BY <1>2, <1>5, CloseFields, IdleFields
<1>6. ASSUME NEW s \in Admin, NEW op \in Op, NEW old \in Name, NEW new \in Name,
             Begin(s, op, old, new)
      PROVE  LocksInv'
  <2>1. /\ OthersKeep(s) /\ txn[s] = Idle /\ txn'[s] # Idle /\ locks' = locks /\ s \in Session
        /\ txn'[s].op = op /\ txn'[s].todo = LocksOf(op, old, new)
    <3>1. /\ OthersKeep(s) /\ txn[s] = Idle /\ txn'[s] # Idle /\ locks' = locks
          /\ txn'[s] = [op |-> op, old |-> old, new |-> new, role |-> catalog[old],
                         todo |-> LocksOf(op, old, new)]
      BY <1>6, BeginFields
    <3> QED
      BY <3>1, Sessions
  <2>2. Held(s)' = {}
    BY <1>1, <2>1 DEF Held
  <2>3. StateCall(txn'[s]) => InOrder(s)'
    BY <2>1, <2>2, LocksOfInOrder DEF InOrder, StateCall
  <2> QED
    BY <1>2, <2>1, <2>3
<1>7. CASE BeginEvent
  <2>1. OthersKeep("worker") /\ txn'["worker"] # Idle /\ ~StateCall(txn'["worker"])
    BY <1>7, BeginEventFields DEF StateCall
  <2> QED
    BY <1>2, <2>1, Sessions
<1> QED
  BY Steps, <1>3, <1>4, <1>5, <1>6, <1>7

\* A strict order on a finite set has a maximal element.
LEMMA HasMaximal ==
    ASSUME NEW D, IsFiniteSet(D), D # {}, NEW R,
           \A x \in D : <<x, x>> \notin R,
           \A x, y, z \in D : <<x, y>> \in R /\ <<y, z>> \in R => <<x, z>> \in R
    PROVE  \E x \in D : \A y \in D : <<x, y>> \notin R
<1> DEFINE Bad == {E \in SUBSET D : E # {} /\ \A x \in E : \E y \in E : <<x, y>> \in R}
<1> SUFFICES ASSUME \A x \in D : \E y \in D : <<x, y>> \in R
             PROVE  FALSE
  OBVIOUS
<1>1. D \in Bad
  OBVIOUS
<1>2. IsWellFoundedOn(StrictSubsetOrdering(D), SUBSET D)
  <2>1. IsWellFoundedOn(StrictSubsetOrdering(D), FiniteSubsetsOf(D))
    BY FS_StrictSubsetOrderingWellFounded
  <2>2. FiniteSubsetsOf(D) = SUBSET D
    BY FS_FiniteSubsetsOfFinite
  <2> QED
    BY <2>1, <2>2
<1>3. PICK E \in Bad : \A F \in Bad : <<F, E>> \notin StrictSubsetOrdering(D)
  <2>1. Bad \subseteq SUBSET D /\ Bad # {}
    BY <1>1
  <2> HIDE DEF Bad
  <2> QED
    BY <1>2, <2>1, WFMin
<1>4. PICK e \in E : TRUE
  OBVIOUS
<1> DEFINE F == E \ {e}
<1>5. F # {}
  BY <1>4
<1>6. <<F, E>> \in StrictSubsetOrdering(D)
  BY <1>4 DEF StrictSubsetOrdering
<1>7. F \notin Bad
  BY <1>3, <1>6
<1>8. PICK m \in F : \A y \in F : <<m, y>> \notin R
  BY <1>5, <1>7
<1>9. <<m, e>> \in R
  BY <1>4, <1>8
<1>10. PICK y \in E : <<e, y>> \in R
  BY <1>4
<1>11. <<m, y>> \in R /\ y \in F
  BY <1>4, <1>8, <1>9, <1>10
<1> QED
  BY <1>8, <1>11

\* Who waits for a lock that another call holds has come less far.
LEMMA CallsInOrder ==
    ASSUME TypeOK, LocksInv
    PROVE  RoleStateCallsInOrder
<1> DEFINE Calls == {s \in Admin : /\ StateCall(txn[s])
                                  /\ Waits(s) /\ Head(txn[s].todo)[1] # "authid"}
<1> SUFFICES ASSUME NEW D \in SUBSET Calls, Closed(D)
             PROVE  FALSE
  BY DEF RoleStateCallsInOrder, StateCall
<1> DEFINE L(s) == Head(txn[s].todo)
           R == {p \in D \X D : Before(L(p[1]), L(p[2]))}
<1>1. D # {} /\ IsFiniteSet(D) /\ \A s \in D : s \in Session /\ Blocker(s) \in D
  BY FS_Subset, RoleStateAssumption, Sessions DEF Closed
<1>2. ASSUME NEW s \in D
      PROVE  /\ txn[s].todo \in Seq(Lock) /\ txn[s].todo # <<>>
             /\ L(s) = txn[s].todo[1] /\ 1 \in DOMAIN txn[s].todo
             /\ L(s) \in Lock /\ L(s)[1] # "authid" /\ L(s)[2] \in Nat
  <2>1. txn[s] \in Txn /\ txn[s].todo # <<>> /\ L(s)[1] # "authid"
    BY <1>1 DEF TypeOK, Waits
  <2>2. txn[s].todo \in Seq(Lock)
    BY <2>1, TxnFields
  <2>3. L(s) = txn[s].todo[1] /\ L(s) \in Lock /\ 1 \in DOMAIN txn[s].todo
    BY <2>1, <2>2, HeadTailProperties, EmptySeq, LenProperties
  <2> QED
    BY <2>1, <2>2, <2>3, RoleStateAssumption DEF Lock
<1>3. ASSUME NEW s \in D
      PROVE  <<s, Blocker(s)>> \in R
  <2> DEFINE b == Blocker(s)
  <2>1. b \in D /\ b \in Session /\ StateCall(txn[b]) /\ L(s) \in Held(b)
    BY <1>1, <1>2 DEF Held, Blocker
  <2>2. InOrder(b)
    BY <2>1 DEF LocksInv
  <2>3. Before(L(s), L(b))
    BY <1>2, <2>1, <2>2 DEF InOrder
  <2> QED
    BY <2>1, <2>3
<1>4. \A x \in D : <<x, x>> \notin R
  BY <1>2 DEF Before
<1>5. ASSUME NEW x \in D, NEW y \in D, NEW z \in D, <<x, y>> \in R, <<y, z>> \in R
      PROVE  <<x, z>> \in R
  <2>1. Before(L(x), L(y)) /\ Before(L(y), L(z))
    BY <1>5
  <2>2. L(x)[2] \in Nat /\ L(y)[2] \in Nat /\ L(z)[2] \in Nat
    BY <1>2
  <2> HIDE DEF L
  <2>3. Before(L(x), L(z))
    BY <2>1, <2>2 DEF Before
  <2> QED
    BY <2>3
<1> HIDE DEF R
<1>6. PICK x \in D : \A y \in D : <<x, y>> \notin R
  BY <1>1, <1>4, <1>5, HasMaximal
<1> QED
  BY <1>1, <1>3, <1>6

----------------------------------------------------------------------------
(* The steps that change the tables, the caches or the queue, field by field. *)

LEMMA RowFields ==
    ASSUME TypeOK, NEW n \in Name
    PROVE  /\ row[n] \in Row /\ cache[n] \in Entry /\ catalog[n] \in Role \cup {NoRole}
           /\ row[n].fails \in 0 .. MaxFails /\ row[n].gen \in Nat /\ row[n].grace \in 0 .. Grace
           /\ cache[n].gen \in Nat /\ cache[n].grace \in 0 .. Grace
           /\ {MaxFails, Grace, MaxRoles} \subseteq Nat \ {0}
           /\ gen \in Nat /\ roles \in Nat /\ roles \in Role
<1>1. /\ row[n] \in Row /\ cache[n] \in Entry /\ catalog[n] \in Role \cup {NoRole}
      /\ gen \in Nat /\ roles \in Role
  BY DEF TypeOK
<1>2. /\ row[n].fails \in 0 .. MaxFails /\ row[n].gen \in Nat /\ row[n].grace \in 0 .. Grace
      /\ cache[n].gen \in Nat /\ cache[n].grace \in 0 .. Grace
  BY <1>1 DEF Row, Entry
<1>3. {MaxFails, Grace, MaxRoles} \subseteq Nat \ {0}
  BY RoleStateAssumption
<1> QED
  BY <1>1, <1>2, <1>3 DEF Role

LEMMA QueueFields ==
    ASSUME TypeOK
    PROVE  /\ Len(queue) \in Nat /\ DOMAIN queue = 1 .. Len(queue)
           /\ \A i \in DOMAIN queue :
                 /\ queue[i] \in Event /\ queue[i].name \in Name /\ queue[i].gen \in Nat
                 /\ queue[i].role \in Role \cup {NoRole}
           /\ queue # <<>> => /\ 1 \in DOMAIN queue /\ Head(queue) = queue[1]
                              /\ Tail(queue) \in Seq(Event) /\ Len(Tail(queue)) = Len(queue) - 1
                              /\ \A i \in 1 .. Len(Tail(queue)) : Tail(queue)[i] = queue[i + 1]
<1>1. queue \in Seq(Event)
  BY DEF TypeOK
<1>2. Len(queue) \in Nat /\ DOMAIN queue = 1 .. Len(queue)
  BY <1>1, LenProperties
<1>3. \A i \in DOMAIN queue : queue[i] \in Event
  BY <1>1, <1>2, ElementOfSeq
<1>4. queue # <<>> => /\ 1 \in DOMAIN queue /\ Head(queue) = queue[1]
                      /\ Tail(queue) \in Seq(Event) /\ Len(Tail(queue)) = Len(queue) - 1
                      /\ \A i \in 1 .. Len(Tail(queue)) : Tail(queue)[i] = queue[i + 1]
  BY <1>1, <1>2, HeadTailProperties, EmptySeq
<1> QED
  BY <1>2, <1>3, <1>4 DEF Event

LEMMA ClientFields ==
    ASSUME TypeOK, client # <<>>
    PROVE  client[1][1] \in Name /\ client[1][2] \in Role \cup {NoRole}
<1>1. client \in Seq(Name \X (Role \cup {NoRole}))
  BY DEF TypeOK
<1>2. client[1] \in Name \X (Role \cup {NoRole})
  BY <1>1, EmptySeq, ElementOfSeq
<1> QED
  BY <1>2

\* The event of a login joins the queue; a grace login takes one.
LEMMA HookFields ==
    ASSUME TypeOK, NEW k \in EventKind, NEW f \in EventFlags, Hook(k, f)
    PROVE  LET n == client[1][1]
               r == client[1][2]
               e == [kind |-> k, flags |-> f, name |-> n, role |-> r,
                     gen |-> IF k = "grace" THEN cache[n].gen ELSE 0]
           IN  /\ client # <<>> /\ client' = <<>>
               /\ UNCHANGED <<catalog, row, gen, txn, locks, bounds, overtaken>>
               /\ e \in Event /\ queue' = Append(queue, e)
               /\ cache' \in [Name -> Entry]
               /\ own' \in [Role -> [fails : 0 .. MaxFails, grace : 0 .. Grace]]
               /\ k # "grace" => UNCHANGED <<cache, own>>
               /\ k = "grace" =>
                     /\ r \in Role /\ cache[n].gen # 0 /\ cache[n].grace > 0
                     /\ cache'[n] = [cache[n] EXCEPT !.grace = cache[n].grace - 1]
                     /\ own'[r].grace = IF own[r].grace > 0 THEN own[r].grace - 1 ELSE 0
                     /\ own'[r].fails = own[r].fails
                     /\ \A m \in Name \ {n} : cache'[m] = cache[m]
                     /\ \A q \in Role \ {r} : own'[q] = own[q]
<1> DEFINE n == client[1][1]
           r == client[1][2]
           e == [kind |-> k, flags |-> f, name |-> n, role |-> r,
                 gen |-> IF k = "grace" THEN cache[n].gen ELSE 0]
           c == [cache[n] EXCEPT !.grace = cache[n].grace - 1]
           o == [own[r] EXCEPT !.grace = IF own[r].grace > 0 THEN own[r].grace - 1 ELSE 0]
<1>1. client # <<>> /\ n \in Name /\ r \in Role \cup {NoRole}
  BY ClientFields DEF Hook
<1>2. /\ client' = <<>> /\ queue' = Append(queue, e)
      /\ UNCHANGED <<catalog, row, gen, txn, locks, bounds, overtaken>>
  BY DEF Hook
<1>3. cache[n] \in Entry /\ cache[n].gen \in Nat /\ cache[n].grace \in 0 .. Grace /\ Grace \in Nat
  BY <1>1, RowFields
<1>4. e \in Event
  BY <1>1, <1>3 DEF Event, EventKind, EventFlags
<1>5. /\ cache \in [Name -> Entry]
      /\ own \in [Role -> [fails : 0 .. MaxFails, grace : 0 .. Grace]]
  BY DEF TypeOK
<1>6. CASE k # "grace"
  <2>1. UNCHANGED <<cache, own>>
    BY <1>6 DEF Hook
  <2> QED
    BY <1>1, <1>2, <1>4, <1>5, <1>6, <2>1
<1>7. CASE k = "grace"
  <2>1. /\ r # NoRole /\ cache[n].gen # 0 /\ cache[n].grace > 0
        /\ cache' = [cache EXCEPT ![n].grace = @ - 1]
        /\ own' = [own EXCEPT ![r].grace = IF @ > 0 THEN @ - 1 ELSE 0]
    BY <1>7 DEF Hook
  <2>2. r \in Role
    BY <1>1, <2>1
  <2>3. cache' = [cache EXCEPT ![n] = c] /\ own' = [own EXCEPT ![r] = o]
    BY <2>1
  <2>4. c \in Entry
    BY <1>3, <2>1 DEF Entry
  <2>5. o \in [fails : 0 .. MaxFails, grace : 0 .. Grace]
    BY <1>3, <1>5, <2>2
  <2>6. o.fails = own[r].fails /\ o.grace = IF own[r].grace > 0 THEN own[r].grace - 1 ELSE 0
    BY <1>5, <2>2
  <2> HIDE DEF c, o
  <2>7. /\ cache' \in [Name -> Entry] /\ cache'[n] = c
        /\ \A m \in Name \ {n} : cache'[m] = cache[m]
    BY <1>1, <1>5, <2>3, <2>4
  <2>8. /\ own' \in [Role -> [fails : 0 .. MaxFails, grace : 0 .. Grace]] /\ own'[r] = o
        /\ \A q \in Role \ {r} : own'[q] = own[q]
    BY <1>5, <2>2, <2>3, <2>5
  <2> QED
    BY <1>1, <1>2, <1>4, <1>7, <2>1, <2>2, <2>6, <2>7, <2>8 DEF c
<1> QED
  BY <1>6, <1>7

LEMMA HookEvent ==
    ASSUME TypeOK, NEW k \in EventKind, NEW f \in EventFlags, Hook(k, f)
    PROVE  \E e \in Event : /\ queue' = Append(queue, e) /\ e.kind = k
                            /\ e.name = client[1][1] /\ e.role = client[1][2]
                            /\ k = "grace" => e.gen = cache[client[1][1]].gen
<1> DEFINE e == [kind |-> k, flags |-> f, name |-> client[1][1], role |-> client[1][2],
                 gen |-> IF k = "grace" THEN cache[client[1][1]].gen ELSE 0]
<1>1. e \in Event /\ queue' = Append(queue, e)
  BY HookFields
<1>2. /\ e.kind = k /\ e.name = client[1][1] /\ e.role = client[1][2]
      /\ k = "grace" => e.gen = cache[client[1][1]].gen
  OBVIOUS
<1> HIDE DEF e
<1> QED
  BY <1>1, <1>2

LEMMA FailsAfterType ==
    ASSUME NEW x \in 0 .. MaxFails, NEW e
    PROVE  FailsAfter(x, e) \in 0 .. MaxFails
BY RoleStateAssumption DEF FailsAfter, Locked

\* The event leaves the queue and is in the row.
LEMMA CommitEventFields ==
    ASSUME TypeInv, CommitEvent
    PROVE  LET e == queue[1]
               n == e.name
           IN  /\ queue # <<>> /\ queue' = Tail(queue) /\ Closes("worker")
               /\ UNCHANGED <<catalog, gen, client, bounds, overtaken>>
               /\ row' \in [Name -> Row] /\ cache' \in [Name -> Entry]
               /\ own' \in [Role -> [fails : 0 .. MaxFails, grace : 0 .. Grace]]
               /\ row'[n].fails = FailsAfter(row[n].fails, e)
               /\ row'[n].grace = GraceAfter(row[n], e) /\ row'[n].gen = row[n].gen
               /\ row'[n].of = row[n].of /\ row'[n].past = row[n].past
               /\ cache'[n].locked = Locked(row'[n].fails)
               /\ cache'[n].gen = cache[n].gen /\ cache'[n].grace = cache[n].grace
               /\ \A m \in Name \ {n} : row'[m] = row[m] /\ cache'[m] = cache[m]
               /\ \A q \in Role : /\ own'[q].grace = own[q].grace
                                  /\ own'[q].fails = IF q = e.role
                                                     THEN FailsAfter(own[q].fails, e)
                                                     ELSE own[q].fails
<1> DEFINE e == queue[1]
           n == e.name
           after == [row[n] EXCEPT !.fails = FailsAfter(@, e), !.grace = GraceAfter(row[n], e)]
           c == [cache[n] EXCEPT !.locked = Locked(after.fails)]
           o(q) == [own[q] EXCEPT !.fails = FailsAfter(@, e)]
           Own == [fails : 0 .. MaxFails, grace : 0 .. Grace]
<1>1. TypeOK /\ queue # <<>>
  BY DEF TypeInv, CommitEvent, EventReady
<1>2. /\ Head(queue) = e /\ e \in Event /\ n \in Name /\ e.gen \in Nat
      /\ e.role \in Role \cup {NoRole}
  BY <1>1, QueueFields
<1>3. /\ ~Contradicts(row[n], e)
      /\ row' = [row EXCEPT ![n] = after]
      /\ cache' = [cache EXCEPT ![n].locked = Locked(after.fails)]
      /\ own' = IF e.role = NoRole THEN own
                ELSE [own EXCEPT ![e.role].fails = FailsAfter(@, e)]
      /\ queue' = Tail(queue)
  BY <1>2 DEF CommitEvent, Acknowledged
<1>4. Closes("worker") /\ UNCHANGED <<catalog, gen, client, bounds, overtaken>>
  BY DEF CommitEvent, Closes
<1>5. /\ row[n] \in Row /\ cache[n] \in Entry /\ row[n].grace \in 0 .. Grace
      /\ row[n].fails \in 0 .. MaxFails /\ Grace \in Nat
  BY <1>1, <1>2, RowFields
<1>6. GraceAfter(row[n], e) \in 0 .. Grace
  BY <1>3, <1>5 DEF GraceAfter, Contradicts
<1>7. FailsAfter(row[n].fails, e) \in 0 .. MaxFails
  BY <1>5, FailsAfterType
<1>8. /\ after \in Row
      /\ after.fails = FailsAfter(row[n].fails, e)
      /\ after.grace = GraceAfter(row[n], e) /\ after.gen = row[n].gen
      /\ after.of = row[n].of /\ after.past = row[n].past
  BY <1>5, <1>6, <1>7 DEF Row
<1>9. /\ row \in [Name -> Row] /\ cache \in [Name -> Entry] /\ own \in [Role -> Own]
  BY <1>1 DEF TypeOK
<1>10. c \in Entry /\ c.locked = Locked(after.fails) /\ c.gen = cache[n].gen /\ c.grace = cache[n].grace
  BY <1>5, Zenon DEF Entry, Locked
<1>11. cache' = [cache EXCEPT ![n] = c]
  BY <1>3
<1>12. \A q \in Role : /\ o(q) \in Own /\ o(q).grace = own[q].grace
                       /\ o(q).fails = FailsAfter(own[q].fails, e)
  BY <1>9, FailsAfterType
<1>13. e.role \in Role => own' = [own EXCEPT ![e.role] = o(e.role)]
  BY <1>3, RoleStateAssumption DEF Role, NoRole
<1>14. /\ own' \in [Role -> Own]
       /\ \A q \in Role : /\ own'[q].grace = own[q].grace
                          /\ own'[q].fails = IF q = e.role
                                             THEN FailsAfter(own[q].fails, e)
                                             ELSE own[q].fails
  <2> HIDE DEF e, o, Own
  <2>1. CASE e.role \in Role
    BY <2>1, <1>9, <1>12, <1>13
  <2>2. CASE e.role = NoRole
    <3>1. own' = own
      BY <1>3, <2>2
    <3> QED
      BY <1>9, <2>2, <3>1, RoleStateAssumption DEF Role, NoRole
  <2> QED
    BY <1>2, <2>1, <2>2
<1> HIDE DEF e, n, after, c, o
<1>15. /\ row' \in [Name -> Row] /\ row'[n] = after
       /\ \A m \in Name \ {n} : row'[m] = row[m]
  BY <1>2, <1>3, <1>8, <1>9
<1>16. /\ cache' \in [Name -> Entry] /\ cache'[n] = c
       /\ \A m \in Name \ {n} : cache'[m] = cache[m]
  BY <1>2, <1>10, <1>11, <1>9
<1> QED
  BY <1>1, <1>3, <1>4, <1>8, <1>10, <1>14, <1>15, <1>16 DEF e, n

LEMMA CacheOfFields ==
    ASSUME NEW r \in Row
    PROVE  /\ CacheOf(r) \in Entry /\ CacheOf(r).gen = r.gen /\ CacheOf(r).grace = r.grace
           /\ CacheOf(r).locked = Locked(r.fails)
<1>1. CacheOf(r) \in Entry
  BY DEF Row, Entry, CacheOf, Locked
<1>2. CacheOf(r).locked = Locked(r.fails)
  BY Zenon DEF CacheOf
<1> QED
  BY <1>1, <1>2 DEF CacheOf

LEMMA NoStateFields ==
    /\ NoState \in Row /\ NoState.fails = 0 /\ NoState.gen = 0 /\ NoState.grace = 0
    /\ NoState.of = NoRole /\ NoState.past = NoRole
BY RoleStateAssumption DEF NoState, Row

LEMMA MovedIsRow ==
    ASSUME NEW r \in Row
    PROVE  Moved(r) = r
BY DEF Row, Moved

LEMMA CreatingFinite ==
    IsFiniteSet(Creating) /\ Cardinality(Creating) \in Nat
BY FS_Subset, FS_CardinalityType, RoleStateAssumption DEF Creating

\* There is a number for a role that is being created.
LEMMA NumberLeft ==
    ASSUME TypeInv, NEW s \in Admin, txn[s].op = "create"
    PROVE  roles + 1 \in Role
<1>1. s \in Creating
  BY DEF Creating
<1>2. Cardinality(Creating) >= 1
  <2>1. Cardinality(Creating) # 0
    BY <1>1, CreatingFinite, FS_EmptySet
  <2> QED
    BY <2>1, CreatingFinite
<1> QED
  BY <1>2, CreatingFinite, RoleStateAssumption DEF TypeInv, TypeOK, Role

LEMMA CommitCommon ==
    ASSUME TypeInv, NEW s \in Admin, Commit(s)
    PROVE  /\ txn[s] \in [op : Op, old : Name, new : Name, role : Role \cup {NoRole},
                          todo : Seq(Lock)]
           /\ Plan(txn[s]) /\ ~Refused(txn[s]) /\ Closes(s) /\ s \in Session /\ TypeOK
           /\ UNCHANGED <<queue, client, ops, logins>>
           /\ overtaken \subseteq overtaken'
           /\ txn[s].op \in Op
<1>1. TypeOK /\ s \in Session /\ txn[s] \in Txn /\ txn[s].op \in Op /\ ~Refused(txn[s])
  BY Sessions DEF TypeInv, TypeOK, Commit
<1>2. Plan(txn[s])
  BY <1>1 DEF TypeInv
<1>3. Closes(s) /\ UNCHANGED <<queue, client, ops, logins>>
  BY DEF Commit, Closes
<1>4. overtaken \subseteq overtaken'
  BY DEF Commit
<1> QED
  BY <1>1, <1>2, <1>3, <1>4, TxnFields

\* Creating a role, or changing its password.
LEMMA CommitSets ==
    ASSUME TypeInv, NEW s \in Admin, Commit(s), txn[s].op \in {"create", "password"}
    PROVE  LET t == txn[s]
               n == t.old
               r == IF t.op = "create" THEN roles + 1 ELSE t.role
           IN  /\ n \in Name /\ r \in Role
               /\ t.op = "create" =>
                     /\ catalog[n] = NoRole /\ roles' = r
                     /\ overtaken' = overtaken \cup (IF InFlight(n) \/ row[n].fails > 0 THEN {r} ELSE {})
               /\ t.op # "create" => catalog[n] = r /\ roles' = roles /\ overtaken' = overtaken
               /\ catalog' = [catalog EXCEPT ![n] = r]
               /\ row' = [row EXCEPT ![n] = [row[n] EXCEPT !.gen = gen + 1, !.grace = Grace,
                                                           !.of = r, !.past = r]]
               /\ cache' \in [Name -> Entry]
               /\ cache'[n].locked = cache[n].locked
               /\ cache'[n].gen = gen + 1 /\ cache'[n].grace = Grace
               /\ \A m \in Name \ {n} : cache'[m] = cache[m]
               /\ gen' = gen + 1 /\ own' = [own EXCEPT ![r].grace = Grace]
<1> DEFINE t == txn[s]
           n == t.old
           r == IF t.op = "create" THEN roles + 1 ELSE t.role
           new == [row[n] EXCEPT !.gen = gen + 1, !.grace = Grace, !.of = r, !.past = r]
           c == [CacheOf(row'[n]) EXCEPT !.locked = cache[n].locked]
<1>1. /\ n \in Name /\ t.new = n /\ t.role \in Role \cup {NoRole} /\ TypeOK
      /\ t.op = "create" => t.role = NoRole
      /\ t.op # "create" => t.role # NoRole
  BY CommitCommon DEF Plan, Op
<1>2. catalog[n] = t.role
  BY CommitCommon DEF Refused
<1>3. r \in Role
  BY <1>1, NumberLeft
<1>4. row' = [row EXCEPT ![n] = new]
  BY DEF Commit, NewRows
<1>5. /\ t.op = "create" => catalog' = [catalog EXCEPT ![n] = r]
      /\ t.op = "password" => catalog' = catalog
  BY DEF Commit, NewCatalog
<1>6. catalog' = [catalog EXCEPT ![n] = r]
  BY <1>1, <1>2, <1>5 DEF TypeOK
<1>7. gen' = gen + 1 /\ own' = [own EXCEPT ![r].grace = Grace]
  BY DEF Commit
<1>8. /\ t.op = "create" => roles' = r
      /\ t.op # "create" => roles' = roles
  BY DEF Commit
<1>9. t.op # "create" => overtaken' = overtaken
  BY DEF Commit
<1>10. t.op = "create" =>
          overtaken' = overtaken \cup (IF InFlight(n) \/ row[n].fails > 0 THEN {r} ELSE {})
  BY DEF Commit
<1>11. cache' = [m \in Name |-> IF m \in {t.old, t.new}
                                THEN [CacheOf(row'[m]) EXCEPT !.locked = cache[m].locked]
                                ELSE cache[m]]
  BY Zenon DEF Commit
<1>12. cache' = [m \in Name |-> IF m = n THEN c ELSE cache[m]]
  BY <1>1, <1>11
<1>13. row[n] \in Row /\ cache[n] \in Entry /\ gen \in Nat /\ Grace \in Nat
  BY <1>1, RowFields
<1> HIDE DEF r
<1>14. new \in Row /\ new.gen = gen + 1 /\ new.grace = Grace
  <2>1. gen + 1 \in Nat /\ Grace \in 0 .. Grace /\ r \in Role \cup {NoRole}
    BY <1>3, <1>13
  <2> QED
    BY <1>13, <2>1 DEF Row
<1>15. row'[n] = new
  BY <1>1, <1>4 DEF TypeOK
<1> HIDE DEF new
<1>16. /\ CacheOf(row'[n]) \in Entry /\ CacheOf(row'[n]).gen = gen + 1
       /\ CacheOf(row'[n]).grace = Grace
  BY <1>14, <1>15, CacheOfFields
<1>17. c \in Entry /\ c.gen = gen + 1 /\ c.grace = Grace
  BY <1>13, <1>16 DEF Entry
<1>18. c.locked = cache[n].locked
  BY <1>16, Zenon DEF Entry
<1> HIDE DEF c
<1>19. /\ cache' \in [Name -> Entry] /\ cache'[n] = c
       /\ \A m \in Name \ {n} : cache'[m] = cache[m]
  BY <1>1, <1>12, <1>17 DEF TypeOK
<1> QED
  BY <1>1, <1>2, <1>3, <1>4, <1>6, <1>7, <1>8, <1>9, <1>10, <1>17, <1>18, <1>19 DEF new, r

\* Renaming a role with its state, or moving its state alone.
LEMMA CommitMoves ==
    ASSUME TypeInv, NEW s \in Admin, Commit(s), txn[s].op \in {"rename", "renameState"}
    PROVE  LET t == txn[s]
               m == t.old
               n == t.new
           IN  /\ m \in Name /\ n \in Name /\ m # n
               /\ row[n] = NoState
               /\ row' = [row EXCEPT ![n] = row[m], ![m] = NoState]
               /\ cache' \in [Name -> Entry]
               /\ cache'[n] = CacheOf(row[m]) /\ cache'[m] = CacheOf(NoState)
               /\ \A x \in Name \ {m, n} : cache'[x] = cache[x]
               /\ UNCHANGED <<gen, roles, own>>
               /\ t.op = "rename" =>
                     /\ catalog[m] \in Role /\ catalog[n] = NoRole
                     /\ catalog' = [catalog EXCEPT ![n] = catalog[m], ![m] = NoRole]
                     /\ overtaken' = overtaken \cup
                                     (IF InFlight(m) \/ InFlight(n) THEN {catalog[m]} ELSE {})
               /\ t.op = "renameState" =>
                     /\ catalog' = catalog
                     /\ overtaken' = overtaken \cup ({catalog[x] : x \in {m, n}} \ {NoRole})
<1> DEFINE t == txn[s]
           m == t.old
           n == t.new
<1>1. /\ m \in Name /\ n \in Name /\ m # n /\ t.role \in Role \cup {NoRole} /\ TypeOK
      /\ t.op = "rename" => t.role # NoRole
  BY CommitCommon DEF Plan, Op
<1>2. /\ row[n] = NoState
      /\ t.op = "rename" => catalog[m] = t.role /\ catalog[n] = NoRole
  BY CommitCommon DEF Refused
<1>3. row[m] \in Row
  BY <1>1, RowFields
<1>4. row' = [row EXCEPT ![n] = row[m], ![m] = NoState]
  BY <1>3, MovedIsRow DEF Commit, NewRows
<1>5. /\ t.op = "rename" => catalog' = [catalog EXCEPT ![n] = t.role, ![m] = NoRole]
      /\ t.op = "renameState" => catalog' = catalog
  BY DEF Commit, NewCatalog
<1>6. UNCHANGED <<gen, roles, own>>
  BY DEF Commit
<1>7. t.op = "rename" =>
         overtaken' = overtaken \cup (IF InFlight(m) \/ InFlight(n) THEN {t.role} ELSE {})
  BY DEF Commit
<1>8. t.op = "renameState" =>
         overtaken' = overtaken \cup ({catalog[x] : x \in {m, n}} \ {NoRole})
  BY DEF Commit
<1>9. cache' = [x \in Name |-> IF x \in {m, n} THEN CacheOf(row'[x]) ELSE cache[x]]
  BY Zenon DEF Commit
<1>10. row'[n] = row[m] /\ row'[m] = NoState
  BY <1>1, <1>4 DEF TypeOK
<1>11. CacheOf(row[m]) \in Entry /\ CacheOf(NoState) \in Entry
  BY <1>3, CacheOfFields, NoStateFields
<1>12. /\ cache' \in [Name -> Entry]
       /\ cache'[n] = CacheOf(row[m]) /\ cache'[m] = CacheOf(NoState)
       /\ \A x \in Name \ {m, n} : cache'[x] = cache[x]
  BY <1>1, <1>9, <1>10, <1>11 DEF TypeOK
<1> QED
  BY <1>1, <1>2, <1>4, <1>5, <1>6, <1>7, <1>8, <1>12

\* Dropping a role with its state, or removing the state alone.
LEMMA CommitRemoves ==
    ASSUME TypeInv, NEW s \in Admin, Commit(s), txn[s].op \in {"drop", "removeState"}
    PROVE  LET t == txn[s]
               n == t.old
           IN  /\ n \in Name
               /\ row' = [row EXCEPT ![n] = NoState]
               /\ cache' \in [Name -> Entry] /\ cache'[n] = CacheOf(NoState)
               /\ \A x \in Name \ {n} : cache'[x] = cache[x]
               /\ UNCHANGED <<gen, roles, own>>
               /\ t.op = "drop" => /\ catalog' = [catalog EXCEPT ![n] = NoRole]
                                   /\ overtaken' = overtaken
               /\ t.op = "removeState" =>
                     catalog' = catalog /\ overtaken' = overtaken \cup ({catalog[n]} \ {NoRole})
<1> DEFINE t == txn[s]
           n == t.old
<1>1. n \in Name /\ t.new = n /\ TypeOK
  BY CommitCommon DEF Plan, Op
<1>2. row' = [row EXCEPT ![n] = NoState]
  BY DEF Commit, NewRows
<1>3. /\ t.op = "drop" => catalog' = [catalog EXCEPT ![n] = NoRole]
      /\ t.op = "removeState" => catalog' = catalog
  BY DEF Commit, NewCatalog
<1>4. UNCHANGED <<gen, roles, own>>
  BY DEF Commit
<1>5. /\ t.op = "drop" => overtaken' = overtaken
      /\ t.op = "removeState" =>
            overtaken' = overtaken \cup ({catalog[x] : x \in {n, t.new}} \ {NoRole})
  BY DEF Commit
<1>6. cache' = [x \in Name |-> IF x \in {n, t.new} THEN CacheOf(row'[x]) ELSE cache[x]]
  BY Zenon DEF Commit
<1>7. row'[n] = NoState
  BY <1>1, <1>2 DEF TypeOK
<1>8. CacheOf(NoState) \in Entry
  BY CacheOfFields, NoStateFields
<1>9. /\ cache' \in [Name -> Entry] /\ cache'[n] = CacheOf(NoState)
      /\ \A x \in Name \ {n} : cache'[x] = cache[x]
  BY <1>1, <1>6, <1>7, <1>8 DEF TypeOK
<1>10. {catalog[x] : x \in {n, t.new}} = {catalog[n]}
  BY <1>1
<1> QED
  BY <1>1, <1>2, <1>3, <1>4, <1>5, <1>9, <1>10

----------------------------------------------------------------------------
(* Types. *)

\* What the steps of the transactions before they commit leave alone.
Quiet == UNCHANGED <<catalog, row, cache, gen, queue, client, roles, logins, own, overtaken>>

LEMMA TxnTypes ==
    ASSUME TypeOK, [Next]_vars
    PROVE  txn' \in [Session -> Txn] /\ locks' \in [Lock -> Session \cup {Free}]
<1>1. txn \in [Session -> Txn] /\ locks \in [Lock -> Session \cup {Free}]
  BY DEF TypeOK
<1> QED
  BY <1>1, Steps, AcquireFields, CloseFields, BeginFields, BeginEventFields

\* Every step is a quiet one, a step of a login, or a commit.
LEMMA DataSteps ==
    ASSUME [Next]_vars
    PROVE  \/ Quiet /\ (ops' = ops \/ (ops' = ops + 1 /\ ops < MaxOps))
           \/ \E n \in Name : Authenticate(n)
           \/ \E k \in EventKind, f \in EventFlags : Hook(k, f)
           \/ HookRecordsNothing \/ CommitEvent
           \/ \E s \in Admin : Commit(s)
<1> DEFINE Q == Quiet /\ (ops' = ops \/ (ops' = ops + 1 /\ ops < MaxOps))
<1>1. ASSUME NEW s \in Session, Ends(s)
      PROVE  Q
  BY <1>1 DEF Ends, Quiet, tables, bounds
<1>2. ASSUME NEW s \in Session, Acquire(s)
      PROVE  Q
  BY <1>2 DEF Acquire, Quiet, tables, bounds
<1>3. BeginEvent => Q
  BY DEF BeginEvent, Quiet, tables, bounds
<1>4. ASSUME NEW s \in Admin, NEW op \in Op, NEW old \in Name, NEW new \in Name,
             Begin(s, op, old, new)
      PROVE  Q
  BY <1>4 DEF Begin, Quiet, tables, bounds
<1>5. UNCHANGED vars => Q
  BY DEF vars, Quiet, tables, bounds
<1>6. ASSUME NEW s \in Session, BreakDeadlock(s) \/ GiveUp(s) PROVE Q
  BY <1>1, <1>6 DEF BreakDeadlock, GiveUp
<1>7. EventFails => Q
  BY <1>1, Sessions DEF EventFails
<1>8. ASSUME NEW s \in Admin, Refuse(s) PROVE Q
  BY <1>1, <1>8, Sessions DEF Refuse
<1> QED
  BY <1>2, <1>3, <1>4, <1>5, <1>6, <1>7, <1>8 DEF Next

\* The types of what the commits change.
Own == [fails : 0 .. MaxFails, grace : 0 .. Grace]
DataOK ==
    /\ catalog \in [Name -> Role \cup {NoRole}]
    /\ row \in [Name -> Row] /\ cache \in [Name -> Entry]
    /\ gen \in Nat /\ roles \in Role
    /\ own \in [Role -> Own] /\ overtaken \subseteq Role
RestOK ==
    /\ queue \in Seq(Event)
    /\ client = <<>> \/ client \in Seq(Name \X (Role \cup {NoRole}))
    /\ ops \in 0 .. MaxOps /\ logins \in 0 .. MaxLogins

LEMMA TypeOKParts ==
    TypeOK <=> /\ DataOK /\ RestOK
               /\ txn \in [Session -> Txn] /\ locks \in [Lock -> Session \cup {Free}]
BY DEF TypeOK, DataOK, RestOK, Own

LEMMA CommitTypes ==
    ASSUME TypeInv, NEW s \in Admin, Commit(s)
    PROVE  DataOK'
<1>1. DataOK
  BY TypeOKParts DEF TypeInv
<1>2. CASE txn[s].op \in {"create", "password"}
  <2> DEFINE t == txn[s]
             n == t.old
             r == IF t.op = "create" THEN roles + 1 ELSE t.role
             new == [row[n] EXCEPT !.gen = gen + 1, !.grace = Grace, !.of = r, !.past = r]
  <2>1. /\ n \in Name /\ r \in Role /\ catalog' = [catalog EXCEPT ![n] = r]
        /\ row' = [row EXCEPT ![n] = new] /\ cache' \in [Name -> Entry]
        /\ gen' = gen + 1 /\ own' = [own EXCEPT ![r].grace = Grace]
    BY <1>2, CommitSets
  <2>2. roles' \in Role /\ overtaken' \subseteq Role
    <3>1. \/ roles' = r /\ overtaken' \subseteq overtaken \cup {r}
          \/ roles' = roles /\ overtaken' = overtaken
      BY <1>2, CommitSets
    <3> HIDE DEF r
    <3> QED
      BY <1>1, <2>1, <3>1 DEF DataOK
  <2> HIDE DEF r
  <2>3. new \in Row
    <3>1. gen + 1 \in Nat /\ Grace \in 0 .. Grace /\ r \in Role \cup {NoRole} /\ row[n] \in Row
      BY <1>1, <2>1, RoleStateAssumption DEF DataOK
    <3> QED
      BY <3>1 DEF Row
  <2>4. own' \in [Role -> Own]
    BY <1>1, <2>1, RoleStateAssumption DEF DataOK, Own
  <2> HIDE DEF new
  <2> QED
    BY <1>1, <2>1, <2>2, <2>3, <2>4 DEF DataOK
<1>3. CASE txn[s].op \in {"rename", "renameState"}
  <2> DEFINE m == txn[s].old
             n == txn[s].new
  <2>1. /\ m \in Name /\ n \in Name
        /\ row' = [row EXCEPT ![n] = row[m], ![m] = NoState] /\ cache' \in [Name -> Entry]
        /\ UNCHANGED <<gen, roles, own>>
    BY <1>3, CommitMoves
  <2>2. row' \in [Name -> Row]
    BY <1>1, <2>1, NoStateFields DEF DataOK
  <2>3. catalog' \in [Name -> Role \cup {NoRole}] /\ overtaken' \subseteq Role
    <3>1. CASE txn[s].op = "rename"
      BY <1>1, <1>3, <2>1, <3>1, CommitMoves DEF DataOK
    <3>2. CASE txn[s].op = "renameState"
      BY <1>1, <1>3, <2>1, <3>2, CommitMoves DEF DataOK
    <3> QED
      BY <1>3, <3>1, <3>2
  <2> QED
    BY <1>1, <2>1, <2>2, <2>3 DEF DataOK
<1>4. CASE txn[s].op \in {"drop", "removeState"}
  <2>1. row' \in [Name -> Row] /\ cache' \in [Name -> Entry] /\ UNCHANGED <<gen, roles, own>>
    BY <1>1, <1>4, CommitRemoves, NoStateFields DEF DataOK
  <2>2. catalog' \in [Name -> Role \cup {NoRole}] /\ overtaken' \subseteq Role
    BY <1>1, <1>4, CommitRemoves DEF DataOK
  <2> QED
    BY <1>1, <2>1, <2>2 DEF DataOK
<1> QED
  BY <1>2, <1>3, <1>4, CommitCommon DEF Op

LEMMA TypeOKStep ==
    ASSUME TypeInv, [Next]_vars
    PROVE  TypeOK'
<1>1. TypeOK /\ DataOK /\ RestOK
  BY TypeOKParts DEF TypeInv
<1>2. txn' \in [Session -> Txn] /\ locks' \in [Lock -> Session \cup {Free}]
  BY <1>1, TxnTypes
<1> SUFFICES DataOK' /\ RestOK'
  BY <1>2 DEF TypeOK, DataOK, RestOK, Own
<1>3. CASE Quiet /\ (ops' = ops \/ (ops' = ops + 1 /\ ops < MaxOps))
  BY <1>1, <1>3, RoleStateAssumption DEF DataOK, RestOK, Quiet
<1>4. ASSUME NEW n \in Name, Authenticate(n)
      PROVE  DataOK' /\ RestOK'
  <2>1. /\ UNCHANGED <<catalog, row, cache, gen, queue, roles, ops, own, overtaken>>
        /\ client' = <<<<n, catalog[n]>>>> /\ logins' = logins + 1 /\ logins < MaxLogins
    BY <1>4 DEF Authenticate, tables
  <2>2. <<n, catalog[n]>> \in Name \X (Role \cup {NoRole})
    BY <1>1 DEF DataOK
  <2>3. client' \in Seq(Name \X (Role \cup {NoRole}))
    BY <2>1, <2>2
  <2> QED
    BY <1>1, <2>1, <2>3, RoleStateAssumption DEF DataOK, RestOK
<1>5. ASSUME NEW k \in EventKind, NEW f \in EventFlags, Hook(k, f)
      PROVE  DataOK' /\ RestOK'
  <2>1. PICK e \in Event : queue' = Append(queue, e)
    BY <1>1, <1>5, HookFields
  <2>2. /\ client' = <<>> /\ UNCHANGED <<catalog, row, gen, roles, ops, logins, overtaken>>
        /\ cache' \in [Name -> Entry] /\ own' \in [Role -> Own]
    BY <1>1, <1>5, HookFields DEF Own, bounds
  <2> QED
    BY <1>1, <2>1, <2>2 DEF DataOK, RestOK
<1>6. CASE HookRecordsNothing
  BY <1>1, <1>6 DEF HookRecordsNothing, DataOK, RestOK, tables, bounds
<1>7. CASE CommitEvent
  <2>1. /\ UNCHANGED <<catalog, gen, client, roles, ops, logins, overtaken>>
        /\ row' \in [Name -> Row] /\ cache' \in [Name -> Entry] /\ own' \in [Role -> Own]
        /\ queue # <<>> /\ queue' = Tail(queue)
    BY <1>7, CommitEventFields DEF Own, bounds
  <2>2. queue' \in Seq(Event)
    BY <1>1, <2>1, QueueFields
  <2> QED
    BY <1>1, <2>1, <2>2 DEF DataOK, RestOK
<1>8. ASSUME NEW s \in Admin, Commit(s)
      PROVE  DataOK' /\ RestOK'
  <2>1. UNCHANGED <<queue, client, ops, logins>>
    BY <1>8, CommitCommon
  <2> QED
    BY <1>1, <1>8, <2>1, CommitTypes DEF RestOK
<1> QED
  BY DataSteps, <1>3, <1>4, <1>5, <1>6, <1>7, <1>8

\* What a transaction read when it began stays.
LEMMA PlanStep ==
    ASSUME TypeInv, [Next]_vars
    PROVE  \A s \in Session : Plan(txn'[s])
<1>1. TypeOK /\ \A s \in Session : Plan(txn[s])
  BY DEF TypeInv
<1>2. ASSUME NEW s \in Session, OthersKeep(s), Plan(txn'[s])
      PROVE  \A x \in Session : Plan(txn'[x])
  BY <1>1, <1>2 DEF OthersKeep
<1>3. CASE UNCHANGED <<txn, locks>>
  BY <1>1, <1>3
<1>4. ASSUME NEW s \in Session, Acquire(s)
      PROVE  \A x \in Session : Plan(txn'[x])
  <2>1. OthersKeep(s) /\ txn'[s] = [txn[s] EXCEPT !.todo = Tail(txn[s].todo)]
    BY <1>1, <1>4, AcquireFields
  <2>2. txn[s] \in Txn /\ Plan(txn[s])
    BY <1>1 DEF TypeOK
  <2>3. Plan(txn'[s])
    <3>1. CASE txn[s].op \in Op
      <4>1. /\ txn'[s].op = txn[s].op /\ txn'[s].role = txn[s].role
            /\ txn'[s].old = txn[s].old /\ txn'[s].new = txn[s].new
        BY <2>1, <2>2, <3>1, TxnFields
      <4> QED
        BY <2>2, <4>1 DEF Plan
    <3>2. CASE txn[s].op \notin Op
      BY <1>1, <1>4, <3>2, AcquireFields DEF Plan
    <3> QED
      BY <3>1, <3>2
  <2> QED
    BY <1>2, <2>1, <2>3
<1>5. ASSUME NEW s \in Session, Closes(s)
      PROVE  \A x \in Session : Plan(txn'[x])
  BY <1>1, <1>2, <1>5, CloseFields, IdleFields
<1>6. ASSUME NEW s \in Admin, NEW op \in Op, NEW old \in Name, NEW new \in Name,
             Begin(s, op, old, new)
      PROVE  \A x \in Session : Plan(txn'[x])
  <2>1. /\ OthersKeep(s) /\ s \in Session
        /\ txn'[s] = [op |-> op, old |-> old, new |-> new, role |-> catalog[old],
                      todo |-> LocksOf(op, old, new)]
    BY <1>1, <1>6, BeginFields, Sessions
  <2>2. MayBegin(op, old, new)
    BY <1>6 DEF Begin
  <2>3. /\ op = "create" => old = new /\ catalog[old] = NoRole
        /\ op \in {"password", "drop"} => old = new /\ catalog[old] # NoRole
        /\ op = "rename" => old # new /\ catalog[old] # NoRole
        /\ op = "renameState" => old # new
        /\ op = "removeState" => old = new
    BY <2>2 DEF MayBegin
  <2>4. Plan(txn'[s])
    BY <2>1, <2>3 DEF Plan, Op
  <2> QED
    BY <1>2, <2>1, <2>4
<1>7. CASE BeginEvent
  <2>1. Plan(txn'["worker"]) /\ OthersKeep("worker")
    BY <1>1, <1>7, BeginEventFields DEF Plan, Op
  <2> QED
    BY <1>2, <2>1, Sessions
<1> QED
  BY <1>1, Steps, <1>3, <1>4, <1>5, <1>6, <1>7

\* The worker's transaction has its event until it commits.
LEMMA WorkerStep ==
    ASSUME TypeInv, [Next]_vars, txn'["worker"].op = "event"
    PROVE  queue' # <<>>
<1>1. TypeOK /\ (txn["worker"].op = "event" => queue # <<>>)
  BY DEF TypeInv
<1>2. queue # <<>>
  <2>1. CASE UNCHANGED <<txn, locks>>
    BY <1>1, <2>1
  <2>2. ASSUME NEW s \in Session, Acquire(s) PROVE queue # <<>>
    BY <1>1, <2>2, AcquireFields, Sessions DEF OthersKeep
  <2>3. ASSUME NEW s \in Session, Closes(s) PROVE queue # <<>>
    BY <1>1, <2>3, CloseFields, IdleFields, Sessions DEF OthersKeep
  <2>4. ASSUME NEW s \in Admin, NEW op \in Op, NEW old \in Name, NEW new \in Name,
               Begin(s, op, old, new)
        PROVE  queue # <<>>
    <3>1. OthersKeep(s) /\ s # "worker"
      BY <1>1, <2>4, BeginFields, Sessions
    <3> QED
      BY <1>1, <3>1, Sessions DEF OthersKeep
  <2>5. CASE BeginEvent
    BY <1>1, <2>5, BeginEventFields
  <2> QED
    BY <1>1, Steps, <2>1, <2>2, <2>3, <2>4, <2>5
<1>3. CASE CommitEvent
  <2>1. txn'["worker"] = Idle
    BY <1>1, <1>3, CommitEventFields, CloseFields, Sessions
  <2> QED
    BY <2>1, IdleFields
<1>4. ASSUME NEW k \in EventKind, NEW f \in EventFlags, Hook(k, f) PROVE queue' # <<>>
  <2>1. PICK e \in Event : queue' = Append(queue, e)
    BY <1>1, <1>4, HookEvent
  <2>2. queue \in Seq(Event)
    BY <1>1 DEF TypeOK
  <2> QED
    BY <2>1, <2>2
<1>5. ASSUME NEW s \in Admin, Commit(s) PROVE queue' = queue
  BY <1>5, CommitCommon
<1> QED
  BY <1>2, <1>3, <1>4, <1>5, DataSteps DEF Quiet, Authenticate, HookRecordsNothing

\* There stays a number for every role that is being created.
LEMMA CountStep ==
    ASSUME TypeInv, [Next]_vars
    PROVE  roles' + Cardinality(Creating') <= MaxRoles
<1>1. /\ TypeOK /\ roles + Cardinality(Creating) <= MaxRoles /\ roles \in Nat /\ MaxRoles \in Nat
      /\ IsFiniteSet(Creating) /\ Cardinality(Creating) \in Nat
  BY CreatingFinite, RoleStateAssumption DEF TypeInv, TypeOK, Role
<1>2. ASSUME Creating' \subseteq Creating, roles' = roles
      PROVE  roles' + Cardinality(Creating') <= MaxRoles
  <2>1. Cardinality(Creating') <= Cardinality(Creating) /\ Cardinality(Creating') \in Nat
    BY <1>1, <1>2, FS_Subset, FS_CardinalityType
  <2> QED
    BY <1>1, <1>2, <2>1
<1>3. ASSUME NEW s \in Session, OthersKeep(s), txn'[s].op # "create"
      PROVE  Creating' \subseteq Creating
  BY <1>3, Sessions DEF Creating, OthersKeep
<1>4. ASSUME NEW s \in Session, Closes(s)
      PROVE  Creating' = Creating \ {s}
  <2>1. OthersKeep(s) /\ txn'[s].op # "create"
    BY <1>1, <1>4, CloseFields, IdleFields
  <2> QED
    BY <2>1, Sessions DEF Creating, OthersKeep
<1>5. ASSUME NEW s \in Session, Acquire(s)
      PROVE  Creating' \subseteq Creating /\ roles' = roles
  <2>1. OthersKeep(s) /\ txn'[s].op = txn[s].op
    BY <1>1, <1>5, AcquireFields
  <2>2. roles' = roles
    BY <1>5 DEF Acquire, bounds
  <2> QED
    BY <2>1, <2>2, Sessions DEF Creating, OthersKeep
<1>6. ASSUME NEW s \in Admin, NEW op \in Op, NEW old \in Name, NEW new \in Name,
             Begin(s, op, old, new)
      PROVE  roles' + Cardinality(Creating') <= MaxRoles
  <2>1. /\ OthersKeep(s) /\ txn[s] = Idle /\ s \in Session
        /\ txn'[s] = [op |-> op, old |-> old, new |-> new, role |-> catalog[old],
                      todo |-> LocksOf(op, old, new)]
    BY <1>1, <1>6, BeginFields, Sessions
  <2>2. txn'[s].op = op /\ roles' = roles
    BY <1>6, <2>1 DEF Begin
  <2>3. CASE op # "create"
    BY <1>2, <1>3, <2>1, <2>2, <2>3
  <2>4. CASE op = "create"
    <3>1. s \notin Creating /\ Creating' = Creating \cup {s}
      BY <2>1, <2>2, <2>4, IdleFields, Sessions DEF Creating, OthersKeep
    <3>2. Cardinality(Creating') = Cardinality(Creating) + 1
      BY <1>1, <3>1, FS_AddElement
    <3>3. roles + Cardinality(Creating) < MaxRoles
      BY <1>6, <2>4 DEF Begin, MayBegin, Creating
    <3> QED
      BY <1>1, <2>2, <3>2, <3>3
  <2> QED
    BY <2>3, <2>4
<1>7. CASE BeginEvent
  <2>1. OthersKeep("worker") /\ txn'["worker"].op # "create" /\ roles' = roles
    BY <1>1, <1>7, BeginEventFields DEF BeginEvent, bounds
  <2> QED
    BY <1>2, <1>3, <2>1, Sessions
<1>8. ASSUME NEW s \in Admin, Commit(s)
      PROVE  roles' + Cardinality(Creating') <= MaxRoles
  <2>1. Creating' = Creating \ {s}
    BY <1>4, <1>8, CommitCommon
  <2>2. CASE txn[s].op = "create"
    <3>1. s \in Creating /\ roles' = roles + 1
      BY <1>8, <2>2, CommitSets DEF Creating
    <3>2. Cardinality(Creating') = Cardinality(Creating) - 1
      BY <1>1, <2>1, <3>1, FS_RemoveElement
    <3> QED
      BY <1>1, <3>1, <3>2
  <2>3. CASE txn[s].op # "create"
    <3>1. roles' = roles
      BY <1>8, <2>3, CommitCommon, CommitSets, CommitMoves, CommitRemoves DEF Op
    <3> QED
      BY <1>2, <2>1, <3>1
  <2> QED
    BY <2>2, <2>3
<1>9. CASE roles' = roles
  <2>1. CASE UNCHANGED <<txn, locks>>
    BY <1>2, <1>9, <2>1 DEF Creating
  <2>2. ASSUME NEW s \in Session, Closes(s)
        PROVE  roles' + Cardinality(Creating') <= MaxRoles
    BY <1>2, <1>4, <1>9, <2>2
  <2> QED
    BY <1>1, <1>2, <1>5, <1>6, <1>7, <2>1, <2>2, Steps
<1>10. roles' = roles \/ \E s \in Admin : Commit(s)
  <2>1. ASSUME NEW k \in EventKind, NEW f \in EventFlags, Hook(k, f) PROVE roles' = roles
    BY <2>1 DEF Hook, bounds
  <2> QED
    BY <2>1, DataSteps DEF Quiet, Authenticate, HookRecordsNothing, CommitEvent, bounds
<1> QED
  BY <1>8, <1>9, <1>10

LEMMA TypeInvInit == Init => TypeInv
<1> SUFFICES ASSUME Init PROVE TypeInv
  OBVIOUS
<1>1. {MaxFails, Grace, MaxRoles} \subseteq Nat \ {0} /\ MaxOps \in Nat /\ MaxLogins \in Nat
  BY RoleStateAssumption
<1>2. [fails |-> 0, gen |-> 1, grace |-> Grace, of |-> 1, past |-> 1] \in Row
  BY <1>1 DEF Row, Role
<1>3. row \in [Name -> Row]
  BY <1>2, NoStateFields DEF Init
<1>4. cache \in [Name -> Entry]
  BY <1>3, CacheOfFields DEF Init
<1>5. DataOK
  BY <1>1, <1>3, <1>4 DEF Init, DataOK, Role, NoRole, Own
<1>6. RestOK
  BY <1>1 DEF Init, RestOK
<1>7. /\ \A s \in Session : txn[s] = Idle
      /\ txn \in [Session -> Txn] /\ locks \in [Lock -> Session \cup {Free}]
  BY IdleFields DEF Init
<1>8. TypeOK
  BY <1>5, <1>6, <1>7, TypeOKParts
<1>9. Creating = {}
  BY <1>7, IdleFields, Sessions DEF Creating
<1>10. roles + Cardinality(Creating) <= MaxRoles
  BY <1>1, <1>9, FS_EmptySet DEF Init
<1> QED
  BY <1>7, <1>8, <1>10, IdleFields, Sessions DEF TypeInv

LEMMA TypeInvStep ==
    ASSUME TypeInv, [Next]_vars
    PROVE  TypeInv'
BY TypeOKStep, PlanStep, WorkerStep, CountStep DEF TypeInv

\* Every variable stays in its type, whatever the order of the transactions: the
\* allowances never fall below zero and no role is created beyond the bound.
THEOREM TypeCorrect == Spec => []TypeOK
<1>1. Init => TypeInv
  BY TypeInvInit
<1>2. TypeInv /\ [Next]_vars => TypeInv'
  BY TypeInvStep
<1>3. TypeInv => TypeOK
  BY DEF TypeInv
<1> QED
  BY <1>1, <1>2, <1>3, PTL DEF Spec

\* Two calls of rename_role_state or remove_role_state, in whatever transactions,
\* never wait for each other in a circle: lock_role_state_names takes its locks in
\* one order, so whoever waits has come less far than the one it waits for.
THEOREM RoleStateCallsInOrderThm == Spec => []RoleStateCallsInOrder
<1> DEFINE I == TypeInv /\ LocksInv
<1>1. Init => I
  BY TypeInvInit, LocksInvInit
<1>2. I /\ [Next]_vars => I'
  BY TypeInvStep, LocksInvStep DEF TypeInv
<1>3. I => RoleStateCallsInOrder
  BY CallsInOrder DEF TypeInv
<1> QED
  BY <1>1, <1>2, <1>3, PTL DEF Spec

----------------------------------------------------------------------------
(* Counting the events of the queue. *)

Where(q, E) == {i \in DOMAIN q : q[i] \in E}
CountOf(q, E) == Cardinality(Where(q, E))

LEMMA CountType ==
    ASSUME NEW q \in Seq(Event), NEW E
    PROVE  IsFiniteSet(Where(q, E)) /\ CountOf(q, E) \in Nat
<1>1. Where(q, E) \in SUBSET (1 .. Len(q)) /\ Len(q) \in Int
  BY DEF Where
<1>2. IsFiniteSet(1 .. Len(q))
  BY <1>1, FS_Interval
<1>3. IsFiniteSet(Where(q, E))
  BY <1>1, <1>2, FS_Subset
<1> QED
  BY <1>3, FS_CardinalityType DEF CountOf

LEMMA CountAppend ==
    ASSUME NEW q \in Seq(Event), NEW new \in Event, NEW E
    PROVE  CountOf(Append(q, new), E) = CountOf(q, E) + (IF new \in E THEN 1 ELSE 0)
<1> DEFINE n == Len(q) + 1
<1>1. /\ n \in Nat /\ DOMAIN q = 1 .. n - 1 /\ DOMAIN Append(q, new) = 1 .. n
      /\ Append(q, new)[n] = new
      /\ \A i \in 1 .. n - 1 : Append(q, new)[i] = q[i]
  OBVIOUS
<1> HIDE DEF n
<1>2. IsFiniteSet(Where(q, E)) /\ n \notin Where(q, E)
  <2>1. n \notin DOMAIN q
    BY <1>1
  <2>2. IsFiniteSet(Where(q, E))
    BY CountType
  <2> QED
    BY <2>1, <2>2 DEF Where
<1>3. Where(Append(q, new), E) = Where(q, E) \cup (IF new \in E THEN {n} ELSE {})
  BY <1>1 DEF Where
<1>4. CASE new \in E
  <2>1. Where(Append(q, new), E) = Where(q, E) \cup {n}
    BY <1>3, <1>4
  <2> QED
    BY <1>2, <1>4, <2>1, FS_AddElement DEF CountOf
<1>5. CASE new \notin E
  <2>1. Where(Append(q, new), E) = Where(q, E)
    BY <1>3, <1>5
  <2> QED
    BY <1>5, <2>1, CountType DEF CountOf
<1> QED
  BY <1>4, <1>5

LEMMA CountTail ==
    ASSUME NEW q \in Seq(Event), q # <<>>, NEW E
    PROVE  CountOf(Tail(q), E) = CountOf(q, E) - (IF Head(q) \in E THEN 1 ELSE 0)
<1> DEFINE n == Len(q)
           later == Where(q, E) \ {1}
           f == [i \in Where(Tail(q), E) |-> i + 1]
<1>1. /\ n \in Nat /\ n >= 1 /\ DOMAIN q = 1 .. n /\ DOMAIN Tail(q) = 1 .. n - 1
      /\ \A i \in 1 .. n - 1 : Tail(q)[i] = q[i + 1]
      /\ Head(q) = q[1] /\ Tail(q) \in Seq(Event)
  OBVIOUS
<1> HIDE DEF n
<1>2. \A i \in Where(Tail(q), E) : i \in Nat /\ i + 1 \in later
  BY <1>1 DEF Where
<1>3. \A j \in later : j - 1 \in Where(Tail(q), E) /\ j = (j - 1) + 1
  BY <1>1 DEF Where
<1>4. f \in [Where(Tail(q), E) -> later]
  BY <1>2
<1>5. f \in Bijection(Where(Tail(q), E), later)
  <2>1. \A i, j \in Where(Tail(q), E) : f[i] = f[j] => i = j
    BY <1>2
  <2>2. \A j \in later : \E i \in Where(Tail(q), E) : f[i] = j
    BY <1>3
  <2> HIDE DEF f, later
  <2>3. f \in Injection(Where(Tail(q), E), later)
    BY <1>4, <2>1 DEF Injection, IsInjective
  <2>4. f \in Surjection(Where(Tail(q), E), later)
    BY <1>4, <2>2 DEF Surjection
  <2> QED
    BY <2>3, <2>4 DEF Bijection
<1>6. IsFiniteSet(Where(Tail(q), E)) /\ IsFiniteSet(Where(q, E))
  BY <1>1, CountType
<1>7. Cardinality(later) = CountOf(Tail(q), E)
  <2> HIDE DEF later, f
  <2>1. ExistsBijection(Where(Tail(q), E), later)
    BY <1>5 DEF ExistsBijection
  <2> QED
    BY <1>6, <2>1, FS_Bijection DEF CountOf
<1>8. Cardinality(later) = IF 1 \in Where(q, E) THEN CountOf(q, E) - 1 ELSE CountOf(q, E)
  BY <1>6, FS_RemoveElement DEF CountOf
<1>9. 1 \in Where(q, E) <=> Head(q) \in E
  BY <1>1 DEF Where
<1>10. CountOf(q, E) \in Nat
  BY CountType
<1> QED
  BY <1>7, <1>8, <1>9, <1>10

LEMMA CountNone ==
    ASSUME NEW q \in Seq(Event), NEW E, \A i \in DOMAIN q : q[i] \notin E
    PROVE  CountOf(q, E) = 0
<1>1. Where(q, E) = {}
  BY DEF Where
<1> QED
  BY <1>1, FS_EmptySet DEF CountOf

----------------------------------------------------------------------------
\* The grace logins under a name that are for the password of a generation.
Counted(n, g) == {e \in Event : e.kind = "grace" /\ e.name = n /\ e.gen = g}

LEMMA PendingIsCount ==
    ASSUME queue \in Seq(Event), NEW n, NEW g
    PROVE  Cardinality(Pending(n, g)) = CountOf(queue, Counted(n, g))
<1>1. \A i \in DOMAIN queue : queue[i] \in Event
  BY LenProperties, ElementOfSeq
<1>2. Pending(n, g) = Where(queue, Counted(n, g))
  BY <1>1 DEF Pending, Where, Counted
<1> QED
  BY <1>2 DEF CountOf

----------------------------------------------------------------------------
(* The commits of the administrators, name by name. *)

\* Role r, new or not, gets a password under name n.
Sets(n, r) ==
    /\ n \in Name /\ r \in Role /\ UNCHANGED <<queue, client>>
    /\ \/ /\ catalog[n] = NoRole /\ r = roles + 1 /\ roles' = r
          /\ overtaken' = overtaken \cup (IF InFlight(n) \/ row[n].fails > 0 THEN {r} ELSE {})
       \/ catalog[n] = r /\ roles' = roles /\ overtaken' = overtaken
    /\ catalog'[n] = r /\ row'[n].of = r /\ row'[n].past = r
    /\ row'[n].fails = row[n].fails /\ row'[n].gen = gen + 1 /\ row'[n].grace = Grace
    /\ cache'[n].gen = gen + 1 /\ cache'[n].grace = Grace
    /\ \A m \in Name \ {n} : catalog'[m] = catalog[m] /\ row'[m] = row[m] /\ cache'[m] = cache[m]
    /\ gen' = gen + 1 /\ own'[r].grace = Grace /\ own'[r].fails = own[r].fails
    /\ \A q \in Role \ {r} : own'[q] = own[q]

\* The state under m, and perhaps the role, goes to n.
Moves(m, n) ==
    /\ m \in Name /\ n \in Name /\ m # n /\ UNCHANGED <<queue, client, gen, roles, own>>
    /\ \/ /\ catalog[m] \in Role /\ catalog[n] = NoRole
          /\ catalog'[n] = catalog[m] /\ catalog'[m] = NoRole
          /\ \A x \in Name \ {m, n} : catalog'[x] = catalog[x]
          /\ overtaken' = overtaken \cup (IF InFlight(m) \/ InFlight(n) THEN {catalog[m]} ELSE {})
       \/ /\ catalog' = catalog
          /\ overtaken' = overtaken \cup ({catalog[x] : x \in {m, n}} \ {NoRole})
    /\ row[n] = NoState /\ row'[n] = row[m] /\ row'[m] = NoState
    /\ cache'[n] = CacheOf(row[m]) /\ cache'[m] = CacheOf(NoState)
    /\ \A x \in Name \ {m, n} : row'[x] = row[x] /\ cache'[x] = cache[x]

\* The state under n, and perhaps the role, is removed.
Removes(n) ==
    /\ n \in Name /\ UNCHANGED <<queue, client, gen, roles, own>>
    /\ \/ /\ catalog'[n] = NoRole /\ overtaken' = overtaken
          /\ \A x \in Name \ {n} : catalog'[x] = catalog[x]
       \/ /\ catalog' = catalog /\ overtaken' = overtaken \cup ({catalog[n]} \ {NoRole})
    /\ row'[n] = NoState /\ cache'[n] = CacheOf(NoState)
    /\ \A x \in Name \ {n} : row'[x] = row[x] /\ cache'[x] = cache[x]

LEMMA CommitCases ==
    ASSUME TypeInv, NEW s \in Admin, Commit(s)
    PROVE  \/ \E n \in Name, r \in Role : Sets(n, r) /\ cache'[n].locked = cache[n].locked
           \/ \E m, n \in Name : Moves(m, n)
           \/ \E n \in Name : Removes(n)
<1>1. /\ catalog \in [Name -> Role \cup {NoRole}] /\ row \in [Name -> Row]
      /\ own \in [Role -> Own] /\ UNCHANGED <<queue, client>>
  BY CommitCommon DEF TypeOK, Own
<1>2. CASE txn[s].op \in {"create", "password"}
  <2> DEFINE t == txn[s]
             n == t.old
             r == IF t.op = "create" THEN roles + 1 ELSE t.role
             new == [row[n] EXCEPT !.gen = gen + 1, !.grace = Grace, !.of = r, !.past = r]
             o == [own[r] EXCEPT !.grace = Grace]
  <2>1. /\ n \in Name /\ r \in Role /\ catalog' = [catalog EXCEPT ![n] = r]
        /\ row' = [row EXCEPT ![n] = new]
        /\ cache'[n].gen = gen + 1 /\ cache'[n].grace = Grace
        /\ \A m \in Name \ {n} : cache'[m] = cache[m]
        /\ gen' = gen + 1 /\ own' = [own EXCEPT ![r].grace = Grace]
    BY <1>2, CommitSets
  <2>2. cache'[n].locked = cache[n].locked
    BY <1>2, CommitSets
  <2>3. \/ /\ catalog[n] = NoRole /\ r = roles + 1 /\ roles' = r
           /\ overtaken' = overtaken \cup (IF InFlight(n) \/ row[n].fails > 0 THEN {r} ELSE {})
        \/ catalog[n] = r /\ roles' = roles /\ overtaken' = overtaken
    BY <1>2, CommitSets
  <2> HIDE DEF r
  <2>4. /\ new.of = r /\ new.past = r /\ new.fails = row[n].fails
        /\ new.gen = gen + 1 /\ new.grace = Grace
    BY <1>1, <2>1 DEF Row
  <2>5. own' = [own EXCEPT ![r] = o] /\ o.grace = Grace /\ o.fails = own[r].fails
    BY <1>1, <2>1 DEF Own
  <2> HIDE DEF new, o, n
  <2>6. /\ own'[r] = o /\ \A q \in Role \ {r} : own'[q] = own[q]
        /\ catalog'[n] = r /\ row'[n] = new
        /\ \A m \in Name \ {n} : catalog'[m] = catalog[m] /\ row'[m] = row[m]
    BY <1>1, <2>1, <2>5
  <2>7. Sets(n, r)
    BY <1>1, <2>1, <2>3, <2>4, <2>5, <2>6 DEF Sets
  <2> QED
    BY <2>1, <2>2, <2>7
<1>3. CASE txn[s].op \in {"rename", "renameState"}
  <2> DEFINE m == txn[s].old
             n == txn[s].new
  <2>1. /\ m \in Name /\ n \in Name /\ m # n /\ row[n] = NoState
        /\ row' = [row EXCEPT ![n] = row[m], ![m] = NoState]
        /\ cache'[n] = CacheOf(row[m]) /\ cache'[m] = CacheOf(NoState)
        /\ \A x \in Name \ {m, n} : cache'[x] = cache[x]
        /\ UNCHANGED <<gen, roles, own>>
    BY <1>3, CommitMoves
  <2>2. row'[n] = row[m] /\ row'[m] = NoState /\ \A x \in Name \ {m, n} : row'[x] = row[x]
    BY <1>1, <2>1
  <2>3. CASE txn[s].op = "rename"
    <3>1. /\ catalog[m] \in Role /\ catalog[n] = NoRole
          /\ catalog' = [catalog EXCEPT ![n] = catalog[m], ![m] = NoRole]
          /\ overtaken' = overtaken \cup
                          (IF InFlight(m) \/ InFlight(n) THEN {catalog[m]} ELSE {})
      BY <1>3, <2>3, CommitMoves
    <3>2. /\ catalog'[n] = catalog[m] /\ catalog'[m] = NoRole
          /\ \A x \in Name \ {m, n} : catalog'[x] = catalog[x]
      BY <1>1, <2>1, <3>1
    <3> HIDE DEF m, n
    <3>3. Moves(m, n)
      BY <1>1, <2>1, <2>2, <3>1, <3>2 DEF Moves
    <3> QED
      BY <2>1, <3>3
  <2>4. CASE txn[s].op = "renameState"
    <3>1. /\ catalog' = catalog
          /\ overtaken' = overtaken \cup ({catalog[x] : x \in {m, n}} \ {NoRole})
      BY <1>3, <2>4, CommitMoves
    <3> HIDE DEF m, n
    <3>2. Moves(m, n)
      BY <1>1, <2>1, <2>2, <3>1 DEF Moves
    <3> QED
      BY <2>1, <3>2
  <2> QED
    BY <1>3, <2>3, <2>4
<1>4. CASE txn[s].op \in {"drop", "removeState"}
  <2> DEFINE n == txn[s].old
  <2>1. /\ n \in Name /\ row' = [row EXCEPT ![n] = NoState] /\ cache'[n] = CacheOf(NoState)
        /\ \A x \in Name \ {n} : cache'[x] = cache[x]
        /\ UNCHANGED <<gen, roles, own>>
    BY <1>4, CommitRemoves
  <2>2. \/ catalog' = [catalog EXCEPT ![n] = NoRole] /\ overtaken' = overtaken
        \/ catalog' = catalog /\ overtaken' = overtaken \cup ({catalog[n]} \ {NoRole})
    BY <1>4, CommitRemoves
  <2> HIDE DEF n
  <2>3. row'[n] = NoState /\ \A x \in Name \ {n} : row'[x] = row[x]
    BY <1>1, <2>1
  <2>4. \/ /\ catalog'[n] = NoRole /\ overtaken' = overtaken
           /\ \A x \in Name \ {n} : catalog'[x] = catalog[x]
        \/ catalog' = catalog /\ overtaken' = overtaken \cup ({catalog[n]} \ {NoRole})
    BY <1>1, <2>1, <2>2
  <2>5. Removes(n)
    BY <1>1, <2>1, <2>3, <2>4 DEF Removes
  <2> QED
    BY <2>1, <2>5
<1> QED
  BY <1>2, <1>3, <1>4, CommitCommon DEF Op

----------------------------------------------------------------------------
(* The tables, the caches and the events, step by step. *)

SetsPassword == \E n \in Name, r \in Role : Sets(n, r) /\ cache'[n].locked = cache[n].locked
MovesState == \E m, n \in Name : Moves(m, n)
RemovesState == \E n \in Name : Removes(n)
SeesLogin == \E n \in Name : Authenticate(n)
Records == \E k \in EventKind, f \in EventFlags : Hook(k, f)

LEMMA Cases ==
    ASSUME TypeInv, [Next]_vars
    PROVE  \/ Quiet \/ SeesLogin \/ Records \/ HookRecordsNothing \/ CommitEvent
           \/ SetsPassword \/ MovesState \/ RemovesState
<1>1. ASSUME NEW s \in Admin, Commit(s)
      PROVE  SetsPassword \/ MovesState \/ RemovesState
  BY <1>1, CommitCases DEF SetsPassword, MovesState, RemovesState
<1> QED
  BY <1>1, DataSteps DEF SeesLogin, Records

\* What a login and its event leave alone.
LEMMA LoginKeeps ==
    ASSUME TypeInv, SeesLogin \/ Records \/ HookRecordsNothing
    PROVE  UNCHANGED <<catalog, row, gen, roles, overtaken>>
<1>1. ASSUME NEW n \in Name, Authenticate(n)
      PROVE  UNCHANGED <<catalog, row, gen, roles, overtaken>>
  BY <1>1 DEF Authenticate, tables
<1>2. ASSUME NEW k \in EventKind, NEW f \in EventFlags, Hook(k, f)
      PROVE  UNCHANGED <<catalog, row, gen, roles, overtaken>>
  BY <1>2 DEF Hook, bounds
<1>3. HookRecordsNothing => UNCHANGED <<catalog, row, gen, roles, overtaken>>
  BY DEF HookRecordsNothing, tables, bounds
<1> QED
  BY <1>1, <1>2, <1>3 DEF SeesLogin, Records

LEMMA EventKeeps ==
    ASSUME TypeInv, CommitEvent
    PROVE  UNCHANGED <<catalog, gen, client, roles, overtaken>>
BY CommitEventFields DEF bounds

LEMMA NoRoleNotRole ==
    /\ NoRole \notin Role /\ NoRole = 0 /\ Role \subseteq Nat
    /\ \A r \in Role \cup {NoRole} : r \in Nat /\ (r # NoRole => r \in Role)
BY RoleStateAssumption DEF Role, NoRole

\* The state stays with its role.
LEMMA FollowStep ==
    ASSUME TypeInv, FollowInv, [Next]_vars
    PROVE  FollowInv'
<1>1. TypeOK
  BY DEF TypeInv
<1>2. CASE Quiet \/ SeesLogin \/ Records \/ HookRecordsNothing
  <2>1. UNCHANGED <<catalog, row, overtaken>>
    BY <1>2, LoginKeeps DEF Quiet
  <2> QED
    BY <2>1 DEF FollowInv, Follows
<1>3. CASE CommitEvent
  <2> DEFINE n == queue[1].name
  <2>1. UNCHANGED <<catalog, overtaken>>
    BY <1>3, EventKeeps
  <2>2. /\ row'[n].of = row[n].of /\ row'[n].past = row[n].past
        /\ \A m \in Name \ {n} : row'[m] = row[m]
    BY <1>3, CommitEventFields
  <2> HIDE DEF n
  <2> QED
    BY <2>1, <2>2 DEF FollowInv, Follows
<1>4. ASSUME NEW n \in Name, NEW r \in Role, Sets(n, r)
      PROVE  FollowInv'
  <2>1. /\ catalog'[n] = r /\ row'[n].of = r /\ row'[n].past = r
        /\ \A m \in Name \ {n} : catalog'[m] = catalog[m] /\ row'[m] = row[m]
    BY <1>4 DEF Sets
  <2>2. overtaken \subseteq overtaken'
    BY <1>4 DEF Sets
  <2> QED
    BY <2>1, <2>2 DEF FollowInv, Follows
<1>5. ASSUME NEW m \in Name, NEW n \in Name, Moves(m, n)
      PROVE  FollowInv'
  <2>1. /\ row'[n] = row[m] /\ row'[m].of = NoRole /\ row'[m].past = NoRole /\ m # n
        /\ \A x \in Name \ {m, n} : row'[x] = row[x]
    BY <1>5, NoStateFields DEF Moves
  <2>2. CASE /\ catalog'[n] = catalog[m] /\ catalog'[m] = NoRole
             /\ \A x \in Name \ {m, n} : catalog'[x] = catalog[x]
             /\ overtaken \subseteq overtaken'
    BY <2>1, <2>2 DEF FollowInv, Follows
  <2>3. CASE /\ catalog' = catalog
             /\ overtaken' = overtaken \cup ({catalog[x] : x \in {m, n}} \ {NoRole})
    <3>1. /\ overtaken \subseteq overtaken'
          /\ catalog[m] \in overtaken' \cup {NoRole} /\ catalog[n] \in overtaken' \cup {NoRole}
      BY <2>3
    <3>2. row[m].of \in overtaken' \cup {NoRole} /\ row[m].past \in overtaken' \cup {NoRole}
      BY <3>1 DEF FollowInv, Follows
    <3> QED
      BY <2>1, <2>3, <3>1, <3>2 DEF FollowInv, Follows
  <2> QED
    BY <1>5, <2>2, <2>3 DEF Moves
<1>6. ASSUME NEW n \in Name, Removes(n)
      PROVE  FollowInv'
  <2>1. /\ row'[n].of = NoRole /\ row'[n].past = NoRole
        /\ \A x \in Name \ {n} : row'[x] = row[x]
    BY <1>6, NoStateFields DEF Removes
  <2>2. overtaken \subseteq overtaken'
    BY <1>6 DEF Removes
  <2>3. catalog'[n] \in overtaken' \cup {NoRole} /\ \A x \in Name \ {n} : catalog'[x] = catalog[x]
    BY <1>6 DEF Removes
  <2> QED
    BY <2>1, <2>2, <2>3 DEF FollowInv, Follows
<1> QED
  BY Cases, <1>2, <1>3, <1>4, <1>5, <1>6 DEF SetsPassword, MovesState, RemovesState

LEMMA IncomingFields ==
    ASSUME TypeOK, NEW p \in Incoming
    PROVE  p[1] \in Name /\ p[2] \in Role \cup {NoRole} /\ InFlight(p[1])
<1>1. ASSUME NEW i \in DOMAIN queue, p = <<queue[i].name, queue[i].role>>
      PROVE  p[1] \in Name /\ p[2] \in Role \cup {NoRole} /\ InFlight(p[1])
  BY <1>1, QueueFields DEF InFlight
<1>2. ASSUME client # <<>>, p = <<client[1][1], client[1][2]>>
      PROVE  p[1] \in Name /\ p[2] \in Role \cup {NoRole} /\ InFlight(p[1])
  BY <1>2, ClientFields DEF InFlight
<1> QED
  BY <1>1, <1>2 DEF Incoming

\* A login joins with the role that has the name; an event takes its login's place.
LEMMA IncomingStep ==
    ASSUME TypeInv, [Next]_vars
    PROVE  \A p \in Incoming' :
              p \in Incoming \/ (SeesLogin /\ \E n \in Name : p = <<n, catalog[n]>>)
<1>1. TypeOK
  BY DEF TypeInv
<1>2. CASE UNCHANGED <<queue, client>>
  BY <1>2 DEF Incoming
<1>3. ASSUME NEW n \in Name, Authenticate(n)
      PROVE  \A p \in Incoming' : p \in Incoming \/ p = <<n, catalog[n]>>
  <2>1. queue' = queue /\ client'[1] = <<n, catalog[n]>>
    BY <1>3 DEF Authenticate
  <2> QED
    BY <2>1 DEF Incoming
<1>4. ASSUME NEW k \in EventKind, NEW f \in EventFlags, Hook(k, f)
      PROVE  Incoming' \subseteq Incoming
  <2>1. PICK e \in Event : /\ queue' = Append(queue, e) /\ client # <<>> /\ client' = <<>>
                           /\ e.name = client[1][1] /\ e.role = client[1][2]
    <3>1. client # <<>> /\ client' = <<>>
      BY <1>1, <1>4, HookFields
    <3> QED
      BY <1>1, <1>4, <3>1, HookEvent
  <2>2. ASSUME NEW i \in DOMAIN queue'
        PROVE  <<queue'[i].name, queue'[i].role>> \in Incoming
    <3>1. (i \in DOMAIN queue /\ queue'[i] = queue[i]) \/ queue'[i] = e
      BY <1>1, <2>1 DEF TypeOK
    <3> QED
      BY <2>1, <3>1 DEF Incoming
  <2> QED
    BY <2>1, <2>2 DEF Incoming
<1>5. CASE HookRecordsNothing
  BY <1>5 DEF HookRecordsNothing, Incoming
<1>6. CASE CommitEvent
  <2>1. queue # <<>> /\ queue' = Tail(queue) /\ client' = client
    BY <1>6, CommitEventFields
  <2>2. ASSUME NEW i \in DOMAIN queue'
        PROVE  i + 1 \in DOMAIN queue /\ queue'[i] = queue[i + 1]
    <3>1. /\ queue' \in Seq(Event) /\ Len(queue') = Len(queue) - 1
          /\ \A j \in 1 .. Len(queue') : queue'[j] = queue[j + 1]
          /\ Len(queue) \in Nat /\ DOMAIN queue = 1 .. Len(queue)
      BY <1>1, <2>1, QueueFields
    <3>2. DOMAIN queue' = 1 .. Len(queue')
      BY <3>1, LenProperties
    <3> QED
      BY <3>1, <3>2
  <2> QED
    BY <2>1, <2>2 DEF Incoming
<1>7. SetsPassword \/ MovesState \/ RemovesState => UNCHANGED <<queue, client>>
  BY DEF SetsPassword, MovesState, RemovesState, Sets, Moves, Removes
<1> QED
  BY Cases, <1>2, <1>3, <1>4, <1>5, <1>6, <1>7 DEF Quiet, SeesLogin, Records

\* Every role has one name.
LEMMA NamesStep ==
    ASSUME TypeInv, NamesInv, EventsInv, [Next]_vars
    PROVE  NamesInv'
<1>1. TypeOK /\ catalog \in [Name -> Role \cup {NoRole}] /\ roles \in Nat
  BY NoRoleNotRole DEF TypeInv, TypeOK
<1>2. ASSUME UNCHANGED <<catalog, roles>>, \A r \in Role : r > roles => own'[r].fails = own[r].fails
      PROVE  NamesInv'
  BY <1>2 DEF NamesInv
<1>3. CASE Quiet \/ SeesLogin \/ HookRecordsNothing
  <2>1. UNCHANGED <<catalog, roles, own>>
    BY <1>3, LoginKeeps DEF Quiet, SeesLogin, Authenticate, HookRecordsNothing
  <2> QED
    BY <1>2, <2>1
<1>4. CASE Records
  <2>1. UNCHANGED <<catalog, roles>>
    BY <1>4, LoginKeeps
  <2>2. ASSUME NEW k \in EventKind, NEW f \in EventFlags, Hook(k, f)
        PROVE  \A r \in Role : own'[r].fails = own[r].fails
    BY <1>1, <2>2, HookFields
  <2> QED
    BY <1>2, <1>4, <2>1, <2>2 DEF Records
<1>5. CASE CommitEvent
  <2> DEFINE e == queue[1]
  <2>1. /\ queue # <<>>
        /\ \A q \in Role : q # e.role => own'[q].fails = own[q].fails
    BY <1>5, CommitEventFields
  <2>2. <<e.name, e.role>> \in Incoming
    BY <1>1, <2>1, QueueFields DEF Incoming
  <2>3. e.role <= roles
    BY <2>2 DEF EventsInv, Theirs
  <2>4. UNCHANGED <<catalog, roles>>
    BY <1>5, EventKeeps
  <2>5. \A r \in Role : r > roles => r # e.role
    BY <1>1, <2>3, NoRoleNotRole
  <2> HIDE DEF e
  <2> QED
    BY <1>2, <2>1, <2>4, <2>5
<1>6. ASSUME NEW n \in Name, NEW r \in Role, Sets(n, r)
      PROVE  NamesInv'
  <2>1. /\ catalog'[n] = r /\ \A m \in Name \ {n} : catalog'[m] = catalog[m]
        /\ own'[r].fails = own[r].fails /\ \A q \in Role \ {r} : own'[q] = own[q]
    BY <1>6 DEF Sets
  <2>2. /\ \/ r = roles + 1 /\ roles' = r
           \/ catalog[n] = r /\ roles' = roles
    BY <1>6 DEF Sets
  <2>3. \A m \in Name \ {n} : catalog[m] # r
    BY <1>1, <2>2, NoRoleNotRole DEF NamesInv
  <2>4. \A m \in Name : catalog'[m] <= roles'
    BY <1>1, <2>1, <2>2, NoRoleNotRole DEF NamesInv
  <2>5. \A q \in Role : q > roles' => own'[q].fails = 0
    BY <1>1, <2>1, <2>2, NoRoleNotRole DEF NamesInv
  <2>6. \A l, m \in Name : catalog'[l] = catalog'[m] /\ catalog'[l] # NoRole => l = m
    BY <2>1, <2>3 DEF NamesInv
  <2> QED
    BY <2>4, <2>5, <2>6 DEF NamesInv
<1>7. ASSUME NEW m \in Name, NEW n \in Name, Moves(m, n)
      PROVE  NamesInv'
  <2>1. UNCHANGED <<roles, own>> /\ m # n
    BY <1>7 DEF Moves
  <2>2. CASE catalog' = catalog
    BY <1>2, <2>1, <2>2
  <2>3. CASE /\ catalog'[n] = catalog[m] /\ catalog'[m] = NoRole
             /\ \A x \in Name \ {m, n} : catalog'[x] = catalog[x]
    BY <1>1, <2>1, <2>3, NoRoleNotRole DEF NamesInv
  <2> QED
    BY <1>7, <2>2, <2>3 DEF Moves
<1>8. ASSUME NEW n \in Name, Removes(n)
      PROVE  NamesInv'
  <2>1. UNCHANGED <<roles, own>>
    BY <1>8 DEF Removes
  <2>2. CASE catalog' = catalog
    BY <1>2, <2>1, <2>2
  <2>3. CASE catalog'[n] = NoRole /\ \A x \in Name \ {n} : catalog'[x] = catalog[x]
    BY <1>1, <2>1, <2>3, NoRoleNotRole DEF NamesInv
  <2> QED
    BY <1>8, <2>2, <2>3 DEF Removes
<1> QED
  BY Cases, <1>3, <1>4, <1>5, <1>6, <1>7, <1>8 DEF SetsPassword, MovesState, RemovesState

\* A name does not change hands under an event without the role being overtaken.
LEMMA EventsStep ==
    ASSUME TypeInv, NamesInv, EventsInv, [Next]_vars
    PROVE  EventsInv'
<1>1. TypeOK /\ catalog \in [Name -> Role \cup {NoRole}] /\ roles \in Nat
  BY NoRoleNotRole DEF TypeInv, TypeOK
<1>2. ASSUME \A p \in Incoming : Theirs(p[1], p[2])', ~SeesLogin
      PROVE  EventsInv'
  BY <1>2, IncomingStep DEF EventsInv
<1>3. ASSUME catalog' = catalog, roles' = roles, overtaken \subseteq overtaken',
             NEW n, NEW r, Theirs(n, r)
      PROVE  Theirs(n, r)'
  BY <1>3 DEF Theirs
<1>4. CASE catalog' = catalog /\ roles' = roles /\ overtaken \subseteq overtaken'
  <2>1. ASSUME NEW p \in Incoming'
        PROVE  Theirs(p[1], p[2])
    <3>1. CASE p \in Incoming
      BY <3>1 DEF EventsInv
    <3>2. ASSUME NEW n \in Name, p = <<n, catalog[n]>>
          PROVE  Theirs(p[1], p[2])
      <4>1. Theirs(n, catalog[n])
        BY <1>1 DEF Theirs, NamesInv
      <4> QED
        BY <3>2, <4>1
    <3> QED
      BY <3>1, <3>2, IncomingStep
  <2> QED
    BY <1>3, <1>4, <2>1 DEF EventsInv
<1>5. CASE Quiet \/ SeesLogin \/ Records \/ HookRecordsNothing
  BY <1>4, <1>5, LoginKeeps DEF Quiet
<1>6. CASE CommitEvent
  BY <1>4, <1>6, EventKeeps
<1>7. ASSUME NEW p \in Incoming
      PROVE  /\ p[1] \in Name /\ p[2] \in Nat /\ InFlight(p[1])
             /\ p[2] <= roles
             /\ catalog[p[1]] \notin {NoRole} \cup overtaken => p[2] = catalog[p[1]]
             /\ \A m \in Name : catalog[m] = p[2] /\ p[2] \notin {NoRole} \cup overtaken => m = p[1]
  BY <1>1, IncomingFields, NoRoleNotRole DEF EventsInv, Theirs
<1>8. ASSUME NEW n \in Name, NEW r \in Role, Sets(n, r)
      PROVE  EventsInv'
  <2>1. ~SeesLogin
    BY <1>8 DEF SeesLogin, Authenticate, Sets
  <2>2. catalog'[n] = r /\ \A m \in Name \ {n} : catalog'[m] = catalog[m]
    BY <1>8 DEF Sets
  <2>3. CASE catalog[n] = r /\ roles' = roles /\ overtaken' = overtaken
    <3>1. \A m \in Name : catalog'[m] = catalog[m]
      BY <2>2, <2>3
    <3> QED
      BY <1>2, <1>7, <2>1, <2>3, <3>1 DEF Theirs
  <2>4. CASE /\ r = roles + 1 /\ roles' = r
             /\ overtaken' = overtaken \cup (IF InFlight(n) \/ row[n].fails > 0 THEN {r} ELSE {})
    <3>1. ASSUME NEW p \in Incoming
          PROVE  Theirs(p[1], p[2])'
      <4>1. p[2] <= roles' /\ p[2] # r
        BY <1>1, <1>7, <2>4
      <4>2. p[1] = n => r \in overtaken'
        BY <1>7, <2>4
      <4> QED
        BY <1>7, <2>2, <2>4, <4>1, <4>2 DEF Theirs
    <3> QED
      BY <1>2, <2>1, <3>1
  <2> QED
    BY <1>8, <2>3, <2>4 DEF Sets
<1>9. ASSUME NEW m \in Name, NEW n \in Name, Moves(m, n)
      PROVE  EventsInv'
  <2>1. ~SeesLogin /\ roles' = roles /\ m # n
    BY <1>9 DEF SeesLogin, Authenticate, Moves
  <2>2. CASE catalog' = catalog /\ overtaken \subseteq overtaken'
    BY <1>4, <2>1, <2>2
  <2>3. CASE /\ catalog[m] \in Role
             /\ catalog'[n] = catalog[m] /\ catalog'[m] = NoRole
             /\ \A x \in Name \ {m, n} : catalog'[x] = catalog[x]
             /\ overtaken' = overtaken \cup (IF InFlight(m) \/ InFlight(n) THEN {catalog[m]} ELSE {})
    <3>1. ASSUME NEW p \in Incoming
          PROVE  Theirs(p[1], p[2])'
      <4>1. p[1] \in {m, n} => catalog[m] \in overtaken'
        BY <1>7, <2>3
      <4>2. catalog'[p[1]] \notin {NoRole} \cup overtaken' => p[2] = catalog'[p[1]]
        BY <1>7, <2>1, <2>3, <4>1
      <4>3. ASSUME NEW x \in Name, catalog'[x] = p[2], p[2] \notin {NoRole} \cup overtaken'
            PROVE  x = p[1]
        <5>1. CASE x = n
          BY <1>7, <2>3, <4>1, <4>3, <5>1
        <5>2. CASE x = m
          BY <2>3, <4>3, <5>2
        <5>3. CASE x \notin {m, n}
          BY <1>7, <2>3, <4>3, <5>3
        <5> QED
          BY <5>1, <5>2, <5>3
      <4> QED
        BY <1>7, <2>1, <4>2, <4>3 DEF Theirs
    <3> QED
      BY <1>2, <2>1, <3>1
  <2> QED
    BY <1>9, <2>2, <2>3 DEF Moves
<1>10. ASSUME NEW n \in Name, Removes(n)
       PROVE  EventsInv'
  <2>1. ~SeesLogin /\ roles' = roles
    BY <1>10 DEF SeesLogin, Authenticate, Removes
  <2>2. CASE catalog' = catalog /\ overtaken \subseteq overtaken'
    BY <1>4, <2>1, <2>2
  <2>3. CASE /\ catalog'[n] = NoRole /\ \A x \in Name \ {n} : catalog'[x] = catalog[x]
             /\ overtaken' = overtaken
    <3>1. ASSUME NEW p \in Incoming
          PROVE  Theirs(p[1], p[2])'
      BY <1>7, <2>1, <2>3 DEF Theirs
    <3> QED
      BY <1>2, <2>1, <3>1
  <2> QED
    BY <1>10, <2>2, <2>3 DEF Removes
<1> QED
  BY Cases, <1>5, <1>6, <1>8, <1>9, <1>10 DEF SetsPassword, MovesState, RemovesState

\* The parts of CachesMatchRows.
LockedMatch == \A n \in Name : cache[n].locked = Locked(row[n].fails)
GenMatch == \A n \in Name : cache[n].gen = row[n].gen
Uncounted(n) == CountOf(queue, Counted(n, row[n].gen))
GraceMatch ==
    \A n \in Name : row[n].of \notin {NoRole} \cup overtaken =>
        cache[n].grace = row[n].grace - Uncounted(n)

LEMMA CachesMatchIs ==
    ASSUME TypeOK
    PROVE  CachesMatchRows <=> LockedMatch /\ GenMatch /\ GraceMatch
<1>1. \A n \in Name : Cardinality(Pending(n, row[n].gen)) = Uncounted(n)
  BY PendingIsCount DEF TypeOK, Uncounted
<1> QED
  BY <1>1, Zenon DEF CachesMatchRows, LockedMatch, GenMatch, GraceMatch

\* A step that changes neither caches nor rows.
LEMMA StillCaches ==
    ASSUME TypeInv, Quiet \/ SeesLogin \/ HookRecordsNothing
    PROVE  UNCHANGED <<cache, row, queue, own, catalog, overtaken, gen>>
<1>1. SeesLogin => UNCHANGED <<cache, row, queue, own, catalog, overtaken, gen>>
  BY DEF SeesLogin, Authenticate, tables
<1> QED
  BY <1>1 DEF Quiet, HookRecordsNothing, tables

\* The lockouts in the cache are those of the rows.
LEMMA LockedStep ==
    ASSUME TypeInv, LockedMatch, [Next]_vars
    PROVE  LockedMatch'
<1>1. TypeOK
  BY DEF TypeInv
<1>2. CASE Quiet \/ SeesLogin \/ HookRecordsNothing
  <2>1. UNCHANGED <<cache, row>>
    BY <1>2, StillCaches
  <2> QED
    BY <2>1, Zenon DEF LockedMatch, Locked
<1>3. ASSUME NEW k \in EventKind, NEW f \in EventFlags, Hook(k, f)
      PROVE  LockedMatch'
  <2>1. row' = row
    BY <1>1, <1>3, HookFields
  <2>2. ASSUME NEW m \in Name
        PROVE  cache'[m].locked = cache[m].locked
    <3> DEFINE n == client[1][1]
    <3>1. \/ cache'[m] = cache[m]
          \/ cache'[m] = [cache[m] EXCEPT !.grace = cache[m].grace - 1]
      BY <1>1, <1>3, HookFields
    <3>2. cache[m] \in Entry
      BY <1>1, RowFields
    <3>3. [cache[m] EXCEPT !.grace = cache[m].grace - 1].locked = cache[m].locked
      BY <3>2, Zenon DEF Entry
    <3> QED
      BY <3>1, <3>3, Zenon
  <2> QED
    BY <2>1, <2>2, Zenon DEF LockedMatch, Locked
<1>4. CASE CommitEvent
  <2> DEFINE n == queue[1].name
  <2>1. /\ cache'[n].locked = Locked(row'[n].fails)
        /\ \A m \in Name \ {n} : row'[m] = row[m] /\ cache'[m] = cache[m]
    BY <1>4, CommitEventFields
  <2> HIDE DEF n
  <2>2. ASSUME NEW m \in Name
        PROVE  cache'[m].locked = Locked(row'[m].fails)
    <3>1. CASE m = n
      BY <2>1, <3>1, Zenon
    <3>2. CASE m # n
      <4>1. row'[m] = row[m] /\ cache'[m] = cache[m]
        BY <2>1, <3>2
      <4> QED
        BY <4>1, Zenon DEF LockedMatch
    <3> QED
      BY <3>1, <3>2
  <2> QED
    BY <2>2, Zenon DEF LockedMatch, Locked
<1>5. ASSUME NEW n \in Name, NEW r \in Role, Sets(n, r), cache'[n].locked = cache[n].locked
      PROVE  LockedMatch'
  <2>1. /\ row'[n].fails = row[n].fails
        /\ \A m \in Name \ {n} : row'[m] = row[m] /\ cache'[m] = cache[m]
    BY <1>5 DEF Sets
  <2>2. ASSUME NEW m \in Name
        PROVE  cache'[m].locked = Locked(row'[m].fails)
    <3>1. row'[m].fails = row[m].fails /\ cache[m].locked = Locked(row[m].fails)
      BY <2>1, Zenon DEF LockedMatch
    <3>2. cache'[m].locked = cache[m].locked
      BY <1>5, <2>1, Zenon
    <3> QED
      BY <3>1, <3>2, Zenon
  <2> QED
    BY <2>2, Zenon DEF LockedMatch, Locked
<1>6. ASSUME NEW m \in Name, NEW n \in Name, Moves(m, n)
      PROVE  LockedMatch'
  <2>1. /\ row'[n] = row[m] /\ row'[m] = NoState
        /\ cache'[n] = CacheOf(row[m]) /\ cache'[m] = CacheOf(NoState)
        /\ \A x \in Name \ {m, n} : row'[x] = row[x] /\ cache'[x] = cache[x]
    BY <1>6 DEF Moves
  <2>2. \A r \in Row : CacheOf(r).locked = Locked(r.fails)
    BY CacheOfFields
  <2>3. row[m] \in Row /\ NoState \in Row
    BY <1>1, RowFields, NoStateFields
  <2>4. ASSUME NEW x \in Name
        PROVE  cache'[x].locked = Locked(row'[x].fails)
    <3>1. CASE x = n
      BY <2>1, <2>2, <2>3, <3>1, Zenon
    <3>2. CASE x = m
      BY <2>1, <2>2, <2>3, <3>2, Zenon
    <3>3. CASE x \notin {m, n}
      BY <2>1, <3>3, Zenon DEF LockedMatch
    <3> QED
      BY <3>1, <3>2, <3>3
  <2> QED
    BY <2>4, Zenon DEF LockedMatch, Locked
<1>7. ASSUME NEW n \in Name, Removes(n)
      PROVE  LockedMatch'
  <2>1. /\ row'[n] = NoState /\ cache'[n] = CacheOf(NoState)
        /\ \A x \in Name \ {n} : row'[x] = row[x] /\ cache'[x] = cache[x]
    BY <1>7 DEF Removes
  <2>2. CacheOf(NoState).locked = Locked(NoState.fails)
    BY CacheOfFields, NoStateFields
  <2>3. ASSUME NEW x \in Name
        PROVE  cache'[x].locked = Locked(row'[x].fails)
    <3>1. CASE x = n
      BY <2>1, <2>2, <3>1, Zenon
    <3>2. CASE x # n
      BY <2>1, <3>2, Zenon DEF LockedMatch
    <3> QED
      BY <3>1, <3>2
  <2> QED
    BY <2>3, Zenon DEF LockedMatch, Locked
<1> QED
  BY Cases, <1>2, <1>3, <1>4, <1>5, <1>6, <1>7
     DEF Records, SetsPassword, MovesState, RemovesState

\* The generations in the cache are those of the rows, and not ahead of the clock.
LEMMA GenStep ==
    ASSUME TypeInv, GenMatch, GenInv, [Next]_vars
    PROVE  GenMatch' /\ GenInv'
<1>1. TypeOK /\ gen \in Nat
  BY DEF TypeInv, TypeOK
<1>2. CASE Quiet \/ SeesLogin \/ HookRecordsNothing
  <2>1. UNCHANGED <<cache, row, queue, gen>>
    BY <1>2, StillCaches
  <2> QED
    BY <2>1 DEF GenMatch, GenInv
<1>3. ASSUME NEW k \in EventKind, NEW f \in EventFlags, Hook(k, f)
      PROVE  GenMatch' /\ GenInv'
  <2>1. UNCHANGED <<row, gen>>
    BY <1>1, <1>3, HookFields
  <2>2. ASSUME NEW m \in Name
        PROVE  cache'[m].gen = cache[m].gen
    <3>1. \/ cache'[m] = cache[m]
          \/ cache'[m] = [cache[m] EXCEPT !.grace = cache[m].grace - 1]
      BY <1>1, <1>3, HookFields
    <3>2. cache[m] \in Entry
      BY <1>1, RowFields
    <3> QED
      BY <3>1, <3>2 DEF Entry
  <2>3. PICK e \in Event : /\ queue' = Append(queue, e)
                           /\ e.gen = IF k = "grace" THEN cache[client[1][1]].gen ELSE 0
    BY <1>1, <1>3, HookFields
  <2>4. client[1][1] \in Name
    BY <1>1, <1>3, ClientFields DEF Hook
  <2>5. e.gen <= gen
    BY <1>1, <2>3, <2>4 DEF GenMatch, GenInv
  <2>6. \A i \in DOMAIN queue' : (i \in DOMAIN queue /\ queue'[i] = queue[i]) \/ queue'[i] = e
    BY <1>1, <2>3 DEF TypeOK
  <2> QED
    BY <2>1, <2>2, <2>5, <2>6 DEF GenMatch, GenInv
<1>4. CASE CommitEvent
  <2> DEFINE n == queue[1].name
  <2>1. /\ row'[n].gen = row[n].gen /\ cache'[n].gen = cache[n].gen
        /\ \A m \in Name \ {n} : row'[m] = row[m] /\ cache'[m] = cache[m]
        /\ queue # <<>> /\ queue' = Tail(queue) /\ gen' = gen
    BY <1>4, CommitEventFields
  <2>2. /\ queue' \in Seq(Event) /\ Len(queue') = Len(queue) - 1
        /\ \A j \in 1 .. Len(queue') : queue'[j] = queue[j + 1]
        /\ Len(queue) \in Nat /\ DOMAIN queue = 1 .. Len(queue)
    BY <1>1, <2>1, QueueFields
  <2>3. DOMAIN queue' = 1 .. Len(queue')
    BY <2>2, LenProperties
  <2>4. \A i \in DOMAIN queue' : i + 1 \in DOMAIN queue /\ queue'[i] = queue[i + 1]
    BY <2>2, <2>3
  <2> HIDE DEF n
  <2> QED
    BY <2>1, <2>4 DEF GenMatch, GenInv
<1>5. ASSUME NEW n \in Name, NEW r \in Role, Sets(n, r)
      PROVE  GenMatch' /\ GenInv'
  <2>1. /\ row'[n].gen = gen + 1 /\ cache'[n].gen = gen + 1 /\ gen' = gen + 1 /\ queue' = queue
        /\ \A m \in Name \ {n} : row'[m] = row[m] /\ cache'[m] = cache[m]
    BY <1>5 DEF Sets
  <2>2. \A m \in Name : row[m].gen \in Nat
    BY <1>1, RowFields
  <2>3. \A i \in DOMAIN queue : queue[i].gen \in Nat
    BY <1>1, QueueFields
  <2> QED
    BY <1>1, <2>1, <2>2, <2>3 DEF GenMatch, GenInv
<1>6. ASSUME NEW m \in Name, NEW n \in Name, Moves(m, n)
      PROVE  GenMatch' /\ GenInv'
  <2>1. /\ row'[n] = row[m] /\ row'[m] = NoState
        /\ cache'[n] = CacheOf(row[m]) /\ cache'[m] = CacheOf(NoState)
        /\ \A x \in Name \ {m, n} : row'[x] = row[x] /\ cache'[x] = cache[x]
        /\ UNCHANGED <<queue, gen>>
    BY <1>6 DEF Moves
  <2>2. CacheOf(row[m]).gen = row[m].gen /\ CacheOf(NoState).gen = 0 /\ NoState.gen = 0
    BY <1>1, RowFields, CacheOfFields, NoStateFields
  <2> QED
    BY <1>1, <2>1, <2>2 DEF GenMatch, GenInv
<1>7. ASSUME NEW n \in Name, Removes(n)
      PROVE  GenMatch' /\ GenInv'
  <2>1. /\ row'[n] = NoState /\ cache'[n] = CacheOf(NoState)
        /\ \A x \in Name \ {n} : row'[x] = row[x] /\ cache'[x] = cache[x]
        /\ UNCHANGED <<queue, gen>>
    BY <1>7 DEF Removes
  <2>2. CacheOf(NoState).gen = 0 /\ NoState.gen = 0
    BY CacheOfFields, NoStateFields
  <2> QED
    BY <1>1, <2>1, <2>2 DEF GenMatch, GenInv
<1> QED
  BY Cases, <1>2, <1>3, <1>4, <1>5, <1>6, <1>7
     DEF Records, SetsPassword, MovesState, RemovesState

\* Nothing to count: no event under the name, or none of a generation to come.
LEMMA NothingUncounted ==
    ASSUME TypeOK, NEW n \in Name, NEW g \in Nat,
           ~InFlight(n) \/ (GenInv /\ g > gen)
    PROVE  CountOf(queue, Counted(n, g)) = 0
<1>1. queue \in Seq(Event) /\ gen \in Nat
  BY DEF TypeOK
<1>2. \A i \in DOMAIN queue : queue[i].gen \in Nat
  BY QueueFields
<1>3. \A i \in DOMAIN queue : queue[i] \notin Counted(n, g)
  BY <1>1, <1>2 DEF InFlight, GenInv, Counted
<1> QED
  BY <1>1, <1>3, CountNone

\* The allowance in the cache is the row's, less what the queue still has of it.
LEMMA GraceStep ==
    ASSUME TypeInv, FollowInv, GenMatch, GenInv, GraceMatch, [Next]_vars
    PROVE  GraceMatch'
<1>1. TypeOK /\ gen \in Nat /\ queue \in Seq(Event)
  BY DEF TypeInv, TypeOK
<1>2. \A x \in Name : /\ row[x].gen \in Nat /\ row[x].grace \in Nat /\ cache[x].grace \in Nat
                      /\ Uncounted(x) \in Nat
  BY <1>1, RowFields, CountType DEF Uncounted
<1>3. ASSUME NEW x \in Name, row'[x] = row[x], cache'[x] = cache[x], queue' = queue,
             overtaken \subseteq overtaken', row'[x].of \notin {NoRole} \cup overtaken'
      PROVE  cache'[x].grace = row'[x].grace - Uncounted(x)'
  BY <1>3 DEF GraceMatch, Uncounted
<1>4. CASE Quiet \/ SeesLogin \/ HookRecordsNothing
  <2>1. UNCHANGED <<cache, row, queue, overtaken>>
    BY <1>4, StillCaches
  <2> QED
    BY <1>3, <2>1 DEF GraceMatch
<1>5. ASSUME NEW k \in EventKind, NEW f \in EventFlags, Hook(k, f)
      PROVE  GraceMatch'
  <2>0. PICK n \in Name : n = client[1][1]
    BY <1>1, <1>5, HookFields, ClientFields
  <2>1. PICK e \in Event :
           /\ queue' = Append(queue, e) /\ e.kind = k /\ e.name = n
           /\ k = "grace" => e.gen = cache[n].gen
    BY <1>1, <1>5, <2>0, HookEvent
  <2>2. row' = row /\ overtaken' = overtaken
    BY <1>1, <1>5, HookFields
  <2>3. ASSUME NEW x \in Name
        PROVE  Uncounted(x)' = Uncounted(x) + (IF e \in Counted(x, row[x].gen) THEN 1 ELSE 0)
    BY <1>1, <2>1, <2>2, CountAppend DEF Uncounted
  <2>4. CASE k # "grace"
    <3>1. cache' = cache
      BY <1>1, <1>5, <2>4, HookFields
    <3>2. \A x \in Name : e \notin Counted(x, row[x].gen)
      BY <2>1, <2>4 DEF Counted
    <3>3. \A x \in Name : Uncounted(x)' = Uncounted(x)
      BY <1>2, <2>3, <3>2
    <3> QED
      BY <2>2, <3>1, <3>3 DEF GraceMatch
  <2>5. CASE k = "grace"
    <3>1. /\ cache'[n] = [cache[n] EXCEPT !.grace = cache[n].grace - 1]
          /\ \A m \in Name \ {n} : cache'[m] = cache[m]
      BY <1>1, <1>5, <2>0, <2>5, HookFields
    <3>2. cache'[n].grace = cache[n].grace - 1
      BY <1>1, <2>2, <3>1, RowFields DEF Entry
    <3>3. \A x \in Name : e \in Counted(x, row[x].gen) <=> x = n
      BY <2>1, <2>2, <2>5 DEF Counted, GenMatch
    <3>4. Uncounted(n)' = Uncounted(n) + 1 /\ \A x \in Name \ {n} : Uncounted(x)' = Uncounted(x)
      BY <1>2, <2>2, <2>3, <3>3
    <3>5. ASSUME NEW x \in Name, row'[x].of \notin {NoRole} \cup overtaken'
          PROVE  cache'[x].grace = row'[x].grace - Uncounted(x)'
      <4>1. cache[x].grace = row[x].grace - Uncounted(x) /\ row'[x].grace = row[x].grace
        BY <2>2, <3>5 DEF GraceMatch
      <4>2. CASE x = n
        BY <1>2, <3>2, <3>4, <4>1, <4>2
      <4>3. CASE x # n
        BY <3>1, <3>4, <4>1, <4>3
      <4> QED
        BY <4>2, <4>3
    <3> QED
      BY <3>5 DEF GraceMatch
  <2> QED
    BY <2>4, <2>5
<1>6. CASE CommitEvent
  <2>0. PICK e \in Event, n \in Name : queue # <<>> /\ e = queue[1] /\ n = e.name
    BY <1>1, <1>6, CommitEventFields, QueueFields
  <2>1. /\ queue # <<>> /\ queue' = Tail(queue) /\ overtaken' = overtaken
        /\ row'[n].grace = GraceAfter(row[n], e) /\ row'[n].gen = row[n].gen
        /\ row'[n].of = row[n].of /\ cache'[n].grace = cache[n].grace
        /\ \A m \in Name \ {n} : row'[m] = row[m] /\ cache'[m] = cache[m]
    BY <1>6, <2>0, CommitEventFields
  <2>2. Head(queue) = e
    BY <1>1, <2>0, QueueFields
  <2>3. \A x \in Name : row'[x].gen = row[x].gen
    BY <2>1
  <2>4. ASSUME NEW x \in Name
        PROVE  Uncounted(x)' = Uncounted(x) - (IF e \in Counted(x, row[x].gen) THEN 1 ELSE 0)
    BY <1>1, <2>1, <2>2, <2>3, CountTail DEF Uncounted
  <2>5. \A x \in Name : e \in Counted(x, row[x].gen) => x = n
    BY <2>0 DEF Counted
  <2>6. \A x \in Name \ {n} : Uncounted(x)' = Uncounted(x)
    BY <1>2, <2>4, <2>5
  <2>7. CASE e.kind = "grace" /\ row[n].gen = e.gen
    <3>1. e \in Counted(n, row[n].gen)
      BY <2>0, <2>7 DEF Counted
    <3>2. row'[n].grace = row[n].grace - 1
      BY <2>1, <2>7 DEF GraceAfter
    <3>3. Uncounted(n)' = Uncounted(n) - 1
      BY <1>2, <2>2, <2>4, <3>1
    <3>4. ASSUME NEW x \in Name, row'[x].of \notin {NoRole} \cup overtaken'
          PROVE  cache'[x].grace = row'[x].grace - Uncounted(x)'
      <4>1. cache[x].grace = row[x].grace - Uncounted(x)
        BY <2>1, <3>4 DEF GraceMatch
      <4>2. CASE x = n
        <5>1. /\ row[n].grace \in Nat /\ Uncounted(n) \in Nat
              /\ cache'[n].grace = row[n].grace - Uncounted(n)
          BY <1>2, <2>1, <4>1, <4>2
        <5> QED
          BY <3>2, <3>3, <4>2, <5>1
      <4>3. CASE x # n
        BY <2>1, <2>6, <4>1, <4>3
      <4> QED
        BY <4>2, <4>3
    <3> QED
      BY <3>4 DEF GraceMatch
  <2>8. CASE ~(e.kind = "grace" /\ row[n].gen = e.gen)
    <3>1. e \notin Counted(n, row[n].gen)
      BY <2>8 DEF Counted
    <3>2. row'[n].grace = row[n].grace
      BY <2>1, <2>8 DEF GraceAfter
    <3>3. Uncounted(n)' = Uncounted(n)
      BY <1>2, <2>2, <2>4, <3>1
    <3>4. ASSUME NEW x \in Name, row'[x].of \notin {NoRole} \cup overtaken'
          PROVE  cache'[x].grace = row'[x].grace - Uncounted(x)'
      <4>1. cache[x].grace = row[x].grace - Uncounted(x)
        BY <2>1, <3>4 DEF GraceMatch
      <4>2. CASE x = n
        <5>1. /\ row[n].grace \in Nat /\ Uncounted(n) \in Nat
              /\ cache'[n].grace = row[n].grace - Uncounted(n)
          BY <1>2, <2>1, <4>1, <4>2
        <5> QED
          BY <3>2, <3>3, <4>2, <5>1
      <4>3. CASE x # n
        BY <2>1, <2>6, <4>1, <4>3
      <4> QED
        BY <4>2, <4>3
    <3> QED
      BY <3>4 DEF GraceMatch
  <2> QED
    BY <2>7, <2>8
<1>7. ASSUME NEW n \in Name, NEW r \in Role, Sets(n, r)
      PROVE  GraceMatch'
  <2>1. /\ row'[n].gen = gen + 1 /\ row'[n].grace = Grace /\ cache'[n].grace = Grace
        /\ \A m \in Name \ {n} : row'[m] = row[m] /\ cache'[m] = cache[m]
        /\ queue' = queue
    BY <1>7 DEF Sets
  <2>2. overtaken \subseteq overtaken'
    BY <1>7 DEF Sets
  <2>3. Uncounted(n)' = 0
    <3>1. gen + 1 \in Nat /\ gen + 1 > gen
      BY <1>1
    <3> QED
      BY <1>1, <2>1, <3>1, NothingUncounted DEF Uncounted
  <2>4. cache'[n].grace = row'[n].grace - Uncounted(n)'
    BY <2>1, <2>3, RoleStateAssumption
  <2> QED
    BY <1>3, <2>1, <2>2, <2>4 DEF GraceMatch
<1>8. ASSUME NEW m \in Name, NEW n \in Name, Moves(m, n)
      PROVE  GraceMatch'
  <2>1. /\ row'[n] = row[m] /\ row'[m].of = NoRole /\ m # n
        /\ cache'[n].grace = row[m].grace
        /\ \A x \in Name \ {m, n} : row'[x] = row[x] /\ cache'[x] = cache[x]
        /\ queue' = queue
    BY <1>1, <1>8, RowFields, CacheOfFields, NoStateFields DEF Moves
  <2>2. overtaken \subseteq overtaken'
    BY <1>8 DEF Moves
  <2>3. ASSUME row[m].of \notin {NoRole} \cup overtaken'
        PROVE  ~InFlight(n)
    <3>1. row[m].of = catalog[m]
      BY <2>2, <2>3 DEF FollowInv, Follows
    <3> QED
      BY <1>8, <2>3, <3>1 DEF Moves
  <2>4. row'[n].of \notin {NoRole} \cup overtaken' =>
           cache'[n].grace = row'[n].grace - Uncounted(n)'
    <3> SUFFICES ASSUME row'[n].of \notin {NoRole} \cup overtaken'
                 PROVE  cache'[n].grace = row'[n].grace - Uncounted(n)'
      OBVIOUS
    <3>1. Uncounted(n)' = 0
      BY <1>1, <1>2, <2>1, <2>3, NothingUncounted DEF Uncounted
    <3> QED
      BY <1>2, <2>1, <3>1
  <2> QED
    BY <1>3, <2>1, <2>2, <2>4 DEF GraceMatch
<1>9. ASSUME NEW n \in Name, Removes(n)
      PROVE  GraceMatch'
  <2>1. /\ row'[n].of = NoRole /\ queue' = queue
        /\ \A x \in Name \ {n} : row'[x] = row[x] /\ cache'[x] = cache[x]
    BY <1>9, NoStateFields DEF Removes
  <2>2. overtaken \subseteq overtaken'
    BY <1>9 DEF Removes
  <2> QED
    BY <1>3, <2>1, <2>2 DEF GraceMatch
<1> QED
  BY Cases, <1>4, <1>5, <1>6, <1>7, <1>8, <1>9
     DEF Records, SetsPassword, MovesState, RemovesState

\* A role that was not overtaken has its own failed logins and its own allowance.
LEMMA KeepStep ==
    ASSUME TypeInv, NamesInv, FollowInv, GraceMatch, EventsInv, RoleKeepsState, [Next]_vars
    PROVE  RoleKeepsState'
<1>1. TypeOK /\ catalog \in [Name -> Role \cup {NoRole}] /\ own \in [Role -> Own]
  BY DEF TypeInv, TypeOK, Own
<1>2. \A x \in Name : /\ row[x].grace \in Nat /\ cache[x].grace \in Nat
                      /\ catalog[x] # NoRole => catalog[x] \in Role
  BY <1>1, RowFields, NoRoleNotRole
<1>3. \A q \in Role : own[q].grace \in Nat
  BY <1>1, RoleStateAssumption DEF Own
<1> DEFINE Kept(x) == /\ row[x].fails = own[catalog[x]].fails
                      /\ cache[x].grace = own[catalog[x]].grace
<1>4. \A x \in Name : catalog[x] \notin {NoRole} \cup overtaken => Kept(x)
  BY DEF RoleKeepsState
<1>5. CASE Quiet \/ SeesLogin \/ HookRecordsNothing
  <2>1. UNCHANGED <<cache, row, own, catalog, overtaken>>
    BY <1>5, StillCaches
  <2> QED
    BY <2>1 DEF RoleKeepsState
<1>6. ASSUME NEW k \in EventKind, NEW f \in EventFlags, Hook(k, f)
      PROVE  RoleKeepsState'
  <2>1. PICK n \in Name, r \in Role \cup {NoRole} :
           client # <<>> /\ n = client[1][1] /\ r = client[1][2]
    BY <1>1, <1>6, HookFields, ClientFields
  <2>2. UNCHANGED <<row, catalog, overtaken>>
    BY <1>1, <1>6, HookFields
  <2>3. CASE k # "grace"
    <3>1. UNCHANGED <<cache, own>>
      BY <1>1, <1>6, <2>3, HookFields
    <3> QED
      BY <2>2, <3>1 DEF RoleKeepsState
  <2>4. CASE k = "grace"
    <3>1. /\ r \in Role /\ cache[n].grace > 0
          /\ cache'[n] = [cache[n] EXCEPT !.grace = cache[n].grace - 1]
          /\ own'[r].grace = IF own[r].grace > 0 THEN own[r].grace - 1 ELSE 0
          /\ own'[r].fails = own[r].fails
          /\ \A m \in Name \ {n} : cache'[m] = cache[m]
          /\ \A q \in Role \ {r} : own'[q] = own[q]
      BY <1>1, <1>6, <2>1, <2>4, HookFields
    <3>2. cache'[n].grace = cache[n].grace - 1
      BY <1>1, <3>1, RowFields DEF Entry
    <3>3. Theirs(n, r)
      <4>1. <<n, r>> \in Incoming
        BY <2>1 DEF Incoming
      <4> QED
        BY <4>1 DEF EventsInv
    <3>4. ASSUME NEW x \in Name, catalog[x] \notin {NoRole} \cup overtaken
          PROVE  /\ row[x].fails = own'[catalog[x]].fails
                 /\ cache'[x].grace = own'[catalog[x]].grace
      <4>1. Kept(x) /\ catalog[x] \in Role
        BY <1>2, <1>4, <3>4
      <4>2. CASE x = n
        <5>1. r = catalog[x]
          BY <3>3, <3>4, <4>2 DEF Theirs
        <5> QED
          BY <1>2, <1>3, <3>1, <3>2, <4>1, <4>2, <5>1
      <4>3. CASE x # n
        <5>1. r # catalog[x]
          BY <3>3, <3>4, <4>3 DEF Theirs
        <5> QED
          BY <3>1, <4>1, <4>3, <5>1
      <4> QED
        BY <4>2, <4>3
    <3> QED
      BY <2>2, <3>4 DEF RoleKeepsState
  <2> QED
    BY <2>3, <2>4
<1>7. CASE CommitEvent
  <2>1. PICK e \in Event, n \in Name : queue # <<>> /\ e = queue[1] /\ n = e.name
    BY <1>1, <1>7, CommitEventFields, QueueFields
  <2>2. /\ UNCHANGED <<catalog, overtaken>>
        /\ row'[n].fails = FailsAfter(row[n].fails, e)
        /\ cache'[n].grace = cache[n].grace
        /\ \A m \in Name \ {n} : row'[m] = row[m] /\ cache'[m] = cache[m]
        /\ \A q \in Role : /\ own'[q].grace = own[q].grace
                           /\ own'[q].fails = IF q = e.role
                                              THEN FailsAfter(own[q].fails, e)
                                              ELSE own[q].fails
    BY <1>7, <2>1, CommitEventFields
  <2>3. Theirs(n, e.role)
    <3>1. <<n, e.role>> \in Incoming
      BY <1>1, <2>1, QueueFields DEF Incoming
    <3> QED
      BY <3>1 DEF EventsInv
  <2>4. ASSUME NEW x \in Name, catalog[x] \notin {NoRole} \cup overtaken
        PROVE  /\ row'[x].fails = own'[catalog[x]].fails
               /\ cache'[x].grace = own'[catalog[x]].grace
    <3>1. Kept(x) /\ catalog[x] \in Role
      BY <1>2, <1>4, <2>4
    <3>2. CASE x = n
      <4>1. e.role = catalog[x]
        BY <2>3, <2>4, <3>2 DEF Theirs
      <4> QED
        BY <2>2, <3>1, <3>2, <4>1
    <3>3. CASE x # n
      <4>1. e.role # catalog[x]
        BY <2>3, <2>4, <3>3 DEF Theirs
      <4> QED
        BY <2>2, <3>1, <3>3, <4>1
    <3> QED
      BY <3>2, <3>3
  <2> QED
    BY <2>2, <2>4 DEF RoleKeepsState
<1>8. ASSUME NEW n \in Name, NEW r \in Role, Sets(n, r)
      PROVE  RoleKeepsState'
  <2>1. /\ catalog'[n] = r /\ row'[n].fails = row[n].fails /\ cache'[n].grace = Grace
        /\ own'[r].grace = Grace /\ own'[r].fails = own[r].fails
        /\ \A m \in Name \ {n} : catalog'[m] = catalog[m] /\ row'[m] = row[m] /\ cache'[m] = cache[m]
        /\ \A q \in Role \ {r} : own'[q] = own[q]
    BY <1>8 DEF Sets
  <2>2. overtaken \subseteq overtaken'
    BY <1>8 DEF Sets
  <2>3. r \notin overtaken' => row[n].fails = own[r].fails
    <3>1. CASE catalog[n] = r
      BY <1>4, <2>2, <3>1, NoRoleNotRole
    <3>2. CASE /\ r = roles + 1
               /\ overtaken' = overtaken \cup (IF InFlight(n) \/ row[n].fails > 0 THEN {r} ELSE {})
      <4>1. own[r].fails = 0
        BY <1>1, <3>2, NoRoleNotRole DEF NamesInv, TypeOK
      <4>2. row[n].fails \in Nat
        BY <1>1, RowFields
      <4> QED
        BY <3>2, <4>1, <4>2
    <3> QED
      BY <1>8, <3>1, <3>2 DEF Sets
  <2>4. \A m \in Name \ {n} : catalog[m] # r
    <3>1. CASE catalog[n] = r
      BY <3>1, NoRoleNotRole DEF NamesInv
    <3>2. CASE r = roles + 1
      <4>1. \A m \in Name : catalog[m] <= roles /\ catalog[m] \in Nat
        BY <1>1, NoRoleNotRole DEF NamesInv
      <4> QED
        BY <1>1, <3>2, <4>1, NoRoleNotRole DEF TypeOK
    <3> QED
      BY <1>8, <3>1, <3>2 DEF Sets
  <2>5. ASSUME NEW x \in Name, catalog'[x] \notin {NoRole} \cup overtaken'
        PROVE  /\ row'[x].fails = own'[catalog'[x]].fails
               /\ cache'[x].grace = own'[catalog'[x]].grace
    <3>1. CASE x = n
      BY <2>1, <2>3, <2>5, <3>1
    <3>2. CASE x # n
      <4>1. Kept(x) /\ catalog[x] \in Role \ {r} /\ catalog'[x] = catalog[x]
        BY <1>2, <1>4, <2>1, <2>2, <2>4, <2>5, <3>2
      <4> QED
        BY <2>1, <3>2, <4>1
    <3> QED
      BY <3>1, <3>2
  <2> QED
    BY <2>5 DEF RoleKeepsState
<1>9. ASSUME NEW m \in Name, NEW n \in Name, Moves(m, n)
      PROVE  RoleKeepsState'
  <2>1. /\ row'[n] = row[m] /\ cache'[n].grace = row[m].grace /\ own' = own /\ m # n
        /\ \A x \in Name \ {m, n} : row'[x] = row[x] /\ cache'[x] = cache[x]
    BY <1>1, <1>9, RowFields, CacheOfFields DEF Moves
  <2>2. overtaken \subseteq overtaken'
    BY <1>9 DEF Moves
  <2>3. CASE /\ catalog' = catalog
             /\ overtaken' = overtaken \cup ({catalog[x] : x \in {m, n}} \ {NoRole})
    <3>1. catalog[m] \in overtaken' \cup {NoRole} /\ catalog[n] \in overtaken' \cup {NoRole}
      BY <2>3
    <3> QED
      BY <1>4, <2>1, <2>2, <2>3, <3>1 DEF RoleKeepsState
  <2>4. CASE /\ catalog'[n] = catalog[m] /\ catalog'[m] = NoRole
             /\ \A x \in Name \ {m, n} : catalog'[x] = catalog[x]
             /\ overtaken' = overtaken \cup (IF InFlight(m) \/ InFlight(n) THEN {catalog[m]} ELSE {})
    <3>1. ASSUME catalog[m] \notin {NoRole} \cup overtaken'
          PROVE  row[m].fails = own[catalog[m]].fails /\ row[m].grace = own[catalog[m]].grace
      <4>1. Kept(m) /\ ~InFlight(m)
        BY <1>4, <2>2, <2>4, <3>1
      <4>2. row[m].of = catalog[m]
        BY <2>2, <3>1 DEF FollowInv, Follows
      <4>3. Uncounted(m) = 0
        BY <1>1, <4>1, RowFields, NothingUncounted DEF Uncounted
      <4>4. cache[m].grace = row[m].grace
        BY <1>2, <2>2, <3>1, <4>2, <4>3 DEF GraceMatch
      <4> QED
        BY <4>1, <4>4
    <3>2. ASSUME NEW x \in Name, catalog'[x] \notin {NoRole} \cup overtaken'
          PROVE  /\ row'[x].fails = own'[catalog'[x]].fails
                 /\ cache'[x].grace = own'[catalog'[x]].grace
      <4>1. CASE x = n
        BY <2>1, <2>4, <3>1, <3>2, <4>1
      <4>2. CASE x = m
        BY <2>4, <3>2, <4>2
      <4>3. CASE x \notin {m, n}
        BY <1>4, <2>1, <2>2, <2>4, <3>2, <4>3
      <4> QED
        BY <4>1, <4>2, <4>3
    <3> QED
      BY <3>2 DEF RoleKeepsState
  <2> QED
    BY <1>9, <2>3, <2>4 DEF Moves
<1>10. ASSUME NEW n \in Name, Removes(n)
       PROVE  RoleKeepsState'
  <2>1. /\ own' = own
        /\ \A x \in Name \ {n} : row'[x] = row[x] /\ cache'[x] = cache[x]
    BY <1>10 DEF Removes
  <2>2. /\ overtaken \subseteq overtaken' /\ catalog'[n] \in overtaken' \cup {NoRole}
        /\ \A x \in Name \ {n} : catalog'[x] = catalog[x]
    BY <1>10 DEF Removes
  <2> QED
    BY <1>4, <2>1, <2>2 DEF RoleKeepsState
<1> QED
  BY Cases, <1>5, <1>6, <1>7, <1>8, <1>9, <1>10
     DEF Records, SetsPassword, MovesState, RemovesState

\* One role, with its state, and no event.
LEMMA DataInit == Init => DataInv
<1> SUFFICES ASSUME Init PROVE DataInv
  OBVIOUS
<1>1. TypeOK /\ queue = <<>> /\ client = <<>> /\ roles = 1 /\ gen = 1 /\ 1 \in Role
  BY TypeInvInit, RoleStateAssumption DEF TypeInv, Init, Role
<1> DEFINE first == [fails |-> 0, gen |-> 1, grace |-> Grace, of |-> 1, past |-> 1]
<1>2. \A n \in Name : /\ catalog[n] = IF n = 1 THEN 1 ELSE NoRole
                      /\ row[n] = IF n = 1 THEN first ELSE NoState
                      /\ cache[n] = CacheOf(row[n]) /\ row[n] \in Row
  BY <1>1 DEF Init, TypeOK
<1>3. /\ \A r \in Role : own[r].fails = 0 /\ own[r].grace = Grace
      /\ first.of = 1 /\ first.past = 1 /\ first.fails = 0 /\ first.gen = 1
      /\ first.grace = Grace
  BY DEF Init
<1> HIDE DEF first
<1>4. NamesInv
  BY <1>1, <1>2, <1>3 DEF NamesInv, NoRole
<1>5. FollowInv
  BY <1>2, <1>3, NoStateFields DEF FollowInv, Follows
<1>6. GenInv
  BY <1>1, <1>2, <1>3, NoStateFields DEF GenInv
<1>7. EventsInv
  BY <1>1 DEF EventsInv, Incoming
<1>8. LockedMatch
  BY <1>2, CacheOfFields, Zenon DEF LockedMatch
<1>9. GenMatch
  BY <1>2, CacheOfFields DEF GenMatch
<1>10. GraceMatch
  <2>1. \A n \in Name : Uncounted(n) = 0 /\ cache[n].grace = row[n].grace /\ row[n].grace \in Nat
    BY <1>1, <1>2, CacheOfFields, RowFields, NothingUncounted DEF InFlight, Uncounted
  <2> QED
    BY <2>1 DEF GraceMatch
<1>11. RoleKeepsState
  BY <1>1, <1>2, <1>3, CacheOfFields DEF RoleKeepsState
<1> QED
  BY <1>1, <1>4, <1>5, <1>6, <1>7, <1>8, <1>9, <1>10, <1>11, CachesMatchIs DEF DataInv

\* The invariant that carries the three properties of the data.
StateInv ==
    /\ TypeInv /\ NamesInv /\ FollowInv /\ GenInv /\ EventsInv
    /\ LockedMatch /\ GenMatch /\ GraceMatch /\ RoleKeepsState

\* The names, the rows, the caches and the events fit together after every step of
\* the logins, the worker and the administrators.
THEOREM StateInductive == Spec => []StateInv
<1>1. Init => StateInv
  BY DataInit, TypeInvInit, CachesMatchIs DEF StateInv, DataInv, TypeInv
<1>2. ASSUME StateInv, [Next]_vars
      PROVE  StateInv'
  <2>1. TypeInv' /\ NamesInv' /\ FollowInv' /\ EventsInv'
    BY <1>2, TypeInvStep, NamesStep, FollowStep, EventsStep DEF StateInv
  <2>2. GenInv' /\ GenMatch' /\ LockedMatch'
    BY <1>2, GenStep, LockedStep DEF StateInv
  <2>3. GraceMatch' /\ RoleKeepsState'
    BY <1>2, GraceStep, KeepStep DEF StateInv
  <2> QED
    BY <2>1, <2>2, <2>3 DEF StateInv
<1> QED
  BY <1>1, <1>2, PTL DEF Spec

\* The history and the expiry under a name are those of the role that has it, and a
\* free name has none, whatever is renamed, dropped or changed at the same time,
\* except for roles whose state was moved or removed outside their renaming or drop.
THEOREM StateFollowsRoleThm == Spec => []StateFollowsRole
<1>1. StateInv => StateFollowsRole
  <2> SUFFICES ASSUME FollowInv PROVE StateFollowsRole
    BY DEF StateInv
  <2> QED
    BY DEF FollowInv, Follows, StateFollowsRole
<1> QED
  BY <1>1, StateInductive, PTL

\* Both caches describe the rows after every commit: rename_role_state,
\* remove_role_state, password changes and the worker's events stage what they
\* change, and what the cache has less than the row is what is still in the queue.
THEOREM CachesMatchRowsThm == Spec => []CachesMatchRows
<1>1. StateInv => CachesMatchRows
  BY CachesMatchIs DEF StateInv, TypeInv
<1> QED
  BY <1>1, StateInductive, PTL

\* A role keeps its failed logins and its allowance through renames, as if they were
\* kept by role and not by name.
THEOREM RoleKeepsStateThm == Spec => []RoleKeepsState
<1>1. StateInv => RoleKeepsState
  BY DEF StateInv
<1> QED
  BY <1>1, StateInductive, PTL

=============================================================================
