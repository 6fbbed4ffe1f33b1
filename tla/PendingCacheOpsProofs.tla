----------------------- MODULE PendingCacheOpsProofs -----------------------
(***************************************************************************)
(* Proofs about PendingCacheOps, for any users, values, room for entries   *)
(* and number of subtransactions.                                          *)
(***************************************************************************)
EXTENDS PendingCacheOps, FiniteSetTheorems, SequenceTheorems, WellFoundedInduction, TLAPS

----------------------------------------------------------------------------
(* Indices of a list. *)

\* A bounded set of indices has a greatest one.
LEMMA MaxIs ==
    ASSUME NEW n \in Nat, NEW S \in SUBSET (1 .. n), S # {}
    PROVE  Max(S) \in S /\ \A i \in S : i <= Max(S)
<1> DEFINE T == {m \in Nat : \E i \in S : m = n - i}
<1>1. T \subseteq Nat /\ T # {}
  <2>1. PICK i \in S : TRUE
    OBVIOUS
  <2>2. n - i \in Nat
    BY <2>1
  <2> QED
    BY <2>2
<1>2. PICK m \in T : \A k \in T : ~(<<k, m>> \in OpToRel(<, Nat))
  <2> HIDE DEF T
  <2> QED
    BY <1>1, WFMin, NatLessThanWellFounded
<1>3. \A k \in T : ~(k < m)
  BY <1>1, <1>2 DEF OpToRel
<1>4. PICK i \in S : m = n - i
  BY <1>2
<1>5. \A j \in S : j <= i
  <2> TAKE j \in S
  <2>1. n - j \in T
    OBVIOUS
  <2> QED
    BY <1>3, <1>4, <2>1
<1>6. \E x \in S : \A y \in S : x >= y
  BY <1>5
<1>7. Max(S) \in S /\ \A y \in S : Max(S) >= y
  BY <1>6 DEF Max
<1> QED
  BY <1>7

\* The number of kept indices up to one of them numbers the kept indices in order.
LEMMA RankIs ==
    ASSUME NEW n \in Nat, NEW kept \in SUBSET (1 .. n)
    PROVE  LET Rank(i) == Cardinality({j \in kept : j <= i})
           IN  /\ IsFiniteSet(kept) /\ Cardinality(kept) \in Nat /\ Cardinality(kept) <= n
               /\ \A i \in kept : Rank(i) \in 1 .. Cardinality(kept)
               /\ \A i, j \in kept : i < j => Rank(i) < Rank(j)
               /\ \A m \in 1 .. Cardinality(kept) : \E i \in kept : Rank(i) = m
<1> DEFINE Upto(i) == {j \in kept : j <= i}
           Rank(i) == Cardinality(Upto(i))
<1>1. IsFiniteSet(1 .. n) /\ Cardinality(1 .. n) = n
  BY FS_Interval
<1>2. IsFiniteSet(kept) /\ Cardinality(kept) \in Nat /\ Cardinality(kept) <= n
  BY <1>1, FS_Subset, FS_CardinalityType
<1>3. ASSUME NEW i \in kept
      PROVE  IsFiniteSet(Upto(i)) /\ Rank(i) \in Nat /\ Rank(i) <= Cardinality(kept)
  <2>1. Upto(i) \in SUBSET kept
    OBVIOUS
  <2> QED
    BY <1>2, <2>1, FS_Subset, FS_CardinalityType
<1>4. ASSUME NEW i \in kept PROVE Rank(i) # 0
  <2>1. i \in Upto(i)
    OBVIOUS
  <2> QED
    BY <1>3, <2>1, FS_EmptySet
<1>5. ASSUME NEW i \in kept, NEW j \in kept, i < j
      PROVE  Rank(i) < Rank(j)
  <2>1. Upto(i) \in SUBSET Upto(j) /\ j \in Upto(j) /\ j \notin Upto(i)
    <3>1. \A k \in kept : k \in Nat
      OBVIOUS
    <3>2. \A k \in kept : k <= i => k <= j
      BY <1>5, <3>1
    <3>3. ~(j <= i)
      BY <1>5, <3>1
    <3>4. \A k \in Upto(i) : k \in Upto(j)
      BY <3>2
    <3>5. j \in Upto(j)
      BY <3>1
    <3> QED
      BY <3>3, <3>4, <3>5
  <2>2. Rank(i) <= Rank(j) /\ Rank(i) # Rank(j)
    BY <1>3, <2>1, FS_Subset
  <2> QED
    BY <1>3, <2>2
<1>6. ASSUME NEW m \in 1 .. Cardinality(kept)
      PROVE  \E i \in kept : Rank(i) = m
  <2> DEFINE f == [i \in kept |-> Rank(i)]
             N == Cardinality(kept)
  <2>0. \A i \in kept : Rank(i) \in 1 .. N
    BY <1>2, <1>3, <1>4
  <2>1. f \in [kept -> 1 .. N] /\ \A i, j \in kept : f[i] = f[j] => i = j
    <3>1. \A i, j \in kept : i < j => Rank(i) # Rank(j)
      BY <1>3, <1>5
    <3>2. \A i, j \in kept : i # j => i < j \/ j < i
      OBVIOUS
    <3> HIDE DEF Rank
    <3> QED
      BY <2>0, <3>1, <3>2
  <2>2. f \in Injection(kept, 1 .. N)
    BY <2>1 DEF Injection, IsInjective
  <2>3. IsFiniteSet(1 .. N) /\ Cardinality(1 .. N) = N
    BY <1>2, FS_Interval
  <2>4. f \in Surjection(kept, 1 .. N)
    BY <2>2, <2>3, FS_Injection
  <2>5. \E i \in kept : f[i] = m
    BY <2>4 DEF Surjection
  <2> QED
    BY <2>5
<1> QED
  BY <1>2, <1>3, <1>4, <1>5, <1>6

\* A retained list has the kept entries, in their order.
Keeps(list, kept, r, pos) ==
    /\ pos \in [1 .. Len(r) -> kept]
    /\ \A m, n \in 1 .. Len(r) : m < n => pos[m] < pos[n]
    /\ \A i \in kept : \E n \in 1 .. Len(r) : pos[n] = i
    /\ \A n \in 1 .. Len(r) : r[n] = list[pos[n]]

LEMMA RetainedIs ==
    ASSUME NEW E, NEW list \in Seq(E), NEW kept \in SUBSET (1 .. Len(list))
    PROVE  /\ Retained(list, kept) \in Seq(E) /\ Len(Retained(list, kept)) <= Len(list)
           /\ \E pos : Keeps(list, kept, Retained(list, kept), pos)
<1> DEFINE Rank(i) == Cardinality({j \in kept : j <= i})
           N == Cardinality(kept)
           pos == [n \in 1 .. N |-> CHOOSE i \in kept : Rank(i) = n]
           r == Retained(list, kept)
<1>0. Len(list) \in Nat /\ kept \subseteq Nat
  OBVIOUS
<1>1. /\ N \in Nat /\ N <= Len(list)
      /\ \A i \in kept : Rank(i) \in 1 .. N
      /\ \A i, j \in kept : i < j => Rank(i) < Rank(j)
      /\ \A m \in 1 .. N : \E i \in kept : Rank(i) = m
  BY <1>0, RankIs
<1>2. r = [n \in 1 .. N |-> list[pos[n]]]
  BY DEF Retained
<1> HIDE DEF Rank, N
<1>3. \A n \in 1 .. N : pos[n] \in kept /\ Rank(pos[n]) = n
  BY <1>1
<1>4. \A n \in 1 .. N : list[pos[n]] \in E
  <2> HIDE DEF pos
  <2>1. \A n \in 1 .. N : pos[n] \in 1 .. Len(list)
    BY <1>3
  <2> QED
    BY <2>1
<1>5. r \in Seq(E) /\ Len(r) = N /\ \A n \in 1 .. N : r[n] = list[pos[n]]
  <2> DEFINE at == [n \in 1 .. N |-> list[pos[n]]]
  <2> HIDE DEF pos, r
  <2>1. N \in Nat /\ \A n \in 1 .. N : at[n] \in E /\ at[n] = list[pos[n]]
    BY <1>1, <1>4
  <2>2. DOMAIN at = 1 .. N /\ at = [n \in 1 .. N |-> at[n]] /\ r = at
    BY <1>2
  <2> HIDE DEF at
  <2>3. at \in Seq(E) /\ Len(at) = N
    BY <2>1, <2>2
  <2> QED
    BY <2>1, <2>2, <2>3
<1>6. ASSUME NEW m \in 1 .. N, NEW n \in 1 .. N, m < n
      PROVE  pos[m] < pos[n]
  <2> HIDE DEF pos
  <2>1. pos[m] \in Nat /\ pos[n] \in Nat
    BY <1>0, <1>3
  <2>2. Rank(pos[m]) = m /\ Rank(pos[n]) = n /\ m \in Nat /\ n \in Nat
    BY <1>1, <1>3
  <2>3. pos[n] < pos[m] => Rank(pos[n]) < Rank(pos[m])
    BY <1>1, <1>3
  <2>4. ~(pos[n] < pos[m]) /\ pos[n] # pos[m]
    BY <1>6, <2>2, <2>3
  <2> QED
    BY <2>1, <2>4
<1>7. ASSUME NEW i \in kept PROVE \E n \in 1 .. N : pos[n] = i
  <2> HIDE DEF pos
  <2>1. Rank(i) \in 1 .. N
    BY <1>1
  <2>2. pos[Rank(i)] \in kept /\ Rank(pos[Rank(i)]) = Rank(i)
    BY <1>3, <2>1
  <2>3. pos[Rank(i)] \in Nat /\ i \in Nat
    BY <1>0, <2>2
  <2>4. ~(pos[Rank(i)] < i) /\ ~(i < pos[Rank(i)])
    <3>1. pos[Rank(i)] < i => Rank(pos[Rank(i)]) < Rank(i)
      BY <1>1, <2>2
    <3>2. i < pos[Rank(i)] => Rank(i) < Rank(pos[Rank(i)])
      BY <1>1, <2>2
    <3>3. Rank(i) \in Nat
      BY <1>1, <2>1
    <3> QED
      BY <2>2, <3>1, <3>2, <3>3
  <2>5. pos[Rank(i)] = i
    BY <2>3, <2>4
  <2> QED
    BY <2>1, <2>5
<1>8. pos \in [1 .. N -> kept]
  BY <1>3
<1>9. Keeps(list, kept, r, pos)
  <2> HIDE DEF pos, r
  <2> QED
    BY <1>5, <1>6, <1>7, <1>8 DEF Keeps
<1> QED
  BY <1>1, <1>5, <1>9

----------------------------------------------------------------------------
(* What applying a list does: for each user and cache the latest entry wins. *)

LockAt(list, s, u) == {i \in s : list[i].user = u /\ list[i].lock # Untouched}
ExpiryAt(list, s, u) == {i \in s : list[i].user = u /\ list[i].expiry # Untouched}

\* The entries of the list at the indices in `s`, applied to c.
Resolved(c, list, s) ==
    [lock |-> [u \in User |-> IF LockAt(list, s, u) = {} THEN c.lock[u]
                              ELSE list[Max(LockAt(list, s, u))].lock],
     expiry |-> [u \in User |-> IF ExpiryAt(list, s, u) = {} THEN c.expiry[u]
                                ELSE list[Max(ExpiryAt(list, s, u))].expiry],
     events |-> c.events]

LEMMA ViewIs ==
    ASSUME NEW v, NEW w, v \in View, w \in View, v.events = w.events,
           \A u \in User : v.lock[u] = w.lock[u] /\ v.expiry[u] = w.expiry[u]
    PROVE  v = w
<1>1. v.lock = w.lock
  BY DEF View
<1>2. v.expiry = w.expiry
  BY DEF View
<1> QED
  BY <1>1, <1>2 DEF View

LEMMA ListFields ==
    ASSUME NEW list \in Seq(Entry), NEW i \in 1 .. Len(list)
    PROVE  /\ list[i] \in Entry /\ list[i].user \in User /\ list[i].subid \in Subid
           /\ list[i].lock \in Decision /\ list[i].expiry \in Decision
           /\ list[i].lock # Untouched => list[i].lock \in Row
           /\ list[i].expiry # Untouched => list[i].expiry \in Row
<1>1. list[i] \in Entry
  OBVIOUS
<1> QED
  BY <1>1 DEF Entry, Decision

LEMMA ApplyEntryFields ==
    ASSUME NEW c \in View, NEW e \in Entry
    PROVE  LET a == ApplyEntry(c, e)
           IN  /\ a \in View /\ a.events = c.events
               /\ \A u \in User :
                     /\ a.lock[u] = IF u = e.user /\ e.lock # Untouched THEN e.lock ELSE c.lock[u]
                     /\ a.expiry[u] = IF u = e.user /\ e.expiry # Untouched THEN e.expiry
                                      ELSE c.expiry[u]
<1>1. /\ c.lock \in [User -> Row] /\ c.expiry \in [User -> Row] /\ e.user \in User
      /\ e.lock \in Row \cup {Untouched} /\ e.expiry \in Row \cup {Untouched}
      /\ c = [lock |-> c.lock, expiry |-> c.expiry, events |-> c.events]
      /\ c.events \in {0, 1}
  BY DEF View, Entry, Decision
<1> DEFINE lock == [c.lock EXCEPT ![e.user] = IF e.lock = Untouched THEN @ ELSE e.lock]
           expiry == [c.expiry EXCEPT ![e.user] = IF e.expiry = Untouched THEN @ ELSE e.expiry]
<1>2. ApplyEntry(c, e) = [lock |-> lock, expiry |-> expiry, events |-> c.events]
  <2>1. ApplyEntry(c, e) = [[c EXCEPT !.lock = lock] EXCEPT !.expiry = expiry]
    BY <1>1 DEF ApplyEntry
  <2> HIDE DEF lock, expiry
  <2> QED
    BY <1>1, <2>1
<1>3. lock \in [User -> Row] /\ expiry \in [User -> Row]
  BY <1>1
<1>4. \A u \in User :
         /\ lock[u] = IF u = e.user /\ e.lock # Untouched THEN e.lock ELSE c.lock[u]
         /\ expiry[u] = IF u = e.user /\ e.expiry # Untouched THEN e.expiry ELSE c.expiry[u]
  BY <1>1
<1> HIDE DEF lock, expiry
<1> QED
  BY <1>1, <1>2, <1>3, <1>4 DEF View

LEMMA ResolvedType ==
    ASSUME NEW c \in View, NEW list \in Seq(Entry), NEW s \in SUBSET (1 .. Len(list))
    PROVE  Resolved(c, list, s) \in View
<1>1. Len(list) \in Nat
  OBVIOUS
<1>2. ASSUME NEW u \in User
      PROVE  /\ LockAt(list, s, u) # {} => list[Max(LockAt(list, s, u))].lock \in Row
             /\ ExpiryAt(list, s, u) # {} => list[Max(ExpiryAt(list, s, u))].expiry \in Row
  <2>1. LockAt(list, s, u) # {} => Max(LockAt(list, s, u)) \in LockAt(list, s, u)
    BY <1>1, MaxIs DEF LockAt
  <2>2. ExpiryAt(list, s, u) # {} => Max(ExpiryAt(list, s, u)) \in ExpiryAt(list, s, u)
    BY <1>1, MaxIs DEF ExpiryAt
  <2> QED
    BY <2>1, <2>2, ListFields DEF LockAt, ExpiryAt
<1>3. /\ \A u \in User : c.lock[u] \in Row /\ c.expiry[u] \in Row
      /\ c.events \in {0, 1}
  BY DEF View
<1> QED
  BY <1>2, <1>3 DEF Resolved, View

\* The greatest index of a set comes last.
LEMMA ResolvedNext ==
    ASSUME NEW c \in View, NEW list \in Seq(Entry), NEW s \in SUBSET (1 .. Len(list)), s # {}
    PROVE  /\ Max(s) \in s
           /\ Resolved(c, list, s) = ApplyEntry(Resolved(c, list, s \ {Max(s)}), list[Max(s)])
<1> DEFINE m == Max(s)
           before == Resolved(c, list, s \ {m})
           after == Resolved(c, list, s)
<1>0. Len(list) \in Nat /\ \A i \in s : i \in Nat
  OBVIOUS
<1>1. m \in s /\ \A i \in s : i <= m
  BY <1>0, MaxIs
<1>2. list[m] \in Entry
  <2> HIDE DEF m
  <2>1. m \in 1 .. Len(list)
    BY <1>1
  <2> QED
    BY <2>1
<1>3. before \in View /\ after \in View
  BY ResolvedType
<1> HIDE DEF m
<1>4. ASSUME NEW u \in User
      PROVE  after.lock[u] = IF u = list[m].user /\ list[m].lock # Untouched THEN list[m].lock
                             ELSE before.lock[u]
  <2> DEFINE t == LockAt(list, s, u)
  <2>1. CASE u = list[m].user /\ list[m].lock # Untouched
    <3>1. t \in SUBSET (1 .. Len(list)) /\ m \in t
      BY <1>1, <2>1 DEF LockAt
    <3>2. Max(t) \in t /\ m <= Max(t)
      BY <1>0, <3>1, MaxIs
    <3>3. Max(t) \in s
      BY <3>2 DEF LockAt
    <3>4. Max(t) = m
      <4>1. Max(t) <= m
        BY <1>1, <3>3
      <4>2. Max(t) \in Nat /\ m \in Nat
        BY <1>0, <1>1, <3>3
      <4> QED
        BY <3>2, <4>1, <4>2
    <3>5. after.lock[u] = list[Max(t)].lock
      BY <3>1 DEF Resolved
    <3> QED
      BY <2>1, <3>4, <3>5
  <2>2. CASE ~(u = list[m].user /\ list[m].lock # Untouched)
    <3>1. LockAt(list, s \ {m}, u) = t
      BY <2>2 DEF LockAt
    <3> QED
      BY <2>2, <3>1 DEF Resolved
  <2> QED
    BY <2>1, <2>2
<1>5. ASSUME NEW u \in User
      PROVE  after.expiry[u] = IF u = list[m].user /\ list[m].expiry # Untouched
                               THEN list[m].expiry ELSE before.expiry[u]
  <2> DEFINE t == ExpiryAt(list, s, u)
  <2>1. CASE u = list[m].user /\ list[m].expiry # Untouched
    <3>1. t \in SUBSET (1 .. Len(list)) /\ m \in t
      BY <1>1, <2>1 DEF ExpiryAt
    <3>2. Max(t) \in t /\ m <= Max(t)
      BY <1>0, <3>1, MaxIs
    <3>3. Max(t) \in s
      BY <3>2 DEF ExpiryAt
    <3>4. Max(t) = m
      <4>1. Max(t) <= m
        BY <1>1, <3>3
      <4>2. Max(t) \in Nat /\ m \in Nat
        BY <1>0, <1>1, <3>3
      <4> QED
        BY <3>2, <4>1, <4>2
    <3>5. after.expiry[u] = list[Max(t)].expiry
      BY <3>1 DEF Resolved
    <3> QED
      BY <2>1, <3>4, <3>5
  <2>2. CASE ~(u = list[m].user /\ list[m].expiry # Untouched)
    <3>1. ExpiryAt(list, s \ {m}, u) = t
      BY <2>2 DEF ExpiryAt
    <3> QED
      BY <2>2, <3>1 DEF Resolved
  <2> QED
    BY <2>1, <2>2
<1>6. before.events = c.events /\ after.events = c.events
  BY DEF Resolved
<1> HIDE DEF before, after
<1>7. after = ApplyEntry(before, list[m])
  <2> DEFINE e == list[m]
             a == ApplyEntry(before, e)
  <2>1. /\ a \in View /\ a.events = before.events
        /\ \A u \in User :
              /\ a.lock[u] = IF u = e.user /\ e.lock # Untouched THEN e.lock ELSE before.lock[u]
              /\ a.expiry[u] = IF u = e.user /\ e.expiry # Untouched THEN e.expiry
                               ELSE before.expiry[u]
    BY <1>2, <1>3, ApplyEntryFields
  <2> HIDE DEF a
  <2>2. after.events = a.events
    BY <1>6, <2>1
  <2>3. \A u \in User : after.lock[u] = a.lock[u] /\ after.expiry[u] = a.expiry[u]
    BY <1>4, <1>5, <2>1
  <2>4. after = a
    BY <1>3, <2>1, <2>2, <2>3, ViewIs
  <2> QED
    BY <2>4 DEF a
<1> QED
  BY <1>1, <1>7 DEF m, before, after

\* apply_all, as a fold over the entries, gives each user the latest decisions.
LEMMA ApplyAllIs ==
    ASSUME NEW c \in View, NEW list \in Seq(Entry)
    PROVE  ApplyAll(c, list) = Resolved(c, list, 1 .. Len(list))
<1> DEFINE D == 1 .. Len(list)
           Step(f) == [s \in SUBSET D |->
                         IF s = {} THEN c
                         ELSE ApplyEntry(f[s \ {Max(s)}], list[Max(s)])]
           G == [s \in SUBSET D |-> Resolved(c, list, s)]
           iter == CHOOSE f : f = Step(f)
<1>0. DOMAIN list = D
  OBVIOUS
<1>1. ApplyAll(c, list) = iter[D]
  BY <1>0 DEF ApplyAll, FoldLeft, MapThenFoldSet
<1>2. G = Step(G)
  <2>1. \A s \in SUBSET D : G[s] = Step(G)[s]
    <3> TAKE s \in SUBSET D
    <3>1. CASE s = {}
      <4>1. Resolved(c, list, {}) = c
        <5>1. Resolved(c, list, {}) \in View
          BY ResolvedType
        <5>2. /\ Resolved(c, list, {}).events = c.events
              /\ \A u \in User : /\ Resolved(c, list, {}).lock[u] = c.lock[u]
                                 /\ Resolved(c, list, {}).expiry[u] = c.expiry[u]
          BY DEF Resolved, LockAt, ExpiryAt
        <5> QED
          BY <5>1, <5>2, ViewIs
      <4> QED
        BY <3>1, <4>1
    <3>2. CASE s # {}
      <4>1. s \ {Max(s)} \in SUBSET D
        OBVIOUS
      <4> QED
        BY <3>2, <4>1, ResolvedNext
    <3> QED
      BY <3>1, <3>2
  <2> QED
    BY <2>1
<1>3. iter = Step(iter)
  <2> HIDE DEF G, Step
  <2> QED
    BY <1>2
<1>4. iter = G
  <2> DEFINE Bad == {s \in SUBSET D : iter[s] # G[s]}
  <2>1. iter = [s \in SUBSET D |-> iter[s]]
    <3> HIDE DEF iter
    <3> QED
      BY <1>3
  <2>2. SUFFICES ASSUME Bad # {} PROVE FALSE
    <3> HIDE DEF iter
    <3> QED
      BY <2>1
  <2>3. IsWellFoundedOn(StrictSubsetOrdering(D), SUBSET D)
    <3>1. IsFiniteSet(D)
      BY FS_Interval
    <3>2. FiniteSubsetsOf(D) = SUBSET D
      BY <3>1, FS_FiniteSubsetsOfFinite
    <3> QED
      BY <3>2, FS_StrictSubsetOrderingWellFounded
  <2>4. PICK s \in Bad : \A r \in Bad : <<r, s>> \notin StrictSubsetOrdering(D)
    <3>1. Bad \subseteq SUBSET D
      OBVIOUS
    <3> HIDE DEF Bad
    <3> QED
      BY <2>2, <2>3, <3>1, WFMin
  <2> HIDE DEF iter
  <2>5. s \in SUBSET D /\ iter[s] = Step(iter)[s] /\ G[s] = Step(G)[s] /\ iter[s] # G[s]
    BY <1>2, <1>3, <2>4
  <2>6. s # {}
    BY <2>5
  <2>7. Max(s) \in s
    <3>1. Len(list) \in Nat
      OBVIOUS
    <3> QED
      BY <2>5, <2>6, <3>1, MaxIs
  <2> DEFINE r == s \ {Max(s)}
  <2>8. r \in SUBSET D /\ <<r, s>> \in StrictSubsetOrdering(D)
    BY <2>5, <2>7 DEF StrictSubsetOrdering
  <2>9. iter[r] = G[r]
    BY <2>4, <2>8
  <2>10. iter[s] = ApplyEntry(iter[r], list[Max(s)])
    BY <2>5, <2>6
  <2>11. G[s] = ApplyEntry(G[r], list[Max(s)])
    BY <1>2, <2>5, <2>6
  <2> QED
    BY <2>5, <2>9, <2>10, <2>11
<1> QED
  BY <1>1, <1>4

----------------------------------------------------------------------------
(* The invariant. *)

\* The entries of the levels up to the subid b.
Within(list, b) == {i \in 1 .. Len(list) : list[i].subid <= b}

\* The latest of the entries at the indices in `s` of each user in g leads from c to
\* v; a user without one has the same rows in both.
Settled(c, e, v) ==
    /\ v.lock[e.user] = IF e.lock = Untouched THEN c.lock[e.user] ELSE e.lock
    /\ v.expiry[e.user] = IF e.expiry = Untouched THEN c.expiry[e.user] ELSE e.expiry
Settles(g, c, list, s, v) ==
    \A u \in g :
        \/ /\ \A i \in s : list[i].user # u
           /\ v.lock[u] = c.lock[u] /\ v.expiry[u] = c.expiry[u]
        \/ \E i \in s : /\ list[i].user = u /\ Settled(c, list[i], v)
                        /\ \A j \in s : list[j].user = u => j <= i

\* Subids grow with the nesting, and a user's entries have the subids of open
\* levels, each level once, the deeper ones later.
StackInv ==
    /\ \A k, l \in 1 .. Len(stack) : k < l => stack[k] < stack[l]
    /\ \A l \in 1 .. Len(stack) : stack[l] <= subids
    /\ stack = <<>> => entries = <<>> /\ ack = NoAck /\ ~failed
LevelsInv ==
    /\ \A i \in 1 .. Len(entries) : \E l \in 1 .. Len(stack) : entries[i].subid = stack[l]
    /\ ack # NoAck => \E l \in 1 .. Len(stack) : ack = stack[l]
    /\ \A i, j \in 1 .. Len(entries) :
          i < j /\ entries[i].user = entries[j].user => entries[i].subid < entries[j].subid

\* Which of the two caches an operation of each kind decides about, and that an entry
\* is of one of the kinds its user has.
Decides(kind, lock, expiry) ==
    /\ lock = Untouched <=> kind = "expiry"
    /\ expiry = Untouched <=> kind = "lock"
Shaped(ks, e) == \E kind \in ks[e.user] : Decides(kind, e.lock, e.expiry)
ShapesInv == \A i \in 1 .. Len(entries) : Shaped(kinds, entries[i])

\* Each user in g has one kind of operation.  Where there are several, an entry may
\* replace one that decided about the other cache.
OneKind(ks, g) == \A u \in g : \A k, l \in ks[u] : k = l

\* For the users in g and with the subid b, v is what the entries up to b and an
\* acknowledgement by a make of c.
Sees(g, c, list, a, b, v) ==
    /\ Settles(g, c, list, Within(list, b), v)
    /\ v.events = IF a # NoAck /\ a <= b THEN 1 - c.events ELSE c.events

\* The caches are what is committed, and every level that is not in an error state
\* sees what its surviving entries make of them, but for the users whose operations
\* were of several kinds.
ViewsInv ==
    /\ Agree(User \ mixed, caches, views[1])
    /\ \A l \in 1 .. Len(stack) :
          l < Len(stack) \/ ~failed => Sees(Single, caches, entries, ack, stack[l], views[l + 1])

IndInv == TypeOK /\ StackInv /\ LevelsInv /\ ShapesInv /\ ViewsInv

LEMMA SingleIs == Single \in SUBSET User /\ OneKind(kinds, Single) /\ Single \subseteq User \ mixed
BY DEF Single, Mixing, OneKind

LEMMA SingleKept ==
    ASSUME UNCHANGED <<kinds, mixed>>
    PROVE  Single' = Single
BY DEF Single, Mixing

----------------------------------------------------------------------------
(* Lists that settle. *)

LEMMA SettlesFewer ==
    ASSUME NEW g, NEW h, NEW c, NEW v, NEW list, NEW s, Settles(g, c, list, s, v), h \subseteq g
    PROVE  Settles(h, c, list, s, v)
BY DEF Settles

LEMMA SettlesSame ==
    ASSUME NEW g, NEW c, NEW v, NEW list, NEW r, NEW s, Settles(g, c, list, s, v),
           \A i \in s : /\ r[i].user = list[i].user /\ r[i].lock = list[i].lock
                        /\ r[i].expiry = list[i].expiry
    PROVE  Settles(g, c, r, s, v)
BY DEF Settles, Settled

\* What a retained list settles, when it keeps the latest entries.
LEMMA RetainedSettles ==
    ASSUME NEW g, NEW c, NEW v, NEW list \in Seq(Entry), NEW kept \in SUBSET (1 .. Len(list)),
           NEW s \in SUBSET (1 .. Len(list)), Settles(g, c, list, s, v),
           NEW r \in Seq(Entry), NEW pos, Keeps(list, kept, r, pos),
           \A i \in s : (\A j \in s : list[j].user = list[i].user => j <= i) => i \in kept,
           NEW t, t = {n \in 1 .. Len(r) : pos[n] \in s}
    PROVE  Settles(g, c, r, t, v)
<1>0. /\ \A n \in 1 .. Len(r) : pos[n] \in kept /\ pos[n] \in Nat /\ r[n] = list[pos[n]]
      /\ \A m, n \in 1 .. Len(r) : m < n => pos[m] < pos[n]
      /\ \A i \in kept : \E n \in 1 .. Len(r) : pos[n] = i
      /\ Len(r) \in Nat
  <2>1. \A i \in kept : i \in Nat
    OBVIOUS
  <2>2. \A n \in 1 .. Len(r) : pos[n] \in kept /\ r[n] = list[pos[n]]
    BY DEF Keeps
  <2>3. /\ \A m, n \in 1 .. Len(r) : m < n => pos[m] < pos[n]
        /\ \A i \in kept : \E n \in 1 .. Len(r) : pos[n] = i
    BY DEF Keeps
  <2>4. Len(r) \in Nat
    OBVIOUS
  <2> QED
    BY <2>1, <2>2, <2>3, <2>4
<1> SUFFICES ASSUME NEW u \in g
             PROVE  \/ /\ \A n \in t : r[n].user # u
                       /\ v.lock[u] = c.lock[u] /\ v.expiry[u] = c.expiry[u]
                    \/ \E n \in t : /\ r[n].user = u /\ Settled(c, r[n], v)
                                    /\ \A m \in t : r[m].user = u => m <= n
  BY DEF Settles
<1>1. CASE /\ \A i \in s : list[i].user # u
           /\ v.lock[u] = c.lock[u] /\ v.expiry[u] = c.expiry[u]
  BY <1>0, <1>1
<1>2. CASE \E i \in s : /\ list[i].user = u /\ Settled(c, list[i], v)
                        /\ \A j \in s : list[j].user = u => j <= i
  <2>1. PICK i \in s : /\ list[i].user = u /\ Settled(c, list[i], v)
                       /\ \A j \in s : list[j].user = u => j <= i
    BY <1>2
  <2>2. i \in kept
    BY <2>1
  <2>3. PICK n \in 1 .. Len(r) : pos[n] = i
    BY <1>0, <2>2
  <2>4. n \in t /\ r[n].user = u /\ Settled(c, r[n], v)
    BY <1>0, <2>1, <2>3
  <2>5. ASSUME NEW m \in t, r[m].user = u PROVE m <= n
    <3>1. m \in 1 .. Len(r) /\ pos[m] \in s /\ list[pos[m]].user = u
      BY <1>0, <2>5
    <3>2. pos[m] <= pos[n]
      BY <2>1, <2>3, <3>1
    <3>3. n < m => pos[n] < pos[m]
      BY <1>0, <3>1
    <3>4. pos[m] \in Nat /\ pos[n] \in Nat /\ m \in Nat /\ n \in Nat
      BY <1>0, <3>1
    <3> QED
      BY <3>2, <3>3, <3>4
  <2> QED
    BY <2>4, <2>5
<1> QED
  BY <1>1, <1>2 DEF Settles

\* Applying a list that settles, when every entry of a user is about the same caches.
LEMMA SettlesResolves ==
    ASSUME NEW g \in SUBSET User, NEW ks, OneKind(ks, g), NEW c \in View, NEW v \in View,
           NEW list \in Seq(Entry),
           NEW s \in SUBSET (1 .. Len(list)), Settles(g, c, list, s, v),
           \A i \in s : Shaped(ks, list[i])
    PROVE  \A u \in g : /\ Resolved(c, list, s).lock[u] = v.lock[u]
                           /\ Resolved(c, list, s).expiry[u] = v.expiry[u]
<1> SUFFICES ASSUME NEW u \in g
             PROVE  /\ Resolved(c, list, s).lock[u] = v.lock[u]
                    /\ Resolved(c, list, s).expiry[u] = v.expiry[u]
  OBVIOUS
<1> DEFINE a == LockAt(list, s, u)
           b == ExpiryAt(list, s, u)
<1>1. /\ Resolved(c, list, s).lock[u] = IF a = {} THEN c.lock[u] ELSE list[Max(a)].lock
      /\ Resolved(c, list, s).expiry[u] = IF b = {} THEN c.expiry[u] ELSE list[Max(b)].expiry
  BY DEF Resolved
<1>2. CASE /\ \A i \in s : list[i].user # u
           /\ v.lock[u] = c.lock[u] /\ v.expiry[u] = c.expiry[u]
  <2>1. a = {} /\ b = {}
    BY <1>2 DEF LockAt, ExpiryAt
  <2> QED
    BY <1>1, <1>2, <2>1
<1>3. CASE \E i \in s : /\ list[i].user = u /\ Settled(c, list[i], v)
                        /\ \A j \in s : list[j].user = u => j <= i
  <2>1. PICK i \in s : /\ list[i].user = u /\ Settled(c, list[i], v)
                       /\ \A j \in s : list[j].user = u => j <= i
    BY <1>3
  <2>2. \A j \in s :
           list[j].user = u => /\ list[j].lock = Untouched <=> list[i].lock = Untouched
                               /\ list[j].expiry = Untouched <=> list[i].expiry = Untouched
    BY <2>1 DEF Shaped, Decides, OneKind
  <2>3. \A j \in s : j \in Nat
    OBVIOUS
  <2>4. IF a = {} THEN list[i].lock = Untouched ELSE list[i].lock # Untouched /\ Max(a) = i
    <3>1. CASE list[i].lock = Untouched
      BY <2>2, <3>1 DEF LockAt
    <3>2. CASE list[i].lock # Untouched
      <4>0. Len(list) \in Nat
        OBVIOUS
      <4>1. i \in a /\ a \in SUBSET (1 .. Len(list))
        BY <2>1, <3>2 DEF LockAt
      <4>2. Max(a) \in a /\ i <= Max(a)
        BY <4>0, <4>1, MaxIs
      <4>3. Max(a) \in s /\ list[Max(a)].user = u
        BY <4>2 DEF LockAt
      <4>4. Max(a) <= i /\ Max(a) \in Nat /\ i \in Nat
        BY <2>1, <2>3, <4>3
      <4> QED
        BY <3>2, <4>1, <4>2, <4>4
    <3> QED
      BY <3>1, <3>2
  <2>5. IF b = {} THEN list[i].expiry = Untouched ELSE list[i].expiry # Untouched /\ Max(b) = i
    <3>1. CASE list[i].expiry = Untouched
      BY <2>2, <3>1 DEF ExpiryAt
    <3>2. CASE list[i].expiry # Untouched
      <4>0. Len(list) \in Nat
        OBVIOUS
      <4>1. i \in b /\ b \in SUBSET (1 .. Len(list))
        BY <2>1, <3>2 DEF ExpiryAt
      <4>2. Max(b) \in b /\ i <= Max(b)
        BY <4>0, <4>1, MaxIs
      <4>3. Max(b) \in s /\ list[Max(b)].user = u
        BY <4>2 DEF ExpiryAt
      <4>4. Max(b) <= i /\ Max(b) \in Nat /\ i \in Nat
        BY <2>1, <2>3, <4>3
      <4> QED
        BY <3>2, <4>1, <4>2, <4>4
    <3> QED
      BY <3>1, <3>2
  <2> HIDE DEF a, b
  <2> QED
    BY <1>1, <2>1, <2>4, <2>5 DEF Settled
<1> QED
  BY <1>2, <1>3 DEF Settles

----------------------------------------------------------------------------
(* The steps on lists. *)

LEMMA FrontIs ==
    ASSUME NEW S, NEW s \in Seq(S), s # <<>>
    PROVE  /\ Len(s) \in Nat \ {0} /\ Last(s) = s[Len(s)] /\ Last(s) \in S
           /\ Front(s) \in Seq(S) /\ Len(Front(s)) = Len(s) - 1
           /\ \A i \in 1 .. Len(s) - 1 : Front(s)[i] = s[i]
<1>1. Len(s) \in Nat \ {0}
  OBVIOUS
<1>2. Front(s) = SubSeq(s, 1, Len(s) - 1)
  BY DEF Front
<1>3. Front(s) \in Seq(S) /\ Len(Front(s)) = Len(s) - 1
  <2>1. Len(s) - 1 \in Int /\ \A i \in 1 .. Len(s) - 1 : s[i] \in S
    BY <1>1
  <2>2. Front(s) \in Seq(S) /\ Len(Front(s)) = IF 1 <= Len(s) - 1 THEN Len(s) - 1 ELSE 0
    BY <1>1, <1>2, <2>1, SubSeqProperties
  <2>3. PICK n \in Nat \ {0} : n = Len(s)
    BY <1>1
  <2>4. (IF 1 <= n - 1 THEN n - 1 ELSE 0) = n - 1
    OBVIOUS
  <2> QED
    BY <2>2, <2>3, <2>4, Zenon
<1>4. \A i \in 1 .. Len(s) - 1 : Front(s)[i] = s[i]
  BY <1>1, <1>2
<1>5. Last(s) = s[Len(s)] /\ Last(s) \in S
  BY <1>1 DEF Last
<1> QED
  BY <1>1, <1>3, <1>4, <1>5

LEMMA AppendIs ==
    ASSUME NEW S, NEW s \in Seq(S), NEW x \in S
    PROVE  /\ Append(s, x) \in Seq(S) /\ Len(Append(s, x)) = Len(s) + 1
           /\ Append(s, x)[Len(s) + 1] = x
           /\ \A i \in 1 .. Len(s) : Append(s, x)[i] = s[i]
OBVIOUS

\* A staged entry takes the place of the one it matches, or comes last.
Puts(list, e, r, k) ==
    /\ r \in Seq(Entry) /\ r[k] = e
    /\ Len(r) = IF k <= Len(list) THEN Len(list) ELSE Len(list) + 1
    /\ \A i \in 1 .. Len(list) : i # k => r[i] = list[i]
    /\ k <= Len(list) => list[k].user = e.user /\ list[k].subid = e.subid
    /\ k > Len(list) => Matches(list, e.user, e.subid) = {}

LEMMA StagedIs ==
    ASSUME NEW list \in Seq(Entry), NEW e \in Entry
    PROVE  \E k \in 1 .. Len(list) + 1 : Puts(list, e, Staged(list, e), k)
<1> DEFINE found == Matches(list, e.user, e.subid)
           r == Staged(list, e)
<1>0. Len(list) \in Nat
  OBVIOUS
<1>1. CASE found # {}
  <2>1. found \in SUBSET (1 .. Len(list))
    BY DEF Matches
  <2>2. PICK k \in found : r = [list EXCEPT ![k] = e]
    <3>1. Max(found) \in found
      BY <1>0, <1>1, <2>1, MaxIs
    <3> QED
      BY <1>1, <3>1 DEF Staged
  <2> HIDE DEF r
  <2>3. k \in 1 .. Len(list) /\ list[k].user = e.user /\ list[k].subid = e.subid
    BY <2>1, <2>2 DEF Matches
  <2>4. r \in Seq(Entry) /\ Len(r) = Len(list) /\ r[k] = e
    BY <2>2, <2>3
  <2>5. \A i \in 1 .. Len(list) : i # k => r[i] = list[i]
    BY <2>2, <2>3
  <2>6. k \in 1 .. Len(list) + 1 /\ k <= Len(list) /\ ~(k > Len(list))
    BY <1>0, <2>3
  <2> QED
    BY <2>3, <2>4, <2>5, <2>6 DEF r, Puts
<1>2. CASE found = {}
  <2>1. r = Append(list, e)
    BY <1>2 DEF Staged
  <2> HIDE DEF r
  <2>2. /\ r \in Seq(Entry) /\ Len(r) = Len(list) + 1 /\ r[Len(list) + 1] = e
        /\ \A i \in 1 .. Len(list) : r[i] = list[i]
    BY <2>1, AppendIs
  <2>3. Len(list) + 1 \in 1 .. Len(list) + 1 /\ ~(Len(list) + 1 <= Len(list))
    BY <1>0
  <2> QED
    BY <1>2, <2>2, <2>3 DEF r, Puts
<1> QED
  BY <1>1, <1>2

\* on_sub_abort keeps the entries of the other levels.
LEMMA DiscardedIs ==
    ASSUME NEW list \in Seq(Entry), NEW subid
    PROVE  LET kept == {i \in 1 .. Len(list) : list[i].subid # subid}
               r == Discarded(list, subid)
           IN  /\ r \in Seq(Entry) /\ Len(r) <= Len(list)
               /\ \E pos : Keeps(list, kept, r, pos)
<1> DEFINE kept == {i \in 1 .. Len(list) : list[i].subid # subid}
<1>1. Discarded(list, subid) = Retained(list, kept)
  <2>1. DOMAIN list = 1 .. Len(list)
    OBVIOUS
  <2> QED
    BY <2>1, Zenon DEF Discarded
<1>2. kept \in SUBSET (1 .. Len(list))
  OBVIOUS
<1> HIDE DEF kept
<1>3. /\ Retained(list, kept) \in Seq(Entry) /\ Len(Retained(list, kept)) <= Len(list)
      /\ \E pos : Keeps(list, kept, Retained(list, kept), pos)
  BY <1>2, RetainedIs
<1> QED
  BY <1>1, <1>3 DEF kept

\* on_sub_commit first gives the entries of the level to its parent.
Given(list, subid, parent) ==
    [i \in 1 .. Len(list) |->
        IF list[i].subid = subid THEN [list[i] EXCEPT !.subid = parent] ELSE list[i]]

LEMMA GivenIs ==
    ASSUME NEW list \in Seq(Entry), NEW subid, NEW parent \in Subid
    PROVE  LET r == Given(list, subid, parent)
           IN  /\ r \in Seq(Entry) /\ Len(r) = Len(list)
               /\ \A i \in 1 .. Len(list) :
                     /\ r[i].user = list[i].user /\ r[i].lock = list[i].lock
                     /\ r[i].expiry = list[i].expiry
                     /\ r[i].subid = IF list[i].subid = subid THEN parent ELSE list[i].subid
<1> DEFINE r == Given(list, subid, parent)
<1>0. Len(list) \in Nat
  OBVIOUS
<1>1. ASSUME NEW i \in 1 .. Len(list)
      PROVE  /\ r[i] \in Entry /\ r[i].user = list[i].user /\ r[i].lock = list[i].lock
             /\ r[i].expiry = list[i].expiry
             /\ r[i].subid = IF list[i].subid = subid THEN parent ELSE list[i].subid
  <2>1. list[i] \in Entry
    OBVIOUS
  <2>2. r[i] = IF list[i].subid = subid THEN [list[i] EXCEPT !.subid = parent] ELSE list[i]
    BY DEF Given
  <2> HIDE DEF r
  <2> QED
    BY <2>1, <2>2 DEF Entry
<1>2. r = [i \in 1 .. Len(list) |-> r[i]]
  BY DEF Given
<1> HIDE DEF r
<1>3. r \in Seq(Entry) /\ Len(r) = Len(list)
  BY <1>0, <1>1, <1>2
<1> QED
  BY <1>1, <1>3 DEF r

LEMMA AdoptedIs ==
    ASSUME NEW list \in Seq(Entry), NEW subid, NEW parent \in Subid
    PROVE  LET g == Given(list, subid, parent)
               kept == {i \in 1 .. Len(g) : ~Superseded(g, i)}
               r == Adopted(list, subid, parent)
           IN  /\ r \in Seq(Entry) /\ Len(r) <= Len(list)
               /\ \E pos : Keeps(g, kept, r, pos)
<1> DEFINE g == Given(list, subid, parent)
           kept == {i \in 1 .. Len(g) : ~Superseded(g, i)}
<1>1. g \in Seq(Entry) /\ Len(g) = Len(list)
  BY GivenIs
<1>2. Adopted(list, subid, parent) = Compacted(g)
  <2>1. DOMAIN list = 1 .. Len(list)
    OBVIOUS
  <2> QED
    BY <2>1, Zenon DEF Adopted, Given
<1> HIDE DEF g
<1>3. Compacted(g) = Retained(g, kept) /\ kept \in SUBSET (1 .. Len(g))
  <2>1. DOMAIN g = 1 .. Len(g)
    BY <1>1
  <2> QED
    BY <2>1, Zenon DEF Compacted
<1> HIDE DEF kept
<1>4. /\ Retained(g, kept) \in Seq(Entry) /\ Len(Retained(g, kept)) <= Len(g)
      /\ \E pos : Keeps(g, kept, Retained(g, kept), pos)
  BY <1>1, <1>3, RetainedIs
<1> QED
  BY <1>1, <1>2, <1>3, <1>4 DEF g, kept

----------------------------------------------------------------------------
(* Types. *)

\* The open levels, and what the last one sees.
LEMMA LevelsTyped ==
    ASSUME TypeOK
    PROVE  /\ Len(stack) \in Nat /\ Len(views) = Len(stack) + 1 /\ Len(entries) \in Nat
           /\ \A l \in 1 .. Len(stack) : stack[l] \in Subid /\ stack[l] \in Nat \ {0}
           /\ \A l \in 0 .. Len(stack) : views[l + 1] \in View
           /\ InTransaction => /\ Len(stack) # 0 /\ Current = stack[Len(stack)]
                               /\ Current \in Subid /\ Current \in Nat \ {0}
           /\ ~InTransaction => Len(stack) = 0
           /\ subids \in Nat /\ MaxSubids \in Nat /\ MaxPendingOps \in Nat
           /\ ack = NoAck \/ (ack \in Subid /\ ack \in Nat \ {0})
<1>1. /\ stack \in Seq(Subid) /\ views \in Seq(View) /\ Len(views) = Len(stack) + 1
      /\ subids \in 0 .. MaxSubids /\ ack \in {NoAck} \cup Subid /\ entries \in Seq(Entry)
  BY DEF TypeOK
<1>2. MaxSubids \in Nat /\ MaxPendingOps \in Nat
  BY PendingAssumption
<1>3. Len(stack) \in Nat /\ Len(entries) \in Nat
  BY <1>1
<1>4. \A x \in Subid : x \in Nat \ {0}
  BY <1>2 DEF Subid
<1>5. \A l \in 1 .. Len(stack) : stack[l] \in Subid
  BY <1>1
<1>6. ASSUME NEW l \in 0 .. Len(stack) PROVE views[l + 1] \in View
  <2>1. l + 1 \in 1 .. Len(views)
    BY <1>1, <1>3
  <2> QED
    BY <1>1, <2>1
<1>7. InTransaction => Len(stack) # 0 /\ Current = stack[Len(stack)]
  BY <1>1 DEF InTransaction, Current, Last
<1>8. ~InTransaction => Len(stack) = 0
  BY DEF InTransaction
<1>9. InTransaction => Current \in Subid
  BY <1>3, <1>5, <1>7
<1> QED
  BY <1>1, <1>2, <1>3, <1>4, <1>5, <1>6, <1>7, <1>8, <1>9

\* Each of the three staging calls, as an operation with its kind.
LEMMA StagingKinds ==
    ASSUME StageLock \/ StageExpiry \/ StageCombined
    PROVE  \E user \in User, kind \in Kind, lock \in Decision, expiry \in Decision :
              Operation(user, kind, lock, expiry) /\ Decides(kind, lock, expiry)
<1>0. \A v \in Row : v \in Decision /\ v # Untouched
  BY PendingAssumption DEF Row, Decision
<1>1. Untouched \in Decision
  BY DEF Decision
<1>2. CASE StageLock
  <2>1. PICK user \in User, v \in Row : Operation(user, "lock", v, Untouched)
    BY <1>2 DEF StageLock
  <2>2. "lock" \in Kind /\ v \in Decision /\ Decides("lock", v, Untouched)
    BY <1>0 DEF Kind, Decides
  <2> QED
    BY <1>1, <2>1, <2>2
<1>3. CASE StageExpiry
  <2>1. PICK user \in User, v \in Row : Operation(user, "expiry", Untouched, v)
    BY <1>3 DEF StageExpiry
  <2>2. "expiry" \in Kind /\ v \in Decision /\ Decides("expiry", Untouched, v)
    BY <1>0 DEF Kind, Decides
  <2> QED
    BY <1>1, <2>1, <2>2
<1>4. CASE StageCombined
  <2>1. PICK user \in User, v \in Row, w \in Row : Operation(user, "combined", v, w)
    BY <1>4 DEF StageCombined
  <2>2. /\ "combined" \in Kind /\ v \in Decision /\ w \in Decision
        /\ Decides("combined", v, w)
    BY <1>0 DEF Kind, Decides
  <2> QED
    BY <2>1, <2>2
<1> QED
  BY <1>2, <1>3, <1>4

\* What an operation does to the last level's view.
LEMMA OperationIs ==
    ASSUME TypeOK, NEW user \in User, NEW kind \in Kind, NEW lock \in Decision,
           NEW expiry \in Decision, Operation(user, kind, lock, expiry)
    PROVE  LET e == [user |-> user, lock |-> lock, expiry |-> expiry, subid |-> Current]
               n == Len(stack)
           IN  /\ InTransaction /\ ~failed /\ e \in Entry
               /\ views' \in Seq(View) /\ Len(views') = Len(views)
               /\ views'[n + 1] = ApplyEntry(views[n + 1], e)
               /\ \A l \in 0 .. n - 1 : views'[l + 1] = views[l + 1]
               /\ \/ Exceeds(entries, e) /\ failed' /\ entries' = entries
                  \/ ~Exceeds(entries, e) /\ entries' = Staged(entries, e) /\ ~failed'
               /\ failed' \in BOOLEAN
               /\ kinds' = [kinds EXCEPT ![user] = @ \cup {kind}]
               /\ UNCHANGED <<ack, stack, subids, caches, mixed>>
<1> DEFINE e == [user |-> user, lock |-> lock, expiry |-> expiry, subid |-> Current]
           n == Len(stack)
           w == ApplyEntry(views[n + 1], e)
<1>1. InTransaction /\ ~failed
  BY DEF Operation
<1>2. Current \in Subid /\ n \in Nat /\ Len(views) = n + 1 /\ views[n + 1] \in View
  BY <1>1, LevelsTyped
<1>3. e \in Entry
  BY <1>2 DEF Entry
<1>4. views' = [views EXCEPT ![n + 1] = w]
  BY <1>2 DEF Operation
<1>5. w \in View
  BY <1>2, <1>3, ApplyEntryFields
<1>6. views \in Seq(View)
  BY DEF TypeOK
<1> HIDE DEF w
<1>7. /\ views' \in Seq(View) /\ Len(views') = Len(views) /\ views'[n + 1] = w
      /\ \A l \in 0 .. n - 1 : views'[l + 1] = views[l + 1]
  <2> HIDE DEF n
  <2> QED
    BY <1>2, <1>4, <1>5, <1>6
<1>8. /\ \/ Exceeds(entries, e) /\ failed' /\ entries' = entries
         \/ ~Exceeds(entries, e) /\ entries' = Staged(entries, e) /\ ~failed'
      /\ failed' \in BOOLEAN
      /\ kinds' = [kinds EXCEPT ![user] = @ \cup {kind}]
      /\ UNCHANGED <<ack, stack, subids, caches, mixed>>
  <2>1. /\ IF Exceeds(entries, e) THEN failed' = TRUE /\ entries' = entries
           ELSE entries' = Staged(entries, e) /\ failed' = failed
        /\ kinds' = [kinds EXCEPT ![user] = @ \cup {kind}]
        /\ UNCHANGED <<ack, stack, subids, caches, mixed>>
    BY DEF Operation
  <2>2. failed = FALSE
    BY <1>1 DEF TypeOK
  <2> HIDE DEF e
  <2>3. CASE Exceeds(entries, e)
    BY <2>1, <2>3
  <2>4. CASE ~Exceeds(entries, e)
    BY <2>1, <2>2, <2>4
  <2> QED
    BY <2>1, <2>3, <2>4
<1> QED
  BY <1>1, <1>3, <1>7, <1>8 DEF w

LEMMA OperationTypeOK ==
    ASSUME TypeOK, NEW user \in User, NEW kind \in Kind, NEW lock \in Decision,
           NEW expiry \in Decision, Operation(user, kind, lock, expiry)
    PROVE  TypeOK'
<1> DEFINE e == [user |-> user, lock |-> lock, expiry |-> expiry, subid |-> Current]
<1>1. /\ e \in Entry /\ views' \in Seq(View) /\ Len(views') = Len(views) /\ failed' \in BOOLEAN
      /\ entries' = entries \/ (~Exceeds(entries, e) /\ entries' = Staged(entries, e))
      /\ kinds' = [kinds EXCEPT ![user] = @ \cup {kind}]
      /\ UNCHANGED <<ack, stack, subids, caches, mixed>>
  BY OperationIs
<1> HIDE DEF e
<1>2. entries' \in Seq(Entry) /\ Len(entries') <= MaxPendingOps
  <2>1. CASE entries' = entries
    BY <2>1 DEF TypeOK
  <2>2. CASE ~Exceeds(entries, e) /\ entries' = Staged(entries, e)
    <3>0. entries \in Seq(Entry) /\ Len(entries) <= MaxPendingOps /\ Len(entries) \in Nat
          /\ MaxPendingOps \in Nat
      BY LevelsTyped DEF TypeOK
    <3>1. PICK k \in 1 .. Len(entries) + 1 :
             /\ entries' \in Seq(Entry)
             /\ Len(entries') = IF k <= Len(entries) THEN Len(entries) ELSE Len(entries) + 1
             /\ k > Len(entries) => Matches(entries, e.user, e.subid) = {}
      <4>1. PICK k \in 1 .. Len(entries) + 1 : Puts(entries, e, Staged(entries, e), k)
        BY <1>1, <3>0, StagedIs
      <4>2. Puts(entries, e, entries', k)
        BY <2>2, <4>1
      <4> QED
        BY <4>2 DEF Puts
    <3>2. CASE k <= Len(entries)
      BY <3>0, <3>1, <3>2
    <3>3. CASE ~(k <= Len(entries))
      <4>1. Matches(entries, e.user, e.subid) = {}
        BY <3>0, <3>1, <3>3
      <4>2. ~(Len(entries) >= MaxPendingOps)
        BY <2>2, <4>1 DEF Exceeds
      <4> QED
        BY <3>0, <3>1, <3>3, <4>2
    <3> QED
      BY <3>2, <3>3
  <2> QED
    BY <1>1, <2>1, <2>2
<1>3. kinds' \in [User -> SUBSET Kind]
  BY <1>1 DEF TypeOK
<1> QED
  BY <1>1, <1>2, <1>3 DEF TypeOK

LEMMA EndWithIs ==
    ASSUME NEW v, v \in View, EndWith(v), caches' \in View, mixed' \in SUBSET User
    PROVE  TypeOK'
<1>1. <<>> \in Seq(Entry) /\ <<>> \in Seq(Subid) /\ Len(<<>>) = 0
  OBVIOUS
<1>2. <<v>> \in Seq(View) /\ Len(<<v>>) = 1
  OBVIOUS
<1>3. MaxSubids \in Nat /\ MaxPendingOps \in Nat
  BY PendingAssumption
<1>4. entries' = <<>> /\ ack' = NoAck /\ stack' = <<>> /\ subids' = 0 /\ views' = <<v>>
  BY DEF EndWith
<1>5. failed' \in BOOLEAN
  BY DEF EndWith
<1>6. entries' \in Seq(Entry) /\ Len(entries') <= MaxPendingOps
  BY <1>1, <1>3, <1>4
<1>7. stack' \in Seq(Subid) /\ subids' \in 0 .. MaxSubids
  BY <1>1, <1>3, <1>4
<1>8. views' \in Seq(View) /\ Len(views') = Len(stack') + 1
  BY <1>1, <1>2, <1>4
<1>9. kinds' \in [User -> SUBSET Kind]
  BY DEF EndWith
<1> QED
  BY <1>4, <1>5, <1>6, <1>7, <1>8, <1>9 DEF TypeOK

LEMMA AcknowledgeIs ==
    ASSUME NEW c \in View, NEW staged
    PROVE  LET a == Acknowledge(c, staged)
           IN  /\ a \in View
               /\ a.events = IF staged = NoAck THEN c.events ELSE 1 - c.events
               /\ a.lock = c.lock /\ a.expiry = c.expiry
<1>1. /\ c.lock \in [User -> Row] /\ c.expiry \in [User -> Row]
      /\ c.events \in {0, 1} /\ 1 - c.events \in {0, 1}
  BY DEF View
<1>2. CASE staged = NoAck
  BY <1>2 DEF Acknowledge
<1>3. CASE staged # NoAck
  <2>1. Acknowledge(c, staged) = [c EXCEPT !.events = 1 - c.events]
    BY <1>3 DEF Acknowledge
  <2> QED
    BY <1>1, <1>3, <2>1 DEF View
<1> QED
  BY <1>2, <1>3

\* What the other steps do to the levels and their views.
LEMMA BeginIs ==
    ASSUME TypeOK, Begin
    PROVE  /\ ~InTransaction /\ stack' = <<1>> /\ subids' = 1
           /\ stack' \in Seq(Subid) /\ Len(stack') = 1 /\ stack'[1] = 1
           /\ views' \in Seq(View) /\ Len(views') = 2
           /\ views'[1] = views[1] /\ views'[2] = views[1]
           /\ UNCHANGED <<entries, ack, failed, caches, kinds, mixed>>
<1>1. ~InTransaction /\ stack' = <<1>> /\ subids' = 1 /\ views' = Append(views, views[1])
      /\ UNCHANGED <<entries, ack, failed, caches, kinds, mixed>>
  BY DEF Begin, staging, ran
<1>2. Len(stack) = 0 /\ Len(views) = 1 /\ views[0 + 1] \in View
  BY <1>1, LevelsTyped
<1>3. views \in Seq(View) /\ views[1] \in View
  BY <1>2 DEF TypeOK
<1>4. views' \in Seq(View) /\ Len(views') = 2 /\ views'[1] = views[1] /\ views'[2] = views[1]
  <2>1. /\ views' \in Seq(View) /\ Len(views') = Len(views) + 1
        /\ views'[Len(views) + 1] = views[1]
        /\ \A l \in 1 .. Len(views) : views'[l] = views[l]
    BY <1>1, <1>3, AppendIs
  <2>2. Len(views) + 1 = 2 /\ 1 \in 1 .. Len(views)
    BY <1>2
  <2> QED
    BY <2>1, <2>2
<1>5. 1 \in Subid
  BY PendingAssumption DEF Subid
<1>6. stack' \in Seq(Subid) /\ Len(stack') = 1 /\ stack'[1] = 1
  BY <1>1, <1>5
<1> QED
  BY <1>1, <1>4, <1>6

LEMMA StageAckIs ==
    ASSUME TypeOK, StageAck
    PROVE  LET n == Len(stack)
           IN  /\ InTransaction /\ ~failed /\ ack = NoAck /\ ack' = Current
               /\ views' \in Seq(View) /\ Len(views') = Len(views)
               /\ views'[n + 1].lock = views[n + 1].lock
               /\ views'[n + 1].expiry = views[n + 1].expiry
               /\ views'[n + 1].events = 1 - views[n + 1].events
               /\ \A l \in 0 .. n - 1 : views'[l + 1] = views[l + 1]
               /\ UNCHANGED <<entries, stack, subids, failed, caches, kinds, mixed>>
<1> DEFINE n == Len(stack)
           w == [views[n + 1] EXCEPT !.events = 1 - views[n + 1].events]
<1>1. InTransaction /\ ~failed /\ ack = NoAck /\ ack' = Current
      /\ UNCHANGED <<entries, stack, subids, failed, caches, kinds, mixed>>
  BY DEF StageAck, ran
<1>2. n \in Nat /\ Len(views) = n + 1 /\ views[n + 1] \in View
  BY LevelsTyped
<1>3. /\ w \in View /\ w.lock = views[n + 1].lock /\ w.expiry = views[n + 1].expiry
      /\ w.events = 1 - views[n + 1].events
  <2>1. 1 - views[n + 1].events \in {0, 1}
    BY <1>2 DEF View
  <2> QED
    BY <1>2, <2>1 DEF View
<1>4. views' = [views EXCEPT ![n + 1] = w]
  BY <1>2 DEF StageAck
<1>5. views \in Seq(View)
  BY DEF TypeOK
<1> HIDE DEF w
<1>6. /\ views' \in Seq(View) /\ Len(views') = Len(views) /\ views'[n + 1] = w
      /\ \A l \in 0 .. n - 1 : views'[l + 1] = views[l + 1]
  <2> HIDE DEF n
  <2> QED
    BY <1>2, <1>3, <1>4, <1>5
<1> QED
  BY <1>1, <1>3, <1>6

LEMMA SavepointIs ==
    ASSUME TypeOK, Savepoint
    PROVE  LET n == Len(stack)
           IN  /\ InTransaction /\ ~failed
               /\ subids' = subids + 1 /\ subids' \in Subid
               /\ stack' \in Seq(Subid) /\ Len(stack') = n + 1 /\ stack'[n + 1] = subids + 1
               /\ \A l \in 1 .. n : stack'[l] = stack[l]
               /\ views' \in Seq(View) /\ Len(views') = n + 2 /\ views'[n + 2] = views[n + 1]
               /\ \A l \in 0 .. n : views'[l + 1] = views[l + 1]
               /\ UNCHANGED <<entries, ack, failed, caches, kinds, mixed>>
<1> DEFINE n == Len(stack)
<1>1. /\ InTransaction /\ ~failed /\ subids < MaxSubids /\ subids' = subids + 1
      /\ stack' = Append(stack, subids + 1) /\ views' = Append(views, Last(views))
      /\ UNCHANGED <<entries, ack, failed, caches, kinds, mixed>>
  BY DEF Savepoint, staging, ran
<1>2. /\ n \in Nat /\ Len(views) = n + 1 /\ views[n + 1] \in View /\ subids \in Nat
      /\ MaxSubids \in Nat
  BY LevelsTyped
<1>3. stack \in Seq(Subid) /\ views \in Seq(View)
  BY DEF TypeOK
<1>4. subids + 1 \in Subid
  BY <1>1, <1>2 DEF Subid
<1>5. /\ stack' \in Seq(Subid) /\ Len(stack') = n + 1 /\ stack'[n + 1] = subids + 1
      /\ \A l \in 1 .. n : stack'[l] = stack[l]
  BY <1>1, <1>3, <1>4, AppendIs
<1>6. Last(views) = views[n + 1]
  BY <1>2 DEF Last
<1>7. /\ views' \in Seq(View) /\ Len(views') = Len(views) + 1
      /\ views'[Len(views) + 1] = views[n + 1]
      /\ \A l \in 1 .. Len(views) : views'[l] = views[l]
  BY <1>1, <1>2, <1>3, <1>6, AppendIs
<1> HIDE DEF n
<1>8. Len(views) + 1 = n + 2
  BY <1>2
<1>9. \A l \in 0 .. n : views'[l + 1] = views[l + 1]
  <2> TAKE l \in 0 .. n
  <2>1. l + 1 \in 1 .. Len(views)
    BY <1>2
  <2> QED
    BY <1>7, <2>1
<1> QED
  BY <1>1, <1>4, <1>5, <1>7, <1>8, <1>9 DEF n

\* Leaving the last level.
LEMMA FrontLevels ==
    ASSUME TypeOK, Len(stack) > 1
    PROVE  LET n == Len(stack)
           IN  /\ InTransaction /\ n - 1 \in 1 .. n /\ n - 1 # 0
               /\ Front(stack) \in Seq(Subid) /\ Len(Front(stack)) = n - 1
               /\ \A l \in 1 .. n - 1 : Front(stack)[l] = stack[l]
               /\ Front(views) \in Seq(View) /\ Len(Front(views)) = n
               /\ \A l \in 1 .. n : Front(views)[l] = views[l]
               /\ LET w == Append(Front(Front(views)), Last(views))
                  IN  /\ w \in Seq(View) /\ Len(w) = n /\ w[n] = views[n + 1]
                      /\ \A l \in 1 .. n - 1 : w[l] = views[l]
<1> DEFINE n == Len(stack)
           f == Front(views)
           w == Append(Front(f), Last(views))
<1>1. /\ n \in Nat /\ n > 1 /\ Len(views) = n + 1 /\ views[n + 1] \in View
      /\ stack \in Seq(Subid) /\ views \in Seq(View)
  BY LevelsTyped DEF TypeOK
<1>2. stack # <<>> /\ views # <<>>
  BY <1>1
<1>3. /\ Front(stack) \in Seq(Subid) /\ Len(Front(stack)) = n - 1
      /\ \A l \in 1 .. n - 1 : Front(stack)[l] = stack[l]
  BY <1>1, <1>2, FrontIs
<1>4. /\ f \in Seq(View) /\ Len(f) = Len(views) - 1
      /\ \A l \in 1 .. Len(views) - 1 : f[l] = views[l]
      /\ Last(views) = views[Len(views)]
  BY <1>1, <1>2, FrontIs
<1> HIDE DEF n, f
<1>5. Len(views) - 1 = n
  BY <1>1
<1>6. Len(f) = n /\ \A l \in 1 .. n : f[l] = views[l]
  BY <1>4, <1>5
<1>7. f # <<>>
  BY <1>1, <1>6
<1>8. /\ Front(f) \in Seq(View) /\ Len(Front(f)) = n - 1
      /\ \A l \in 1 .. n - 1 : Front(f)[l] = f[l]
  BY <1>4, <1>6, <1>7, FrontIs
<1>9. Last(views) \in View /\ Last(views) = views[n + 1]
  BY <1>1, <1>4
<1>10. /\ w \in Seq(View) /\ Len(w) = Len(Front(f)) + 1 /\ w[Len(Front(f)) + 1] = Last(views)
       /\ \A l \in 1 .. Len(Front(f)) : w[l] = Front(f)[l]
  BY <1>8, <1>9, AppendIs
<1> HIDE DEF w
<1>11. Len(Front(f)) + 1 = n
  BY <1>1, <1>8
<1>12. Len(w) = n /\ w[n] = views[n + 1]
  BY <1>9, <1>10, <1>11
<1>13. \A l \in 1 .. n - 1 : w[l] = views[l]
  <2> TAKE l \in 1 .. n - 1
  <2>1. l \in 1 .. n
    BY <1>1
  <2> QED
    BY <1>6, <1>8, <1>10, <2>1
<1>14. InTransaction /\ n - 1 \in 1 .. n /\ n - 1 # 0
  BY <1>1, <1>2 DEF InTransaction
<1> QED
  BY <1>3, <1>4, <1>6, <1>10, <1>12, <1>13, <1>14 DEF n, f, w

LEMMA ReleaseIs ==
    ASSUME TypeOK, ReleaseSavepoint
    PROVE  LET n == Len(stack)
               parent == stack[n - 1]
           IN  /\ n > 1 /\ n - 1 \in 1 .. n /\ parent \in Subid /\ ~failed /\ InTransaction
               /\ entries' = Adopted(entries, Current, parent)
               /\ ack' = IF ack = Current THEN parent ELSE ack
               /\ stack' \in Seq(Subid) /\ Len(stack') = n - 1
               /\ \A l \in 1 .. n - 1 : stack'[l] = stack[l]
               /\ views' \in Seq(View) /\ Len(views') = n /\ views'[n] = views[n + 1]
               /\ \A l \in 1 .. n - 1 : views'[l] = views[l]
               /\ UNCHANGED <<subids, failed, caches, kinds, mixed>>
<1> DEFINE n == Len(stack)
<1>1. /\ n > 1 /\ ~failed
      /\ entries' = Adopted(entries, Current, stack[n - 1])
      /\ ack' = IF ack = Current THEN stack[n - 1] ELSE ack
      /\ stack' = Front(stack) /\ views' = Append(Front(Front(views)), Last(views))
      /\ UNCHANGED <<subids, failed, caches, kinds, mixed>>
  BY DEF ReleaseSavepoint, ran
<1>2. /\ InTransaction /\ n - 1 \in 1 .. n
      /\ stack' \in Seq(Subid) /\ Len(stack') = n - 1
      /\ \A l \in 1 .. n - 1 : stack'[l] = stack[l]
      /\ views' \in Seq(View) /\ Len(views') = n /\ views'[n] = views[n + 1]
      /\ \A l \in 1 .. n - 1 : views'[l] = views[l]
  BY <1>1, FrontLevels
<1>3. stack[n - 1] \in Subid
  BY <1>2, LevelsTyped
<1> QED
  BY <1>1, <1>2, <1>3

LEMMA RollbackToIs ==
    ASSUME TypeOK, RollbackToSavepoint
    PROVE  LET n == Len(stack)
           IN  /\ n > 1 /\ n - 1 \in 1 .. n /\ InTransaction
               /\ entries' = Discarded(entries, Current)
               /\ ack' = IF ack = Current THEN NoAck ELSE ack
               /\ stack' \in Seq(Subid) /\ Len(stack') = n - 1
               /\ \A l \in 1 .. n - 1 : stack'[l] = stack[l]
               /\ views' \in Seq(View) /\ Len(views') = n
               /\ \A l \in 1 .. n : views'[l] = views[l]
               /\ failed' = FALSE
               /\ UNCHANGED <<subids, caches, kinds, mixed>>
<1> DEFINE n == Len(stack)
<1>1. /\ n > 1
      /\ entries' = Discarded(entries, Current)
      /\ ack' = IF ack = Current THEN NoAck ELSE ack
      /\ stack' = Front(stack) /\ views' = Front(views) /\ failed' = FALSE
      /\ UNCHANGED <<subids, caches, kinds, mixed>>
  BY DEF RollbackToSavepoint, ran
<1>2. /\ InTransaction /\ n - 1 \in 1 .. n
      /\ stack' \in Seq(Subid) /\ Len(stack') = n - 1
      /\ \A l \in 1 .. n - 1 : stack'[l] = stack[l]
      /\ views' \in Seq(View) /\ Len(views') = n
      /\ \A l \in 1 .. n : views'[l] = views[l]
  BY <1>1, FrontLevels
<1> QED
  BY <1>1, <1>2

LEMMA CommittedTyped ==
    ASSUME TypeOK
    PROVE  /\ views[1] \in View /\ (Len(stack) = 1 => views[2] \in View)
           /\ Acknowledge(ApplyAll(caches, entries), ack) \in View
<1>1. Len(stack) \in Nat /\ \A l \in 0 .. Len(stack) : views[l + 1] \in View
  BY LevelsTyped
<1>2. views[0 + 1] \in View /\ (Len(stack) = 1 => views[1 + 1] \in View)
  BY <1>1
<1>3. caches \in View /\ entries \in Seq(Entry)
  BY DEF TypeOK
<1>4. ApplyAll(caches, entries) \in View
  <2>1. 1 .. Len(entries) \in SUBSET (1 .. Len(entries))
    OBVIOUS
  <2> QED
    BY <1>3, <2>1, ApplyAllIs, ResolvedType
<1>5. Acknowledge(ApplyAll(caches, entries), ack) \in View
  BY <1>4, AcknowledgeIs
<1> QED
  BY <1>2, <1>5

LEMMA TypeOKStep ==
    ASSUME TypeOK, [Next]_vars
    PROVE  TypeOK'
<1>0. /\ views[1] \in View /\ (Len(stack) = 1 => views[2] \in View)
      /\ Acknowledge(ApplyAll(caches, entries), ack) \in View
      /\ caches \in View
  BY CommittedTyped DEF TypeOK
<1>1. CASE Begin
  <2>1. /\ stack' \in Seq(Subid) /\ Len(stack') = 1 /\ subids' = 1
        /\ views' \in Seq(View) /\ Len(views') = 2
        /\ UNCHANGED <<entries, ack, failed, caches, kinds, mixed>>
    BY <1>1, BeginIs
  <2>2. subids' \in 0 .. MaxSubids
    BY <2>1, PendingAssumption
  <2> QED
    BY <2>1, <2>2 DEF TypeOK
<1>2. CASE Commit
  <2>1. Len(stack) = 1 /\ EndWith(views[2])
    BY <1>2 DEF Commit
  <2>2. caches' \in View /\ mixed' \in SUBSET User
    BY <1>0, <1>2 DEF Commit, Mixing, TypeOK
  <2> QED
    BY <1>0, <2>1, <2>2, EndWithIs
<1>3. CASE Rollback
  <2>1. EndWith(views[1]) /\ caches' = caches /\ mixed' \in SUBSET User
    BY <1>3 DEF Rollback, TypeOK
  <2> QED
    BY <1>0, <2>1, EndWithIs
<1>4. CASE Prepare
  <2>1. Len(stack) = 1 /\ EndWith(IF IsEmpty THEN views[2] ELSE views[1]) /\ caches' = caches
    BY <1>4 DEF Prepare
  <2>2. (IF IsEmpty THEN views[2] ELSE views[1]) \in View
    BY <1>0, <2>1
  <2>3. mixed' \in SUBSET User
    BY <1>4 DEF Prepare, Mixing, TypeOK
  <2> QED
    BY <1>0, <2>1, <2>2, <2>3, EndWithIs
<1>5. CASE StageLock \/ StageExpiry \/ StageCombined
  <2>1. PICK user \in User, kind \in Kind, lock \in Decision, expiry \in Decision :
           Operation(user, kind, lock, expiry)
    BY <1>5, StagingKinds
  <2> QED
    BY <2>1, OperationTypeOK
<1>6. CASE StageAck
  <2>1. /\ InTransaction /\ ack' = Current /\ views' \in Seq(View) /\ Len(views') = Len(views)
        /\ UNCHANGED <<entries, stack, subids, failed, caches, kinds, mixed>>
    BY <1>6, StageAckIs
  <2>2. Current \in Subid
    BY <2>1, LevelsTyped
  <2> QED
    BY <2>1, <2>2 DEF TypeOK
<1>7. CASE Fail
  BY <1>7 DEF Fail, staging, ran, TypeOK
<1>8. CASE Savepoint
  <2>1. /\ subids' \in Subid
        /\ stack' \in Seq(Subid) /\ Len(stack') = Len(stack) + 1
        /\ views' \in Seq(View) /\ Len(views') = Len(stack) + 2
        /\ UNCHANGED <<entries, ack, failed, caches, kinds, mixed>>
    BY <1>8, SavepointIs
  <2>2. subids' \in 0 .. MaxSubids
    BY <2>1, PendingAssumption DEF Subid
  <2>3. Len(stack) \in Nat
    BY LevelsTyped
  <2>4. Len(views') = Len(stack') + 1
    BY <2>1, <2>3
  <2> QED
    BY <2>1, <2>2, <2>4 DEF TypeOK
<1>9. CASE ReleaseSavepoint
  <2> DEFINE parent == stack[Len(stack) - 1]
  <2>1. /\ parent \in Subid /\ entries' = Adopted(entries, Current, parent)
        /\ ack' = IF ack = Current THEN parent ELSE ack
        /\ stack' \in Seq(Subid) /\ Len(stack') = Len(stack) - 1
        /\ views' \in Seq(View) /\ Len(views') = Len(stack)
        /\ UNCHANGED <<subids, failed, caches, kinds, mixed>>
    BY <1>9, ReleaseIs
  <2> HIDE DEF parent
  <2>2. /\ entries \in Seq(Entry) /\ Len(entries) <= MaxPendingOps
        /\ Len(entries) \in Nat /\ MaxPendingOps \in Nat /\ Len(stack) \in Nat
    BY LevelsTyped DEF TypeOK
  <2>3. entries' \in Seq(Entry) /\ Len(entries') <= Len(entries)
    BY <2>1, <2>2, AdoptedIs
  <2>4. Len(entries') <= MaxPendingOps /\ Len(views') = Len(stack') + 1
    <3>1. Len(entries') \in Nat
      BY <2>3
    <3> QED
      BY <2>1, <2>2, <2>3, <3>1
  <2>5. ack' \in {NoAck} \cup Subid
    BY <2>1 DEF TypeOK
  <2> QED
    BY <2>1, <2>3, <2>4, <2>5 DEF TypeOK
<1>10. CASE RollbackToSavepoint
  <2>1. /\ entries' = Discarded(entries, Current)
        /\ ack' = IF ack = Current THEN NoAck ELSE ack
        /\ stack' \in Seq(Subid) /\ Len(stack') = Len(stack) - 1
        /\ views' \in Seq(View) /\ Len(views') = Len(stack)
        /\ failed' = FALSE /\ UNCHANGED <<subids, caches, kinds, mixed>>
    BY <1>10, RollbackToIs
  <2>2. /\ entries \in Seq(Entry) /\ Len(entries) <= MaxPendingOps
        /\ Len(entries) \in Nat /\ MaxPendingOps \in Nat /\ Len(stack) \in Nat
    BY LevelsTyped DEF TypeOK
  <2>3. entries' \in Seq(Entry) /\ Len(entries') <= Len(entries)
    BY <2>1, <2>2, DiscardedIs
  <2>4. Len(entries') <= MaxPendingOps /\ Len(views') = Len(stack') + 1
    <3>1. Len(entries') \in Nat
      BY <2>3
    <3> QED
      BY <2>1, <2>2, <2>3, <3>1
  <2>5. ack' \in {NoAck} \cup Subid
    BY <2>1 DEF TypeOK
  <2> QED
    BY <2>1, <2>3, <2>4, <2>5 DEF TypeOK
<1>11. CASE UNCHANGED vars
  BY <1>11 DEF vars, staging, transaction, ran, TypeOK
<1> QED
  BY <1>1, <1>2, <1>3, <1>4, <1>5, <1>6, <1>7, <1>8, <1>9, <1>10, <1>11 DEF Next

LEMMA TypeOKInit ==
    ASSUME Init
    PROVE  TypeOK
<1>1. EmptyView \in View
  BY DEF EmptyView, View, Row
<1>2. <<>> \in Seq(Entry) /\ <<>> \in Seq(Subid) /\ Len(<<>>) = 0
  OBVIOUS
<1>3. <<EmptyView>> \in Seq(View) /\ Len(<<EmptyView>>) = 1
  BY <1>1
<1>4. MaxSubids \in Nat /\ MaxPendingOps \in Nat
  BY PendingAssumption
<1>5. /\ entries = <<>> /\ ack = NoAck /\ stack = <<>> /\ subids = 0
      /\ views = <<EmptyView>> /\ failed \in BOOLEAN /\ caches = EmptyView
      /\ kinds \in [User -> SUBSET Kind] /\ mixed \in SUBSET User
  BY DEF Init
<1> HIDE DEF Init
<1>6. entries \in Seq(Entry) /\ Len(entries) <= MaxPendingOps
  BY <1>2, <1>4, <1>5
<1>7. stack \in Seq(Subid) /\ subids \in 0 .. MaxSubids
  BY <1>2, <1>4, <1>5
<1>8. views \in Seq(View) /\ Len(views) = Len(stack) + 1
  BY <1>2, <1>3, <1>5
<1> QED
  BY <1>1, <1>5, <1>6, <1>7, <1>8 DEF TypeOK

\* The staging list never outgrows MAX_PENDING_OPS entries, each with a subid of the
\* transaction, and the levels of the transaction and what they see stay
\* in step, whatever is staged, released, rolled back or refused
\* (src/pending_cache_op.rs): the checks of stage_entry are enough for the array.
THEOREM TypeCorrect == Spec => []TypeOK
<1>1. Init => TypeOK
  BY TypeOKInit
<1>2. TypeOK /\ [Next]_vars => TypeOK'
  BY TypeOKStep
<1> QED
  BY <1>1, <1>2, PTL DEF Spec

----------------------------------------------------------------------------
(* The entries and the open levels. *)

\* Deeper levels have the greater subids.
LEMMA LastIsGreatest ==
    ASSUME TypeOK, StackInv, InTransaction
    PROVE  /\ \A l \in 1 .. Len(stack) : stack[l] <= Current
           /\ \A l \in 1 .. Len(stack) - 1 : stack[l] < Current
           /\ \A k, l \in 1 .. Len(stack) : k <= l => stack[k] <= stack[l]
<1> DEFINE n == Len(stack)
<1>1. /\ n \in Nat /\ n # 0 /\ Current = stack[n]
      /\ \A l \in 1 .. n : stack[l] \in Nat
  BY LevelsTyped
<1>2. \A k, l \in 1 .. n : k < l => stack[k] < stack[l]
  BY DEF StackInv
<1> HIDE DEF n
<1>3. n \in 1 .. n
  BY <1>1
<1>4. \A k, l \in 1 .. n : k <= l => stack[k] <= stack[l]
  <2> TAKE k, l \in 1 .. n
  <2>1. CASE k = l
    BY <1>1, <2>1
  <2>2. CASE k # l
    <3>1. k <= l => k < l
      BY <1>1, <2>2
    <3>2. stack[k] \in Nat /\ stack[l] \in Nat
      BY <1>1
    <3> QED
      BY <1>2, <3>1, <3>2
  <2> QED
    BY <2>1, <2>2
<1>5. \A l \in 1 .. n : stack[l] <= Current
  <2> TAKE l \in 1 .. n
  <2>1. l <= n
    BY <1>1
  <2> QED
    BY <1>1, <1>3, <1>4, <2>1
<1>6. \A l \in 1 .. n - 1 : stack[l] < Current
  <2> TAKE l \in 1 .. n - 1
  <2>1. l \in 1 .. n /\ l < n
    BY <1>1
  <2> QED
    BY <1>1, <1>2, <1>3, <2>1
<1> QED
  BY <1>4, <1>5, <1>6 DEF n

LEMMA OperationLevels ==
    ASSUME TypeOK, StackInv, LevelsInv, NEW user \in User, NEW kind \in Kind,
           NEW lock \in Decision, NEW expiry \in Decision, Operation(user, kind, lock, expiry)
    PROVE  StackInv' /\ LevelsInv'
<1> DEFINE e == [user |-> user, lock |-> lock, expiry |-> expiry, subid |-> Current]
           n == Len(stack)
<1>1. /\ InTransaction /\ e \in Entry
      /\ entries' = entries \/ entries' = Staged(entries, e)
      /\ UNCHANGED <<ack, stack, subids, caches, mixed>>
  BY OperationIs
<1>2. /\ n \in Nat /\ n # 0 /\ Current = stack[n] /\ Current \in Nat
      /\ \A l \in 1 .. n : stack[l] \in Nat
  BY <1>1, LevelsTyped
<1>3. \A l \in 1 .. n : stack[l] <= Current
  BY <1>1, LastIsGreatest
<1>4. e.subid = Current /\ stack # <<>>
  BY <1>1 DEF InTransaction
<1>5. StackInv'
  BY <1>1, <1>4 DEF StackInv
<1>6. CASE entries' = entries
  BY <1>1, <1>5, <1>6 DEF LevelsInv
<1>7. CASE entries' = Staged(entries, e)
  <2> HIDE DEF e, n
  <2>0. entries \in Seq(Entry) /\ Len(entries) \in Nat
    BY LevelsTyped DEF TypeOK
  <2>1. PICK k \in 1 .. Len(entries) + 1 :
           /\ entries' \in Seq(Entry) /\ entries'[k] = e
           /\ Len(entries') = IF k <= Len(entries) THEN Len(entries) ELSE Len(entries) + 1
           /\ \A i \in 1 .. Len(entries) : i # k => entries'[i] = entries[i]
           /\ k <= Len(entries) => entries[k].user = e.user /\ entries[k].subid = e.subid
           /\ k > Len(entries) => Matches(entries, e.user, e.subid) = {}
    <3>1. PICK k \in 1 .. Len(entries) + 1 : Puts(entries, e, Staged(entries, e), k)
      BY <1>1, <2>0, StagedIs
    <3>2. Puts(entries, e, entries', k)
      BY <1>7, <3>1
    <3> QED
      BY <3>2 DEF Puts
  <2>2. \A i \in 1 .. Len(entries') : i # k => i \in 1 .. Len(entries)
    BY <2>0, <2>1
  <2>3. \A i \in 1 .. Len(entries) : entries[i].subid \in Nat /\ entries[i].subid <= e.subid
    BY <1>2, <1>3, <1>4 DEF LevelsInv, n
  <2>4. ASSUME NEW i \in 1 .. Len(entries')
        PROVE  \E l \in 1 .. n : entries'[i].subid = stack[l]
    <3>1. CASE i = k
      <4>1. n \in 1 .. n
        BY <1>2
      <4> QED
        BY <1>2, <1>4, <2>1, <3>1, <4>1
    <3>2. CASE i # k
      BY <2>1, <2>2, <3>2 DEF LevelsInv, n
    <3> QED
      BY <3>1, <3>2
  <2>5. ASSUME NEW i \in 1 .. Len(entries'), NEW j \in 1 .. Len(entries'), i < j,
               entries'[i].user = entries'[j].user
        PROVE  entries'[i].subid < entries'[j].subid
    <3>0. \A x, y \in 1 .. Len(entries) :
             x < y /\ entries[x].user = entries[y].user => entries[x].subid < entries[y].subid
      BY DEF LevelsInv
    <3>1. CASE i # k /\ j # k
      BY <2>1, <2>2, <2>5, <3>0, <3>1
    <3>2. CASE i = k
      <4>1. j # k
        BY <2>5, <3>2
      <4>2. k \in 1 .. Len(entries) /\ k <= Len(entries)
        <5>1. j <= Len(entries)
          BY <2>0, <2>2, <4>1
        <5> QED
          BY <2>0, <2>5, <3>2, <5>1
      <4> QED
        BY <2>1, <2>2, <2>5, <3>0, <3>2, <4>1, <4>2
    <3>3. CASE j = k
      <4>1. i # k /\ i \in 1 .. Len(entries)
        BY <2>2, <2>5, <3>3
      <4>2. CASE k <= Len(entries)
        <5>1. k \in 1 .. Len(entries)
          BY <2>0, <4>2
        <5> QED
          BY <2>1, <2>5, <3>0, <3>3, <4>1, <4>2, <5>1
      <4>3. CASE ~(k <= Len(entries))
        <5>1. k > Len(entries)
          BY <2>0, <4>3
        <5>2. entries[i].user = e.user
          BY <2>1, <2>5, <3>3, <4>1
        <5>3. i \in DOMAIN entries
          BY <2>0, <4>1
        <5>4. entries[i].subid # e.subid
          BY <2>1, <5>1, <5>2, <5>3 DEF Matches
        <5>5. entries[i].subid \in Nat /\ e.subid \in Nat /\ entries[i].subid <= e.subid
          BY <1>2, <1>4, <2>3, <4>1
        <5>6. entries[i].subid < e.subid
          BY <5>4, <5>5
        <5> QED
          BY <2>1, <3>3, <4>1, <5>6
      <4> QED
        BY <4>2, <4>3
    <3> QED
      BY <3>1, <3>2, <3>3
  <2> QED
    BY <1>1, <1>5, <2>4, <2>5 DEF LevelsInv, n
<1> QED
  BY <1>1, <1>6, <1>7

LEMMA ReleaseLevels ==
    ASSUME TypeOK, StackInv, LevelsInv, ReleaseSavepoint
    PROVE  StackInv' /\ LevelsInv'
<1> DEFINE n == Len(stack)
           parent == stack[n - 1]
           g == Given(entries, Current, parent)
           kept == {i \in 1 .. Len(g) : ~Superseded(g, i)}
<1>1. /\ n > 1 /\ n - 1 \in 1 .. n /\ parent \in Subid /\ InTransaction
      /\ entries' = Adopted(entries, Current, parent)
      /\ ack' = IF ack = Current THEN parent ELSE ack
      /\ Len(stack') = n - 1
      /\ \A l \in 1 .. n - 1 : stack'[l] = stack[l]
      /\ UNCHANGED <<subids, failed, caches, kinds, mixed>>
  BY ReleaseIs
<1>2. /\ n \in Nat /\ Current = stack[n] /\ Current \in Nat
      /\ \A l \in 1 .. n : stack[l] \in Nat
      /\ entries \in Seq(Entry) /\ Len(entries) \in Nat
  BY <1>1, LevelsTyped DEF TypeOK
<1>3. /\ \A l \in 1 .. n - 1 : stack[l] < Current
      /\ \A k, l \in 1 .. n : k <= l => stack[k] <= stack[l]
  BY <1>1, LastIsGreatest
<1>4. /\ Len(g) = Len(entries)
      /\ \A i \in 1 .. Len(entries) :
            /\ g[i].user = entries[i].user
            /\ g[i].subid = IF entries[i].subid = Current THEN parent ELSE entries[i].subid
  BY <1>1, <1>2, GivenIs
<1>5. entries' \in Seq(Entry) /\ \E pos : Keeps(g, kept, entries', pos)
  BY <1>1, <1>2, AdoptedIs
<1> HIDE DEF n, parent, g, kept
<1>6. PICK pos : Keeps(g, kept, entries', pos)
  BY <1>5
<1>7. /\ \A m \in 1 .. Len(entries') : pos[m] \in kept /\ entries'[m] = g[pos[m]]
      /\ \A x, y \in 1 .. Len(entries') : x < y => pos[x] < pos[y]
  BY <1>6 DEF Keeps
<1>8. \A i \in kept : i \in 1 .. Len(entries) /\ ~Superseded(g, i)
  BY <1>4 DEF kept
<1>9. n - 1 \in 1 .. n - 1 /\ \A l \in 1 .. n : l # n => l \in 1 .. n - 1
  BY <1>1, <1>2
<1>10. StackInv'
  <2>1. /\ \A k, l \in 1 .. n - 1 : k \in 1 .. n /\ l \in 1 .. n
    BY <1>1, <1>2
  <2>2. stack' # <<>>
    BY <1>1, <1>2
  <2>3. \A k, l \in 1 .. n - 1 : k < l => stack'[k] < stack'[l]
    BY <1>1, <2>1 DEF StackInv, n
  <2>4. \A l \in 1 .. n - 1 : stack'[l] <= subids'
    BY <1>1, <2>1 DEF StackInv, n
  <2> QED
    BY <1>1, <2>2, <2>3, <2>4 DEF StackInv
<1>11. ASSUME NEW i \in 1 .. Len(entries)
       PROVE  \E l \in 1 .. n - 1 : g[i].subid = stack[l]
  <2>1. PICK l \in 1 .. n : entries[i].subid = stack[l]
    BY DEF LevelsInv, n
  <2>2. CASE entries[i].subid = Current
    BY <1>4, <1>9, <2>2 DEF parent
  <2>3. CASE entries[i].subid # Current
    BY <1>2, <1>4, <1>9, <2>1, <2>3
  <2> QED
    BY <2>2, <2>3
<1>12. \A m \in 1 .. Len(entries') : \E l \in 1 .. Len(stack') : entries'[m].subid = stack'[l]
  <2> TAKE m \in 1 .. Len(entries')
  <2>1. pos[m] \in 1 .. Len(entries) /\ entries'[m] = g[pos[m]]
    BY <1>7, <1>8
  <2>2. PICK l \in 1 .. n - 1 : g[pos[m]].subid = stack[l]
    BY <1>11, <2>1
  <2> QED
    BY <1>1, <2>1, <2>2
<1>13. ack' # NoAck => \E l \in 1 .. Len(stack') : ack' = stack'[l]
  <2>1. CASE ack = Current
    BY <1>1, <1>9, <2>1 DEF parent
  <2>2. CASE ack # Current
    <3>1. SUFFICES ASSUME ack # NoAck PROVE \E l \in 1 .. n - 1 : ack = stack[l]
      BY <1>1, <2>2
    <3>2. PICK l \in 1 .. n : ack = stack[l]
      BY <3>1 DEF LevelsInv, n
    <3> QED
      BY <1>2, <1>9, <2>2, <3>2
  <2> QED
    BY <2>1, <2>2
<1>14. ASSUME NEW i \in kept, NEW j \in kept, i < j, g[i].user = g[j].user
       PROVE  g[i].subid < g[j].subid
  <2>1. i \in 1 .. Len(entries) /\ j \in 1 .. Len(entries) /\ ~Superseded(g, i)
    BY <1>8
  <2>2. entries[i].subid < entries[j].subid
    BY <1>4, <1>14, <2>1 DEF LevelsInv
  <2>3. PICK k \in 1 .. n : entries[i].subid = stack[k]
    BY <2>1 DEF LevelsInv, n
  <2>4. PICK l \in 1 .. n : entries[j].subid = stack[l]
    BY <2>1 DEF LevelsInv, n
  <2>5. stack[l] <= stack[n] /\ stack[k] \in Nat /\ stack[l] \in Nat /\ stack[n] \in Nat
    BY <1>2, <1>3
  <2>6. k # n
    BY <2>2, <2>3, <2>4, <2>5
  <2>7. g[i].subid = entries[i].subid /\ stack[k] # Current
    BY <1>2, <1>4, <2>1, <2>2, <2>3, <2>4, <2>5
  <2>8. CASE entries[j].subid # Current
    BY <1>4, <2>1, <2>2, <2>7, <2>8
  <2>9. CASE entries[j].subid = Current
    <3>1. g[j].subid = parent
      BY <1>4, <2>1, <2>9
    <3>2. k <= n - 1
      BY <1>2, <2>6
    <3>3. stack[k] <= parent /\ parent \in Nat
      BY <1>1, <1>2, <1>3, <3>2 DEF parent
    <3>4. g[i].subid # g[j].subid
      <4>1. j \in i + 1 .. Len(g)
        BY <1>2, <1>4, <1>14, <2>1
      <4> QED
        BY <1>14, <2>1, <4>1 DEF Superseded
    <3> QED
      BY <2>3, <2>5, <2>7, <3>1, <3>3, <3>4
  <2> QED
    BY <2>8, <2>9
<1>15. \A x, y \in 1 .. Len(entries') :
          x < y /\ entries'[x].user = entries'[y].user => entries'[x].subid < entries'[y].subid
  BY <1>7, <1>14
<1> QED
  BY <1>10, <1>12, <1>13, <1>15 DEF LevelsInv

LEMMA RollbackToLevels ==
    ASSUME TypeOK, StackInv, LevelsInv, RollbackToSavepoint
    PROVE  StackInv' /\ LevelsInv'
<1> DEFINE n == Len(stack)
           kept == {i \in 1 .. Len(entries) : entries[i].subid # Current}
<1>1. /\ n > 1 /\ n - 1 \in 1 .. n /\ InTransaction
      /\ entries' = Discarded(entries, Current)
      /\ ack' = IF ack = Current THEN NoAck ELSE ack
      /\ Len(stack') = n - 1
      /\ \A l \in 1 .. n - 1 : stack'[l] = stack[l]
      /\ UNCHANGED <<subids, caches, kinds, mixed>>
  BY RollbackToIs
<1>2. n \in Nat /\ Current = stack[n] /\ entries \in Seq(Entry)
  BY <1>1, LevelsTyped DEF TypeOK
<1>3. entries' \in Seq(Entry) /\ \E pos : Keeps(entries, kept, entries', pos)
  BY <1>1, <1>2, DiscardedIs
<1> HIDE DEF n
<1>4. PICK pos : Keeps(entries, kept, entries', pos)
  BY <1>3
<1>5. /\ \A m \in 1 .. Len(entries') : pos[m] \in kept /\ entries'[m] = entries[pos[m]]
      /\ \A x, y \in 1 .. Len(entries') : x < y => pos[x] < pos[y]
  BY <1>4 DEF Keeps
<1>6. \A l \in 1 .. n : l # n => l \in 1 .. n - 1
  BY <1>1, <1>2
<1>7. StackInv'
  <2>1. /\ \A k, l \in 1 .. n - 1 : k \in 1 .. n /\ l \in 1 .. n
    BY <1>1, <1>2
  <2>2. stack' # <<>>
    BY <1>1, <1>2
  <2>3. \A k, l \in 1 .. n - 1 : k < l => stack'[k] < stack'[l]
    BY <1>1, <2>1 DEF StackInv, n
  <2>4. \A l \in 1 .. n - 1 : stack'[l] <= subids'
    BY <1>1, <2>1 DEF StackInv, n
  <2> QED
    BY <1>1, <2>2, <2>3, <2>4 DEF StackInv
<1>8. ASSUME NEW i \in kept
      PROVE  \E l \in 1 .. n - 1 : entries[i].subid = stack[l]
  <2>1. PICK l \in 1 .. n : entries[i].subid = stack[l]
    BY DEF LevelsInv, n
  <2> QED
    BY <1>2, <1>6, <2>1
<1>9. \A m \in 1 .. Len(entries') : \E l \in 1 .. Len(stack') : entries'[m].subid = stack'[l]
  <2> HIDE DEF kept
  <2> QED
    BY <1>1, <1>5, <1>8
<1>10. ack' # NoAck => \E l \in 1 .. Len(stack') : ack' = stack'[l]
  <2>1. SUFFICES ASSUME ack # NoAck, ack # Current PROVE \E l \in 1 .. n - 1 : ack = stack[l]
    BY <1>1
  <2>2. PICK l \in 1 .. n : ack = stack[l]
    BY <2>1 DEF LevelsInv, n
  <2> QED
    BY <1>2, <1>6, <2>1, <2>2
<1>11. \A x, y \in 1 .. Len(entries') :
          x < y /\ entries'[x].user = entries'[y].user => entries'[x].subid < entries'[y].subid
  <2>1. \A i \in kept : i \in 1 .. Len(entries)
    OBVIOUS
  <2>2. \A i, j \in kept :
          i < j /\ entries[i].user = entries[j].user => entries[i].subid < entries[j].subid
    BY <2>1 DEF LevelsInv
  <2> HIDE DEF kept
  <2> QED
    BY <1>5, <2>2
<1> QED
  BY <1>7, <1>9, <1>10, <1>11 DEF LevelsInv

LEMMA LevelsStep ==
    ASSUME TypeOK, StackInv, LevelsInv, [Next]_vars
    PROVE  StackInv' /\ LevelsInv'
<1>1. CASE Begin
  <2>1. /\ ~InTransaction /\ Len(stack') = 1 /\ stack'[1] = 1 /\ subids' = 1 /\ stack' = <<1>>
        /\ UNCHANGED <<entries, ack, failed, caches, kinds, mixed>>
    BY <1>1, BeginIs
  <2>2. entries = <<>> /\ ack = NoAck
    BY <2>1 DEF StackInv, InTransaction
  <2>3. Len(entries') = 0 /\ ack' = NoAck
    BY <2>1, <2>2
  <2>4. LevelsInv'
    BY <2>3 DEF LevelsInv
  <2>5. stack' # <<>>
    BY <2>1
  <2> QED
    BY <2>1, <2>4, <2>5 DEF StackInv
<1>2. CASE Commit \/ Rollback \/ Prepare
  <2>1. /\ entries' = <<>> /\ ack' = NoAck /\ stack' = <<>> /\ failed' = FALSE
    BY <1>2 DEF Commit, Rollback, Prepare, EndWith
  <2>2. Len(entries') = 0 /\ Len(stack') = 0
    BY <2>1
  <2> QED
    BY <2>1, <2>2 DEF StackInv, LevelsInv
<1>3. CASE StageLock \/ StageExpiry \/ StageCombined
  <2>1. PICK user \in User, kind \in Kind, lock \in Decision, expiry \in Decision :
           Operation(user, kind, lock, expiry)
    BY <1>3, StagingKinds
  <2> QED
    BY <2>1, OperationLevels
<1>4. CASE StageAck
  <2>1. /\ InTransaction /\ ack' = Current
        /\ UNCHANGED <<entries, stack, subids, failed, caches, kinds, mixed>>
    BY <1>4, StageAckIs
  <2>2. Len(stack) \in 1 .. Len(stack) /\ Current = stack[Len(stack)]
    BY <2>1, LevelsTyped
  <2> QED
    BY <2>1, <2>2 DEF StackInv, LevelsInv, InTransaction
<1>5. CASE Fail
  BY <1>5 DEF Fail, staging, ran, StackInv, LevelsInv, InTransaction
<1>6. CASE Savepoint
  <2> DEFINE n == Len(stack)
  <2>1. /\ InTransaction /\ ~failed /\ subids' = subids + 1
        /\ Len(stack') = n + 1 /\ stack'[n + 1] = subids + 1
        /\ \A l \in 1 .. n : stack'[l] = stack[l]
        /\ UNCHANGED <<entries, ack, failed, caches, kinds, mixed>>
    BY <1>6, SavepointIs
  <2>2. n \in Nat /\ subids \in Nat /\ \A l \in 1 .. n : stack[l] \in Nat
    BY LevelsTyped
  <2>3. /\ \A l \in 1 .. n : stack[l] <= subids
        /\ \A k, l \in 1 .. n : k < l => stack[k] < stack[l]
    BY DEF StackInv
  <2> HIDE DEF n
  <2>4. \A l \in 1 .. n + 1 : l \in 1 .. n \/ l = n + 1
    BY <2>2
  <2>5. \A l \in 1 .. n : l \in 1 .. n + 1
    BY <2>2
  <2>6. ASSUME NEW k \in 1 .. n + 1, NEW l \in 1 .. n + 1, k < l PROVE stack'[k] < stack'[l]
    <3>1. k \in 1 .. n
      BY <2>2, <2>6
    <3>2. CASE l \in 1 .. n
      BY <2>1, <2>3, <2>6, <3>1, <3>2
    <3>3. CASE l = n + 1
      BY <2>1, <2>2, <2>3, <3>1, <3>3
    <3> QED
      BY <2>4, <3>2, <3>3
  <2>7. \A l \in 1 .. n + 1 : stack'[l] <= subids'
    <3> TAKE l \in 1 .. n + 1
    <3>1. CASE l \in 1 .. n
      BY <2>1, <2>2, <2>3, <3>1
    <3>2. CASE l = n + 1
      BY <2>1, <2>2, <3>2
    <3> QED
      BY <2>4, <3>1, <3>2
  <2>8. stack' # <<>>
    BY <2>1, <2>2
  <2>9. StackInv'
    BY <2>1, <2>6, <2>7, <2>8 DEF StackInv
  <2>10. LevelsInv'
    BY <2>1, <2>5 DEF LevelsInv, n
  <2> QED
    BY <2>9, <2>10
<1>7. CASE ReleaseSavepoint
  BY <1>7, ReleaseLevels
<1>8. CASE RollbackToSavepoint
  BY <1>8, RollbackToLevels
<1>9. CASE UNCHANGED vars
  BY <1>9 DEF vars, staging, transaction, ran, StackInv, LevelsInv
<1> QED
  BY <1>1, <1>2, <1>3, <1>4, <1>5, <1>6, <1>7, <1>8, <1>9 DEF Next

----------------------------------------------------------------------------
(* What the entries decide about. *)

\* An operation adds its kind to those of its user.
LEMMA KindsGrow ==
    ASSUME TypeOK, NEW user \in User, NEW kind \in Kind, NEW lock \in Decision,
           NEW expiry \in Decision, Operation(user, kind, lock, expiry)
    PROVE  /\ kind \in kinds'[user] /\ \A u \in User : kinds[u] \subseteq kinds'[u]
           /\ Single' \subseteq Single
<1>1. kinds' = [kinds EXCEPT ![user] = @ \cup {kind}] /\ mixed' = mixed
  BY OperationIs
<1>2. kinds \in [User -> SUBSET Kind]
  BY DEF TypeOK
<1>3. kind \in kinds'[user] /\ \A u \in User : kinds[u] \subseteq kinds'[u]
  BY <1>1, <1>2
<1>4. Single' \subseteq Single
  BY <1>1, <1>3 DEF Single, Mixing
<1> QED
  BY <1>3, <1>4

LEMMA OperationShapes ==
    ASSUME TypeOK, ShapesInv, NEW user \in User, NEW kind \in Kind, NEW lock \in Decision,
           NEW expiry \in Decision, Operation(user, kind, lock, expiry),
           Decides(kind, lock, expiry)
    PROVE  ShapesInv'
<1> DEFINE e == [user |-> user, lock |-> lock, expiry |-> expiry, subid |-> Current]
<1>1. e \in Entry /\ (entries' = entries \/ entries' = Staged(entries, e))
  BY OperationIs
<1>2. Shaped(kinds', e)
  <2>1. kind \in kinds'[user]
    BY KindsGrow
  <2> QED
    BY <2>1 DEF Shaped
<1> HIDE DEF e
<1>3. entries \in Seq(Entry) /\ Len(entries) \in Nat
  BY LevelsTyped DEF TypeOK
<1>6. \A i \in 1 .. Len(entries) : Shaped(kinds', entries[i])
  <2>1. \A i \in 1 .. Len(entries) : Shaped(kinds, entries[i]) /\ entries[i].user \in User
    BY <1>3, ListFields DEF ShapesInv
  <2>2. \A u \in User : kinds[u] \subseteq kinds'[u]
    BY KindsGrow
  <2> QED
    BY <2>1, <2>2 DEF Shaped
<1>4. CASE entries' = entries
  BY <1>4, <1>6 DEF ShapesInv
<1>5. CASE entries' = Staged(entries, e)
  <2>1. PICK k \in 1 .. Len(entries) + 1 :
           /\ entries' \in Seq(Entry) /\ entries'[k] = e
           /\ Len(entries') = IF k <= Len(entries) THEN Len(entries) ELSE Len(entries) + 1
           /\ \A i \in 1 .. Len(entries) : i # k => entries'[i] = entries[i]
           /\ k <= Len(entries) => entries[k].user = e.user /\ entries[k].subid = e.subid
           /\ k > Len(entries) => Matches(entries, e.user, e.subid) = {}
    <3>1. PICK k \in 1 .. Len(entries) + 1 : Puts(entries, e, Staged(entries, e), k)
      BY <1>1, <1>3, StagedIs
    <3>2. Puts(entries, e, entries', k)
      BY <1>5, <3>1
    <3> QED
      BY <3>2 DEF Puts
  <2>2. \A i \in 1 .. Len(entries') : i # k => i \in 1 .. Len(entries)
    BY <1>3, <2>1
  <2>3. \A i \in 1 .. Len(entries) : Shaped(kinds', entries[i])
    BY <1>6
  <2>4. ASSUME NEW i \in 1 .. Len(entries') PROVE Shaped(kinds', entries'[i])
    <3>1. CASE i = k
      BY <1>2, <2>1, <3>1
    <3>2. CASE i # k
      <4>1. i \in 1 .. Len(entries) /\ entries'[i] = entries[i]
        BY <2>1, <2>2, <3>2
      <4> QED
        BY <2>3, <4>1
    <3> QED
      BY <3>1, <3>2
  <2> QED
    BY <2>4 DEF ShapesInv
<1> QED
  BY <1>1, <1>4, <1>5

LEMMA ReleaseShapes ==
    ASSUME TypeOK, ShapesInv, ReleaseSavepoint
    PROVE  ShapesInv'
<1> DEFINE parent == stack[Len(stack) - 1]
           g == Given(entries, Current, parent)
           kept == {i \in 1 .. Len(g) : ~Superseded(g, i)}
<1>1. /\ parent \in Subid /\ entries' = Adopted(entries, Current, parent) /\ entries \in Seq(Entry)
      /\ kinds' = kinds
  BY ReleaseIs DEF TypeOK
<1>2. /\ Len(g) = Len(entries)
      /\ \A i \in 1 .. Len(entries) :
            /\ g[i].user = entries[i].user /\ g[i].lock = entries[i].lock
            /\ g[i].expiry = entries[i].expiry
  BY <1>1, GivenIs
<1>3. \E pos : Keeps(g, kept, entries', pos)
  BY <1>1, AdoptedIs
<1> HIDE DEF parent, g
<1>4. PICK pos : Keeps(g, kept, entries', pos)
  BY <1>3
<1>5. \A m \in 1 .. Len(entries') : pos[m] \in 1 .. Len(entries) /\ entries'[m] = g[pos[m]]
  BY <1>2, <1>4 DEF Keeps
<1>6. \A i \in 1 .. Len(entries) : Shaped(kinds, g[i])
  <2> TAKE i \in 1 .. Len(entries)
  <2>1. Shaped(kinds, entries[i])
    BY DEF ShapesInv
  <2> QED
    BY <1>2, <2>1 DEF Shaped
<1>7. ASSUME NEW m \in 1 .. Len(entries') PROVE Shaped(kinds', entries'[m])
  BY <1>1, <1>5, <1>6
<1> QED
  BY <1>7 DEF ShapesInv

LEMMA RollbackToShapes ==
    ASSUME TypeOK, ShapesInv, RollbackToSavepoint
    PROVE  ShapesInv'
<1> DEFINE kept == {i \in 1 .. Len(entries) : entries[i].subid # Current}
<1>1. /\ entries' = Discarded(entries, Current) /\ entries \in Seq(Entry)
      /\ kinds' = kinds
  BY RollbackToIs DEF TypeOK
<1>2. PICK pos : Keeps(entries, kept, entries', pos)
  BY <1>1, DiscardedIs
<1>3. \A m \in 1 .. Len(entries') : pos[m] \in 1 .. Len(entries) /\ entries'[m] = entries[pos[m]]
  BY <1>2 DEF Keeps
<1>4. ASSUME NEW m \in 1 .. Len(entries') PROVE Shaped(kinds', entries'[m])
  <2>1. Shaped(kinds, entries[pos[m]])
    BY <1>3 DEF ShapesInv
  <2> QED
    BY <1>1, <1>3, <2>1
<1> QED
  BY <1>4 DEF ShapesInv

LEMMA ShapesStep ==
    ASSUME TypeOK, StackInv, ShapesInv, [Next]_vars
    PROVE  ShapesInv'
<1>1. CASE StageLock \/ StageExpiry \/ StageCombined
  BY <1>1, StagingKinds, OperationShapes
<1>2. CASE ReleaseSavepoint
  BY <1>2, ReleaseShapes
<1>3. CASE RollbackToSavepoint
  BY <1>3, RollbackToShapes
<1>4. CASE Commit \/ Rollback \/ Prepare
  <2>1. Len(entries') = 0
    BY <1>4 DEF Commit, Rollback, Prepare, EndWith
  <2> QED
    BY <2>1 DEF ShapesInv
<1>5. CASE Begin \/ StageAck \/ Fail \/ Savepoint \/ UNCHANGED vars
  <2>1. entries' = entries /\ kinds' = kinds
    BY <1>5 DEF Begin, StageAck, Fail, Savepoint, vars, staging, ran
  <2> QED
    BY <2>1 DEF ShapesInv
<1> QED
  BY <1>1, <1>2, <1>3, <1>4, <1>5 DEF Next

----------------------------------------------------------------------------
(* What the levels see. *)

LEMMA SettlesView ==
    ASSUME NEW g, NEW c, NEW v, NEW w, NEW list, NEW s, Settles(g, c, list, s, v),
           v.lock = w.lock, v.expiry = w.expiry
    PROVE  Settles(g, c, list, s, w)
BY DEF Settles, Settled

\* The subids of a list, as numbers.
LEMMA SubidsTyped ==
    ASSUME NEW list \in Seq(Entry)
    PROVE  Len(list) \in Nat /\ \A i \in 1 .. Len(list) : list[i].subid \in Nat
<1>1. MaxSubids \in Nat
  BY PendingAssumption
<1>2. \A x \in Subid : x \in Nat
  BY <1>1 DEF Subid
<1> QED
  BY <1>2, ListFields

\* The last level sees every entry, and every entry is below any later level.
LEMMA WithinLast ==
    ASSUME TypeOK, StackInv, LevelsInv, InTransaction, NEW b \in Nat, Current <= b
    PROVE  /\ Within(entries, b) = 1 .. Len(entries)
           /\ ack # NoAck => ack <= b
<1>1. Len(stack) \in Nat /\ Current \in Nat /\ \A l \in 1 .. Len(stack) : stack[l] \in Nat
  BY LevelsTyped
<1>2. \A l \in 1 .. Len(stack) : stack[l] <= b
  <2> TAKE l \in 1 .. Len(stack)
  <2>1. stack[l] <= Current /\ stack[l] \in Nat
    BY <1>1, LastIsGreatest
  <2> QED
    BY <1>1, <2>1
<1>3. \A i \in 1 .. Len(entries) : entries[i].subid <= b
  BY <1>2 DEF LevelsInv
<1> QED
  BY <1>2, <1>3 DEF Within, LevelsInv

\* Staging an entry at the last level, where all entries count.
LEMMA StagedSettles ==
    ASSUME NEW g \in SUBSET User, NEW ks, OneKind(ks, g), NEW c \in View, NEW v \in View, NEW list \in Seq(Entry),
           NEW e \in Entry, Shaped(ks, e), \A i \in 1 .. Len(list) : Shaped(ks, list[i]),
           Settles(g, c, list, 1 .. Len(list), v),
           \A i \in 1 .. Len(list) : list[i].subid <= e.subid,
           \A i, j \in 1 .. Len(list) :
              i < j /\ list[i].user = list[j].user => list[i].subid < list[j].subid,
           NEW r \in Seq(Entry), NEW k \in 1 .. Len(list) + 1, r[k] = e,
           Len(r) = IF k <= Len(list) THEN Len(list) ELSE Len(list) + 1,
           \A i \in 1 .. Len(list) : i # k => r[i] = list[i],
           k <= Len(list) => list[k].user = e.user /\ list[k].subid = e.subid
    PROVE  Settles(g, c, r, 1 .. Len(r), ApplyEntry(v, e))
<1> DEFINE w == ApplyEntry(v, e)
<1>0. Len(list) \in Nat /\ Len(r) \in Nat
  OBVIOUS
<1>1. /\ \A u \in User :
            /\ w.lock[u] = IF u = e.user /\ e.lock # Untouched THEN e.lock ELSE v.lock[u]
            /\ w.expiry[u] = IF u = e.user /\ e.expiry # Untouched THEN e.expiry ELSE v.expiry[u]
  BY ApplyEntryFields
<1> HIDE DEF w
<1>2. k \in 1 .. Len(r) /\ \A i \in 1 .. Len(r) : i # k => i \in 1 .. Len(list)
  BY <1>0
<1>3. \A i \in 1 .. Len(list) : i \in 1 .. Len(r)
  BY <1>0
<1>4. \A i \in 1 .. Len(list) : list[i].subid \in Nat
  BY SubidsTyped
<1>5. e.user \in User
  BY DEF Entry
<1> SUFFICES ASSUME NEW u \in g
             PROVE  \/ /\ \A i \in 1 .. Len(r) : r[i].user # u
                       /\ w.lock[u] = c.lock[u] /\ w.expiry[u] = c.expiry[u]
                    \/ \E i \in 1 .. Len(r) :
                          /\ r[i].user = u /\ Settled(c, r[i], w)
                          /\ \A j \in 1 .. Len(r) : r[j].user = u => j <= i
  BY DEF Settles, w
<1>6. \/ /\ \A i \in 1 .. Len(list) : list[i].user # u
         /\ v.lock[u] = c.lock[u] /\ v.expiry[u] = c.expiry[u]
      \/ \E i \in 1 .. Len(list) :
            /\ list[i].user = u /\ Settled(c, list[i], v)
            /\ \A j \in 1 .. Len(list) : list[j].user = u => j <= i
  BY DEF Settles
<1>7. CASE u # e.user
  <2>1. w.lock[u] = v.lock[u] /\ w.expiry[u] = v.expiry[u]
    BY <1>1, <1>7
  <2>2. r[k].user # u
    BY <1>7
  <2>3. \A i \in 1 .. Len(list) : list[i].user = u => i # k
    BY <1>0, <1>7
  <2>4. CASE /\ \A i \in 1 .. Len(list) : list[i].user # u
             /\ v.lock[u] = c.lock[u] /\ v.expiry[u] = c.expiry[u]
    <3>1. \A i \in 1 .. Len(r) : r[i].user # u
      BY <1>2, <2>2, <2>4
    <3> QED
      BY <2>1, <2>4, <3>1
  <2>5. CASE \E i \in 1 .. Len(list) :
                /\ list[i].user = u /\ Settled(c, list[i], v)
                /\ \A j \in 1 .. Len(list) : list[j].user = u => j <= i
    <3>1. PICK i \in 1 .. Len(list) :
             /\ list[i].user = u /\ Settled(c, list[i], v)
             /\ \A j \in 1 .. Len(list) : list[j].user = u => j <= i
      BY <2>5
    <3>2. r[i] = list[i] /\ i \in 1 .. Len(r)
      BY <1>3, <2>3, <3>1
    <3>3. \A j \in 1 .. Len(r) : r[j].user = u => j <= i
      BY <1>2, <2>2, <3>1
    <3>4. Settled(c, r[i], w)
      BY <2>1, <3>1, <3>2 DEF Settled
    <3> QED
      BY <3>1, <3>2, <3>3, <3>4
  <2> QED
    BY <1>6, <2>4, <2>5
<1>8. CASE u = e.user
  <2>1. ASSUME NEW j \in 1 .. Len(r), r[j].user = u PROVE j <= k
    <3>1. CASE k <= Len(list)
      <4>1. k \in 1 .. Len(list) /\ list[k].user = u /\ list[k].subid = e.subid
        BY <1>0, <1>8, <3>1
      <4>2. CASE j # k
        <5>1. j \in 1 .. Len(list) /\ list[j].user = u
          BY <1>2, <2>1, <4>2
        <5>2. ~(k < j)
          <6>1. k < j => list[k].subid < list[j].subid
            BY <4>1, <5>1
          <6>2. list[j].subid <= list[k].subid /\ list[j].subid \in Nat /\ list[k].subid \in Nat
            BY <1>4, <4>1, <5>1
          <6> QED
            BY <6>1, <6>2
        <5> QED
          BY <4>1, <5>1, <5>2
      <4>3. CASE j = k
        BY <4>1, <4>3
      <4> QED
        BY <4>2, <4>3
    <3>2. CASE ~(k <= Len(list))
      BY <1>0, <3>2
    <3> QED
      BY <3>1, <3>2
  <2>2. /\ e.lock = Untouched => v.lock[u] = c.lock[u]
        /\ e.expiry = Untouched => v.expiry[u] = c.expiry[u]
    <3>1. CASE v.lock[u] = c.lock[u] /\ v.expiry[u] = c.expiry[u]
      BY <3>1
    <3>2. CASE \E i \in 1 .. Len(list) : list[i].user = u /\ Settled(c, list[i], v)
      <4>1. PICK i \in 1 .. Len(list) : list[i].user = u /\ Settled(c, list[i], v)
        BY <3>2
      <4>2. /\ list[i].lock = Untouched <=> e.lock = Untouched
            /\ list[i].expiry = Untouched <=> e.expiry = Untouched
        BY <1>5, <1>8, <4>1 DEF Shaped, Decides, OneKind
      <4> QED
        BY <4>1, <4>2 DEF Settled
    <3> QED
      BY <1>6, <3>1, <3>2
  <2>3. Settled(c, e, w)
    BY <1>1, <1>8, <2>2 DEF Settled
  <2> QED
    BY <1>2, <1>8, <2>1, <2>3
<1> QED
  BY <1>7, <1>8

\* A level that no step of the deeper ones disturbs.
LEMMA SeesSame ==
    ASSUME NEW g, NEW c, NEW list, NEW r, NEW a, NEW b, NEW v, Sees(g, c, list, a, b, v),
           Within(r, b) = Within(list, b), \A i \in Within(list, b) : r[i] = list[i]
    PROVE  Sees(g, c, r, a, b, v)
<1>1. Settles(g, c, r, Within(list, b), v)
  BY SettlesSame DEF Sees
<1> QED
  BY <1>1 DEF Sees

LEMMA OperationViews ==
    ASSUME IndInv, NEW user \in User, NEW kind \in Kind, NEW lock \in Decision,
           NEW expiry \in Decision, Operation(user, kind, lock, expiry),
           Decides(kind, lock, expiry)
    PROVE  ViewsInv'
<1> DEFINE e == [user |-> user, lock |-> lock, expiry |-> expiry, subid |-> Current]
           n == Len(stack)
<1>0. TypeOK /\ StackInv /\ LevelsInv /\ ShapesInv /\ ViewsInv
  BY DEF IndInv
<1>1. /\ InTransaction /\ ~failed /\ e \in Entry
      /\ views'[n + 1] = ApplyEntry(views[n + 1], e)
      /\ \A l \in 0 .. n - 1 : views'[l + 1] = views[l + 1]
      /\ \/ Exceeds(entries, e) /\ failed' /\ entries' = entries
         \/ ~Exceeds(entries, e) /\ entries' = Staged(entries, e) /\ ~failed'
      /\ UNCHANGED <<ack, stack, subids, caches, mixed>>
  BY <1>0, OperationIs
<1>2. e.subid = Current /\ Shaped(kinds', e)
  BY <1>0, KindsGrow DEF Shaped
<1>3. /\ n \in Nat /\ n # 0 /\ Current = stack[n] /\ Current \in Nat
      /\ \A l \in 1 .. n : stack[l] \in Nat
      /\ views[n + 1] \in View
  BY <1>0, <1>1, LevelsTyped
<1>4. caches \in View /\ entries \in Seq(Entry)
  BY <1>0 DEF TypeOK
<1>5. \A l \in 1 .. n : Sees(Single', caches, entries, ack, stack[l], views[l + 1])
  <2>1. \A l \in 1 .. n : Sees(Single, caches, entries, ack, stack[l], views[l + 1])
    BY <1>0, <1>1 DEF ViewsInv
  <2>2. Single' \subseteq Single
    BY <1>0, KindsGrow
  <2> QED
    BY <2>1, <2>2, SettlesFewer DEF Sees
<1>6. \A l \in 1 .. n - 1 : stack[l] < Current
  BY <1>0, <1>1, LastIsGreatest
<1> HIDE DEF e, n
<1>7. Agree(User \ mixed', caches', views'[1])
  <2>1. 0 \in 0 .. n - 1
    BY <1>3
  <2>2. views'[0 + 1] = views[0 + 1]
    BY <1>1, <2>1
  <2> QED
    BY <1>0, <1>1, <2>2 DEF ViewsInv
<1>8. CASE failed' /\ entries' = entries
  <2>1. ASSUME NEW l \in 1 .. n, l < n
        PROVE  Sees(Single', caches', entries', ack', stack'[l], views'[l + 1])
    <3>1. l \in 0 .. n - 1
      BY <1>3, <2>1
    <3> QED
      BY <1>1, <1>5, <1>8, <3>1
  <2> QED
    BY <1>1, <1>7, <1>8, <2>1 DEF ViewsInv, n
<1>9. CASE entries' = Staged(entries, e) /\ ~failed'
  <2>0. Len(entries) \in Nat /\ \A i \in 1 .. Len(entries) : entries[i].subid \in Nat
    BY <1>4, SubidsTyped
  <2>1. PICK k \in 1 .. Len(entries) + 1 :
           /\ entries' \in Seq(Entry) /\ entries'[k] = e
           /\ Len(entries') = IF k <= Len(entries) THEN Len(entries) ELSE Len(entries) + 1
           /\ \A i \in 1 .. Len(entries) : i # k => entries'[i] = entries[i]
           /\ k <= Len(entries) => entries[k].user = e.user /\ entries[k].subid = e.subid
           /\ k > Len(entries) => Matches(entries, e.user, e.subid) = {}
    <3>1. PICK k \in 1 .. Len(entries) + 1 : Puts(entries, e, Staged(entries, e), k)
      BY <1>1, <1>4, StagedIs
    <3>2. Puts(entries, e, entries', k)
      BY <1>9, <3>1
    <3> QED
      BY <3>2 DEF Puts
  <2>2. k \in 1 .. Len(entries') /\ \A i \in 1 .. Len(entries') : i # k => i \in 1 .. Len(entries)
    BY <2>0, <2>1
  <2>3. \A i \in 1 .. Len(entries) : i \in 1 .. Len(entries')
    BY <2>0, <2>1
  <2>4. ASSUME NEW l \in 1 .. n, l # n
        PROVE  Sees(Single', caches', entries', ack', stack'[l], views'[l + 1])
    <3>1. l \in 0 .. n - 1 /\ l \in 1 .. n - 1
      BY <1>3, <2>4
    <3> DEFINE b == stack[l]
    <3>2. b < e.subid /\ b \in Nat /\ e.subid \in Nat
      BY <1>2, <1>3, <1>6, <3>1
    <3> HIDE DEF b
    <3>3. \A i \in Within(entries, b) : i # k
      <4>1. ~(entries'[k].subid <= b)
        BY <2>1, <3>2
      <4>2. k <= Len(entries) => ~(entries[k].subid <= b)
        BY <2>1, <3>2
      <4> QED
        BY <2>0, <4>2 DEF Within
    <3>4. Within(entries', b) = Within(entries, b)
      <4>1. ~(entries'[k].subid <= b)
        BY <2>1, <3>2
      <4> QED
        BY <2>1, <2>2, <2>3, <3>3, <4>1 DEF Within
    <3>5. \A i \in Within(entries, b) : entries'[i] = entries[i]
      BY <2>1, <3>3 DEF Within
    <3>6. Sees(Single', caches, entries', ack, b, views[l + 1])
      BY <1>5, <3>4, <3>5, SeesSame DEF b
    <3> QED
      BY <1>1, <3>1, <3>6 DEF b
  <2>5. Sees(Single', caches', entries', ack', stack'[n], views'[n + 1])
    <3> DEFINE v == views[n + 1]
               w == ApplyEntry(v, e)
    <3>1. Sees(Single', caches, entries, ack, Current, v)
      <4>1. n \in 1 .. n
        BY <1>3
      <4> QED
        BY <1>3, <1>5, <4>1
    <3>2. Within(entries, Current) = 1 .. Len(entries)
      BY <1>0, <1>1, <1>3, WithinLast
    <3>3. Within(entries', Current) = 1 .. Len(entries')
      <4>1. ASSUME NEW i \in 1 .. Len(entries') PROVE entries'[i].subid <= Current
        <5>1. CASE i = k
          BY <1>2, <1>3, <2>1, <5>1
        <5>2. CASE i # k
          <6>1. i \in 1 .. Len(entries) /\ entries'[i] = entries[i]
            BY <2>1, <2>2, <5>2
          <6> QED
            BY <3>2, <6>1 DEF Within
        <5> QED
          BY <5>1, <5>2
      <4> QED
        BY <4>1 DEF Within
    <3>4. \A i \in 1 .. Len(entries) : entries[i].subid <= e.subid
      BY <1>2, <3>2 DEF Within
    <3>5. Settles(Single', caches, entries, 1 .. Len(entries), v) /\ v \in View
      BY <1>3, <3>1, <3>2 DEF Sees
    <3>6. \A i \in 1 .. Len(entries) : Shaped(kinds', entries[i])
      <4>1. \A i \in 1 .. Len(entries) : Shaped(kinds, entries[i]) /\ entries[i].user \in User
        BY <1>0, <1>4, ListFields DEF ShapesInv
      <4>2. \A u \in User : kinds[u] \subseteq kinds'[u]
        BY <1>0, KindsGrow
      <4> QED
        BY <4>1, <4>2 DEF Shaped
    <3>11. Single' \in SUBSET User /\ OneKind(kinds', Single')
      BY DEF Single, Mixing, OneKind
    <3>7. \A i, j \in 1 .. Len(entries) :
            i < j /\ entries[i].user = entries[j].user => entries[i].subid < entries[j].subid
      BY <1>0 DEF LevelsInv
    <3> HIDE DEF v
    <3>8. Settles(Single', caches, entries', 1 .. Len(entries'), w)
      BY <1>1, <1>2, <1>4, <2>1, <3>4, <3>5, <3>6, <3>7, <3>11, StagedSettles
    <3>9. w.events = v.events
      BY <1>1, <3>5, ApplyEntryFields
    <3> HIDE DEF w
    <3>10. Sees(Single', caches, entries', ack, Current, w)
      BY <3>1, <3>3, <3>8, <3>9 DEF Sees
    <3> QED
      BY <1>1, <1>3, <3>10 DEF v, w
  <2> QED
    BY <1>1, <1>7, <2>4, <2>5 DEF ViewsInv, n
<1> QED
  BY <1>1, <1>8, <1>9

LEMMA BeginViews ==
    ASSUME IndInv, Begin
    PROVE  ViewsInv'
<1>0. TypeOK /\ StackInv /\ ViewsInv
  BY DEF IndInv
<1>1. /\ ~InTransaction /\ Len(stack') = 1
      /\ views'[1] = views[1] /\ views'[2] = views[1]
      /\ UNCHANGED <<entries, ack, failed, caches, kinds, mixed>>
  BY <1>0, BeginIs
<1>2. entries = <<>> /\ ack = NoAck
  BY <1>0, <1>1 DEF StackInv, InTransaction
<1>3. Agree(User \ mixed, caches, views[1]) /\ mixed' = mixed
  BY <1>0, <1>1 DEF ViewsInv
<1>4. Sees(Single', caches', entries', ack', stack'[1], views'[2])
  <2>1. Within(entries', stack'[1]) = {}
    BY <1>1, <1>2 DEF Within
  <2>2. Settles(Single', caches', entries', {}, views'[2])
    <3>1. Single' = Single /\ Single \subseteq User \ mixed
      BY <1>1, SingleKept, SingleIs
    <3> QED
      BY <1>1, <1>3, <3>1 DEF Settles, Agree
  <2> QED
    BY <1>1, <1>2, <1>3, <2>1, <2>2 DEF Sees, Agree
<1>5. \A l \in 1 .. Len(stack') : l = 1 /\ l + 1 = 2
  BY <1>1
<1> QED
  BY <1>1, <1>3, <1>4, <1>5 DEF ViewsInv

LEMMA StageAckViews ==
    ASSUME IndInv, StageAck
    PROVE  ViewsInv'
<1> DEFINE n == Len(stack)
<1>0. TypeOK /\ StackInv /\ LevelsInv /\ ViewsInv
  BY DEF IndInv
<1>1. /\ InTransaction /\ ~failed /\ ack = NoAck /\ ack' = Current
      /\ views'[n + 1].lock = views[n + 1].lock
      /\ views'[n + 1].expiry = views[n + 1].expiry
      /\ views'[n + 1].events = 1 - views[n + 1].events
      /\ \A l \in 0 .. n - 1 : views'[l + 1] = views[l + 1]
      /\ UNCHANGED <<entries, stack, subids, failed, caches, kinds, mixed>>
  BY <1>0, StageAckIs
<1>2. /\ n \in Nat /\ n # 0 /\ Current = stack[n] /\ Current \in Nat \ {0}
      /\ \A l \in 1 .. n : stack[l] \in Nat
  BY <1>0, <1>1, LevelsTyped
<1>3. \A l \in 1 .. n : Sees(Single, caches, entries, ack, stack[l], views[l + 1])
  BY <1>0, <1>1 DEF ViewsInv
<1>4. \A l \in 1 .. n - 1 : stack[l] < Current
  BY <1>0, <1>1, LastIsGreatest
<1> HIDE DEF n
<1>5. Agree(User \ mixed', caches', views'[1])
  <2>1. 0 \in 0 .. n - 1
    BY <1>2
  <2>2. views'[0 + 1] = views[0 + 1]
    BY <1>1, <2>1
  <2> QED
    BY <1>0, <1>1, <2>2 DEF ViewsInv
<1>6. ASSUME NEW l \in 1 .. n
      PROVE  Sees(Single, caches', entries', ack', stack'[l], views'[l + 1])
  <2>1. /\ Settles(Single, caches, entries, Within(entries, stack[l]), views[l + 1])
        /\ views[l + 1].events = caches.events
    BY <1>1, <1>3 DEF Sees
  <2>2. CASE l = n
    <3>1. Settles(Single, caches, entries, Within(entries, stack[l]), views'[l + 1])
      BY <1>1, <2>1, <2>2, SettlesView
    <3>2. views'[l + 1].events = 1 - caches.events
      BY <1>1, <2>1, <2>2
    <3>3. Current # NoAck /\ Current <= stack[l]
      BY <1>2, <2>2 DEF NoAck
    <3> QED
      BY <1>1, <3>1, <3>2, <3>3 DEF Sees
  <2>3. CASE l # n
    <3>1. l \in 0 .. n - 1 /\ l \in 1 .. n - 1
      BY <1>2, <2>3
    <3>2. ~(Current <= stack[l])
      BY <1>2, <1>4, <3>1
    <3> QED
      BY <1>1, <2>1, <3>1, <3>2 DEF Sees
  <2> QED
    BY <2>2, <2>3
<1>20. Single' = Single
  BY <1>1, SingleKept
<1> QED
  BY <1>20, <1>1, <1>5, <1>6 DEF ViewsInv, n

LEMMA SavepointViews ==
    ASSUME IndInv, Savepoint
    PROVE  ViewsInv'
<1> DEFINE n == Len(stack)
<1>0. TypeOK /\ StackInv /\ LevelsInv /\ ViewsInv
  BY DEF IndInv
<1>1. /\ InTransaction /\ ~failed
      /\ Len(stack') = n + 1 /\ stack'[n + 1] = subids + 1
      /\ \A l \in 1 .. n : stack'[l] = stack[l]
      /\ views'[n + 2] = views[n + 1]
      /\ \A l \in 0 .. n : views'[l + 1] = views[l + 1]
      /\ UNCHANGED <<entries, ack, failed, caches, kinds, mixed>>
  BY <1>0, SavepointIs
<1>2. n \in Nat /\ n # 0 /\ Current = stack[n] /\ Current \in Nat /\ subids \in Nat
  BY <1>0, <1>1, LevelsTyped
<1>3. \A l \in 1 .. n : Sees(Single, caches, entries, ack, stack[l], views[l + 1])
  BY <1>0, <1>1 DEF ViewsInv
<1>4. Current <= subids
  BY <1>0, <1>2 DEF StackInv
<1>5. /\ Within(entries, Current) = 1 .. Len(entries) /\ (ack # NoAck => ack <= Current)
      /\ Within(entries, subids + 1) = 1 .. Len(entries) /\ (ack # NoAck => ack <= subids + 1)
  <2>1. Current <= Current /\ subids + 1 \in Nat /\ Current <= subids + 1
    BY <1>2, <1>4
  <2> QED
    BY <1>0, <1>1, <1>2, <2>1, WithinLast
<1> HIDE DEF n
<1>6. Agree(User \ mixed', caches', views'[1])
  <2>1. 0 \in 0 .. n
    BY <1>2
  <2>2. views'[0 + 1] = views[0 + 1]
    BY <1>1, <2>1
  <2> QED
    BY <1>0, <1>1, <2>2 DEF ViewsInv
<1>7. ASSUME NEW l \in 1 .. n + 1
      PROVE  Sees(Single, caches', entries', ack', stack'[l], views'[l + 1])
  <2>1. CASE l = n + 1
    <3>1. n \in 1 .. n /\ l + 1 = n + 2
      BY <1>2, <2>1
    <3>2. Sees(Single, caches, entries, ack, Current, views[n + 1])
      BY <1>2, <1>3, <3>1
    <3>3. Sees(Single, caches, entries, ack, subids + 1, views[n + 1])
      BY <1>5, <3>2 DEF Sees
    <3> QED
      BY <1>1, <2>1, <3>1, <3>3
  <2>2. CASE l # n + 1
    <3>1. l \in 1 .. n /\ l \in 0 .. n
      BY <1>2, <2>2
    <3> QED
      BY <1>1, <1>3, <3>1
  <2> QED
    BY <2>1, <2>2
<1>20. Single' = Single
  BY <1>1, SingleKept
<1> QED
  BY <1>20, <1>1, <1>6, <1>7 DEF ViewsInv

\* Releasing a savepoint, at a level where the adopted entries count alike.
LEMMA ReleaseSettles ==
    ASSUME NEW list \in Seq(Entry), NEW subid, NEW parent \in Subid, NEW us, NEW c, NEW v, NEW b \in Nat,
           NEW s \in SUBSET (1 .. Len(list)), Settles(us, c, list, s, v),
           \A i \in 1 .. Len(list) :
              i \in s <=> (IF list[i].subid = subid THEN parent ELSE list[i].subid) <= b,
           NEW r, r = Adopted(list, subid, parent)
    PROVE  Settles(us, c, r, Within(r, b), v)
<1> DEFINE g == Given(list, subid, parent)
           kept == {i \in 1 .. Len(g) : ~Superseded(g, i)}
<1>1. /\ g \in Seq(Entry) /\ Len(g) = Len(list) /\ Len(g) \in Nat
      /\ \A i \in 1 .. Len(list) :
            /\ g[i].user = list[i].user /\ g[i].lock = list[i].lock
            /\ g[i].expiry = list[i].expiry
            /\ g[i].subid = IF list[i].subid = subid THEN parent ELSE list[i].subid
  BY GivenIs
<1>2. r \in Seq(Entry) /\ \E pos : Keeps(g, kept, r, pos)
  BY AdoptedIs
<1>3. kept \in SUBSET (1 .. Len(g))
  OBVIOUS
<1> HIDE DEF g
<1>4. s \in SUBSET (1 .. Len(g)) /\ Settles(us, c, g, s, v)
  <2>1. \A i \in s : /\ g[i].user = list[i].user /\ g[i].lock = list[i].lock
                     /\ g[i].expiry = list[i].expiry
    BY <1>1
  <2>2. s \in SUBSET (1 .. Len(g))
    BY <1>1
  <2>3. Settles(us, c, g, s, v)
    BY <2>1, SettlesSame
  <2> QED
    BY <2>2, <2>3
<1>5. \A i \in 1 .. Len(g) : i \in s <=> g[i].subid <= b
  BY <1>1
<1>6. ASSUME NEW i \in s, \A j \in s : g[j].user = g[i].user => j <= i
      PROVE  i \in kept
  <2>1. i \in 1 .. Len(g)
    BY <1>4
  <2>2. SUFFICES ASSUME Superseded(g, i) PROVE FALSE
    BY <2>1
  <2>3. PICK j \in i + 1 .. Len(g) : g[j].subid = g[i].subid /\ g[j].user = g[i].user
    BY <2>2 DEF Superseded
  <2>4. j \in 1 .. Len(g) /\ ~(j <= i)
    BY <1>1, <2>1, <2>3
  <2>5. j \in s
    BY <1>5, <2>1, <2>3, <2>4
  <2> QED
    BY <1>6, <2>3, <2>4, <2>5
<1> HIDE DEF kept
<1>7. PICK pos : Keeps(g, kept, r, pos)
  BY <1>2
<1> DEFINE t == {m \in 1 .. Len(r) : pos[m] \in s}
<1>8. Settles(us, c, r, t, v)
  BY <1>1, <1>2, <1>3, <1>4, <1>6, <1>7, RetainedSettles
<1>9. t = Within(r, b)
  <2>1. \A m \in 1 .. Len(r) : pos[m] \in 1 .. Len(g) /\ r[m] = g[pos[m]]
    BY <1>3, <1>7 DEF Keeps
  <2> QED
    BY <1>5, <2>1 DEF Within
<1> QED
  BY <1>8, <1>9

LEMMA ReleaseViews ==
    ASSUME IndInv, ReleaseSavepoint
    PROVE  ViewsInv'
<1> DEFINE n == Len(stack)
           parent == stack[n - 1]
<1>0. TypeOK /\ StackInv /\ LevelsInv /\ ViewsInv
  BY DEF IndInv
<1>1. /\ n > 1 /\ n - 1 \in 1 .. n /\ parent \in Subid /\ ~failed /\ InTransaction
      /\ entries' = Adopted(entries, Current, parent)
      /\ ack' = IF ack = Current THEN parent ELSE ack
      /\ Len(stack') = n - 1
      /\ \A l \in 1 .. n - 1 : stack'[l] = stack[l]
      /\ views'[n] = views[n + 1]
      /\ \A l \in 1 .. n - 1 : views'[l] = views[l]
      /\ UNCHANGED <<subids, failed, caches, kinds, mixed>>
  BY <1>0, ReleaseIs
<1>2. /\ n \in Nat /\ Current = stack[n] /\ Current \in Nat \ {0}
      /\ \A l \in 1 .. n : stack[l] \in Nat \ {0}
      /\ entries \in Seq(Entry) /\ Len(entries) \in Nat
  BY <1>0, <1>1, LevelsTyped DEF TypeOK
<1>3. /\ \A l \in 1 .. n - 1 : stack[l] < Current
      /\ \A k, l \in 1 .. n : k <= l => stack[k] <= stack[l]
      /\ \A k, l \in 1 .. n : k < l => stack[k] < stack[l]
  BY <1>0, <1>1, LastIsGreatest DEF StackInv
<1>4. \A l \in 1 .. n : Sees(Single, caches, entries, ack, stack[l], views[l + 1])
  BY <1>0, <1>1 DEF ViewsInv
<1>5. \A i \in 1 .. Len(entries) : entries[i].subid \in Nat
  BY <1>2, SubidsTyped
<1>6. parent \in Nat \ {0} /\ parent < Current
  <2>1. n - 1 \in 1 .. n - 1
    BY <1>1, <1>2
  <2> QED
    BY <1>1, <1>2, <1>3, <2>1
<1>7. \A l \in 1 .. n : l # n => l \in 1 .. n - 1 /\ stack[l] <= parent
  <2> TAKE l \in 1 .. n
  <2>1. l # n => l \in 1 .. n - 1 /\ l <= n - 1
    BY <1>2
  <2> QED
    BY <1>1, <1>3, <2>1
<1>8. Agree(User \ mixed', caches', views'[1])
  <2>1. 1 \in 1 .. n - 1
    BY <1>1, <1>2
  <2> QED
    BY <1>0, <1>1, <2>1 DEF ViewsInv
<1>9. ASSUME NEW l \in 1 .. n - 1, l # n - 1
      PROVE  Sees(Single, caches', entries', ack', stack'[l], views'[l + 1])
  <2> DEFINE b == stack[l]
             s == Within(entries, b)
  <2>1. l \in 1 .. n /\ l + 1 \in 1 .. n - 1 /\ l < n - 1
    BY <1>1, <1>2, <1>9
  <2>2. b \in Nat /\ b < parent /\ b < Current
    BY <1>1, <1>2, <1>3, <2>1
  <2>3. Sees(Single, caches, entries, ack, b, views[l + 1])
    BY <1>4, <2>1
  <2> HIDE DEF b, n, parent
  <2>4. ASSUME NEW i \in 1 .. Len(entries)
        PROVE  i \in s <=> (IF entries[i].subid = Current THEN parent
                            ELSE entries[i].subid) <= b
    <3>1. CASE entries[i].subid = Current
      BY <1>2, <1>6, <2>2, <3>1 DEF Within
    <3>2. CASE entries[i].subid # Current
      BY <3>2 DEF Within
    <3> QED
      BY <3>1, <3>2
  <2>5. s \in SUBSET (1 .. Len(entries)) /\ Settles(Single, caches, entries, s, views[l + 1])
    BY <2>3 DEF Sees, Within
  <2> HIDE DEF s
  <2>6. Settles(Single, caches, entries', Within(entries', b), views[l + 1])
    BY <1>1, <1>2, <2>2, <2>4, <2>5, ReleaseSettles
  <2>7. (ack' # NoAck /\ ack' <= b) <=> (ack # NoAck /\ ack <= b)
    <3>1. CASE ack = Current
      BY <1>1, <1>2, <1>6, <2>2, <3>1
    <3>2. CASE ack # Current
      BY <1>1, <3>2
    <3> QED
      BY <3>1, <3>2
  <2>8. Sees(Single, caches, entries', ack', b, views[l + 1])
    BY <2>3, <2>6, <2>7 DEF Sees
  <2> QED
    BY <1>1, <2>1, <2>8 DEF b
<1>10. Sees(Single, caches', entries', ack', stack'[n - 1], views'[n])
  <2> DEFINE s == Within(entries, Current)
             v == views[n + 1]
  <2>1. Sees(Single, caches, entries, ack, Current, v)
    <3>1. n \in 1 .. n
      BY <1>1, <1>2
    <3> QED
      BY <1>2, <1>4, <3>1
  <2>2. s = 1 .. Len(entries) /\ (ack # NoAck => ack <= Current)
    BY <1>0, <1>1, <1>2, WithinLast
  <2>3. Settles(Single, caches, entries, s, v) /\ s \in SUBSET (1 .. Len(entries))
    BY <2>1, <2>2 DEF Sees
  <2> HIDE DEF s, v, n, parent
  <2>4. ASSUME NEW i \in 1 .. Len(entries)
        PROVE  i \in s <=> (IF entries[i].subid = Current THEN parent
                            ELSE entries[i].subid) <= parent
    <3>1. CASE entries[i].subid = Current
      BY <1>6, <2>2, <3>1
    <3>2. CASE entries[i].subid # Current
      <4>1. PICK l \in 1 .. n : entries[i].subid = stack[l]
        BY <1>0 DEF LevelsInv, n
      <4>2. l # n
        BY <1>2, <3>2, <4>1
      <4> QED
        BY <1>7, <2>2, <3>2, <4>1, <4>2
    <3> QED
      BY <3>1, <3>2
  <2>5. Settles(Single, caches, entries', Within(entries', parent), v)
    BY <1>1, <1>2, <1>6, <2>3, <2>4, ReleaseSettles
  <2>6. (ack' # NoAck /\ ack' <= parent) <=> (ack # NoAck /\ ack <= Current)
    <3>1. CASE ack = Current
      BY <1>1, <1>2, <1>6, <3>1 DEF NoAck
    <3>2. CASE ack # Current /\ ack # NoAck
      <4>1. PICK l \in 1 .. n : ack = stack[l]
        BY <1>0, <3>2 DEF LevelsInv, n
      <4>2. l # n
        BY <1>2, <3>2, <4>1
      <4>3. ack <= parent
        BY <1>7, <4>1, <4>2
      <4> QED
        BY <1>1, <2>2, <3>2, <4>3
    <3>3. CASE ack # Current /\ ack = NoAck
      BY <1>1, <3>3
    <3> QED
      BY <3>1, <3>2, <3>3
  <2>7. Sees(Single, caches, entries', ack', parent, v)
    BY <2>1, <2>5, <2>6 DEF Sees
  <2>8. stack'[n - 1] = parent
    <3>1. n - 1 \in 1 .. n - 1
      BY <1>1, <1>2
    <3> QED
      BY <1>1, <3>1 DEF parent
  <2> QED
    BY <1>1, <2>7, <2>8 DEF v
<1> HIDE DEF n
<1>11. (n - 1) + 1 = n
  BY <1>2
<1>12. \A l \in 1 .. n - 1 : Sees(Single, caches', entries', ack', stack'[l], views'[l + 1])
  BY <1>9, <1>10, <1>11
<1>20. Single' = Single
  BY <1>1, SingleKept
<1> QED
  BY <1>20, <1>1, <1>8, <1>12 DEF ViewsInv

LEMMA RollbackToViews ==
    ASSUME IndInv, RollbackToSavepoint
    PROVE  ViewsInv'
<1> DEFINE n == Len(stack)
           kept == {i \in 1 .. Len(entries) : entries[i].subid # Current}
<1>0. TypeOK /\ StackInv /\ LevelsInv /\ ViewsInv
  BY DEF IndInv
<1>1. /\ n > 1 /\ InTransaction
      /\ entries' = Discarded(entries, Current)
      /\ ack' = IF ack = Current THEN NoAck ELSE ack
      /\ Len(stack') = n - 1
      /\ \A l \in 1 .. n - 1 : stack'[l] = stack[l]
      /\ \A l \in 1 .. n : views'[l] = views[l]
      /\ UNCHANGED <<subids, caches, kinds, mixed>>
  BY <1>0, RollbackToIs
<1>2. /\ n \in Nat /\ Current \in Nat /\ \A l \in 1 .. n : stack[l] \in Nat
      /\ entries \in Seq(Entry) /\ Len(entries) \in Nat
  BY <1>0, <1>1, LevelsTyped DEF TypeOK
<1>3. \A l \in 1 .. n - 1 : stack[l] < Current
  BY <1>0, <1>1, LastIsGreatest
<1>4. ASSUME NEW l \in 1 .. n - 1 PROVE Sees(Single, caches, entries, ack, stack[l], views[l + 1])
  <2>1. l \in 1 .. n /\ l < n
    BY <1>2
  <2> QED
    BY <1>0, <2>1 DEF ViewsInv
<1>5. entries' \in Seq(Entry) /\ \E pos : Keeps(entries, kept, entries', pos)
  BY <1>1, <1>2, DiscardedIs
<1>6. PICK pos : Keeps(entries, kept, entries', pos)
  BY <1>5
<1>7. \A i \in 1 .. Len(entries) : entries[i].subid \in Nat
  BY <1>2, SubidsTyped
<1> HIDE DEF n
<1>8. ASSUME NEW l \in 1 .. n - 1
      PROVE  Sees(Single, caches', entries', ack', stack'[l], views'[l + 1])
  <2> DEFINE b == stack[l]
             v == views[l + 1]
             s == Within(entries, b)
             t == {m \in 1 .. Len(entries') : pos[m] \in s}
  <2>1. l \in 1 .. n /\ l + 1 \in 1 .. n
    BY <1>2
  <2>2. b \in Nat /\ b < Current /\ Sees(Single, caches, entries, ack, b, v)
    BY <1>2, <1>3, <1>4, <2>1
  <2> HIDE DEF b, v
  <2>3. /\ s \in SUBSET (1 .. Len(entries)) /\ kept \in SUBSET (1 .. Len(entries))
        /\ Settles(Single, caches, entries, s, v)
    BY <2>2 DEF Within, Sees
  <2>4. \A i \in s : i \in kept
    BY <1>2, <2>2 DEF Within
  <2>5. t = Within(entries', b)
    <3>1. \A m \in 1 .. Len(entries') :
             pos[m] \in 1 .. Len(entries) /\ entries'[m] = entries[pos[m]]
      BY <1>6 DEF Keeps
    <3> QED
      BY <3>1 DEF Within
  <2>6. Settles(Single, caches, entries', t, v)
    <3> HIDE DEF s, kept
    <3> QED
      BY <1>2, <1>5, <1>6, <2>3, <2>4, RetainedSettles
  <2>7. (ack' # NoAck /\ ack' <= b) <=> (ack # NoAck /\ ack <= b)
    BY <1>1, <1>2, <2>2
  <2>8. Sees(Single, caches, entries', ack', b, v)
    BY <2>2, <2>5, <2>6, <2>7 DEF Sees
  <2> QED
    BY <1>1, <2>1, <2>8 DEF b, v
<1>9. Agree(User \ mixed', caches', views'[1])
  <2>1. 1 \in 1 .. n
    BY <1>1, <1>2
  <2> QED
    BY <1>0, <1>1, <2>1 DEF ViewsInv
<1>20. Single' = Single
  BY <1>1, SingleKept
<1> QED
  BY <1>20, <1>1, <1>8, <1>9 DEF ViewsInv

\* The commit callback leaves the caches as the transaction's last view.
LEMMA CommitViews ==
    ASSUME IndInv, Commit
    PROVE  ViewsInv'
<1> DEFINE all == 1 .. Len(entries)
           a == ApplyAll(caches, entries)
           w == Acknowledge(a, ack)
           v == views[2]
<1>0. TypeOK /\ StackInv /\ LevelsInv /\ ShapesInv /\ ViewsInv
  BY DEF IndInv
<1>1. /\ Len(stack) = 1 /\ ~failed /\ caches' = w /\ views' = <<v>> /\ stack' = <<>>
      /\ mixed' = mixed \cup Mixing
  BY DEF Commit, EndWith
<1>2. InTransaction
  BY <1>1 DEF InTransaction
<1>3. Current = stack[1] /\ Current \in Nat
  BY <1>0, <1>1, <1>2, LevelsTyped
<1>4. /\ caches \in View /\ entries \in Seq(Entry) /\ v \in View /\ w \in View
  BY <1>0, <1>1, CommittedTyped DEF TypeOK
<1>5. Sees(Single, caches, entries, ack, Current, v)
  <2>1. 1 \in 1 .. Len(stack) /\ 1 + 1 = 2
    BY <1>1
  <2>2. Sees(Single, caches, entries, ack, stack[1], views[1 + 1])
    BY <1>0, <1>1, <2>1 DEF ViewsInv
  <2> QED
    BY <1>3, <2>1, <2>2
<1>6. Within(entries, Current) = all /\ (ack # NoAck => ack <= Current)
  BY <1>0, <1>2, <1>3, WithinLast
<1>7. Settles(Single, caches, entries, all, v) /\ all \in SUBSET (1 .. Len(entries))
  BY <1>5, <1>6 DEF Sees
<1>8. a = Resolved(caches, entries, all) /\ a \in View
  BY <1>4, <1>7, ApplyAllIs, ResolvedType
<1>9. \A i \in all : Shaped(kinds, entries[i])
  BY <1>0 DEF ShapesInv
<1> HIDE DEF a, v
<1>10. \A u \in Single : a.lock[u] = v.lock[u] /\ a.expiry[u] = v.expiry[u]
  <2>1. Single \in SUBSET User /\ OneKind(kinds, Single)
    BY SingleIs
  <2>2. \A u \in Single : /\ Resolved(caches, entries, all).lock[u] = v.lock[u]
                          /\ Resolved(caches, entries, all).expiry[u] = v.expiry[u]
    <3> HIDE DEF all
    <3> QED
      BY <1>4, <1>7, <1>9, <2>1, SettlesResolves
  <2> QED
    BY <1>8, <2>2
<1>11. a.events = caches.events
  BY <1>8 DEF Resolved
<1>12. /\ w.events = IF ack = NoAck THEN a.events ELSE 1 - a.events
       /\ w.lock = a.lock /\ w.expiry = a.expiry
  BY <1>8, AcknowledgeIs
<1>13. v.events = IF ack = NoAck THEN caches.events ELSE 1 - caches.events
  BY <1>5, <1>6 DEF Sees
<1> HIDE DEF w
<1>14. w.events = v.events /\ \A u \in Single : w.lock[u] = v.lock[u] /\ w.expiry[u] = v.expiry[u]
  BY <1>10, <1>11, <1>12, <1>13
<1>15. Agree(User \ mixed', w, v)
  BY <1>1, <1>14 DEF Agree, Single
<1>16. views'[1] = v /\ Len(stack') = 0
  BY <1>1
<1> QED
  BY <1>1, <1>15, <1>16 DEF ViewsInv

LEMMA PrepareViews ==
    ASSUME IndInv, Prepare
    PROVE  ViewsInv'
<1> DEFINE v == views[2]
<1>0. TypeOK /\ ViewsInv
  BY DEF IndInv
<1>1. /\ Len(stack) = 1 /\ ~failed /\ caches' = caches /\ stack' = <<>>
      /\ views' = <<IF IsEmpty THEN v ELSE views[1]>>
      /\ mixed' = IF IsEmpty THEN mixed \cup Mixing ELSE mixed
  BY DEF Prepare, EndWith
<1>2. Agree(User \ mixed, caches, views[1]) /\ caches \in View /\ v \in View
  BY <1>0, <1>1, CommittedTyped DEF TypeOK, ViewsInv
<1>3. ASSUME IsEmpty PROVE Agree(Single, caches, v)
  <2>1. entries = <<>> /\ ack = NoAck
    BY <1>3 DEF IsEmpty
  <2>2. 1 \in 1 .. Len(stack) /\ 1 + 1 = 2
    BY <1>1
  <2>3. Sees(Single, caches, entries, ack, stack[1], views[1 + 1])
    BY <1>0, <1>1, <2>2 DEF ViewsInv
  <2>4. Within(entries, stack[1]) = {}
    BY <2>1 DEF Within
  <2>5. Settles(Single, caches, entries, {}, v) /\ v.events = caches.events
    BY <2>1, <2>2, <2>3, <2>4 DEF Sees
  <2>6. \A u \in Single : caches.lock[u] = v.lock[u] /\ caches.expiry[u] = v.expiry[u]
    BY <2>5 DEF Settles
  <2> HIDE DEF v
  <2> QED
    BY <2>5, <2>6 DEF Agree
<1>4. Agree(User \ mixed', caches, views'[1]) /\ Len(stack') = 0
  <2>1. CASE IsEmpty
    <3>1. User \ mixed' = Single /\ views'[1] = v
      BY <1>1, <2>1 DEF Single
    <3> QED
      BY <1>1, <1>3, <2>1, <3>1
  <2>2. CASE ~IsEmpty
    <3>1. mixed' = mixed /\ views'[1] = views[1]
      BY <1>1, <2>2
    <3> QED
      BY <1>1, <1>2, <3>1
  <2> QED
    BY <2>1, <2>2
<1> QED
  BY <1>1, <1>4 DEF ViewsInv

LEMMA ViewsStep ==
    ASSUME IndInv, [Next]_vars
    PROVE  ViewsInv'
<1>1. CASE Begin
  BY <1>1, BeginViews
<1>2. CASE Commit
  BY <1>2, CommitViews
<1>3. CASE Rollback
  <2>1. views' = <<views[1]>> /\ stack' = <<>> /\ caches' = caches /\ mixed' = mixed
    BY <1>3 DEF Rollback, EndWith
  <2>2. views'[1] = views[1] /\ Len(stack') = 0
    BY <2>1
  <2> QED
    BY <2>1, <2>2 DEF ViewsInv, IndInv
<1>4. CASE Prepare
  BY <1>4, PrepareViews
<1>5. CASE StageLock \/ StageExpiry \/ StageCombined
  BY <1>5, StagingKinds, OperationViews
<1>6. CASE StageAck
  BY <1>6, StageAckViews
<1>7. CASE Fail
  <2>1. ~failed /\ failed' /\ UNCHANGED <<entries, ack, stack, views, caches, kinds, mixed>>
    BY <1>7 DEF Fail, staging, ran
  <2>2. Single' = Single
    BY <2>1, SingleKept
  <2> QED
    BY <2>1, <2>2 DEF ViewsInv, IndInv
<1>8. CASE Savepoint
  BY <1>8, SavepointViews
<1>9. CASE ReleaseSavepoint
  BY <1>9, ReleaseViews
<1>10. CASE RollbackToSavepoint
  BY <1>10, RollbackToViews
<1>11. CASE UNCHANGED vars
  <2>1. Single' = Single
    BY <1>11, SingleKept DEF vars, ran
  <2> QED
    BY <1>11, <2>1 DEF vars, staging, transaction, ran, ViewsInv, IndInv
<1> QED
  BY <1>1, <1>2, <1>3, <1>4, <1>5, <1>6, <1>7, <1>8, <1>9, <1>10, <1>11 DEF Next

----------------------------------------------------------------------------
(* The theorems. *)

LEMMA InitInv ==
    ASSUME Init
    PROVE  IndInv
<1>1. TypeOK
  BY TypeOKInit
<1>2. Len(stack) = 0 /\ Len(entries) = 0 /\ stack = <<>> /\ entries = <<>> /\ ack = NoAck /\ ~failed
  BY DEF Init
<1>3. StackInv /\ LevelsInv /\ ShapesInv
  BY <1>2 DEF StackInv, LevelsInv, ShapesInv
<1>4. Agree(User \ mixed, caches, views[1])
  BY DEF Init, Agree
<1> QED
  BY <1>1, <1>2, <1>3, <1>4 DEF IndInv, ViewsInv

\* The staged entries stay in the nesting order of the open levels, each user once per
\* level, and every level not in an error state sees what its surviving entries make
\* of the caches, for the users without operations of several kinds in a transaction:
\* the invariant behind stage_entry, on_sub_commit, on_sub_abort and apply_all together
\* (src/pending_cache_op.rs).
THEOREM Inductive == Spec => []IndInv
<1>1. Init => IndInv
  BY InitInv
<1>2. IndInv /\ [Next]_vars => IndInv'
  <2> SUFFICES ASSUME IndInv, [Next]_vars PROVE IndInv'
    OBVIOUS
  <2>1. TypeOK /\ StackInv /\ LevelsInv /\ ShapesInv
    BY DEF IndInv
  <2>2. TypeOK' /\ StackInv' /\ LevelsInv' /\ ShapesInv'
    BY <2>1, TypeOKStep, LevelsStep, ShapesStep
  <2>3. ViewsInv'
    BY ViewsStep
  <2> QED
    BY <2>2, <2>3 DEF IndInv
<1> QED
  BY <1>1, <1>2, PTL DEF Spec

\* Whatever savepoints a transaction releases and rolls back on the way, and whether
\* it commits, aborts or is prepared, the shared caches and the ring say what the
\* committed tables say, for any users, values, capacity and nesting, about every user
\* for whom no transaction that committed ran operations of several kinds
\* (src/pending_cache_op.rs:4-9).
THEOREM CachesMatchTablesThm == Spec => []CachesMatchTables
<1>1. IndInv => CachesMatchTables
  BY DEF IndInv, ViewsInv, CachesMatchTables
<1> QED
  BY <1>1, Inductive, PTL

\* The surviving entries, as the code keeps them, lead to what the level sees.
LEMMA LevelResolves ==
    ASSUME IndInv, ~failed, NEW l \in 1 .. Len(stack)
    PROVE  LET levels == ToSet(SubSeq(stack, 1, l))
               surviving == Retained(entries,
                                     {i \in DOMAIN entries : entries[i].subid \in levels})
           IN  Agree(Single,
                     Acknowledge(ApplyAll(caches, surviving),
                                 IF ack \in levels THEN ack ELSE NoAck),
                     views[l + 1])
<1> DEFINE levels == ToSet(SubSeq(stack, 1, l))
           b == stack[l]
           s == Within(entries, b)
           r == Retained(entries, {i \in DOMAIN entries : entries[i].subid \in levels})
           v == views[l + 1]
           x == IF ack \in levels THEN ack ELSE NoAck
           w == Acknowledge(ApplyAll(caches, r), x)
<1>0. TypeOK /\ StackInv /\ LevelsInv /\ ShapesInv /\ ViewsInv
  BY DEF IndInv
<1>1. /\ Len(stack) \in Nat /\ \A k \in 1 .. Len(stack) : stack[k] \in Nat \ {0}
      /\ stack \in Seq(Subid) /\ entries \in Seq(Entry) /\ Len(entries) \in Nat /\ caches \in View
  BY <1>0, LevelsTyped DEF TypeOK
<1>2. v \in View
  <2>1. l \in 0 .. Len(stack)
    BY <1>1
  <2> QED
    BY <1>0, <2>1, LevelsTyped
<1>3. Sees(Single, caches, entries, ack, b, v)
  BY <1>0 DEF ViewsInv
<1>4. levels = {stack[k] : k \in 1 .. l}
  <2>1. l \in Nat /\ 1 .. l \subseteq 1 .. Len(stack)
    BY <1>1
  <2>2. Len(SubSeq(stack, 1, l)) = l /\ \A k \in 1 .. l : SubSeq(stack, 1, l)[k] = stack[k]
    BY <1>1, <2>1
  <2>3. DOMAIN SubSeq(stack, 1, l) = 1 .. l
    BY <1>1, <2>1
  <2> QED
    BY <2>2, <2>3 DEF ToSet
<1>5. \A k \in 1 .. Len(stack) : stack[k] \in levels <=> stack[k] <= b
  <2> TAKE k \in 1 .. Len(stack)
  <2>1. CASE k <= l
    <3>1. k \in 1 .. l
      BY <1>1, <2>1
    <3>2. k < l => stack[k] < b
      BY <1>0 DEF StackInv
    <3>3. stack[k] <= b
      BY <1>1, <2>1, <3>2
    <3> QED
      BY <1>4, <3>1, <3>3
  <2>2. CASE ~(k <= l)
    <3>1. \A m \in 1 .. l : m \in 1 .. Len(stack) /\ m < k
      BY <1>1, <2>2
    <3>2. \A m \in 1 .. l : stack[m] < stack[k] /\ stack[m] \in Nat
      BY <1>0, <1>1, <3>1 DEF StackInv
    <3>3. l \in 1 .. l /\ stack[k] \in Nat
      BY <1>1
    <3>4. stack[k] \notin levels
      BY <1>4, <3>2, <3>3
    <3>5. ~(stack[k] <= b)
      BY <3>2, <3>3
    <3> QED
      BY <3>4, <3>5
  <2> QED
    BY <2>1, <2>2
<1> HIDE DEF levels
<1>6. {i \in DOMAIN entries : entries[i].subid \in levels} = s
  <2>1. DOMAIN entries = 1 .. Len(entries)
    BY <1>1
  <2>2. \A i \in 1 .. Len(entries) : entries[i].subid \in levels <=> entries[i].subid <= b
    BY <1>0, <1>5 DEF LevelsInv
  <2> QED
    BY <2>1, <2>2 DEF Within
<1>7. r = Retained(entries, s) /\ s \in SUBSET (1 .. Len(entries))
  BY <1>6 DEF Within
<1> HIDE DEF r, b, s
<1>8. r \in Seq(Entry) /\ \E pos : Keeps(entries, s, r, pos)
  BY <1>1, <1>7, RetainedIs
<1>9. PICK pos : Keeps(entries, s, r, pos)
  BY <1>8
<1> DEFINE t == {m \in 1 .. Len(r) : pos[m] \in s}
<1>10. Settles(Single, caches, r, t, v)
  <2>1. Settles(Single, caches, entries, s, v)
    BY <1>3 DEF Sees, s
  <2> HIDE DEF v
  <2> QED
    BY <1>1, <1>7, <1>8, <1>9, <2>1, RetainedSettles
<1>11. t = 1 .. Len(r) /\ \A m \in 1 .. Len(r) : pos[m] \in s /\ r[m] = entries[pos[m]]
  BY <1>9 DEF Keeps
<1>12. \A m \in 1 .. Len(r) : Shaped(kinds, r[m])
  <2>1. \A i \in s : Shaped(kinds, entries[i])
    BY <1>0, <1>7 DEF ShapesInv
  <2> QED
    BY <1>11, <2>1
<1> DEFINE all == 1 .. Len(r)
           a == ApplyAll(caches, r)
<1>13. all \in SUBSET (1 .. Len(r)) /\ Settles(Single, caches, r, all, v)
  BY <1>10, <1>11
<1>14. a = Resolved(caches, r, all) /\ a \in View
  BY <1>1, <1>8, <1>13, ApplyAllIs, ResolvedType
<1> HIDE DEF a, v, x
<1>15. \A u \in Single : a.lock[u] = v.lock[u] /\ a.expiry[u] = v.expiry[u]
  <2>1. Single \in SUBSET User /\ OneKind(kinds, Single)
    BY SingleIs
  <2>2. \A m \in all : Shaped(kinds, r[m])
    BY <1>12
  <2>3. \A u \in Single : /\ Resolved(caches, r, all).lock[u] = v.lock[u]
                          /\ Resolved(caches, r, all).expiry[u] = v.expiry[u]
    <3>1. caches \in View /\ v \in View /\ r \in Seq(Entry)
      BY <1>1, <1>2, <1>8
    <3> HIDE DEF all, t
    <3> QED
      BY <1>13, <2>1, <2>2, <3>1, SettlesResolves
  <2> QED
    BY <1>14, <2>3
<1>16. a.events = caches.events
  BY <1>14 DEF Resolved
<1>17. /\ w \in View /\ w.events = IF x = NoAck THEN a.events ELSE 1 - a.events
       /\ w.lock = a.lock /\ w.expiry = a.expiry
  BY <1>14, AcknowledgeIs DEF a
<1>18. x # NoAck <=> ack # NoAck /\ ack <= b
  <2>1. ack # NoAck => (ack \in levels <=> ack <= b)
    BY <1>0, <1>5 DEF LevelsInv
  <2> QED
    BY <2>1 DEF x
<1>19. v.events = IF x = NoAck THEN caches.events ELSE 1 - caches.events
  BY <1>3, <1>18 DEF Sees
<1> HIDE DEF w
<1>20. w.events = v.events /\ \A u \in Single : w.lock[u] = v.lock[u] /\ w.expiry[u] = v.expiry[u]
  BY <1>15, <1>16, <1>17, <1>19
<1>21. Agree(Single, w, v)
  BY <1>20 DEF Agree
<1> QED
  BY <1>21 DEF w, v, x, r, levels

\* At every nesting level, whatever was staged, released and rolled back before, the
\* entries that would survive were all deeper levels rolled back lead from the caches to
\* what that level sees: rolling back exposes the outer decision again, releasing keeps
\* "latest wins", and the fold of apply_all over the compacted list agrees, for any
\* number of levels and entries and every user without operations of several kinds in
\* a transaction (src/pending_cache_op.rs:96-101).
THEOREM EveryLevelResolvesThm == Spec => []EveryLevelResolves
<1>1. IndInv => EveryLevelResolves
  BY LevelResolves DEF EveryLevelResolves
<1> QED
  BY <1>1, Inductive, PTL

=============================================================================
