---------------------------- MODULE CopiesProofs -----------------------------
(***************************************************************************)
(* What is done with a copy, for every list, form and history, any number  *)
(* of refreshes in flight, of writes by other processes, of failed calls,  *)
(* of moves and of an operator's touches.                                  *)
(*                                                                         *)
(* The daemon's copies of a task list: with one writer, and as long as no  *)
(* entry is dropped, the snapshot is never older than the daemon's own     *)
(* last write.  The operator's copy: a key on the tasks tab is for the     *)
(* task it was pressed on.  The frames of a form: the form that is         *)
(* answered is the one that was read, with the answers chosen for it.  The *)
(* machine's history, moved between two databases: nothing arrives twice,  *)
(* and every reference and every reset arrives.                            *)
(***************************************************************************)
EXTENDS TaskCache, TuiTasks, FormSeries, StoreImport, FiniteSetTheorems, SequenceTheorems, TLAPS

-----------------------------------------------------------------------------
(* The snapshots of the daemon *)

\* The daemon writes from the loop only, and releases nothing off it.
OneWriter == Releases = {} /\ \A v, w \in Writers : v = w

\* The inductive invariant holds before the list was read.
LEMMA CacheInvInit == Init => CacheInv
<1> SUFFICES ASSUME Init PROVE CacheInv
  OBVIOUS
<1>1. TypeOK
  <2> USE CacheBounds DEF Versions, NoData, Empty, Settled, Unknown, Released
  <2>1. NoSnapshot \in [data : Versions \cup {NoData}, err : BOOLEAN, gen : Nat, stale : BOOLEAN,
                        refreshing : BOOLEAN]
    BY DEF NoSnapshot
  <2>2. NoRefresh \in [phase : {"none", "started", "read"}, gen : Nat,
                       data : Versions \cup {NoData}]
    BY DEF NoRefresh
  <2>3. NoSnapshot.data <= 0 /\ NoRefresh.data <= 0
    BY DEF NoSnapshot, NoRefresh
  <2>4. 0 \in Versions /\ \A w \in Writers : pending[w] = Settled /\ Settled <= 0
    BY DEF Init
  <2>5. pending \in [Writers -> Versions \cup {Settled, Unknown, Released}]
    BY DEF Init
  <2>6. refresh \in [Slots -> [phase : {"none", "started", "read"}, gen : Nat,
                               data : Versions \cup {NoData}]]
    BY <2>2 DEF Init
  <2>7. \A r \in Slots : refresh[r].data <= stored
    BY <2>3 DEF Init
  <2>8. snap.data <= stored /\ own <= stored /\ \A w \in Writers : pending[w] <= stored
    BY <2>3, <2>4 DEF Init
  <2> QED
    BY <2>1, <2>4, <2>5, <2>6, <2>7, <2>8 DEF Init, TypeOK
<1>2. OwnWritesStand
  BY DEF Init, OwnWritesStand, NoSnapshot, NoData
<1>3. RefreshesAreOrdered
  BY DEF Init, RefreshesAreOrdered, NoSnapshot, NoRefresh, NoData
<1>4. WritesAreOrdered
  BY CacheBounds DEF Init, WritesAreOrdered, Versions, Settled, Released
<1> QED
  BY <1>1, <1>2, <1>3, <1>4 DEF CacheInv

\* Every step of a daemon with one writer preserves it.
LEMMA CacheInvNext ==
  ASSUME OneWriter, CacheInv, [Next]_vars
  PROVE  CacheInv'
<1> USE CacheBounds DEF Versions, NoData, Empty, Settled, Unknown, Released
<1>0. TypeOK /\ OwnWritesStand /\ RefreshesAreOrdered /\ WritesAreOrdered
  BY DEF CacheInv
<1>1. ASSUME NEW r \in Slots, CachedTaskListKick(r) PROVE CacheInv'
  <2>1. TypeOK'
    <3>1. snap' \in [data : Versions \cup {NoData}, err : BOOLEAN, gen : Nat, stale : BOOLEAN,
                     refreshing : BOOLEAN]
      BY <1>0, <1>1 DEF CachedTaskListKick, Answer, TypeOK
    <3>2. refresh' \in [Slots -> [phase : {"none", "started", "read"}, gen : Nat,
                                 data : Versions \cup {NoData}]]
      BY <1>0, <1>1 DEF CachedTaskListKick, Answer, TypeOK
    <3>3. /\ stored' \in Versions /\ cached' \in BOOLEAN /\ own' \in Versions
          /\ pending' \in [Writers -> Versions \cup {Settled, Unknown, Released}]
          /\ served' \in Versions \cup {NoData, Empty}
      BY <1>0, <1>1 DEF CachedTaskListKick, Answer, TypeOK
    <3>4. /\ snap'.data <= stored' /\ own' <= stored'
          /\ \A w \in Writers : pending'[w] <= stored'
      BY <1>0, <1>1 DEF CachedTaskListKick, Answer, TypeOK
    <3>5. \A q \in Slots : refresh'[q].data <= stored'
      BY <1>0, <1>1 DEF CachedTaskListKick, Answer, TypeOK
    <3> QED
      BY <3>1, <3>2, <3>3, <3>4, <3>5 DEF TypeOK
  <2>2. OwnWritesStand'
    BY <1>0, <1>1 DEF CachedTaskListKick, Answer, TypeOK, OwnWritesStand
  <2>3. RefreshesAreOrdered'
    BY <1>0, <1>1 DEF CachedTaskListKick, Answer, TypeOK, RefreshesAreOrdered
  <2>4. WritesAreOrdered'
    BY <1>0, <1>1 DEF CachedTaskListKick, Answer, TypeOK, WritesAreOrdered
  <2> QED
    BY <2>1, <2>2, <2>3, <2>4 DEF CacheInv
<1>2. ASSUME CachedTaskListServe PROVE CacheInv'
  <2>1. TypeOK'
    BY <1>0, <1>2 DEF CachedTaskListServe, Answer, TypeOK
  <2>2. OwnWritesStand'
    BY <1>0, <1>2 DEF CachedTaskListServe, Answer, TypeOK, OwnWritesStand
  <2>3. RefreshesAreOrdered'
    BY <1>0, <1>2 DEF CachedTaskListServe, Answer, TypeOK, RefreshesAreOrdered
  <2>4. WritesAreOrdered'
    BY <1>0, <1>2 DEF CachedTaskListServe, Answer, TypeOK, WritesAreOrdered
  <2> QED
    BY <2>1, <2>2, <2>3, <2>4 DEF CacheInv
<1>3. ASSUME NEW r \in Slots, RefreshReads(r) PROVE CacheInv'
  <2>1. TypeOK'
    <3>1. snap' \in [data : Versions \cup {NoData}, err : BOOLEAN, gen : Nat, stale : BOOLEAN,
                     refreshing : BOOLEAN]
      BY <1>0, <1>3 DEF RefreshReads, TypeOK
    <3>2. refresh' \in [Slots -> [phase : {"none", "started", "read"}, gen : Nat,
                                 data : Versions \cup {NoData}]]
      BY <1>0, <1>3 DEF RefreshReads, TypeOK
    <3>3. /\ stored' \in Versions /\ cached' \in BOOLEAN /\ own' \in Versions
          /\ pending' \in [Writers -> Versions \cup {Settled, Unknown, Released}]
          /\ served' \in Versions \cup {NoData, Empty}
      BY <1>0, <1>3 DEF RefreshReads, TypeOK
    <3>4. /\ snap'.data <= stored' /\ own' <= stored'
          /\ \A w \in Writers : pending'[w] <= stored'
      BY <1>0, <1>3 DEF RefreshReads, TypeOK
    <3>5. \A q \in Slots : refresh'[q].data <= stored'
      BY <1>0, <1>3 DEF RefreshReads, TypeOK
    <3> QED
      BY <3>1, <3>2, <3>3, <3>4, <3>5 DEF TypeOK
  <2>2. OwnWritesStand'
    BY <1>0, <1>3 DEF RefreshReads, TypeOK, OwnWritesStand
  <2>3. RefreshesAreOrdered'
    BY <1>0, <1>3 DEF RefreshReads, TypeOK, RefreshesAreOrdered
  <2>4. WritesAreOrdered'
    BY <1>0, <1>3 DEF RefreshReads, TypeOK, WritesAreOrdered
  <2> QED
    BY <2>1, <2>2, <2>3, <2>4 DEF CacheInv
<1>4. ASSUME NEW r \in Slots, RefreshFails(r) PROVE CacheInv'
  <2>1. TypeOK'
    BY <1>0, <1>4 DEF RefreshFails, TypeOK
  <2>2. OwnWritesStand'
    BY <1>0, <1>4 DEF RefreshFails, TypeOK, OwnWritesStand
  <2>3. RefreshesAreOrdered'
    BY <1>0, <1>4 DEF RefreshFails, TypeOK, RefreshesAreOrdered
  <2>4. WritesAreOrdered'
    BY <1>0, <1>4 DEF RefreshFails, TypeOK, WritesAreOrdered
  <2> QED
    BY <2>1, <2>2, <2>3, <2>4 DEF CacheInv
<1>5. ASSUME NEW r \in Slots, RefreshTaskSnapshot(r) PROVE CacheInv'
  <2>1. TypeOK'
    <3>1. snap' \in [data : Versions \cup {NoData}, err : BOOLEAN, gen : Nat, stale : BOOLEAN,
                     refreshing : BOOLEAN]
      BY <1>0, <1>5 DEF RefreshTaskSnapshot, Superseded, NoRefresh, TypeOK
    <3>2. refresh' \in [Slots -> [phase : {"none", "started", "read"}, gen : Nat,
                                 data : Versions \cup {NoData}]]
      BY <1>0, <1>5 DEF RefreshTaskSnapshot, Superseded, NoRefresh, TypeOK
    <3>3. /\ stored' \in Versions /\ cached' \in BOOLEAN /\ own' \in Versions
          /\ pending' \in [Writers -> Versions \cup {Settled, Unknown, Released}]
          /\ served' \in Versions \cup {NoData, Empty}
      BY <1>0, <1>5 DEF RefreshTaskSnapshot, Superseded, NoRefresh, TypeOK
    <3>4. /\ snap'.data <= stored' /\ own' <= stored'
          /\ \A w \in Writers : pending'[w] <= stored'
      BY <1>0, <1>5 DEF RefreshTaskSnapshot, Superseded, NoRefresh, TypeOK
    <3>5. \A q \in Slots : refresh'[q].data <= stored'
      BY <1>0, <1>5 DEF RefreshTaskSnapshot, Superseded, NoRefresh, TypeOK
    <3> QED
      BY <3>1, <3>2, <3>3, <3>4, <3>5 DEF TypeOK
  <2>2. OwnWritesStand'
    BY <1>0, <1>5 DEF RefreshTaskSnapshot, Superseded, NoRefresh, TypeOK, OwnWritesStand, RefreshesAreOrdered
  <2>3. RefreshesAreOrdered'
    BY <1>0, <1>5 DEF RefreshTaskSnapshot, Superseded, NoRefresh, TypeOK, RefreshesAreOrdered
  <2>4. WritesAreOrdered'
    BY <1>0, <1>5 DEF RefreshTaskSnapshot, Superseded, NoRefresh, TypeOK, WritesAreOrdered
  <2> QED
    BY <2>1, <2>2, <2>3, <2>4 DEF CacheInv
<1>6. ASSUME NEW w \in Writers, MutateTaskList(w) PROVE CacheInv'
  <2>1. TypeOK'
    BY <1>0, <1>6 DEF MutateTaskList, TypeOK
  <2>2. OwnWritesStand'
    BY <1>0, <1>6 DEF MutateTaskList, TypeOK, OwnWritesStand
  <2>3. RefreshesAreOrdered'
    BY <1>0, <1>6 DEF MutateTaskList, TypeOK, RefreshesAreOrdered
  <2>4. WritesAreOrdered'
    BY <1>0, <1>6 DEF MutateTaskList, TypeOK, WritesAreOrdered
  <2> QED
    BY <2>1, <2>2, <2>3, <2>4 DEF CacheInv
<1>7. ASSUME NEW w \in Writers, NoteTaskListWritten(w) PROVE CacheInv'
  <2>1. TypeOK'
    BY <1>0, <1>7 DEF NoteTaskListWritten, TypeOK
  <2>2. OwnWritesStand'
    <3>1. CASE pending[w] = Unknown
      BY <1>7, <3>1 DEF NoteTaskListWritten, OwnWritesStand
    <3>2. CASE pending[w] \in Versions
      <4>1. snap'.data = pending[w]
        BY <1>7, <3>2 DEF NoteTaskListWritten
      <4>2. pending[w] >= own /\ own \in Versions
        BY <1>0, <3>2 DEF WritesAreOrdered, TypeOK
      <4>3. own' = pending[w]
        BY <1>7, <3>2, <4>2 DEF NoteTaskListWritten
      <4> QED
        BY <3>2, <4>1, <4>3 DEF OwnWritesStand
    <3> QED
      BY <1>7, <3>1, <3>2 DEF NoteTaskListWritten
  <2>3. RefreshesAreOrdered'
    BY <1>0, <1>7 DEF NoteTaskListWritten, TypeOK, RefreshesAreOrdered
  <2>4. WritesAreOrdered'
    BY <1>0, <1>7 DEF NoteTaskListWritten, OneWriter, TypeOK, WritesAreOrdered
  <2> QED
    BY <2>1, <2>2, <2>3, <2>4 DEF CacheInv
<1>8. ASSUME NEW w \in Writers, DropTaskSnapshot(w) PROVE CacheInv'
  <2>1. w \in Releases
    BY <1>0, <1>8 DEF DropTaskSnapshot, WritesAreOrdered, TypeOK
  <2> QED
    BY <2>1 DEF OneWriter
<1>9. ASSUME OtherWrites PROVE CacheInv'
  <2>1. TypeOK'
    BY <1>0, <1>9 DEF OtherWrites, TypeOK
  <2>2. OwnWritesStand'
    BY <1>0, <1>9 DEF OtherWrites, TypeOK, OwnWritesStand
  <2>3. RefreshesAreOrdered'
    BY <1>0, <1>9 DEF OtherWrites, TypeOK, RefreshesAreOrdered
  <2>4. WritesAreOrdered'
    BY <1>0, <1>9 DEF OtherWrites, TypeOK, WritesAreOrdered
  <2> QED
    BY <2>1, <2>2, <2>3, <2>4 DEF CacheInv
<1>10. ASSUME Expires PROVE CacheInv'
  <2>1. TypeOK'
    BY <1>0, <1>10 DEF Expires, TypeOK
  <2>2. OwnWritesStand'
    BY <1>0, <1>10 DEF Expires, TypeOK, OwnWritesStand
  <2>3. RefreshesAreOrdered'
    BY <1>0, <1>10 DEF Expires, TypeOK, RefreshesAreOrdered
  <2>4. WritesAreOrdered'
    BY <1>0, <1>10 DEF Expires, TypeOK, WritesAreOrdered
  <2> QED
    BY <2>1, <2>2, <2>3, <2>4 DEF CacheInv
<1>11. ASSUME UNCHANGED vars PROVE CacheInv'
  BY <1>0, <1>11 DEF vars, CacheInv, TypeOK, OwnWritesStand, RefreshesAreOrdered, WritesAreOrdered
<1> QED
  BY <1>1, <1>2, <1>3, <1>4, <1>5, <1>6, <1>7, <1>8, <1>9, <1>10, <1>11 DEF Next, Reader

\* With one writer and no dropped entry, the snapshot never falls behind the daemon's own
\* writes (taskSnapshot.gen), whatever refreshes are in flight.
THEOREM OwnWritesAlwaysStand ==
  ASSUME OneWriter
  PROVE  Spec => []OwnWritesStand
<1>1. CacheInv /\ [Next]_vars => CacheInv'
  BY CacheInvNext
<1>2. CacheInv => OwnWritesStand
  BY DEF CacheInv
<1> QED
  BY CacheInvInit, <1>1, <1>2, PTL DEF Spec

-----------------------------------------------------------------------------
(* The tasks tab *)

\* A set of naturals has a least one: inclusion of finite sets is well founded.
LEMMA LeastNatural ==
  ASSUME NEW T \in SUBSET Nat, T # {}
  PROVE  \E m \in T : \A n \in T : m <= n
<1> DEFINE R == StrictSubsetOrdering(Nat)
           F == FiniteSubsetsOf(Nat)
           P == {1..t : t \in T}
<1>1. IsWellFoundedOn(R, F)
  BY FS_StrictSubsetOrderingWellFounded
<1>2. P \subseteq F /\ P # {}
  <2>1. ASSUME NEW t \in T PROVE 1..t \in F
    <3>1. t \in Int /\ 1 \in Int /\ 1..t \subseteq Nat
      OBVIOUS
    <3>2. IsFiniteSet(1..t)
      BY <3>1, FS_Interval
    <3> QED BY <3>1, <3>2 DEF FiniteSubsetsOf
  <2>2. P # {}
    OBVIOUS
  <2> QED BY <2>1, <2>2
<1>3. PICK x \in P : \A y \in P : ~(<<y, x>> \in R)
  <2> HIDE DEF R, F, P
  <2> QED BY <1>1, <1>2, WFMin
<1>4. PICK m \in T : x = 1..m
  OBVIOUS
<1>5. ASSUME NEW n \in T, ~(m <= n) PROVE FALSE
  <2>1. 1..n \in P /\ 1..n \subseteq 1..m /\ 1..n # 1..m
    <3>1. m \in 1..m /\ m \notin 1..n
      BY <1>5
    <3> QED BY <3>1, <1>5
  <2>2. <<1..n, x>> \in R
    BY <2>1, <1>4 DEF StrictSubsetOrdering
  <2> QED BY <2>1, <2>2, <1>3
<1> QED BY <1>5

\* The k-th of some numbers.
LEMMA RankedElement ==
  ASSUME NEW N \in Nat, NEW S \in SUBSET (1..N), NEW k \in 1..Cardinality(S)
  PROVE  \E n \in S : Cardinality({m \in S : m < n}) = k - 1
<1> DEFINE Below(n) == {m \in S : m < n}
           c(n) == Cardinality(Below(n))
           T == {n \in Nat : c(n) >= k}
<1>1. IsFiniteSet(S) /\ Cardinality(S) \in Nat
  <2>1. IsFiniteSet(1..N)
    <3>1. 1 \in Int /\ N \in Int
      OBVIOUS
    <3> QED BY <3>1, FS_Interval
  <2>2. IsFiniteSet(S)
    BY <2>1, FS_Subset
  <2> QED BY <2>2, FS_CardinalityType
<1>a. \A m \in S : m \in Nat /\ 1 <= m /\ m <= N
  OBVIOUS
<1>2. ASSUME NEW n \in Nat PROVE IsFiniteSet(Below(n)) /\ c(n) \in Nat
  <2>1. Below(n) \in SUBSET S
    OBVIOUS
  <2>2. IsFiniteSet(Below(n))
    BY <1>1, <2>1, FS_Subset
  <2> QED BY <2>2, FS_CardinalityType
<1>3. Below(N + 1) = S /\ Below(0) = {} /\ c(0) = 0
  <2>1. Below(0) = {}
    <3>1. \A m \in S : ~(m < 0)
      BY <1>a
    <3> QED BY <3>1
  <2>3. Below(N + 1) = S
    <3>1. \A m \in S : m < N + 1
      BY <1>a
    <3> QED BY <3>1
  <2> QED BY <2>1, <2>3, FS_EmptySet
<1>4. T # {} /\ T \in SUBSET Nat /\ 0 \notin T
  BY <1>1, <1>3
<1>5. PICK n \in T : \A m \in T : n <= m
  <2> HIDE DEF T
  <2> QED BY <1>4, LeastNatural
<1>6. n \in Nat /\ n # 0 /\ n - 1 \in Nat /\ n - 1 \notin T
  BY <1>4, <1>5
<1>7. c(n) >= k /\ c(n - 1) < k
  BY <1>2, <1>5, <1>6
<1>8. CASE n - 1 \in S
  <2>1. Below(n) = Below(n - 1) \cup {n - 1} /\ n - 1 \notin Below(n - 1)
    <3>1. \A m \in S : m < n <=> m < n - 1 \/ m = n - 1
      BY <1>a, <1>6
    <3>2. ~(n - 1 < n - 1)
      BY <1>6
    <3> QED BY <1>8, <3>1, <3>2
  <2>2. c(n) = c(n - 1) + 1
    <3> HIDE DEF Below
    <3> QED BY <1>2, <1>6, <2>1, FS_AddElement
  <2>3. c(n - 1) = k - 1
    <3>1. c(n - 1) \in Nat /\ k \in Nat
      BY <1>1, <1>2, <1>6
    <3> HIDE DEF c
    <3> QED BY <1>7, <2>2, <3>1
  <2> QED BY <1>8, <2>3
<1>9. CASE n - 1 \notin S
  <2>1. Below(n) = Below(n - 1)
    <3>1. \A m \in S : m < n <=> m < n - 1
      BY <1>a, <1>6, <1>9
    <3> QED BY <3>1
  <2>2. c(n) = c(n - 1)
    BY <2>1
  <2>3. c(n - 1) \in Nat
    BY <1>2, <1>6
  <2> QED
    <3> HIDE DEF c
    <3> QED BY <1>1, <1>7, <2>2, <2>3
<1> QED BY <1>8, <1>9

\* InOrder lists the numbers of a set, the smaller before the greater (markedTaskTargets).
LEMMA InOrderIs ==
  ASSUME NEW N \in Nat, NEW S \in SUBSET (1..N)
  PROVE  /\ Cardinality(S) \in Nat
         /\ InOrder(S) = [k \in 1..Cardinality(S) |-> InOrder(S)[k]]
         /\ \A k \in 1..Cardinality(S) : InOrder(S)[k] \in S
         /\ \A k, i \in 1..Cardinality(S) : k < i => InOrder(S)[k] < InOrder(S)[i]
<1> DEFINE c(n) == Cardinality({m \in S : m < n})
<1>1. IsFiniteSet(S) /\ Cardinality(S) \in Nat
  <2>1. IsFiniteSet(1..N)
    <3>1. 1 \in Int /\ N \in Int
      OBVIOUS
    <3> QED BY <3>1, FS_Interval
  <2>2. IsFiniteSet(S)
    BY <2>1, FS_Subset
  <2> QED BY <2>2, FS_CardinalityType
<1>a. \A m \in S : m \in Nat /\ 1 <= m /\ m <= N
  OBVIOUS
<1>2. \A k \in 1..Cardinality(S) : InOrder(S)[k] \in S /\ c(InOrder(S)[k]) = k - 1
  <2> SUFFICES ASSUME NEW k \in 1..Cardinality(S) PROVE InOrder(S)[k] \in S /\ c(InOrder(S)[k]) = k - 1
    OBVIOUS
  <2>1. \E n \in S : c(n) = k - 1
    BY RankedElement
  <2>2. InOrder(S)[k] = CHOOSE n \in S : c(n) = k - 1
    BY DEF InOrder
  <2> HIDE DEF c
  <2> QED BY <2>1, <2>2
<1>3. ASSUME NEW a \in S, NEW b \in S, c(a) < c(b) PROVE a < b
  <2>1. SUFFICES ASSUME b <= a PROVE FALSE
    BY <1>a
  <2>2. \A m \in S : m < b => m < a
    BY <1>a, <2>1
  <2>3. {m \in S : m < b} \in SUBSET {m \in S : m < a}
    BY <2>2
  <2>4. IsFiniteSet({m \in S : m < a}) /\ IsFiniteSet({m \in S : m < b})
    BY <1>1, FS_Subset
  <2>5. c(b) <= c(a) /\ c(a) \in Nat /\ c(b) \in Nat
    BY <2>3, <2>4, FS_Subset, FS_CardinalityType
  <2> QED
    <3> HIDE DEF c
    <3> QED BY <1>3, <2>5
<1>4. ASSUME NEW k \in 1..Cardinality(S), NEW i \in 1..Cardinality(S), k < i PROVE InOrder(S)[k] < InOrder(S)[i]
  <2>1. k - 1 < i - 1
    BY <1>1, <1>4
  <2> HIDE DEF c
  <2> QED BY <1>2, <1>3, <2>1
<1>5. InOrder(S) = [k \in 1..Cardinality(S) |-> InOrder(S)[k]]
  <2>1. \E f : f = InOrder(S) /\ f = [k \in 1..Cardinality(S) |-> CHOOSE n \in S : c(n) = k - 1]
    BY DEF InOrder
  <2> QED BY <2>1
<1> QED BY <1>1, <1>2, <1>4, <1>5

\* What DeleteTask leaves: the tasks below keep their positions, those above move up.
LEMMA RemovedIs ==
  ASSUME NEW S, NEW l \in Seq(S), NEW n \in 1..Len(l)
  PROVE  /\ Removed(l, n) \in Seq(S)
         /\ Len(Removed(l, n)) = Len(l) - 1
         /\ \A i \in 1..(Len(l) - 1) : Removed(l, n)[i] = IF i < n THEN l[i] ELSE l[i + 1]
<1> DEFINE a == SubSeq(l, 1, n - 1)
           b == SubSeq(l, n + 1, Len(l))
<1>1. Len(l) \in Nat /\ n \in Nat /\ \A i \in 1..Len(l) : l[i] \in S
  BY LenProperties, ElementOfSeq
<1>2. a \in Seq(S) /\ Len(a) = n - 1 /\ \A i \in 1..(n - 1) : a[i] = l[i]
  <2>1. \A i \in 1..(n - 1) : l[i] \in S
    BY <1>1
  <2>2. /\ a \in Seq(S) /\ Len(a) = IF 1 <= n - 1 THEN n - 1 - 1 + 1 ELSE 0
        /\ \A i \in 1..(n - 1 - 1 + 1) : a[i] = l[1 + i - 1]
    BY <1>1, <2>1, SubSeqProperties
  <2> QED
    <3> HIDE DEF a
    <3> QED BY <1>1, <2>2
<1>3. b \in Seq(S) /\ Len(b) = Len(l) - n /\ \A i \in 1..(Len(l) - n) : b[i] = l[n + i]
  <2>1. \A i \in (n + 1)..Len(l) : l[i] \in S
    BY <1>1
  <2>2. /\ b \in Seq(S) /\ Len(b) = IF n + 1 <= Len(l) THEN Len(l) - (n + 1) + 1 ELSE 0
        /\ \A i \in 1..(Len(l) - (n + 1) + 1) : b[i] = l[n + 1 + i - 1]
    BY <1>1, <2>1, SubSeqProperties
  <2> QED
    <3> HIDE DEF b
    <3> QED BY <1>1, <2>2
<1>4. /\ Removed(l, n) = a \o b
      /\ a \o b \in Seq(S) /\ Len(a \o b) = Len(a) + Len(b)
      /\ \A i \in 1..(Len(a) + Len(b)) : (a \o b)[i] = IF i <= Len(a) THEN a[i] ELSE b[i - Len(a)]
  <2>1. Removed(l, n) = a \o b
    BY DEF Removed
  <2> HIDE DEF a, b
  <2> QED BY <1>2, <1>3, <2>1, ConcatProperties
<1> QED
  <2> HIDE DEF a, b
  <2>1. Len(a) + Len(b) = Len(l) - 1
    BY <1>1, <1>2, <1>3
  <2>2. ASSUME NEW i \in 1..(Len(l) - 1) PROVE (a \o b)[i] = IF i < n THEN l[i] ELSE l[i + 1]
    <3>1. CASE i < n
      BY <1>1, <1>2, <1>4, <2>1, <3>1
    <3>2. CASE ~(i < n)
      <4>1. i - (n - 1) \in 1..(Len(l) - n) /\ n + (i - (n - 1)) = i + 1
        BY <1>1, <3>2
      <4>2. (a \o b)[i] = b[i - (n - 1)]
        BY <1>1, <1>2, <1>4, <2>1, <3>2
      <4> QED BY <1>3, <3>2, <4>1, <4>2
    <3> QED BY <3>1, <3>2
  <2> QED BY <1>4, <2>1, <2>2

\* What MoveTask leaves: as many tasks, with the moved one where it was sent.
LEMMA MovedIs ==
  ASSUME NEW S, NEW l \in Seq(S), NEW n \in 1..Len(l), NEW to \in 1..Len(l)
  PROVE  /\ Moved(l, n, to) \in Seq(S)
         /\ Len(Moved(l, n, to)) = Len(l)
         /\ Moved(l, n, to)[to] = l[n]
<1> DEFINE r == Removed(l, n)
           a == SubSeq(r, 1, to - 1)
           b == SubSeq(r, to, Len(r))
<1>1. Len(l) \in Nat /\ l[n] \in S /\ n \in Nat /\ to \in Nat
  BY LenProperties, ElementOfSeq
<1>2. r \in Seq(S) /\ Len(r) = Len(l) - 1
  BY RemovedIs
<1>3. \A i \in 1..Len(r) : r[i] \in S
  BY <1>2, ElementOfSeq
<1>4. a \in Seq(S) /\ Len(a) = to - 1
  <2>1. \A i \in 1..(to - 1) : r[i] \in S
    <3> HIDE DEF r
    <3> QED BY <1>1, <1>2, <1>3
  <2>2. a \in Seq(S) /\ Len(a) = IF 1 <= to - 1 THEN to - 1 - 1 + 1 ELSE 0
    BY <1>1, <2>1, SubSeqProperties
  <2> QED
    <3> HIDE DEF a
    <3> QED BY <1>1, <2>2
<1>5. b \in Seq(S) /\ Len(b) = Len(l) - to
  <2>1. \A i \in to..Len(r) : r[i] \in S
    <3> HIDE DEF r
    <3> QED BY <1>1, <1>2, <1>3
  <2>2. Len(r) \in Int /\ to \in Int
    <3> HIDE DEF r
    <3> QED BY <1>1, <1>2
  <2>3. b \in Seq(S) /\ Len(b) = IF to <= Len(r) THEN Len(r) - to + 1 ELSE 0
    <3> HIDE DEF r
    <3> QED BY <2>1, <2>2, SubSeqProperties
  <2> QED
    <3> HIDE DEF b, r
    <3> QED BY <1>1, <1>2, <2>3
<1>6. Moved(l, n, to) = (a \o <<l[n]>>) \o b
  BY DEF Moved
<1> HIDE DEF a, b, r
<1> DEFINE one == <<l[n]>>
<1>7. one \in Seq(S) /\ Len(one) = 1 /\ one[1] = l[n]
  BY <1>1
<1> HIDE DEF one
<1> DEFINE ab == a \o one
<1>8. ab \in Seq(S) /\ Len(ab) = to /\ ab[to] = l[n]
  <2>1. ab \in Seq(S) /\ Len(ab) = Len(a) + Len(one)
    BY <1>4, <1>7, ConcatProperties
  <2>2. \A i \in 1..(Len(a) + Len(one)) : ab[i] = IF i <= Len(a) THEN a[i] ELSE one[i - Len(a)]
    BY <1>4, <1>7, ConcatProperties
  <2>3. to \in 1..(Len(a) + Len(one)) /\ ~(to <= Len(a)) /\ to - Len(a) = 1
    BY <1>1, <1>4, <1>7
  <2>4. ab[to] = one[1]
    <3> HIDE DEF ab
    <3> QED BY <2>2, <2>3
  <2> HIDE DEF ab
  <2> QED BY <1>1, <1>4, <1>7, <2>1, <2>4
<1>9. Moved(l, n, to) = ab \o b
  BY <1>6 DEF one
<1> HIDE DEF ab
<1>10. ab \o b \in Seq(S) /\ Len(ab \o b) = Len(ab) + Len(b)
  BY <1>5, <1>8, ConcatProperties
<1>11. (ab \o b)[to] = ab[to]
  <2>1. \A i \in 1..(Len(ab) + Len(b)) : (ab \o b)[i] = IF i <= Len(ab) THEN ab[i] ELSE b[i - Len(ab)]
    BY <1>5, <1>8, ConcatProperties
  <2>2. to \in 1..(Len(ab) + Len(b)) /\ to <= Len(ab)
    BY <1>1, <1>5, <1>8
  <2> QED BY <2>1, <2>2
<1> QED BY <1>1, <1>5, <1>8, <1>9, <1>10, <1>11

TaskRow == [task : Tasks, done : BOOLEAN]
TaskList == Seq(TaskRow)
Targets == Seq([item : Nat \ {0}, text : STRING, done : BOOLEAN, task : Tasks])

\* Targets carry the text of the task they were taken from.
TargetsOK(g) == \A k \in DOMAIN g : g[k].text = TaskText[g[k].task]

TaskJobs ==
  [kind : {"none", "toggle", "delete", "move"}, targets : Targets, to : Nat, lists : SUBSET TaskList,
   err : BOOLEAN, clean : BOOLEAN, refused : BOOLEAN, stray : BOOLEAN]

TaskTypes ==
  /\ list \in TaskList /\ view \in TaskList /\ reading \in SUBSET TaskList
  /\ marks \in SUBSET Nat /\ cursor \in Nat \ {0} /\ asked \in Targets /\ TargetsOK(asked)
  /\ \A k, i \in DOMAIN asked : k < i => asked[k].item < asked[i].item
  /\ jobs \in [TaskSlots -> TaskJobs] /\ \A s \in TaskSlots : TargetsOK(jobs[s].targets)
  /\ undo \in [slot : {0} \cup TaskSlots, pos : Nat]
  /\ otherEdits \in Nat /\ movedTask \in Nat
  /\ \A l, r \in reading : l = r
  /\ \A s \in TaskSlots : \A l, r \in jobs[s].lists : l = r

\* What a job is about is still where it was read, as long as nothing else was written.
CleanOn(j, l) ==
  /\ j.clean => /\ ~j.refused
                /\ \A k \in DOMAIN j.targets : j.targets[k].item <= Len(l) /\ l[j.targets[k].item].task = j.targets[k].task
                /\ j.kind = "move" => j.to <= Len(l)
  /\ j.kind = "delete" => \A k, i \in DOMAIN j.targets : k < i => j.targets[i].item < j.targets[k].item
  /\ j.kind = "move" => Len(j.targets) <= 1 /\ j.to # 0
  /\ j.kind = "none" => j = NoTaskJob
  /\ ~j.stray

\* The reorder on its way is the one the cursor went ahead of.
UndoOK ==
  /\ \A s \in TaskSlots : jobs[s].kind = "move" <=> undo.slot = s
  /\ undo.slot = 0 => undo = NoUndo
  /\ undo.slot # 0 => undo.pos # 0

HasAll(l) == Len(l) = Len(TaskText)

\* Where the task is that the operator keeps the cursor on.
CursorOK ==
  movedTask # 0 /\ otherEdits = 0 =>
    /\ HasAll(list) /\ HasAll(view) /\ cursor <= Len(TaskText)
    /\ \A l \in reading : HasAll(l)
    /\ \A s \in TaskSlots : jobs[s].kind # "delete" /\ \A l \in jobs[s].lists : HasAll(l)
    /\ undo.slot = 0 => /\ list[cursor].task = movedTask
                        /\ reading = NoRead => view[cursor].task = movedTask
                        /\ \A l \in reading : l[cursor].task = movedTask
    /\ undo.slot # 0 =>
         LET j == jobs[undo.slot] IN
         /\ undo.pos \in 1..Len(TaskText)
         /\ j.targets # <<>> => /\ ~j.err /\ j.targets[1].item = undo.pos /\ cursor = j.to
         /\ j.targets # <<>> \/ j.err => list[undo.pos].task = movedTask
         /\ j.targets = <<>> /\ ~j.err => list[cursor].task = movedTask

JobsOK == \A s \in TaskSlots : CleanOn(jobs[s], list)

TInv == TaskTypes /\ JobsOK /\ UndoOK /\ CursorOK


LEMMA TextFacts ==
  /\ Len(TaskText) \in Nat /\ Tasks = 1..Len(TaskText) /\ Tasks \subseteq Nat
  /\ \A i \in Tasks : TaskText[i] \in STRING
BY TuiTasksAssumption, LenProperties, ElementOfSeq DEF Tasks

LEMMA OfIs ==
  ASSUME NEW r, r # {} PROVE Of(r) \in r
BY DEF Of

LEMMA OfOne ==
  ASSUME NEW l PROVE Of({l}) = l
BY DEF Of

LEMMA IdleJob ==
  /\ NoTaskJob \in TaskJobs /\ TargetsOK(NoTaskJob.targets) /\ \A l : CleanOn(NoTaskJob, l)
  /\ NoTaskJob.kind = "none" /\ NoTaskJob.targets = <<>> /\ NoTaskJob.lists = {} /\ ~NoTaskJob.err
BY DEF NoTaskJob, NoRead, TaskJobs, Targets, TargetsOK, CleanOn

\* Some job's inputs were overwritten: nothing is said of them any more.
LEMMA StaleJob ==
  ASSUME NEW j \in TaskJobs, NEW l, NEW m, CleanOn(j, l)
  PROVE  LET k == [j EXCEPT !.clean = FALSE]
         IN  /\ k \in TaskJobs /\ k.kind = j.kind /\ k.targets = j.targets /\ k.to = j.to /\ k.lists = j.lists /\ k.err = j.err
             /\ j # NoTaskJob => CleanOn(k, m)
<1> DEFINE k == [j EXCEPT !.clean = FALSE]
<1>1. /\ k \in TaskJobs /\ k.kind = j.kind /\ k.targets = j.targets /\ k.to = j.to /\ k.lists = j.lists /\ k.err = j.err
      /\ k.clean = FALSE /\ k.stray = j.stray
  BY DEF TaskJobs
<1>2. ASSUME j # NoTaskJob PROVE CleanOn(k, m)
  <2> HIDE DEF k
  <2> QED BY <1>1, <1>2 DEF CleanOn
<1> QED BY <1>1, <1>2

LEMMA StaleTabIs ==
  ASSUME TaskTypes, JobsOK, NEW s, NEW m, NEW t \in TaskSlots
  PROVE  LET j == jobs[t]
             k == StaleTab(s)[t]
         IN  /\ k \in TaskJobs /\ k.kind = j.kind /\ k.targets = j.targets /\ k.to = j.to /\ k.lists = j.lists /\ k.err = j.err
             /\ t # s => CleanOn(k, m)
<1> DEFINE j == jobs[t]
<1>1. j \in TaskJobs /\ CleanOn(j, list)
  BY DEF TaskTypes, JobsOK
<1>2. StaleTab(s)[t] = IF t = s \/ j = NoTaskJob THEN j ELSE [j EXCEPT !.clean = FALSE]
  BY DEF StaleTab
<1>3. CASE j = NoTaskJob
  BY <1>1, <1>2, <1>3, IdleJob
<1>4. CASE j # NoTaskJob /\ t = s
  BY <1>1, <1>2, <1>4
<1>5. CASE j # NoTaskJob /\ t # s
  <2> DEFINE k == [j EXCEPT !.clean = FALSE]
  <2>1. /\ k \in TaskJobs /\ k.kind = j.kind /\ k.targets = j.targets /\ k.to = j.to /\ k.lists = j.lists /\ k.err = j.err
        /\ CleanOn(k, m)
    <3> HIDE DEF j
    <3> QED BY <1>1, <1>5, StaleJob
  <2>2. StaleTab(s)[t] = k
    BY <1>2, <1>5
  <2> HIDE DEF k
  <2> QED BY <2>1, <2>2
<1> QED BY <1>3, <1>4, <1>5

\* markedTaskTargets: in list order, each with the text it shows.
LEMMA TargetsAre ==
  ASSUME TInv
  PROVE  /\ MarkedTaskTargets \in Targets /\ TargetsOK(MarkedTaskTargets)
         /\ \A k, i \in DOMAIN MarkedTaskTargets : k < i => MarkedTaskTargets[k].item < MarkedTaskTargets[i].item
<1> DEFINE S == marks \cap DOMAIN view
           c == IF S # {} THEN S ELSE {cursor} \cap DOMAIN view
           n == Len(view)
           T == [item : Nat \ {0}, text : STRING, done : BOOLEAN, task : Tasks]
<1>1. n \in Nat /\ c \in SUBSET (1..n)
  BY LenProperties DEF TInv, TaskTypes, TaskList
<1>2. ASSUME NEW i \in 1..n PROVE Target(i) \in T /\ Target(i).text = TaskText[Target(i).task] /\ Target(i).item = i
  <2>1. view[i] \in TaskRow
    BY <1>2, ElementOfSeq DEF TInv, TaskTypes, TaskList
  <2>2. TaskText[view[i].task] \in STRING
    BY <2>1, TextFacts DEF TaskRow
  <2> QED BY <1>1, <1>2, <2>1, <2>2 DEF Target, Text, TaskRow
<1> DEFINE q == Cardinality(c)
           f == InOrder(c)
<1>3. MarkedTaskTargets = [k \in 1..q |-> Target(f[k])]
  BY DEF MarkedTaskTargets
<1>4. q \in Nat /\ (\A k \in 1..q : f[k] \in c) /\ \A k, i \in 1..q : k < i => f[k] < f[i]
  <2> HIDE DEF c
  <2> QED BY <1>1, InOrderIs
<1> HIDE DEF c, n
<1>5. \A k \in 1..q : f[k] \in 1..n
  BY <1>1, <1>4
<1> HIDE DEF q, f
<1>6. MarkedTaskTargets \in Seq(T)
  <2>1. \A k \in 1..q : Target(f[k]) \in T
    BY <1>2, <1>5
  <2> HIDE DEF T
  <2> QED BY <1>3, <1>4, <2>1
<1> HIDE DEF T
<1>7. /\ DOMAIN MarkedTaskTargets = 1..q
      /\ \A k \in 1..q : MarkedTaskTargets[k] = Target(f[k])
  BY <1>3
<1> QED BY <1>2, <1>4, <1>5, <1>6, <1>7 DEF TargetsOK, Targets, T

LEMMA DeleteOrderIs ==
  ASSUME NEW g \in Targets, TargetsOK(g), \A k, i \in DOMAIN g : k < i => g[k].item < g[i].item
  PROVE  LET d == DeleteOrder(g)
         IN  d \in Targets /\ TargetsOK(d) /\ \A k, i \in DOMAIN d : k < i => d[i].item < d[k].item
<1> DEFINE n == Len(g)
           d == DeleteOrder(g)
           T == [item : Nat \ {0}, text : STRING, done : BOOLEAN, task : Tasks]
<1>1. n \in Nat /\ DOMAIN g = 1..n /\ \A k \in 1..n : g[k] \in T
  BY LenProperties, ElementOfSeq DEF Targets
<1>2. d = [k \in 1..n |-> g[n + 1 - k]]
  BY <1>1 DEF DeleteOrder
<1> HIDE DEF n, d, T
<1>3. \A k \in 1..n : n + 1 - k \in 1..n
  BY <1>1
<1>4. d \in Seq(T)
  BY <1>1, <1>2, <1>3
<1>5. DOMAIN d = 1..n /\ \A k \in 1..n : d[k] = g[n + 1 - k]
  BY <1>2
<1>6. TargetsOK(d)
  BY <1>1, <1>3, <1>5 DEF TargetsOK
<1>7. ASSUME NEW k \in 1..n, NEW i \in 1..n, k < i PROVE d[i].item < d[k].item
  <2>1. n + 1 - i < n + 1 - k /\ n + 1 - i \in DOMAIN g /\ n + 1 - k \in DOMAIN g
    BY <1>1, <1>7
  <2> QED BY <1>5, <2>1
<1> QED BY <1>4, <1>5, <1>6, <1>7 DEF Targets, d, T

\* A job that starts: clean exactly if its targets are where they were read.
LEMMA LaunchIs ==
  ASSUME TInv, NEW s \in FreeSlot, NEW kind \in {"toggle", "delete", "move"}, NEW g \in Targets, NEW to \in Nat,
         TargetsOK(g), kind = "move" => Len(g) <= 1 /\ to # 0,
         kind = "delete" => \A k, i \in DOMAIN g : k < i => g[i].item < g[k].item,
         Launch(s, kind, g, to)
  PROVE  /\ jobs' \in [TaskSlots -> TaskJobs]
         /\ s \in TaskSlots /\ jobs[s] = NoTaskJob /\ \A t \in TaskSlots : t # s => jobs'[t] = jobs[t]
         /\ CleanOn(jobs'[s], list)
         /\ jobs'[s].kind = kind /\ jobs'[s].targets = g /\ jobs'[s].to = to /\ jobs'[s].lists = {} /\ ~jobs'[s].err
<1> DEFINE clean == to <= Len(list) /\ \A k \in DOMAIN g : g[k].item <= Len(list) /\ list[g[k].item].task = g[k].task
           j == [NoTaskJob EXCEPT !.kind = kind, !.targets = g, !.to = to, !.clean = clean]
<1>1. jobs' = [jobs EXCEPT ![s] = j]
  BY DEF Launch
<1>2. s \in TaskSlots /\ jobs[s] = NoTaskJob /\ jobs \in [TaskSlots -> TaskJobs]
  BY DEF FreeSlot, TInv, TaskTypes
<1>3. clean \in BOOLEAN
  OBVIOUS
<1> HIDE DEF clean
<1>4. /\ j \in TaskJobs /\ j.kind = kind /\ j.targets = g /\ j.to = to /\ j.lists = {} /\ ~j.err
      /\ j.clean = clean /\ ~j.refused /\ ~j.stray
  BY <1>3 DEF NoTaskJob, NoRead, TaskJobs
<1> HIDE DEF j
<1>5. CleanOn(j, list)
  BY <1>4 DEF CleanOn, clean
<1> QED BY <1>1, <1>2, <1>4, <1>5


LEMMA InitTInv ==
  ASSUME InitTasks PROVE TInv
<1> DEFINE row(i) == [task |-> i, done |-> FALSE]
<1>1. list \in TaskList /\ view = list /\ Len(list) = Len(TaskText) /\ \A i \in Tasks : list[i].task = i
  <2>1. list = [i \in 1..Len(TaskText) |-> row(i)] /\ Len(TaskText) \in Nat /\ view = list
    BY TextFacts DEF InitTasks
  <2>2. \A i \in 1..Len(TaskText) : row(i) \in TaskRow
    BY TextFacts DEF TaskRow
  <2>3. list \in Seq(TaskRow)
    <3> HIDE DEF row
    <3> QED BY <2>1, <2>2
  <2> QED BY <2>1, <2>3, TextFacts DEF TaskList
<1>2. \A s \in TaskSlots : jobs[s] = NoTaskJob
  BY DEF InitTasks
<1>3. TaskTypes
  <2>1. jobs \in [TaskSlots -> TaskJobs] /\ \A s \in TaskSlots : TargetsOK(jobs[s].targets) /\ jobs[s].lists = {}
    BY <1>2, IdleJob DEF InitTasks
  <2>2. asked \in Targets /\ TargetsOK(asked) /\ asked = <<>>
    BY DEF InitTasks, Targets, TargetsOK
  <2> QED
    BY <1>1, <2>1, <2>2 DEF InitTasks, TaskTypes, NoUndo, NoRead
<1>4. JobsOK
  BY <1>2, IdleJob DEF JobsOK
<1>5. UndoOK
  BY <1>2, IdleJob DEF InitTasks, UndoOK, NoUndo, TaskSlots
<1>6. CursorOK
  <2> SUFFICES ASSUME movedTask # 0 PROVE CursorOK
    BY DEF CursorOK
  <2>1. movedTask = 1 /\ 1 \in Tasks /\ cursor = 1 /\ undo.slot = 0 /\ reading = {}
    BY TextFacts DEF InitTasks, NoUndo, NoRead
  <2> QED
    BY <1>1, <1>2, <2>1, IdleJob, TextFacts DEF CursorOK, HasAll
<1> QED BY <1>3, <1>4, <1>5, <1>6 DEF TInv

LEMMA OtherEditsKeeps ==
  ASSUME TInv, OtherEdits PROVE TInv'
<1>1. PICK n \in DOMAIN list : \/ list' = Removed(list, n)
                               \/ n > 1 /\ list' = Moved(list, n, 1)
                               \/ list' = [list EXCEPT ![n].done = ~@]
  BY DEF OtherEdits
<1>2. list \in Seq(TaskRow) /\ n \in 1..Len(list) /\ Len(list) \in Nat /\ list[n] \in TaskRow
  BY LenProperties, ElementOfSeq DEF TInv, TaskTypes, TaskList
<1>3. list' \in Seq(TaskRow)
  <2>1. CASE list' = Removed(list, n)
    BY <1>2, <2>1, RemovedIs
  <2>2. CASE list' = Moved(list, n, 1)
    BY <1>2, <2>2, MovedIs
  <2>3. CASE list' = [list EXCEPT ![n].done = ~@]
    <3> DEFINE r == [list[n] EXCEPT !.done = ~@]
    <3>1. r \in TaskRow /\ list' = [list EXCEPT ![n] = r]
      BY <1>2, <2>3 DEF TaskRow
    <3> HIDE DEF r
    <3> QED BY <1>2, <3>1, ExceptSeq
  <2> QED BY <1>1, <2>1, <2>2, <2>3
<1>4. jobs' = StaleTab(0) /\ UNCHANGED <<view, marks, cursor, asked, undo, reading, movedTask>> /\ otherEdits' = otherEdits + 1
  BY DEF OtherEdits
<1>5. ASSUME NEW s \in TaskSlots
      PROVE  /\ jobs'[s] \in TaskJobs /\ jobs'[s].kind = jobs[s].kind /\ jobs'[s].targets = jobs[s].targets
             /\ jobs'[s].lists = jobs[s].lists /\ CleanOn(jobs'[s], list')
  <2>1. s # 0 /\ TaskTypes /\ JobsOK
    BY DEF TInv, TaskSlots
  <2> DEFINE k == StaleTab(0)[s]
  <2>2. /\ k \in TaskJobs /\ k.kind = jobs[s].kind /\ k.targets = jobs[s].targets
        /\ k.lists = jobs[s].lists /\ CleanOn(k, list')
    BY <2>1, StaleTabIs
  <2> HIDE DEF k
  <2>3. jobs'[s] = k
    BY <1>4 DEF k
  <2> QED BY <2>2, <2>3
<1>6. jobs' = [s \in TaskSlots |-> jobs'[s]]
  BY <1>4 DEF StaleTab
<1>7. TaskTypes'
  <2>1. jobs' \in [TaskSlots -> TaskJobs] /\ \A s \in TaskSlots : TargetsOK(jobs'[s].targets) /\ \A l, r \in jobs'[s].lists : l = r
    BY <1>5, <1>6 DEF TInv, TaskTypes
  <2> QED BY <1>3, <1>4, <2>1 DEF TInv, TaskTypes, TaskList
<1>8. JobsOK' /\ UndoOK'
  BY <1>4, <1>5 DEF TInv, JobsOK, UndoOK
<1>9. CursorOK'
  BY <1>4 DEF TInv, TaskTypes, CursorOK
<1> QED BY <1>7, <1>8, <1>9 DEF TInv

LEMMA ToggleTaskMarkKeeps ==
  ASSUME TInv, ToggleTaskMark PROVE TInv'
<1>1. /\ UNCHANGED <<list, view, asked, jobs, undo, reading, otherEdits>> /\ movedTask' = 0
      /\ cursor' \in Nat \ {0} /\ marks' \in SUBSET Nat
  <2>1. Len(view) \in Nat
    BY LenProperties DEF TInv, TaskTypes, TaskList
  <2>2. cursor \in Nat \ {0} /\ marks \in SUBSET Nat
    BY DEF TInv, TaskTypes
  <2>3. /\ cursor' = (IF cursor < Len(view) THEN cursor + 1 ELSE cursor)
        /\ marks' = IF cursor \in marks THEN marks \ {cursor} ELSE marks \cup {cursor}
        /\ UNCHANGED <<list, view, asked, jobs, undo, reading, otherEdits>> /\ movedTask' = 0
    BY DEF ToggleTaskMark
  <2> QED BY <2>1, <2>2, <2>3
<1>2. TaskTypes'
  BY <1>1 DEF TInv, TaskTypes
<1> QED BY <1>1, <1>2 DEF TInv, JobsOK, UndoOK, CursorOK

LEMMA QuietKeeps ==
  ASSUME TInv, DeleteAsks \/ DeleteCancelled \/ UNCHANGED taskTabVars PROVE TInv'
<1>1. /\ UNCHANGED <<list, view, marks, cursor, jobs, undo, reading, otherEdits, movedTask>>
      /\ asked' = asked \/ asked' = <<>> \/ asked' = MarkedTaskTargets
  BY DEF DeleteAsks, DeleteCancelled, taskTabVars, counters
<1>2. asked' \in Targets /\ TargetsOK(asked') /\ \A k, i \in DOMAIN asked' : k < i => asked'[k].item < asked'[i].item
  <2>1. CASE asked' = <<>>
    BY <2>1 DEF Targets, TargetsOK
  <2> QED BY <1>1, <2>1, TargetsAre DEF TInv, TaskTypes
<1>3. TaskTypes'
  BY <1>1, <1>2 DEF TInv, TaskTypes
<1> QED BY <1>1, <1>3 DEF TInv, JobsOK, UndoOK, CursorOK

LEMMA DeleteConfirmedKeeps ==
  ASSUME TInv, DeleteConfirmed PROVE TInv'
<1> DEFINE d == DeleteOrder(asked)
<1>1. PICK s \in FreeSlot : Launch(s, "delete", d, 0)
  BY DEF DeleteConfirmed
<1>2. d \in Targets /\ TargetsOK(d) /\ \A k, i \in DOMAIN d : k < i => d[i].item < d[k].item
  BY DeleteOrderIs DEF TInv, TaskTypes
<1> HIDE DEF d
<1>3. /\ jobs' \in [TaskSlots -> TaskJobs]
      /\ s \in TaskSlots /\ jobs[s] = NoTaskJob /\ \A t \in TaskSlots : t # s => jobs'[t] = jobs[t]
      /\ CleanOn(jobs'[s], list) /\ jobs'[s].kind = "delete" /\ jobs'[s].targets = d /\ jobs'[s].lists = {}
  BY <1>1, <1>2, LaunchIs
<1>4. UNCHANGED <<list, view, cursor, undo, reading, otherEdits>> /\ asked' = <<>> /\ marks' = {} /\ movedTask' = 0
  BY DEF DeleteConfirmed, counters
<1>5. TaskTypes'
  <2>1. asked' \in Targets /\ TargetsOK(asked')
    BY <1>4 DEF Targets, TargetsOK
  <2>2. \A t \in TaskSlots : TargetsOK(jobs'[t].targets) /\ \A l, r \in jobs'[t].lists : l = r
    BY <1>2, <1>3 DEF TInv, TaskTypes
  <2> QED BY <1>3, <1>4, <2>1, <2>2 DEF TInv, TaskTypes
<1>6. JobsOK'
  BY <1>3, <1>4 DEF TInv, JobsOK
<1>7. UndoOK'
  BY <1>3, <1>4, IdleJob DEF TInv, UndoOK
<1>8. CursorOK'
  BY <1>4 DEF CursorOK
<1> QED BY <1>5, <1>6, <1>7, <1>8 DEF TInv


LEMMA ToggleTasksDoneKeeps ==
  ASSUME TInv, ToggleTasksDone PROVE TInv'
<1> DEFINE g == MarkedTaskTargets
           row(n) == [view[n] EXCEPT !.done = IF \E k \in DOMAIN g : g[k].item = n THEN ~@ ELSE @]
<1>1. PICK s \in FreeSlot : Launch(s, "toggle", g, 0)
  BY DEF ToggleTasksDone
<1>2. g \in Targets /\ TargetsOK(g)
  BY TargetsAre
<1>3. view' \in TaskList /\ Len(view') = Len(view) /\ \A i \in 1..Len(view) : view'[i].task = view[i].task
  <2>1. view' = [n \in 1..Len(view) |-> row(n)] /\ Len(view) \in Nat /\ \A n \in 1..Len(view) : view[n] \in TaskRow
    BY LenProperties, ElementOfSeq DEF ToggleTasksDone, TInv, TaskTypes, TaskList
  <2>2. \A n \in 1..Len(view) : row(n) \in TaskRow /\ row(n).task = view[n].task
    BY <2>1 DEF TaskRow
  <2> HIDE DEF row, g
  <2>3. view' \in Seq(TaskRow)
    BY <2>1, <2>2
  <2> QED BY <2>1, <2>2, <2>3 DEF TaskList
<1> HIDE DEF g
<1>4. /\ jobs' \in [TaskSlots -> TaskJobs]
      /\ s \in TaskSlots /\ jobs[s] = NoTaskJob /\ \A t \in TaskSlots : t # s => jobs'[t] = jobs[t]
      /\ CleanOn(jobs'[s], list) /\ jobs'[s].kind = "toggle" /\ jobs'[s].targets = g /\ jobs'[s].lists = {}
  BY <1>1, <1>2, LaunchIs
<1>5. UNCHANGED <<list, cursor, asked, undo, reading, otherEdits, movedTask>> /\ marks' = {}
  BY DEF ToggleTasksDone
<1>6. TaskTypes'
  <2>1. \A t \in TaskSlots : TargetsOK(jobs'[t].targets) /\ \A l, r \in jobs'[t].lists : l = r
    BY <1>2, <1>4 DEF TInv, TaskTypes
  <2> QED BY <1>3, <1>4, <1>5, <2>1 DEF TInv, TaskTypes
<1>7. JobsOK'
  BY <1>4, <1>5 DEF TInv, JobsOK
<1>8. jobs[s].kind = "none" /\ undo.slot # s /\ UndoOK'
  BY <1>4, <1>5, IdleJob DEF TInv, UndoOK
<1>9. CursorOK'
  <2> SUFFICES ASSUME movedTask # 0, otherEdits = 0 PROVE CursorOK'
    BY <1>5 DEF CursorOK
  <2>1. /\ HasAll(list) /\ HasAll(view) /\ cursor <= Len(TaskText) /\ cursor \in Nat \ {0}
        /\ \A l \in reading : HasAll(l)
        /\ \A t \in TaskSlots : jobs[t].kind # "delete" /\ \A l \in jobs[t].lists : HasAll(l)
    BY DEF TInv, TaskTypes, CursorOK
  <2>2. HasAll(view') /\ view'[cursor].task = view[cursor].task
    BY <1>3, <2>1, TextFacts DEF HasAll
  <2>3. \A t \in TaskSlots : jobs'[t].kind # "delete" /\ \A l \in jobs'[t].lists : HasAll(l)
    BY <1>4, <2>1
  <2>4. undo.slot # 0 => jobs'[undo.slot] = jobs[undo.slot]
    BY <1>4, <1>8 DEF TInv, TaskTypes
  <2> QED BY <1>5, <2>1, <2>2, <2>3, <2>4 DEF TInv, CursorOK
<1> QED BY <1>6, <1>7, <1>8, <1>9 DEF TInv

LEMMA MoveSelectedTaskKeeps ==
  ASSUME TInv, MoveSelectedTask PROVE TInv'
<1> DEFINE g == <<Target(cursor)>>
<1>1. PICK delta \in {-1, 1}, s \in FreeSlot :
        /\ cursor + delta \in DOMAIN view /\ Launch(s, "move", g, cursor + delta)
        /\ undo' = [slot |-> s, pos |-> cursor] /\ cursor' = cursor + delta
  BY DEF MoveSelectedTask
<1>2. /\ cursor \in DOMAIN view /\ undo = NoUndo /\ marks' = {} /\ UNCHANGED <<list, view, asked, reading, otherEdits>>
      /\ movedTask' = IF view = list /\ movedTask = view[cursor].task /\ reading = NoRead THEN movedTask ELSE 0
  BY DEF MoveSelectedTask
<1>3. Len(view) \in Nat /\ DOMAIN view = 1..Len(view) /\ view[cursor] \in TaskRow /\ cursor + delta \in Nat \ {0}
  BY <1>1, <1>2, LenProperties, ElementOfSeq DEF TInv, TaskTypes, TaskList
<1>4. g \in Targets /\ TargetsOK(g) /\ Len(g) = 1 /\ g[1].item = cursor
  <2> DEFINE a == Target(cursor)
  <2>1. TaskText[view[cursor].task] \in STRING /\ cursor \in Nat \ {0}
    BY <1>3, TextFacts DEF TaskRow, TInv, TaskTypes
  <2>2. a \in [item : Nat \ {0}, text : STRING, done : BOOLEAN, task : Tasks] /\ a.text = TaskText[a.task] /\ a.item = cursor
    BY <1>3, <2>1 DEF Target, Text, TaskRow
  <2>3. g = <<a>>
    OBVIOUS
  <2> HIDE DEF a, g
  <2> QED BY <2>2, <2>3 DEF Targets, TargetsOK
<1> HIDE DEF g
<1>5. /\ jobs' \in [TaskSlots -> TaskJobs]
      /\ s \in TaskSlots /\ jobs[s] = NoTaskJob /\ \A t \in TaskSlots : t # s => jobs'[t] = jobs[t]
      /\ CleanOn(jobs'[s], list)
      /\ jobs'[s].kind = "move" /\ jobs'[s].targets = g /\ jobs'[s].to = cursor + delta /\ jobs'[s].lists = {} /\ ~jobs'[s].err
  <2> DEFINE to == cursor + delta
  <2>1. Len(g) <= 1 /\ to \in Nat /\ to # 0 /\ Launch(s, "move", g, to)
    BY <1>1, <1>3, <1>4
  <2> HIDE DEF to
  <2>2. "move" \in {"toggle", "delete", "move"} /\ "move" # "delete"
    OBVIOUS
  <2>3. /\ jobs' \in [TaskSlots -> TaskJobs]
        /\ s \in TaskSlots /\ jobs[s] = NoTaskJob /\ \A t \in TaskSlots : t # s => jobs'[t] = jobs[t]
        /\ CleanOn(jobs'[s], list)
        /\ jobs'[s].kind = "move" /\ jobs'[s].targets = g /\ jobs'[s].to = to /\ jobs'[s].lists = {} /\ ~jobs'[s].err
    BY <1>4, <2>1, <2>2, LaunchIs
  <2> QED BY <2>3 DEF to
<1>6. TaskTypes'
  <2>1. \A t \in TaskSlots : TargetsOK(jobs'[t].targets) /\ \A l, r \in jobs'[t].lists : l = r
    BY <1>4, <1>5 DEF TInv, TaskTypes
  <2>2. undo' \in [slot : {0} \cup TaskSlots, pos : Nat] /\ cursor' \in Nat \ {0} /\ movedTask' \in Nat
    BY <1>1, <1>2, <1>3, <1>5 DEF TInv, TaskTypes
  <2> QED BY <1>2, <1>5, <2>1, <2>2 DEF TInv, TaskTypes
<1>7. JobsOK'
  BY <1>2, <1>5 DEF TInv, JobsOK
<1>8. UndoOK'
  <2>1. undo.slot = 0 /\ undo'.slot = s /\ s # 0 /\ undo'.pos # 0
    BY <1>1, <1>2, <1>3, <1>5 DEF NoUndo, TaskSlots
  <2>2. \A t \in TaskSlots : t # 0 /\ jobs[t].kind # "move"
    BY <2>1 DEF TInv, UndoOK, TaskSlots
  <2> QED BY <1>5, <2>1, <2>2 DEF UndoOK
<1>9. CursorOK'
  <2> SUFFICES ASSUME movedTask' # 0, otherEdits = 0 PROVE CursorOK'
    BY <1>2 DEF CursorOK
  <2>1. view = list /\ movedTask = view[cursor].task /\ reading = NoRead /\ movedTask' = movedTask /\ movedTask # 0
    BY <1>2
  <2>2. /\ HasAll(list) /\ HasAll(view)
        /\ \A l \in reading : HasAll(l)
        /\ \A t \in TaskSlots : jobs[t].kind # "delete" /\ \A l \in jobs[t].lists : HasAll(l)
    BY <2>1 DEF TInv, CursorOK
  <2>3. cursor \in 1..Len(TaskText) /\ cursor' <= Len(TaskText)
    BY <1>1, <1>2, <1>3, <2>2 DEF HasAll
  <2>4. \A t \in TaskSlots : jobs'[t].kind # "delete" /\ \A l \in jobs'[t].lists : HasAll(l)
    BY <1>5, <2>2
  <2>5. undo'.slot = s /\ undo'.pos = cursor /\ s # 0
    BY <1>1, <1>5 DEF TaskSlots
  <2>6. g # <<>>
    BY <1>4
  <2> QED BY <1>1, <1>2, <1>4, <1>5, <2>1, <2>2, <2>3, <2>4, <2>5, <2>6 DEF CursorOK
<1> QED BY <1>6, <1>7, <1>8, <1>9 DEF TInv


\* One write of a job: what it does to the list and to its own record.
WritesTo(s, ok, fault, k) ==
  LET j == jobs[s]
      g == j.targets[1]
  IN  /\ j \in TaskJobs /\ j.targets # <<>> /\ j.kind # "none"
      /\ g \in [item : Nat \ {0}, text : STRING, done : BOOLEAN, task : Tasks] /\ g.text = TaskText[g.task]
      /\ ok => /\ ~fault /\ g.item \in 1..Len(list) /\ Text(list[g.item]) = g.text
               /\ j.kind = "move" => j.to \in 1..Len(list)
      /\ ~ok => \/ fault
                \/ ~(g.item <= Len(list) /\ Text(list[g.item]) = g.text)
                \/ j.kind = "move" /\ ~(j.to <= Len(list))
      /\ list' = IF ok THEN Written(list, j, g) ELSE list
      /\ k \in TaskJobs /\ k.kind = j.kind /\ k.to = j.to /\ k.clean = j.clean /\ ~k.stray
      /\ k.err = (j.err \/ ~ok) /\ k.refused = (j.refused \/ (~ok /\ ~fault))
      /\ k.targets = IF ok \/ j.kind = "toggle" THEN Tail(j.targets) ELSE <<>>
      /\ k.lists = IF ok /\ j.kind # "move" THEN {list'} ELSE j.lists

LEMMA WrittenIs ==
  ASSUME TInv, NEW s \in TaskSlots, NEW g, g = jobs[s].targets[1], jobs[s].kind # "none",
         g.item \in 1..Len(list), jobs[s].kind = "move" => jobs[s].to \in 1..Len(list)
  PROVE  LET l == Written(list, jobs[s], g)
             j == jobs[s]
         IN  /\ l \in TaskList
             /\ j.kind = "toggle" => Len(l) = Len(list) /\ \A i \in 1..Len(list) : l[i].task = list[i].task
             /\ j.kind = "delete" => Len(l) = Len(list) - 1 /\ \A i \in 1..(Len(list) - 1) : i < g.item => l[i] = list[i]
             /\ j.kind = "move" => Len(l) = Len(list) /\ l[j.to] = list[g.item]
<1> DEFINE l == Written(list, jobs[s], g)
           j == jobs[s]
<1>1. list \in Seq(TaskRow) /\ Len(list) \in Nat /\ j \in TaskJobs /\ list[g.item] \in TaskRow
  BY LenProperties, ElementOfSeq DEF TInv, TaskTypes, TaskList
<1>2. CASE j.kind = "toggle"
  <2> DEFINE r == [list[g.item] EXCEPT !.done = ~g.done]
  <2>1. l = [list EXCEPT ![g.item] = r]
    BY <1>2 DEF Written
  <2>2. r \in TaskRow /\ r.task = list[g.item].task
    BY <1>1 DEF TaskRow
  <2> HIDE DEF r
  <2>3. l \in Seq(TaskRow) /\ Len(l) = Len(list) /\ \A i \in 1..Len(list) : l[i] = IF i = g.item THEN r ELSE list[i]
    BY <1>1, <2>1, <2>2, ExceptSeq
  <2> QED BY <1>2, <2>2, <2>3 DEF TaskList
<1>3. CASE j.kind = "delete"
  <2>1. l = Removed(list, g.item)
    BY <1>3 DEF Written
  <2>2. /\ l \in Seq(TaskRow) /\ Len(l) = Len(list) - 1
        /\ \A i \in 1..(Len(list) - 1) : l[i] = IF i < g.item THEN list[i] ELSE list[i + 1]
    BY <1>1, <2>1, RemovedIs
  <2> QED BY <1>3, <2>2 DEF TaskList
<1>4. CASE j.kind = "move"
  <2>1. l = Moved(list, g.item, j.to)
    BY <1>4 DEF Written
  <2>2. l \in Seq(TaskRow) /\ Len(l) = Len(list) /\ l[j.to] = list[g.item]
    BY <1>1, <1>4, <2>1, MovedIs
  <2> QED BY <1>4, <2>2 DEF TaskList
<1> QED BY <1>1, <1>2, <1>3, <1>4 DEF TaskJobs

LEMMA JobWritesIs ==
  ASSUME TInv, JobWrites
  PROVE  \E s \in TaskSlots, ok \in BOOLEAN, fault \in BOOLEAN :
           /\ WritesTo(s, ok, fault, jobs'[s])
           /\ jobs' = [t \in TaskSlots |-> jobs'[t]]
           /\ \A t \in TaskSlots : t # s => jobs'[t] = IF ok THEN StaleTab(s)[t] ELSE jobs[t]
           /\ UNCHANGED <<view, marks, cursor, asked, undo, reading, otherEdits, movedTask>>
<1>1. PICK s \in TaskSlots, fault \in BOOLEAN : TargetWritten(s, fault)
  BY DEF JobWrites
<1> DEFINE j == jobs[s]
           g == Head(j.targets)
           ok == ~fault /\ ExpectText(list, g) /\ (j.kind = "move" => j.to <= Len(list))
           stray == ok /\ Text(list[g.item]) # g.text
           rejected == ~ok /\ ~fault
           next == IF ok \/ j.kind = "toggle" THEN Tail(j.targets) ELSE <<>>
           lists == IF ok /\ j.kind # "move" THEN {list'} ELSE j.lists
           k == [j EXCEPT !.targets = next, !.err = @ \/ ~ok, !.refused = @ \/ rejected, !.stray = @ \/ stray, !.lists = lists]
           base == IF ok THEN StaleTab(s) ELSE jobs
<1>2. /\ j # NoTaskJob /\ j.targets # <<>> /\ list' = IF ok THEN Written(list, j, g) ELSE list
      /\ jobs' = [base EXCEPT ![s] = k]
  BY <1>1, Zenon DEF TargetWritten
<1>3. ok \in BOOLEAN /\ stray = FALSE /\ rejected \in BOOLEAN
  BY DEF ExpectText
<1>4. j \in TaskJobs /\ TargetsOK(j.targets) /\ j.kind # "none" /\ ~j.stray
  BY <1>2 DEF TInv, TaskTypes, JobsOK, CleanOn
<1>5. /\ g = j.targets[1] /\ g \in [item : Nat \ {0}, text : STRING, done : BOOLEAN, task : Tasks] /\ g.text = TaskText[g.task]
      /\ next \in Targets
  <2> HIDE DEF ok
  <2>1. /\ j.targets \in Seq([item : Nat \ {0}, text : STRING, done : BOOLEAN, task : Tasks])
        /\ 1 \in 1..Len(j.targets) /\ DOMAIN j.targets = 1..Len(j.targets)
    BY <1>2, <1>4 DEF TaskJobs, Targets
  <2>2. g = j.targets[1] /\ j.targets[1] \in [item : Nat \ {0}, text : STRING, done : BOOLEAN, task : Tasks]
    <3> DEFINE T == [item : Nat \ {0}, text : STRING, done : BOOLEAN, task : Tasks]
               q == j.targets
    <3>1. q \in Seq(T) /\ 1 \in 1..Len(q) /\ q # <<>>
      BY <2>1, <1>2
    <3> HIDE DEF T, j, q
    <3>2. q[1] \in T
      BY <3>1, ElementOfSeq
    <3>3. Head(q) = q[1]
      BY <3>1, HeadTailProperties
    <3>4. g = Head(q)
      BY DEF q
    <3> QED BY <3>2, <3>3, <3>4 DEF T, q
  <2>3. Tail(j.targets) \in Targets /\ <<>> \in Targets
    BY <2>1, <1>2, HeadTailProperties DEF Targets
  <2>4. j.targets[1].text = TaskText[j.targets[1].task]
    BY <1>4, <2>1 DEF TargetsOK
  <2> QED BY <2>2, <2>3, <2>4
<1>6. list \in TaskList /\ Len(list) \in Nat
  BY LenProperties DEF TInv, TaskTypes, TaskList
<1>7. ok => /\ ~fault /\ g.item \in 1..Len(list) /\ Text(list[g.item]) = g.text
            /\ j.kind = "move" => j.to \in 1..Len(list)
  <2>1. j.kind = "move" => j.to # 0 /\ j.to \in Nat
    BY <1>4 DEF TInv, JobsOK, CleanOn, TaskJobs
  <2> QED BY <1>5, <1>6, <2>1 DEF ExpectText
<1>8. ~ok => \/ fault
             \/ ~(g.item <= Len(list) /\ Text(list[g.item]) = g.text)
             \/ j.kind = "move" /\ ~(j.to <= Len(list))
  BY DEF ExpectText
<1>9. list' \in TaskList
  <2>1. CASE ok
    <3>1. Written(list, jobs[s], g) \in TaskList
      BY <1>4, <1>5, <1>7, <2>1, WrittenIs
    <3> QED BY <1>2, <2>1, <3>1
  <2> QED BY <1>2, <1>6, <2>1
<1>10. lists \in SUBSET TaskList
  <2> HIDE DEF ok
  <2> QED BY <1>4, <1>9 DEF TaskJobs
<1> HIDE DEF ok, stray, rejected, next, lists, g
<1>11. /\ k \in TaskJobs /\ k.kind = j.kind /\ k.to = j.to /\ k.clean = j.clean /\ k.stray = (j.stray \/ stray)
       /\ k.err = (j.err \/ ~ok) /\ k.refused = (j.refused \/ rejected) /\ k.targets = next /\ k.lists = lists
  <2> HIDE DEF j
  <2> QED BY <1>3, <1>4, <1>5, <1>10 DEF TaskJobs
<1>12. base = [t \in TaskSlots |-> base[t]]
  BY DEF StaleTab, TInv, TaskTypes
<1> HIDE DEF k
<1>13. jobs'[s] = k /\ jobs' = [t \in TaskSlots |-> jobs'[t]] /\ \A t \in TaskSlots : t # s => jobs'[t] = base[t]
  <2> HIDE DEF base
  <2> QED BY <1>2, <1>12
<1>14. WritesTo(s, ok, fault, k)
  BY <1>2, <1>3, <1>4, <1>5, <1>7, <1>8, <1>11 DEF WritesTo, next, lists, rejected
<1>15. UNCHANGED <<view, marks, cursor, asked, undo, reading, otherEdits, movedTask>>
  BY DEF JobWrites
<1>16. \A t \in TaskSlots : t # s => jobs'[t] = IF ok THEN StaleTab(s)[t] ELSE jobs[t]
  BY <1>13
<1> QED BY <1>3, <1>13, <1>14, <1>15, <1>16

LEMMA ListAfterWrite ==
  ASSUME TInv, NEW s \in TaskSlots, NEW ok \in BOOLEAN, NEW fault \in BOOLEAN, NEW k, WritesTo(s, ok, fault, k)
  PROVE  LET j == jobs[s]
             g == j.targets[1]
         IN  /\ list' \in TaskList
             /\ ~ok => list' = list
             /\ j.kind = "toggle" => Len(list') = Len(list) /\ \A i \in 1..Len(list) : list'[i].task = list[i].task
             /\ j.kind = "delete" /\ ok => /\ Len(list') = Len(list) - 1
                                           /\ \A i \in 1..(Len(list) - 1) : i < g.item => list'[i] = list[i]
             /\ j.kind = "move" => Len(list') = Len(list)
             /\ j.kind = "move" /\ ok => list'[j.to] = list[g.item]
<1> DEFINE j == jobs[s]
           g == j.targets[1]
<1>1. j.kind # "none" /\ list' = IF ok THEN Written(list, j, g) ELSE list
  BY DEF WritesTo
<1>2. ok => /\ g.item \in 1..Len(list)
            /\ j.kind = "move" => j.to \in 1..Len(list)
  BY DEF WritesTo
<1>3. list \in TaskList
  BY DEF TInv, TaskTypes
<1>4. CASE ok
  <2> DEFINE l == Written(list, j, g)
  <2>1. list' = l
    BY <1>1, <1>4
  <2>2. /\ l \in TaskList
        /\ j.kind = "toggle" => Len(l) = Len(list) /\ \A i \in 1..Len(list) : l[i].task = list[i].task
        /\ j.kind = "delete" => Len(l) = Len(list) - 1 /\ \A i \in 1..(Len(list) - 1) : i < g.item => l[i] = list[i]
        /\ j.kind = "move" => Len(l) = Len(list) /\ l[j.to] = list[g.item]
    BY <1>1, <1>2, <1>4, WrittenIs
  <2> HIDE DEF l
  <2> QED BY <1>4, <2>1, <2>2
<1>5. CASE ~ok
  BY <1>1, <1>3, <1>5
<1> QED BY <1>4, <1>5

LEMMA TailIs ==
  ASSUME NEW T, NEW q \in Seq(T), q # <<>>
  PROVE  /\ Tail(q) \in Seq(T) /\ Len(q) \in Nat \ {0} /\ Len(Tail(q)) = Len(q) - 1
         /\ DOMAIN Tail(q) = 1..(Len(q) - 1)
         /\ \A i \in 1..(Len(q) - 1) : Tail(q)[i] = q[i + 1] /\ i + 1 \in DOMAIN q
BY HeadTailProperties, LenProperties, EmptySeq

\* The writer's own job, on the list it leaves.
LEMMA OwnJobStaysClean ==
  ASSUME TInv, NEW s \in TaskSlots, NEW ok \in BOOLEAN, NEW fault \in BOOLEAN, NEW k, WritesTo(s, ok, fault, k)
  PROVE  TargetsOK(k.targets) /\ CleanOn(k, list') /\ (k.kind = "move" => k.targets = <<>>)
         /\ (\A l, r \in k.lists : l = r)
<1> DEFINE j == jobs[s]
           q == j.targets
           g == q[1]
           T == [item : Nat \ {0}, text : STRING, done : BOOLEAN, task : Tasks]
<1>1. /\ j \in TaskJobs /\ q # <<>> /\ j.kind # "none" /\ g.text = TaskText[g.task]
      /\ ok => /\ ~fault /\ g.item \in 1..Len(list)
               /\ j.kind = "move" => j.to \in 1..Len(list)
      /\ ~ok => \/ fault
                \/ ~(g.item <= Len(list) /\ Text(list[g.item]) = g.text)
                \/ j.kind = "move" /\ ~(j.to <= Len(list))
      /\ k.kind = j.kind /\ k.to = j.to /\ k.clean = j.clean /\ ~k.stray
      /\ k.refused = (j.refused \/ (~ok /\ ~fault))
      /\ k.targets = IF ok \/ j.kind = "toggle" THEN Tail(q) ELSE <<>>
      /\ k.lists = IF ok /\ j.kind # "move" THEN {list'} ELSE j.lists
  BY DEF WritesTo
<1>2. /\ TargetsOK(q) /\ CleanOn(j, list)
      /\ \A l, r \in j.lists : l = r
  BY DEF TInv, TaskTypes, JobsOK
<1>3. q \in Seq(T) /\ j.clean \in BOOLEAN /\ j.refused \in BOOLEAN
      /\ j.kind \in {"none", "toggle", "delete", "move"}
  BY <1>1 DEF TaskJobs, Targets
<1>4. /\ Len(q) \in Nat \ {0} /\ DOMAIN Tail(q) = 1..(Len(q) - 1) /\ DOMAIN q = 1..Len(q)
      /\ \A i \in 1..(Len(q) - 1) : Tail(q)[i] = q[i + 1] /\ i + 1 \in DOMAIN q
  <2> HIDE DEF q, T
  <2> QED BY <1>1, <1>3, TailIs, LenProperties
<1>5. \A i \in DOMAIN k.targets : /\ i \in Nat \ {0} /\ i + 1 \in DOMAIN q /\ k.targets[i] = q[i + 1]
                                  /\ k.targets = Tail(q)
  <2>1. CASE k.targets = Tail(q)
    BY <1>4, <2>1
  <2>2. CASE k.targets = <<>>
    BY <2>2
  <2> QED BY <1>1, <2>1, <2>2
<1>6. TargetsOK(k.targets)
  BY <1>2, <1>5 DEF TargetsOK
<1>7. k.kind = "move" => k.targets = <<>>
  <2> SUFFICES ASSUME j.kind = "move" PROVE k.targets = <<>>
    BY <1>1
  <2>1. Len(q) = 1
    <3>1. Len(q) <= 1
      BY <1>2 DEF CleanOn
    <3> HIDE DEF q
    <3> QED BY <1>4, <3>1
  <2>2. Tail(q) = <<>>
    <3> HIDE DEF q, T
    <3>1. Tail(q) \in Seq(T) /\ Len(Tail(q)) = 0
      BY <1>1, <1>3, <2>1, TailIs
    <3> QED BY <3>1, EmptySeq
  <2> QED BY <1>1, <2>2
<1>8. \A l, r \in k.lists : l = r
  BY <1>1, <1>2
<1>9. /\ list' \in TaskList
      /\ ~ok => list' = list
      /\ j.kind = "toggle" => Len(list') = Len(list) /\ \A i \in 1..Len(list) : list'[i].task = list[i].task
      /\ j.kind = "delete" /\ ok => /\ Len(list') = Len(list) - 1
                                    /\ \A i \in 1..(Len(list) - 1) : i < g.item => list'[i] = list[i]
      /\ j.kind = "move" => Len(list') = Len(list)
  BY ListAfterWrite
<1>10. list \in TaskList /\ Len(list) \in Nat /\ \A i \in DOMAIN q : q[i] \in T
  <2> HIDE DEF T
  <2> QED BY <1>3, <1>4, LenProperties, ElementOfSeq DEF TInv, TaskTypes, TaskList
<1>11. j.kind = "delete" => \A i \in DOMAIN k.targets : k.targets[i].item < g.item
  <2> SUFFICES ASSUME j.kind = "delete", NEW i \in DOMAIN k.targets PROVE q[i + 1].item < q[1].item
    BY <1>5
  <2>1. i + 1 \in DOMAIN q /\ 1 \in DOMAIN q /\ 1 < i + 1
    BY <1>4, <1>5
  <2> QED BY <1>2, <2>1 DEF CleanOn
<1>12. ASSUME j.clean
       PROVE  /\ ~k.refused
              /\ \A i \in DOMAIN k.targets : k.targets[i].item <= Len(list') /\ list'[k.targets[i].item].task = k.targets[i].task
              /\ k.kind = "move" => k.to <= Len(list')
  <2>1. /\ ~j.refused /\ (j.kind = "move" => j.to <= Len(list))
        /\ \A i \in DOMAIN q : q[i].item <= Len(list) /\ list[q[i].item].task = q[i].task
    BY <1>2, <1>12 DEF CleanOn
  <2>2. ~k.refused
    <3>1. 1 \in DOMAIN q
      BY <1>4
    <3>2. g.item <= Len(list) /\ Text(list[g.item]) = g.text
      BY <1>1, <2>1, <3>1 DEF Text
    <3> QED BY <1>1, <2>1, <3>2
  <2>3. ASSUME NEW i \in DOMAIN k.targets
        PROVE  k.targets[i].item <= Len(list') /\ list'[k.targets[i].item].task = k.targets[i].task
    <3> DEFINE n == k.targets[i].item
    <3>1. n <= Len(list) /\ list[n].task = k.targets[i].task
      BY <1>5, <2>1
    <3>2. n \in Nat \ {0}
      BY <1>5, <1>10
    <3>3. CASE ~ok
      BY <1>9, <3>1, <3>3
    <3>4. CASE j.kind = "toggle"
      BY <1>9, <1>10, <3>1, <3>2, <3>4
    <3>5. CASE ok /\ j.kind = "delete"
      <4>1. n < g.item /\ g.item \in 1..Len(list)
        BY <1>1, <1>11, <3>5
      <4> HIDE DEF n
      <4>2. n \in 1..(Len(list) - 1)
        BY <1>10, <3>2, <4>1
      <4> QED BY <1>9, <1>10, <3>1, <3>5, <4>1, <4>2 DEF n
    <3>6. CASE j.kind = "move"
      BY <1>1, <1>7, <3>6
    <3> QED BY <1>1, <1>3, <3>3, <3>4, <3>5, <3>6
  <2>4. k.kind = "move" => k.to <= Len(list')
    BY <1>1, <1>9, <2>1
  <2> QED BY <2>2, <2>3, <2>4
<1>13. j.kind = "delete" => \A a, i \in DOMAIN k.targets : a < i => k.targets[i].item < k.targets[a].item
  <2> SUFFICES ASSUME j.kind = "delete", NEW a \in DOMAIN k.targets, NEW i \in DOMAIN k.targets, a < i
               PROVE  q[i + 1].item < q[a + 1].item
    BY <1>5
  <2>1. i + 1 \in DOMAIN q /\ a + 1 \in DOMAIN q /\ a + 1 < i + 1
    BY <1>5
  <2> QED BY <1>2, <2>1 DEF CleanOn
<1>14. j.kind = "move" => Len(k.targets) <= 1 /\ k.to # 0
  BY <1>1, <1>2, <1>7 DEF CleanOn
<1>15. CleanOn(k, list')
  BY <1>1, <1>12, <1>13, <1>14 DEF CleanOn
<1> QED BY <1>6, <1>7, <1>8, <1>15

LEMMA JobWritesKeeps == TInv /\ JobWrites => TInv'
<1> SUFFICES ASSUME TInv, JobWrites PROVE TInv'
  OBVIOUS
<1>1. PICK s \in TaskSlots, ok \in BOOLEAN, fault \in BOOLEAN :
           /\ WritesTo(s, ok, fault, jobs'[s])
           /\ jobs' = [t \in TaskSlots |-> jobs'[t]]
           /\ \A t \in TaskSlots : t # s => jobs'[t] = IF ok THEN StaleTab(s)[t] ELSE jobs[t]
           /\ UNCHANGED <<view, marks, cursor, asked, undo, reading, otherEdits, movedTask>>
  BY JobWritesIs
<1> DEFINE j == jobs[s]
           k == jobs'[s]
           g == j.targets[1]
<1>2. TaskTypes /\ JobsOK /\ UndoOK /\ CursorOK
  BY DEF TInv
<1>3. /\ list' \in TaskList
      /\ ~ok => list' = list
      /\ j.kind = "toggle" => Len(list') = Len(list) /\ \A i \in 1..Len(list) : list'[i].task = list[i].task
      /\ j.kind = "move" => Len(list') = Len(list)
      /\ j.kind = "move" /\ ok => list'[j.to] = list[g.item]
  BY <1>1, ListAfterWrite
<1>4. /\ j \in TaskJobs /\ j.targets # <<>> /\ j.kind # "none"
      /\ k \in TaskJobs /\ k.kind = j.kind /\ k.to = j.to
      /\ k.err = (j.err \/ ~ok)
      /\ k.lists = IF ok /\ j.kind # "move" THEN {list'} ELSE j.lists
  BY <1>1 DEF WritesTo
<1>5. TargetsOK(k.targets) /\ CleanOn(k, list') /\ (k.kind = "move" => k.targets = <<>>) /\ \A l, r \in k.lists : l = r
  BY <1>1, OwnJobStaysClean
<1>6. ASSUME NEW t \in TaskSlots, t # s
      PROVE  /\ jobs'[t] \in TaskJobs /\ jobs'[t].kind = jobs[t].kind /\ jobs'[t].targets = jobs[t].targets
             /\ jobs'[t].to = jobs[t].to /\ jobs'[t].lists = jobs[t].lists /\ jobs'[t].err = jobs[t].err
             /\ CleanOn(jobs'[t], list')
  <2>1. CASE ok
    <3>1. jobs'[t] = StaleTab(s)[t]
      BY <1>1, <1>6, <2>1
    <3> QED BY <1>2, <1>6, <3>1, StaleTabIs
  <2>2. CASE ~ok
    <3>1. jobs'[t] = jobs[t] /\ list' = list
      BY <1>1, <1>3, <1>6, <2>2
    <3> QED BY <1>2, <3>1 DEF TaskTypes, JobsOK
  <2> QED BY <2>1, <2>2
<1> HIDE DEF k
<1>7. \A t \in TaskSlots : /\ jobs'[t] \in TaskJobs /\ TargetsOK(jobs'[t].targets) /\ CleanOn(jobs'[t], list')
                           /\ jobs'[t].kind = jobs[t].kind
                           /\ \A l, r \in jobs'[t].lists : l = r
  BY <1>2, <1>4, <1>5, <1>6 DEF TaskTypes, k
<1>8. UNCHANGED <<view, marks, cursor, asked, undo, reading, otherEdits, movedTask>>
  BY <1>1
<1>9. TaskTypes'
  BY <1>1, <1>2, <1>3, <1>7, <1>8 DEF TaskTypes
<1>10. JobsOK'
  BY <1>7 DEF JobsOK
<1>11. UndoOK'
  BY <1>2, <1>7, <1>8 DEF UndoOK
<1>12. CursorOK'
  <2> SUFFICES ASSUME movedTask # 0, otherEdits = 0
               PROVE  /\ HasAll(list') /\ HasAll(view) /\ cursor <= Len(TaskText)
                      /\ \A l \in reading : HasAll(l)
                      /\ \A t \in TaskSlots : jobs'[t].kind # "delete" /\ \A l \in jobs'[t].lists : HasAll(l)
                      /\ undo.slot = 0 => /\ list'[cursor].task = movedTask
                                          /\ reading = NoRead => view[cursor].task = movedTask
                                          /\ \A l \in reading : l[cursor].task = movedTask
                      /\ undo.slot # 0 =>
                           /\ undo.pos \in 1..Len(TaskText)
                           /\ jobs'[undo.slot].targets # <<>> =>
                                /\ ~jobs'[undo.slot].err /\ jobs'[undo.slot].targets[1].item = undo.pos
                                /\ cursor = jobs'[undo.slot].to
                           /\ jobs'[undo.slot].targets # <<>> \/ jobs'[undo.slot].err => list'[undo.pos].task = movedTask
                           /\ jobs'[undo.slot].targets = <<>> /\ ~jobs'[undo.slot].err => list'[cursor].task = movedTask
    BY <1>8 DEF CursorOK, HasAll, NoRead
  <2>1. /\ HasAll(list) /\ HasAll(view) /\ cursor <= Len(TaskText)
        /\ \A l \in reading : HasAll(l)
        /\ \A t \in TaskSlots : jobs[t].kind # "delete" /\ \A l \in jobs[t].lists : HasAll(l)
        /\ undo.slot = 0 => /\ list[cursor].task = movedTask
                            /\ reading = NoRead => view[cursor].task = movedTask
                            /\ \A l \in reading : l[cursor].task = movedTask
    BY <1>2 DEF CursorOK
  <2>2. undo.slot # 0 =>
             /\ undo.pos \in 1..Len(TaskText)
             /\ jobs[undo.slot].targets # <<>> =>
                  /\ ~jobs[undo.slot].err /\ jobs[undo.slot].targets[1].item = undo.pos
                  /\ cursor = jobs[undo.slot].to
             /\ jobs[undo.slot].targets # <<>> \/ jobs[undo.slot].err => list[undo.pos].task = movedTask
             /\ jobs[undo.slot].targets = <<>> /\ ~jobs[undo.slot].err => list[cursor].task = movedTask
    BY <1>2 DEF CursorOK
  <2>3. cursor \in 1..Len(TaskText) /\ undo.slot \in {0} \cup TaskSlots /\ s # 0
    BY <1>2, <2>1, TextFacts DEF TaskTypes, TaskSlots
  <2>4. j.kind \in {"toggle", "move"}
    BY <1>4, <2>1 DEF TaskJobs
  <2>5. Len(list') = Len(list) /\ HasAll(list')
    BY <1>3, <2>1, <2>4 DEF HasAll
  <2>6. \A t \in TaskSlots : jobs'[t].kind # "delete" /\ \A l \in jobs'[t].lists : HasAll(l)
    <3>1. \A l \in k.lists : HasAll(l)
      BY <1>4, <2>1, <2>5
    <3> QED BY <1>4, <1>6, <2>1, <3>1 DEF k
  <2>7. undo.slot # s => j.kind = "toggle" /\ \A i \in 1..Len(TaskText) : list'[i].task = list[i].task
    <3>1. undo.slot # s => j.kind # "move"
      BY <1>2 DEF UndoOK
    <3> QED BY <1>3, <2>1, <2>4, <3>1 DEF HasAll
  <2>8. CASE undo.slot # s
    <3>1. undo.slot # 0 => jobs'[undo.slot].targets = jobs[undo.slot].targets /\ jobs'[undo.slot].to = jobs[undo.slot].to
                           /\ jobs'[undo.slot].err = jobs[undo.slot].err
      BY <1>6, <2>3, <2>8
    <3> QED BY <2>1, <2>2, <2>3, <2>5, <2>6, <2>7, <2>8, <3>1
  <2>9. CASE undo.slot = s
    <3>1. j.kind = "move" /\ undo.slot # 0
      BY <1>2, <2>3, <2>9 DEF UndoOK
    <3>2. k.targets = <<>> /\ j.targets # <<>> /\ ~j.err /\ g.item = undo.pos /\ cursor = j.to /\ list[undo.pos].task = movedTask
      BY <1>4, <1>5, <2>2, <2>9, <3>1
    <3>3. k.err => list' = list
      BY <1>3, <1>4, <3>2
    <3>4. ~k.err => list'[cursor].task = movedTask
      BY <1>3, <1>4, <3>1, <3>2
    <3>5. jobs'[undo.slot] = k
      BY <2>9 DEF k
    <3> HIDE DEF j, g
    <3> QED BY <2>1, <2>2, <2>5, <2>6, <2>9, <3>1, <3>2, <3>3, <3>4, <3>5
  <2> QED BY <2>8, <2>9
<1> QED BY <1>9, <1>10, <1>11, <1>12 DEF TInv

LEMMA JobLandsKeeps == TInv /\ JobLands => TInv'
<1> SUFFICES ASSUME TInv, JobLands PROVE TInv'
  OBVIOUS
<1>0. TaskTypes /\ JobsOK /\ UndoOK /\ CursorOK
  BY DEF TInv
<1>1. PICK s \in TaskSlots :
        LET j == jobs[s]
            visible == IF j.lists = NoRead THEN view ELSE Of(j.lists)
        IN  /\ j.targets = <<>>
            /\ view' = visible /\ UNCHANGED marks
            /\ cursor' = Clamped(UndoneCursor(s, j.err), visible) /\ undo' = UndoAfter(s, j.err)
            /\ jobs' = [jobs EXCEPT ![s] = NoTaskJob]
            /\ movedTask' = IF movedTask # 0 /\ Clamped(UndoneCursor(s, FALSE), visible) = UndoneCursor(s, FALSE) THEN movedTask ELSE 0
  BY DEF JobLands
<1> DEFINE j == jobs[s]
           visible == IF j.lists = NoRead THEN view ELSE Of(j.lists)
           n == UndoneCursor(s, j.err)
<1>2. /\ j.targets = <<>> /\ view' = visible /\ marks' = marks
      /\ cursor' = Clamped(n, visible) /\ undo' = (IF undo.slot = s THEN NoUndo ELSE undo)
      /\ jobs' = [jobs EXCEPT ![s] = NoTaskJob]
      /\ movedTask' = movedTask \/ movedTask' = 0
      /\ n = IF undo.slot = s /\ j.err THEN undo.pos ELSE cursor
  BY <1>1 DEF UndoAfter, UndoneCursor
<1>3. reading' = {list} /\ UNCHANGED <<list, asked, otherEdits>>
  BY DEF JobLands, counters
<1>4. visible = view \/ (j.lists # {} /\ visible \in j.lists)
  BY OfIs DEF NoRead
<1>5. visible \in TaskList /\ Len(visible) \in Nat
  BY <1>0, <1>4, LenProperties DEF TaskTypes, TaskJobs, TaskList
<1>6. n \in Nat \ {0}
  <2>1. s # 0 /\ undo.pos \in Nat /\ cursor \in Nat \ {0}
    BY <1>0 DEF TaskTypes, TaskSlots
  <2> QED BY <1>0, <1>2, <2>1 DEF UndoOK
<1>7. cursor' \in Nat \ {0} /\ (n <= Len(visible) => cursor' = n)
  <2>1. cursor' = IF n > Len(visible) /\ Len(visible) > 0 THEN Len(visible) ELSE n
    BY <1>2 DEF Clamped
  <2> HIDE DEF n, visible
  <2> QED BY <1>5, <1>6, <2>1
<1>8. /\ jobs' \in [TaskSlots -> TaskJobs] /\ jobs'[s] = NoTaskJob /\ \A t \in TaskSlots : t # s => jobs'[t] = jobs[t]
  BY <1>0, <1>2, IdleJob DEF TaskTypes
<1> HIDE DEF n, visible
<1>9. TaskTypes'
  <2>1. \A t \in TaskSlots : TargetsOK(jobs'[t].targets) /\ \A l, r \in jobs'[t].lists : l = r
    BY <1>0, <1>8, IdleJob DEF TaskTypes
  <2>2. undo' \in [slot : {0} \cup TaskSlots, pos : Nat] /\ movedTask' \in Nat
    BY <1>0, <1>2 DEF TaskTypes, NoUndo
  <2>3. reading' \in SUBSET TaskList /\ \A l, r \in reading' : l = r
    BY <1>0, <1>3 DEF TaskTypes
  <2> QED BY <1>0, <1>2, <1>3, <1>5, <1>7, <1>8, <2>1, <2>2, <2>3 DEF TaskTypes
<1>10. JobsOK'
  BY <1>0, <1>3, <1>8, IdleJob DEF JobsOK
<1>11. UndoOK'
  <2>1. s # 0 /\ \A t \in TaskSlots : t # 0
    BY DEF TaskSlots
  <2> QED BY <1>0, <1>2, <1>8, <2>1, IdleJob DEF UndoOK, NoUndo
<1>12. CursorOK'
  <2> SUFFICES ASSUME movedTask' # 0, otherEdits' = 0 PROVE CursorOK'
    BY DEF CursorOK
  <2>1. movedTask # 0 /\ movedTask' = movedTask /\ otherEdits = 0 /\ s # 0
    BY <1>2, <1>3 DEF TaskSlots
  <2>2. /\ HasAll(list) /\ HasAll(view) /\ cursor <= Len(TaskText)
        /\ \A t \in TaskSlots : jobs[t].kind # "delete" /\ \A l \in jobs[t].lists : HasAll(l)
        /\ undo.slot = 0 => list[cursor].task = movedTask
        /\ undo.slot # 0 =>
             LET u == jobs[undo.slot] IN
             /\ undo.pos \in 1..Len(TaskText)
             /\ u.targets # <<>> => /\ ~u.err /\ u.targets[1].item = undo.pos /\ cursor = u.to
             /\ u.targets # <<>> \/ u.err => list[undo.pos].task = movedTask
             /\ u.targets = <<>> /\ ~u.err => list[cursor].task = movedTask
    BY <1>0, <2>1 DEF CursorOK
  <2>3. HasAll(visible)
    BY <1>4, <2>2
  <2>4. n <= Len(TaskText)
    BY <1>2, <2>1, <2>2, TextFacts
  <2>5. cursor' = n
    BY <1>7, <2>3, <2>4 DEF HasAll
  <2>6. \A t \in TaskSlots : jobs'[t].kind # "delete" /\ \A l \in jobs'[t].lists : HasAll(l)
    BY <1>8, <2>2, IdleJob
  <2>7. reading' # NoRead /\ \A l \in reading' : l = list'
    BY <1>3 DEF NoRead
  <2>8. CASE undo.slot = s
    <3>1. undo'.slot = 0
      BY <1>2, <2>8 DEF NoUndo
    <3>2. list[n].task = movedTask
      BY <1>2, <2>1, <2>2, <2>8
    <3> QED BY <1>2, <1>3, <2>1, <2>2, <2>3, <2>4, <2>5, <2>6, <2>7, <3>1, <3>2 DEF CursorOK, HasAll
  <2>9. CASE undo.slot # s
    <3>1. undo' = undo /\ n = cursor
      BY <1>2, <2>9
    <3>2. undo.slot # 0 => jobs'[undo.slot] = jobs[undo.slot]
      BY <1>0, <1>8, <2>9 DEF TaskTypes
    <3> HIDE DEF j
    <3> QED BY <1>2, <1>3, <2>1, <2>2, <2>3, <2>4, <2>5, <2>6, <2>7, <3>1, <3>2 DEF CursorOK, HasAll
  <2> QED BY <2>8, <2>9
<1> QED BY <1>9, <1>10, <1>11, <1>12 DEF TInv

LEMMA PollReadsKeeps == TInv /\ PollReads => TInv'
<1> SUFFICES ASSUME TInv, PollReads PROVE TInv'
  OBVIOUS
<1>1. /\ reading = {} /\ reading' = {list}
      /\ UNCHANGED <<list, view, marks, cursor, asked, jobs, undo, movedTask, otherEdits>>
  BY DEF PollReads, counters, NoRead
<1>2. TaskTypes'
  BY <1>1 DEF TInv, TaskTypes
<1>3. CursorOK'
  BY <1>1 DEF TInv, CursorOK, HasAll, NoRead
<1> QED BY <1>1, <1>2, <1>3 DEF TInv, JobsOK, UndoOK

LEMMA RefreshShowsKeeps == TInv /\ RefreshShows => TInv'
<1> SUFFICES ASSUME TInv, RefreshShows PROVE TInv'
  OBVIOUS
<1> DEFINE l == Of(reading)
<1>1. /\ reading # {} /\ reading' = {} /\ view' = l /\ marks' = marks \cap DOMAIN l
      /\ cursor' = Clamped(cursor, l) /\ movedTask' = IF cursor' = cursor THEN movedTask ELSE 0
      /\ UNCHANGED <<list, asked, jobs, undo, otherEdits>>
  BY DEF RefreshShows, Shows, counters, NoRead
<1>2. l \in reading
  BY <1>1, OfIs
<1> HIDE DEF l
<1>3. TaskTypes /\ JobsOK /\ UndoOK /\ CursorOK
  BY DEF TInv
<1>4. l \in TaskList /\ Len(l) \in Nat
  BY <1>2, <1>3, LenProperties DEF TaskTypes, TaskList
<1>5. cursor' \in Nat \ {0}
  BY <1>1, <1>3, <1>4 DEF TaskTypes, Clamped
<1>6. TaskTypes'
  BY <1>1, <1>3, <1>4, <1>5 DEF TaskTypes
<1>7. CursorOK'
  <2> SUFFICES ASSUME movedTask' # 0, otherEdits' = 0 PROVE CursorOK'
    BY DEF CursorOK
  <2>1. movedTask # 0 /\ movedTask' = movedTask /\ otherEdits = 0 /\ cursor' = cursor
    BY <1>1
  <2>2. HasAll(l) /\ (undo.slot = 0 => l[cursor].task = movedTask)
    BY <1>2, <1>3, <2>1 DEF CursorOK
  <2> QED BY <1>1, <1>3, <2>1, <2>2 DEF CursorOK, HasAll, NoRead
<1> QED BY <1>1, <1>3, <1>6, <1>7 DEF TInv, JobsOK, UndoOK

\* The key is for the task it was pressed on: nothing is written at a position
\* that carries another text (guardedMutation), what a job took for itself stays
\* valid for it over several rows (confirmDeleteTaskTargets), and a task that is
\* moved keeps the cursor, the move failing or not (moveSelectedTask, cursorUndo).
THEOREM TaskKeysAlwaysHit == SpecTasks => []TaskKeysHitTheirTask
<1>1. InitTasks => TInv
  BY InitTInv
<1>2. TInv /\ [NextTasks]_taskTabVars => TInv'
  BY OtherEditsKeeps, ToggleTaskMarkKeeps, ToggleTasksDoneKeeps, QuietKeeps, DeleteConfirmedKeeps,
     MoveSelectedTaskKeeps, JobWritesKeeps, JobLandsKeeps, PollReadsKeeps, RefreshShowsKeeps DEF NextTasks
<1>3. TInv => TaskKeysHitTheirTask
  <2> SUFFICES ASSUME TInv PROVE TaskKeysHitTheirTask
    OBVIOUS
  <2>1. OnlyTheTextConfirmed /\ OwnTargetsStayValid
    BY DEF TInv, JobsOK, CleanOn, OnlyTheTextConfirmed, OwnTargetsStayValid
  <2>2. CursorStaysOnTask
    BY DEF TInv, CursorOK, CursorStaysOnTask, NoUndo
  <2> QED BY <2>1, <2>2 DEF TaskKeysHitTheirTask
<1> QED BY <1>1, <1>2, <1>3, PTL DEF SpecTasks

-----------------------------------------------------------------------------
(* The delivery of a form *)

FormKinds == {k \in Kinds : k[Tabs] # "multi"}
Forms ==
  [id : {1, 2}, open : BOOLEAN, tab : 1..Tabs, caret : Digits, kind : FormKinds,
   answer : [Questions -> 0..2], ticks : [Questions -> SUBSET Digits]]
Frames ==
  [of : {1, 2}, tab : 1..Tabs, caret : Digits, marks : SUBSET Questions, multi : BOOLEAN, ticks : SUBSET Digits]

WalkJobs == [at : {"sweep", "reverify"}, i : 1..Tabs, frames : Seq(Frames)]
TabJobs == [at : {"before", "toggleread"}, i : 1..Tabs]
OptionJobs == [at : {"press", "after", "enter", "final"}, i : 1..Tabs, was : Frames, open : Nat]
ToggleJobs == [at : {"toggle", "verify", "advance", "moved"}, i : 1..Tabs, was : Frames, missing : SUBSET Digits]
FormJobs == [at : {"idle", "decided", "start", "done"}] \cup WalkJobs \cup TabJobs \cup OptionJobs \cup ToggleJobs

FormTypes ==
  /\ chosen \in Answers /\ form \in Forms /\ formJob \in FormJobs
  /\ attempted \in BOOLEAN /\ meddled \in BOOLEAN /\ touches \in Nat
  /\ formJob.at = "toggleread" => formJob.i < Tabs
  /\ formJob \in ToggleJobs => formJob.i < Tabs
  /\ formJob.at = "toggle" => formJob.missing # {}

\* A tab that is as it was chosen.
Done(t) == IF form.kind[t] = "multi" THEN form.ticks[t] = chosen[t] ELSE {form.answer[t]} = chosen[t]
DoneBefore(n) == \A t \in Questions : t < n => Done(t)

\* hap counts the tabs ahead of where the form is, never behind, and where it counts right
\* every tab passed is as chosen.
InSeries ==
  /\ formJob \in TabJobs => form.tab <= formJob.i /\ (form.tab = formJob.i /\ ~meddled => DoneBefore(form.tab))
  /\ formJob \in OptionJobs \cup ToggleJobs =>
       /\ formJob.was.tab <= formJob.i
       /\ formJob.was.tab = formJob.i /\ ~meddled => DoneBefore(form.tab)
       /\ form.tab = formJob.was.tab \/ (form.tab = formJob.was.tab + 1 /\ formJob.at \in {"after", "final", "moved"})
  /\ formJob \in OptionJobs => Cardinality(chosen[formJob.i]) = 1
  /\ formJob.at = "enter" => form.caret = TheDigit(formJob.i)
  /\ formJob.at \in {"toggle", "verify", "advance"} => form.kind[form.tab] = "multi"
  /\ formJob.at = "advance" /\ formJob.was.tab = formJob.i /\ ~meddled => form.ticks[form.tab] = chosen[form.tab]
SeriesOK == form.open => InSeries

SubmissionOK ==
  /\ Typing => form.id = capture[1].of
  /\ formJob.at = "done" => ~form.open
  /\ submission.of # 0 => /\ ~form.open /\ formJob.at \notin {"sweep", "decided", "reverify", "start"}
                          /\ SubmittedAsChosen /\ OwnFormIsAnswered

\* The first tabs of the form, as a walk from the first one reads them.
TabByTab(f, fs, n) ==
  /\ fs \in Seq(Frames) /\ Len(fs) = n
  /\ \A k \in 1..n : fs[k].of = f.id /\ fs[k].tab = k /\ fs[k].multi = (f.kind[k] = "multi") /\ (k > 1 => fs[k].caret = 1)

\* Where hap's own keys take the form.
PlaceOK ==
  /\ formJob \in TabJobs => form.tab = formJob.i
  /\ formJob \in OptionJobs \cup ToggleJobs => formJob.was.tab = formJob.i
  /\ formJob \in OptionJobs =>
       /\ form.kind[formJob.i] # "multi"
       /\ form.tab = formJob.i => Unanswered(form) = formJob.open
  /\ formJob.at = "final" => form.tab = formJob.i + 1
  /\ formJob \in ToggleJobs => formJob.missing \subseteq chosen[formJob.i]

\* As long as nobody else touches the form, it is where hap thinks it is, and holds no box
\* that is not hap's own.
UntouchedOK ==
  touches = 0 =>
    /\ submission.of = 0 => form.open
    /\ \A t \in Questions : form.ticks[t] \subseteq chosen[t] /\ (form.open => attempted \/ form.ticks[t] = {})
    /\ formJob \in TabJobs \cup OptionJobs \cup ToggleJobs => attempted
    /\ formJob.at = "sweep" =>
         LET fs == formJob.frames IN
         IF formJob.i = 1 THEN fs = <<>>
         ELSE fs # <<>> /\ (fs[1].tab = 1 => TabByTab(form, fs, formJob.i - 1) /\ form.tab = formJob.i /\ form.caret = 1)
    /\ formJob.at = "decided" => form.tab = 1 /\ (capture[1].tab = 1 => TabByTab(form, capture, Tabs))
    /\ Typing => TabByTab(form, capture, Tabs)
    /\ formJob.at = "reverify" =>
         /\ TabByTab(form, formJob.frames, formJob.i - 1) /\ form.tab = formJob.i
         /\ IF formJob.i = 1 THEN form.caret = capture[1].caret ELSE form.caret = 1 /\ formJob.frames[1].caret = capture[1].caret
    /\ form.open => PlaceOK

FInv == FormTypes /\ SeriesOK /\ SubmissionOK /\ UntouchedOK

LEMMA TabsAre ==
  /\ Tabs \in Nat \ {0} /\ Questions = 1..(Tabs - 1) /\ Digits = {1, 2}
  /\ \A a \in Answers : a \in [1..Tabs -> SUBSET Digits]
<1>1. ASSUME NEW a \in Answers PROVE a \in [1..Tabs -> SUBSET Digits]
  <2>1. a \in Seq(SUBSET Digits) /\ Len(a) = Tabs
    BY FormSeriesAssumption
  <2> QED BY <2>1, LenProperties
<1> QED BY <1>1, FormSeriesAssumption DEF Questions, Digits

LEMMA ChosenIs ==
  ASSUME FormTypes, NEW t \in 1..Tabs
  PROVE  /\ chosen[t] \in SUBSET Digits
         /\ Cardinality(chosen[t]) = 1 => TheDigit(t) \in Digits /\ chosen[t] = {TheDigit(t)}
<1>1. chosen[t] \in SUBSET Digits
  BY TabsAre DEF FormTypes
<1>2. ASSUME Cardinality(chosen[t]) = 1 PROVE TheDigit(t) \in Digits /\ chosen[t] = {TheDigit(t)}
  <2>1. IsFiniteSet(chosen[t])
    <3>1. IsFiniteSet(Digits)
      <4>1. 1 \in Int /\ 2 \in Int
        OBVIOUS
      <4> QED BY <4>1, FS_Interval DEF Digits
    <3> QED BY <1>1, <3>1, FS_Subset
  <2>2. PICK d : chosen[t] = {d}
    BY <1>2, <2>1, FS_Singleton
  <2>3. TheDigit(t) = d
    BY <2>2 DEF TheDigit
  <2> QED BY <1>1, <2>2, <2>3
<1> QED BY <1>1, <1>2

\* Which job it is.
LEMMA JobClasses ==
  ASSUME NEW j \in FormJobs
  PROVE  /\ j \in WalkJobs <=> j.at \in {"sweep", "reverify"}
         /\ j \in TabJobs <=> j.at \in {"before", "toggleread"}
         /\ j \in OptionJobs <=> j.at \in {"press", "after", "enter", "final"}
         /\ j \in ToggleJobs <=> j.at \in {"toggle", "verify", "advance", "moved"}
         /\ j.at \in {"idle", "decided", "start", "done", "sweep", "reverify", "before", "toggleread",
                      "press", "after", "enter", "final", "toggle", "verify", "advance", "moved"}
BY DEF FormJobs, WalkJobs, TabJobs, OptionJobs, ToggleJobs

LEMMA IdleIs == NoJob \in FormJobs /\ NoJob.at = "idle"
BY DEF NoJob, FormJobs

LEMMA OptionAt ==
  ASSUME NEW j \in OptionJobs, NEW a \in {"press", "after", "enter", "final"}
  PROVE  LET k == [j EXCEPT !.at = a] IN k \in OptionJobs /\ k.at = a /\ k.i = j.i /\ k.was = j.was /\ k.open = j.open
BY DEF OptionJobs

LEMMA ToggleAt ==
  ASSUME NEW j \in ToggleJobs, NEW a \in {"toggle", "verify", "advance", "moved"}
  PROVE  LET k == [j EXCEPT !.at = a] IN k \in ToggleJobs /\ k.at = a /\ k.i = j.i /\ k.was = j.was /\ k.missing = j.missing
BY DEF ToggleJobs

LEMMA UnansweredIs ==
  ASSUME NEW f \in Forms PROVE Unanswered(f) \in Nat /\ Answered(f) \in SUBSET Questions
<1>1. IsFiniteSet(Questions)
  <2>1. 1 \in Int /\ Tabs - 1 \in Int
    BY TabsAre
  <2> QED BY <2>1, FS_Interval DEF Questions
<1>2. IsFiniteSet(Questions \ Answered(f))
  BY <1>1, FS_Difference
<1> QED BY <1>2, FS_CardinalityType DEF Unanswered, Answered

LEMMA FrameIs ==
  ASSUME NEW f \in Forms
  PROVE  /\ Frame(f) \in Frames /\ Frame(f).of = f.id /\ Frame(f).tab = f.tab /\ Frame(f).caret = f.caret
         /\ Frame(f).multi = Multi(f)
         /\ Multi(f) => f.open /\ f.kind[f.tab] = "multi" /\ f.tab \in Questions /\ Frame(f).ticks = f.ticks[f.tab]
         /\ f.open /\ f.kind[f.tab] = "multi" => Multi(f)
         /\ ~Multi(f) => Frame(f).ticks = {}
<1>1. Multi(f) \in BOOLEAN /\ (Multi(f) <=> f.open /\ f.kind[f.tab] = "multi")
  BY DEF Multi, Forms
<1>2. f.kind[f.tab] = "multi" => f.tab \in Questions
  <2>1. f.tab \in 1..Tabs /\ f.kind[Tabs] # "multi"
    BY DEF Forms, FormKinds
  <2> QED BY <2>1, TabsAre
<1>3. Multi(f) => f.ticks[f.tab] \in SUBSET Digits
  BY <1>1, <1>2 DEF Forms
<1>4. f.id \in {1, 2} /\ f.tab \in 1..Tabs /\ f.caret \in Digits /\ Answered(f) \in SUBSET Questions
  BY UnansweredIs DEF Forms
<1>5. Frame(f) = [of |-> f.id, tab |-> f.tab, caret |-> f.caret, marks |-> Answered(f), multi |-> Multi(f),
                  ticks |-> IF Multi(f) THEN f.ticks[f.tab] ELSE {}]
  BY DEF Frame
<1> DEFINE m == Multi(f)
           a == Answered(f)
           s == IF m THEN f.ticks[f.tab] ELSE {}
<1>6. s \in SUBSET Digits
  BY <1>3
<1> HIDE DEF m, a, s
<1>7. Frame(f) \in Frames
  BY <1>1, <1>4, <1>5, <1>6 DEF Frames, m, a, s
<1> QED BY <1>1, <1>2, <1>5, <1>7

\* The form g after the caret's or a digit's answer d, and after a box was flipped.
Commits(f, d, g) ==
  /\ g \in Forms /\ g.id = f.id /\ g.kind = f.kind /\ g.ticks = f.ticks
  /\ f.tab = Tabs => ~g.open
  /\ f.tab # Tabs => /\ g.open /\ g.tab = f.tab + 1 /\ g.answer[f.tab] = d
                     /\ \A t \in Questions : t # f.tab => g.answer[t] = f.answer[t]
Flips(f, d, g) ==
  /\ g \in Forms /\ g.id = f.id /\ g.kind = f.kind /\ g.open = f.open /\ g.tab = f.tab /\ g.answer = f.answer
  /\ g.ticks[f.tab] = Flip(f.ticks[f.tab], d)
  /\ \A t \in Questions : t # f.tab => g.ticks[t] = f.ticks[t]

LEMMA CommitIs ==
  ASSUME NEW f \in Forms, NEW d \in Digits, f.open PROVE Commits(f, d, Commit(f, d))
<1>0. Tabs \in Nat \ {0} /\ Questions = 1..(Tabs - 1) /\ Digits = {1, 2}
  BY TabsAre
<1>1. CASE f.tab = Tabs
  <2>1. Commit(f, d) = [f EXCEPT !.open = FALSE, !.caret = d]
    BY <1>1 DEF Commit
  <2> QED BY <1>1, <2>1 DEF Commits, Forms
<1>2. CASE f.tab # Tabs
  <2> DEFINE a == [f.answer EXCEPT ![f.tab] = d]
             g == [f EXCEPT !.answer = a, !.tab = f.tab + 1, !.caret = 1]
  <2>1. Commit(f, d) = g
    BY <1>2 DEF Commit, MovedTo, Forms
  <2>2. f.tab \in Questions /\ f.tab + 1 \in 1..Tabs /\ 1 \in Digits
    BY <1>0, <1>2 DEF Forms
  <2>3. a \in [Questions -> 0..2] /\ a[f.tab] = d /\ \A t \in Questions : t # f.tab => a[t] = f.answer[t]
    BY <1>0, <2>2 DEF Forms
  <2> HIDE DEF a
  <2>4. /\ g \in Forms /\ g.id = f.id /\ g.kind = f.kind /\ g.ticks = f.ticks /\ g.open /\ g.tab = f.tab + 1
        /\ g.answer = a
    BY <2>2, <2>3 DEF Forms
  <2> HIDE DEF g
  <2> QED BY <1>2, <2>1, <2>3, <2>4 DEF Commits
<1> QED BY <1>1, <1>2

LEMMA FlipIs ==
  ASSUME NEW f \in Forms, NEW d \in Digits, NEW c \in Digits, f.tab \in Questions
  PROVE  Flips(f, d, [f EXCEPT !.ticks[f.tab] = Flip(@, d), !.caret = c])
<1> DEFINE s == Flip(f.ticks[f.tab], d)
           a == [f.ticks EXCEPT ![f.tab] = s]
           g == [f EXCEPT !.ticks = a, !.caret = c]
<1>1. [f EXCEPT !.ticks[f.tab] = Flip(@, d), !.caret = c] = g
  BY DEF Forms
<1>2. s \in SUBSET Digits
  BY DEF Forms, Flip
<1> HIDE DEF s
<1>3. a \in [Questions -> SUBSET Digits] /\ a[f.tab] = s /\ \A t \in Questions : t # f.tab => a[t] = f.ticks[t]
  BY <1>2 DEF Forms
<1> HIDE DEF a
<1>4. /\ g \in Forms /\ g.id = f.id /\ g.kind = f.kind /\ g.open = f.open /\ g.tab = f.tab /\ g.answer = f.answer
      /\ g.ticks = a
  BY <1>3 DEF Forms
<1> HIDE DEF g
<1>5. Flips(f, d, g)
  BY <1>3, <1>4 DEF Flips, s
<1> QED BY <1>1, <1>5

\* What a digit does on each kind of tab, and what the other keys do.
DigitStep(f, d, g) ==
  /\ g \in Forms /\ g.id = f.id /\ g.kind = f.kind
  /\ ~f.open => g = f
  /\ f.open => \/ f.kind[f.tab] = "plain" /\ Commits(f, d, g)
               \/ /\ f.kind[f.tab] = "preview" /\ g.open /\ g.tab = f.tab /\ g.caret = d
                  /\ g.answer = f.answer /\ g.ticks = f.ticks
               \/ f.kind[f.tab] = "multi" /\ f.tab \in Questions /\ Flips(f, d, g)
EnterStep(f, g) ==
  /\ g \in Forms /\ g.id = f.id /\ g.kind = f.kind
  /\ ~f.open => g = f
  /\ f.open => \/ f.kind[f.tab] # "multi" /\ Commits(f, f.caret, g)
               \/ f.kind[f.tab] = "multi" /\ f.tab \in Questions /\ Flips(f, f.caret, g)
WalkStep(f, g) ==
  /\ g \in Forms /\ g.id = f.id /\ g.kind = f.kind /\ g.open = f.open /\ g.answer = f.answer /\ g.ticks = f.ticks
ResetStep(f, g) == WalkStep(f, g) /\ (f.open => g.tab = 1 /\ (f.tab = 1 => g = f) /\ (f.tab # 1 => g.caret = 1))
RightStep(f, g) == WalkStep(f, g) /\ (f.open /\ f.tab # Tabs => g.tab = f.tab + 1 /\ g.caret = 1)

LEMMA DigitIs ==
  ASSUME NEW f \in Forms, NEW d \in Digits PROVE DigitStep(f, d, Digit(f, d))
<1> SUFFICES ASSUME NEW g, g = Digit(f, d) PROVE DigitStep(f, d, g)
  OBVIOUS
<1>1. f.kind[f.tab] \in {"plain", "preview", "multi"}
  BY DEF Forms, FormKinds, Kinds
<1>2. CASE ~f.open
  <2>1. g = f
    BY <1>2 DEF Digit
  <2> QED BY <1>2, <2>1 DEF DigitStep
<1>3. CASE f.open /\ f.kind[f.tab] = "plain"
  <2>1. g = Commit(f, d)
    BY <1>3 DEF Digit
  <2>2. Commits(f, d, g)
    BY <1>3, <2>1, CommitIs
  <2> QED BY <1>3, <2>2 DEF Commits, DigitStep
<1>4. CASE f.open /\ f.kind[f.tab] = "preview"
  <2>1. g = [f EXCEPT !.caret = d]
    BY <1>4 DEF Digit
  <2> QED BY <1>4, <2>1 DEF Forms, DigitStep
<1>5. CASE f.open /\ f.kind[f.tab] = "multi"
  <2>1. g = [f EXCEPT !.ticks[f.tab] = Flip(@, d), !.caret = d]
    BY <1>5 DEF Digit
  <2>2. f.tab \in Questions
    BY <1>5, FrameIs
  <2>3. Flips(f, d, g)
    BY <2>1, <2>2, FlipIs
  <2> QED BY <1>5, <2>2, <2>3 DEF Flips, DigitStep
<1> QED BY <1>1, <1>2, <1>3, <1>4, <1>5

LEMMA EnterIs ==
  ASSUME NEW f \in Forms PROVE EnterStep(f, Enter(f))
<1> SUFFICES ASSUME NEW g, g = Enter(f) PROVE EnterStep(f, g)
  OBVIOUS
<1>0. f.caret \in Digits
  BY DEF Forms
<1>1. CASE ~f.open
  <2>1. g = f
    BY <1>1 DEF Enter
  <2> QED BY <1>1, <2>1 DEF EnterStep
<1>2. CASE f.open /\ f.kind[f.tab] # "multi"
  <2>1. g = Commit(f, f.caret)
    BY <1>2 DEF Enter
  <2>2. Commits(f, f.caret, g)
    BY <1>0, <1>2, <2>1, CommitIs
  <2> QED BY <1>2, <2>2 DEF Commits, EnterStep
<1>3. CASE f.open /\ f.kind[f.tab] = "multi"
  <2>1. g = [f EXCEPT !.ticks[f.tab] = Flip(@, f.caret)]
    BY <1>3 DEF Enter
  <2>2. f.tab \in Questions
    BY <1>3, FrameIs
  <2>3. g = [f EXCEPT !.ticks[f.tab] = Flip(@, f.caret), !.caret = f.caret]
    BY <2>1 DEF Forms
  <2>4. Flips(f, f.caret, g)
    BY <1>0, <2>2, <2>3, FlipIs
  <2> QED BY <1>3, <2>2, <2>4 DEF Flips, EnterStep
<1> QED BY <1>1, <1>2, <1>3

LEMMA MovedToIs ==
  ASSUME NEW f \in Forms, NEW t \in 1..Tabs
  PROVE  WalkStep(f, MovedTo(f, t)) /\ MovedTo(f, t).tab = t /\ MovedTo(f, t).caret = 1
BY TabsAre DEF MovedTo, Forms, WalkStep

LEMMA WalksAre ==
  ASSUME NEW f \in Forms PROVE ResetStep(f, Reset(f)) /\ RightStep(f, Right(f))
<1>1. 1 \in 1..Tabs /\ (f.tab < Tabs => f.tab + 1 \in 1..Tabs) /\ f.tab \in 1..Tabs /\ WalkStep(f, f)
  BY TabsAre DEF Forms, WalkStep
<1>2. ResetStep(f, Reset(f))
  <2>1. CASE f.open /\ f.tab > 1
    <3>1. Reset(f) = MovedTo(f, 1)
      BY <2>1 DEF Reset
    <3> QED BY <1>1, <2>1, <3>1, MovedToIs DEF ResetStep
  <2>2. CASE ~(f.open /\ f.tab > 1)
    <3>1. Reset(f) = f
      BY <2>2 DEF Reset
    <3>2. f.open => f.tab = 1
      BY <1>1, <2>2
    <3> QED BY <1>1, <3>1, <3>2 DEF ResetStep
  <2> QED BY <2>1, <2>2
<1>3. RightStep(f, Right(f))
  <2>1. CASE f.open /\ f.tab < Tabs
    <3>1. Right(f) = MovedTo(f, f.tab + 1)
      BY <2>1 DEF Right
    <3> QED BY <1>1, <2>1, <3>1, MovedToIs DEF RightStep
  <2>2. CASE ~(f.open /\ f.tab < Tabs)
    <3>1. Right(f) = f
      BY <2>2 DEF Right
    <3>2. f.open => f.tab = Tabs
      BY <1>1, <2>2, TabsAre
    <3> QED BY <1>1, <3>1, <3>2 DEF RightStep
  <2> QED BY <2>1, <2>2
<1> QED BY <1>2, <1>3

LEMMA SameUnmarked ==
  ASSUME NEW f \in Frames, NEW g \in Frames, f.of = g.of, f.tab = g.tab, f.caret = g.caret, f.multi = g.multi
  PROVE  Unmarked(f) = Unmarked(g)
<1>1. ASSUME NEW h \in Frames
      PROVE  Unmarked(h) = [of |-> h.of, tab |-> h.tab, caret |-> h.caret, marks |-> {}, multi |-> h.multi, ticks |-> {}]
  <2>1. h = [of |-> h.of, tab |-> h.tab, caret |-> h.caret, marks |-> h.marks, multi |-> h.multi, ticks |-> h.ticks]
    BY DEF Frames
  <2> DEFINE k == [h EXCEPT !.marks = {}, !.ticks = {}]
  <2>2. k \in Frames
    BY DEF Frames
  <2>3. k.of = h.of /\ k.tab = h.tab /\ k.caret = h.caret /\ k.marks = {} /\ k.multi = h.multi /\ k.ticks = {}
    BY DEF Frames
  <2>4. Unmarked(h) = k
    BY DEF Unmarked
  <2> HIDE DEF k
  <2>5. k = [of |-> k.of, tab |-> k.tab, caret |-> k.caret, marks |-> k.marks, multi |-> k.multi, ticks |-> k.ticks]
    BY <2>2 DEF Frames
  <2> QED BY <2>3, <2>4, <2>5
<1> QED BY <1>1

LEMMA InitFInv == InitForm => FInv
<1> SUFFICES ASSUME InitForm PROVE FInv
  OBVIOUS
<1>1. PICK kinds \in FormKinds : form = FreshForm(1, kinds)
  BY DEF InitForm, FormKinds
<1>2. /\ form \in Forms /\ form.open /\ form.tab = 1 /\ form.id = 1 /\ \A t \in Questions : form.ticks[t] = {}
  BY <1>1, TabsAre DEF FreshForm, Forms
<1>3. /\ chosen \in Answers /\ formJob = NoJob /\ attempted = FALSE /\ meddled = FALSE /\ submission.of = 0 /\ touches = 0
  BY DEF InitForm, NotSubmitted
<1>4. NoJob \in FormJobs /\ NoJob.at = "idle"
  BY IdleIs
<1>5. ~(formJob \in TabJobs \cup OptionJobs \cup ToggleJobs \cup WalkJobs)
  BY <1>3, <1>4, JobClasses
<1>6. FormTypes
  BY <1>2, <1>3, <1>4, <1>5 DEF FormTypes
<1>7. SeriesOK /\ SubmissionOK
  BY <1>3, <1>4, <1>5 DEF SeriesOK, InSeries, SubmissionOK, Typing
<1>8. UntouchedOK
  BY <1>2, <1>3, <1>4, <1>5 DEF UntouchedOK, PlaceOK, Typing
<1> QED BY <1>6, <1>7, <1>8 DEF FInv

\* Whatever ends the delivery leaves the form as it was, or on its first tab.
LEMMA BreaksKeeps ==
  ASSUME FInv, formJob' = NoJob, WalkStep(form, form'), UNCHANGED <<chosen, capture, attempted, submission, meddled, touches>>
  PROVE  FInv'
<1>1. NoJob \in FormJobs /\ NoJob.at = "idle"
  BY IdleIs
<1>2. /\ formJob'.at = "idle" /\ formJob' \in FormJobs
      /\ ~(formJob' \in TabJobs \cup OptionJobs \cup ToggleJobs \cup WalkJobs)
  BY <1>1, JobClasses
<1>3. form' \in Forms /\ form'.open = form.open /\ form'.ticks = form.ticks
  BY DEF WalkStep
<1>4. FormTypes'
  BY <1>2, <1>3 DEF FInv, FormTypes
<1>5. SeriesOK'
  BY <1>2 DEF SeriesOK, InSeries
<1>6. SubmissionOK'
  BY <1>2, <1>3 DEF FInv, SubmissionOK, SubmittedAsChosen, OwnFormIsAnswered, Typing
<1>7. UntouchedOK'
  BY <1>2, <1>3 DEF FInv, UntouchedOK, PlaceOK, Typing
<1> QED BY <1>4, <1>5, <1>6, <1>7 DEF FInv

LEMMA StartSweepKeeps == FInv /\ StartSweep => FInv'
<1> SUFFICES ASSUME FInv, StartSweep PROVE FInv'
  OBVIOUS
<1>1. /\ submission.of = 0 /\ formJob = NoJob /\ formJob' = [at |-> "sweep", i |-> 1, frames |-> <<>>]
      /\ UNCHANGED <<chosen, form, capture, attempted, submission, meddled, touches>>
  BY DEF StartSweep, NotSubmitted
<1>2. formJob' \in FormJobs /\ formJob'.at = "sweep" /\ formJob'.i = 1 /\ formJob'.frames = <<>>
  BY <1>1, TabsAre DEF FormJobs, WalkJobs
<1>3. ~(formJob' \in TabJobs \cup OptionJobs \cup ToggleJobs)
  BY <1>2, JobClasses
<1>4. FormTypes'
  BY <1>1, <1>2, <1>3 DEF FInv, FormTypes
<1>5. SeriesOK' /\ SubmissionOK'
  BY <1>1, <1>2, <1>3 DEF SeriesOK, InSeries, SubmissionOK, Typing
<1>6. UntouchedOK'
  BY <1>1, <1>2, <1>3 DEF FInv, UntouchedOK, PlaceOK, Typing
<1> QED BY <1>4, <1>5, <1>6 DEF FInv

LEMMA OperatorKeeps == FInv /\ (Navigate \/ AskAnother \/ Dismiss) => FInv'
<1> SUFFICES ASSUME FInv, Navigate \/ AskAnother \/ Dismiss PROVE FInv'
  OBVIOUS
<1>0. FormTypes /\ SeriesOK /\ SubmissionOK
  BY DEF FInv
<1>1. /\ UNCHANGED <<chosen, formJob, capture, attempted, submission, meddled>>
      /\ touches' = touches + 1
  BY DEF Navigate, AskAnother, Dismiss
<1>2. touches' \in Nat /\ touches' # 0
  BY <1>0, <1>1 DEF FormTypes
<1>3. form' \in Forms
  <2>1. CASE Navigate
    BY <1>0, <2>1, MovedToIs DEF Navigate, FormTypes, WalkStep
  <2>2. CASE AskAnother
    <3>1. form.kind \in FormKinds /\ form' = FreshForm(2, form.kind)
      BY <1>0, <2>2 DEF FormTypes, Forms, AskAnother
    <3> QED BY <3>1, TabsAre DEF FreshForm, Forms
  <2>3. CASE Dismiss
    BY <1>0, <2>3 DEF Dismiss, FormTypes, Forms
  <2> QED BY <2>1, <2>2, <2>3
<1>4. FormTypes'
  BY <1>0, <1>1, <1>2, <1>3 DEF FormTypes
<1>5. UntouchedOK'
  BY <1>2 DEF UntouchedOK
<1>6. CASE ~Typing
  <2>1. formJob.at \in {"idle", "decided", "sweep"}
    BY <1>6 DEF Typing
  <2>2. /\ ~(formJob \in TabJobs \cup OptionJobs \cup ToggleJobs)
        /\ formJob.at \notin {"enter", "toggle", "verify", "advance", "done"}
    BY <1>0, <2>1, JobClasses DEF FormTypes
  <2>3. SeriesOK'
    BY <1>1, <2>2 DEF SeriesOK, InSeries
  <2>4. submission.of # 0 => ~form'.open
    <3>1. Navigate => form.open
      BY DEF Navigate
    <3>2. AskAnother => submission.of = 0
      BY DEF AskAnother, NotSubmitted
    <3>3. Dismiss => ~form'.open
      BY <1>0 DEF Dismiss, FormTypes, Forms
    <3> QED BY <1>0, <3>1, <3>2, <3>3 DEF SubmissionOK
  <2>5. SubmissionOK'
    BY <1>0, <1>1, <1>6, <2>2, <2>4 DEF SubmissionOK, SubmittedAsChosen, OwnFormIsAnswered, Typing
  <2> QED BY <1>4, <1>5, <2>3, <2>5 DEF FInv
<1>7. CASE Dismiss
  <2>1. ~form'.open /\ form'.id = form.id
    BY <1>0, <1>7 DEF Dismiss, FormTypes, Forms
  <2>2. SeriesOK'
    BY <2>1 DEF SeriesOK, InSeries
  <2>3. SubmissionOK'
    BY <1>0, <1>1, <2>1 DEF SubmissionOK, SubmittedAsChosen, OwnFormIsAnswered, Typing
  <2> QED BY <1>4, <1>5, <2>2, <2>3 DEF FInv
<1> QED BY <1>6, <1>7 DEF Navigate, AskAnother

\* The operator may touch a tab that hap has not reached; what hap has left is meddled with.
LEMMA TouchKeeps == FInv /\ Touch => FInv'
<1> SUFFICES ASSUME FInv, Touch PROVE FInv'
  OBVIOUS
<1>0. FormTypes /\ SeriesOK /\ SubmissionOK
  BY DEF FInv
<1>1. PICK t \in Questions, d \in Digits :
        /\ Typing => t # form.tab \/ form.kind[t] = "multi"
        /\ OperatorTicks(t, d) \/ OperatorAnswers(t, d)
        /\ meddled' = (meddled \/ Left(t))
  BY DEF Touch
<1>2. /\ UNCHANGED <<chosen, formJob, capture, attempted, submission>>
      /\ touches' = touches + 1
  BY DEF Touch
<1>3. touches' \in Nat /\ touches' # 0
  BY <1>0, <1>2 DEF FormTypes
<1>4. /\ form' \in Forms /\ form.open /\ form'.open /\ form'.id = form.id /\ form'.tab = form.tab /\ form'.caret = form.caret
      /\ form'.kind = form.kind
      /\ \A q \in Questions : q # t => form'.ticks[q] = form.ticks[q] /\ form'.answer[q] = form.answer[q]
  <2>0. form \in Forms
    BY <1>0 DEF FormTypes
  <2>1. CASE OperatorTicks(t, d)
    <3> DEFINE s == Flip(form.ticks[t], d)
               a == [form.ticks EXCEPT ![t] = s]
    <3>1. form' = [form EXCEPT !.ticks = a] /\ form.open
      BY <2>0, <2>1 DEF OperatorTicks, Forms
    <3>2. s \in SUBSET Digits
      BY <2>0 DEF Forms, Flip
    <3> HIDE DEF s
    <3>3. a \in [Questions -> SUBSET Digits] /\ \A q \in Questions : q # t => a[q] = form.ticks[q]
      BY <2>0, <3>2 DEF Forms
    <3> HIDE DEF a
    <3> QED BY <2>0, <3>1, <3>3 DEF Forms
  <2>2. CASE OperatorAnswers(t, d)
    <3> DEFINE a == [form.answer EXCEPT ![t] = d]
    <3>1. form' = [form EXCEPT !.answer = a] /\ form.open
      BY <2>0, <2>2 DEF OperatorAnswers, Forms
    <3>2. a \in [Questions -> 0..2] /\ \A q \in Questions : q # t => a[q] = form.answer[q]
      BY <2>0, TabsAre DEF Forms
    <3> HIDE DEF a
    <3> QED BY <2>0, <3>1, <3>2 DEF Forms
  <2> QED BY <1>1, <2>1, <2>2
<1>5. meddled' \in BOOLEAN
  <2>1. Left(t) \in BOOLEAN
    BY DEF Left
  <2> QED BY <1>0, <1>1, <2>1 DEF FormTypes
<1>6. FormTypes'
  BY <1>0, <1>2, <1>3, <1>4, <1>5 DEF FormTypes
<1>7. UntouchedOK'
  BY <1>3 DEF UntouchedOK
<1>8. SubmissionOK'
  BY <1>0, <1>2, <1>4 DEF SubmissionOK, Typing
<1>9. \A n : ~meddled' /\ ~(t < n) /\ DoneBefore(n) => DoneBefore(n)'
  BY <1>2, <1>4 DEF DoneBefore, Done
<1>10. ~meddled' => ~meddled /\ ~Left(t)
  BY <1>1
<1>11. t \in Nat /\ form.tab \in Nat
  BY <1>0, TabsAre DEF FormTypes, Forms
<1>12. ASSUME formJob \in TabJobs, form.tab = formJob.i, ~meddled' PROVE DoneBefore(form.tab)'
  <2>1. formJob.at \in {"before", "toggleread"}
    BY <1>0, <1>12, JobClasses DEF FormTypes
  <2>2. ~(t < form.tab)
    BY <1>10, <1>11, <1>12, <2>1 DEF Left
  <2> QED BY <1>0, <1>4, <1>9, <1>10, <1>12, <2>2 DEF SeriesOK, InSeries
<1>13. ASSUME formJob \in OptionJobs \cup ToggleJobs, formJob.was.tab = formJob.i, ~meddled'
       PROVE  DoneBefore(form.tab)' /\ (formJob.at = "advance" => t # form.tab)
  <2>1. /\ formJob.at \in {"press", "after", "enter", "final", "toggle", "verify", "advance", "moved"}
        /\ formJob.i \in Nat
    BY <1>0, <1>13, JobClasses DEF FormTypes, OptionJobs, ToggleJobs
  <2>2. form.tab = formJob.i \/ (form.tab = formJob.i + 1 /\ formJob.at \in {"after", "final", "moved"})
    BY <1>0, <1>4, <1>13 DEF SeriesOK, InSeries
  <2>3. ~(formJob.i > t) /\ ~(formJob.i = t /\ formJob.at \in {"after", "enter", "final", "advance", "moved"})
    BY <1>10, <1>13, <2>1 DEF Left
  <2>4. ~(t < form.tab) /\ (formJob.at = "advance" => t # form.tab)
    BY <1>11, <2>1, <2>2, <2>3
  <2> QED BY <1>0, <1>4, <1>9, <1>10, <1>13, <2>4 DEF SeriesOK, InSeries
<1>14. SeriesOK'
  <2>1. /\ formJob \in TabJobs => form.tab <= formJob.i
        /\ formJob \in OptionJobs \cup ToggleJobs =>
             /\ formJob.was.tab <= formJob.i
             /\ form.tab = formJob.was.tab \/ (form.tab = formJob.was.tab + 1 /\ formJob.at \in {"after", "final", "moved"})
        /\ formJob \in OptionJobs => Cardinality(chosen[formJob.i]) = 1
        /\ formJob.at = "enter" => form.caret = TheDigit(formJob.i)
        /\ formJob.at \in {"toggle", "verify", "advance"} => form.kind[form.tab] = "multi"
        /\ formJob.at = "advance" /\ formJob.was.tab = formJob.i /\ ~meddled => form.ticks[form.tab] = chosen[form.tab]
    BY <1>0, <1>4 DEF SeriesOK, InSeries
  <2>2. formJob.at = "advance" /\ formJob.was.tab = formJob.i /\ ~meddled' => form'.ticks[form.tab] = chosen[form.tab]
    <3> SUFFICES ASSUME formJob.at = "advance", formJob.was.tab = formJob.i, ~meddled'
                 PROVE  form'.ticks[form.tab] = chosen[form.tab]
      OBVIOUS
    <3>1. formJob \in ToggleJobs /\ form.tab \in Questions
      BY <1>0, <2>1, JobClasses, FrameIs, <1>4 DEF FormTypes, Multi
    <3>2. t # form.tab
      BY <1>13, <3>1
    <3> QED BY <1>4, <1>10, <2>1, <3>1, <3>2
  <2> QED BY <1>2, <1>4, <1>12, <1>13, <2>1, <2>2 DEF SeriesOK, InSeries, TheDigit
<1> QED BY <1>6, <1>7, <1>8, <1>14 DEF FInv

\* One tab of a walk: it goes on, it is through, or it ends.
LEMMA WalkJob ==
  ASSUME NEW a \in {"sweep", "reverify"}, NEW i \in 1..Tabs, NEW fs \in Seq(Frames)
  PROVE  LET k == [at |-> a, i |-> i, frames |-> fs] IN k \in WalkJobs /\ k \in FormJobs
BY DEF WalkJobs, FormJobs

LEMMA Appended ==
  ASSUME NEW fs \in Seq(Frames), NEW f \in Frames
  PROVE  /\ Append(fs, f) \in Seq(Frames) /\ Append(fs, f) # <<>> /\ Len(Append(fs, f)) = Len(fs) + 1
         /\ \A k \in 1..Len(fs) : Append(fs, f)[k] = fs[k]
         /\ Append(fs, f)[Len(fs) + 1] = f /\ Len(fs) \in Nat
BY AppendProperties, LenProperties

\* A walk that is where it should be stays so.
LEMMA TabByTabGoesOn ==
  ASSUME form \in Forms, form.open, NEW fs, NEW i \in 1..Tabs, TabByTab(form, fs, i - 1), form.tab = i,
         i > 1 => form.caret = 1
  PROVE  TabByTab(form, Append(fs, Frame(form)), i)
<1> DEFINE f == Frame(form)
           gs == Append(fs, f)
<1>1. f \in Frames /\ f.of = form.id /\ f.tab = form.tab /\ f.caret = form.caret /\ f.multi = (form.kind[form.tab] = "multi")
  <2>1. f \in Frames /\ f.of = form.id /\ f.tab = form.tab /\ f.caret = form.caret /\ f.multi = Multi(form)
    BY FrameIs
  <2>2. Multi(form) = (form.kind[form.tab] = "multi")
    BY DEF Multi
  <2> QED BY <2>1, <2>2
<1>2. /\ fs \in Seq(Frames) /\ Len(fs) = i - 1
      /\ \A k \in 1..(i - 1) : fs[k].of = form.id /\ fs[k].tab = k /\ fs[k].multi = (form.kind[k] = "multi") /\ (k > 1 => fs[k].caret = 1)
  BY DEF TabByTab
<1> HIDE DEF f
<1>3. /\ gs \in Seq(Frames) /\ Len(gs) = i /\ gs[i] = f /\ \A k \in 1..(i - 1) : gs[k] = fs[k]
  <2>1. i - 1 + 1 = i
    BY TabsAre
  <2> QED BY <1>1, <1>2, <2>1, Appended
<1> HIDE DEF gs
<1>4. ASSUME NEW k \in 1..i
      PROVE gs[k].of = form.id /\ gs[k].tab = k /\ gs[k].multi = (form.kind[k] = "multi") /\ (k > 1 => gs[k].caret = 1)
  <2>1. CASE k = i
    BY <1>1, <1>3, <2>1
  <2>2. CASE k # i
    <3>1. k \in 1..(i - 1)
      BY <2>2, TabsAre
    <3> QED BY <1>2, <1>3, <3>1
  <2> QED BY <2>1, <2>2
<1>5. TabByTab(form, gs, i)
  BY <1>3, <1>4 DEF TabByTab
<1> QED BY <1>5 DEF gs, f

LEMMA TabByTabStays ==
  ASSUME NEW f, NEW g, NEW fs, NEW n, TabByTab(f, fs, n), g.id = f.id, g.kind = f.kind
  PROVE  TabByTab(g, fs, n)
BY DEF TabByTab

LEMMA SweepTabKeeps == FInv /\ SweepTab => FInv'
<1> SUFFICES ASSUME FInv, SweepTab PROVE FInv'
  OBVIOUS
<1> DEFINE fs == formJob.frames
           i == formJob.i
           gs == Append(fs, Frame(form))
<1>0. FormTypes /\ SeriesOK /\ SubmissionOK /\ UntouchedOK
  BY DEF FInv
<1>1. /\ formJob.at = "sweep" /\ UNCHANGED <<chosen, attempted, submission, meddled, touches>>
      /\ \/ form' = Reset(form) /\ formJob' = NoJob /\ UNCHANGED capture
         \/ /\ form.open /\ i < Tabs /\ form' = Right(form) /\ formJob' = [formJob EXCEPT !.i = @ + 1, !.frames = gs] /\ UNCHANGED capture
         \/ form.open /\ ~(i < Tabs) /\ form' = Reset(form) /\ formJob' = [at |-> "decided"] /\ capture' = gs
  BY DEF SweepTab, Walk, Breaks, SweepDone
<1>2. form \in Forms /\ formJob \in WalkJobs /\ i \in 1..Tabs /\ fs \in Seq(Frames) /\ submission.of = 0
  BY <1>0, <1>1, JobClasses DEF FormTypes, WalkJobs, SubmissionOK
<1>3. gs \in Seq(Frames) /\ gs # <<>>
  BY <1>2, FrameIs, Appended
<1>4. ResetStep(form, Reset(form)) /\ RightStep(form, Right(form))
  BY <1>2, WalksAre
<1>5. touches = 0 /\ form.open /\ gs[1].tab = 1 => TabByTab(form, gs, i) /\ form.tab = i
  <2> SUFFICES ASSUME touches = 0, form.open, gs[1].tab = 1 PROVE TabByTab(form, gs, i) /\ form.tab = i
    OBVIOUS
  <2>1. CASE i = 1
    <3>1. fs = <<>>
      BY <1>0, <1>1, <2>1 DEF UntouchedOK
    <3>2. gs[1] = Frame(form) /\ TabByTab(form, <<>>, 0)
      <4>1. gs = <<Frame(form)>>
        BY <3>1
      <4> QED BY <4>1 DEF TabByTab
    <3>3. form.tab = 1
      BY <1>2, <3>2, FrameIs
    <3>4. TabByTab(form, fs, i - 1)
      BY <2>1, <3>1, <3>2
    <3> QED BY <1>2, <2>1, <3>3, <3>4, TabByTabGoesOn
  <2>2. CASE i # 1
    <3>1. fs # <<>> /\ (fs[1].tab = 1 => TabByTab(form, fs, i - 1) /\ form.tab = i /\ form.caret = 1)
      BY <1>0, <1>1, <2>2 DEF UntouchedOK
    <3>2. gs[1] = fs[1]
      <4>1. 1 \in 1..Len(fs)
        BY <1>2, <3>1, LenProperties, EmptySeq
      <4> QED BY <1>2, <4>1, FrameIs, Appended
    <3> QED BY <1>2, <3>1, <3>2, TabByTabGoesOn
  <2> QED BY <2>1, <2>2
<1> HIDE DEF gs
<1>6. CASE form' = Reset(form) /\ formJob' = NoJob /\ UNCHANGED capture
  BY <1>1, <1>4, <1>6, BreaksKeeps DEF ResetStep
<1>7. CASE form.open /\ i < Tabs /\ form' = Right(form) /\ formJob' = [formJob EXCEPT !.i = @ + 1, !.frames = gs] /\ UNCHANGED capture
  <2>1. /\ formJob' \in WalkJobs /\ formJob'.at = "sweep" /\ formJob'.i = i + 1 /\ formJob'.frames = gs
        /\ i + 1 \in 2..Tabs
    <3>1. i + 1 \in 1..Tabs /\ i + 1 \in 2..Tabs
      BY <1>2, <1>7, TabsAre
    <3> QED BY <1>1, <1>2, <1>3, <1>7, <3>1 DEF WalkJobs
  <2>2. formJob' \in FormJobs /\ ~(formJob' \in TabJobs \cup OptionJobs \cup ToggleJobs)
    BY <2>1, JobClasses DEF FormJobs
  <2>3. form' \in Forms /\ form'.open /\ form'.ticks = form.ticks /\ form'.id = form.id /\ form'.kind = form.kind
    BY <1>4, <1>7 DEF RightStep, WalkStep
  <2>4. FormTypes'
    BY <1>0, <1>1, <2>1, <2>2, <2>3 DEF FormTypes
  <2>5. SeriesOK' /\ SubmissionOK'
    BY <1>1, <1>2, <2>1, <2>2 DEF SeriesOK, InSeries, SubmissionOK, Typing
  <2>6. ASSUME touches = 0, gs[1].tab = 1 PROVE TabByTab(form', gs, i) /\ form'.tab = i + 1 /\ form'.caret = 1
    <3>1. TabByTab(form, gs, i) /\ form.tab = i
      BY <1>5, <1>7, <2>6
    <3>2. form'.tab = i + 1 /\ form'.caret = 1
      BY <1>2, <1>4, <1>7, <3>1 DEF RightStep
    <3>3. TabByTab(form', gs, i)
      BY <2>3, <3>1, TabByTabStays
    <3> QED BY <3>2, <3>3
  <2>7. UntouchedOK'
    <3> SUFFICES ASSUME touches' = 0 PROVE UntouchedOK'
      BY DEF UntouchedOK
    <3>1. touches = 0
      BY <1>1
    <3>2. \A t \in Questions : form'.ticks[t] \subseteq chosen'[t] /\ (form'.open => attempted' \/ form'.ticks[t] = {})
      BY <1>0, <1>1, <1>7, <2>3, <3>1 DEF UntouchedOK
    <3>3. formJob'.i # 1 /\ formJob'.i - 1 = i
      BY <1>2, <2>1
    <3>4. gs # <<>> /\ (gs[1].tab = 1 => TabByTab(form', gs, i) /\ form'.tab = i + 1 /\ form'.caret = 1)
      BY <1>3, <2>6, <3>1
    <3> QED BY <1>1, <2>1, <2>2, <2>3, <3>2, <3>3, <3>4 DEF UntouchedOK, PlaceOK, Typing
  <2> QED BY <2>4, <2>5, <2>7 DEF FInv
<1>8. CASE form.open /\ ~(i < Tabs) /\ form' = Reset(form) /\ formJob' = [at |-> "decided"] /\ capture' = gs
  <2>1. formJob' \in FormJobs /\ formJob'.at = "decided"
    BY <1>8 DEF FormJobs
  <2>2. ~(formJob' \in TabJobs \cup OptionJobs \cup ToggleJobs)
    BY <2>1, JobClasses
  <2>3. form' \in Forms /\ form'.open /\ form'.ticks = form.ticks /\ form'.id = form.id /\ form'.kind = form.kind /\ form'.tab = 1
    BY <1>4, <1>8 DEF ResetStep, WalkStep
  <2>4. FormTypes'
    BY <1>0, <1>1, <2>1, <2>2, <2>3 DEF FormTypes
  <2>5. SeriesOK' /\ SubmissionOK'
    BY <1>1, <1>2, <2>1, <2>2 DEF SeriesOK, InSeries, SubmissionOK, Typing
  <2>6. ASSUME touches = 0, gs[1].tab = 1 PROVE TabByTab(form', gs, Tabs)
    <3>1. TabByTab(form, gs, Tabs)
      <4>1. i = Tabs
        BY <1>2, <1>8, TabsAre
      <4> QED BY <1>5, <1>8, <2>6, <4>1
    <3> QED BY <2>3, <3>1, TabByTabStays
  <2>7. UntouchedOK'
    <3> SUFFICES ASSUME touches' = 0 PROVE UntouchedOK'
      BY DEF UntouchedOK
    <3>1. touches = 0
      BY <1>1
    <3>2. \A t \in Questions : form'.ticks[t] \subseteq chosen'[t] /\ (form'.open => attempted' \/ form'.ticks[t] = {})
      BY <1>0, <1>1, <1>8, <2>3, <3>1 DEF UntouchedOK
    <3>3. capture'[1].tab = 1 => TabByTab(form', capture', Tabs)
      BY <1>8, <2>6, <3>1
    <3> QED BY <1>1, <2>1, <2>2, <2>3, <3>2, <3>3 DEF UntouchedOK, PlaceOK, Typing
  <2> QED BY <2>4, <2>5, <2>7 DEF FInv
<1> QED BY <1>1, <1>6, <1>7, <1>8

LEMMA SubmissionKeeps ==
  ASSUME FInv, Typing, form' \in Forms, form'.id = form.id, UNCHANGED <<chosen, capture, meddled>>,
         formJob'.at \notin {"sweep", "decided", "reverify", "start"}, formJob'.at = "done" => ~form'.open,
         ~form.open => ~form'.open, submission' = Submits(form'), form.open /\ ~form'.open /\ ~meddled => DoneBefore(Tabs)
  PROVE  SubmissionOK' /\ (submission'.of = 0 => form'.open \/ (submission.of = 0 /\ ~form.open))
<1>0. form \in Forms /\ SubmissionOK
  BY DEF FInv, FormTypes
<1>1. form.id = capture[1].of /\ form.id # 0
  BY <1>0 DEF SubmissionOK, Forms
<1>2. CASE form.open /\ ~form'.open
  <2>1. submission' = [of |-> form.id, confirmed |-> form'.caret, answer |-> form.answer, ticks |-> form.ticks, kind |-> form.kind]
    BY <1>2 DEF Submits
  <2>2. submission'.of = form.id /\ submission'.answer = form.answer /\ submission'.ticks = form.ticks /\ submission'.kind = form.kind
    BY <2>1
  <2>3. SubmittedAsChosen'
    <3> SUFFICES ASSUME ~meddled, NEW t \in Questions
                 PROVE  IF form.kind[t] = "multi" THEN form.ticks[t] = chosen[t] ELSE {form.answer[t]} = chosen[t]
      BY <2>2 DEF SubmittedAsChosen
    <3>1. t < Tabs
      BY TabsAre
    <3> QED BY <1>2, <3>1 DEF DoneBefore, Done
  <2> QED BY <1>1, <1>2, <2>2, <2>3 DEF SubmissionOK, OwnFormIsAnswered
<1>3. CASE ~(form.open /\ ~form'.open)
  <2>1. submission' = submission
    BY <1>3 DEF Submits
  <2> QED BY <1>0, <1>1, <1>3, <2>1 DEF SubmissionOK, SubmittedAsChosen, OwnFormIsAnswered
<1> QED BY <1>2, <1>3

\* What a step of the delivery has to show.
LEMMA StepKeeps ==
  ASSUME FInv, Typing, form' \in Forms, form'.id = form.id, form'.kind = form.kind, attempted' \in BOOLEAN,
         UNCHANGED <<chosen, capture, meddled, touches>>,
         formJob' \in TabJobs \cup OptionJobs \cup ToggleJobs,
         formJob'.at = "toggleread" \/ formJob' \in ToggleJobs => formJob'.i < Tabs,
         formJob'.at = "toggle" => formJob'.missing # {},
         ~form.open => ~form'.open, submission' = Submits(form'), form.open /\ ~form'.open /\ ~meddled => DoneBefore(Tabs),
         form'.open => InSeries',
         touches = 0 => attempted' /\ (form'.open => PlaceOK') /\ \A t \in Questions : form'.ticks[t] \subseteq chosen[t]
  PROVE  FInv'
<1>0. FormTypes /\ SubmissionOK /\ UntouchedOK
  BY DEF FInv
<1>1. formJob' \in FormJobs
  BY DEF FormJobs
<1>2. /\ formJob'.at \notin {"idle", "decided", "start", "done", "sweep", "reverify"}
      /\ formJob' \notin WalkJobs
  BY <1>1, JobClasses
<1>3. FormTypes'
  BY <1>0, <1>1 DEF FormTypes
<1>4. SeriesOK'
  BY DEF SeriesOK
<1>5. SubmissionOK' /\ (submission'.of = 0 => form'.open \/ (submission.of = 0 /\ ~form.open))
  BY <1>2, SubmissionKeeps
<1>6. UntouchedOK'
  <2> SUFFICES ASSUME touches' = 0 PROVE UntouchedOK'
    BY DEF UntouchedOK
  <2>1. touches = 0 /\ (submission.of = 0 => form.open) /\ TabByTab(form, capture, Tabs)
    BY <1>0 DEF UntouchedOK
  <2>2. TabByTab(form', capture, Tabs)
    BY <2>1, TabByTabStays
  <2> QED BY <1>2, <1>5, <2>1, <2>2 DEF UntouchedOK
<1> QED BY <1>3, <1>4, <1>5, <1>6 DEF FInv

\* The form is closed, by whomever: the delivery is over.
LEMMA DoneKeeps ==
  ASSUME FInv, Typing, ~form.open, formJob' \in {[at |-> "done"], NoJob}, attempted' \in BOOLEAN,
         UNCHANGED <<chosen, form, capture, submission, meddled, touches>>
  PROVE  FInv'
<1>0. FormTypes /\ SubmissionOK /\ UntouchedOK
  BY DEF FInv
<1>1. formJob' \in FormJobs /\ formJob'.at \in {"idle", "done"}
  BY IdleIs DEF FormJobs
<1>2. ~(formJob' \in TabJobs \cup OptionJobs \cup ToggleJobs \cup WalkJobs)
  BY <1>1, JobClasses
<1>3. FormTypes'
  BY <1>0, <1>1, <1>2 DEF FormTypes
<1>4. SeriesOK' /\ SubmissionOK'
  BY <1>0, <1>1 DEF SeriesOK, SubmissionOK, SubmittedAsChosen, OwnFormIsAnswered
<1>5. UntouchedOK'
  BY <1>0, <1>1, <1>2 DEF UntouchedOK
<1> QED BY <1>3, <1>4, <1>5 DEF FInv

LEMMA WalkStepOf == ASSUME NEW f \in Forms PROVE WalkStep(f, f)
BY DEF WalkStep

LEMMA DeliverSeriesKeeps == FInv /\ DeliverSeries => FInv'
<1> SUFFICES ASSUME FInv, DeliverSeries PROVE FInv'
  OBVIOUS
<1>0. FormTypes /\ SubmissionOK /\ UntouchedOK /\ form \in Forms
  BY DEF FInv, FormTypes
<1>1. /\ formJob.at = "decided" /\ UNCHANGED <<chosen, form, capture, attempted, submission, meddled, touches>>
      /\ \/ formJob' = NoJob
         \/ /\ form.open /\ Frame(form) = capture[1]
            /\ formJob' = [at |-> "reverify", i |-> 1, frames |-> <<>>] \/ formJob' = [at |-> "start"]
  BY DEF DeliverSeries, Breaks, SeriesStale
<1>2. CASE formJob' = NoJob
  BY <1>0, <1>1, <1>2, WalkStepOf, BreaksKeeps
<1>3. CASE /\ form.open /\ Frame(form) = capture[1]
           /\ formJob' = [at |-> "reverify", i |-> 1, frames |-> <<>>] \/ formJob' = [at |-> "start"]
  <2>1. /\ formJob' \in FormJobs /\ formJob'.at \in {"reverify", "start"}
        /\ formJob'.at = "reverify" => formJob'.i = 1 /\ formJob'.frames = <<>>
    <3>1. [at |-> "reverify", i |-> 1, frames |-> <<>>] \in WalkJobs /\ [at |-> "start"] \in FormJobs
      BY TabsAre DEF WalkJobs, FormJobs
    <3> QED BY <1>3, <3>1 DEF FormJobs
  <2>2. ~(formJob' \in TabJobs \cup OptionJobs \cup ToggleJobs)
    BY <2>1, JobClasses
  <2>3. capture[1].of = form.id /\ capture[1].tab = form.tab /\ capture[1].caret = form.caret
    BY <1>0, <1>3, FrameIs
  <2>4. FormTypes'
    BY <1>0, <1>1, <2>1, <2>2 DEF FormTypes
  <2>5. SeriesOK'
    BY <2>1, <2>2 DEF SeriesOK, InSeries
  <2>6. SubmissionOK'
    BY <1>0, <1>1, <1>3, <2>1, <2>3 DEF SubmissionOK
  <2>7. UntouchedOK'
    <3> SUFFICES ASSUME touches' = 0 PROVE UntouchedOK'
      BY DEF UntouchedOK
    <3>1. touches = 0 /\ form.tab = 1 /\ TabByTab(form, capture, Tabs)
      BY <1>0, <1>1, <2>3 DEF UntouchedOK
    <3>2. TabByTab(form, <<>>, 0)
      BY DEF TabByTab
    <3>3. formJob'.at = "reverify" => TabByTab(form', formJob'.frames, formJob'.i - 1) /\ form'.tab = formJob'.i
                                      /\ formJob'.i = 1 /\ form'.caret = capture'[1].caret
      BY <1>1, <2>1, <2>3, <3>1, <3>2
    <3>4. \A t \in Questions : form'.ticks[t] \subseteq chosen'[t] /\ (form'.open => attempted' \/ form'.ticks[t] = {})
      BY <1>0, <1>1, <3>1 DEF UntouchedOK
    <3> QED BY <1>1, <1>3, <2>1, <2>2, <3>1, <3>3, <3>4 DEF UntouchedOK, PlaceOK
  <2> QED BY <2>4, <2>5, <2>6, <2>7 DEF FInv
<1> QED BY <1>1, <1>2, <1>3

\* The second walk, as long as nobody else touched the form.
LEMMA UntouchedWalk ==
  ASSUME FInv, formJob.at = "reverify", touches = 0
  PROVE  LET gs == Append(formJob.frames, Frame(form)) IN
         /\ form.open /\ form.tab = formJob.i /\ TabByTab(form, gs, formJob.i) /\ gs[1].caret = capture[1].caret
         /\ TabByTab(form, capture, Tabs)
         /\ CheckedOutside(Frame(form), Baseline(formJob.i)) = {}
<1> DEFINE i == formJob.i
           fs == formJob.frames
           gs == Append(fs, Frame(form))
<1>0. FormTypes /\ SubmissionOK /\ UntouchedOK
  BY DEF FInv
<1>1. form \in Forms /\ i \in 1..Tabs /\ fs \in Seq(Frames)
  BY <1>0, JobClasses DEF FormTypes, WalkJobs
<1>2. submission.of = 0
  BY <1>0 DEF SubmissionOK
<1>3. /\ form.open /\ form.tab = i /\ TabByTab(form, fs, i - 1) /\ TabByTab(form, capture, Tabs)
      /\ IF i = 1 THEN form.caret = capture[1].caret ELSE form.caret = 1 /\ fs[1].caret = capture[1].caret
      /\ \A t \in Questions : form.ticks[t] \subseteq chosen[t] /\ (attempted \/ form.ticks[t] = {})
  BY <1>0, <1>2 DEF UntouchedOK, Typing
<1>4. TabByTab(form, gs, i)
  <2>1. i > 1 => form.caret = 1
    BY <1>1, <1>3
  <2> HIDE DEF i, fs
  <2> QED BY <1>1, <1>3, <2>1, TabByTabGoesOn
<1>5. gs[1].caret = capture[1].caret
  <2> HIDE DEF i, fs
  <2>0. Len(fs) = i - 1 /\ Frame(form) \in Frames /\ Frame(form).caret = form.caret
    BY <1>1, <1>3, FrameIs DEF TabByTab
  <2>1. CASE i = 1
    <3>1. gs[1] = Frame(form)
      BY <1>1, <2>0, <2>1, Appended
    <3> QED BY <1>3, <2>0, <2>1, <3>1
  <2>2. CASE i # 1
    <3>1. 1 \in 1..Len(fs)
      BY <1>1, <2>0, <2>2, TabsAre
    <3>2. gs[1] = fs[1]
      BY <1>1, <2>0, <3>1, Appended
    <3> QED BY <1>3, <2>2, <3>2
  <2> QED BY <2>1, <2>2
<1>6. CheckedOutside(Frame(form), Baseline(i)) = {}
  <2>1. CASE Multi(form)
    <3>1. form.tab \in Questions /\ Frame(form).ticks = form.ticks[form.tab]
      BY <1>1, <2>1, FrameIs
    <3>2. form.ticks[i] \subseteq chosen[i] /\ (attempted \/ form.ticks[i] = {})
      BY <1>3, <3>1
    <3> QED BY <1>3, <3>1, <3>2 DEF CheckedOutside, Baseline
  <2>2. CASE ~Multi(form)
    <3>1. Frame(form).ticks = {}
      BY <1>1, <2>2, FrameIs
    <3> QED BY <3>1 DEF CheckedOutside
  <2> QED BY <2>1, <2>2
<1> QED BY <1>3, <1>4, <1>5, <1>6

\* ... and it finds what the first one found.
LEMMA UntouchedAgrees ==
  ASSUME NEW f, NEW gs, NEW cs, TabByTab(f, gs, Tabs), TabByTab(f, cs, Tabs), gs[1].caret = cs[1].caret
  PROVE  \A k \in 1..Tabs : Unmarked(gs[k]) = Unmarked(cs[k])
<1> SUFFICES ASSUME NEW k \in 1..Tabs PROVE Unmarked(gs[k]) = Unmarked(cs[k])
  OBVIOUS
<1>1. gs \in Seq(Frames) /\ Len(gs) = Tabs /\ cs \in Seq(Frames) /\ Len(cs) = Tabs
  BY DEF TabByTab
<1>2. gs[k] \in Frames /\ cs[k] \in Frames
  BY <1>1, ElementOfSeq
<1>3. gs[k].of = cs[k].of /\ gs[k].tab = cs[k].tab /\ gs[k].multi = cs[k].multi /\ (k > 1 => gs[k].caret = cs[k].caret)
  BY DEF TabByTab
<1>4. gs[k].caret = cs[k].caret
  <2>1. k > 1 \/ k = 1
    BY TabsAre
  <2> QED BY <1>3, <2>1
<1> QED BY <1>2, <1>3, <1>4, SameUnmarked

LEMMA ReverifyIs ==
  ASSUME FInv, ReverifyTab
  PROVE  LET i == formJob.i
             gs == Append(formJob.frames, Frame(form))
         IN
         /\ formJob.at = "reverify" /\ UNCHANGED <<chosen, capture, attempted, submission, meddled, touches>>
         /\ \/ form' = Reset(form) /\ formJob' = NoJob /\ touches # 0
            \/ form.open /\ i < Tabs /\ form' = Right(form) /\ formJob' = [formJob EXCEPT !.i = @ + 1, !.frames = gs]
            \/ form.open /\ form' = Reset(form) /\ formJob' = [at |-> "start"]
<1> DEFINE i == formJob.i
           gs == Append(formJob.frames, Frame(form))
           same == \A k \in 1..Tabs : Unmarked(gs[k]) = Unmarked(capture[k])
           outside == CheckedOutside(Frame(form), Baseline(i))
<1>1. /\ formJob.at = "reverify" /\ UNCHANGED <<chosen, capture, attempted, submission, meddled, touches>>
      /\ \/ (~form.open \/ outside # {}) /\ form' = Reset(form) /\ formJob' = NoJob
         \/ form.open /\ i < Tabs /\ form' = Right(form) /\ formJob' = [formJob EXCEPT !.i = @ + 1, !.frames = gs]
         \/ form.open /\ ~(i < Tabs) /\ form' = Reset(form) /\ ((same /\ formJob' = [at |-> "start"]) \/ (~same /\ formJob' = NoJob))
  BY DEF ReverifyTab, Walk, Breaks
<1>2. formJob.at = "reverify" /\ touches = 0 => form.open /\ outside = {} /\ (~(i < Tabs) => same)
  <2> SUFFICES ASSUME formJob.at = "reverify", touches = 0 PROVE form.open /\ outside = {} /\ (~(i < Tabs) => same)
    OBVIOUS
  <2>1. /\ form.open /\ TabByTab(form, gs, i) /\ gs[1].caret = capture[1].caret
        /\ TabByTab(form, capture, Tabs) /\ outside = {}
    BY UntouchedWalk
  <2>2. i \in 1..Tabs
    BY JobClasses DEF FInv, FormTypes, WalkJobs
  <2> HIDE DEF gs, outside, i
  <2>3. ASSUME ~(i < Tabs) PROVE same
    <3>1. i = Tabs
      BY <2>2, <2>3, TabsAre
    <3> QED BY <2>1, <3>1, UntouchedAgrees
  <2> QED BY <2>1, <2>3
<1> HIDE DEF gs, same, outside, i
<1>3. \/ form' = Reset(form) /\ formJob' = NoJob /\ touches # 0
      \/ form.open /\ i < Tabs /\ form' = Right(form) /\ formJob' = [formJob EXCEPT !.i = @ + 1, !.frames = gs]
      \/ form.open /\ form' = Reset(form) /\ formJob' = [at |-> "start"]
  BY <1>1, <1>2
<1> QED BY <1>1, <1>3 DEF gs, i

LEMMA ReverifyTabKeeps == FInv /\ ReverifyTab => FInv'
<1> SUFFICES ASSUME FInv, ReverifyTab PROVE FInv'
  OBVIOUS
<1> DEFINE i == formJob.i
           gs == Append(formJob.frames, Frame(form))
<1>0. FormTypes /\ SubmissionOK /\ UntouchedOK
  BY DEF FInv
<1>1. /\ formJob.at = "reverify" /\ UNCHANGED <<chosen, capture, attempted, submission, meddled, touches>>
      /\ \/ form' = Reset(form) /\ formJob' = NoJob
         \/ form.open /\ i < Tabs /\ form' = Right(form) /\ formJob' = [formJob EXCEPT !.i = @ + 1, !.frames = gs]
         \/ form.open /\ form' = Reset(form) /\ formJob' = [at |-> "start"]
  BY ReverifyIs
<1>2. form \in Forms /\ formJob \in WalkJobs /\ i \in 1..Tabs /\ formJob.frames \in Seq(Frames) /\ submission.of = 0
      /\ form.id = capture[1].of
  BY <1>0, <1>1, JobClasses DEF FormTypes, WalkJobs, SubmissionOK, Typing
<1>3. gs \in Seq(Frames)
  BY <1>2, FrameIs, Appended
<1>4. ResetStep(form, Reset(form)) /\ RightStep(form, Right(form))
  BY <1>2, WalksAre
<1>5. touches = 0 => TabByTab(form, gs, i) /\ form.tab = i /\ gs[1].caret = capture[1].caret /\ TabByTab(form, capture, Tabs)
  BY <1>1, UntouchedWalk
<1> HIDE DEF gs
<1>6. CASE form' = Reset(form) /\ formJob' = NoJob
  BY <1>1, <1>4, <1>6, BreaksKeeps DEF ResetStep
<1>7. ASSUME form.open, form' = Right(form) \/ form' = Reset(form), formJob' \in FormJobs,
             \/ formJob'.at = "start"
             \/ /\ formJob'.at = "reverify" /\ formJob'.i = i + 1 /\ formJob'.frames = gs /\ i < Tabs /\ form' = Right(form)
      PROVE  FInv'
  <2>1. /\ ~(formJob' \in TabJobs \cup OptionJobs \cup ToggleJobs)
        /\ formJob'.at \notin {"idle", "decided", "sweep", "done", "toggleread", "toggle", "enter", "verify", "advance", "final"}
    BY <1>7, JobClasses
  <2>2. form' \in Forms /\ form'.open /\ form'.ticks = form.ticks /\ form'.id = form.id /\ form'.kind = form.kind
    BY <1>4, <1>7 DEF RightStep, ResetStep, WalkStep
  <2>3. FormTypes'
    BY <1>0, <1>1, <1>7, <2>1, <2>2 DEF FormTypes
  <2>4. SeriesOK'
    BY <2>1 DEF SeriesOK, InSeries
  <2>5. SubmissionOK'
    BY <1>1, <1>2, <2>1, <2>2 DEF SubmissionOK
  <2>6. UntouchedOK'
    <3> SUFFICES ASSUME touches' = 0 PROVE UntouchedOK'
      BY DEF UntouchedOK
    <3>1. /\ touches = 0 /\ TabByTab(form, gs, i) /\ form.tab = i /\ gs[1].caret = capture[1].caret
          /\ TabByTab(form', capture, Tabs)
      BY <1>1, <1>5, <2>2, TabByTabStays
    <3>2. \A t \in Questions : form'.ticks[t] \subseteq chosen'[t] /\ (form'.open => attempted' \/ form'.ticks[t] = {})
      BY <1>0, <1>1, <1>7, <2>2, <3>1 DEF UntouchedOK
    <3>3. formJob'.at = "reverify" => /\ TabByTab(form', gs, formJob'.i - 1) /\ form'.tab = formJob'.i /\ formJob'.frames = gs
                                      /\ formJob'.i # 1 /\ form'.caret = 1 /\ gs[1].caret = capture'[1].caret
      <4> SUFFICES ASSUME formJob'.at = "reverify"
                   PROVE  /\ TabByTab(form', gs, formJob'.i - 1) /\ form'.tab = formJob'.i /\ formJob'.frames = gs
                          /\ formJob'.i # 1 /\ form'.caret = 1 /\ gs[1].caret = capture'[1].caret
        OBVIOUS
      <4>1. TabByTab(form', gs, i)
        BY <2>2, <3>1, TabByTabStays
      <4>2. form'.tab = i + 1 /\ form'.caret = 1
        BY <1>2, <1>4, <1>7, <3>1, TabsAre DEF RightStep
      <4>3. formJob'.i = i + 1 /\ formJob'.frames = gs
        BY <1>7
      <4>4. formJob'.i - 1 = i /\ formJob'.i # 1
        BY <1>2, <4>3
      <4>5. TabByTab(form', gs, formJob'.i - 1)
        BY <4>1, <4>4
      <4> QED BY <1>1, <3>1, <4>2, <4>3, <4>4, <4>5
    <3> QED BY <1>1, <2>1, <2>2, <3>1, <3>2, <3>3 DEF UntouchedOK, PlaceOK
  <2> QED BY <2>3, <2>4, <2>5, <2>6 DEF FInv
<1>8. CASE form.open /\ i < Tabs /\ form' = Right(form) /\ formJob' = [formJob EXCEPT !.i = @ + 1, !.frames = gs]
  <2>1. i + 1 \in 1..Tabs
    BY <1>2, <1>8, TabsAre
  <2>2. formJob' \in WalkJobs /\ formJob'.at = "reverify" /\ formJob'.i = i + 1 /\ formJob'.frames = gs
    BY <1>1, <1>2, <1>3, <1>8, <2>1 DEF WalkJobs
  <2> QED BY <1>7, <1>8, <2>2 DEF FormJobs
<1>9. CASE form.open /\ form' = Reset(form) /\ formJob' = [at |-> "start"]
  <2>1. formJob' \in FormJobs /\ formJob'.at = "start"
    BY <1>9 DEF FormJobs
  <2> QED BY <1>7, <1>9, <2>1
<1> QED BY <1>1, <1>6, <1>8, <1>9

LEMMA StartTabsKeeps == FInv /\ StartTabs => FInv'
<1> SUFFICES ASSUME FInv, StartTabs PROVE FInv'
  OBVIOUS
<1>0. FormTypes /\ SubmissionOK /\ UntouchedOK
  BY DEF FInv
<1>1. /\ formJob.at = "start" /\ attempted' = TRUE /\ form' = Reset(form) /\ formJob' = [at |-> "before", i |-> 1]
      /\ UNCHANGED <<chosen, capture, submission, meddled, touches>>
  BY DEF StartTabs
<1>2. form \in Forms /\ ResetStep(form, Reset(form)) /\ Typing
  BY <1>0, <1>1, WalksAre DEF FormTypes, Typing
<1>3. /\ form' \in Forms /\ form'.open = form.open /\ form'.ticks = form.ticks /\ form'.id = form.id /\ form'.kind = form.kind
      /\ form.open => form'.tab = 1
  BY <1>1, <1>2 DEF ResetStep, WalkStep
<1>4. formJob' \in TabJobs /\ formJob'.at = "before" /\ formJob'.i = 1
  BY <1>1, TabsAre DEF TabJobs
<1>5. /\ ~(formJob' \in OptionJobs \cup ToggleJobs)
      /\ formJob'.at \notin {"toggleread", "toggle", "enter", "verify", "advance", "final"}
  BY <1>4, JobClasses DEF FormJobs
<1>6. submission' = Submits(form')
  BY <1>1, <1>3 DEF Submits
<1>7. form'.open => InSeries'
  <2>1. \A t \in Questions : ~(t < 1)
    BY TabsAre
  <2> QED BY <1>3, <1>4, <1>5, <2>1 DEF InSeries, DoneBefore
<1>8. touches = 0 => (form'.open => PlaceOK') /\ \A t \in Questions : form'.ticks[t] \subseteq chosen[t]
  BY <1>0, <1>3, <1>4, <1>5 DEF PlaceOK, UntouchedOK
<1> QED BY <1>1, <1>2, <1>3, <1>4, <1>5, <1>6, <1>7, <1>8, StepKeeps

LEMMA FinishSeriesKeeps == FInv /\ FinishSeries => FInv'
<1> SUFFICES ASSUME FInv, FinishSeries PROVE FInv'
  OBVIOUS
<1>1. /\ formJob.at = "done" /\ formJob' = NoJob /\ attempted' = FALSE
      /\ UNCHANGED <<chosen, form, capture, submission, meddled, touches>>
  BY DEF FinishSeries
<1>2. Typing /\ ~form.open
  BY <1>1 DEF Typing, FInv, SubmissionOK
<1> QED BY <1>1, <1>2, DoneKeeps

\* Only reading the screen, hap goes on to the next step of the delivery.
LEMMA ReadKeeps ==
  ASSUME FInv, formJob \in TabJobs \cup OptionJobs \cup ToggleJobs,
         UNCHANGED <<form, chosen, capture, attempted, submission, meddled, touches>>,
         formJob' \in TabJobs \cup OptionJobs \cup ToggleJobs,
         formJob'.at = "toggleread" \/ formJob' \in ToggleJobs => formJob'.i < Tabs,
         formJob'.at = "toggle" => formJob'.missing # {},
         form.open => InSeries', touches = 0 /\ form.open => PlaceOK'
  PROVE  FInv'
<1>1. FormTypes /\ UntouchedOK /\ form \in Forms /\ attempted \in BOOLEAN
  BY DEF FInv, FormTypes
<1>2. Typing
  BY <1>1, JobClasses DEF FormTypes, Typing
<1>3. submission' = Submits(form')
  BY DEF Submits
<1>4. touches = 0 => attempted' /\ \A t \in Questions : form'.ticks[t] \subseteq chosen[t]
  BY <1>1 DEF UntouchedOK
<1> QED BY <1>1, <1>2, <1>3, <1>4, StepKeeps

\* A key that is sent to a form that has closed.
LEMMA ClosedKeyKeeps ==
  ASSUME FInv, formJob \in OptionJobs \cup ToggleJobs, ~form.open, form' = form, submission' = Submits(form'),
         UNCHANGED <<chosen, capture, attempted, meddled, touches>>,
         formJob' \in OptionJobs \cup ToggleJobs, formJob' \in ToggleJobs => formJob'.i < Tabs,
         formJob'.at = "toggle" => formJob'.missing # {}
  PROVE  FInv'
<1>1. submission' = submission
  BY DEF Submits
<1>2. formJob'.at # "toggleread"
  <2>1. formJob' \in FormJobs
    BY DEF FormJobs
  <2> QED BY <2>1, JobClasses
<1> QED BY <1>1, <1>2, ReadKeeps

\* The tabs before the one that shows are as they were.
LEMMA DoneStays ==
  ASSUME FormTypes, NEW n \in Nat, n = form.tab, form' \in Forms, form'.kind = form.kind, chosen' = chosen, DoneBefore(n),
         \A t \in Questions : t # n => form'.answer[t] = form.answer[t] /\ form'.ticks[t] = form.ticks[t]
  PROVE  /\ DoneBefore(n)'
         /\ (n \in Questions => Done(n)') => DoneBefore(n + 1)'
<1>1. ASSUME NEW t \in Questions, t < n PROVE Done(t)'
  <2>1. t # n
    BY <1>1, TabsAre
  <2>2. Done(t)
    BY <1>1 DEF DoneBefore
  <2> QED BY <2>1, <2>2 DEF Done
<1>2. DoneBefore(n)'
  BY <1>1 DEF DoneBefore
<1>3. ASSUME n \in Questions => Done(n)' PROVE DoneBefore(n + 1)'
  <2>1. ASSUME NEW t \in Questions, t < n + 1 PROVE Done(t)'
    <3>1. t < n \/ t = n
      BY <2>1, TabsAre
    <3>2. CASE t < n
      BY <1>1, <3>2
    <3>3. CASE t = n
      BY <1>3, <3>3
    <3> QED BY <3>1, <3>2, <3>3
  <2> QED BY <2>1 DEF DoneBefore
<1> QED BY <1>2, <1>3

\* A key on a single-select tab: it commits, or only moves the caret.
LEMMA OptionKeyKeeps ==
  ASSUME FInv, form.open, formJob \in OptionJobs, formJob.at \in {"press", "enter"}, NEW a \in {"after", "final"},
         formJob' = [formJob EXCEPT !.at = a], form' \in Forms, form'.id = form.id, form'.kind = form.kind,
         \/ form.kind[form.tab] # "multi" /\ Commits(form, TheDigit(formJob.i), form')
         \/ /\ a = "after" /\ form.kind[form.tab] # "multi" /\ form'.open /\ form'.tab = form.tab
            /\ form'.answer = form.answer /\ form'.ticks = form.ticks
         \/ form.kind[form.tab] = "multi" /\ form.tab \in Questions /\ \E d \in Digits : Flips(form, d, form'),
         submission' = Submits(form'), UNCHANGED <<chosen, capture, attempted, meddled, touches>>
  PROVE  FInv'
<1> SUFFICES ASSUME NEW n, n = form.tab, NEW i, i = formJob.i PROVE FInv'
  OBVIOUS
<1>0. FormTypes /\ UntouchedOK /\ form \in Forms /\ Typing
  BY JobClasses DEF FInv, FormTypes, Typing
<1>1. /\ formJob.was.tab <= i /\ n = formJob.was.tab /\ Cardinality(chosen[i]) = 1
      /\ n = i /\ ~meddled => DoneBefore(n)
  BY DEF FInv, SeriesOK, InSeries
<1>2. i \in 1..Tabs /\ n \in 1..Tabs /\ n \in Nat /\ i \in Nat /\ (n # Tabs => n \in Questions) /\ n <= Tabs /\ i <= Tabs
  BY <1>0, TabsAre DEF OptionJobs, Forms
<1>3. chosen[i] = {TheDigit(i)}
  BY <1>0, <1>1, <1>2, ChosenIs
<1>4. /\ formJob' \in OptionJobs /\ formJob'.at = a /\ formJob'.i = i /\ formJob'.was = formJob.was /\ formJob'.open = formJob.open
  <2>1. a \in {"press", "after", "enter", "final"}
    OBVIOUS
  <2> QED BY <2>1, OptionAt
<1>5. formJob' \notin TabJobs \cup ToggleJobs
  <2>1. formJob' \in FormJobs
    BY <1>4 DEF FormJobs
  <2> QED BY <1>4, <2>1, JobClasses
<1>6. form.kind[Tabs] # "multi"
  BY <1>0 DEF Forms, FormKinds
<1>7. touches = 0 => /\ attempted /\ n = i /\ form.kind[i] # "multi" /\ Unanswered(form) = formJob.open
                     /\ \A t \in Questions : form.ticks[t] \subseteq chosen[t]
  BY <1>0, <1>1 DEF UntouchedOK, PlaceOK
<1>8. CASE form.kind[n] # "multi" /\ Commits(form, TheDigit(i), form')
  <2>1. /\ form'.ticks = form.ticks /\ (n = Tabs => ~form'.open)
        /\ n # Tabs => /\ form'.open /\ form'.tab = n + 1 /\ form'.answer[n] = TheDigit(i)
                       /\ \A t \in Questions : t # n => form'.answer[t] = form.answer[t]
    BY <1>8 DEF Commits
  <2>2. ASSUME ~form'.open, ~meddled PROVE DoneBefore(Tabs)
    <3>1. n = Tabs /\ n = i
      BY <1>1, <1>2, <2>1, <2>2, TabsAre
    <3>2. DoneBefore(n)
      BY <1>1, <2>2, <3>1
    <3> QED BY <3>1, <3>2
  <2>3. ASSUME form'.open, n = i, ~meddled PROVE DoneBefore(n + 1)'
    <3>1. n # Tabs /\ n \in Questions /\ DoneBefore(n)
      BY <1>1, <1>2, <2>1, <2>3
    <3>2. Done(n)'
      BY <1>3, <1>8, <2>1, <2>3, <3>1 DEF Done
    <3> QED BY <1>0, <1>2, <2>1, <3>1, <3>2, DoneStays
  <2>4. form'.open => InSeries'
    <3> SUFFICES ASSUME form'.open PROVE InSeries'
      OBVIOUS
    <3>1. form'.tab = n + 1
      BY <2>1
    <3>2. n = i /\ ~meddled => DoneBefore(form.tab)'
      BY <2>3, <3>1
    <3>3. Cardinality(chosen'[formJob'.i]) = 1
      BY <1>1, <1>4
    <3> QED BY <1>1, <1>4, <1>5, <3>1, <3>2, <3>3 DEF InSeries
  <2>5. touches = 0 /\ form'.open => PlaceOK'
    <3> SUFFICES ASSUME touches = 0, form'.open PROVE PlaceOK'
      OBVIOUS
    <3>1. form'.tab = i + 1 /\ form'.tab # i
      BY <1>2, <1>7, <2>1
    <3> QED BY <1>1, <1>4, <1>5, <1>7, <3>1 DEF PlaceOK
  <2> QED BY <1>0, <1>4, <1>5, <1>7, <2>1, <2>2, <2>4, <2>5, StepKeeps DEF FormTypes
<1>9. CASE /\ form'.open /\ form'.tab = n
           /\ \A t \in Questions : t # n => form'.answer[t] = form.answer[t] /\ form'.ticks[t] = form.ticks[t]
           /\ touches = 0 => a = "after" /\ form'.answer = form.answer /\ form'.ticks = form.ticks
  <2>1. n = i /\ ~meddled => DoneBefore(form.tab)'
    <3> SUFFICES ASSUME n = i, ~meddled PROVE DoneBefore(n)'
      BY <1>9
    <3> QED BY <1>0, <1>1, <1>2, <1>9, DoneStays
  <2>2. InSeries'
    <3>1. Cardinality(chosen'[formJob'.i]) = 1
      BY <1>1, <1>4
    <3> QED BY <1>1, <1>4, <1>5, <1>9, <2>1, <3>1 DEF InSeries
  <2>3. touches = 0 => PlaceOK'
    <3> SUFFICES ASSUME touches = 0 PROVE PlaceOK'
      OBVIOUS
    <3>1. Unanswered(form') = Unanswered(form)
      BY <1>9 DEF Unanswered, Answered
    <3> QED BY <1>1, <1>4, <1>5, <1>7, <1>9, <3>1 DEF PlaceOK
  <2> QED BY <1>0, <1>4, <1>5, <1>7, <1>9, <2>2, <2>3, StepKeeps DEF FormTypes
<1>10. CASE form.kind[n] = "multi" /\ n \in Questions /\ \E d \in Digits : Flips(form, d, form')
  <2>1. /\ form'.open = form.open /\ form'.tab = n /\ form'.answer = form.answer
        /\ \A t \in Questions : t # n => form'.ticks[t] = form.ticks[t]
    BY <1>10 DEF Flips
  <2>2. touches # 0
    BY <1>7, <1>10
  <2> QED BY <1>9, <2>1, <2>2
<1> QED BY <1>8, <1>9, <1>10

LEMMA PressOptionKeeps == FInv /\ PressOption => FInv'
<1> SUFFICES ASSUME FInv, PressOption PROVE FInv'
  OBVIOUS
<1>0. FormTypes /\ form \in Forms
  BY DEF FInv, FormTypes
<1>1. /\ formJob.at = "press" /\ UNCHANGED <<chosen, capture, attempted, meddled, touches>> /\ submission' = Submits(form')
      /\ \/ form' = Digit(form, TheDigit(formJob.i)) /\ formJob' = [formJob EXCEPT !.at = "after"]
         \/ formJob' = NoJob /\ form' = form
  BY DEF PressOption, SendKey, Breaks
<1>2. formJob \in OptionJobs /\ formJob.i \in 1..Tabs
  BY <1>0, <1>1, JobClasses DEF FormTypes, OptionJobs
<1>3. CASE formJob' = NoJob /\ form' = form
  BY <1>0, <1>1, <1>3, WalkStepOf, BreaksKeeps DEF Submits
<1>4. CASE form' = Digit(form, TheDigit(formJob.i)) /\ formJob' = [formJob EXCEPT !.at = "after"]
  <2>1. CASE ~form.open
    <3>1. form' = form
      BY <1>4, <2>1 DEF Digit
    <3>2. formJob' \in OptionJobs /\ formJob'.at = "after"
      BY <1>2, <1>4, OptionAt
    <3>3. formJob' \notin ToggleJobs
      BY <3>2, JobClasses DEF FormJobs
    <3> QED BY <1>1, <1>2, <2>1, <3>1, <3>2, <3>3, ClosedKeyKeeps
  <2>2. CASE form.open
    <3>1. Cardinality(chosen[formJob.i]) = 1
      BY <1>2, <2>2 DEF FInv, SeriesOK, InSeries
    <3>2. TheDigit(formJob.i) \in Digits
      BY <1>0, <1>2, <3>1, ChosenIs
    <3>3. DigitStep(form, TheDigit(formJob.i), form')
      BY <1>0, <1>4, <3>2, DigitIs
    <3>4. /\ form' \in Forms /\ form'.id = form.id /\ form'.kind = form.kind
          /\ \/ form.kind[form.tab] # "multi" /\ Commits(form, TheDigit(formJob.i), form')
             \/ /\ form.kind[form.tab] # "multi" /\ form'.open /\ form'.tab = form.tab
                /\ form'.answer = form.answer /\ form'.ticks = form.ticks
             \/ form.kind[form.tab] = "multi" /\ form.tab \in Questions /\ \E d \in Digits : Flips(form, d, form')
      BY <2>2, <3>2, <3>3 DEF DigitStep
    <3> QED BY <1>1, <1>2, <1>4, <2>2, <3>4, OptionKeyKeeps
  <2> QED BY <2>1, <2>2
<1> QED BY <1>1, <1>3, <1>4

LEMMA PressEnterKeeps == FInv /\ PressEnter => FInv'
<1> SUFFICES ASSUME FInv, PressEnter PROVE FInv'
  OBVIOUS
<1>0. FormTypes /\ form \in Forms
  BY DEF FInv, FormTypes
<1>1. /\ formJob.at = "enter" /\ UNCHANGED <<chosen, capture, attempted, meddled, touches>> /\ submission' = Submits(form')
      /\ \/ form' = Enter(form) /\ formJob' = [formJob EXCEPT !.at = "final"]
         \/ formJob' = NoJob /\ form' = form
  BY DEF PressEnter, SendKey, Breaks
<1>2. formJob \in OptionJobs /\ formJob.i \in 1..Tabs
  BY <1>0, <1>1, JobClasses DEF FormTypes, OptionJobs
<1>3. CASE formJob' = NoJob /\ form' = form
  BY <1>0, <1>1, <1>3, WalkStepOf, BreaksKeeps DEF Submits
<1>4. CASE form' = Enter(form) /\ formJob' = [formJob EXCEPT !.at = "final"]
  <2>1. CASE ~form.open
    <3>1. form' = form
      BY <1>4, <2>1 DEF Enter
    <3>2. formJob' \in OptionJobs /\ formJob'.at = "final"
      BY <1>2, <1>4, OptionAt
    <3>3. formJob' \notin ToggleJobs
      BY <3>2, JobClasses DEF FormJobs
    <3> QED BY <1>1, <1>2, <2>1, <3>1, <3>2, <3>3, ClosedKeyKeeps
  <2>2. CASE form.open
    <3>1. form.caret = TheDigit(formJob.i) /\ form.caret \in Digits
      BY <1>0, <1>1, <2>2 DEF FInv, SeriesOK, InSeries, Forms
    <3>2. EnterStep(form, form')
      BY <1>0, <1>4, EnterIs
    <3>3. /\ form' \in Forms /\ form'.id = form.id /\ form'.kind = form.kind
          /\ \/ form.kind[form.tab] # "multi" /\ Commits(form, TheDigit(formJob.i), form')
             \/ form.kind[form.tab] = "multi" /\ form.tab \in Questions /\ \E d \in Digits : Flips(form, d, form')
      BY <2>2, <3>1, <3>2 DEF EnterStep
    <3> QED BY <1>1, <1>2, <1>4, <2>2, <3>3, OptionKeyKeeps
  <2> QED BY <2>1, <2>2
<1> QED BY <1>1, <1>3, <1>4

LEMMA BeforeTabKeeps == FInv /\ BeforeTab => FInv'
<1> SUFFICES ASSUME FInv, BeforeTab, NEW i, i = formJob.i PROVE FInv'
  OBVIOUS
<1>0. FormTypes /\ SubmissionOK /\ UntouchedOK /\ form \in Forms
  BY DEF FInv, FormTypes
<1>1. /\ formJob.at = "before" /\ UNCHANGED <<chosen, form, capture, attempted, submission, meddled, touches>>
      /\ \/ formJob' = NoJob
         \/ form.open /\ i < Tabs /\ formJob' = [at |-> "toggleread", i |-> i]
         \/ /\ form.open /\ ~(capture[i].multi /\ i < Tabs) /\ Cardinality(chosen[i]) = 1
            /\ formJob' = [at |-> "press", i |-> i, was |-> Frame(form), open |-> Unanswered(form)]
  BY DEF BeforeTab, Breaks
<1>2. formJob \in TabJobs /\ i \in 1..Tabs /\ Typing
  BY <1>0, <1>1, JobClasses DEF FormTypes, TabJobs, Typing
<1>3. form.open => form.tab <= i /\ (form.tab = i /\ ~meddled => DoneBefore(form.tab))
  BY <1>2 DEF FInv, SeriesOK, InSeries
<1>4. touches = 0 /\ form.open => form.tab = i /\ TabByTab(form, capture, Tabs)
  BY <1>0, <1>2 DEF UntouchedOK, PlaceOK
<1>5. CASE formJob' = NoJob
  BY <1>0, <1>1, <1>5, WalkStepOf, BreaksKeeps
<1>6. CASE form.open /\ i < Tabs /\ formJob' = [at |-> "toggleread", i |-> i]
  <2>1. formJob' \in TabJobs /\ formJob'.at = "toggleread" /\ formJob'.i = i
    BY <1>2, <1>6 DEF TabJobs
  <2>2. ~(formJob' \in OptionJobs \cup ToggleJobs)
    BY <2>1, JobClasses DEF FormJobs
  <2>3. InSeries'
    BY <1>1, <1>3, <1>6, <2>1, <2>2 DEF InSeries, DoneBefore, Done
  <2>4. touches = 0 => PlaceOK'
    BY <1>1, <1>4, <1>6, <2>1, <2>2 DEF PlaceOK
  <2> QED BY <1>1, <1>2, <1>6, <2>1, <2>2, <2>3, <2>4, ReadKeeps
<1>7. CASE /\ form.open /\ ~(capture[i].multi /\ i < Tabs) /\ Cardinality(chosen[i]) = 1
           /\ formJob' = [at |-> "press", i |-> i, was |-> Frame(form), open |-> Unanswered(form)]
  <2>1. Frame(form) \in Frames /\ Frame(form).tab = form.tab /\ Unanswered(form) \in Nat
    BY <1>0, FrameIs, UnansweredIs
  <2>2. formJob' \in OptionJobs /\ formJob'.at = "press" /\ formJob'.i = i /\ formJob'.was.tab = form.tab /\ formJob'.open = Unanswered(form)
    BY <1>2, <1>7, <2>1 DEF OptionJobs
  <2>3. ~(formJob' \in TabJobs \cup ToggleJobs)
    BY <2>2, JobClasses DEF FormJobs
  <2>4. InSeries'
    <3>1. Cardinality(chosen'[formJob'.i]) = 1
      BY <1>1, <1>7, <2>2
    <3> QED BY <1>1, <1>3, <1>7, <2>2, <2>3, <3>1 DEF InSeries, DoneBefore, Done
  <2>5. touches = 0 => PlaceOK'
    <3> SUFFICES ASSUME touches = 0 PROVE PlaceOK'
      OBVIOUS
    <3>1. form.kind[i] # "multi"
      <4>1. i = Tabs \/ i < Tabs
        BY <1>2, TabsAre
      <4>2. form.kind[Tabs] # "multi"
        BY <1>0 DEF Forms, FormKinds
      <4>3. capture[i].multi = (form.kind[i] = "multi")
        BY <1>2, <1>4, <1>7 DEF TabByTab
      <4> QED BY <1>7, <4>1, <4>2, <4>3
    <3>2. Unanswered(form') = Unanswered(form)
      BY <1>1
    <3> QED BY <1>1, <1>4, <1>7, <2>2, <2>3, <3>1, <3>2 DEF PlaceOK
  <2> QED BY <1>1, <1>2, <1>7, <2>2, <2>3, <2>4, <2>5, JobClasses, ReadKeeps DEF FormJobs
<1> QED BY <1>1, <1>5, <1>6, <1>7

\* On to the next tab: the form has gone on to it before hap does.
LEMMA NextTabKeeps ==
  ASSUME FInv, form.open, formJob \in OptionJobs \cup ToggleJobs, formJob.i < Tabs, formJob' = NextTab,
         UNCHANGED <<chosen, form, capture, attempted, submission, meddled, touches>>,
         touches = 0 => form.tab = formJob.i + 1
  PROVE  FInv'
<1> SUFFICES ASSUME NEW i, i = formJob.i PROVE FInv'
  OBVIOUS
<1>1. i \in 1..Tabs /\ form.tab \in Nat /\ formJob.was.tab \in Nat
  BY TabsAre DEF FInv, FormTypes, Forms, OptionJobs, ToggleJobs, Frames
<1>2. i + 1 \in 1..Tabs /\ i \in Nat
  BY <1>1, TabsAre
<1>3. formJob' \in TabJobs /\ formJob'.at = "before" /\ formJob'.i = i + 1
  BY <1>2 DEF NextTab, TabJobs
<1>4. ~(formJob' \in OptionJobs \cup ToggleJobs)
  BY <1>3, JobClasses DEF FormJobs
<1>5. /\ formJob.was.tab <= i /\ (formJob.was.tab = i /\ ~meddled => DoneBefore(form.tab))
      /\ form.tab = formJob.was.tab \/ form.tab = formJob.was.tab + 1
  BY DEF FInv, SeriesOK, InSeries
<1>6. form.tab <= i + 1 /\ (form.tab = i + 1 => formJob.was.tab = i)
  BY <1>1, <1>2, <1>5
<1>7. InSeries'
  <2>1. form.tab = i + 1 /\ ~meddled => DoneBefore(form.tab)'
    BY <1>5, <1>6 DEF DoneBefore, Done
  <2> QED BY <1>3, <1>4, <1>6, <2>1 DEF InSeries
<1>8. touches = 0 => PlaceOK'
  BY <1>3, <1>4 DEF PlaceOK
<1> QED BY <1>3, <1>4, <1>7, <1>8, ReadKeeps

LEMMA AfterOptionKeeps == FInv /\ AfterOption => FInv'
<1> SUFFICES ASSUME FInv, AfterOption, NEW i, i = formJob.i PROVE FInv'
  OBVIOUS
<1>0. FormTypes /\ UntouchedOK /\ form \in Forms
  BY DEF FInv, FormTypes
<1>1. formJob.at = "after" /\ UNCHANGED <<chosen, form, capture, attempted, submission, meddled, touches>>
  BY DEF AfterOption
<1>2. \/ formJob' = NoJob
      \/ ~form.open /\ formJob' = [at |-> "done"]
      \/ form.open /\ i # Tabs /\ Unanswered(form) = formJob.open - 1 /\ formJob' = NextTab
      \/ /\ form.open /\ Frame(form).tab = formJob.was.tab /\ Frame(form).caret = TheDigit(i)
         /\ formJob' = [formJob EXCEPT !.at = "enter"]
  BY DEF AfterOption, Breaks, SameQuestion
<1>3. formJob \in OptionJobs /\ i \in 1..Tabs /\ formJob.open \in Nat /\ Typing
  BY <1>0, <1>1, JobClasses DEF FormTypes, OptionJobs, Typing
<1>4. CASE formJob' = NoJob
  BY <1>0, <1>1, <1>4, WalkStepOf, BreaksKeeps
<1>5. CASE ~form.open /\ formJob' = [at |-> "done"]
  BY <1>0, <1>1, <1>3, <1>5, DoneKeeps DEF FormTypes
<1>6. CASE form.open /\ i # Tabs /\ Unanswered(form) = formJob.open - 1 /\ formJob' = NextTab
  <2>1. i < Tabs
    BY <1>3, <1>6, TabsAre
  <2>2. touches = 0 => form.tab = i + 1
    <3> SUFFICES ASSUME touches = 0 PROVE form.tab = i + 1
      OBVIOUS
    <3>1. formJob.was.tab = i /\ (form.tab = i => Unanswered(form) = formJob.open)
      BY <1>0, <1>3, <1>6 DEF UntouchedOK, PlaceOK
    <3>2. form.tab = formJob.was.tab \/ form.tab = formJob.was.tab + 1
      BY <1>3, <1>6 DEF FInv, SeriesOK, InSeries
    <3> QED BY <1>3, <1>6, <3>1, <3>2
  <2> QED BY <1>1, <1>3, <1>6, <2>1, <2>2, NextTabKeeps
<1>7. CASE /\ form.open /\ Frame(form).tab = formJob.was.tab /\ Frame(form).caret = TheDigit(i)
           /\ formJob' = [formJob EXCEPT !.at = "enter"]
  <2>1. form.tab = formJob.was.tab /\ form.caret = TheDigit(i)
    BY <1>0, <1>7, FrameIs
  <2>2. /\ formJob' \in OptionJobs /\ formJob'.at = "enter" /\ formJob'.i = i /\ formJob'.was = formJob.was /\ formJob'.open = formJob.open
    BY <1>3, <1>7, OptionAt
  <2>3. ~(formJob' \in TabJobs \cup ToggleJobs)
    BY <2>2, JobClasses DEF FormJobs
  <2>4. InSeries'
    <3>1. /\ formJob.was.tab <= i /\ (formJob.was.tab = i /\ ~meddled => DoneBefore(form.tab))
          /\ Cardinality(chosen[i]) = 1
      BY <1>3, <1>7 DEF FInv, SeriesOK, InSeries
    <3>2. formJob.was.tab = i /\ ~meddled => DoneBefore(form.tab)'
      BY <1>1, <3>1 DEF DoneBefore, Done
    <3>3. Cardinality(chosen'[formJob'.i]) = 1 /\ form'.caret = TheDigit(formJob.i)'
      BY <1>1, <2>1, <2>2, <3>1 DEF TheDigit
    <3> QED BY <1>1, <2>1, <2>2, <2>3, <3>1, <3>2, <3>3 DEF InSeries, TheDigit
  <2>5. touches = 0 => PlaceOK'
    <3>1. touches = 0 => formJob.was.tab = i /\ form.kind[i] # "multi" /\ (form.tab = i => Unanswered(form) = formJob.open)
      BY <1>0, <1>3, <1>7 DEF UntouchedOK, PlaceOK
    <3>2. Unanswered(form') = Unanswered(form)
      BY <1>1
    <3> QED BY <1>1, <2>2, <2>3, <3>1, <3>2 DEF PlaceOK
  <2> QED BY <1>1, <1>3, <2>2, <2>3, <2>4, <2>5, JobClasses, ReadKeeps DEF FormJobs
<1> QED BY <1>2, <1>4, <1>5, <1>6, <1>7

LEMMA AfterEnterKeeps == FInv /\ AfterEnter => FInv'
<1> SUFFICES ASSUME FInv, AfterEnter, NEW i, i = formJob.i PROVE FInv'
  OBVIOUS
<1>0. FormTypes /\ UntouchedOK /\ form \in Forms
  BY DEF FInv, FormTypes
<1>1. formJob.at = "final" /\ UNCHANGED <<chosen, form, capture, attempted, submission, meddled, touches>>
  BY DEF AfterEnter
<1>2. \/ formJob' = NoJob
      \/ ~form.open /\ formJob' = [at |-> "done"]
      \/ form.open /\ i < Tabs /\ formJob' = NextTab
  BY DEF AfterEnter, Breaks
<1>3. formJob \in OptionJobs /\ Typing
  BY <1>0, <1>1, JobClasses DEF FormTypes, Typing
<1>4. CASE formJob' = NoJob
  BY <1>0, <1>1, <1>4, WalkStepOf, BreaksKeeps
<1>5. CASE ~form.open /\ formJob' = [at |-> "done"]
  BY <1>0, <1>1, <1>3, <1>5, DoneKeeps DEF FormTypes
<1>6. CASE form.open /\ i < Tabs /\ formJob' = NextTab
  <2>1. touches = 0 => form.tab = i + 1
    BY <1>0, <1>1, <1>6 DEF UntouchedOK, PlaceOK
  <2> QED BY <1>1, <1>3, <1>6, <2>1, NextTabKeeps
<1> QED BY <1>2, <1>4, <1>5, <1>6

LEMMA ToggleReadKeeps == FInv /\ ToggleRead => FInv'
<1> SUFFICES ASSUME FInv, ToggleRead, NEW i, i = formJob.i PROVE FInv'
  OBVIOUS
<1> DEFINE ticks == Frame(form).ticks
           missing == chosen[i] \ ticks
<1>0. FormTypes /\ UntouchedOK /\ form \in Forms
  BY DEF FInv, FormTypes
<1>1. /\ formJob.at = "toggleread" /\ UNCHANGED <<chosen, form, capture, attempted, submission, meddled, touches>>
      /\ \/ formJob' = NoJob
         \/ /\ form.open /\ Multi(form) /\ ticks \ chosen[i] = {}
            /\ formJob' = [at |-> IF missing = {} THEN "advance" ELSE "toggle", i |-> i, was |-> Frame(form), missing |-> missing]
  BY DEF ToggleRead, Breaks, CheckedOutside
<1>2. formJob \in TabJobs /\ i \in 1..Tabs /\ i < Tabs
  BY <1>0, <1>1, JobClasses DEF FormTypes, TabJobs
<1>3. CASE formJob' = NoJob
  BY <1>0, <1>1, <1>3, WalkStepOf, BreaksKeeps
<1>4. CASE /\ form.open /\ Multi(form) /\ ticks \ chosen[i] = {}
           /\ formJob' = [at |-> IF missing = {} THEN "advance" ELSE "toggle", i |-> i, was |-> Frame(form), missing |-> missing]
  <2>1. /\ Frame(form) \in Frames /\ Frame(form).tab = form.tab /\ ticks = form.ticks[form.tab]
        /\ form.kind[form.tab] = "multi"
    BY <1>0, <1>4, FrameIs
  <2>2. missing \in SUBSET Digits /\ missing \subseteq chosen[i]
    BY <1>0, <1>2, ChosenIs
  <2>3. /\ formJob' \in ToggleJobs /\ formJob'.i = i /\ formJob'.was.tab = form.tab /\ formJob'.missing = missing
        /\ formJob'.at = (IF missing = {} THEN "advance" ELSE "toggle")
    <3> HIDE DEF missing, ticks
    <3> QED BY <1>2, <1>4, <2>1, <2>2 DEF ToggleJobs
  <2>4. ~(formJob' \in TabJobs \cup OptionJobs) /\ formJob'.at \notin {"enter", "toggleread"}
    BY <2>3, JobClasses DEF FormJobs
  <2>5. missing = {} => ticks = chosen[i]
    BY <1>4
  <2> HIDE DEF missing, ticks
  <2>6. InSeries'
    <3>1. form.tab <= i /\ (form.tab = i /\ ~meddled => DoneBefore(form.tab))
      BY <1>2, <1>4 DEF FInv, SeriesOK, InSeries
    <3>2. form.tab = i /\ ~meddled => DoneBefore(form.tab)'
      BY <1>1, <3>1 DEF DoneBefore, Done
    <3>3. formJob'.at = "advance" /\ form.tab = i => form.ticks[form.tab] = chosen[form.tab]
      BY <2>1, <2>3, <2>5
    <3> QED BY <1>1, <2>1, <2>3, <2>4, <3>1, <3>2, <3>3 DEF InSeries
  <2>7. touches = 0 => PlaceOK'
    <3>1. touches = 0 => form.tab = i
      BY <1>0, <1>2, <1>4 DEF UntouchedOK, PlaceOK
    <3>2. formJob'.at # "final"
      BY <2>3
    <3> QED BY <1>1, <2>2, <2>3, <2>4, <3>1, <3>2 DEF PlaceOK
  <2>8. formJob'.at = "toggle" => formJob'.missing # {}
    BY <2>3
  <2> QED BY <1>1, <1>2, <1>4, <2>3, <2>4, <2>6, <2>7, <2>8, ReadKeeps
<1> QED BY <1>1, <1>3, <1>4

\* A multi-select tab on the screen, while hap is at it.
LEMMA ToggleTabIs ==
  ASSUME FInv, form.open, formJob \in ToggleJobs, formJob.at \in {"toggle", "verify", "advance"}
  PROVE  /\ form.kind[form.tab] = "multi" /\ form.tab \in Questions /\ form.tab # Tabs /\ form.tab = formJob.was.tab
         /\ formJob.was.tab <= formJob.i /\ (formJob.was.tab = formJob.i /\ ~meddled => DoneBefore(form.tab))
         /\ touches = 0 => form.tab = formJob.i /\ formJob.missing \subseteq chosen[formJob.i] /\ attempted
         /\ Frame(form).ticks = form.ticks[form.tab] /\ form \in Forms
<1>1. form \in Forms
  BY DEF FInv, FormTypes
<1>2. /\ form.kind[form.tab] = "multi" /\ form.tab = formJob.was.tab
      /\ formJob.was.tab <= formJob.i /\ (formJob.was.tab = formJob.i /\ ~meddled => DoneBefore(form.tab))
  BY DEF FInv, SeriesOK, InSeries
<1>3. Multi(form)
  BY <1>2 DEF Multi
<1>4. form.tab \in Questions /\ Frame(form).ticks = form.ticks[form.tab]
  BY <1>1, <1>3, FrameIs
<1>5. form.tab # Tabs
  BY <1>4, TabsAre
<1>6. touches = 0 => formJob.was.tab = formJob.i /\ formJob.missing \subseteq chosen[formJob.i] /\ attempted
  BY DEF FInv, UntouchedOK, PlaceOK
<1> QED BY <1>1, <1>2, <1>4, <1>5, <1>6

LEMMA ToggleKeeps == FInv /\ Toggle => FInv'
<1> SUFFICES ASSUME FInv, Toggle, NEW i, i = formJob.i, NEW n, n = form.tab PROVE FInv'
  OBVIOUS
<1> DEFINE d == CHOOSE x \in formJob.missing : \A y \in formJob.missing : x <= y
           rest == formJob.missing \ {d}
           a == IF rest = {} THEN "verify" ELSE "toggle"
<1>0. FormTypes /\ form \in Forms
  BY DEF FInv, FormTypes
<1>1. /\ formJob.at = "toggle" /\ UNCHANGED <<chosen, capture, attempted, meddled, touches>> /\ submission' = Submits(form')
      /\ \/ form' = Digit(form, d) /\ formJob' = [formJob EXCEPT !.missing = rest, !.at = a]
         \/ formJob' = NoJob /\ form' = form
  BY DEF Toggle, SendKey, Breaks
<1>2. formJob \in ToggleJobs /\ i \in 1..Tabs /\ i < Tabs /\ formJob.missing # {} /\ formJob.missing \subseteq {1, 2} /\ Typing
  BY <1>0, <1>1, JobClasses, TabsAre DEF FormTypes, ToggleJobs, Typing
<1>3. d \in formJob.missing /\ d \in Digits
  <2>1. \E x \in formJob.missing : \A y \in formJob.missing : x <= y
    <3>1. CASE 1 \in formJob.missing
      BY <1>2, <3>1
    <3>2. CASE 1 \notin formJob.missing
      BY <1>2, <3>2
    <3> QED BY <3>1, <3>2
  <2>2. d \in formJob.missing
    BY <2>1
  <2> QED BY <1>2, <2>2, TabsAre
<1>4. rest \in SUBSET formJob.missing /\ a \in {"verify", "toggle"} /\ (a = "toggle" => rest # {})
  OBVIOUS
<1> HIDE DEF d, rest, a
<1>5. CASE formJob' = NoJob /\ form' = form
  BY <1>0, <1>1, <1>5, WalkStepOf, BreaksKeeps DEF Submits
<1>6. CASE form' = Digit(form, d) /\ formJob' = [formJob EXCEPT !.missing = rest, !.at = a]
  <2>1. /\ formJob' \in ToggleJobs /\ formJob'.at = a /\ formJob'.i = i /\ formJob'.was = formJob.was /\ formJob'.missing = rest
    <3>1. rest \in SUBSET Digits
      BY <1>2, <1>4, TabsAre
    <3> QED BY <1>2, <1>4, <1>6, <3>1 DEF ToggleJobs
  <2>2. ~(formJob' \in TabJobs \cup OptionJobs) /\ formJob'.at \notin {"enter", "toggleread"}
    BY <2>1, JobClasses DEF FormJobs
  <2>3. formJob'.at = "toggle" => formJob'.missing # {}
    BY <1>4, <2>1
  <2>4. CASE ~form.open
    <3>1. form' = form
      BY <1>6, <2>4 DEF Digit
    <3> QED BY <1>1, <1>2, <2>1, <2>3, <2>4, <3>1, ClosedKeyKeeps
  <2>5. CASE form.open
    <3>1. /\ form.kind[n] = "multi" /\ n \in Questions /\ n # Tabs /\ n = formJob.was.tab
          /\ formJob.was.tab <= i /\ (formJob.was.tab = i /\ ~meddled => DoneBefore(n))
          /\ touches = 0 => n = i /\ formJob.missing \subseteq chosen[i] /\ attempted
      BY <1>1, <1>2, <2>5, ToggleTabIs
    <3>2. DigitStep(form, d, form')
      BY <1>0, <1>3, <1>6, DigitIs
    <3>3. Flips(form, d, form')
      BY <2>5, <3>1, <3>2 DEF DigitStep
    <3>4. /\ form' \in Forms /\ form'.id = form.id /\ form'.kind = form.kind /\ form'.open /\ form'.tab = n
          /\ form'.answer = form.answer /\ form'.ticks[n] = Flip(form.ticks[n], d)
          /\ \A t \in Questions : t # n => form'.ticks[t] = form.ticks[t]
      BY <2>5, <3>3 DEF Flips
    <3>5. InSeries'
      <4>1. n = i /\ ~meddled => DoneBefore(n)'
        <5>1. n \in Nat
          BY <3>1, TabsAre
        <5> QED BY <1>0, <1>1, <3>1, <3>4, <5>1, DoneStays
      <4>2. n = i /\ ~meddled => DoneBefore(form.tab)'
        BY <3>4, <4>1
      <4>3. a # "advance"
        BY <1>4
      <4> QED BY <1>1, <2>1, <2>2, <3>1, <3>4, <4>2, <4>3 DEF InSeries
    <3>6. ASSUME touches = 0 PROVE PlaceOK' /\ \A t \in Questions : form'.ticks[t] \subseteq chosen[t]
      <4>1. \A t \in Questions : form.ticks[t] \subseteq chosen[t]
        BY <3>6 DEF FInv, UntouchedOK
      <4>2. d \in chosen[n] /\ rest \subseteq chosen[i]
        BY <1>3, <1>4, <3>1, <3>6
      <4>3. form'.ticks[n] \subseteq chosen[n]
        BY <3>1, <3>4, <4>1, <4>2 DEF Flip
      <4>4. a # "final"
        BY <1>4
      <4> QED BY <1>1, <2>1, <2>2, <3>1, <3>4, <3>6, <4>1, <4>2, <4>3, <4>4 DEF PlaceOK
    <3> QED BY <1>0, <1>1, <1>2, <2>1, <2>2, <2>3, <2>5, <3>1, <3>4, <3>5, <3>6, StepKeeps DEF FormTypes
  <2> QED BY <2>4, <2>5
<1> QED BY <1>1, <1>5, <1>6

LEMMA ToggleVerifyKeeps == FInv /\ ToggleVerify => FInv'
<1> SUFFICES ASSUME FInv, ToggleVerify, NEW i, i = formJob.i PROVE FInv'
  OBVIOUS
<1>0. FormTypes /\ form \in Forms
  BY DEF FInv, FormTypes
<1>1. /\ formJob.at = "verify" /\ UNCHANGED <<chosen, form, capture, attempted, submission, meddled, touches>>
      /\ \/ formJob' = NoJob
         \/ form.open /\ Frame(form).ticks = chosen[i] /\ formJob' = [formJob EXCEPT !.at = "advance"]
  BY DEF ToggleVerify, Breaks, TogglesLanded
<1>2. formJob \in ToggleJobs /\ i < Tabs
  BY <1>0, <1>1, JobClasses DEF FormTypes
<1>3. CASE formJob' = NoJob
  BY <1>0, <1>1, <1>3, WalkStepOf, BreaksKeeps
<1>4. CASE form.open /\ Frame(form).ticks = chosen[i] /\ formJob' = [formJob EXCEPT !.at = "advance"]
  <2>1. /\ formJob' \in ToggleJobs /\ formJob'.at = "advance" /\ formJob'.i = i /\ formJob'.was = formJob.was /\ formJob'.missing = formJob.missing
    BY <1>2, <1>4, ToggleAt
  <2>2. ~(formJob' \in TabJobs \cup OptionJobs) /\ formJob'.at \notin {"enter", "toggleread", "toggle", "final"}
    BY <2>1, JobClasses DEF FormJobs
  <2>3. /\ form.kind[form.tab] = "multi" /\ form.tab = formJob.was.tab
        /\ formJob.was.tab <= i /\ (formJob.was.tab = i /\ ~meddled => DoneBefore(form.tab))
        /\ touches = 0 => form.tab = i /\ formJob.missing \subseteq chosen[i]
        /\ Frame(form).ticks = form.ticks[form.tab]
    BY <1>1, <1>2, <1>4, ToggleTabIs
  <2>4. InSeries'
    <3>1. formJob.was.tab = i /\ ~meddled => DoneBefore(form.tab)'
      BY <1>1, <2>3 DEF DoneBefore, Done
    <3>2. formJob.was.tab = i => form.ticks[form.tab] = chosen[form.tab]
      BY <1>4, <2>3
    <3> QED BY <1>1, <2>1, <2>2, <2>3, <3>1, <3>2 DEF InSeries
  <2>5. touches = 0 => PlaceOK'
    BY <1>1, <2>1, <2>2, <2>3 DEF PlaceOK
  <2> QED BY <1>1, <1>2, <2>1, <2>2, <2>4, <2>5, ReadKeeps
<1> QED BY <1>1, <1>3, <1>4

LEMMA AdvanceKeeps == FInv /\ Advance => FInv'
<1> SUFFICES ASSUME FInv, Advance, NEW i, i = formJob.i, NEW n, n = form.tab PROVE FInv'
  OBVIOUS
<1>0. FormTypes /\ form \in Forms
  BY DEF FInv, FormTypes
<1>1. /\ formJob.at = "advance" /\ UNCHANGED <<chosen, capture, attempted, submission, meddled, touches>>
      /\ \/ form' = Right(form) /\ formJob' = [formJob EXCEPT !.at = "moved"]
         \/ formJob' = NoJob /\ form' = form
  BY DEF Advance, SendKey, Breaks
<1>2. formJob \in ToggleJobs /\ i < Tabs /\ Typing
  BY <1>0, <1>1, JobClasses DEF FormTypes, Typing
<1>3. CASE formJob' = NoJob /\ form' = form
  BY <1>0, <1>1, <1>3, WalkStepOf, BreaksKeeps
<1>4. CASE form' = Right(form) /\ formJob' = [formJob EXCEPT !.at = "moved"]
  <2>1. /\ formJob' \in ToggleJobs /\ formJob'.at = "moved" /\ formJob'.i = i /\ formJob'.was = formJob.was /\ formJob'.missing = formJob.missing
    BY <1>2, <1>4, ToggleAt
  <2>2. ~(formJob' \in TabJobs \cup OptionJobs) /\ formJob'.at \notin {"enter", "toggleread", "toggle", "final", "verify", "advance"}
    BY <2>1, JobClasses DEF FormJobs
  <2>3. RightStep(form, form')
    BY <1>0, <1>4, WalksAre
  <2>4. /\ form' \in Forms /\ form'.id = form.id /\ form'.kind = form.kind /\ form'.open = form.open
        /\ form'.answer = form.answer /\ form'.ticks = form.ticks /\ submission' = Submits(form')
    BY <1>1, <2>3 DEF RightStep, WalkStep, Submits
  <2>5. CASE ~form.open
    <3>1. form' = form
      BY <1>4, <2>5 DEF Right
    <3> QED BY <1>1, <1>2, <2>1, <2>2, <2>4, <2>5, <3>1, ClosedKeyKeeps
  <2>6. CASE form.open
    <3>1. /\ form.kind[n] = "multi" /\ n \in Questions /\ n # Tabs /\ n = formJob.was.tab
          /\ formJob.was.tab <= i /\ (formJob.was.tab = i /\ ~meddled => DoneBefore(n))
          /\ touches = 0 => n = i /\ formJob.missing \subseteq chosen[i] /\ attempted
      BY <1>1, <1>2, <2>6, ToggleTabIs
    <3>2. form'.tab = n + 1 /\ n \in Nat
      BY <2>3, <2>6, <3>1, TabsAre DEF RightStep
    <3>3. InSeries'
      <4>1. ASSUME n = i, ~meddled PROVE DoneBefore(n + 1)'
        <5>1. form.ticks[n] = chosen[n]
          BY <1>1, <2>6, <3>1, <4>1 DEF FInv, SeriesOK, InSeries
        <5>2. Done(n)'
          BY <1>1, <2>4, <3>1, <5>1 DEF Done
        <5> QED BY <1>0, <1>1, <2>4, <3>1, <3>2, <4>1, <5>2, DoneStays
      <4>2. n = i /\ ~meddled => DoneBefore(form.tab)'
        BY <3>2, <4>1
      <4> QED BY <1>1, <2>1, <2>2, <3>1, <3>2, <4>2 DEF InSeries
    <3>4. touches = 0 => PlaceOK' /\ attempted' /\ \A t \in Questions : form'.ticks[t] \subseteq chosen[t]
      BY <1>1, <2>1, <2>2, <2>4, <3>1 DEF FInv, UntouchedOK, PlaceOK
    <3> QED BY <1>0, <1>1, <1>2, <2>1, <2>2, <2>4, <2>6, <3>3, <3>4, StepKeeps DEF FormTypes
  <2> QED BY <2>5, <2>6
<1> QED BY <1>1, <1>3, <1>4

LEMMA AfterAdvanceKeeps == FInv /\ AfterAdvance => FInv'
<1> SUFFICES ASSUME FInv, AfterAdvance, NEW i, i = formJob.i PROVE FInv'
  OBVIOUS
<1>0. FormTypes /\ UntouchedOK /\ form \in Forms
  BY DEF FInv, FormTypes
<1>1. /\ formJob.at = "moved" /\ UNCHANGED <<chosen, form, capture, attempted, submission, meddled, touches>>
      /\ \/ formJob' = NoJob
         \/ form.open /\ Frame(form).tab # formJob.was.tab /\ formJob' = NextTab
  BY DEF AfterAdvance, Breaks
<1>2. formJob \in ToggleJobs /\ i < Tabs
  BY <1>0, <1>1, JobClasses DEF FormTypes
<1>3. CASE formJob' = NoJob
  BY <1>0, <1>1, <1>3, WalkStepOf, BreaksKeeps
<1>4. CASE form.open /\ Frame(form).tab # formJob.was.tab /\ formJob' = NextTab
  <2>1. form.tab = formJob.was.tab + 1
    BY <1>0, <1>2, <1>4, FrameIs DEF FInv, SeriesOK, InSeries
  <2>2. touches = 0 => formJob.was.tab = i
    BY <1>0, <1>2, <1>4 DEF UntouchedOK, PlaceOK
  <2> QED BY <1>1, <1>2, <1>4, <2>1, <2>2, NextTabKeeps
<1> QED BY <1>1, <1>3, <1>4

LEMMA FormStutters == FInv /\ UNCHANGED formVars => FInv'
<1> SUFFICES ASSUME FInv, UNCHANGED formVars PROVE FInv'
  OBVIOUS
<1>1. UNCHANGED <<chosen, form, formJob, capture, attempted, submission, meddled, touches>>
  BY DEF formVars
<1> QED BY <1>1 DEF FInv, FormTypes, SeriesOK, InSeries, SubmissionOK, UntouchedOK, PlaceOK, Typing, DoneBefore, Done,
              SubmittedAsChosen, OwnFormIsAnswered, TheDigit, TabByTab, Unanswered, Answered

LEMMA NextFormKeeps == FInv /\ [NextForm]_formVars => FInv'
<1> SUFFICES ASSUME FInv, [NextForm]_formVars PROVE FInv'
  OBVIOUS
<1>1. CASE StartSweep \/ SweepTab \/ DeliverSeries \/ ReverifyTab \/ StartTabs \/ FinishSeries
  BY <1>1, StartSweepKeeps, SweepTabKeeps, DeliverSeriesKeeps, ReverifyTabKeeps, StartTabsKeeps, FinishSeriesKeeps
<1>2. CASE BeforeTab \/ PressOption \/ AfterOption \/ PressEnter \/ AfterEnter
  BY <1>2, BeforeTabKeeps, PressOptionKeeps, AfterOptionKeeps, PressEnterKeeps, AfterEnterKeeps
<1>3. CASE ToggleRead \/ Toggle \/ ToggleVerify \/ Advance \/ AfterAdvance
  BY <1>3, ToggleReadKeeps, ToggleKeeps, ToggleVerifyKeeps, AdvanceKeeps, AfterAdvanceKeeps
<1>4. CASE Touch \/ Navigate \/ AskAnother \/ Dismiss
  BY <1>4, TouchKeeps, OperatorKeeps
<1>5. CASE UNCHANGED formVars
  BY <1>5, FormStutters
<1> QED BY <1>1, <1>2, <1>3, <1>4, <1>5 DEF NextForm

\* A form that hap submits is the one it captured and, unless somebody meddled with a tab hap
\* had left, holds tab by tab and box by box the answers chosen for it, whatever kinds of tab
\* it has and however an earlier try ended; and the walk before delivery (reverifyMultiSelect)
\* refuses only a form that somebody else has touched, never over hap's own boxes.
THEOREM FormsAreCarriedThrough == SpecForm => FormIsCarriedThrough
<1>1. InitForm => FInv
  BY InitFInv
<1>2. FInv /\ [NextForm]_formVars => FInv'
  BY NextFormKeeps
<1>3. FInv => SubmittedAsChosen /\ OwnFormIsAnswered
  <2>1. FInv /\ submission.of # 0 => SubmittedAsChosen /\ OwnFormIsAnswered
    BY DEF FInv, SubmissionOK
  <2>2. submission.of = 0 => SubmittedAsChosen /\ OwnFormIsAnswered
    BY DEF SubmittedAsChosen, OwnFormIsAnswered
  <2> QED BY <2>1, <2>2
<1>4. FInv /\ [NextForm]_formVars => [ReverifyTab /\ formJob' = NoJob => touches > 0]_formVars
  <2> SUFFICES ASSUME FInv, ReverifyTab, formJob' = NoJob PROVE touches > 0
    OBVIOUS
  <2>1. touches \in Nat
    BY DEF FInv, FormTypes
  <2>2. \/ touches # 0
        \/ formJob' = [formJob EXCEPT !.i = @ + 1, !.frames = Append(formJob.frames, Frame(form))]
        \/ formJob' = [at |-> "start"]
    BY ReverifyIs
  <2>3. formJob' # [at |-> "start"]
    BY DEF NoJob
  <2>4. formJob' # [formJob EXCEPT !.i = @ + 1, !.frames = Append(formJob.frames, Frame(form))]
    <3>1. formJob \in WalkJobs
      BY JobClasses DEF FInv, FormTypes, ReverifyTab
    <3> QED BY <3>1 DEF WalkJobs, NoJob
  <2> QED BY <2>1, <2>2, <2>3, <2>4
<1> QED BY <1>1, <1>2, <1>3, <1>4, PTL DEF SpecForm, FormIsCarriedThrough, OwnResidueIsNotForeign

-----------------------------------------------------------------------------
(* The machine's history, moved between two databases *)

Dbs == {"local", "shared"}
DecisionRows == [id : Nat, sig : Sigs, of : Nat, spent : BOOLEAN]
AuditRows == [id : Nat, node : {"us", "them"}, of : Nat, decision : Nat, corrects : Nat, was : Nat]
Stores ==
  [decisions : SUBSET DecisionRows, audits : SUBSET AuditRows, floor : [Sigs -> Nat \cup {NoRule}],
   imported : BOOLEAN, nextLocal : Nat \ {0}]

\* The ids of a database go up to n, each is one row's, and a reference is to a row's id or to one
\* that is gone.
NumberedTo(db, n) ==
  /\ IsFiniteSet(db.decisions) /\ IsFiniteSet(db.audits)
  /\ \A c \in db.decisions : c.id \in 1..n
  /\ \A a \in db.audits : a.id \in 1..n /\ a.decision <= n /\ a.corrects <= n
  /\ \A c, e \in db.decisions : c.id = e.id => c = e
  /\ \A a, b \in db.audits : a.id = b.id => a = b

RefersOK(db) ==
  \A a \in db.audits :
    /\ \A c \in db.decisions : c.id = a.decision => c.of = a.of
    /\ \A b \in db.audits : b.id = a.corrects => b.of = a.was

\* What counts and what does not, for the signatures no copy has met, and no decision is without
\* its rule.
FloorsOK(db, n, known) ==
  /\ \A s \in Sigs : db.floor[s] <= n
  /\ \A c \in db.decisions : /\ db.floor[c.sig] # NoRule
                             /\ c.sig \notin known => (c.spent <=> c.id <= db.floor[c.sig])

DbOK(db, n, known, k) ==
  /\ db \in Stores /\ NumberedTo(db, n) /\ RefersOK(db) /\ FloorsOK(db, n, known)
  /\ \A r \in db.decisions \cup db.audits : r.of <= k

\* The last id, and the signatures met.
LastId(d) == IF d = "local" THEN store.local.nextLocal - 1 ELSE minted
MetIn(d) == {s \in Sigs : << d, s >> \in met}

\* As long as nothing was brought home: the local file holds this node's own rows, and the shared
\* database has none of them unless it says so.
Apart ==
  /\ \A c \in store.local.decisions, e \in store.shared.decisions : c.of # e.of
  /\ \A a \in store.local.audits, b \in store.shared.audits : a.of # b.of
OneWay ==
  /\ \A d \in Dbs : ~Twice(store[d].decisions) /\ ~Twice(store[d].audits)
  /\ \A a \in store.local.audits : a.node = "us"
  /\ store.local.audits = {} => store.local.decisions = {}
  /\ (store.shared.imported /\ \E a \in store.shared.audits : a.node = "us") \/ Apart

ImportInv ==
  /\ store \in [Dbs -> Stores] /\ minted \in Nat /\ made \in Nat /\ engine \in Dbs
  /\ \A d \in Dbs : DbOK(store[d], LastId(d), MetIn(d), made)
  /\ ~broughtHome => OneWay

LEMMA ImageIsFinite ==
  ASSUME NEW S, IsFiniteSet(S), NEW f, DOMAIN f = S
  PROVE  /\ IsFiniteSet({f[x] : x \in S}) /\ Cardinality({f[x] : x \in S}) <= Cardinality(S)
<1> DEFINE T == {f[x] : x \in S}
           g == [x \in S |-> f[x]]
<1>1. g \in Surjection(S, T)
  BY DEF Surjection
<1> HIDE DEF g, T
<1>2. IsFiniteSet(T) /\ Cardinality(T) <= Cardinality(S)
  BY <1>1, FS_Surjection
<1> QED BY <1>2 DEF T

\* A finite set of numbers has a largest one: the numbers of it that are not below x get fewer.
LEMMA LargestIs ==
  ASSUME NEW S \in SUBSET Nat, IsFiniteSet(S), S # {}
  PROVE  Max(S) \in S /\ \A x \in S : x <= Max(S)
<1> DEFINE From(x) == {y \in S : x <= y}
           P == {From(x) : x \in S}
           R == StrictSubsetOrdering(S)
           F == FiniteSubsetsOf(S)
<1>1. IsWellFoundedOn(R, F)
  BY FS_StrictSubsetOrderingWellFounded
<1>2. P \subseteq F /\ P # {}
  <2>1. ASSUME NEW x \in S PROVE From(x) \in F
    BY FS_Subset DEF FiniteSubsetsOf
  <2> QED BY <2>1
<1>3. PICK p \in P : \A q \in P : ~(<< q, p >> \in R)
  <2> HIDE DEF R, F, P
  <2> QED BY <1>1, <1>2, WFMin
<1>4. PICK m \in S : p = From(m)
  OBVIOUS
<1>5. ASSUME NEW x \in S, ~(x <= m) PROVE FALSE
  <2>0. x \in Nat /\ m \in Nat /\ m < x
    BY <1>5
  <2>1. From(x) \in P /\ From(x) \subseteq From(m) /\ m \in From(m) /\ m \notin From(x)
    <3>1. \A y \in S : x <= y => m <= y
      BY <2>0
    <3>2. From(x) \subseteq From(m)
      BY <3>1
    <3>3. m <= m /\ ~(x <= m)
      BY <2>0
    <3>4. m \in From(m) /\ m \notin From(x)
      BY <3>3
    <3>5. From(x) \in P
      OBVIOUS
    <3> QED BY <3>2, <3>4, <3>5
  <2>2. << From(x), p >> \in R
    BY <1>4, <2>1 DEF StrictSubsetOrdering
  <2> QED BY <1>3, <2>1, <2>2
<1>6. \E x \in S : \A y \in S : x >= y
  BY <1>5
<1> HIDE DEF P, R, F
<1>7. Max(S) \in S /\ \A y \in S : Max(S) >= y
  <2> DEFINE mx == CHOOSE x \in S : \A y \in S : x >= y
  <2>1. mx \in S /\ \A y \in S : mx >= y
    BY <1>6
  <2>2. Max(S) = mx
    BY DEF Max
  <2> QED BY <2>1, <2>2
<1> QED BY <1>7

LEMMA IdsAre ==
  ASSUME NEW rows, IsFiniteSet(rows), \A r \in rows : r.id \in Nat
  PROVE  /\ Ids(rows) \in SUBSET Nat /\ IsFiniteSet(Ids(rows)) /\ Cardinality(rows) \in Nat
         /\ Cardinality(Ids(rows)) \in Nat /\ Cardinality(Ids(rows)) <= Cardinality(rows)
         /\ \A r \in rows : r.id \in Ids(rows)
<1> DEFINE f == [r \in rows |-> r.id]
<1>1. Ids(rows) = {f[r] : r \in rows}
  BY DEF Ids
<1>2. DOMAIN f = rows
  OBVIOUS
<1> HIDE DEF f
<1>3. IsFiniteSet(Ids(rows)) /\ Cardinality(Ids(rows)) <= Cardinality(rows)
  BY <1>1, <1>2, ImageIsFinite
<1>4. Cardinality(rows) \in Nat /\ Cardinality(Ids(rows)) \in Nat
  BY <1>3, FS_CardinalityType
<1> QED BY <1>3, <1>4 DEF Ids

\* A copy takes the ids after the last one, in the order of the old ones.
NumberedAfter(map, ids, after, n) ==
  /\ DOMAIN map = ids
  /\ \A i \in ids : map[i] \in (after + 1)..(after + n)
  /\ \A i, j \in ids : i < j => map[i] < map[j]

LEMMA NewIdsAre ==
  ASSUME NEW ids \in SUBSET Nat, IsFiniteSet(ids), NEW after \in Nat, NEW n \in Nat, Cardinality(ids) <= n
  PROVE  NumberedAfter(NewIds(ids, after), ids, after, n)
<1> DEFINE upTo(i) == {j \in ids : j <= i}
           map == NewIds(ids, after)
<1>1. DOMAIN map = ids /\ \A i \in ids : map[i] = after + Cardinality(upTo(i))
  BY DEF NewIds
<1>2. ASSUME NEW i \in ids
      PROVE  IsFiniteSet(upTo(i)) /\ Cardinality(upTo(i)) \in Nat /\ Cardinality(upTo(i)) <= n /\ Cardinality(upTo(i)) # 0
  <2>1. upTo(i) \in SUBSET ids /\ i \in upTo(i)
    OBVIOUS
  <2>2. IsFiniteSet(upTo(i)) /\ Cardinality(upTo(i)) <= Cardinality(ids)
    BY <2>1, FS_Subset
  <2>3. Cardinality(upTo(i)) \in Nat /\ Cardinality(ids) \in Nat
    BY <2>2, FS_CardinalityType
  <2>4. Cardinality(upTo(i)) # 0
    BY <2>1, <2>2, FS_EmptySet
  <2> QED BY <2>2, <2>3, <2>4
<1>3. ASSUME NEW i \in ids, NEW j \in ids, i < j PROVE Cardinality(upTo(i)) < Cardinality(upTo(j))
  <2>0. i \in Nat /\ j \in Nat
    OBVIOUS
  <2>1. upTo(i) \in SUBSET upTo(j) /\ j \in upTo(j) /\ j \notin upTo(i)
    <3>1. \A x \in ids : x <= i => x <= j
      BY <1>3, <2>0
    <3>2. upTo(i) \in SUBSET upTo(j)
      BY <3>1
    <3>3. j <= j /\ ~(j <= i)
      BY <1>3, <2>0
    <3> QED BY <3>2, <3>3
  <2>2. Cardinality(upTo(i)) <= Cardinality(upTo(j)) /\ Cardinality(upTo(i)) # Cardinality(upTo(j))
    <3>1. upTo(i) # upTo(j)
      BY <2>1
    <3> HIDE DEF upTo
    <3> QED BY <1>2, <2>1, <3>1, FS_Subset
  <2> QED BY <1>2, <2>2
<1> HIDE DEF map, upTo
<1>4. \A i \in ids : map[i] \in (after + 1)..(after + n)
  BY <1>1, <1>2
<1>5. \A i, j \in ids : i < j => map[i] < map[j]
  BY <1>1, <1>2, <1>3
<1> QED BY <1>1, <1>4, <1>5 DEF NumberedAfter, map

LEMMA InjectiveIs ==
  ASSUME NEW map, NEW ids \in SUBSET Nat, NEW after \in Nat, NEW n \in Nat, NumberedAfter(map, ids, after, n),
         NEW i \in ids, NEW j \in ids
  PROVE  /\ map[i] \in Nat /\ after < map[i] /\ map[i] <= after + n
         /\ map[i] = map[j] => i = j
         /\ i <= j <=> map[i] <= map[j]
<1>1. map[i] \in (after + 1)..(after + n) /\ map[j] \in (after + 1)..(after + n)
  BY DEF NumberedAfter
<1>2. (i < j => map[i] < map[j]) /\ (j < i => map[j] < map[i])
  BY DEF NumberedAfter
<1>3. i \in Nat /\ j \in Nat
  OBVIOUS
<1> QED BY <1>1, <1>2, <1>3

\* A row as it arrives.
MovedDecision(d, dmap) == [d EXCEPT !.id = dmap[d.id]]
MovedAudit(a, dmap, amap) ==
  [a EXCEPT !.id = amap[a.id], !.node = "us", !.decision = Remap(dmap, a.decision), !.corrects = Remap(amap, a.corrects)]

LEMMA MovedDecisionIs ==
  ASSUME NEW d \in DecisionRows, NEW dmap, dmap[d.id] \in Nat
  PROVE  LET c == MovedDecision(d, dmap) IN c \in DecisionRows /\ c.id = dmap[d.id] /\ c.sig = d.sig /\ c.of = d.of /\ c.spent = d.spent
BY DEF MovedDecision, DecisionRows

LEMMA MovedAuditIs ==
  ASSUME NEW a \in AuditRows, NEW dmap, NEW amap, amap[a.id] \in Nat, Remap(dmap, a.decision) \in Nat, Remap(amap, a.corrects) \in Nat
  PROVE  LET b == MovedAudit(a, dmap, amap) IN
         /\ b \in AuditRows /\ b.id = amap[a.id] /\ b.node = "us" /\ b.of = a.of /\ b.was = a.was
         /\ b.decision = Remap(dmap, a.decision) /\ b.corrects = Remap(amap, a.corrects)
<1> DEFINE x == Remap(dmap, a.decision)
           y == Remap(amap, a.corrects)
           z == amap[a.id]
           b == [a EXCEPT !.id = z, !.node = "us", !.decision = x, !.corrects = y]
<1>1. x \in Nat /\ y \in Nat /\ z \in Nat
  OBVIOUS
<1>2. MovedAudit(a, dmap, amap) = b
  BY DEF MovedAudit
<1> HIDE DEF x, y, z
<1>3. b \in AuditRows /\ b.id = z /\ b.node = "us" /\ b.of = a.of /\ b.was = a.was /\ b.decision = x /\ b.corrects = y
  BY <1>1 DEF AuditRows
<1> HIDE DEF b
<1> QED BY <1>2, <1>3 DEF x, y, z

\* What a copy leaves in the destination.
FloorAfter(src, dst, dmap, s) ==
  IF dst.floor[s] # NoRule \/ src.floor[s] = NoRule THEN dst.floor[s] ELSE RemapFloor(dmap, src.floor[s])
CopyIs(new, src, dst, taken, dmap, amap) ==
  /\ new.decisions = dst.decisions \cup {MovedDecision(d, dmap) : d \in src.decisions}
  /\ new.audits = dst.audits \cup {MovedAudit(a, dmap, amap) : a \in taken}
  /\ new.floor = [s \in Sigs |-> FloorAfter(src, dst, dmap, s)]
  /\ new.imported = TRUE /\ new.nextLocal = dst.nextLocal
  /\ new = [decisions |-> new.decisions, audits |-> new.audits, floor |-> new.floor, imported |-> TRUE, nextLocal |-> dst.nextLocal]

LEMMA CopiedIs ==
  ASSUME NEW src \in Stores, NEW dst \in Stores, NEW all, NEW n, NEW m
  PROVE  LET taken == {a \in src.audits : all \/ a.node = "us"} IN
         CopyIs(Copied(src, dst, all, n, m), src, dst, taken, NewIds(Ids(src.decisions), n), NewIds(Ids(taken), m))
<1> DEFINE taken == {a \in src.audits : all \/ a.node = "us"}
           dmap == NewIds(Ids(src.decisions), n)
           amap == NewIds(Ids(taken), m)
           ds == dst.decisions \cup {MovedDecision(d, dmap) : d \in src.decisions}
           as == dst.audits \cup {MovedAudit(a, dmap, amap) : a \in taken}
           fl == [s \in Sigs |-> FloorAfter(src, dst, dmap, s)]
           new == [dst EXCEPT !.decisions = ds, !.audits = as, !.floor = fl, !.imported = TRUE]
<1>1. Copied(src, dst, all, n, m) = new
  BY DEF Copied, MovedDecision, MovedAudit, FloorAfter
<1> HIDE DEF ds, as, fl, dmap, amap, taken
<1>2. new = [decisions |-> ds, audits |-> as, floor |-> fl, imported |-> TRUE, nextLocal |-> dst.nextLocal]
  <2> DEFINE News == [decisions : {ds}, audits : {as}, floor : {fl}, imported : {TRUE}, nextLocal : {dst.nextLocal}]
  <2>1. new \in News
    BY DEF Stores
  <2> HIDE DEF new
  <2> QED BY <2>1
<1> HIDE DEF new
<1>3. new.decisions = ds /\ new.audits = as /\ new.floor = fl /\ new.imported = TRUE /\ new.nextLocal = dst.nextLocal
  BY <1>2
<1>4. CopyIs(new, src, dst, taken, dmap, amap)
  BY <1>2, <1>3 DEF CopyIs, ds, as, fl
<1> QED BY <1>1, <1>4 DEF taken, dmap, amap

CopyOK(new, src, dst, taken, dmap, amap, n, nd, na) ==
  /\ n \in Nat /\ nd \in Nat /\ na \in Nat
  /\ CopyIs(new, src, dst, taken, dmap, amap) /\ taken \subseteq src.audits
  /\ NumberedAfter(dmap, Ids(src.decisions), n, nd) /\ NumberedAfter(amap, Ids(taken), n + nd, na)

LEMMA CopiedOK ==
  ASSUME NEW src, NEW dst \in Stores, NEW all, NEW m, NEW known, NEW k, DbOK(src, m, known, k), NEW n \in Nat
  PROVE  LET taken == {a \in src.audits : all \/ a.node = "us"}
             nd == Cardinality(src.decisions)
         IN  CopyOK(Copied(src, dst, all, n, n + nd), src, dst, taken, NewIds(Ids(src.decisions), n),
                    NewIds(Ids(taken), n + nd), n, nd, Cardinality(src.audits))
<1> DEFINE taken == {a \in src.audits : all \/ a.node = "us"}
           nd == Cardinality(src.decisions)
           na == Cardinality(src.audits)
           new == Copied(src, dst, all, n, n + nd)
<1>1. src \in Stores /\ IsFiniteSet(src.decisions) /\ IsFiniteSet(src.audits)
  BY DEF DbOK, NumberedTo
<1>2. \A r \in src.decisions \cup src.audits : r.id \in Nat
  BY <1>1 DEF Stores, DecisionRows, AuditRows
<1>3. /\ Ids(src.decisions) \in SUBSET Nat /\ IsFiniteSet(Ids(src.decisions)) /\ nd \in Nat
      /\ Cardinality(Ids(src.decisions)) <= nd
  BY <1>1, <1>2, IdsAre
<1>4. taken \subseteq src.audits /\ IsFiniteSet(taken) /\ Cardinality(taken) <= na
  BY <1>1, FS_Subset
<1> HIDE DEF taken
<1>5. /\ Ids(taken) \in SUBSET Nat /\ IsFiniteSet(Ids(taken)) /\ Cardinality(taken) \in Nat
      /\ Cardinality(Ids(taken)) \in Nat /\ Cardinality(Ids(taken)) <= Cardinality(taken)
  <2>1. \A r \in taken : r.id \in Nat
    BY <1>2, <1>4
  <2> QED BY <1>4, <2>1, IdsAre
<1>6. na \in Nat
  BY <1>1, FS_CardinalityType
<1>7. Cardinality(Ids(taken)) <= na
  BY <1>4, <1>5, <1>6
<1>8. CopyIs(new, src, dst, taken, NewIds(Ids(src.decisions), n), NewIds(Ids(taken), n + nd))
  BY <1>1, CopiedIs DEF taken
<1> HIDE DEF nd, na, new
<1>9. NumberedAfter(NewIds(Ids(src.decisions), n), Ids(src.decisions), n, nd)
  BY <1>3, NewIdsAre
<1>10. NumberedAfter(NewIds(Ids(taken), n + nd), Ids(taken), n + nd, na)
  <2>1. n + nd \in Nat
    BY <1>3
  <2> QED BY <1>5, <1>6, <1>7, <2>1, NewIdsAre
<1>11. CopyOK(new, src, dst, taken, NewIds(Ids(src.decisions), n), NewIds(Ids(taken), n + nd), n, nd, na)
  BY <1>3, <1>4, <1>6, <1>8, <1>9, <1>10 DEF CopyOK
<1> QED BY <1>11 DEF taken, nd, na, new

\* A row of the destination, after the copy, was there or arrived.
ArrivedDecision(c, d, dmap, n, nd) ==
  /\ c = MovedDecision(d, dmap) /\ c \in DecisionRows /\ c.id = dmap[d.id] /\ c.sig = d.sig /\ c.of = d.of
  /\ c.spent = d.spent /\ n < c.id /\ c.id <= n + nd
ArrivedAudit(b, a, dmap, amap, n, nd, na) ==
  /\ b = MovedAudit(a, dmap, amap) /\ b \in AuditRows /\ b.id = amap[a.id] /\ b.node = "us" /\ b.of = a.of /\ b.was = a.was
  /\ b.decision = Remap(dmap, a.decision) /\ b.corrects = Remap(amap, a.corrects)
  /\ n + nd < b.id /\ b.id <= n + nd + na /\ b.decision <= n + nd + na /\ b.corrects <= n + nd + na

LEMMA CopyRows ==
  ASSUME NEW new, NEW src \in Stores, NEW dst, NEW taken, NEW dmap, NEW amap, NEW n, NEW nd, NEW na,
         CopyOK(new, src, dst, taken, dmap, amap, n, nd, na)
  PROVE  /\ \A d \in src.decisions : ArrivedDecision(MovedDecision(d, dmap), d, dmap, n, nd)
         /\ \A a \in taken : ArrivedAudit(MovedAudit(a, dmap, amap), a, dmap, amap, n, nd, na)
<1>0. n \in Nat /\ nd \in Nat /\ na \in Nat /\ n + nd \in Nat /\ taken \subseteq src.audits
  BY DEF CopyOK
<1>1. Ids(src.decisions) \in SUBSET Nat /\ Ids(taken) \in SUBSET Nat
  <2>1. \A r \in src.decisions \cup src.audits : r.id \in Nat
    BY DEF Stores, DecisionRows, AuditRows
  <2> QED BY <1>0, <2>1 DEF Ids
<1>2. \A i \in Ids(src.decisions) : dmap[i] \in Nat /\ n < dmap[i] /\ dmap[i] <= n + nd
  BY <1>0, <1>1, InjectiveIs DEF CopyOK
<1>3. \A i \in Ids(taken) : amap[i] \in Nat /\ n + nd < amap[i] /\ amap[i] <= n + nd + na
  BY <1>0, <1>1, InjectiveIs DEF CopyOK
<1>4. DOMAIN dmap = Ids(src.decisions) /\ DOMAIN amap = Ids(taken)
  BY DEF CopyOK, NumberedAfter
<1>5. ASSUME NEW d \in src.decisions PROVE ArrivedDecision(MovedDecision(d, dmap), d, dmap, n, nd)
  <2>1. d \in DecisionRows /\ d.id \in Ids(src.decisions)
    BY DEF Stores, Ids
  <2>2. dmap[d.id] \in Nat /\ n < dmap[d.id] /\ dmap[d.id] <= n + nd
    BY <1>2, <2>1
  <2> QED BY <2>1, <2>2, MovedDecisionIs DEF ArrivedDecision
<1>6. ASSUME NEW a \in taken PROVE ArrivedAudit(MovedAudit(a, dmap, amap), a, dmap, amap, n, nd, na)
  <2>1. a \in AuditRows /\ a.id \in Ids(taken)
    BY <1>0 DEF Stores, Ids
  <2>2. amap[a.id] \in Nat /\ n + nd < amap[a.id] /\ amap[a.id] <= n + nd + na
    BY <1>3, <2>1
  <2>3. Remap(dmap, a.decision) \in Nat /\ Remap(dmap, a.decision) <= n + nd + na
    <3>1. CASE a.decision \in DOMAIN dmap
      <4>1. Remap(dmap, a.decision) = dmap[a.decision]
        BY <3>1 DEF Remap
      <4> QED BY <1>0, <1>2, <1>4, <3>1, <4>1
    <3>2. CASE a.decision \notin DOMAIN dmap
      <4>1. Remap(dmap, a.decision) = 0
        BY <3>2 DEF Remap
      <4> QED BY <1>0, <4>1
    <3> QED BY <3>1, <3>2
  <2>4. Remap(amap, a.corrects) \in Nat /\ Remap(amap, a.corrects) <= n + nd + na
    <3>1. CASE a.corrects \in DOMAIN amap
      <4>1. Remap(amap, a.corrects) = amap[a.corrects]
        BY <3>1 DEF Remap
      <4> QED BY <1>0, <1>3, <1>4, <3>1, <4>1
    <3>2. CASE a.corrects \notin DOMAIN amap
      <4>1. Remap(amap, a.corrects) = 0
        BY <3>2 DEF Remap
      <4> QED BY <1>0, <4>1
    <3> QED BY <3>1, <3>2
  <2> QED BY <2>1, <2>2, <2>3, <2>4, MovedAuditIs DEF ArrivedAudit
<1> QED BY <1>5, <1>6

\* Every row of the destination after a copy: an old one, or one that arrived.
CopiedRows(new, src, dst, taken, dmap, amap, n, nd, na) ==
  /\ n \in Nat /\ nd \in Nat /\ na \in Nat /\ n + nd \in Nat /\ n + nd + na \in Nat
  /\ taken \subseteq src.audits
  /\ \A c \in new.decisions : c \in dst.decisions \/ \E d \in src.decisions : ArrivedDecision(c, d, dmap, n, nd)
  /\ \A b \in new.audits : b \in dst.audits \/ \E a \in taken : ArrivedAudit(b, a, dmap, amap, n, nd, na)
  /\ \A d, e \in src.decisions : /\ dmap[d.id] = dmap[e.id] => d.id = e.id
                                 /\ d.id <= e.id <=> dmap[d.id] <= dmap[e.id]
  /\ \A a, b \in taken : amap[a.id] = amap[b.id] => a.id = b.id

LEMMA CopiedRowsAre ==
  ASSUME NEW new, NEW src \in Stores, NEW dst, NEW taken, NEW dmap, NEW amap, NEW n, NEW nd, NEW na,
         CopyOK(new, src, dst, taken, dmap, amap, n, nd, na)
  PROVE  CopiedRows(new, src, dst, taken, dmap, amap, n, nd, na)
<1>1. n \in Nat /\ nd \in Nat /\ na \in Nat /\ n + nd \in Nat /\ n + nd + na \in Nat /\ taken \subseteq src.audits
  BY DEF CopyOK
<1>2. /\ \A d \in src.decisions : ArrivedDecision(MovedDecision(d, dmap), d, dmap, n, nd)
      /\ \A a \in taken : ArrivedAudit(MovedAudit(a, dmap, amap), a, dmap, amap, n, nd, na)
  BY CopyRows
<1>3. /\ new.decisions = dst.decisions \cup {MovedDecision(d, dmap) : d \in src.decisions}
      /\ new.audits = dst.audits \cup {MovedAudit(a, dmap, amap) : a \in taken}
  BY DEF CopyOK, CopyIs
<1>4. /\ \A c \in new.decisions : c \in dst.decisions \/ \E d \in src.decisions : ArrivedDecision(c, d, dmap, n, nd)
      /\ \A b \in new.audits : b \in dst.audits \/ \E a \in taken : ArrivedAudit(b, a, dmap, amap, n, nd, na)
  BY <1>2, <1>3
<1>5. Ids(src.decisions) \in SUBSET Nat /\ Ids(taken) \in SUBSET Nat
  <2>1. \A r \in src.decisions \cup src.audits : r.id \in Nat
    BY DEF Stores, DecisionRows, AuditRows
  <2> QED BY <1>1, <2>1 DEF Ids
<1> DEFINE di == Ids(src.decisions)
           ai == Ids(taken)
<1>6. NumberedAfter(dmap, di, n, nd) /\ NumberedAfter(amap, ai, n + nd, na)
  BY DEF CopyOK
<1>7. ASSUME NEW d \in src.decisions, NEW e \in src.decisions
      PROVE  (dmap[d.id] = dmap[e.id] => d.id = e.id) /\ (d.id <= e.id <=> dmap[d.id] <= dmap[e.id])
  <2>1. d.id \in di /\ e.id \in di
    BY DEF Ids
  <2>2. di \in SUBSET Nat
    BY <1>5
  <2> HIDE DEF di
  <2>3. \A i, j \in di : (dmap[i] = dmap[j] => i = j) /\ (i <= j <=> dmap[i] <= dmap[j])
    BY <1>1, <1>6, <2>2, InjectiveIs
  <2> QED BY <2>1, <2>3
<1>8. ASSUME NEW a \in taken, NEW b \in taken, amap[a.id] = amap[b.id] PROVE a.id = b.id
  <2>1. a.id \in ai /\ b.id \in ai
    BY DEF Ids
  <2>2. ai \in SUBSET Nat
    BY <1>5
  <2> HIDE DEF ai
  <2>3. \A i, j \in ai : amap[i] = amap[j] => i = j
    BY <1>1, <1>6, <2>2, InjectiveIs
  <2> QED BY <1>8, <2>1, <2>3
<1> QED BY <1>1, <1>4, <1>7, <1>8 DEF CopiedRows

LEMMA CopyNumbered ==
  ASSUME NEW new, NEW src \in Stores, NEW dst, NEW taken, NEW dmap, NEW amap, NEW n, NEW nd, NEW na, NEW m,
         CopyOK(new, src, dst, taken, dmap, amap, n, nd, na), NumberedTo(src, m), NumberedTo(dst, n), dst \in Stores
  PROVE  NumberedTo(new, n + nd + na)
<1>0. CopiedRows(new, src, dst, taken, dmap, amap, n, nd, na)
  BY CopiedRowsAre
<1>1. n \in Nat /\ nd \in Nat /\ na \in Nat /\ n + nd \in Nat /\ n + nd + na \in Nat /\ taken \subseteq src.audits
  BY <1>0 DEF CopiedRows
<1>2. IsFiniteSet(new.decisions) /\ IsFiniteSet(new.audits)
  <2> DEFINE f == [d \in src.decisions |-> MovedDecision(d, dmap)]
             g == [a \in taken |-> MovedAudit(a, dmap, amap)]
  <2>1. IsFiniteSet(taken) /\ IsFiniteSet(src.decisions)
    BY <1>1, FS_Subset DEF NumberedTo
  <2>2. /\ new.decisions = dst.decisions \cup {f[d] : d \in src.decisions}
        /\ new.audits = dst.audits \cup {g[a] : a \in taken}
    BY DEF CopyOK, CopyIs
  <2>3. DOMAIN f = src.decisions /\ DOMAIN g = taken
    OBVIOUS
  <2> HIDE DEF f, g
  <2> DEFINE ds == {f[d] : d \in src.decisions}
             as == {g[a] : a \in taken}
  <2>4. IsFiniteSet(ds) /\ IsFiniteSet(as)
    BY <2>1, <2>3, ImageIsFinite
  <2>5. IsFiniteSet(dst.decisions) /\ IsFiniteSet(dst.audits)
    BY DEF NumberedTo
  <2> HIDE DEF ds, as
  <2>6. IsFiniteSet(dst.decisions \cup ds)
    BY <2>4, <2>5, FS_Union
  <2>7. IsFiniteSet(dst.audits \cup as)
    BY <2>4, <2>5, FS_Union
  <2> QED BY <2>2, <2>6, <2>7 DEF ds, as
<1>3. \A c \in new.decisions : c.id \in 1..(n + nd + na)
  <2> SUFFICES ASSUME NEW c \in new.decisions PROVE c.id \in 1..(n + nd + na)
    OBVIOUS
  <2>1. CASE c \in dst.decisions
    BY <1>1, <2>1 DEF NumberedTo
  <2>2. CASE \E d \in src.decisions : ArrivedDecision(c, d, dmap, n, nd)
    BY <1>1, <2>2 DEF ArrivedDecision, DecisionRows
  <2> QED BY <1>0, <2>1, <2>2 DEF CopiedRows
<1>4. \A b \in new.audits : b.id \in 1..(n + nd + na) /\ b.decision <= n + nd + na /\ b.corrects <= n + nd + na
  <2> SUFFICES ASSUME NEW b \in new.audits
               PROVE  b.id \in 1..(n + nd + na) /\ b.decision <= n + nd + na /\ b.corrects <= n + nd + na
    OBVIOUS
  <2>1. CASE b \in dst.audits
    <3>1. b.decision \in Nat /\ b.corrects \in Nat
      BY <2>1 DEF Stores, AuditRows
    <3> QED BY <1>1, <2>1, <3>1 DEF NumberedTo
  <2>2. CASE \E a \in taken : ArrivedAudit(b, a, dmap, amap, n, nd, na)
    BY <1>1, <2>2 DEF ArrivedAudit, AuditRows
  <2> QED BY <1>0, <2>1, <2>2 DEF CopiedRows
<1>5. \A c, e \in new.decisions : c.id = e.id => c = e
  <2> SUFFICES ASSUME NEW c \in new.decisions, NEW e \in new.decisions, c.id = e.id PROVE c = e
    OBVIOUS
  <2>1. ASSUME NEW r \in dst.decisions, NEW q, NEW d \in src.decisions, ArrivedDecision(q, d, dmap, n, nd) PROVE r.id # q.id
    BY <1>1, <2>1 DEF NumberedTo, ArrivedDecision
  <2>2. CASE c \in dst.decisions /\ e \in dst.decisions
    BY <2>2 DEF NumberedTo
  <2>3. ASSUME NEW d \in src.decisions, NEW f \in src.decisions, ArrivedDecision(c, d, dmap, n, nd), ArrivedDecision(e, f, dmap, n, nd)
        PROVE  c = e
    <3>1. d.id = f.id
      BY <1>0, <2>3 DEF CopiedRows, ArrivedDecision
    <3>2. d = f
      BY <3>1 DEF NumberedTo
    <3> QED BY <2>3, <3>2 DEF ArrivedDecision
  <2> QED BY <1>0, <2>1, <2>2, <2>3 DEF CopiedRows
<1>6. \A a, b \in new.audits : a.id = b.id => a = b
  <2> SUFFICES ASSUME NEW a \in new.audits, NEW b \in new.audits, a.id = b.id PROVE a = b
    OBVIOUS
  <2>1. ASSUME NEW r \in dst.audits, NEW q, NEW d \in taken, ArrivedAudit(q, d, dmap, amap, n, nd, na) PROVE r.id # q.id
    BY <1>1, <2>1 DEF NumberedTo, ArrivedAudit
  <2>2. CASE a \in dst.audits /\ b \in dst.audits
    BY <2>2 DEF NumberedTo
  <2>3. ASSUME NEW d \in taken, NEW f \in taken, ArrivedAudit(a, d, dmap, amap, n, nd, na), ArrivedAudit(b, f, dmap, amap, n, nd, na)
        PROVE  a = b
    <3>1. d.id = f.id
      BY <1>0, <2>3 DEF CopiedRows, ArrivedAudit
    <3>2. d = f
      BY <1>1, <3>1 DEF NumberedTo
    <3> QED BY <2>3, <3>2 DEF ArrivedAudit
  <2> QED BY <1>0, <2>1, <2>2, <2>3 DEF CopiedRows
<1> QED BY <1>2, <1>3, <1>4, <1>5, <1>6 DEF NumberedTo

\* A reference arrives at its own row, or at none.
LEMMA CopyRefers ==
  ASSUME NEW new, NEW src \in Stores, NEW dst, NEW taken, NEW dmap, NEW amap, NEW n, NEW nd, NEW na, NEW m,
         CopyOK(new, src, dst, taken, dmap, amap, n, nd, na), NumberedTo(src, m), NumberedTo(dst, n),
         RefersOK(src), RefersOK(dst), dst \in Stores
  PROVE  RefersOK(new)
<1>0. CopiedRows(new, src, dst, taken, dmap, amap, n, nd, na)
  BY CopiedRowsAre
<1>1. n \in Nat /\ nd \in Nat /\ na \in Nat /\ n + nd \in Nat /\ n + nd + na \in Nat /\ taken \subseteq src.audits
  BY <1>0 DEF CopiedRows
<1>2. /\ DOMAIN dmap = Ids(src.decisions) /\ DOMAIN amap = Ids(taken)
      /\ \A i \in DOMAIN dmap : dmap[i] \in (n + 1)..(n + nd)
      /\ \A i \in DOMAIN amap : amap[i] \in (n + nd + 1)..(n + nd + na)
  BY DEF CopyOK, NumberedAfter
<1>3. \A r \in dst.audits : r.decision \in Nat /\ r.corrects \in Nat /\ r.id \in Nat
  BY DEF Stores, AuditRows
<1>4. \A r \in dst.decisions : r.id \in Nat /\ r.id # 0 /\ r.id <= n
  BY <1>1 DEF NumberedTo
<1>5. ASSUME NEW a \in new.audits, NEW c \in new.decisions, c.id = a.decision PROVE c.of = a.of
  <2>1. CASE a \in dst.audits
    <3>1. a.decision <= n /\ a.decision \in Nat
      BY <1>3, <2>1 DEF NumberedTo
    <3>2. c \in dst.decisions
      BY <1>0, <1>1, <1>5, <3>1 DEF CopiedRows, ArrivedDecision
    <3> QED BY <1>5, <2>1, <3>2 DEF RefersOK
  <2>2. ASSUME NEW b \in taken, ArrivedAudit(a, b, dmap, amap, n, nd, na) PROVE c.of = a.of
    <3>1. CASE b.decision \in DOMAIN dmap
      <4>1. a.decision = dmap[b.decision] /\ a.of = b.of
        BY <2>2, <3>1 DEF ArrivedAudit, Remap
      <4>2. n < a.decision /\ a.decision \in Nat
        BY <1>1, <1>2, <3>1, <4>1
      <4>3. c \notin dst.decisions
        BY <1>1, <1>4, <1>5, <4>2
      <4>4. PICK d \in src.decisions : ArrivedDecision(c, d, dmap, n, nd)
        BY <1>0, <4>3 DEF CopiedRows
      <4>5. PICK e \in src.decisions : e.id = b.decision
        BY <1>2, <3>1 DEF Ids
      <4>6. dmap[d.id] = dmap[e.id]
        BY <1>5, <4>1, <4>4, <4>5 DEF ArrivedDecision
      <4>7. d.id = b.decision
        BY <1>0, <4>5, <4>6 DEF CopiedRows
      <4>8. d.of = b.of
        BY <1>1, <4>7 DEF RefersOK
      <4> QED BY <4>1, <4>4, <4>8 DEF ArrivedDecision
    <3>2. CASE b.decision \notin DOMAIN dmap
      <4>1. a.decision = 0
        BY <2>2, <3>2 DEF ArrivedAudit, Remap
      <4>2. c.id # 0
        BY <1>0, <1>1, <1>4 DEF CopiedRows, ArrivedDecision, DecisionRows
      <4> QED BY <1>5, <4>1, <4>2
    <3> QED BY <3>1, <3>2
  <2> QED BY <1>0, <2>1, <2>2 DEF CopiedRows
<1>6. ASSUME NEW a \in new.audits, NEW c \in new.audits, c.id = a.corrects PROVE c.of = a.was
  <2>0. \A r \in dst.audits : r.id \in Nat /\ r.id # 0 /\ r.id <= n
    BY <1>1 DEF NumberedTo
  <2>1. CASE a \in dst.audits
    <3>1. a.corrects <= n /\ a.corrects \in Nat
      BY <1>3, <2>1 DEF NumberedTo
    <3>2. c \in dst.audits
      <4> SUFFICES ASSUME NEW d \in taken, ArrivedAudit(c, d, dmap, amap, n, nd, na) PROVE FALSE
        BY <1>0 DEF CopiedRows
      <4>1. n + nd < c.id /\ c.id \in Nat
        BY DEF ArrivedAudit, AuditRows
      <4> QED BY <1>1, <1>6, <3>1, <4>1
    <3> QED BY <1>6, <2>1, <3>2 DEF RefersOK
  <2>2. ASSUME NEW b \in taken, ArrivedAudit(a, b, dmap, amap, n, nd, na) PROVE c.of = a.was
    <3>1. CASE b.corrects \in DOMAIN amap
      <4>1. a.corrects = amap[b.corrects] /\ a.was = b.was
        BY <2>2, <3>1 DEF ArrivedAudit, Remap
      <4>2. n < a.corrects /\ a.corrects \in Nat
        BY <1>1, <1>2, <3>1, <4>1
      <4>3. c \notin dst.audits
        BY <1>1, <1>6, <2>0, <4>2
      <4>4. PICK d \in taken : ArrivedAudit(c, d, dmap, amap, n, nd, na)
        BY <1>0, <4>3 DEF CopiedRows
      <4>5. PICK e \in taken : e.id = b.corrects
        BY <1>2, <3>1 DEF Ids
      <4>6. amap[d.id] = amap[e.id]
        BY <1>6, <4>1, <4>4, <4>5 DEF ArrivedAudit
      <4>7. d.id = b.corrects
        BY <1>0, <4>5, <4>6 DEF CopiedRows
      <4>8. d.of = b.was
        BY <1>1, <4>7 DEF RefersOK
      <4> QED BY <4>1, <4>4, <4>8 DEF ArrivedAudit
    <3>2. CASE b.corrects \notin DOMAIN amap
      <4>1. a.corrects = 0
        BY <2>2, <3>2 DEF ArrivedAudit, Remap
      <4>2. c.id # 0
        <5>1. CASE c \in dst.audits
          BY <2>0, <5>1
        <5>2. ASSUME NEW d \in taken, ArrivedAudit(c, d, dmap, amap, n, nd, na) PROVE c.id # 0
          BY <1>1, <5>2 DEF ArrivedAudit, AuditRows
        <5> QED BY <1>0, <5>1, <5>2 DEF CopiedRows
      <4> QED BY <1>6, <4>1, <4>2
    <3> QED BY <3>1, <3>2
  <2> QED BY <1>0, <2>1, <2>2 DEF CopiedRows
<1> QED BY <1>5, <1>6 DEF RefersOK

\* The floor goes to the last decision below it that is left, or below them all.
LEMMA RemapFloorIs ==
  ASSUME NEW new, NEW src \in Stores, NEW dst, NEW taken, NEW dmap, NEW amap, NEW n, NEW nd, NEW na, NEW m,
         CopyOK(new, src, dst, taken, dmap, amap, n, nd, na), NumberedTo(src, m), NEW fl \in Nat
  PROVE  /\ RemapFloor(dmap, fl) \in Nat /\ RemapFloor(dmap, fl) <= n + nd
         /\ \A d \in src.decisions : d.id <= fl <=> dmap[d.id] <= RemapFloor(dmap, fl)
<1> DEFINE di == Ids(src.decisions)
           below == {i \in di : i <= fl}
<1>1. n \in Nat /\ nd \in Nat /\ n + nd \in Nat /\ NumberedAfter(dmap, di, n, nd)
  BY DEF CopyOK
<1>2. di \in SUBSET Nat /\ IsFiniteSet(di) /\ \A d \in src.decisions : d.id \in di
  <2>1. \A r \in src.decisions : r.id \in Nat
    BY DEF Stores, DecisionRows
  <2>2. IsFiniteSet(src.decisions)
    BY DEF NumberedTo
  <2> QED BY <2>1, <2>2, IdsAre
<1>3. DOMAIN dmap = di
  BY <1>1 DEF NumberedAfter
<1> HIDE DEF di
<1>4. /\ \A i \in di : dmap[i] \in Nat /\ n < dmap[i] /\ dmap[i] <= n + nd
      /\ \A i, j \in di : i <= j <=> dmap[i] <= dmap[j]
  BY <1>1, <1>2, InjectiveIs
<1>5. below \in SUBSET Nat /\ IsFiniteSet(below) /\ below \subseteq di
  BY <1>2, FS_Subset
<1>6. RemapFloor(dmap, fl) = IF below = {} THEN 0 ELSE dmap[Max(below)]
  BY <1>3 DEF RemapFloor
<1>7. CASE below = {}
  <2>1. RemapFloor(dmap, fl) = 0
    BY <1>6, <1>7
  <2>2. ASSUME NEW d \in src.decisions PROVE d.id <= fl <=> dmap[d.id] <= RemapFloor(dmap, fl)
    <3>1. d.id \in di
      BY <1>2
    <3>2. ~(d.id <= fl)
      BY <1>7, <3>1
    <3>3. n < dmap[d.id] /\ dmap[d.id] \in Nat
      BY <1>4, <3>1
    <3>4. ~(dmap[d.id] <= 0)
      BY <1>1, <3>3
    <3> QED BY <2>1, <3>2, <3>4
  <2>3. 0 \in Nat /\ 0 <= n + nd
    BY <1>1
  <2> QED BY <2>1, <2>2, <2>3
<1>8. CASE below # {}
  <2> DEFINE mx == Max(below)
  <2>1. mx \in below /\ \A i \in below : i <= mx
    BY <1>5, <1>8, LargestIs
  <2>2. mx \in di /\ mx <= fl /\ mx \in Nat
    BY <1>5, <2>1
  <2> HIDE DEF mx
  <2>3. ASSUME NEW i \in di PROVE i <= fl <=> dmap[i] <= dmap[mx]
    <3>1. i \in Nat
      BY <1>2
    <3>2. i <= fl <=> i <= mx
      BY <2>1, <2>2, <3>1
    <3> QED BY <1>4, <2>2, <3>2
  <2>4. RemapFloor(dmap, fl) = dmap[mx]
    BY <1>6, <1>8 DEF mx
  <2>5. dmap[mx] \in Nat /\ dmap[mx] <= n + nd
    BY <1>4, <2>2
  <2>6. ASSUME NEW d \in src.decisions PROVE d.id <= fl <=> dmap[d.id] <= RemapFloor(dmap, fl)
    BY <1>2, <2>3, <2>4
  <2> QED BY <2>4, <2>5, <2>6
<1> QED BY <1>7, <1>8

LEMMA CopyFloors ==
  ASSUME NEW new, NEW src \in Stores, NEW dst \in Stores, NEW taken, NEW dmap, NEW amap, NEW n, NEW nd, NEW na, NEW m, NEW k,
         NEW ks, NEW kd, NEW known,
         CopyOK(new, src, dst, taken, dmap, amap, n, nd, na), NumberedTo(src, m), NumberedTo(dst, n),
         FloorsOK(src, m, ks), FloorsOK(dst, n, kd), ks \subseteq known, kd \subseteq known,
         \A s \in Sigs : src.floor[s] # NoRule /\ dst.floor[s] # NoRule => s \in known
  PROVE  FloorsOK(new, n + nd + na, known) /\ \A s \in Sigs : new.floor[s] \in Nat \cup {NoRule}
<1>0. CopiedRows(new, src, dst, taken, dmap, amap, n, nd, na)
  BY CopiedRowsAre
<1>1. n \in Nat /\ nd \in Nat /\ na \in Nat
  BY <1>0 DEF CopiedRows
<1>2. /\ \A s \in Sigs : dst.floor[s] \in Nat \cup {NoRule} /\ src.floor[s] \in Nat \cup {NoRule} /\ dst.floor[s] <= n
      /\ \A s \in Sigs : new.floor[s] = FloorAfter(src, dst, dmap, s)
  BY DEF Stores, FloorsOK, CopyOK, CopyIs
<1>3. ASSUME NEW s \in Sigs
      PROVE  /\ new.floor[s] \in Nat \cup {NoRule} /\ new.floor[s] <= n + nd + na
             /\ dst.floor[s] # NoRule => new.floor[s] = dst.floor[s]
             /\ dst.floor[s] = NoRule /\ src.floor[s] # NoRule =>
                  /\ new.floor[s] # NoRule
                  /\ \A d \in src.decisions : d.id <= src.floor[s] <=> dmap[d.id] <= new.floor[s]
  <2>1. CASE dst.floor[s] # NoRule \/ src.floor[s] = NoRule
    <3>1. new.floor[s] = dst.floor[s]
      BY <1>2, <2>1 DEF FloorAfter
    <3>2. dst.floor[s] \in Int /\ dst.floor[s] <= n
      BY <1>2 DEF NoRule
    <3>3. dst.floor[s] <= n + nd + na
      BY <1>1, <3>2
    <3> QED BY <1>2, <2>1, <3>1, <3>3
  <2>2. CASE ~(dst.floor[s] # NoRule \/ src.floor[s] = NoRule)
    <3>1. src.floor[s] \in Nat /\ new.floor[s] = RemapFloor(dmap, src.floor[s])
      BY <1>2, <2>2 DEF FloorAfter
    <3>2. /\ RemapFloor(dmap, src.floor[s]) \in Nat /\ RemapFloor(dmap, src.floor[s]) <= n + nd
          /\ \A d \in src.decisions : d.id <= src.floor[s] <=> dmap[d.id] <= RemapFloor(dmap, src.floor[s])
      BY <3>1, RemapFloorIs
    <3> QED BY <1>1, <2>2, <3>1, <3>2 DEF NoRule
  <2> QED BY <2>1, <2>2
<1>4. ASSUME NEW c \in new.decisions
      PROVE  /\ new.floor[c.sig] # NoRule
             /\ c.sig \notin known => (c.spent <=> c.id <= new.floor[c.sig])
  <2>1. CASE c \in dst.decisions
    <3>1. c.sig \in Sigs /\ dst.floor[c.sig] # NoRule /\ (c.sig \notin kd => (c.spent <=> c.id <= dst.floor[c.sig]))
      BY <2>1 DEF Stores, DecisionRows, FloorsOK
    <3> QED BY <1>3, <3>1
  <2>2. ASSUME NEW d \in src.decisions, ArrivedDecision(c, d, dmap, n, nd)
        PROVE  /\ new.floor[c.sig] # NoRule
               /\ c.sig \notin known => (c.spent <=> c.id <= new.floor[c.sig])
    <3>1. /\ c.sig = d.sig /\ d.sig \in Sigs /\ c.spent = d.spent /\ c.id = dmap[d.id] /\ src.floor[d.sig] # NoRule
          /\ d.sig \notin ks => (d.spent <=> d.id <= src.floor[d.sig])
      BY <2>2 DEF ArrivedDecision, Stores, DecisionRows, FloorsOK
    <3>2. CASE dst.floor[d.sig] # NoRule
      BY <1>3, <3>1, <3>2
    <3>3. CASE dst.floor[d.sig] = NoRule
      <4>1. new.floor[d.sig] # NoRule /\ (d.id <= src.floor[d.sig] <=> dmap[d.id] <= new.floor[d.sig])
        BY <1>3, <3>1, <3>3
      <4> QED BY <3>1, <4>1
    <3> QED BY <3>2, <3>3
  <2> QED BY <1>0, <2>1, <2>2 DEF CopiedRows
<1> QED BY <1>3, <1>4 DEF FloorsOK

LEMMA CopyKeeps ==
  ASSUME NEW new, NEW src, NEW dst, NEW taken, NEW dmap, NEW amap, NEW n, NEW nd, NEW na, NEW m, NEW k,
         NEW ks, NEW kd, NEW known, NEW nl \in Nat \ {0},
         CopyOK(new, src, dst, taken, dmap, amap, n, nd, na), DbOK(src, m, ks, k), DbOK(dst, n, kd, k),
         ks \subseteq known, kd \subseteq known,
         \A s \in Sigs : src.floor[s] # NoRule /\ dst.floor[s] # NoRule => s \in known
  PROVE  DbOK([new EXCEPT !.nextLocal = nl], n + nd + na, known, k)
<1>0. src \in Stores /\ dst \in Stores
  BY DEF DbOK
<1>1. CopiedRows(new, src, dst, taken, dmap, amap, n, nd, na)
  BY <1>0, CopiedRowsAre
<1>2. FloorsOK(new, n + nd + na, known) /\ \A s \in Sigs : new.floor[s] \in Nat \cup {NoRule}
  BY <1>0, CopyFloors DEF DbOK
<1>3. NumberedTo(new, n + nd + na) /\ RefersOK(new)
  BY <1>0, CopyNumbered, CopyRefers DEF DbOK
<1>4. \A r \in new.decisions \cup new.audits : r.of <= k
  BY <1>1 DEF CopiedRows, ArrivedDecision, ArrivedAudit, DbOK
<1>5. new.decisions \in SUBSET DecisionRows /\ new.audits \in SUBSET AuditRows
  BY <1>0, <1>1 DEF CopiedRows, ArrivedDecision, ArrivedAudit, Stores
<1>6. new.floor \in [Sigs -> Nat \cup {NoRule}]
  <2>1. new.floor = [s \in Sigs |-> FloorAfter(src, dst, dmap, s)]
    BY DEF CopyOK, CopyIs
  <2> QED BY <1>2, <2>1
<1>7. new = [decisions |-> new.decisions, audits |-> new.audits, floor |-> new.floor, imported |-> TRUE, nextLocal |-> dst.nextLocal]
  BY DEF CopyOK, CopyIs
<1>8. new \in Stores
  <2>1. dst.nextLocal \in Nat \ {0}
    BY <1>0 DEF Stores
  <2> DEFINE ds == new.decisions
             as == new.audits
             fl == new.floor
             l == dst.nextLocal
  <2>2. new = [decisions |-> ds, audits |-> as, floor |-> fl, imported |-> TRUE, nextLocal |-> l]
    BY <1>7
  <2>3. ds \in SUBSET DecisionRows /\ as \in SUBSET AuditRows /\ fl \in [Sigs -> Nat \cup {NoRule}] /\ l \in Nat \ {0}
    BY <1>5, <1>6, <2>1
  <2> HIDE DEF ds, as, fl, l
  <2>4. [decisions |-> ds, audits |-> as, floor |-> fl, imported |-> TRUE, nextLocal |-> l] \in Stores
    BY <2>3 DEF Stores
  <2> QED BY <2>2, <2>4
<1> DEFINE db == [new EXCEPT !.nextLocal = nl]
<1>9. db \in Stores /\ db.decisions = new.decisions /\ db.audits = new.audits /\ db.floor = new.floor
  BY <1>8 DEF Stores
<1> HIDE DEF db
<1>10. DbOK(db, n + nd + na, known, k)
  BY <1>2, <1>3, <1>4, <1>9 DEF DbOK, NumberedTo, RefersOK, FloorsOK
<1> QED BY <1>10 DEF db

\* No origin arrives that is there already, and none arrives twice.
LEMMA CopyOnce ==
  ASSUME NEW new, NEW src \in Stores, NEW dst \in Stores, NEW taken, NEW dmap, NEW amap, NEW n, NEW nd, NEW na,
         CopyOK(new, src, dst, taken, dmap, amap, n, nd, na),
         ~Twice(src.decisions), ~Twice(src.audits), ~Twice(dst.decisions), ~Twice(dst.audits),
         \A c \in src.decisions, e \in dst.decisions : c.of # e.of,
         \A a \in src.audits, b \in dst.audits : a.of # b.of
  PROVE  ~Twice(new.decisions) /\ ~Twice(new.audits)
<1>0. CopiedRows(new, src, dst, taken, dmap, amap, n, nd, na)
  BY CopiedRowsAre
<1>1. ASSUME NEW c \in new.decisions, NEW e \in new.decisions, c.of = e.of PROVE c = e
  <2>1. CASE c \in dst.decisions /\ e \in dst.decisions
    BY <1>1, <2>1 DEF Twice
  <2>2. ASSUME NEW r \in dst.decisions, NEW q, NEW d \in src.decisions, ArrivedDecision(q, d, dmap, n, nd) PROVE r.of # q.of
    BY <2>2 DEF ArrivedDecision
  <2>3. ASSUME NEW d \in src.decisions, NEW f \in src.decisions, ArrivedDecision(c, d, dmap, n, nd), ArrivedDecision(e, f, dmap, n, nd)
        PROVE  c = e
    <3>1. d = f
      BY <1>1, <2>3 DEF ArrivedDecision, Twice
    <3> QED BY <2>3, <3>1 DEF ArrivedDecision
  <2> QED BY <1>0, <1>1, <2>1, <2>2, <2>3 DEF CopiedRows
<1>2. ASSUME NEW a \in new.audits, NEW b \in new.audits, a.of = b.of PROVE a = b
  <2>1. CASE a \in dst.audits /\ b \in dst.audits
    BY <1>2, <2>1 DEF Twice
  <2>0. taken \subseteq src.audits
    BY <1>0 DEF CopiedRows
  <2>2. ASSUME NEW r \in dst.audits, NEW q, NEW d \in taken, ArrivedAudit(q, d, dmap, amap, n, nd, na) PROVE r.of # q.of
    BY <2>0, <2>2 DEF ArrivedAudit
  <2>3. ASSUME NEW d \in taken, NEW f \in taken, ArrivedAudit(a, d, dmap, amap, n, nd, na), ArrivedAudit(b, f, dmap, amap, n, nd, na)
        PROVE  a = b
    <3>1. d = f
      BY <1>2, <2>0, <2>3 DEF ArrivedAudit, Twice
    <3> QED BY <2>3, <3>1 DEF ArrivedAudit
  <2> QED BY <1>0, <1>2, <2>1, <2>2, <2>3 DEF CopiedRows
<1> QED BY <1>1, <1>2 DEF Twice

\* The step of a copy.
IsCopy(src, dst, all, new, taken, dmap, amap, nd, na, nl) ==
  /\ CopyOK(new, store[src], store[dst], taken, dmap, amap, LastId(dst), nd, na)
  /\ taken = {a \in store[src].audits : all \/ a.node = "us"}
  /\ store' = [store EXCEPT ![dst] = [new EXCEPT !.nextLocal = nl]]
  /\ nl \in Nat \ {0}
  /\ nl = IF dst = "local" THEN store.local.nextLocal + (nd + na) ELSE store.shared.nextLocal
  /\ minted' = IF dst = "shared" THEN minted + (nd + na) ELSE minted
  /\ met' = met \cup ({dst} \X (Already(src, dst) \cup MetIn(src)))

LEMMA CopyIntoIs ==
  ASSUME ImportInv, NEW dst \in Dbs, NEW src \in Dbs, src # dst, NEW all, CopyInto(dst, all)
  PROVE  \E new, taken, dmap, amap, nd, na, nl : IsCopy(src, dst, all, new, taken, dmap, amap, nd, na, nl)
<1> DEFINE S == store[src]
           D == store[dst]
           n == LastId(dst)
           nd == Cardinality(S.decisions)
           na == Cardinality(S.audits)
           taken == {a \in S.audits : all \/ a.node = "us"}
           dmap == NewIds(Ids(S.decisions), n)
           amap == NewIds(Ids(taken), n + nd)
           new == Copied(S, D, all, n, n + nd)
           nl == IF dst = "local" THEN store.local.nextLocal + (nd + na) ELSE store.shared.nextLocal
<1>1. src = IF dst = "local" THEN "shared" ELSE "local"
  BY DEF Dbs
<1>2. /\ S \in Stores /\ D \in Stores /\ DbOK(S, LastId(src), MetIn(src), made) /\ minted \in Nat
      /\ store.local \in Stores /\ store.shared \in Stores
  BY DEF ImportInv, Dbs
<1>3. n \in Nat /\ store.local.nextLocal \in Nat \ {0} /\ store.shared.nextLocal \in Nat \ {0}
  <2>1. store.local.nextLocal \in Nat \ {0} /\ store.shared.nextLocal \in Nat \ {0}
    BY <1>2 DEF Stores
  <2> QED BY <1>2, <2>1 DEF LastId
<1>4. CopyOK(new, S, D, taken, dmap, amap, n, nd, na)
  BY <1>2, <1>3, CopiedOK
<1>5. nd \in Nat /\ na \in Nat
  BY <1>4 DEF CopyOK
<1>6. new.nextLocal = D.nextLocal
  BY <1>4 DEF CopyOK, CopyIs
<1>7. /\ store' = [store EXCEPT ![dst] = [new EXCEPT !.nextLocal = IF dst = "local" THEN D.nextLocal + (nd + na) ELSE D.nextLocal]]
      /\ minted' = IF dst = "shared" THEN minted + (nd + na) ELSE minted
      /\ met' = met \cup ({dst} \X (Already(src, dst) \cup MetIn(src)))
  <2>1. n = IF dst = "local" THEN store.local.nextLocal - 1 ELSE minted
    BY DEF LastId
  <2>2. /\ store' = [store EXCEPT ![dst] = [new EXCEPT !.nextLocal = IF dst = "local" THEN new.nextLocal + (nd + na) ELSE new.nextLocal]]
        /\ minted' = IF dst = "shared" THEN minted + (nd + na) ELSE minted
    BY <1>1, <2>1 DEF CopyInto, Minted
  <2>3. met' = met \cup ({dst} \X (Already(src, dst) \cup MetIn(src)))
    BY <1>1 DEF CopyInto, MetIn
  <2> QED BY <1>6, <2>2, <2>3
<1> HIDE DEF new, nd, na, dmap, amap, n
<1>8. nl \in Nat \ {0}
  BY <1>3, <1>5
<1>9. store' = [store EXCEPT ![dst] = [new EXCEPT !.nextLocal = nl]]
  BY <1>7 DEF Dbs
<1>10. nl = IF dst = "local" THEN store.local.nextLocal + (nd + na) ELSE store.shared.nextLocal
  OBVIOUS
<1> HIDE DEF nl
<1>11. IsCopy(src, dst, all, new, taken, dmap, amap, nd, na, nl)
  BY <1>4, <1>7, <1>8, <1>9, <1>10 DEF IsCopy, n
<1> HIDE DEF taken
<1> QED BY <1>11

LEMMA CopyStep ==
  ASSUME ImportInv, NEW dst \in Dbs, NEW src \in Dbs, src # dst, NEW all, CopyInto(dst, all), UNCHANGED made
  PROVE  /\ store' \in [Dbs -> Stores] /\ minted' \in Nat
         /\ \A d \in Dbs : DbOK(store'[d], LastId(d)', MetIn(d)', made')
<1>0. PICK new, taken, dmap, amap, nd, na, nl : IsCopy(src, dst, all, new, taken, dmap, amap, nd, na, nl)
  BY CopyIntoIs
<1>1. /\ nl \in Nat \ {0}
      /\ CopyOK(new, store[src], store[dst], taken, dmap, amap, LastId(dst), nd, na)
      /\ taken = {a \in store[src].audits : all \/ a.node = "us"}
      /\ store' = [store EXCEPT ![dst] = [new EXCEPT !.nextLocal = nl]]
      /\ nl = IF dst = "local" THEN store.local.nextLocal + (nd + na) ELSE store.shared.nextLocal
      /\ minted' = IF dst = "shared" THEN minted + (nd + na) ELSE minted
      /\ met' = met \cup ({dst} \X (Already(src, dst) \cup MetIn(src)))
  BY <1>0 DEF IsCopy
<1>2. /\ store \in [Dbs -> Stores] /\ minted \in Nat /\ made \in Nat
      /\ DbOK(store[src], LastId(src), MetIn(src), made) /\ DbOK(store[dst], LastId(dst), MetIn(dst), made)
  BY DEF ImportInv
<1>3. nd \in Nat /\ na \in Nat /\ LastId(dst) \in Nat
  BY <1>1 DEF CopyOK
<1> DEFINE known == MetIn(dst)'
           db == [new EXCEPT !.nextLocal = nl]
<1>4. /\ known = MetIn(dst) \cup Already(src, dst) \cup MetIn(src)
      /\ MetIn(src)' = MetIn(src)
  <2>1. Already(src, dst) \subseteq Sigs /\ MetIn(src) \subseteq Sigs
    BY DEF Already, MetIn
  <2>2. \A s : << dst, s >> \in met' <=> << dst, s >> \in met \/ s \in Already(src, dst) \cup MetIn(src)
    BY <1>1
  <2>3. \A s : << src, s >> \in met' <=> << src, s >> \in met
    BY <1>1
  <2> QED BY <2>1, <2>2, <2>3 DEF MetIn
<1>5. DbOK(db, LastId(dst) + nd + na, known, made)
  <2>1. MetIn(src) \subseteq known /\ MetIn(dst) \subseteq known
    BY <1>4
  <2>2. \A s \in Sigs : store[src].floor[s] # NoRule /\ store[dst].floor[s] # NoRule => s \in known
    BY <1>4 DEF Already
  <2> HIDE DEF known
  <2> QED BY <1>1, <1>2, <2>1, <2>2, CopyKeeps
<1>6. store'[dst] = db /\ store'[src] = store[src]
  BY <1>1, <1>2
<1>7. store' \in [Dbs -> Stores]
  <2>1. db \in Stores
    BY <1>5 DEF DbOK
  <2> HIDE DEF db
  <2> QED BY <1>1, <1>2, <2>1 DEF db
<1>8. minted' \in Nat
  BY <1>1, <1>2, <1>3
<1>9. LastId(dst)' = LastId(dst) + nd + na /\ LastId(src)' = LastId(src)
  <2>1. CASE dst = "local"
    <3>1. src = "shared" /\ store.local.nextLocal \in Nat
      BY <1>2, <2>1 DEF Dbs, Stores
    <3>2. store'.local.nextLocal = store.local.nextLocal + (nd + na)
      <4>1. new.nextLocal = store.local.nextLocal /\ new \in [decisions : {new.decisions}, audits : {new.audits}, floor : {new.floor}, imported : {TRUE}, nextLocal : {store.local.nextLocal}]
        BY <1>1, <2>1 DEF CopyOK, CopyIs
      <4>2. db.nextLocal = nl
        BY <4>1
      <4> QED BY <1>1, <1>6, <2>1, <4>2
    <3> QED BY <1>1, <1>3, <2>1, <3>1, <3>2 DEF LastId
  <2>2. CASE dst = "shared"
    <3>1. src = "local"
      BY <2>2 DEF Dbs
    <3>2. store'.local = store.local
      BY <1>6, <3>1
    <3> QED BY <1>1, <1>2, <1>3, <2>2, <3>1, <3>2 DEF LastId
  <2> QED BY <2>1, <2>2 DEF Dbs
<1>10. ASSUME NEW d \in Dbs PROVE DbOK(store'[d], LastId(d)', MetIn(d)', made')
  <2>1. CASE d = dst
    BY <1>5, <1>6, <1>9, <2>1
  <2>2. CASE d = src
    BY <1>2, <1>4, <1>6, <1>9, <2>2
  <2> QED BY <2>1, <2>2 DEF Dbs
<1> QED BY <1>7, <1>8, <1>10

\* A copy into the shared database, of a file it has none of.
LEMMA CopyOneWay ==
  ASSUME ImportInv, OneWay, Apart, NEW all, CopyInto("shared", all)
  PROVE  OneWay'
<1>0. "shared" \in Dbs /\ "local" \in Dbs /\ "local" # "shared"
  BY DEF Dbs
<1>1. PICK new, taken, dmap, amap, nd, na, nl : IsCopy("local", "shared", all, new, taken, dmap, amap, nd, na, nl)
  BY <1>0, CopyIntoIs
<1> DEFINE L == store.local
           S == store.shared
           db == [new EXCEPT !.nextLocal = nl]
<1>2. /\ CopyOK(new, L, S, taken, dmap, amap, LastId("shared"), nd, na)
      /\ taken = {a \in L.audits : all \/ a.node = "us"}
      /\ store' = [store EXCEPT !["shared"] = db]
  BY <1>1 DEF IsCopy
<1>3. store \in [Dbs -> Stores] /\ L \in Stores /\ S \in Stores
  BY <1>0 DEF ImportInv
<1>4. store'.local = L /\ store'.shared = db
  BY <1>0, <1>2, <1>3
<1>5. db.decisions = new.decisions /\ db.audits = new.audits /\ db.imported = TRUE
  <2>1. new \in [decisions : {new.decisions}, audits : {new.audits}, floor : {new.floor}, imported : {TRUE}, nextLocal : {S.nextLocal}]
    BY <1>2 DEF CopyOK, CopyIs
  <2> QED BY <2>1
<1>6. ~Twice(new.decisions) /\ ~Twice(new.audits)
  <2>1. ~Twice(L.decisions) /\ ~Twice(L.audits) /\ ~Twice(S.decisions) /\ ~Twice(S.audits)
    BY <1>0 DEF OneWay
  <2> QED BY <1>2, <1>3, <2>1, CopyOnce DEF Apart
<1> HIDE DEF db
<1>7. \A d \in Dbs : ~Twice(store'[d].decisions) /\ ~Twice(store'[d].audits)
  BY <1>0, <1>4, <1>5, <1>6 DEF Dbs, OneWay
<1>8. /\ \A a \in store'.local.audits : a.node = "us"
      /\ store'.local.audits = {} => store'.local.decisions = {}
  BY <1>4 DEF OneWay
<1>9. (store'.shared.imported /\ \E a \in store'.shared.audits : a.node = "us") \/ Apart'
  <2>1. CASE L.audits = {}
    <3>1. L.decisions = {}
      BY <2>1 DEF OneWay
    <3> QED BY <1>4, <2>1, <3>1 DEF Apart
  <2>2. ASSUME NEW a \in L.audits PROVE \E b \in store'.shared.audits : b.node = "us"
    <3>1. a \in taken
      BY <1>2, <2>2 DEF OneWay
    <3>0. \A b \in taken : ArrivedAudit(MovedAudit(b, dmap, amap), b, dmap, amap, LastId("shared"), nd, na)
      BY <1>2, <1>3, CopyRows
    <3>2. MovedAudit(a, dmap, amap).node = "us"
      BY <3>0, <3>1 DEF ArrivedAudit
    <3>3. MovedAudit(a, dmap, amap) \in new.audits
      BY <1>2, <3>1 DEF CopyOK, CopyIs
    <3> QED BY <1>4, <1>5, <3>2, <3>3
  <2> QED BY <1>4, <1>5, <2>1, <2>2
<1> QED BY <1>7, <1>8, <1>9 DEF OneWay

\* A decision is recorded: one row in each table, under the ids after the last.
Recorded(D, n, k, sig, node, cid, cof, nl) ==
  [decisions |-> D.decisions \cup {[id |-> n + 1, sig |-> sig, of |-> k + 1, spent |-> FALSE]},
   audits |-> D.audits \cup {[id |-> n + 2, node |-> node, of |-> k + 1, decision |-> n + 1, corrects |-> cid, was |-> cof]},
   floor |-> [D.floor EXCEPT ![sig] = IF D.floor[sig] = NoRule THEN 0 ELSE D.floor[sig]],
   imported |-> D.imported, nextLocal |-> nl]

LEMMA RecordKeeps ==
  ASSUME NEW D, NEW n \in Nat, NEW known, NEW k \in Nat, DbOK(D, n, known, k),
         NEW sig \in Sigs, NEW node \in {"us", "them"}, NEW nl \in Nat \ {0}, NEW cid, NEW cof,
         (cid = 0 /\ cof = 0) \/ \E b \in D.audits : cid = b.id /\ cof = b.of
  PROVE  DbOK(Recorded(D, n, k, sig, node, cid, cof, nl), n + 2, known, k + 1)
<1> DEFINE row == [id |-> n + 1, sig |-> sig, of |-> k + 1, spent |-> FALSE]
           arow == [id |-> n + 2, node |-> node, of |-> k + 1, decision |-> n + 1, corrects |-> cid, was |-> cof]
           ds == D.decisions \cup {row}
           as == D.audits \cup {arow}
           fl == [D.floor EXCEPT ![sig] = IF D.floor[sig] = NoRule THEN 0 ELSE D.floor[sig]]
           new == [decisions |-> ds, audits |-> as, floor |-> fl, imported |-> D.imported, nextLocal |-> nl]
<1>0. Recorded(D, n, k, sig, node, cid, cof, nl) = new
  BY DEF Recorded
<1>1. D \in Stores /\ NumberedTo(D, n) /\ RefersOK(D) /\ FloorsOK(D, n, known)
  BY DEF DbOK
<1>2. /\ \A c \in D.decisions : c \in DecisionRows /\ c.id \in Nat /\ c.of \in Nat /\ c.sig \in Sigs /\ c.id # 0 /\ c.id <= n /\ c.of <= k
      /\ \A a \in D.audits : a \in AuditRows /\ a.id \in Nat /\ a.of \in Nat /\ a.id # 0 /\ a.id <= n /\ a.of <= k
      /\ \A a \in D.audits : a.decision \in Nat /\ a.corrects \in Nat /\ a.decision <= n /\ a.corrects <= n
  <2>1. \A c \in D.decisions : c \in DecisionRows /\ c.id \in Nat /\ c.of \in Nat /\ c.sig \in Sigs
    BY <1>1 DEF Stores, DecisionRows
  <2>2. \A a \in D.audits : a \in AuditRows /\ a.id \in Nat /\ a.of \in Nat /\ a.decision \in Nat /\ a.corrects \in Nat
    BY <1>1 DEF Stores, AuditRows
  <2>3. \A c \in D.decisions : c.id # 0 /\ c.id <= n /\ c.of <= k
    BY <1>1 DEF NumberedTo, DbOK
  <2>4. \A a \in D.audits : a.id # 0 /\ a.id <= n /\ a.of <= k /\ a.decision <= n /\ a.corrects <= n
    BY <1>1 DEF NumberedTo, DbOK
  <2> QED BY <2>1, <2>2, <2>3, <2>4
<1>3. cid \in Nat /\ cof \in Nat /\ cid <= n /\ \A b \in D.audits : b.id = cid => b.of = cof
  <2>1. CASE cid = 0 /\ cof = 0
    BY <1>2, <2>1
  <2>2. ASSUME NEW b \in D.audits, cid = b.id, cof = b.of
        PROVE  cid \in Nat /\ cof \in Nat /\ cid <= n /\ \A e \in D.audits : e.id = cid => e.of = cof
    BY <1>1, <1>2, <2>2 DEF NumberedTo
  <2> QED BY <2>1, <2>2
<1>4. /\ row \in DecisionRows /\ row.id = n + 1 /\ row.sig = sig /\ row.of = k + 1 /\ row.spent = FALSE
      /\ arow \in AuditRows /\ arow.id = n + 2 /\ arow.of = k + 1 /\ arow.decision = n + 1 /\ arow.corrects = cid /\ arow.was = cof
  BY <1>3 DEF DecisionRows, AuditRows
<1>5. /\ D.decisions \in SUBSET DecisionRows /\ D.audits \in SUBSET AuditRows /\ D.floor \in [Sigs -> Nat \cup {NoRule}]
      /\ D.imported \in BOOLEAN
  BY <1>1 DEF Stores
<1> HIDE DEF row, arow
<1>6. /\ fl \in [Sigs -> Nat \cup {NoRule}] /\ fl[sig] = (IF D.floor[sig] = NoRule THEN 0 ELSE D.floor[sig])
      /\ \A s \in Sigs : s # sig => fl[s] = D.floor[s]
  BY <1>5
<1>7. \A s \in Sigs : D.floor[s] \in Int /\ D.floor[s] <= n
  BY <1>1, <1>5 DEF FloorsOK, NoRule
<1>8. ds \in SUBSET DecisionRows /\ as \in SUBSET AuditRows
  BY <1>4, <1>5
<1>9. \A c \in ds : c \in D.decisions \/ c = row
  OBVIOUS
<1>10. \A a \in as : a \in D.audits \/ a = arow
  OBVIOUS
<1>11. IsFiniteSet(ds) /\ IsFiniteSet(as)
  <2>1. IsFiniteSet(D.decisions) /\ IsFiniteSet(D.audits)
    BY <1>1 DEF NumberedTo
  <2> QED BY <2>1, FS_AddElement
<1>12. fl[sig] # NoRule /\ \A s \in Sigs : D.floor[s] # NoRule => fl[s] = D.floor[s]
  BY <1>6 DEF NoRule
<1> HIDE DEF ds, as, fl
<1>13. new \in Stores /\ new.decisions = ds /\ new.audits = as /\ new.floor = fl
  BY <1>5, <1>6, <1>8 DEF Stores
<1> HIDE DEF new
<1>14. NumberedTo(new, n + 2)
  <2>1. \A c \in ds : c.id \in 1..(n + 2)
    BY <1>2, <1>4, <1>9
  <2>2. \A a \in as : a.id \in 1..(n + 2) /\ a.decision <= n + 2 /\ a.corrects <= n + 2
    <3>1. \A a \in D.audits : a.id \in 1..(n + 2) /\ a.decision <= n + 2 /\ a.corrects <= n + 2
      BY <1>2
    <3>2. arow.id \in 1..(n + 2) /\ arow.decision <= n + 2 /\ arow.corrects <= n + 2
      BY <1>3, <1>4
    <3> QED BY <1>10, <3>1, <3>2
  <2>3. \A c, e \in ds : c.id = e.id => c = e
    <3> SUFFICES ASSUME NEW c \in ds, NEW e \in ds, c.id = e.id PROVE c = e
      OBVIOUS
    <3>1. \A f \in D.decisions : f.id # row.id
      BY <1>2, <1>4
    <3>2. CASE c \in D.decisions /\ e \in D.decisions
      BY <1>1, <3>2 DEF NumberedTo
    <3> QED BY <1>9, <3>1, <3>2
  <2>4. \A a, b \in as : a.id = b.id => a = b
    <3> SUFFICES ASSUME NEW c \in as, NEW e \in as, c.id = e.id PROVE c = e
      OBVIOUS
    <3>1. \A f \in D.audits : f.id # arow.id
      BY <1>2, <1>4
    <3>2. CASE c \in D.audits /\ e \in D.audits
      BY <1>1, <3>2 DEF NumberedTo
    <3> QED BY <1>10, <3>1, <3>2
  <2> QED BY <1>11, <1>13, <2>1, <2>2, <2>3, <2>4 DEF NumberedTo
<1>15. RefersOK(new)
  <2>1. ASSUME NEW a \in as, NEW c \in ds, c.id = a.decision PROVE c.of = a.of
    <3>1. CASE a \in D.audits
      <4>1. c \in D.decisions
        BY <1>2, <1>4, <1>9, <2>1, <3>1
      <4> QED BY <1>1, <2>1, <3>1, <4>1 DEF RefersOK
    <3>2. CASE a = arow
      <4>1. c = row
        BY <1>2, <1>4, <1>9, <2>1, <3>2
      <4> QED BY <1>4, <3>2, <4>1
    <3> QED BY <1>10, <3>1, <3>2
  <2>2. ASSUME NEW a \in as, NEW b \in as, b.id = a.corrects PROVE b.of = a.was
    <3>1. CASE a \in D.audits
      <4>1. a.corrects # arow.id
        BY <1>2, <1>4, <3>1
      <4>2. b \in D.audits
        BY <1>10, <2>2, <4>1
      <4> QED BY <1>1, <2>2, <3>1, <4>2 DEF RefersOK
    <3>2. CASE a = arow
      <4>0. a.corrects # arow.id
        BY <1>3, <1>4, <3>2
      <4>1. b \in D.audits
        BY <1>10, <2>2, <4>0
      <4> QED BY <1>3, <1>4, <2>2, <3>2, <4>1
    <3> QED BY <1>10, <3>1, <3>2
  <2> QED BY <1>13, <2>1, <2>2 DEF RefersOK
<1>16. FloorsOK(new, n + 2, known)
  <2>1. ASSUME NEW s \in Sigs PROVE fl[s] <= n + 2
    BY <1>6, <1>7
  <2>2. ASSUME NEW c \in ds PROVE fl[c.sig] # NoRule /\ (c.sig \notin known => (c.spent <=> c.id <= fl[c.sig]))
    <3>1. CASE c \in D.decisions
      <4>1. c.sig \in Sigs /\ D.floor[c.sig] # NoRule /\ (c.sig \notin known => (c.spent <=> c.id <= D.floor[c.sig]))
        BY <1>1, <1>2, <3>1 DEF FloorsOK
      <4> QED BY <1>12, <4>1
    <3>2. CASE c = row
      <4>1. fl[sig] \in Int /\ fl[sig] <= n
        BY <1>6, <1>7
      <4>2. ~(n + 1 <= fl[sig])
        BY <4>1
      <4> QED BY <1>4, <1>12, <3>2, <4>2
    <3> QED BY <1>9, <3>1, <3>2
  <2> QED BY <1>13, <2>1, <2>2 DEF FloorsOK
<1>17. \A r \in ds \cup as : r.of <= k + 1
  <2>1. \A r \in D.decisions \cup D.audits : r.of <= k + 1
    BY <1>2
  <2>2. row.of <= k + 1 /\ arow.of <= k + 1
    BY <1>4
  <2> QED BY <1>9, <1>10, <2>1, <2>2
<1>18. DbOK(new, n + 2, known, k + 1)
  BY <1>13, <1>14, <1>15, <1>16, <1>17 DEF DbOK
<1> QED BY <1>0, <1>18

LEMMA RecordWrites ==
  ASSUME ImportInv, NEW db \in Dbs, NEW node, NEW sig \in Sigs, NEW c, Record(db, node, sig, c)
  PROVE  LET nl == IF db = "local" THEN store[db].nextLocal + 2 ELSE store[db].nextLocal IN
         /\ nl \in Nat \ {0}
         /\ store' = [store EXCEPT ![db] = Recorded(store[db], LastId(db), made, sig, node, c.id, c.of, nl)]
         /\ minted' = IF db = "shared" THEN minted + 2 ELSE minted
         /\ made' = made + 1 /\ UNCHANGED << met, engine, broughtHome >>
<1> DEFINE D == store[db]
           n == LastId(db)
           nl == IF db = "local" THEN D.nextLocal + 2 ELSE D.nextLocal
           v == IF D.floor[sig] = NoRule THEN 0 ELSE D.floor[sig]
           ds == D.decisions \cup {[id |-> n + 1, sig |-> sig, of |-> made + 1, spent |-> FALSE]}
           as == D.audits \cup {[id |-> n + 2, node |-> node, of |-> made + 1, decision |-> n + 1, corrects |-> c.id, was |-> c.of]}
           fl == [D.floor EXCEPT ![sig] = v]
<1>1. store \in [Dbs -> Stores] /\ D \in Stores /\ minted \in Nat
  BY DEF ImportInv
<1>2. D.nextLocal \in Nat \ {0} /\ D.floor \in [Sigs -> Nat \cup {NoRule}] /\ store.local.nextLocal \in Nat \ {0}
  BY <1>1 DEF Stores, Dbs
<1>3. nl \in Nat \ {0} /\ n \in Nat
  BY <1>1, <1>2 DEF LastId
<1>4. (IF db = "local" THEN store.local.nextLocal ELSE minted + 1) = n + 1 /\ (n + 1) + 1 = n + 2
  BY <1>1, <1>2 DEF LastId, Dbs
<1>5. /\ store' = [store EXCEPT ![db].decisions = ds, ![db].audits = as, ![db].floor[sig] = v, ![db].nextLocal = nl]
      /\ minted' = IF db = "shared" THEN minted + 2 ELSE minted
      /\ made' = made + 1 /\ UNCHANGED << met, engine, broughtHome >>
  <2> DEFINE id == IF db = "local" THEN store.local.nextLocal ELSE minted + 1
  <2>1. id = n + 1 /\ id + 1 = n + 2
    BY <1>4
  <2>2. /\ store' = [store EXCEPT ![db].decisions = D.decisions \cup {[id |-> id, sig |-> sig, of |-> made + 1, spent |-> FALSE]},
                                  ![db].audits = D.audits \cup {[id |-> id + 1, node |-> node, of |-> made + 1,
                                      decision |-> id, corrects |-> c.id, was |-> c.of]},
                                  ![db].floor[sig] = v,
                                  ![db].nextLocal = nl]
        /\ minted' = IF db = "shared" THEN minted + 2 ELSE minted
        /\ made' = made + 1 /\ UNCHANGED << met, engine, broughtHome >>
    BY <1>1, <1>2 DEF Record, Minted
  <2> HIDE DEF id, v, nl, n
  <2> QED BY <2>1, <2>2
<1> HIDE DEF ds, as, v, nl, n
<1> DEFINE X == [decisions |-> ds, audits |-> as, floor |-> fl, imported |-> D.imported, nextLocal |-> nl]
<1>6. store' = [store EXCEPT ![db] = X]
  <2> DEFINE Y == [D EXCEPT !.decisions = ds, !.audits = as, !.floor[sig] = v, !.nextLocal = nl]
  <2>1. Y = X
    <3>1. Y \in [decisions : {ds}, audits : {as}, floor : {fl}, imported : {D.imported}, nextLocal : {nl}]
      BY <1>1, <1>2 DEF Stores
    <3> HIDE DEF Y
    <3> QED BY <3>1
  <2>2. store' = [store EXCEPT ![db] = Y]
    BY <1>1, <1>5
  <2> HIDE DEF X, Y
  <2> QED BY <2>1, <2>2
<1>7. X = Recorded(D, n, made, sig, node, c.id, c.of, nl)
  BY DEF Recorded, ds, as, v
<1> HIDE DEF X
<1>8. store' = [store EXCEPT ![db] = Recorded(D, n, made, sig, node, c.id, c.of, nl)]
  BY <1>6, <1>7
<1> QED BY <1>3, <1>5, <1>8 DEF nl, n

LEMMA RecordStep ==
  ASSUME ImportInv, NEW db \in Dbs, NEW node \in {"us", "them"}, node = "them" => db = "shared", NEW sig \in Sigs, NEW c,
         c = Nothing \/ \E b \in store[db].audits : c = [id |-> b.id, of |-> b.of], Record(db, node, sig, c)
  PROVE  ImportInv'
<1> DEFINE D == store[db]
           n == LastId(db)
           nl == IF db = "local" THEN D.nextLocal + 2 ELSE D.nextLocal
           new == Recorded(D, n, made, sig, node, c.id, c.of, nl)
<1>1. /\ nl \in Nat \ {0}
      /\ store' = [store EXCEPT ![db] = new]
      /\ minted' = IF db = "shared" THEN minted + 2 ELSE minted
      /\ made' = made + 1 /\ UNCHANGED << met, engine, broughtHome >>
  BY RecordWrites
<1>2. /\ store \in [Dbs -> Stores] /\ minted \in Nat /\ made \in Nat /\ engine \in Dbs
      /\ \A d \in Dbs : DbOK(store[d], LastId(d), MetIn(d), made)
  BY DEF ImportInv
<1>3. store.local.nextLocal \in Nat \ {0} /\ store.shared.nextLocal \in Nat \ {0}
  BY <1>2 DEF Stores, Dbs
<1>4. n \in Nat /\ \A d \in Dbs : LastId(d) \in Nat
  BY <1>2, <1>3 DEF LastId
<1>5. DbOK(new, n + 2, MetIn(db), made + 1)
  <2>1. (c.id = 0 /\ c.of = 0) \/ \E b \in D.audits : c.id = b.id /\ c.of = b.of
    BY DEF Nothing
  <2>2. DbOK(D, n, MetIn(db), made)
    BY <1>2
  <2> HIDE DEF n, D, nl
  <2> QED BY <1>1, <1>2, <1>4, <2>1, <2>2, RecordKeeps
<1>6. store'[db] = new /\ \A d \in Dbs : d # db => store'[d] = store[d]
  BY <1>1, <1>2
<1>7. new.nextLocal = nl
  BY DEF Recorded
<1>8. LastId(db)' = n + 2 /\ \A d \in Dbs : d # db => LastId(d)' = LastId(d)
  <2>1. CASE db = "local"
    <3>1. store'.local.nextLocal = store.local.nextLocal + 2 /\ minted' = minted
      BY <1>1, <1>6, <1>7, <2>1
    <3> QED BY <1>3, <2>1, <3>1 DEF LastId, Dbs
  <2>2. CASE db = "shared"
    <3>1. store'.local = store.local
      BY <1>6, <2>2 DEF Dbs
    <3> QED BY <1>1, <2>2, <3>1 DEF LastId, Dbs
  <2> QED BY <2>1, <2>2 DEF Dbs
<1>9. \A d \in Dbs : MetIn(d)' = MetIn(d)
  BY <1>1 DEF MetIn
<1>10. /\ new.decisions = D.decisions \cup {[id |-> n + 1, sig |-> sig, of |-> made + 1, spent |-> FALSE]}
       /\ new.audits = D.audits \cup {[id |-> n + 2, node |-> node, of |-> made + 1, decision |-> n + 1, corrects |-> c.id, was |-> c.of]}
       /\ new.imported = D.imported
  BY DEF Recorded
<1> HIDE DEF new, n, nl
<1>11. store' \in [Dbs -> Stores] /\ minted' \in Nat /\ made' \in Nat /\ engine' \in Dbs
  <2>1. new \in Stores
    BY <1>5 DEF DbOK
  <2> QED BY <1>1, <1>2, <2>1
<1>12. ASSUME NEW d \in Dbs PROVE DbOK(store'[d], LastId(d)', MetIn(d)', made')
  <2>1. CASE d = db
    BY <1>1, <1>5, <1>6, <1>8, <1>9, <2>1
  <2>2. CASE d # db
    <3>1. DbOK(store[d], LastId(d), MetIn(d), made)
      BY <1>2
    <3>2. DbOK(store[d], LastId(d), MetIn(d), made + 1)
      <4>1. \A r \in store[d].decisions \cup store[d].audits : r.of \in Nat
        BY <1>2 DEF Stores, DecisionRows, AuditRows
      <4> QED BY <1>2, <3>1, <4>1 DEF DbOK
    <3> QED BY <1>1, <1>6, <1>8, <1>9, <2>2, <3>2
  <2> QED BY <2>1, <2>2
<1>13. \A d \in Dbs : \A r \in store[d].decisions \cup store[d].audits : r.of # made + 1
  <2> SUFFICES ASSUME NEW d \in Dbs, NEW r \in store[d].decisions \cup store[d].audits PROVE r.of # made + 1
    OBVIOUS
  <2>1. r.of \in Nat
    BY <1>2 DEF Stores, DecisionRows, AuditRows
  <2>2. r.of <= made
    BY <1>2 DEF DbOK
  <2> QED BY <1>2, <2>1, <2>2
<1>14. ASSUME OneWay PROVE OneWay'
  <2> DEFINE row == [id |-> n + 1, sig |-> sig, of |-> made + 1, spent |-> FALSE]
             arow == [id |-> n + 2, node |-> node, of |-> made + 1, decision |-> n + 1, corrects |-> c.id, was |-> c.of]
  <2>1. row.of = made + 1 /\ arow.of = made + 1 /\ arow.node = node
    OBVIOUS
  <2>2. new.decisions = D.decisions \cup {row} /\ new.audits = D.audits \cup {arow}
    BY <1>10
  <2> HIDE DEF row, arow
  <2>3. ASSUME NEW d \in Dbs PROVE ~Twice(store'[d].decisions) /\ ~Twice(store'[d].audits)
    <3>1. ~Twice(store[d].decisions) /\ ~Twice(store[d].audits)
      BY <1>14 DEF OneWay
    <3>2. CASE d = db
      BY <1>6, <1>13, <2>1, <2>2, <3>1, <3>2 DEF Twice
    <3>3. CASE d # db
      BY <1>6, <3>1, <3>3
    <3> QED BY <3>2, <3>3
  <2>4. CASE db = "local"
    <3>1. store'.shared = store.shared /\ store'.local = new /\ node = "us" /\ "local" \in Dbs /\ "shared" \in Dbs
      BY <1>6, <2>4 DEF Dbs
    <3>2. \A a \in store'.local.audits : a.node = "us"
      BY <1>14, <2>1, <2>2, <2>4, <3>1 DEF OneWay
    <3>3. store'.local.audits # {}
      BY <2>2, <3>1
    <3>4. Apart => Apart'
      BY <1>13, <2>1, <2>2, <2>4, <3>1 DEF Apart
    <3> QED BY <1>14, <2>3, <3>1, <3>2, <3>3, <3>4 DEF OneWay
  <2>5. CASE db = "shared"
    <3>1. store'.local = store.local /\ store'.shared = new /\ "local" \in Dbs /\ "shared" \in Dbs
      BY <1>6, <2>5 DEF Dbs
    <3>4. Apart => Apart'
      BY <1>13, <2>1, <2>2, <2>5, <3>1 DEF Apart
    <3>5. (store.shared.imported /\ \E a \in store.shared.audits : a.node = "us")
             => (store'.shared.imported /\ \E a \in store'.shared.audits : a.node = "us")
      BY <1>10, <2>5, <3>1
    <3> QED BY <1>14, <2>3, <3>1, <3>4, <3>5 DEF OneWay
  <2> QED BY <2>4, <2>5 DEF Dbs
<1>15. broughtHome' = broughtHome
  BY <1>1
<1> QED BY <1>11, <1>12, <1>14, <1>15 DEF ImportInv

\* An edit of one database's rules: no row comes, none changes its id or its origin.
LEMMA EditStep ==
  ASSUME ImportInv, NEW db \in Dbs, NEW new, store' = [store EXCEPT ![db] = new],
         new.nextLocal = store[db].nextLocal, new.audits = store[db].audits, new.imported = store[db].imported,
         DbOK(new, LastId(db), MetIn(db), made),
         \A c \in new.decisions : \E d \in store[db].decisions : d.of = c.of,
         ~Twice(store[db].decisions) => ~Twice(new.decisions),
         UNCHANGED << minted, made, met, engine, broughtHome >>
  PROVE  ImportInv'
<1>1. /\ store \in [Dbs -> Stores] /\ minted \in Nat /\ made \in Nat /\ engine \in Dbs
      /\ \A d \in Dbs : DbOK(store[d], LastId(d), MetIn(d), made)
  BY DEF ImportInv
<1>2. store'[db] = new /\ \A d \in Dbs : d # db => store'[d] = store[d]
  BY <1>1
<1>3. \A d \in Dbs : LastId(d)' = LastId(d) /\ MetIn(d)' = MetIn(d)
  <2>1. store'.local.nextLocal = store.local.nextLocal
    BY <1>2 DEF Dbs
  <2> QED BY <2>1 DEF LastId, MetIn
<1>4. store' \in [Dbs -> Stores]
  <2>1. new \in Stores
    BY DEF DbOK
  <2> QED BY <1>1, <2>1
<1>5. \A d \in Dbs : DbOK(store'[d], LastId(d)', MetIn(d)', made')
  BY <1>1, <1>2, <1>3
<1>6. ASSUME OneWay PROVE OneWay'
  <2>0. "local" \in Dbs /\ "shared" \in Dbs
    BY DEF Dbs
  <2>1. \A d \in Dbs : ~Twice(store'[d].decisions) /\ ~Twice(store'[d].audits)
    BY <1>2, <1>6 DEF OneWay
  <2>2. \A d \in Dbs : /\ store'[d].audits = store[d].audits /\ store'[d].imported = store[d].imported
                       /\ \A c \in store'[d].decisions : \E e \in store[d].decisions : e.of = c.of
    BY <1>2
  <2>3. Apart => Apart'
    BY <2>0, <2>2 DEF Apart
  <2> QED BY <1>6, <2>0, <2>1, <2>2, <2>3 DEF OneWay
<1> QED BY <1>1, <1>4, <1>5, <1>6 DEF ImportInv

\* ResetSignature: the rows of the signature no longer count.
Spent(d, sig) == IF d.sig = sig THEN [d EXCEPT !.spent = TRUE] ELSE d

LEMMA SpentIs ==
  ASSUME NEW d \in DecisionRows, NEW sig
  PROVE  /\ Spent(d, sig) \in DecisionRows /\ Spent(d, sig).id = d.id /\ Spent(d, sig).sig = d.sig /\ Spent(d, sig).of = d.of
         /\ d.sig = sig => Spent(d, sig).spent = TRUE
         /\ d.sig # sig => Spent(d, sig) = d
BY DEF Spent, DecisionRows

LEMMA ResetKeeps ==
  ASSUME NEW D, NEW n \in Nat, NEW known, NEW k \in Nat, DbOK(D, n, known, k), NEW sig \in Sigs, NEW new, NEW f,
         \E d \in D.decisions : d.sig = sig /\ d.id = f,
         \A d \in D.decisions : d.sig = sig => d.id <= f,
         new = [decisions |-> {Spent(d, sig) : d \in D.decisions}, audits |-> D.audits, floor |-> [D.floor EXCEPT ![sig] = f],
                imported |-> D.imported, nextLocal |-> D.nextLocal]
  PROVE  DbOK(new, n, known, k)
<1> DEFINE g == [d \in D.decisions |-> Spent(d, sig)]
           ds == {g[d] : d \in D.decisions}
           fl == [D.floor EXCEPT ![sig] = f]
<1>1. D \in Stores /\ NumberedTo(D, n) /\ RefersOK(D) /\ FloorsOK(D, n, known)
  BY DEF DbOK
<1>2. /\ D.decisions \in SUBSET DecisionRows /\ D.audits \in SUBSET AuditRows /\ D.floor \in [Sigs -> Nat \cup {NoRule}]
      /\ D.imported \in BOOLEAN /\ D.nextLocal \in Nat \ {0}
  BY <1>1 DEF Stores
<1>3. \A d \in D.decisions : /\ g[d] \in DecisionRows /\ g[d].id = d.id /\ g[d].sig = d.sig /\ g[d].of = d.of
                             /\ (d.sig = sig => g[d].spent = TRUE) /\ (d.sig # sig => g[d] = d)
  <2>1. \A d \in D.decisions : /\ Spent(d, sig) \in DecisionRows /\ Spent(d, sig).id = d.id /\ Spent(d, sig).sig = d.sig
                               /\ Spent(d, sig).of = d.of /\ (d.sig = sig => Spent(d, sig).spent = TRUE)
                               /\ (d.sig # sig => Spent(d, sig) = d)
    BY <1>2, SpentIs
  <2>2. \A d \in D.decisions : g[d] = Spent(d, sig)
    OBVIOUS
  <2> HIDE DEF g
  <2> QED BY <2>1, <2>2
<1>4. DOMAIN g = D.decisions /\ ds = {Spent(d, sig) : d \in D.decisions}
  OBVIOUS
<1> HIDE DEF g
<1>5. IsFiniteSet(ds)
  BY <1>1, <1>4, ImageIsFinite DEF NumberedTo
<1>6. f \in Nat /\ f <= n
  <2>1. PICK d \in D.decisions : d.sig = sig /\ d.id = f
    OBVIOUS
  <2> QED BY <1>1, <1>2, <2>1 DEF NumberedTo, DecisionRows
<1>7. fl \in [Sigs -> Nat \cup {NoRule}] /\ fl[sig] = f /\ \A s \in Sigs : s # sig => fl[s] = D.floor[s]
  BY <1>2, <1>6
<1>8. ds \in SUBSET DecisionRows /\ \A c \in ds : \E d \in D.decisions : c = g[d]
  BY <1>3
<1>9. new = [decisions |-> ds, audits |-> D.audits, floor |-> fl, imported |-> D.imported, nextLocal |-> D.nextLocal]
  BY <1>4
<1> HIDE DEF ds, fl
<1>10. new \in Stores /\ new.decisions = ds /\ new.audits = D.audits /\ new.floor = fl
  BY <1>2, <1>7, <1>8, <1>9 DEF Stores
<1>11. NumberedTo(new, n)
  <2>1. \A c \in ds : c.id \in 1..n
    BY <1>1, <1>3, <1>8 DEF NumberedTo
  <2>2. \A c, e \in ds : c.id = e.id => c = e
    BY <1>1, <1>3, <1>8 DEF NumberedTo
  <2> QED BY <1>1, <1>5, <1>10, <2>1, <2>2 DEF NumberedTo
<1>12. RefersOK(new)
  <2>1. \A a \in D.audits : \A c \in ds : c.id = a.decision => c.of = a.of
    BY <1>1, <1>3, <1>8 DEF RefersOK
  <2> QED BY <1>1, <1>10, <2>1 DEF RefersOK
<1>13. FloorsOK(new, n, known)
  <2>1. \A s \in Sigs : fl[s] <= n
    BY <1>1, <1>6, <1>7 DEF FloorsOK
  <2>2. ASSUME NEW c \in ds PROVE fl[c.sig] # NoRule /\ (c.sig \notin known => (c.spent <=> c.id <= fl[c.sig]))
    <3>1. PICK d \in D.decisions : c = g[d]
      BY <1>8
    <3>2. CASE d.sig = sig
      <4>1. c.sig = sig /\ c.spent = TRUE /\ c.id <= f
        BY <1>3, <3>1, <3>2
      <4> QED BY <1>6, <1>7, <4>1 DEF NoRule
    <3>3. CASE d.sig # sig
      <4>1. c = d /\ d.sig \in Sigs
        BY <1>2, <1>3, <3>1, <3>3 DEF DecisionRows
      <4> QED BY <1>1, <1>7, <3>3, <4>1 DEF FloorsOK
    <3> QED BY <3>2, <3>3
  <2> QED BY <1>10, <2>1, <2>2 DEF FloorsOK
<1>14. \A r \in ds \cup D.audits : r.of <= k
  <2>1. \A r \in D.decisions \cup D.audits : r.of <= k
    BY DEF DbOK
  <2> QED BY <1>3, <1>8, <2>1
<1> QED BY <1>10, <1>11, <1>12, <1>13, <1>14 DEF DbOK

LEMMA ResetSignatureStep ==
  ASSUME ImportInv, NEW sig \in Sigs, ResetSignature(sig)
  PROVE  ImportInv'
<1> DEFINE D == store[engine]
           mine == {d \in D.decisions : d.sig = sig}
           f == Max(Ids(mine))
           ds == {Spent(d, sig) : d \in D.decisions}
           fl == [D.floor EXCEPT ![sig] = f]
           new == [decisions |-> ds, audits |-> D.audits, floor |-> fl, imported |-> D.imported, nextLocal |-> D.nextLocal]
<1>1. /\ store \in [Dbs -> Stores] /\ engine \in Dbs /\ made \in Nat /\ minted \in Nat /\ D \in Stores
      /\ DbOK(D, LastId(engine), MetIn(engine), made)
  BY DEF ImportInv
<1>2. LastId(engine) \in Nat
  <2>1. store.local.nextLocal \in Nat \ {0}
    BY <1>1 DEF Stores, Dbs
  <2> QED BY <1>1, <2>1 DEF LastId
<1>3. IsFiniteSet(D.decisions) /\ \A d \in D.decisions : d \in DecisionRows /\ d.id \in Nat
  BY <1>1 DEF DbOK, NumberedTo, Stores, DecisionRows
<1>4. mine # {} /\ IsFiniteSet(mine)
  BY <1>3, FS_Subset DEF ResetSignature
<1>5. f \in Ids(mine) /\ \A i \in Ids(mine) : i <= f
  <2>1. Ids(mine) \in SUBSET Nat /\ IsFiniteSet(Ids(mine)) /\ \A r \in mine : r.id \in Ids(mine)
    BY <1>3, <1>4, IdsAre
  <2>2. Ids(mine) # {}
    BY <1>4, <2>1
  <2> QED BY <2>1, <2>2, LargestIs
<1> HIDE DEF f
<1>6. (\E d \in D.decisions : d.sig = sig /\ d.id = f) /\ (\A d \in D.decisions : d.sig = sig => d.id <= f)
  BY <1>5 DEF Ids
<1>7. (D.decisions \ mine) \cup {[d EXCEPT !.spent = TRUE] : d \in mine} = ds
  BY DEF Spent
<1>8. store' = [store EXCEPT ![engine] = new] /\ UNCHANGED << minted, made, met, engine, broughtHome >>
  <2>1. /\ store' = [store EXCEPT ![engine].floor[sig] = f,
                                  ![engine].decisions = (D.decisions \ mine) \cup {[d EXCEPT !.spent = TRUE] : d \in mine}]
        /\ UNCHANGED << minted, made, met, engine, broughtHome >>
    BY <1>1 DEF ResetSignature, f
  <2>2. store' = [store EXCEPT ![engine].floor[sig] = f, ![engine].decisions = ds]
    BY <1>7, <2>1
  <2> HIDE DEF ds
  <2> DEFINE Y == [D EXCEPT !.floor[sig] = f, !.decisions = ds]
  <2>3. Y = new
    <3>1. Y \in [decisions : {ds}, audits : {D.audits}, floor : {fl}, imported : {D.imported}, nextLocal : {D.nextLocal}]
      BY <1>1 DEF Stores
    <3> HIDE DEF Y
    <3> QED BY <3>1
  <2>4. store' = [store EXCEPT ![engine] = Y]
    BY <1>1, <2>2
  <2> HIDE DEF Y, new
  <2> QED BY <2>1, <2>3, <2>4
<1>9. DbOK(new, LastId(engine), MetIn(engine), made)
  BY <1>1, <1>2, <1>6, ResetKeeps
<1>10. \A c \in ds : \E d \in D.decisions : c = Spent(d, sig) /\ d.of = c.of
  <2>1. \A d \in D.decisions : Spent(d, sig).of = d.of
    BY <1>3, SpentIs
  <2> QED BY <2>1
<1>11. ~Twice(D.decisions) => ~Twice(ds)
  <2> HIDE DEF ds
  <2> QED BY <1>10 DEF Twice
<1>12. new.nextLocal = D.nextLocal /\ new.audits = D.audits /\ new.imported = D.imported /\ new.decisions = ds
  OBVIOUS
<1> HIDE DEF new, ds
<1>13. \A c \in new.decisions : \E d \in D.decisions : d.of = c.of
  BY <1>10, <1>12
<1>14. ~Twice(D.decisions) => ~Twice(new.decisions)
  BY <1>11, <1>12
<1> QED BY <1>1, <1>8, <1>9, <1>12, <1>13, <1>14, EditStep

\* DeleteSignature: the rule goes, and every decision under it.
LEMMA DeleteStep ==
  ASSUME ImportInv, NEW sig \in Sigs, DeleteSignature(sig)
  PROVE  ImportInv'
<1> DEFINE D == store[engine]
           ds == {d \in D.decisions : d.sig # sig}
           fl == [D.floor EXCEPT ![sig] = NoRule]
           new == [decisions |-> ds, audits |-> D.audits, floor |-> fl, imported |-> D.imported, nextLocal |-> D.nextLocal]
<1>1. /\ store \in [Dbs -> Stores] /\ engine \in Dbs /\ made \in Nat /\ minted \in Nat /\ D \in Stores
      /\ DbOK(D, LastId(engine), MetIn(engine), made)
  BY DEF ImportInv
<1>2. LastId(engine) \in Nat
  <2>1. store.local.nextLocal \in Nat \ {0}
    BY <1>1 DEF Stores, Dbs
  <2> QED BY <1>1, <2>1 DEF LastId
<1>3. store' = [store EXCEPT ![engine] = new] /\ UNCHANGED << minted, made, met, engine, broughtHome >>
  <2>1. /\ store' = [store EXCEPT ![engine].floor[sig] = NoRule, ![engine].decisions = ds]
        /\ UNCHANGED << minted, made, met, engine, broughtHome >>
    BY <1>1 DEF DeleteSignature
  <2> HIDE DEF ds
  <2> DEFINE Y == [D EXCEPT !.floor[sig] = NoRule, !.decisions = ds]
  <2>3. Y = new
    <3>1. Y \in [decisions : {ds}, audits : {D.audits}, floor : {fl}, imported : {D.imported}, nextLocal : {D.nextLocal}]
      BY <1>1 DEF Stores
    <3> HIDE DEF Y
    <3> QED BY <3>1
  <2>4. store' = [store EXCEPT ![engine] = Y]
    BY <1>1, <2>1
  <2> HIDE DEF Y, new
  <2> QED BY <2>1, <2>3, <2>4
<1>4. /\ D.decisions \in SUBSET DecisionRows /\ D.audits \in SUBSET AuditRows /\ D.floor \in [Sigs -> Nat \cup {NoRule}]
      /\ D.imported \in BOOLEAN /\ D.nextLocal \in Nat \ {0}
  BY <1>1 DEF Stores
<1>5. fl \in [Sigs -> Nat \cup {NoRule}] /\ fl[sig] = NoRule /\ \A s \in Sigs : s # sig => fl[s] = D.floor[s]
  BY <1>4
<1>6. ds \subseteq D.decisions /\ \A d \in ds : d.sig # sig
  OBVIOUS
<1> HIDE DEF ds, fl
<1>7. new \in Stores /\ new.decisions = ds /\ new.audits = D.audits /\ new.floor = fl /\ new.imported = D.imported /\ new.nextLocal = D.nextLocal
  BY <1>4, <1>5, <1>6 DEF Stores
<1> HIDE DEF new
<1>8. DbOK(new, LastId(engine), MetIn(engine), made)
  <2>0. NumberedTo(D, LastId(engine)) /\ RefersOK(D) /\ FloorsOK(D, LastId(engine), MetIn(engine))
    BY <1>1 DEF DbOK
  <2>1. NumberedTo(new, LastId(engine))
    <3>1. IsFiniteSet(ds)
      BY <1>6, <2>0, FS_Subset DEF NumberedTo
    <3> QED BY <1>6, <1>7, <2>0, <3>1 DEF NumberedTo
  <2>2. RefersOK(new)
    BY <1>6, <1>7, <2>0 DEF RefersOK
  <2>3. FloorsOK(new, LastId(engine), MetIn(engine))
    <3>1. \A s \in Sigs : fl[s] <= LastId(engine)
      BY <1>2, <1>5, <2>0 DEF FloorsOK, NoRule
    <3>2. \A c \in ds : fl[c.sig] = D.floor[c.sig]
      BY <1>4, <1>5, <1>6 DEF DecisionRows
    <3> QED BY <1>6, <1>7, <2>0, <3>1, <3>2 DEF FloorsOK
  <2> QED BY <1>1, <1>6, <1>7, <2>1, <2>2, <2>3 DEF DbOK
<1>9. ~Twice(D.decisions) => ~Twice(ds)
  BY <1>6 DEF Twice
<1> QED BY <1>1, <1>3, <1>6, <1>7, <1>8, <1>9, EditStep

LEMMA ImportInvInit == InitImport => ImportInv
<1> SUFFICES ASSUME InitImport PROVE ImportInv
  OBVIOUS
<1> DEFINE fl == [s \in Sigs |-> NoRule]
           E == [decisions |-> {}, audits |-> {}, floor |-> fl, imported |-> FALSE, nextLocal |-> 1]
<1>1. /\ store = [d \in Dbs |-> E] /\ minted = 0 /\ made = 0 /\ met = {} /\ engine \in Dbs
  BY DEF InitImport, EmptyStore, Dbs
<1>2. fl \in [Sigs -> Nat \cup {NoRule}] /\ \A s \in Sigs : fl[s] = NoRule
  OBVIOUS
<1> HIDE DEF fl
<1>3. E \in Stores /\ E.decisions = {} /\ E.audits = {} /\ E.floor = fl /\ E.nextLocal = 1
  BY <1>2 DEF Stores
<1> HIDE DEF E
<1>4. \A d \in Dbs : store[d] = E
  BY <1>1
<1>5. \A d \in Dbs : LastId(d) = 0 /\ MetIn(d) = {}
  BY <1>1, <1>3, <1>4 DEF LastId, MetIn, Dbs
<1>6. DbOK(E, 0, {}, 0)
  <2>1. \A s \in Sigs : fl[s] <= 0
    BY <1>2 DEF NoRule
  <2>2. IsFiniteSet({})
    BY FS_EmptySet
  <2> QED BY <1>3, <2>1, <2>2 DEF DbOK, NumberedTo, RefersOK, FloorsOK
<1>7. OneWay
  BY <1>3, <1>4 DEF OneWay, Apart, Twice, Dbs
<1>8. store \in [Dbs -> Stores]
  BY <1>1, <1>3
<1>9. \A d \in Dbs : DbOK(store[d], LastId(d), MetIn(d), made)
  BY <1>1, <1>4, <1>5, <1>6
<1> QED BY <1>1, <1>7, <1>8, <1>9 DEF ImportInv

\* A step that copies nothing and records nothing.
LEMMA NothingMoves ==
  ASSUME ImportInv, UNCHANGED << store, minted, made, met >>, engine' \in Dbs, broughtHome => broughtHome'
  PROVE  ImportInv'
<1>1. \A d \in Dbs : LastId(d)' = LastId(d) /\ MetIn(d)' = MetIn(d)
  BY DEF LastId, MetIn
<1>2. OneWay => OneWay'
  BY DEF OneWay, Apart
<1>3. \A d \in Dbs : DbOK(store'[d], LastId(d)', MetIn(d)', made')
  BY <1>1 DEF ImportInv
<1> QED BY <1>2, <1>3 DEF ImportInv

LEMMA AnyCopy ==
  ASSUME ImportInv, NEW dst \in Dbs, NEW all, CopyInto(dst, all), UNCHANGED << made, engine >>,
         \/ dst = "local" /\ broughtHome'
         \/ dst = "shared" /\ (broughtHome => broughtHome') /\ ~(store.shared.imported /\ \E a \in store.shared.audits : a.node = "us")
  PROVE  ImportInv'
<1>1. PICK src \in Dbs : src # dst
  BY DEF Dbs
<1>2. /\ store' \in [Dbs -> Stores] /\ minted' \in Nat
      /\ \A d \in Dbs : DbOK(store'[d], LastId(d)', MetIn(d)', made')
  BY <1>1, CopyStep
<1>3. ~broughtHome' => OneWay'
  <2> SUFFICES ASSUME ~broughtHome' PROVE OneWay'
    OBVIOUS
  <2>1. /\ dst = "shared" /\ ~broughtHome
        /\ ~(store.shared.imported /\ \E a \in store.shared.audits : a.node = "us")
    OBVIOUS
  <2>2. OneWay /\ Apart
    BY <2>1 DEF ImportInv, OneWay
  <2> QED BY <2>1, <2>2, CopyOneWay
<1> QED BY <1>2, <1>3 DEF ImportInv

LEMMA ImportInvStep == ImportInv /\ [NextImport]_importVars => ImportInv'
<1> SUFFICES ASSUME ImportInv, [NextImport]_importVars PROVE ImportInv'
  OBVIOUS
<1>0. engine \in Dbs
  BY DEF ImportInv
<1>1. CASE StartLocal \/ WriteMarker \/ DieBeforeMarker \/ StopDaemon \/ RebuildReplica
  <2>1. UNCHANGED << store, minted, made, met, engine, broughtHome >>
    BY <1>1 DEF StartLocal, WriteMarker, DieBeforeMarker, StopDaemon, RebuildReplica
  <2> QED BY <1>0, <2>1, NothingMoves
<1>2. CASE SwitchEngine
  <2>1. UNCHANGED << store, minted, made, met, broughtHome >> /\ engine' \in Dbs
    BY <1>2 DEF SwitchEngine, Dbs
  <2> QED BY <2>1, NothingMoves
<1>3. CASE StartShared
  <2>1. UNCHANGED << made, engine, broughtHome >>
    BY <1>3 DEF StartShared
  <2>2. CASE ImportOwed /\ CopyInto("shared", FALSE)
    <3>1. "shared" \in Dbs /\ ~store.shared.imported
      BY <2>2 DEF Dbs, ImportOwed
    <3> QED BY <2>1, <2>2, <3>1, AnyCopy
  <2>3. CASE UNCHANGED << store, minted, met >>
    BY <1>0, <2>1, <2>3, NothingMoves
  <2> QED BY <1>3, <2>2, <2>3 DEF StartShared
<1>4. ASSUME NEW sig \in Sigs, DecideRow(sig) PROVE ImportInv'
  <2>1. PICK c \in Corrigible(engine, "us") : Record(engine, "us", sig, c)
    BY <1>4 DEF DecideRow
  <2>2. c = Nothing \/ \E b \in store[engine].audits : c = [id |-> b.id, of |-> b.of]
    BY <2>1 DEF Corrigible
  <2> QED BY <1>0, <2>1, <2>2, RecordStep
<1>5. ASSUME NEW sig \in Sigs, OtherNodeDecides(sig) PROVE ImportInv'
  <2>1. Record("shared", "them", sig, Nothing) /\ "shared" \in Dbs
    BY <1>5 DEF OtherNodeDecides, Dbs
  <2> QED BY <2>1, RecordStep
<1>6. ASSUME NEW sig \in Sigs, ResetSignature(sig) PROVE ImportInv'
  BY <1>6, ResetSignatureStep
<1>7. ASSUME NEW sig \in Sigs, DeleteSignature(sig) PROVE ImportInv'
  BY <1>7, DeleteStep
<1>8. ASSUME NEW dst \in Dbs, NEW allNodes \in BOOLEAN, Migrate(dst, allNodes) PROVE ImportInv'
  <2>1. /\ UNCHANGED << made, engine >>
        /\ broughtHome' = (broughtHome \/ (dst = "local" /\ DestinationHistory(dst) = {}))
    BY <1>8 DEF Migrate
  <2>2. CASE DestinationHistory(dst) = {} /\ CopyInto(dst, allNodes)
    <3>1. CASE dst = "local"
      BY <2>1, <2>2, <3>1, AnyCopy
    <3>2. CASE dst = "shared"
      <4>1. ~\E a \in store.shared.audits : a.node = "us"
        BY <2>2, <3>2 DEF DestinationHistory
      <4>2. broughtHome => broughtHome'
        BY <2>1
      <4> QED BY <2>1, <2>2, <3>2, <4>1, <4>2, AnyCopy
    <3> QED BY <3>1, <3>2 DEF Dbs
  <2>3. CASE UNCHANGED << store, minted, met >>
    BY <1>0, <2>1, <2>3, NothingMoves
  <2> QED BY <1>8, <2>2, <2>3 DEF Migrate, Copies
<1>9. CASE UNCHANGED importVars
  BY <1>0, <1>9, NothingMoves DEF importVars
<1> QED BY <1>1, <1>2, <1>3, <1>4, <1>5, <1>6, <1>7, <1>8, <1>9 DEF NextImport, Dbs

LEMMA ImportInvMeans == ImportInv => ImportIsFaithful
<1> SUFFICES ASSUME ImportInv PROVE ImportIsFaithful
  OBVIOUS
<1>1. DOMAIN store = Dbs /\ \A d \in Dbs : DbOK(store[d], LastId(d), MetIn(d), made) /\ store[d] \in Stores
  BY DEF ImportInv
<1>2. NothingTwiceOneWay
  BY <1>1 DEF ImportInv, OneWay, NothingTwiceOneWay
<1>3. RefersToItsOwn
  BY <1>1 DEF DbOK, RefersOK, RefersToItsOwn
<1>4. ResetSurvivesTheMove
  <2> SUFFICES ASSUME NEW d \in Dbs, NEW c \in store[d].decisions, << d, c.sig >> \notin met
               PROVE  c.spent <=> c.id <= store[d].floor[c.sig]
    BY <1>1 DEF ResetSurvivesTheMove
  <2>1. FloorsOK(store[d], LastId(d), MetIn(d)) /\ c.sig \notin MetIn(d)
    BY <1>1 DEF DbOK, MetIn
  <2> QED BY <2>1 DEF FloorsOK
<1> QED BY <1>2, <1>3, <1>4 DEF ImportIsFaithful

\* What a move between the local file and the shared store promises, of every machine, any number
\* of copies, imports, restarts, resets and other nodes: nothing arrives twice as long as the
\* fleet's rows were never brought home, every reference arrives at its own row, and a rule the
\* operator reset stays reset (importer.go, migrate.go).
THEOREM ImportsAreFaithful == SpecImport => []ImportIsFaithful
<1>1. SpecImport => []ImportInv
  BY ImportInvInit, ImportInvStep, PTL DEF SpecImport
<1> QED BY <1>1, ImportInvMeans, PTL
=============================================================================
