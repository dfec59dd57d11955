------------------------------ MODULE TaskCache ------------------------------
(***************************************************************************)
(* The daemon's snapshot of a remote task list (taskcache.go).             *)
(*                                                                         *)
(* Readers are served the snapshot and start a refresh off the loop when   *)
(* it is missing or older than its TTL.  A write of the daemon goes to the *)
(* store under the list's lock and then replaces the snapshot; a generation*)
(* counter tells a refresh that a write landed meanwhile.  Contents are    *)
(* numbered in the order the store took them: a smaller one is older.      *)
(***************************************************************************)
EXTENDS Integers, FiniteSets

CONSTANTS
  Writers,      \* the loop and the off-loop releases, as writers of the list
  Releases,     \* those of them that are releases
  Slots,        \* bound: refreshes in flight at the same time
  Events,       \* what happens in this instance
  MaxVersion,   \* bound: contents the store ever holds
  MaxGen        \* bound: the generation up to which writes start

EventKinds == {"other", "failwrite", "failread"}

ASSUME CacheBounds ==
  /\ Events \subseteq EventKinds /\ Releases \subseteq Writers
  /\ MaxVersion \in Nat /\ MaxGen \in Nat

VARIABLES
  stored,   \* the content in the remote store
  cached,   \* the locator has an entry in taskSnapshots
  snap,     \* that entry (the zero value when there is none)
  refresh,  \* the refreshes in flight
  pending,  \* contents a writer stored and has not yet noted in the snapshot
  own,      \* the newest content the daemon itself wrote and noted
  served    \* what the last reader was given

vars == <<stored, cached, snap, refresh, pending, own, served>>

NoData == -1                 \* the nil content, and the answer "not read yet" or an error
Empty == -2                  \* the nil content served without an error
Versions == 0..MaxVersion
NoSnapshot == [data |-> NoData, err |-> FALSE, gen |-> 0, stale |-> TRUE, refreshing |-> FALSE]
NoRefresh == [phase |-> "none", gen |-> 0, data |-> NoData]
Settled == -3                \* a writer with nothing to note
Unknown == -4                \* a writer whose mutation failed
Released == -5               \* a release whose outcome the loop has not handled

\* Every variable has its type, and no refresh is ahead of the store.
TypeOK ==
  /\ stored \in Versions /\ cached \in BOOLEAN
  /\ snap \in [data : Versions \cup {NoData}, err : BOOLEAN, gen : Nat, stale : BOOLEAN,
               refreshing : BOOLEAN]
  /\ refresh \in [Slots -> [phase : {"none", "started", "read"}, gen : Nat,
                            data : Versions \cup {NoData}]]
  /\ pending \in [Writers -> Versions \cup {Settled, Unknown, Released}]
  /\ own \in Versions
  /\ served \in Versions \cup {NoData, Empty}
  /\ snap.data <= stored /\ own <= stored
  /\ \A r \in Slots : refresh[r].data <= stored
  /\ \A w \in Writers : pending[w] <= stored

Init ==
  /\ stored = 0 /\ cached = FALSE /\ snap = NoSnapshot
  /\ refresh = [r \in Slots |-> NoRefresh] /\ pending = [w \in Writers |-> Settled]
  /\ own = 0 /\ served = NoData

event(e) == e \in Events

\* What a reader gets: an error before the first read and after a failed one, else the
\* entry's content, whether or not a refresh has filled it.
Answer ==
  IF ~cached \/ snap.err THEN NoData ELSE IF snap.data = NoData THEN Empty ELSE snap.data

Stale == ~cached \/ snap.stale

\* Mutant of Kick: only a missing snapshot is refreshed.
KickWhenMissing == ~cached /\ ~snap.refreshing
Kick == Stale /\ ~snap.refreshing

\* cachedTaskList with a refresh to start: the entry is latched, which also creates it.
CachedTaskListKick(r) ==
  /\ Kick /\ refresh[r].phase = "none"
  /\ served' = Answer
  /\ cached' = TRUE /\ snap' = [snap EXCEPT !.refreshing = TRUE]
  /\ refresh' = [refresh EXCEPT ![r] = [phase |-> "started", gen |-> snap.gen, data |-> NoData]]
  /\ UNCHANGED <<stored, pending, own>>

CachedTaskListServe ==
  /\ ~Kick /\ served' = Answer
  /\ UNCHANGED <<stored, cached, snap, refresh, pending, own>>

\* The refresh's read of the store, and its result taken in under the daemon's mutex.
RefreshReads(r) ==
  /\ refresh[r].phase = "started"
  /\ refresh' = [refresh EXCEPT ![r].phase = "read", ![r].data = stored]
  /\ UNCHANGED <<stored, cached, snap, pending, own, served>>
RefreshFails(r) ==
  /\ event("failread") /\ refresh[r].phase = "started"
  /\ refresh' = [refresh EXCEPT ![r].phase = "read"]
  /\ UNCHANGED <<stored, cached, snap, pending, own, served>>

\* Mutant of Superseded: the generation is not compared.
SupersededNever(r) == FALSE
Superseded(r) == snap.gen # refresh[r].gen

RefreshTaskSnapshot(r) ==
  /\ refresh[r].phase = "read"
  /\ cached' = TRUE
  /\ snap' = IF Superseded(r) THEN [snap EXCEPT !.refreshing = FALSE]
             ELSE [data |-> refresh[r].data, err |-> refresh[r].data = NoData,
                   gen |-> refresh[r].gen, stale |-> FALSE, refreshing |-> FALSE]
  /\ refresh' = [refresh EXCEPT ![r] = NoRefresh]
  /\ UNCHANGED <<stored, pending, own, served>>

\* Mutant of MutateTaskList: the content of a write that failed is noted all the same.
MutateTrustsFailure(w) ==
  /\ pending[w] = Settled /\ stored < MaxVersion /\ snap.gen < MaxGen
  /\ stored' \in {stored, stored + 1} /\ pending' = [pending EXCEPT ![w] = stored + 1]
  /\ UNCHANGED <<cached, snap, refresh, own, served>>

\* mutateTaskList: the locked read-modify-write of the store, then the note.  A write
\* that failed may have landed.
MutateTaskList(w) ==
  /\ pending[w] = Settled /\ stored < MaxVersion /\ snap.gen < MaxGen
  /\ \/ stored' = stored + 1 /\ pending' = [pending EXCEPT ![w] = stored']
     \/ /\ event("failwrite") /\ stored' \in {stored, stored + 1}
        /\ pending' = [pending EXCEPT ![w] = Unknown]
  /\ UNCHANGED <<cached, snap, refresh, own, served>>

\* The entry is replaced by what the writer stored, or by an error when it failed.
NoteTaskListWritten(w) ==
  /\ pending[w] \in Versions \cup {Unknown} /\ cached' = TRUE
  /\ snap' = [data |-> IF pending[w] = Unknown THEN NoData ELSE pending[w],
              err |-> pending[w] = Unknown, gen |-> snap.gen + 1,
              stale |-> pending[w] = Unknown, refreshing |-> FALSE]
  /\ own' = IF pending[w] > own THEN pending[w] ELSE own
  /\ pending' = [pending EXCEPT ![w] =
       IF w \in Releases /\ pending[w] # Unknown THEN Released ELSE Settled]
  /\ UNCHANGED <<stored, refresh, served>>

\* dropTaskSnapshot, when the loop handles a release's outcome: the entry goes, its
\* generation with it.
DropTaskSnapshot(w) ==
  /\ pending[w] = Released /\ pending' = [pending EXCEPT ![w] = Settled]
  /\ cached' = FALSE /\ snap' = NoSnapshot
  /\ UNCHANGED <<stored, refresh, own, served>>

\* Another process edits the list; the TTL runs out.
OtherWrites ==
  /\ event("other") /\ stored < MaxVersion /\ stored' = stored + 1
  /\ UNCHANGED <<cached, snap, refresh, pending, own, served>>
Expires ==
  /\ cached /\ ~snap.stale /\ snap' = [snap EXCEPT !.stale = TRUE]
  /\ UNCHANGED <<stored, cached, refresh, pending, own, served>>

Reader == CachedTaskListServe \/ \E r \in Slots : CachedTaskListKick(r)
Next ==
  \/ Reader
  \/ \E r \in Slots : RefreshReads(r) \/ RefreshFails(r) \/ RefreshTaskSnapshot(r)
  \/ \E w \in Writers : MutateTaskList(w) \/ NoteTaskListWritten(w) \/ DropTaskSnapshot(w)
  \/ OtherWrites \/ Expires

Spec == Init /\ [][Next]_vars

\* Events and sweeps keep reading the list, the store answers now and then, store calls
\* time out, the loop handles outcomes, time passes.
Fairness ==
  /\ SF_vars(Reader) /\ WF_vars(Expires)
  /\ \A r \in Slots : SF_vars(RefreshReads(r)) /\ WF_vars(RefreshTaskSnapshot(r))
  /\ \A w \in Writers : WF_vars(NoteTaskListWritten(w)) /\ WF_vars(DropTaskSnapshot(w))
FairSpec == Spec /\ Fairness

-----------------------------------------------------------------------------
\* A snapshot is never older than the daemon's own last noted write: a refresh that read
\* the store before the write is discarded (taskSnapshot.gen), so a reserved item is not
\* read as pending again for a whole TTL.
OwnWritesStand == snap.data # NoData => snap.data >= own

\* A list no refresh has completed for is answered with an error, never as an empty list
\* (errTaskListNotCachedYet).
UnreadIsAnError == served # Empty

\* Whatever was dropped, superseded or failed meanwhile, a reader is given the store's
\* content again and again: a refresh is never latched out (taskSnapshot.refreshing).
CatchesUp == []<>(served = stored)

\* Why it holds while one writer works and no entry is dropped: a refresh of the current
\* generation read the store after that writer's last noted write, and none is of a
\* later generation.
RefreshesAreOrdered ==
  \A r \in Slots :
    /\ refresh[r].gen <= snap.gen
    /\ refresh[r].data # NoData /\ refresh[r].gen = snap.gen => refresh[r].data >= own
WritesAreOrdered ==
  \A w \in Writers :
    /\ pending[w] \in Versions => pending[w] >= own
    /\ pending[w] = Released => w \in Releases
CacheInv == TypeOK /\ OwnWritesStand /\ RefreshesAreOrdered /\ WritesAreOrdered
=============================================================================
