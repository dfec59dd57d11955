---------------------------- MODULE HandoutProofs ----------------------------
(***************************************************************************)
(* The promises of the hand-out for any number of agents, items and        *)
(* hand-outs: a finished item stays finished, every variable has its type, *)
(* no item of a local list is forgotten, and, where the code promises it,  *)
(* an item is in one agent's hands and offered a bounded number of times.  *)
(***************************************************************************)
EXTENDS TaskHandout, WellFoundedInduction, TLAPS

-----------------------------------------------------------------------------
(* Finished items.                                                          *)

MarksTyped == mark \in [Tasks -> Marks]
StaysFinished ==
  \A t \in Tasks : mark[t] = "[x]" /\ mark'[t] # "[x]" => TaskUndone(t) \/ TaskStart(t)

\* A step that leaves the list alone.
LEMMA ListUntouched ==
  ASSUME MarksTyped, UNCHANGED file
  PROVE  MarksTyped' /\ StaysFinished
  BY DEF MarksTyped, StaysFinished, file

\* A write that does not start from "[x]", or leaves it.
LEMMA SetMarkKeeps ==
  ASSUME MarksTyped, NEW t, NEW m \in Marks, NEW who, SetMark(t, m, who),
         mark[t] # "[x]" \/ m = "[x]"
  PROVE  MarksTyped' /\ StaysFinished
  BY DEF MarksTyped, StaysFinished, SetMark

\* Release and Reclaim only ever write over "[-]".
LEMMA GiveBackKeeps ==
  ASSUME MarksTyped, NEW t, GiveBack(t)
  PROVE  MarksTyped' /\ StaysFinished
<1>1. CASE Releasable(t)
  BY <1>1, SetMarkKeeps DEF GiveBack, Releasable, Marks
<1>2. CASE ~Releasable(t)
  BY <1>2, ListUntouched DEF GiveBack
<1> QED
  BY <1>1, <1>2

\* So does the rollback of a reservation, which may also fail.
LEMMA RollbackKeeps ==
  ASSUME MarksTyped, NEW t, Rollback(t)
  PROVE  MarksTyped' /\ StaysFinished
  BY GiveBackKeeps, ListUntouched DEF Rollback

\* No step but `undone` or `start` changes a finished item.
LEMMA NextKeepsFinished ==
  ASSUME MarksTyped, [Next]_vars
  PROVE  MarksTyped' /\ StaysFinished
<1>1. ASSUME Deliver PROVE MarksTyped' /\ StaysFinished
  <2>1. CASE DeliverAbandon \/ DeliverSend \/ DeliverRecord
    BY <2>1, ListUntouched DEF DeliverAbandon, DeliverSend, DeliverRecord
  <2>2. CASE DeliverReserve
    <3>1. CASE mark[del.task] = "[ ]"
      BY <2>2, <3>1, SetMarkKeeps DEF DeliverReserve, Marks
    <3>2. CASE mark[del.task] # "[ ]"
      BY <2>2, <3>2, ListUntouched DEF DeliverReserve
    <3> QED
      BY <3>1, <3>2
  <2>3. CASE DeliverLastLook
    BY <2>3, RollbackKeeps DEF DeliverLastLook
  <2>4. CASE DeliverSendFails
    <3>1. GiveBack(del.task) \/ Rollback(del.task) \/ UNCHANGED file
      BY <2>4 DEF DeliverSendFails
    <3> QED
      BY <3>1, GiveBackKeeps, RollbackKeeps, ListUntouched
  <2> QED
    BY <1>1, <2>1, <2>2, <2>3, <2>4 DEF Deliver
<1>2. ASSUME Sweep PROVE MarksTyped' /\ StaysFinished
  <2>1. CASE BeginSweep \/ SweepSettled \/ SweepPair
    BY <2>1, ListUntouched DEF BeginSweep, SweepSettled, SweepPair
  <2>2. ASSUME NEW i \in Ids,
               SweepRead(i) \/ SweepRetire(i) \/ SweepLeave(i) \/ SweepEscalate(i)
                 \/ SweepReleaseAsync(i)
        PROVE  MarksTyped' /\ StaysFinished
    BY <2>2, ListUntouched DEF SweepRead, SweepRetire, SweepLeave, SweepEscalate,
       SweepReleaseAsync
  <2>3. ASSUME NEW i \in Ids, SweepReclaim(i) PROVE MarksTyped' /\ StaysFinished
    <3>1. \/ Releasable(row[i].task) /\ SetMark(row[i].task, "[ ]", "nobody")
          \/ UNCHANGED file
      BY <2>3 DEF SweepReclaim
    <3> QED
      BY <3>1, SetMarkKeeps, ListUntouched DEF Releasable, Marks
  <2> QED
    BY <1>2, <2>1, <2>2, <2>3 DEF Sweep, SweepRow
<1>3. CASE Transition \/ Attention
  BY <1>3, ListUntouched DEF Transition, Attention, HandleWorking, HandleParked, DecideToSend,
     DecideNothing
<1>4. ASSUME Background PROVE MarksTyped' /\ StaysFinished
  <2>1. ASSUME NEW i \in Ids, ReleaseFinishes(i) PROVE MarksTyped' /\ StaysFinished
    BY <2>1, GiveBackKeeps DEF ReleaseFinishes
  <2>2. ASSUME NEW i \in Ids, HandleTaskReclaimOutcome(i) PROVE MarksTyped' /\ StaysFinished
    BY <2>2, ListUntouched DEF HandleTaskReclaimOutcome
  <2>3. CASE RefreshTaskSnapshot
    BY <2>3, ListUntouched DEF RefreshTaskSnapshot
  <2> QED
    BY <1>4, <2>1, <2>2, <2>3 DEF Background
<1>5. ASSUME World PROVE MarksTyped' /\ StaysFinished
  <2>1. ASSUME NEW t \in Tasks, TaskDone(t) PROVE MarksTyped' /\ StaysFinished
    BY <2>1, SetMarkKeeps DEF TaskDone, Edit, Marks
  <2>2. ASSUME NEW t \in Tasks, TaskStart(t) \/ TaskUndone(t) PROVE MarksTyped' /\ StaysFinished
    BY <2>2 DEF MarksTyped, StaysFinished, TaskStart, TaskUndone, Edit, SetMark, Marks
  <2>3. ASSUME NEW a \in Agents, AgentParks(a) PROVE MarksTyped' /\ StaysFinished
    <3>1. SetMark(doing[a], "[x]", "nobody") \/ UNCHANGED file
      BY <2>3 DEF AgentParks
    <3> QED
      BY <3>1, SetMarkKeeps, ListUntouched DEF Marks
  <2>4. CASE PauseOrResume
    BY <2>4, ListUntouched DEF PauseOrResume
  <2>5. ASSUME NEW a \in Agents,
               \/ DeclareOrEndWait(a) \/ AgentWorksElsewhere(a) \/ AgentReparks(a)
               \/ AgentLeaves(a) \/ PaneRecycled(a)
               \/ \E t \in Tasks : AgentStarts(a, t) \/ KeysLost(a, t)
        PROVE  MarksTyped' /\ StaysFinished
    BY <2>5, ListUntouched DEF DeclareOrEndWait, AgentWorksElsewhere, AgentReparks, AgentLeaves,
       PaneRecycled, AgentStarts, KeysLost
  <2> QED
    BY <1>5, <2>1, <2>2, <2>3, <2>4, <2>5 DEF World
<1>6. CASE Crash \/ Start \/ \E i \in Ids : RowAges(i)
  BY <1>6, ListUntouched DEF Crash, Start, RowAges
<1>7. CASE UNCHANGED vars
  BY <1>7, ListUntouched DEF vars
<1> QED
  BY <1>1, <1>2, <1>3, <1>4, <1>5, <1>6, <1>7 DEF Next

\* A finished item is reopened by nothing but `hap task undone` or `start`: no rollback, reclaim,
\* late release or second hand-out does (taskfile Release, Reclaim, ReserveFirstPending).
THEOREM FinishedAlwaysStays == Spec => FinishedStaysFinished
<1>1. Init => MarksTyped
  BY DEF Init, MarksTyped, Marks
<1>2. MarksTyped /\ [Next]_vars => MarksTyped'
  BY NextKeepsFinished
<1>3. MarksTyped /\ [Next]_vars => [StaysFinished]_vars
  BY NextKeepsFinished
<1> QED
  BY <1>1, <1>2, <1>3, PTL DEF Spec, FinishedStaysFinished, StaysFinished

-----------------------------------------------------------------------------
(* Types.                                                                   *)

\* TypeOK by groups of variables.
FileT == mark \in [Tasks -> Marks] /\ owner \in [Tasks -> {"nobody", "daemon", "other"}]
LedgerT ==
  /\ open \subseteq Ids /\ confirmed \subseteq open /\ open \subseteq 1..(nextId - 1)
  /\ row \in [Ids -> [task : Tasks \cup {0}, agent : Agents \cup {0}, term : Terms]]
  /\ \A i \in open : row[i].task \in Tasks /\ row[i].agent \in Agents
  /\ age \in [Ids -> Fresh..Over] /\ restamps \in [Ids -> 0..maxHandoutRestamps]
  /\ attempts \in [Tasks -> Nat] /\ nextId \in 1..(MaxRows + 1)
SwitchT == paused \in BOOLEAN /\ waits \subseteq Agents /\ up \in BOOLEAN
MemoryT ==
  /\ claim \in [Agents -> Tasks \cup {0}] /\ idle \in [Agents -> Terms]
  /\ handled \subseteq Agents /\ armed \subseteq Agents /\ armTerm \in [Agents -> Terms]
ListT ==
  /\ snap \in [Tasks -> Marks] \cup {NotCached, Refused, Blank}
  /\ copy \in [Tasks -> Marks] \cup {NoCopy, Blank}
LoopT ==
  /\ lpc \in {"idle", "sweep", "pair", "decided", "reserved", "typed"}
  /\ lpc \in {"decided", "reserved", "typed"}
       => del.agent \in Agents /\ del.task \in Tasks /\ del.term \in Terms
  /\ listing \in [Agents -> [status : {"gone", "parked", "working"}, term : Terms]]
  /\ todo \subseteq Ids /\ barred \subseteq Agents
ReleaseT == flight \in [Ids -> Nat] /\ outcomes \subseteq Ids
AgentsT ==
  /\ status \in [Agents -> {"gone", "parked", "working"}] /\ term \in [Agents -> 1..MaxTerm]
  /\ inbox \in [Agents -> SUBSET Tasks] /\ doing \in [Agents -> Tasks \cup {0}]
  /\ evq \in [Agents -> {"none", "working", "parked", "both"}]
HistoryT ==
  /\ tries \in [Tasks -> Nat] /\ told \subseteq Tasks
  /\ faults \in 0..MaxFaults /\ crashes \in 0..MaxCrashes

\* The loop delivers only while a ledger row is left to write, and the rows a sweep has
\* still to settle are open.
LoopOK ==
  /\ lpc \in {"decided", "reserved", "typed"} => nextId <= MaxRows
  /\ todo \subseteq open /\ (lpc # "sweep" => todo = {})

TInv == /\ FileT /\ LedgerT /\ SwitchT /\ MemoryT /\ ListT /\ LoopT /\ ReleaseT /\ AgentsT
        /\ HistoryT /\ LoopOK

\* The groups together are the module's type invariant.
LEMMA Typed == TInv => TypeOK
  BY DEF TInv, TypeOK, FileT, LedgerT, SwitchT, MemoryT, ListT, LoopT, ReleaseT, AgentsT, HistoryT

\* The groups of variables are transparent from here on.
USE DEF file, ledger, switches, memory, loop, release, agents, history, bounds, sweepRest, outside

\* A step that leaves a group's variables alone.
LEMMA Kept ==
  /\ FileT /\ UNCHANGED <<mark, owner>> => FileT'
  /\ LedgerT /\ UNCHANGED <<open, row, age, restamps, confirmed, attempts, nextId>> => LedgerT'
  /\ SwitchT /\ UNCHANGED <<paused, waits, up>> => SwitchT'
  /\ MemoryT /\ UNCHANGED <<claim, idle, handled, armed, armTerm>> => MemoryT'
  /\ ListT /\ UNCHANGED <<snap, copy>> => ListT'
  /\ LoopT /\ UNCHANGED <<lpc, del, listing, todo, barred>> => LoopT'
  /\ ReleaseT /\ UNCHANGED <<flight, outcomes>> => ReleaseT'
  /\ AgentsT /\ UNCHANGED <<status, term, inbox, doing, evq>> => AgentsT'
  /\ HistoryT /\ UNCHANGED <<tries, told, faults, crashes>> => HistoryT'
  /\ LoopOK /\ UNCHANGED <<lpc, nextId, todo, open>> => LoopOK'
  BY DEF FileT, LedgerT, SwitchT, MemoryT, ListT, LoopT, ReleaseT, AgentsT, HistoryT, LoopOK

\* The least of a set of items is one of them: First is never arbitrary.
Earlier == {p \in Nat \X Nat : p[1] < p[2]}

LEMMA Least ==
  ASSUME NEW S \in SUBSET Nat, S # {}
  PROVE  First(S) \in S
<1>1. IsWellFoundedOn(Earlier, Nat)
  BY NatLessThanWellFounded DEF OpToRel, Earlier
<1>2. PICK n \in S : \A m \in S : ~(<<m, n>> \in Earlier)
  BY <1>1, WFMin
<1>3. \A m \in S : n <= m
  <2> SUFFICES ASSUME NEW m \in S PROVE n <= m
    OBVIOUS
  <2>1. <<m, n>> \notin Earlier
    BY <1>2
  <2>2. <<m, n>> \in Nat \X Nat
    OBVIOUS
  <2> QED
    BY <2>1, <2>2 DEF Earlier
<1> QED
  BY <1>3 DEF First

LEMMA GiveBackT ==
  ASSUME FileT, ListT, NEW t, GiveBack(t), copy' = copy
  PROVE  FileT' /\ ListT'
<1>1. CASE Releasable(t)
  <2>1. FileT'
    BY <1>1 DEF GiveBack, SetMark, FileT, Marks
  <2>2. snap' = mark' \/ snap' = snap
    BY <1>1 DEF GiveBack, NoteTaskListWritten
  <2> QED
    BY <2>1, <2>2 DEF ListT, FileT
<1>2. CASE ~Releasable(t)
  BY <1>2 DEF GiveBack, NoteTaskListRefused, FileT, ListT
<1> QED
  BY <1>1, <1>2

LEMMA RollbackT ==
  ASSUME FileT, ListT, NEW t, Rollback(t), copy' = copy
  PROVE  FileT' /\ ListT'
<1>1. CASE GiveBack(t)
  BY <1>1, GiveBackT
<1>2. CASE UNCHANGED file /\ NoteTaskListRefused
  BY <1>2 DEF NoteTaskListRefused, FileT, ListT
<1> QED
  BY <1>1, <1>2 DEF Rollback

LEMMA FaultsT == ASSUME HistoryT, UNCHANGED <<tries, told, crashes>>,
                        Succeeds \/ \E w \in FaultKinds : Fails(w)
                 PROVE  HistoryT'
  BY HandoutBounds DEF HistoryT, Succeeds, Fails

\* The initial state is typed.
LEMMA InitT == Init => TInv
<1> SUFFICES ASSUME Init PROVE TInv
  OBVIOUS
<1>0. 0 \in Terms /\ 1 \in 1..MaxTerm /\ 1 \in 1..(MaxRows + 1)
  BY HandoutBounds DEF Terms
<1>1. FileT
  BY DEF Init, FileT, Marks
<1>2. LedgerT
  <2>1. row \in [Ids -> [task : Tasks \cup {0}, agent : Agents \cup {0}, term : Terms]]
    BY <1>0 DEF Init
  <2>2. age \in [Ids -> Fresh..Over] /\ restamps \in [Ids -> 0..maxHandoutRestamps]
    <3>1. age = [i \in Ids |-> 0] /\ restamps = [i \in Ids |-> 0]
      BY DEF Init, Fresh
    <3> QED
      BY <3>1 DEF Fresh, Over, maxHandoutRestamps
  <2>3. attempts \in [Tasks -> Nat]
    BY DEF Init
  <2> QED
    BY <1>0, <2>1, <2>2, <2>3 DEF Init, LedgerT
<1>3. SwitchT /\ ReleaseT /\ HistoryT
  <2>1. flight \in [Ids -> Nat] /\ tries \in [Tasks -> Nat]
    BY DEF Init
  <2>2. faults = 0 /\ crashes = 0 /\ told = {} /\ outcomes = {}
    BY DEF Init
  <2>3. SwitchT
    BY DEF Init, SwitchT
  <2> QED
    BY <2>1, <2>2, <2>3, HandoutBounds DEF ReleaseT, HistoryT
<1>4. MemoryT
  BY <1>0 DEF Init, MemoryT
<1>5. ListT
  BY DEF Init, ListT
<1>6. LoopT /\ LoopOK
  <2>1. listing \in [Agents -> [status : {"gone", "parked", "working"}, term : Terms]]
    BY <1>0 DEF Init
  <2> QED
    BY <2>1 DEF Init, LoopT, LoopOK
<1>7. AgentsT
  BY <1>0 DEF Init, AgentsT
<1> QED
  BY <1>1, <1>2, <1>3, <1>4, <1>5, <1>6, <1>7 DEF TInv

LEMMA TransitionT ==
  ASSUME TInv, NEW a \in Agents, HandleWorking(a) \/ HandleParked(a)
  PROVE  TInv'
<1>1. CASE HandleWorking(a)
  <2>1. AgentsT'
    <3>1. evq' \in [Agents -> {"none", "working", "parked", "both"}]
      BY <1>1 DEF HandleWorking, TInv, AgentsT
    <3> QED
      BY <1>1, <3>1 DEF HandleWorking, TInv, AgentsT
  <2>2. MemoryT'
    BY <1>1, HandoutBounds DEF HandleWorking, TInv, MemoryT, DropClaim, Terms
  <2>3. LedgerT'
    BY <1>1 DEF HandleWorking, TInv, LedgerT, ConfirmTaskReservations
  <2>4. HistoryT'
    BY <1>1, FaultsT DEF HandleWorking, TInv, ConfirmTaskReservations, FaultKinds
  <2> QED
    BY <1>1, <2>1, <2>2, <2>3, <2>4, Kept DEF HandleWorking, TInv
<1>2. CASE HandleParked(a)
  <2>1. AgentsT'
    BY <1>2 DEF HandleParked, TInv, AgentsT
  <2>2. MemoryT'
    BY <1>2, HandoutBounds DEF HandleParked, TInv, MemoryT, Terms
  <2> QED
    BY <1>2, <2>1, <2>2, Kept DEF HandleParked, TInv
<1> QED
  BY <1>1, <1>2

LEMMA DeclaredT ==
  ASSUME NEW a \in Agents
  PROVE  DeclaredTask(a) \in Tasks \cup {0}
  BY Least, TasksAssumption DEF DeclaredTask, Pending

LEMMA AttentionT ==
  ASSUME TInv, NEW a \in Agents, DecideToSend(a) \/ DecideNothing(a)
  PROVE  TInv'
<1>1. CASE DecideToSend(a)
  <2>1. MemoryT'
    BY <1>1 DEF DecideToSend, TInv, MemoryT, DropClaim
  <2>2. LoopT' /\ LoopOK'
    BY <1>1, DeclaredT DEF DecideToSend, TInv, LoopT, MemoryT, LoopOK, LoopIdle
  <2> QED
    BY <1>1, <2>1, <2>2, Kept DEF DecideToSend, TInv
<1>2. CASE DecideNothing(a)
  <2>1. MemoryT'
    BY <1>2 DEF DecideNothing, TInv, MemoryT, DropClaim
  <2>2. ListT'
    BY <1>2 DEF DecideNothing, TInv, ListT, AfterRead
  <2> QED
    BY <1>2, <2>1, <2>2, Kept DEF DecideNothing, TInv
<1> QED
  BY <1>1, <1>2

LEMMA EndDeliveryT ==
  ASSUME LoopT, LoopOK, lpc # "sweep", EndDelivery, UNCHANGED <<listing, todo, barred>>,
         open \subseteq open'
  PROVE  LoopT' /\ LoopOK'
  BY DEF LoopT, LoopOK, EndDelivery

LEMMA DropClaimT ==
  ASSUME MemoryT, NEW a, DropClaim(a), UNCHANGED <<idle, handled, armed, armTerm>>
  PROVE  MemoryT'
  BY DEF MemoryT, DropClaim

LEMMA DropClaimForT ==
  ASSUME MemoryT, NEW i, DropClaimFor(i), UNCHANGED <<idle, handled, armed, armTerm>>
  PROVE  MemoryT'
  BY DropClaimT DEF MemoryT, DropClaimFor

LEMMA DeliverT ==
  ASSUME TInv, Deliver
  PROVE  TInv'
<1>1. CASE DeliverAbandon
  <2>1. MemoryT' /\ LoopT' /\ LoopOK'
    BY <1>1, DropClaimT, EndDeliveryT DEF DeliverAbandon, TInv
  <2> QED
    BY <1>1, <2>1, Kept DEF DeliverAbandon, TInv
<1>2. CASE DeliverReserve
  <2>1. CASE mark[del.task] = "[ ]"
    <3>1. FileT'
      BY <1>2, <2>1 DEF DeliverReserve, SetMark, TInv, FileT, Marks
    <3>2. ListT'
      BY <1>2, <2>1, <3>1 DEF DeliverReserve, NoteTaskListWritten, TInv, FileT, ListT
    <3>3. LoopT' /\ LoopOK'
      BY <1>2, <2>1 DEF DeliverReserve, TInv, LoopT, LoopOK
    <3> QED
      BY <1>2, <2>1, <3>1, <3>2, <3>3, Kept DEF DeliverReserve, TInv
  <2>2. CASE mark[del.task] # "[ ]"
    <3>1. MemoryT' /\ LoopT' /\ LoopOK'
      BY <1>2, <2>2, DropClaimT, EndDeliveryT DEF DeliverReserve, TInv
    <3>2. ListT'
      BY <1>2, <2>2 DEF DeliverReserve, NoteTaskListRefused, TInv, ListT
    <3> QED
      BY <1>2, <2>2, <3>1, <3>2, Kept DEF DeliverReserve, TInv
  <2> QED
    BY <2>1, <2>2
<1>3. CASE DeliverLastLook
  <2>1. MemoryT' /\ LoopT' /\ LoopOK'
    BY <1>3, DropClaimT, EndDeliveryT DEF DeliverLastLook, TInv
  <2>2. FileT' /\ ListT'
    BY <1>3, RollbackT DEF DeliverLastLook, TInv
  <2>3. HistoryT'
    BY <1>3, FaultsT DEF DeliverLastLook, Rollback, TInv, FaultKinds
  <2> QED
    BY <1>3, <2>1, <2>2, <2>3, Kept DEF DeliverLastLook, TInv
<1>4. CASE DeliverSend
  <2>1. AgentsT'
    BY <1>4 DEF DeliverSend, TInv, AgentsT, LoopT
  <2>2. HistoryT'
    BY <1>4 DEF DeliverSend, TInv, HistoryT, LoopT
  <2>3. LoopT' /\ LoopOK'
    BY <1>4 DEF DeliverSend, TInv, LoopT, LoopOK
  <2> QED
    BY <1>4, <2>1, <2>2, <2>3, Kept DEF DeliverSend, TInv
<1>5. CASE DeliverSendFails
  <2>1. MemoryT' /\ LoopT' /\ LoopOK'
    BY <1>5, DropClaimT, EndDeliveryT DEF DeliverSendFails, KeepRows, TInv
  <2>2. FileT' /\ ListT'
    <3>1. GiveBack(del.task) \/ Rollback(del.task) \/ UNCHANGED <<mark, owner, snap>>
      BY <1>5 DEF DeliverSendFails
    <3> QED
      BY <1>5, <3>1, GiveBackT, RollbackT, Kept DEF DeliverSendFails, TInv
  <2>3. LedgerT'
    <3>1. attempts' \in [Tasks -> Nat]
      BY <1>5 DEF DeliverSendFails, ClearTaskHandouts, TInv, LedgerT, LoopT
    <3> QED
      BY <1>5, <3>1 DEF DeliverSendFails, KeepRows, TInv, LedgerT
  <2>4. HistoryT'
    <3>1. faults' \in 0..MaxFaults
      BY <1>5, HandoutBounds DEF DeliverSendFails, Rollback, Succeeds, Fails, TInv, HistoryT
    <3>2. tries' \in [Tasks -> Nat] /\ told' \subseteq Tasks /\ crashes' = crashes
      BY <1>5 DEF DeliverSendFails, TInv, HistoryT, LoopT
    <3> QED
      BY <3>1, <3>2 DEF TInv, HistoryT
  <2> QED
    BY <1>5, <2>1, <2>2, <2>3, <2>4, Kept DEF DeliverSendFails, TInv
<1>6. CASE DeliverRecord
  <2>1. CASE Succeeds /\ UNCHANGED <<restamps, confirmed>> /\ open' = open \cup {nextId}
             /\ nextId' = nextId + 1 /\ age' = [age EXCEPT ![nextId] = Fresh]
             /\ row' = [row EXCEPT ![nextId] = [task |-> del.task, agent |-> del.agent,
                                                term |-> del.term]]
             /\ attempts' = [attempts EXCEPT ![del.task] = @ + 1]
    <3>1. /\ del.task \in Tasks /\ del.agent \in Agents /\ del.term \in Terms
          /\ nextId \in Ids /\ nextId \notin open
      BY <1>6, HandoutBounds DEF DeliverRecord, TInv, LoopT, LoopOK, LedgerT, Ids
    <3>2. /\ row' \in [Ids -> [task : Tasks \cup {0}, agent : Agents \cup {0}, term : Terms]]
          /\ \A i \in open' : row'[i].task \in Tasks /\ row'[i].agent \in Agents
      BY <2>1, <3>1 DEF TInv, LedgerT
    <3>3. age' \in [Ids -> Fresh..Over] /\ attempts' \in [Tasks -> Nat]
      BY <2>1, <3>1 DEF TInv, LedgerT, Fresh, Over
    <3>4. open' \subseteq 1..(nextId' - 1) /\ nextId' \in 1..(MaxRows + 1)
      BY <2>1, <3>1, HandoutBounds DEF TInv, LedgerT, Ids
    <3>5. LedgerT'
      BY <2>1, <3>1, <3>2, <3>3, <3>4 DEF TInv, LedgerT
    <3>6. LoopT' /\ LoopOK'
      BY <1>6, <2>1, EndDeliveryT DEF DeliverRecord, TInv
    <3> QED
      BY <1>6, <2>1, <3>5, <3>6, Kept DEF DeliverRecord, TInv, Succeeds
  <2>2. CASE Fails("record") /\ UNCHANGED ledger
    <3>1. LoopT' /\ LoopOK'
      BY <1>6, <2>2, EndDeliveryT DEF DeliverRecord, TInv
    <3>2. HistoryT'
      BY <1>6, <2>2, FaultsT DEF DeliverRecord, TInv, FaultKinds
    <3> QED
      BY <1>6, <2>2, <3>1, <3>2, Kept DEF DeliverRecord, TInv
  <2> QED
    BY <1>6, <2>1, <2>2 DEF DeliverRecord, RecordTaskReservation
<1> QED
  BY <1>1, <1>2, <1>3, <1>4, <1>5, <1>6 DEF Deliver

LEMMA SweepRowIsOpen ==
  ASSUME TInv, NEW i, SweepAt(i)
  PROVE  i \in todo /\ i \in open /\ i \in Ids /\ row[i].task \in Tasks /\ row[i].agent \in Agents
<1>1. todo \in SUBSET Nat /\ todo # {}
  BY DEF SweepAt, TInv, LoopT, Ids
<1> QED
  BY <1>1, Least DEF SweepAt, TInv, LoopOK, LedgerT

LEMMA SettledT ==
  ASSUME LoopT, LoopOK, NEW i, todo' = todo \ {i}, open' \in {open, open \ {i}},
         barred' \subseteq Agents, UNCHANGED <<lpc, del, listing, nextId>>
  PROVE  LoopT' /\ LoopOK'
  BY DEF LoopT, LoopOK

LEMMA BeginSweepT == ASSUME TInv, BeginSweep PROVE TInv'
<1>1. MemoryT'
  <2>1. \A a \in Agents : term[a] \in Terms /\ claim[a] \in Tasks \cup {0} /\ 0 \in Terms
    BY HandoutBounds DEF TInv, AgentsT, MemoryT, Terms
  <2>2. claim' \in [Agents -> Tasks \cup {0}]
    BY <2>1 DEF BeginSweep
  <2>3. idle' \in [Agents -> Terms]
    BY <2>1 DEF BeginSweep
  <2>4. armTerm' \in [Agents -> Terms]
    BY <2>1 DEF BeginSweep, TInv, MemoryT
  <2>5. handled' \subseteq Agents /\ armed' \subseteq Agents
    BY DEF BeginSweep, TInv, MemoryT
  <2> QED
    BY <2>2, <2>3, <2>4, <2>5 DEF MemoryT
<1>2. listing' \in [Agents -> [status : {"gone", "parked", "working"}, term : Terms]]
  <2>1. \A a \in Agents : term[a] \in Terms /\ status[a] \in {"gone", "parked", "working"}
    BY HandoutBounds DEF TInv, AgentsT, Terms
  <2> QED
    BY <2>1 DEF BeginSweep
<1>3. \/ UNCHANGED <<lpc, todo, barred>>
      \/ lpc' = "sweep" /\ todo' = open /\ barred' \subseteq Agents
  BY DEF BeginSweep
<1>4. LoopT' /\ LoopOK'
  BY <1>2, <1>3 DEF BeginSweep, LoopIdle, TInv, LoopT, LoopOK, LedgerT
<1>5. HistoryT'
  BY FaultsT DEF BeginSweep, TInv, FaultKinds, Succeeds
<1> QED
  BY <1>1, <1>4, <1>5, Kept DEF BeginSweep, TInv

LEMMA RetireT ==
  ASSUME TInv, NEW i \in open, RetireReservation(i), UNCHANGED <<tries, told, crashes>>
  PROVE  LedgerT' /\ HistoryT' /\ open' \in {open, open \ {i}} /\ nextId' = nextId
<1>1. /\ open' \in {open, open \ {i}} /\ confirmed' \subseteq open'
      /\ UNCHANGED <<row, age, restamps, nextId>>
  BY DEF RetireReservation, DeleteRow, KeepRows, TInv, LedgerT
<1>2. attempts' \in [Tasks -> Nat]
  BY DEF RetireReservation, ClearTaskHandouts, TInv, LedgerT
<1>3. HistoryT'
  BY FaultsT DEF RetireReservation, TInv, FaultKinds
<1> QED
  BY <1>1, <1>2, <1>3 DEF TInv, LedgerT

LEMMA SweepRowT == ASSUME TInv, NEW i \in Ids, SweepRow(i) PROVE TInv'
<1>1. CASE SweepRead(i)
  <2>1. ListT'
    BY <1>1 DEF SweepRead, Readable, ListView, TInv, ListT, FileT
  <2> QED
    BY <1>1, <2>1, Kept DEF SweepRead, TInv
<1>2. CASE SweepRetire(i)
  <2>1. i \in open
    BY <1>2, SweepRowIsOpen DEF SweepRetire
  <2>2. LedgerT' /\ HistoryT' /\ open' \in {open, open \ {i}} /\ nextId' = nextId
    BY <1>2, <2>1, RetireT DEF SweepRetire
  <2>3. LoopT' /\ LoopOK'
    BY <1>2, <2>2, SettledT DEF SweepRetire, TInv, LoopT
  <2> QED
    BY <1>2, <2>2, <2>3, Kept DEF SweepRetire, TInv
<1>3. CASE SweepLeave(i)
  <2>1. row[i].agent \in Agents
    BY <1>3, SweepRowIsOpen DEF SweepLeave
  <2>2. LoopT' /\ LoopOK'
    BY <1>3, <2>1, SettledT DEF SweepLeave, TInv, LoopT
  <2>3. ListT'
    BY <1>3 DEF SweepLeave, AfterRead, TInv, ListT
  <2> QED
    BY <1>3, <2>2, <2>3, Kept DEF SweepLeave, TInv
<1>4. CASE SweepEscalate(i)
  <2>1. i \in open /\ row[i].task \in Tasks
    BY <1>4, SweepRowIsOpen DEF SweepEscalate
  <2>2. /\ open' \in {open, open \ {i}} /\ confirmed' \subseteq open'
        /\ UNCHANGED <<row, age, restamps, nextId>>
    BY <1>4 DEF SweepEscalate, DeleteRow, KeepRows, TInv, LedgerT
  <2>3. attempts' \in [Tasks -> Nat]
    BY <1>4 DEF SweepEscalate, ClearTaskHandouts, TInv, LedgerT
  <2>4. LedgerT'
    BY <2>2, <2>3 DEF TInv, LedgerT
  <2>5. LoopT' /\ LoopOK'
    BY <1>4, <2>2, SettledT DEF SweepEscalate, TInv, LoopT
  <2>6. MemoryT'
    BY <1>4, DropClaimForT DEF SweepEscalate, TInv
  <2>7. faults' \in 0..MaxFaults
    BY <1>4, HandoutBounds DEF SweepEscalate, Succeeds, Fails, TInv, HistoryT
  <2>8. HistoryT'
    BY <1>4, <2>1, <2>7 DEF SweepEscalate, TInv, HistoryT
  <2> QED
    BY <1>4, <2>4, <2>5, <2>6, <2>8, Kept DEF SweepEscalate, TInv
<1>5. CASE SweepReclaim(i)
  <2>1. i \in open /\ row[i].task \in Tasks /\ row[i].agent \in Agents
    BY <1>5, SweepRowIsOpen DEF SweepReclaim
  <2>2. /\ open' \in {open, open \ {i}} /\ confirmed' \subseteq open'
        /\ UNCHANGED <<row, age, restamps, nextId, attempts>>
    BY <1>5 DEF SweepReclaim, DeleteRow, KeepRows, TInv, LedgerT
  <2>3. LedgerT'
    BY <2>2 DEF TInv, LedgerT
  <2>4. LoopT' /\ LoopOK'
    <3>1. barred' \subseteq Agents
      BY <1>5, <2>1 DEF SweepReclaim, TInv, LoopT
    <3> QED
      BY <1>5, <2>2, <3>1, SettledT DEF SweepReclaim, TInv
  <2>5. MemoryT'
    <3>1. DropClaimFor(i) \/ UNCHANGED claim
      BY <1>5 DEF SweepReclaim
    <3> QED
      BY <1>5, <3>1, DropClaimForT, Kept DEF SweepReclaim, TInv
  <2>6. FileT' /\ ListT'
    <3>1. CASE SetMark(row[i].task, "[ ]", "nobody") /\ NoteTaskListWritten /\ copy' = NoCopy
      <4>1. FileT'
        BY <3>1 DEF SetMark, TInv, FileT, Marks
      <4> QED
        BY <3>1, <4>1 DEF NoteTaskListWritten, TInv, FileT, ListT
    <3>2. CASE NoteTaskListRefused /\ UNCHANGED <<file, copy>>
      BY <3>2 DEF NoteTaskListRefused, TInv, FileT, ListT
    <3> QED
      BY <1>5, <3>1, <3>2 DEF SweepReclaim
  <2>7. HistoryT'
    <3>1. Succeeds \/ \E w \in FaultKinds : Fails(w)
      BY <1>5 DEF SweepReclaim, FaultKinds
    <3> QED
      BY <1>5, <3>1, FaultsT DEF SweepReclaim, TInv
  <2> QED
    BY <1>5, <2>3, <2>4, <2>5, <2>6, <2>7, Kept DEF SweepReclaim, TInv
<1>6. CASE SweepReleaseAsync(i)
  <2>1. row[i].agent \in Agents
    BY <1>6, SweepRowIsOpen DEF SweepReleaseAsync
  <2>2. LoopT' /\ LoopOK'
    BY <1>6, <2>1, SettledT DEF SweepReleaseAsync, TInv, LoopT
  <2>3. ReleaseT'
    BY <1>6 DEF SweepReleaseAsync, TInv, ReleaseT
  <2> QED
    BY <1>6, <2>2, <2>3, Kept DEF SweepReleaseAsync, TInv
<1> QED
  BY <1>1, <1>2, <1>3, <1>4, <1>5, <1>6 DEF SweepRow

LEMMA SweepPairT == ASSUME TInv, SweepPair PROVE TInv'
<1>1. PICK given, driven :
        /\ driven \in SUBSET Agents /\ \A a \in driven : given[a] \in Tasks \cup {0}
        /\ claim' = [a \in Agents |-> IF a \in driven THEN given[a] ELSE claim[a]]
        /\ armed' = armed \cup driven /\ handled' = handled \cup driven
        /\ armTerm' = [a \in Agents |-> IF a \in driven THEN listing[a].term ELSE armTerm[a]]
  <2> DEFINE eligible == {a \in Agents \ barred : listing[a].status = "parked" /\ claim[a] = 0
                                              /\ a \notin waits}
             pending == IF ~Readable THEN {}
                        ELSE Pending(ListView) \ {claim[a] : a \in Agents}
  <2>1. PICK given \in [eligible -> pending \cup {0}] :
          /\ claim' = [a \in Agents |-> IF a \in {e \in eligible : given[e] # 0}
                                  THEN given[a] ELSE claim[a]]
          /\ armed' = armed \cup {e \in eligible : given[e] # 0}
          /\ handled' = handled \cup {e \in eligible : given[e] # 0}
          /\ armTerm' = [a \in Agents |-> IF a \in {e \in eligible : given[e] # 0}
                                    THEN listing[a].term ELSE armTerm[a]]
    BY DEF SweepPair
  <2>2. pending \subseteq Tasks /\ eligible \subseteq Agents
    BY DEF Pending
  <2> HIDE DEF eligible, pending
  <2> DEFINE driven == {e \in eligible : given[e] # 0}
  <2>3. driven \in SUBSET Agents /\ \A a \in driven : given[a] \in Tasks \cup {0}
    BY <2>1, <2>2
  <2>4. /\ claim' = [a \in Agents |-> IF a \in driven THEN given[a] ELSE claim[a]]
        /\ armed' = armed \cup driven /\ handled' = handled \cup driven
        /\ armTerm' = [a \in Agents |-> IF a \in driven THEN listing[a].term ELSE armTerm[a]]
    BY <2>1
  <2> HIDE DEF driven
  <2> QED
    BY <2>3, <2>4
<1>2. MemoryT'
  <2>1. \A a \in Agents : listing[a].term \in Terms
    BY DEF TInv, LoopT
  <2> QED
    BY <1>1, <2>1 DEF SweepPair, TInv, MemoryT
<1>3. LoopT' /\ LoopOK'
  BY DEF SweepPair, EndSweep, TInv, LoopT, LoopOK
<1>4. ListT'
  <2>1. snap' = AfterRead \/ snap' = snap
    BY DEF SweepPair
  <2> QED
    BY <2>1 DEF SweepPair, EndSweep, AfterRead, TInv, ListT
<1> QED
  BY <1>2, <1>3, <1>4, Kept DEF SweepPair, TInv

LEMMA SweepT == ASSUME TInv, Sweep PROVE TInv'
<1>1. CASE SweepSettled
  <2>1. LoopT' /\ LoopOK'
    BY <1>1 DEF SweepSettled, TInv, LoopT, LoopOK
  <2> QED
    BY <1>1, <2>1, Kept DEF SweepSettled, TInv
<1> QED
  BY <1>1, BeginSweepT, SweepRowT, SweepPairT DEF Sweep

LEMMA BackgroundT == ASSUME TInv, Background PROVE TInv'
<1>1. ASSUME NEW i \in Ids, ReleaseFinishes(i) PROVE TInv'
  <2>1. FileT' /\ ListT'
    BY <1>1, GiveBackT DEF ReleaseFinishes, TInv
  <2>2. ReleaseT'
    <3>1. flight[i] - 1 \in Nat
      BY <1>1 DEF ReleaseFinishes, TInv, ReleaseT
    <3>2. flight' \in [Ids -> Nat]
      BY <1>1, <3>1 DEF ReleaseFinishes, TInv, ReleaseT
    <3>3. outcomes' \subseteq Ids
      BY <1>1 DEF ReleaseFinishes, TInv, ReleaseT
    <3> QED
      BY <3>2, <3>3 DEF ReleaseT
  <2> QED
    BY <1>1, <2>1, <2>2, Kept DEF ReleaseFinishes, TInv
<1>2. ASSUME NEW i \in Ids, HandleTaskReclaimOutcome(i) PROVE TInv'
  <2>1. ReleaseT' /\ ListT'
    BY <1>2 DEF HandleTaskReclaimOutcome, TInv, ReleaseT, ListT
  <2>2. MemoryT'
    BY <1>2, DropClaimForT DEF HandleTaskReclaimOutcome, TInv
  <2>3. HistoryT'
    BY <1>2, FaultsT DEF HandleTaskReclaimOutcome, TInv, FaultKinds
  <2>4. /\ open' \in {open, open \ {i}} /\ confirmed' \subseteq open'
        /\ UNCHANGED <<row, age, restamps, nextId, attempts>>
    BY <1>2 DEF HandleTaskReclaimOutcome, DeleteRow, KeepRows, TInv, LedgerT
  <2>5. LedgerT' /\ LoopOK'
    BY <1>2, <2>4 DEF HandleTaskReclaimOutcome, LoopIdle, TInv, LedgerT, LoopOK
  <2> QED
    BY <1>2, <2>1, <2>2, <2>3, <2>5, Kept DEF HandleTaskReclaimOutcome, TInv
<1>3. CASE RefreshTaskSnapshot
  <2>1. ListT'
    BY <1>3 DEF RefreshTaskSnapshot, TInv, ListT, FileT
  <2>2. HistoryT'
    BY <1>3, FaultsT DEF RefreshTaskSnapshot, TInv, FaultKinds
  <2> QED
    BY <1>3, <2>1, <2>2, Kept DEF RefreshTaskSnapshot, TInv
<1> QED
  BY <1>1, <1>2, <1>3 DEF Background

LEMMA CrashT == ASSUME TInv, Crash PROVE TInv'
<1>0. 0 \in Terms
  BY HandoutBounds DEF Terms
<1>1. MemoryT'
  BY <1>0 DEF Crash, TInv, MemoryT
<1>2. LoopT' /\ LoopOK'
  BY DEF Crash, TInv, LoopT, LoopOK
<1>3. ListT' /\ ReleaseT'
  BY DEF Crash, ListT, ReleaseT
<1>4. AgentsT'
  BY DEF Crash, TInv, AgentsT
<1>5. HistoryT'
  BY HandoutBounds DEF Crash, TInv, HistoryT
<1>6. SwitchT'
  BY DEF Crash, TInv, SwitchT
<1> QED
  BY <1>1, <1>2, <1>3, <1>4, <1>5, <1>6, Kept DEF Crash, TInv

LEMMA StartT == ASSUME TInv, Start PROVE TInv'
<1>1. MemoryT'
  <2>1. \A a \in Agents : term[a] \in Terms /\ 0 \in Terms
    BY HandoutBounds DEF TInv, AgentsT, Terms
  <2> QED
    BY <2>1 DEF Start, TInv, MemoryT
<1>2. age' \in [Ids -> Fresh..Over] /\ restamps' \in [Ids -> 0..maxHandoutRestamps]
  <2> DEFINE renewed == {i \in open \ confirmed : restamps[i] < maxHandoutRestamps}
  <2>1. CASE /\ age' = [i \in Ids |-> IF i \in renewed THEN Fresh ELSE age[i]]
             /\ restamps' = [i \in Ids |-> IF i \in renewed THEN restamps[i] + 1 ELSE restamps[i]]
    <3>1. \A i \in Ids : age[i] \in Fresh..Over /\ restamps[i] \in 0..maxHandoutRestamps
      BY DEF TInv, LedgerT
    <3>2. \A i \in Ids : i \in renewed => restamps[i] + 1 \in 0..maxHandoutRestamps
      BY <3>1 DEF maxHandoutRestamps
    <3> HIDE DEF renewed
    <3> QED
      BY <2>1, <3>1, <3>2 DEF Fresh, Over
  <2>2. CASE UNCHANGED <<age, restamps>>
    BY <2>2 DEF TInv, LedgerT
  <2> QED
    BY <2>1, <2>2 DEF Start, TouchTaskReservations
<1>3. LedgerT'
  BY <1>2 DEF Start, TInv, LedgerT
<1>4. HistoryT'
  BY FaultsT DEF Start, TouchTaskReservations, TInv, FaultKinds
<1>5. SwitchT'
  BY DEF Start, TInv, SwitchT
<1> QED
  BY <1>1, <1>3, <1>4, <1>5, Kept DEF Start, TInv

LEMMA WorldT == ASSUME TInv, World PROVE TInv'
<1>1. ASSUME NEW t \in Tasks, TaskStart(t) \/ TaskDone(t) \/ TaskUndone(t) PROVE TInv'
  <2>1. PICK m \in Marks : Edit(t, m)
    BY <1>1 DEF TaskStart, TaskDone, TaskUndone, Marks
  <2>2. FileT'
    BY <2>1 DEF Edit, SetMark, TInv, FileT
  <2>3. HistoryT'
    BY <2>1 DEF Edit, TInv, HistoryT
  <2> QED
    BY <2>1, <2>2, <2>3, Kept DEF Edit, TInv
<1>2. CASE PauseOrResume
  <2>1. SwitchT'
    BY <1>2 DEF PauseOrResume, TInv, SwitchT
  <2> QED
    BY <1>2, <2>1, Kept DEF PauseOrResume, TInv
<1>3. ASSUME NEW a \in Agents, DeclareOrEndWait(a) PROVE TInv'
  <2>1. SwitchT'
    BY <1>3 DEF DeclareOrEndWait, TInv, SwitchT
  <2> QED
    BY <1>3, <2>1, Kept DEF DeclareOrEndWait, TInv
<1>4. ASSUME NEW a \in Agents, NEW t \in Tasks, AgentStarts(a, t) PROVE TInv'
  <2>1. AgentsT'
    BY <1>4 DEF AgentStarts, TInv, AgentsT
  <2>2. HistoryT'
    BY <1>4 DEF AgentStarts, TInv, HistoryT
  <2> QED
    BY <1>4, <2>1, <2>2, Kept DEF AgentStarts, TInv
<1>5. ASSUME NEW a \in Agents, NEW t \in Tasks, KeysLost(a, t) PROVE TInv'
  <2>1. AgentsT'
    BY <1>5 DEF KeysLost, TInv, AgentsT
  <2> QED
    BY <1>5, <2>1, Kept DEF KeysLost, TInv
<1>6. ASSUME NEW a \in Agents, AgentWorksElsewhere(a) \/ AgentReparks(a) \/ AgentLeaves(a)
      PROVE TInv'
  <2>1. AgentsT'
    BY <1>6 DEF AgentWorksElsewhere, AgentReparks, AgentLeaves, TInv, AgentsT
  <2> QED
    BY <1>6, <2>1, Kept DEF AgentWorksElsewhere, AgentReparks, AgentLeaves, TInv
<1>7. ASSUME NEW a \in Agents, AgentParks(a) PROVE TInv'
  <2>1. evq' \in [Agents -> {"none", "working", "parked", "both"}]
    BY <1>7 DEF AgentParks, TInv, AgentsT
  <2>2. AgentsT'
    BY <1>7, <2>1 DEF AgentParks, TInv, AgentsT
  <2>3. FileT'
    BY <1>7 DEF AgentParks, SetMark, TInv, FileT, Marks
  <2> QED
    BY <1>7, <2>2, <2>3, Kept DEF AgentParks, TInv
<1>8. ASSUME NEW a \in Agents, PaneRecycled(a) PROVE TInv'
  <2>1. term' \in [Agents -> 1..MaxTerm]
    BY <1>8, HandoutBounds DEF PaneRecycled, TInv, AgentsT
  <2>2. AgentsT'
    BY <1>8, <2>1 DEF PaneRecycled, TInv, AgentsT
  <2> QED
    BY <1>8, <2>2, Kept DEF PaneRecycled, TInv
<1> QED
  BY <1>1, <1>2, <1>3, <1>4, <1>5, <1>6, <1>7, <1>8 DEF World

LEMMA NextT == ASSUME TInv, [Next]_vars PROVE TInv'
<1>1. ASSUME NEW i \in Ids, RowAges(i) PROVE TInv'
  <2>1. age[i] + 1 \in Fresh..Over
    BY <1>1 DEF RowAges, TInv, LedgerT, Fresh, Over
  <2>2. LedgerT'
    BY <1>1, <2>1 DEF RowAges, TInv, LedgerT
  <2> QED
    BY <1>1, <2>2, Kept DEF RowAges, TInv
<1>2. CASE UNCHANGED vars
  BY <1>2, Kept DEF vars, TInv
<1> QED
  BY <1>1, <1>2, DeliverT, SweepT, TransitionT, AttentionT, BackgroundT, WorldT, CrashT, StartT
  DEF Next, Transition, Attention

\* Every variable has its type in every reachable state: among others, a row that is open
\* names an item and an agent, and hand-outs stop at the bound (task_reservations).
THEOREM TypesHold == Spec => []TypeOK
<1>1. TInv /\ [Next]_vars => TInv'
  BY NextT
<1> QED
  BY InitT, <1>1, Typed, PTL DEF Spec

-----------------------------------------------------------------------------
(* No item of a local list is forgotten.                                    *)

\* A local list is released inline: nothing is ever under way off the loop.
LocalOK == outcomes = {} /\ \A i \in Ids : flight[i] = 0
\* The sweep's copy of the list is no older than any mark of the daemon.
CopyOK ==
  /\ lpc \notin {"sweep", "pair"} => copy = NoCopy
  /\ copy # NoCopy =>
       \A t \in Tasks : mark[t] = "[-]" /\ owner[t] = "daemon" => copy[t] = "[-]"

\* What NoItemForgotten says of one step.
RowsKeptOrAnswered ==
  \A i \in open \ (open' \cup confirmed) :
    LET t == row[i].task IN
    age[i] < Stale /\ mark[t] = "[-]" /\ mark'[t] = "[-]" /\ owner[t] = "daemon" => t \in told'

LInv == TInv /\ LocalOK /\ CopyOK

\* A step that makes no mark of the daemon's keeps the copy good.
LEMMA MarksMoveOn ==
  ASSUME LInv, UNCHANGED copy, lpc' = lpc \/ lpc' \in {"sweep", "pair"} \/ copy = NoCopy,
         \A t \in Tasks : mark'[t] = "[-]" /\ owner'[t] = "daemon"
                            => mark[t] = "[-]" /\ owner[t] = "daemon"
  PROVE  CopyOK'
  BY DEF LInv, CopyOK

LEMMA CopyDropped == ASSUME copy' = NoCopy PROVE CopyOK'
  BY DEF CopyOK

\* Giving an item back makes no mark of the daemon's.
LEMMA GiveBackMovesOn ==
  ASSUME TInv, NEW t, GiveBack(t)
  PROVE  \A u \in Tasks : mark'[u] = "[-]" /\ owner'[u] = "daemon"
                            => mark[u] = "[-]" /\ owner[u] = "daemon"
  BY DEF GiveBack, SetMark, TInv, FileT

\* One step: only the sweep removes rows, and each way it does answers for the item.
LEMMA NextLocal ==
  ASSUME ~Remote, LInv, [Next]_vars
  PROVE  LInv' /\ RowsKeptOrAnswered
<1> DEFINE Goal == LocalOK' /\ CopyOK' /\ RowsKeptOrAnswered
<1>0. TInv'
  BY NextT DEF LInv
<1> SUFFICES Goal
  BY <1>0 DEF LInv
<1> USE DEF LInv
<1>1. ASSUME Deliver PROVE Goal
  <2>1. open \subseteq open' /\ UNCHANGED <<flight, outcomes, copy>>
    BY <1>1 DEF Deliver, DeliverAbandon, DeliverReserve, DeliverLastLook, DeliverSend, DeliverSendFails,
       DeliverRecord, RecordTaskReservation, KeepRows
  <2>2. lpc \in {"decided", "reserved", "typed"}
    BY <1>1 DEF Deliver, DeliverAbandon, DeliverReserve, DeliverLastLook, DeliverSend, DeliverSendFails,
       DeliverRecord
  <2> QED
    BY <2>1, <2>2, CopyDropped DEF LocalOK, CopyOK, RowsKeptOrAnswered
<1>2. ASSUME Sweep PROVE Goal
  <2>1. CASE BeginSweep
    <3>1. copy = NoCopy /\ copy' = NoCopy
      BY <2>1 DEF BeginSweep, LoopIdle, CopyOK
    <3> QED
      BY <2>1, <3>1, CopyDropped DEF BeginSweep, LocalOK, RowsKeptOrAnswered
  <2>2. CASE SweepSettled
    BY <2>2, MarksMoveOn DEF SweepSettled, LocalOK, RowsKeptOrAnswered
  <2>3. CASE SweepPair
    BY <2>3, CopyDropped DEF SweepPair, EndSweep, LocalOK, RowsKeptOrAnswered
  <2>4. ASSUME NEW i \in Ids, SweepRead(i) PROVE Goal
    <3>1. copy' = mark
      BY <2>4 DEF SweepRead, ListView
    <3>2. CopyOK'
      BY <2>4, <3>1 DEF SweepRead, SweepAt, CopyOK
    <3> QED
      BY <2>4, <3>2 DEF SweepRead, LocalOK, RowsKeptOrAnswered
  <2>5. ASSUME NEW i \in Ids, SweepRetire(i) PROVE Goal
    <3>1. CopyOK' /\ LocalOK'
      BY <2>5, MarksMoveOn DEF SweepRetire, LocalOK
    <3>2. row[i].task \in Tasks /\ open \ open' \subseteq {i}
      BY <2>5, SweepRowIsOpen DEF SweepRetire, RetireReservation, DeleteRow, KeepRows
    <3>3. i \in confirmed \/ ~(age[i] < Stale) \/ (copy # NoCopy /\ copy[row[i].task] # "[-]")
      BY <2>5 DEF SweepRetire, Retirable, ListRead, InProgress, TInv, LedgerT, Stale, Fresh, Over
    <3>4. RowsKeptOrAnswered
      BY <3>2, <3>3 DEF CopyOK, RowsKeptOrAnswered
    <3> QED
      BY <3>1, <3>4
  <2>6. ASSUME NEW i \in Ids, SweepLeave(i) PROVE Goal
    BY <2>6, MarksMoveOn DEF SweepLeave, LocalOK, RowsKeptOrAnswered
  <2>7. ASSUME NEW i \in Ids, SweepEscalate(i) PROVE Goal
    <3>1. CopyOK' /\ LocalOK'
      BY <2>7, MarksMoveOn DEF SweepEscalate, LocalOK
    <3>2. row[i].task \in told' /\ open \ open' \subseteq {i}
      BY <2>7 DEF SweepEscalate, DeleteRow, KeepRows
    <3> QED
      BY <3>1, <3>2 DEF RowsKeptOrAnswered
  <2>8. ASSUME NEW i \in Ids, SweepReclaim(i) PROVE Goal
    <3>0. row[i].task \in Tasks
      BY <2>8, SweepRowIsOpen DEF SweepReclaim
    <3>1. CASE SetMark(row[i].task, "[ ]", "nobody") /\ copy' = NoCopy
               /\ open \ open' \subseteq {i}
      <4>1. mark'[row[i].task] = "[ ]"
        BY <3>0, <3>1 DEF SetMark, TInv, FileT
      <4> QED
        BY <2>8, <3>1, <4>1, CopyDropped DEF SweepReclaim, LocalOK, RowsKeptOrAnswered
    <3>2. CASE UNCHANGED <<file, ledger, copy>>
      BY <2>8, <3>2, MarksMoveOn DEF SweepReclaim, LocalOK, RowsKeptOrAnswered
    <3> QED
      BY <2>8, <3>1, <3>2 DEF SweepReclaim, DeleteRow, KeepRows
  <2>9. ASSUME NEW i \in Ids, SweepReleaseAsync(i) PROVE Goal
    BY <2>9 DEF SweepReleaseAsync
  <2> QED
    BY <1>2, <2>1, <2>2, <2>3, <2>4, <2>5, <2>6, <2>7, <2>8, <2>9 DEF Sweep, SweepRow
<1>3. CASE Transition \/ Attention
  <2>1. UNCHANGED <<open, mark, owner, copy, flight, outcomes>>
        /\ (lpc' = lpc \/ lpc = "idle")
    BY <1>3 DEF Transition, Attention, HandleWorking, HandleParked, DecideToSend, DecideNothing,
       LoopIdle
  <2>2. CopyOK'
    BY <2>1 DEF CopyOK
  <2>3. LocalOK'
    BY <2>1 DEF LocalOK
  <2>4. RowsKeptOrAnswered
    BY <2>1 DEF RowsKeptOrAnswered
  <2> QED
    BY <2>2, <2>3, <2>4
<1>4. ASSUME Background PROVE Goal
  <2>1. CASE RefreshTaskSnapshot
    BY <2>1 DEF RefreshTaskSnapshot
  <2>2. ~(\E i \in Ids : ReleaseFinishes(i) \/ HandleTaskReclaimOutcome(i))
    BY DEF ReleaseFinishes, HandleTaskReclaimOutcome, LocalOK
  <2> QED
    BY <1>4, <2>1, <2>2 DEF Background
<1>5. ASSUME World PROVE Goal
  <2>1. UNCHANGED <<open, copy, lpc, flight, outcomes>>
    BY <1>5 DEF World, TaskStart, TaskDone, TaskUndone, Edit, PauseOrResume, DeclareOrEndWait,
       AgentWorksElsewhere, AgentParks, AgentReparks, AgentLeaves, PaneRecycled, AgentStarts, KeysLost
  <2>2. \/ UNCHANGED <<mark, owner>>
        \/ \E t, m, who : SetMark(t, m, who) /\ (m = "[-]" => who = "other")
    <3>1. CASE \E t \in Tasks : TaskStart(t) \/ TaskDone(t) \/ TaskUndone(t)
      BY <3>1 DEF TaskStart, TaskDone, TaskUndone, Edit
    <3>2. CASE \E a \in Agents : AgentParks(a)
      BY <3>2 DEF AgentParks
    <3> QED
      BY <1>5, <3>1, <3>2 DEF World, PauseOrResume, DeclareOrEndWait, AgentWorksElsewhere, AgentReparks,
         AgentLeaves, PaneRecycled, AgentStarts, KeysLost
  <2>3. \A t \in Tasks : mark'[t] = "[-]" /\ owner'[t] = "daemon"
                            => mark[t] = "[-]" /\ owner[t] = "daemon"
    BY <2>2 DEF SetMark, TInv, FileT
  <2>4. LocalOK' /\ RowsKeptOrAnswered
    BY <2>1 DEF LocalOK, RowsKeptOrAnswered
  <2> QED
    BY <2>1, <2>3, <2>4, MarksMoveOn
<1>6. CASE Crash
  BY <1>6, CopyDropped DEF Crash, LocalOK, RowsKeptOrAnswered
<1>7. CASE Start \/ (\E i \in Ids : RowAges(i)) \/ UNCHANGED vars
  <2>1. UNCHANGED <<open, mark, owner, copy, lpc, flight, outcomes>>
    BY <1>7 DEF Start, RowAges, vars
  <2>2. CopyOK'
    BY <2>1 DEF CopyOK
  <2>3. LocalOK' /\ RowsKeptOrAnswered
    BY <2>1 DEF LocalOK, RowsKeptOrAnswered
  <2> QED
    BY <2>2, <2>3
<1> QED
  BY <1>0, <1>1, <1>2, <1>3, <1>4, <1>5, <1>6, <1>7 DEF Next

\* On a local list no item stays "[-]" with its row gone: within the TTL a row is dropped only
\* with its mark, or with the operator told (reclaimStrandedTasks, escalateNeverStartedTask).
THEOREM ItemsAreNotForgotten == ~Remote => (Spec => NoItemForgotten)
<1> SUFFICES ASSUME ~Remote PROVE Spec => NoItemForgotten
  OBVIOUS
<1>1. Init => LInv
  BY InitT DEF Init, LInv, LocalOK, CopyOK
<1>2. LInv /\ [Next]_vars => LInv'
  BY NextLocal
<1>3. LInv /\ [Next]_vars => [RowsKeptOrAnswered]_vars
  BY NextLocal
<1> QED
  BY <1>1, <1>2, <1>3, PTL DEF Spec, NoItemForgotten, RowsKeptOrAnswered

-----------------------------------------------------------------------------
(* One agent per item.                                                      *)

\* A local list, one tenant per pane, keystrokes acted on or lost within the grace, nobody
\* reopening items by hand, and a ledger whose deletions succeed.
OneHandAssumed ==
  /\ ~Remote /\ MaxTerm = 1
  /\ "late" \notin Events /\ "undone" \notin Events /\ "delete" \notin Faults

\* A delivery past its reservation; an item in an agent's pane or in its work.
Delivering == lpc \in {"reserved", "typed"}
Holds(a, t) == t \in inbox[a] \/ doing[a] = t

\* A pending item is in nobody's hands, has no row and is not being delivered.
FreeOK ==
  \A t \in Tasks : mark[t] = "[ ]" =>
    /\ \A a \in Agents : ~Holds(a, t)
    /\ \A i \in open : row[i].task # t
    /\ ~(Delivering /\ del.task = t)
\* The item being delivered has no row yet and is at most in its agent's hands.
DelOK ==
  Delivering =>
    /\ \A i \in open : row[i].task # del.task
    /\ \A a \in Agents : Holds(a, del.task) => lpc = "typed" /\ a = del.agent
\* One row per item, held by nobody but the row's agent; past the grace the keystrokes are gone,
\* and a sweep that meets the row has seen its agent at work.
RowOK ==
  \A i \in open :
    /\ \A j \in open : row[j].task = row[i].task => j = i
    /\ \A a \in Agents : Holds(a, row[i].task) => a = row[i].agent
    /\ age[i] # Fresh => row[i].task \notin inbox[row[i].agent]
    /\ lpc = "sweep" /\ age[i] # Fresh /\ doing[row[i].agent] = row[i].task
         => listing[row[i].agent].status = "working" /\ listing[row[i].agent].term = 1
\* The property, for typed items too.
OneOK ==
  /\ \A a \in Agents : doing[a] # 0 => status[a] = "working"
  /\ \A a, b \in Agents : \A t \in Tasks : Holds(a, t) /\ Holds(b, t) => a = b

Hands == FreeOK /\ DelOK /\ RowOK /\ OneOK
HInv == TInv /\ LocalOK /\ Hands

\* A step that frees no mark and hands nothing out.
LEMMA Eases ==
  ASSUME HInv,
         \A t \in Tasks : mark'[t] = "[ ]" => mark[t] = "[ ]",
         \A a \in Agents : inbox'[a] \subseteq inbox[a],
         \A a \in Agents : doing'[a] = 0 \/ (doing'[a] = doing[a] /\ status'[a] = status[a]),
         open' \subseteq open, row' = row,
         \A i \in open : age'[i] # Fresh => age[i] # Fresh,
         UNCHANGED <<lpc, del>> \/ lpc' \notin {"reserved", "typed"},
         lpc' = "sweep" => lpc = "sweep" /\ listing' = listing
  PROVE  Hands'
<1> USE DEF HInv, Hands
<1>0. \A a \in Agents : \A t \in Tasks : Holds(a, t)' => Holds(a, t)
  BY TasksAssumption DEF Holds
<1>a. \A i \in open : row[i].task \in Tasks /\ row[i].agent \in Agents
  BY DEF TInv, LedgerT
<1>1. FreeOK'
  BY <1>0 DEF FreeOK, Delivering
<1>2. DelOK'
  <2> SUFFICES ASSUME Delivering' PROVE DelOK'
    BY DEF DelOK
  <2>1. UNCHANGED <<lpc, del>> /\ Delivering /\ del.task \in Tasks
    BY DEF Delivering, TInv, LoopT
  <2> QED
    BY <1>0, <2>1 DEF DelOK
<1>3. RowOK'
  <2> SUFFICES ASSUME NEW i \in open'
        PROVE /\ \A j \in open' : row'[j].task = row'[i].task => j = i
              /\ \A a \in Agents : Holds(a, row[i].task)' => a = row'[i].agent
              /\ age'[i] # Fresh => row'[i].task \notin inbox'[row'[i].agent]
              /\ lpc' = "sweep" /\ age'[i] # Fresh /\ doing'[row'[i].agent] = row'[i].task
                  => listing'[row'[i].agent].status = "working" /\ listing'[row'[i].agent].term = 1
    BY DEF RowOK, Holds
  <2>1. i \in open /\ row[i].task \in Tasks /\ row[i].agent \in Agents /\ row[i].task # 0
    BY <1>a, TasksAssumption
  <2>2. \A a \in Agents : Holds(a, row[i].task)' => Holds(a, row[i].task)
    BY <2>1, TasksAssumption DEF Holds
  <2> QED
    BY <2>1, <2>2 DEF RowOK
<1>4. OneOK'
  BY <1>0 DEF OneOK
<1> QED
  BY <1>1, <1>2, <1>3, <1>4

\* Nobody has the item: no agent, no row.
Loose(t) ==
  /\ \A a \in Agents : ~Holds(a, t)
  /\ \A i \in open : row[i].task # t

\* A step that frees one item, which nobody has.
LEMMA Frees ==
  ASSUME HInv, NEW u \in Tasks, Loose(u)',
         \A t \in Tasks : t # u /\ mark'[t] = "[ ]" => mark[t] = "[ ]",
         UNCHANGED <<inbox, doing, status, row, listing, age>>,
         open' \subseteq open, lpc' \in {"idle", "sweep"}, lpc' = "sweep" => lpc = "sweep"
  PROVE  Hands'
<1> USE DEF HInv, Hands
<1>1. FreeOK'
  BY DEF FreeOK, Delivering, Loose, Holds
<1>2. DelOK'
  BY DEF DelOK, Delivering
<1>3. RowOK'
  BY DEF RowOK, Holds
<1>4. OneOK'
  BY DEF OneOK, Holds
<1> QED
  BY <1>1, <1>2, <1>3, <1>4

\* A rollback frees its own item at most.
LEMMA GiveBackFrees ==
  ASSUME HInv, NEW u \in Tasks, GiveBack(u) \/ Rollback(u) \/ UNCHANGED file
  PROVE  \A t \in Tasks : t # u /\ mark'[t] = "[ ]" => mark[t] = "[ ]"
  BY DEF GiveBack, Rollback, SetMark, HInv, TInv, FileT

LEMMA DeliverHands ==
  ASSUME OneHandAssumed, HInv, Deliver
  PROVE  Hands'
<1>1. CASE DeliverAbandon
  BY <1>1, Eases DEF DeliverAbandon, EndDelivery
<1>2. CASE DeliverReserve
  <2>1. CASE mark[del.task] = "[ ]"
    <3>0. del.task \in Tasks /\ del.agent \in Agents
      BY <1>2 DEF DeliverReserve, HInv, TInv, LoopT
    <3>1. /\ mark' = [mark EXCEPT ![del.task] = "[-]"] /\ lpc' = "reserved"
          /\ UNCHANGED <<del, open, row, age, listing, inbox, doing, status>>
      BY <1>2, <2>1 DEF DeliverReserve, SetMark
    <3>2. \A t \in Tasks : mark'[t] = "[ ]" => mark[t] = "[ ]" /\ t # del.task
      BY <3>0, <3>1 DEF HInv, TInv, FileT
    <3>3. Loose(del.task)
      BY <2>1, <3>0 DEF HInv, Hands, FreeOK, Loose
    <3>4. FreeOK'
      BY <3>1, <3>2 DEF HInv, Hands, FreeOK, Delivering, Holds
    <3>5. DelOK'
      BY <3>1, <3>3 DEF DelOK, Loose, Holds
    <3>6. RowOK' /\ OneOK'
      BY <3>1 DEF HInv, Hands, RowOK, OneOK, Holds
    <3> QED
      BY <3>4, <3>5, <3>6 DEF Hands
  <2>2. CASE mark[del.task] # "[ ]"
    BY <1>2, <2>2, Eases DEF DeliverReserve, EndDelivery
  <2> QED
    BY <2>1, <2>2
<1>3. CASE DeliverLastLook
  <2>1. PICK u \in Tasks : u = del.task
    BY <1>3 DEF DeliverLastLook, HInv, TInv, LoopT
  <2>2. Loose(u)
    BY <1>3, <2>1 DEF DeliverLastLook, HInv, Hands, DelOK, Delivering, Loose
  <2>3. UNCHANGED <<inbox, doing, status, row, listing, age, open>> /\ lpc' = "idle"
    BY <1>3 DEF DeliverLastLook, EndDelivery
  <2>4. Loose(u)'
    BY <2>2, <2>3 DEF Loose, Holds
  <2> QED
    BY <1>3, <2>1, <2>3, <2>4, GiveBackFrees, Frees DEF DeliverLastLook
<1>4. CASE DeliverSend
  <2>0. del.task \in Tasks /\ del.agent \in Agents /\ mark[del.task] # "[ ]"
        /\ Loose(del.task)
    BY <1>4 DEF DeliverSend, HInv, TInv, LoopT, Hands, FreeOK, DelOK, Delivering, Loose
  <2>1. /\ inbox' = [inbox EXCEPT ![del.agent] = @ \cup {del.task}] /\ lpc' = "typed"
        /\ UNCHANGED <<del, mark, open, row, age, listing, doing, status>>
    BY <1>4 DEF DeliverSend
  <2>2. \A a \in Agents : \A t \in Tasks :
          /\ Holds(a, t)' => Holds(a, t) \/ (a = del.agent /\ t = del.task)
          /\ t # del.task => (t \in inbox'[a] => t \in inbox[a])
    BY <2>0, <2>1 DEF Holds, HInv, TInv, AgentsT
  <2>3. \A a \in Agents : \A t \in Tasks : Holds(a, t)' => t # del.task \/ a = del.agent
    BY <2>0, <2>2 DEF Loose
  <2>4. FreeOK'
    BY <2>0, <2>1, <2>2 DEF HInv, Hands, FreeOK, Delivering
  <2>5. DelOK'
    BY <2>0, <2>1, <2>3 DEF DelOK, Loose
  <2>6. RowOK'
    <3>1. \A i \in open : row[i].task \in Tasks /\ row[i].task # del.task /\ row[i].agent \in Agents
      BY <2>0 DEF HInv, TInv, LedgerT, Loose
    <3> QED
      BY <2>1, <2>2, <3>1 DEF HInv, Hands, RowOK
  <2>7. OneOK'
    <3>1. \A a, b \in Agents : \A t \in Tasks : Holds(a, t)' /\ Holds(b, t)' => a = b
      BY <2>0, <2>2, <2>3 DEF HInv, Hands, OneOK
    <3> QED
      BY <2>1, <3>1 DEF HInv, Hands, OneOK
  <2> QED
    BY <2>4, <2>5, <2>6, <2>7 DEF Hands
<1>5. CASE DeliverSendFails
  <2>1. PICK u \in Tasks : u = del.task
    BY <1>5 DEF DeliverSendFails, HInv, TInv, LoopT
  <2>2. Loose(u)
    BY <1>5, <2>1 DEF DeliverSendFails, HInv, Hands, DelOK, Delivering, Loose
  <2>3. UNCHANGED <<inbox, doing, status, row, listing, age, open>> /\ lpc' = "idle"
    BY <1>5 DEF DeliverSendFails, EndDelivery, KeepRows
  <2>4. Loose(u)'
    BY <2>2, <2>3 DEF Loose, Holds
  <2>5. GiveBack(u) \/ Rollback(u) \/ UNCHANGED file
    BY <1>5, <2>1 DEF DeliverSendFails
  <2> QED
    BY <2>3, <2>4, <2>5, GiveBackFrees, Frees
<1>6. CASE DeliverRecord
  <2>0. /\ del.task \in Tasks /\ del.agent \in Agents /\ mark[del.task] # "[ ]"
        /\ \A i \in open : row[i].task # del.task
        /\ \A a \in Agents : Holds(a, del.task) => a = del.agent
        /\ nextId \in Ids /\ nextId \notin open
    <3>1. del.task \in Tasks /\ del.agent \in Agents /\ nextId <= MaxRows
      BY <1>6 DEF DeliverRecord, HInv, TInv, LoopT, LoopOK
    <3>2. nextId \in Ids /\ nextId \notin open
      BY <3>1, HandoutBounds DEF HInv, TInv, LedgerT, Ids
    <3>3. Delivering
      BY <1>6 DEF DeliverRecord, Delivering
    <3> QED
      BY <3>1, <3>2, <3>3 DEF HInv, Hands, FreeOK, DelOK
  <2>1. CASE Succeeds /\ open' = open \cup {nextId} /\ age' = [age EXCEPT ![nextId] = Fresh]
             /\ row' = [row EXCEPT ![nextId] = [task |-> del.task, agent |-> del.agent,
                                                term |-> del.term]]
    <3>1. UNCHANGED <<mark, inbox, doing, status, listing>> /\ lpc' = "idle"
      BY <1>6 DEF DeliverRecord, EndDelivery
    <3>2. /\ row'[nextId].task = del.task /\ row'[nextId].agent = del.agent /\ age'[nextId] = Fresh
          /\ open' = open \cup {nextId}
          /\ \A i \in open : row'[i] = row[i] /\ age'[i] = age[i]
      BY <2>0, <2>1 DEF HInv, TInv, LedgerT
    <3>3. FreeOK'
      <4>1. \A t \in Tasks : mark[t] = "[ ]" =>
              t # del.task /\ (\A a \in Agents : ~Holds(a, t)) /\ \A i \in open : row[i].task # t
        BY <2>0 DEF HInv, Hands, FreeOK
      <4>2. \A t \in Tasks : mark[t] = "[ ]" => \A i \in open' : row'[i].task # t
        BY <3>2, <4>1
      <4> QED
        BY <3>1, <4>1, <4>2 DEF FreeOK, Delivering, Holds
    <3>4. DelOK' /\ OneOK'
      BY <3>1 DEF HInv, Hands, DelOK, Delivering, OneOK, Holds
    <3>5. RowOK'
      <4>1. ASSUME NEW i \in open', NEW j \in open', row'[j].task = row'[i].task PROVE j = i
        <5>1. i = nextId \/ i \in open
          BY <3>2
        <5>2. j = nextId \/ j \in open
          BY <3>2
        <5>3. CASE i \in open /\ j \in open
          <6>1. row[j].task = row[i].task
            BY <3>2, <4>1, <5>3
          <6> QED
            BY <5>3, <6>1 DEF HInv, Hands, RowOK
        <5> QED
          BY <2>0, <3>2, <4>1, <5>1, <5>2, <5>3
      <4>2. ASSUME NEW i \in open', NEW a \in Agents, Holds(a, row'[i].task) PROVE a = row'[i].agent
        BY <2>0, <3>2, <4>2 DEF HInv, Hands, RowOK
      <4>3. ASSUME NEW i \in open', age'[i] # Fresh PROVE row'[i].task \notin inbox[row'[i].agent]
        BY <3>2, <4>3 DEF HInv, Hands, RowOK
      <4> QED
        BY <3>1, <4>1, <4>2, <4>3 DEF RowOK, Holds
    <3> QED
      BY <3>3, <3>4, <3>5 DEF Hands
  <2>2. CASE UNCHANGED ledger
    BY <1>6, <2>2, Eases DEF DeliverRecord, EndDelivery
  <2> QED
    BY <1>6, <2>1, <2>2 DEF DeliverRecord, RecordTaskReservation
<1> QED
  BY <1>1, <1>2, <1>3, <1>4, <1>5, <1>6 DEF Deliver

LEMMA SweepHands ==
  ASSUME OneHandAssumed, HInv, Sweep
  PROVE  Hands'
<1>1. CASE BeginSweep
  <2>1. /\ UNCHANGED <<mark, inbox, doing, status, open, row, age>> /\ lpc = "idle"
        /\ lpc' \in {"idle", "sweep"}
        /\ \A a \in Agents : listing'[a].status = status[a] /\ listing'[a].term = term[a]
    BY <1>1 DEF BeginSweep, LoopIdle
  <2>2. FreeOK' /\ DelOK' /\ OneOK'
    BY <2>1 DEF HInv, Hands, FreeOK, DelOK, OneOK, Delivering, Holds
  <2>3. RowOK'
    <3>1. \A a \in Agents : term[a] = 1 /\ (doing[a] # 0 => status[a] = "working")
      BY DEF OneHandAssumed, HInv, Hands, OneOK, TInv, AgentsT
    <3>2. \A i \in open : row[i].agent \in Agents /\ row[i].task \in Tasks /\ row[i].task # 0
      BY TasksAssumption DEF HInv, TInv, LedgerT
    <3> QED
      BY <2>1, <3>1, <3>2 DEF HInv, Hands, RowOK, Holds
  <2> QED
    BY <2>2, <2>3 DEF Hands
<1>2. CASE SweepSettled
  BY <1>2, Eases DEF SweepSettled
<1>3. CASE SweepPair
  BY <1>3, Eases DEF SweepPair, EndSweep
<1>4. ASSUME NEW i \in Ids, SweepRead(i) \/ SweepLeave(i) \/ SweepReleaseAsync(i) PROVE Hands'
  BY <1>4, Eases DEF SweepRead, SweepLeave, SweepReleaseAsync
<1>5. ASSUME NEW i \in Ids, SweepRetire(i) PROVE Hands'
  BY <1>5, Eases DEF SweepRetire, RetireReservation, DeleteRow, KeepRows
<1>6. ASSUME NEW i \in Ids, SweepEscalate(i) PROVE Hands'
  BY <1>6, Eases DEF SweepEscalate, DeleteRow, KeepRows
<1>7. ASSUME NEW i \in Ids, SweepReclaim(i) PROVE Hands'
  <2>1. /\ i \in open /\ row[i].task \in Tasks /\ row[i].agent \in Agents
        /\ lpc = "sweep" /\ Stranded(i)
    BY <1>7, SweepRowIsOpen DEF SweepReclaim, SweepAt, HInv
  <2>2. PICK u \in Tasks : u = row[i].task
    BY <2>1
  <2>3. CASE SetMark(u, "[ ]", "nobody") /\ DeleteRow(i)
    <3>1. age[i] # Fresh /\ ~AtWork(i)
      BY <2>1 DEF Stranded, LeftAlone
    <3>2. \A a \in Agents : Holds(a, u) => a = row[i].agent /\ doing[a] = u
      BY <2>1, <2>2, <3>1 DEF HInv, Hands, RowOK, Holds
    <3>3. doing[row[i].agent] # u
      <4> SUFFICES ASSUME doing[row[i].agent] = u PROVE FALSE
        OBVIOUS
      <4>1. listing[row[i].agent].status = "working" /\ listing[row[i].agent].term = 1
        BY <2>1, <2>2, <3>1 DEF HInv, Hands, RowOK
      <4>2. row[i].term \in {0, 1}
        BY <2>1 DEF OneHandAssumed, HInv, TInv, LedgerT, Terms
      <4> QED
        BY <3>1, <4>1, <4>2 DEF AtWork, SameTenant
    <3>4. \A a \in Agents : ~Holds(a, u)
      BY <3>2, <3>3
    <3>5. \A j \in open \ {i} : row[j].task # u
      BY <2>1, <2>2 DEF HInv, Hands, RowOK
    <3>6. /\ UNCHANGED <<inbox, doing, status, row, listing, age, lpc>> /\ open' = open \ {i}
          /\ \A t \in Tasks : t # u /\ mark'[t] = "[ ]" => mark[t] = "[ ]"
      BY <1>7, <2>3 DEF SweepReclaim, DeleteRow, SetMark, HInv, TInv, FileT
    <3>7. Loose(u)'
      BY <3>4, <3>5, <3>6 DEF Loose, Holds
    <3> QED
      BY <2>1, <3>6, <3>7, Frees
  <2>4. CASE UNCHANGED <<file, ledger>>
    BY <1>7, <2>4, Eases DEF SweepReclaim
  <2> QED
    BY <1>7, <2>2, <2>3, <2>4 DEF SweepReclaim, OneHandAssumed, Fails
<1> QED
  BY <1>1, <1>2, <1>3, <1>4, <1>5, <1>6, <1>7 DEF Sweep, SweepRow

LEMMA WorldHands ==
  ASSUME OneHandAssumed, HInv, World
  PROVE  Hands'
<1>1. ASSUME NEW t \in Tasks, TaskStart(t) \/ TaskDone(t) PROVE Hands'
  <2>1. \A u \in Tasks : mark'[u] = "[ ]" => mark[u] = "[ ]"
    BY <1>1 DEF TaskStart, TaskDone, Edit, SetMark, HInv, TInv, FileT
  <2> QED
    BY <1>1, <2>1, Eases DEF TaskStart, TaskDone, Edit
<1>2. ASSUME NEW t \in Tasks, TaskUndone(t) PROVE FALSE
  BY <1>2 DEF TaskUndone, OneHandAssumed, event
<1>3. ASSUME NEW a \in Agents, NEW t \in Tasks, AgentStarts(a, t) PROVE Hands'
  <2>1. /\ inbox' = [inbox EXCEPT ![a] = @ \ {t}] /\ doing' = [doing EXCEPT ![a] = t]
        /\ status' = [status EXCEPT ![a] = "working"] /\ t \in inbox[a]
        /\ UNCHANGED <<mark, open, row, age, lpc, del, listing>>
    BY <1>3 DEF AgentStarts
  <2>2. \A b \in Agents : \A u \in Tasks : Holds(b, u)' => Holds(b, u)
    BY <2>1 DEF Holds, HInv, TInv, AgentsT
  <2>3. FreeOK' /\ DelOK'
    <3>1. FreeOK'
      BY <2>1, <2>2 DEF HInv, Hands, FreeOK, Delivering
    <3>2. Delivering => del.task \in Tasks
      BY DEF HInv, TInv, LoopT, Delivering
    <3>3. Delivering' = Delivering
      BY <2>1 DEF Delivering
    <3> QED
      BY <2>1, <2>2, <3>1, <3>2, <3>3 DEF HInv, Hands, DelOK
  <2>4. OneOK'
    <3>1. \A b \in Agents : doing'[b] # 0 => status'[b] = "working"
      BY <2>1 DEF HInv, Hands, OneOK, TInv, AgentsT
    <3> QED
      BY <2>2, <3>1 DEF HInv, Hands, OneOK
  <2>5. RowOK'
    <3>1. \A i \in open : row[i].task \in Tasks /\ row[i].agent \in Agents
      BY DEF HInv, TInv, LedgerT
    <3>2. \A i \in open : age[i] # Fresh => row[i].task \notin inbox'[row[i].agent]
      BY <2>1, <3>1 DEF HInv, Hands, RowOK, TInv, AgentsT
    <3>3. \A i \in open : age[i] # Fresh /\ doing'[row[i].agent] = row[i].task
                            => doing[row[i].agent] = row[i].task
      BY <2>1, <3>1 DEF HInv, Hands, RowOK, TInv, AgentsT
    <3> QED
      BY <2>1, <2>2, <3>1, <3>2, <3>3 DEF HInv, Hands, RowOK
  <2> QED
    BY <2>3, <2>4, <2>5 DEF Hands
<1>4. ASSUME NEW a \in Agents, AgentParks(a) PROVE Hands'
  <2>1. \A t \in Tasks : mark'[t] = "[ ]" => mark[t] = "[ ]"
    BY <1>4 DEF AgentParks, SetMark, HInv, TInv, FileT
  <2>2. \A b \in Agents : doing'[b] = 0 \/ (doing'[b] = doing[b] /\ status'[b] = status[b])
    BY <1>4 DEF AgentParks, HInv, TInv, AgentsT
  <2> QED
    BY <1>4, <2>1, <2>2, Eases DEF AgentParks
<1>5. ASSUME NEW a \in Agents, AgentWorksElsewhere(a) PROVE Hands'
  <2>1. doing[a] = 0
    BY <1>5 DEF AgentWorksElsewhere, HInv, Hands, OneOK
  <2>2. \A b \in Agents : doing'[b] = 0 \/ (doing'[b] = doing[b] /\ status'[b] = status[b])
    BY <1>5, <2>1 DEF AgentWorksElsewhere, HInv, TInv, AgentsT
  <2> QED
    BY <1>5, <2>2, Eases DEF AgentWorksElsewhere
<1>6. ASSUME NEW a \in Agents, AgentLeaves(a) PROVE Hands'
  <2>1. \A b \in Agents : doing'[b] = 0 \/ (doing'[b] = doing[b] /\ status'[b] = status[b])
    BY <1>6 DEF AgentLeaves, HInv, TInv, AgentsT
  <2>2. \A b \in Agents : inbox'[b] \subseteq inbox[b]
    BY <1>6 DEF AgentLeaves, HInv, TInv, AgentsT
  <2> QED
    BY <1>6, <2>1, <2>2, Eases DEF AgentLeaves
<1>7. ASSUME NEW a \in Agents, NEW t \in Tasks, KeysLost(a, t) PROVE Hands'
  <2>1. \A b \in Agents : inbox'[b] \subseteq inbox[b]
    BY <1>7 DEF KeysLost, HInv, TInv, AgentsT
  <2> QED
    BY <1>7, <2>1, Eases DEF KeysLost
<1>8. ASSUME NEW a \in Agents, PaneRecycled(a) PROVE FALSE
  BY <1>8 DEF PaneRecycled, OneHandAssumed, HInv, TInv, AgentsT
<1>9. ASSUME NEW a \in Agents, DeclareOrEndWait(a) \/ AgentReparks(a) PROVE Hands'
  BY <1>9, Eases DEF DeclareOrEndWait, AgentReparks
<1>10. CASE PauseOrResume
  BY <1>10, Eases DEF PauseOrResume
<1> QED
  BY <1>1, <1>2, <1>3, <1>4, <1>5, <1>6, <1>7, <1>8, <1>9, <1>10 DEF World

LEMMA NextHands ==
  ASSUME OneHandAssumed, HInv, [Next]_vars
  PROVE  HInv'
<1>0. TInv'
  BY NextT DEF HInv
<1>1. LocalOK' /\ ~Background
  <2>1. ~Background
    BY DEF Background, ReleaseFinishes, HandleTaskReclaimOutcome, RefreshTaskSnapshot, HInv, LocalOK,
       OneHandAssumed
  <2>2. UNCHANGED <<flight, outcomes>> \/ LocalOK'
    <3>1. CASE Deliver
      BY <3>1 DEF Deliver, DeliverAbandon, DeliverReserve, DeliverLastLook, DeliverSend,
         DeliverSendFails, DeliverRecord
    <3>2. CASE Sweep
      BY <3>2 DEF Sweep, BeginSweep, SweepSettled, SweepPair, SweepRow, SweepRead, SweepRetire,
         SweepLeave, SweepEscalate, SweepReclaim, SweepReleaseAsync, OneHandAssumed
    <3>3. CASE World
      <4>1. CASE PauseOrResume \/ \E t \in Tasks : TaskStart(t) \/ TaskDone(t) \/ TaskUndone(t)
        BY <4>1 DEF PauseOrResume, TaskStart, TaskDone, TaskUndone, Edit
      <4>2. ASSUME NEW a \in Agents, DeclareOrEndWait(a) \/ AgentWorksElsewhere(a) \/ AgentParks(a)
            PROVE  UNCHANGED <<flight, outcomes>>
        BY <4>2 DEF DeclareOrEndWait, AgentWorksElsewhere, AgentParks
      <4>3. ASSUME NEW a \in Agents, AgentReparks(a) \/ AgentLeaves(a) \/ PaneRecycled(a)
            PROVE  UNCHANGED <<flight, outcomes>>
        BY <4>3 DEF AgentReparks, AgentLeaves, PaneRecycled
      <4>4. ASSUME NEW a \in Agents, NEW t \in Tasks, AgentStarts(a, t) \/ KeysLost(a, t)
            PROVE  UNCHANGED <<flight, outcomes>>
        BY <4>4 DEF AgentStarts, KeysLost
      <4> QED
        BY <3>3, <4>1, <4>2, <4>3, <4>4 DEF World
    <3>4. CASE Transition \/ Attention \/ Start \/ (\E i \in Ids : RowAges(i)) \/ UNCHANGED vars
      BY <3>4 DEF Transition, Attention, HandleWorking, HandleParked, DecideToSend, DecideNothing,
         Start, RowAges, vars
    <3>5. CASE Crash
      BY <3>5 DEF Crash, LocalOK
    <3> QED
      BY <2>1, <3>1, <3>2, <3>3, <3>4, <3>5 DEF Next
  <2> QED
    BY <2>1, <2>2 DEF HInv, LocalOK
<1>2. CASE Transition \/ Attention
  <2>1. UNCHANGED <<mark, inbox, doing, status, open, row, age, del, listing, lpc>>
        \/ (UNCHANGED <<mark, inbox, doing, status, open, row, age, listing>> /\ lpc' = "decided")
    BY <1>2 DEF Transition, Attention, HandleWorking, HandleParked, DecideToSend, DecideNothing
  <2> QED
    BY <1>0, <1>1, <2>1, Eases DEF HInv
<1>3. CASE Crash
  <2>1. Hands'
    BY <1>3, Eases DEF Crash
  <2> QED
    BY <1>0, <1>1, <2>1 DEF HInv
<1>4. CASE Start
  <2>1. \A i \in open : age'[i] # Fresh => age[i] # Fresh
    BY <1>4 DEF Start, TouchTaskReservations, HInv, TInv, LedgerT
  <2>2. Hands'
    BY <1>4, <2>1, Eases DEF Start
  <2> QED
    BY <1>0, <1>1, <2>2 DEF HInv
<1>5. ASSUME NEW i \in Ids, RowAges(i) PROVE HInv'
  <2>1. /\ UNCHANGED <<mark, inbox, doing, status, open, row, del, listing, lpc>>
        /\ lpc # "sweep" /\ i \in open
        /\ age' = [age EXCEPT ![i] = @ + 1]
        /\ age[i] = Fresh => row[i].task \notin inbox[row[i].agent]
    BY <1>5 DEF RowAges, OneHandAssumed, event
  <2>2. FreeOK' /\ DelOK' /\ OneOK'
    BY <2>1 DEF HInv, Hands, FreeOK, DelOK, OneOK, Delivering, Holds
  <2>3. RowOK'
    <3>1. \A j \in open : age'[j] # Fresh => row[j].task \notin inbox[row[j].agent]
      BY <2>1 DEF HInv, Hands, RowOK, TInv, LedgerT
    <3> QED
      BY <2>1, <3>1 DEF HInv, Hands, RowOK, Holds
  <2> QED
    BY <1>0, <1>1, <2>2, <2>3 DEF HInv, Hands
<1>6. CASE UNCHANGED vars
  <2>1. Hands'
    BY <1>6, Eases DEF vars
  <2> QED
    BY <1>0, <1>1, <2>1 DEF HInv
<1> QED
  BY <1>0, <1>1, <1>2, <1>3, <1>4, <1>5, <1>6, DeliverHands, SweepHands, WorldHands DEF HInv, Next

LEMMA InitHands == Init => HInv
<1> SUFFICES ASSUME Init PROVE HInv
  OBVIOUS
<1>1. LocalOK
  BY DEF Init, LocalOK
<1>2. open = {} /\ lpc = "idle" /\ \A a \in Agents : doing[a] = 0 /\ inbox[a] = {}
  BY DEF Init
<1>3. Hands
  BY <1>2, TasksAssumption DEF Hands, FreeOK, DelOK, RowOK, OneOK, Delivering, Holds
<1> QED
  BY <1>1, <1>3, InitT DEF HInv

LEMMA HandsOnce == HInv => NoTaskInTwoHands
  BY DEF HInv, Hands, OneOK, Holds, NoTaskInTwoHands, TInv, AgentsT

\* Under OneHandAssumed no item is ever in two agents' hands: the reservation inside the list's
\* lock, the grace, and the listing the sweep consults suffice (reclaimStrandedTasks).
THEOREM OneHandOnly == OneHandAssumed => (Spec => []NoTaskInTwoHands)
<1> SUFFICES ASSUME OneHandAssumed PROVE Spec => []NoTaskInTwoHands
  OBVIOUS
<1>1. HInv /\ [Next]_vars => HInv'
  BY NextHands
<1> QED
  BY InitHands, <1>1, HandsOnce, PTL DEF Spec

-----------------------------------------------------------------------------
(* Offers are counted.                                                      *)

\* The two writes that count a refused send do not fail.
CountsAssumed == OneHandAssumed /\ "count" \notin Faults /\ "told" \notin Faults

\* What the deliveries count: the attempts of the database are never behind the offers.
CountOK ==
  /\ \A t \in Tasks : tries[t] <= maxTaskHandouts
  /\ \A t \in Pending(mark) : tries[t] <= attempts[t] /\ attempts[t] < maxTaskHandouts
  /\ lpc = "reserved" => tries[del.task] <= attempts[del.task] /\ attempts[del.task] < maxTaskHandouts
  /\ lpc = "typed" => tries[del.task] <= attempts[del.task] + 1
  /\ \A i \in open : tries[row[i].task] <= attempts[row[i].task]

CInv == HInv /\ CountOK

\* Pending items are items.
LEMMA PendingAreTasks == \A view : Pending(view) \subseteq Tasks
  BY DEF Pending

\* A step that offers nothing, frees nothing and touches no counter.
LEMMA CountsKept ==
  ASSUME CInv, \A t \in Tasks : tries'[t] = tries[t] \/ tries'[t] = 0,
         UNCHANGED <<attempts, row>>, open' \subseteq open,
         Pending(mark') \subseteq Pending(mark),
         UNCHANGED <<lpc, del>> \/ lpc' \notin {"reserved", "typed"}
  PROVE  CountOK'
<1>0. HInv /\ CountOK
  BY DEF CInv
<1>1. \A t \in Tasks : attempts[t] \in Nat /\ tries[t] \in Nat
  BY <1>0 DEF HInv, TInv, LedgerT, HistoryT
<1>2. \A t \in Tasks : tries'[t] \in Nat /\ tries'[t] <= tries[t]
  BY <1>1
<1>3. \A i \in open : row[i].task \in Tasks
  BY <1>0 DEF HInv, TInv, LedgerT
<1>4. lpc' \in {"reserved", "typed"} => lpc' = lpc /\ del' = del /\ del.task \in Tasks
  BY <1>0 DEF HInv, TInv, LoopT
<1>5. \A t \in Tasks : tries'[t] <= maxTaskHandouts
  BY <1>0, <1>1, <1>2 DEF CountOK, maxTaskHandouts
<1>6. \A t \in Pending(mark') : tries'[t] <= attempts'[t] /\ attempts'[t] < maxTaskHandouts
  BY <1>0, <1>1, <1>2, PendingAreTasks DEF CountOK, maxTaskHandouts
<1>7. lpc' = "reserved" => /\ tries'[del'.task] <= attempts'[del'.task]
                           /\ attempts'[del'.task] < maxTaskHandouts
  BY <1>0, <1>1, <1>2, <1>4 DEF CountOK, maxTaskHandouts
<1>8. lpc' = "typed" => tries'[del'.task] <= attempts'[del'.task] + 1
  BY <1>0, <1>1, <1>2, <1>4 DEF CountOK, maxTaskHandouts
<1>9. \A i \in open' : tries'[row'[i].task] <= attempts'[row'[i].task]
  BY <1>0, <1>1, <1>2, <1>3 DEF CountOK
<1> QED
  BY <1>5, <1>6, <1>7, <1>8, <1>9 DEF CountOK

\* A step at the end of which no delivery is in hand, and that touches the counters of one item only.
LEMMA CountsOfOne ==
  ASSUME CInv, NEW u \in Tasks,
         \A t \in Tasks \ {u} : tries'[t] = tries[t] /\ attempts'[t] = attempts[t],
         Pending(mark') \subseteq Pending(mark) \cup {u},
         row' = row, open' \subseteq open, lpc' \notin {"reserved", "typed"},
         tries'[u] <= maxTaskHandouts,
         u \in Pending(mark') => tries'[u] <= attempts'[u] /\ attempts'[u] < maxTaskHandouts,
         \A i \in open' : row[i].task # u
  PROVE  CountOK'
<1>1. \A i \in open : row[i].task \in Tasks
  BY DEF CInv, HInv, TInv, LedgerT
<1> QED
  BY <1>1, PendingAreTasks DEF CInv, CountOK

LEMMA DeliverCounts ==
  ASSUME CountsAssumed, CInv, Deliver
  PROVE  CountOK'
<1>0. PICK u \in Tasks : u = del.task
  BY DEF Deliver, DeliverAbandon, DeliverReserve, DeliverLastLook, DeliverSend, DeliverSendFails,
     DeliverRecord, CInv, HInv, TInv, LoopT
<1>1. tries[u] \in Nat /\ attempts[u] \in Nat
  BY DEF CInv, HInv, TInv, LedgerT, HistoryT
<1>2. Delivering => (\A i \in open : row[i].task # u) /\ u \notin Pending(mark)
  BY <1>0 DEF CInv, HInv, Hands, FreeOK, DelOK, Pending
<1>3. CASE DeliverAbandon
  BY <1>3, CountsKept DEF DeliverAbandon, EndDelivery
<1>4. CASE DeliverReserve
  <2>1. CASE mark[del.task] = "[ ]"
    <3>1. /\ mark' = [mark EXCEPT ![u] = "[-]"] /\ lpc' = "reserved" /\ mark[u] = "[ ]"
          /\ UNCHANGED <<del, open, row, tries, attempts>>
      BY <1>0, <1>4, <2>1 DEF DeliverReserve, SetMark
    <3>2. Pending(mark') \subseteq Pending(mark) /\ u \in Pending(mark)
      BY <3>1 DEF CInv, HInv, TInv, FileT, Pending
    <3>3. tries[u] <= attempts[u] /\ attempts[u] < maxTaskHandouts
      BY <3>2 DEF CInv, CountOK
    <3>4. lpc' = "reserved" /\ UNCHANGED <<del, open, row, tries, attempts>>
      BY <3>1
    <3> QED
      BY <1>0, <3>2, <3>3, <3>4 DEF CInv, CountOK
  <2>2. CASE mark[del.task] # "[ ]"
    BY <1>4, <2>2, CountsKept DEF DeliverReserve, EndDelivery
  <2> QED
    BY <2>1, <2>2
<1>5. CASE DeliverLastLook
  <2>1. /\ tries[u] <= attempts[u] /\ attempts[u] < maxTaskHandouts /\ lpc' = "idle"
        /\ UNCHANGED <<row, open, tries, attempts>> /\ Delivering /\ Rollback(u)
    BY <1>0, <1>5 DEF DeliverLastLook, CInv, CountOK, EndDelivery, Delivering
  <2>2. Pending(mark') \subseteq Pending(mark) \cup {u}
    BY <2>1, GiveBackFrees DEF CInv, Pending
  <2>3. tries'[u] <= maxTaskHandouts
    BY <2>1 DEF CInv, CountOK
  <2> QED
    BY <1>2, <2>1, <2>2, <2>3, CountsOfOne
<1>6. CASE DeliverSend
  <2>1. /\ tries' = [tries EXCEPT ![u] = @ + 1] /\ lpc = "reserved" /\ lpc' = "typed"
        /\ UNCHANGED <<del, mark, open, row, attempts>> /\ Delivering
    BY <1>0, <1>6 DEF DeliverSend, Delivering
  <2>2. tries[u] <= attempts[u] /\ attempts[u] < maxTaskHandouts
    BY <1>0, <2>1 DEF CInv, CountOK
  <2>3. /\ tries'[u] = tries[u] + 1 /\ tries'[u] <= maxTaskHandouts
        /\ \A t \in Tasks \ {u} : tries'[t] = tries[t]
    BY <1>1, <2>1, <2>2 DEF CInv, HInv, TInv, HistoryT, maxTaskHandouts
  <2>4. \A i \in open : row[i].task \in Tasks \ {u}
    BY <1>2, <2>1 DEF CInv, HInv, TInv, LedgerT
  <2>5. tries'[del'.task] <= attempts'[del'.task] + 1
    BY <1>0, <1>1, <2>1, <2>2, <2>3
  <2>6. \A t \in Tasks : tries'[t] <= maxTaskHandouts
    BY <2>3 DEF CInv, CountOK
  <2>7. \A t \in Pending(mark) : tries'[t] <= attempts[t] /\ attempts[t] < maxTaskHandouts
    BY <1>2, <2>1, <2>3 DEF CInv, CountOK, Pending
  <2>8. \A i \in open : tries'[row[i].task] <= attempts[row[i].task]
    BY <2>3, <2>4 DEF CInv, CountOK
  <2> QED
    BY <2>1, <2>5, <2>6, <2>7, <2>8 DEF CountOK
<1>7. CASE DeliverSendFails
  <2>1. /\ tries' = [tries EXCEPT ![u] = @ + 1] /\ lpc = "reserved" /\ lpc' = "idle"
        /\ UNCHANGED <<row, open>> /\ Delivering
    BY <1>0, <1>7 DEF DeliverSendFails, Delivering, EndDelivery, KeepRows
  <2>2. tries[u] <= attempts[u] /\ attempts[u] < maxTaskHandouts
    BY <1>0, <2>1 DEF CInv, CountOK
  <2>3. /\ tries'[u] = tries[u] + 1 /\ tries'[u] <= maxTaskHandouts
        /\ \A t \in Tasks \ {u} : tries'[t] = tries[t]
    BY <1>1, <2>1, <2>2 DEF CInv, HInv, TInv, HistoryT, maxTaskHandouts
  <2>4. CASE ClearTaskHandouts(u) /\ UNCHANGED file
    <3>1. \A t \in Tasks \ {u} : attempts'[t] = attempts[t]
      BY <2>4 DEF ClearTaskHandouts, CInv, HInv, TInv, LedgerT
    <3> QED
      BY <1>2, <2>1, <2>3, <2>4, <3>1, CountsOfOne
  <2>5. CASE attempts[u] + 1 < maxTaskHandouts /\ attempts' = [attempts EXCEPT ![u] = attempts[u] + 1]
             /\ Rollback(u)
    <3>1. attempts'[u] = attempts[u] + 1 /\ \A t \in Tasks \ {u} : attempts'[t] = attempts[t]
      BY <2>5 DEF CInv, HInv, TInv, LedgerT
    <3>2. tries'[u] <= attempts'[u] /\ attempts'[u] < maxTaskHandouts
      BY <1>1, <2>2, <2>3, <2>5, <3>1
    <3>3. Pending(mark') \subseteq Pending(mark) \cup {u}
      BY <2>5, GiveBackFrees DEF CInv, Pending
    <3> QED
      BY <1>2, <2>1, <2>3, <3>1, <3>2, <3>3, CountsOfOne
  <2> QED
    BY <1>0, <1>7, <2>4, <2>5 DEF DeliverSendFails, Fails, CountsAssumed
<1>8. CASE DeliverRecord
  <2>1. CASE Succeeds /\ open' = open \cup {nextId}
             /\ row' = [row EXCEPT ![nextId] = [task |-> del.task, agent |-> del.agent,
                                                term |-> del.term]]
             /\ attempts' = [attempts EXCEPT ![del.task] = @ + 1]
    <3>1. Delivering /\ lpc' = "idle" /\ UNCHANGED <<mark, tries>> /\ tries[u] <= attempts[u] + 1
      BY <1>0, <1>8 DEF DeliverRecord, Delivering, EndDelivery, CInv, CountOK
    <3>2. attempts'[u] = attempts[u] + 1 /\ \A t \in Tasks \ {u} : attempts'[t] = attempts[t]
      BY <1>0, <2>1 DEF CInv, HInv, TInv, LedgerT
    <3>3. nextId \in Ids /\ nextId \notin open
      <4>1. nextId <= MaxRows
        BY <1>8 DEF DeliverRecord, CInv, HInv, TInv, LoopOK
      <4> QED
        BY <4>1, HandoutBounds DEF CInv, HInv, TInv, LedgerT, Ids
    <3>4. open' = open \cup {nextId} /\ row'[nextId].task = u /\ \A i \in open : row'[i] = row[i]
      BY <1>0, <2>1, <3>3 DEF CInv, HInv, TInv, LedgerT
    <3>5. \A i \in open : row[i].task \in Tasks \ {u}
      BY <1>2, <3>1 DEF CInv, HInv, TInv, LedgerT
    <3>6. \A i \in open' : tries'[row'[i].task] <= attempts'[row'[i].task]
      <4>1. \A i \in open : tries[row[i].task] <= attempts'[row[i].task]
        BY <3>2, <3>5 DEF CInv, CountOK
      <4> QED
        BY <3>1, <3>2, <3>4, <4>1
    <3>7. \A t \in Pending(mark') : tries'[t] <= attempts'[t] /\ attempts'[t] < maxTaskHandouts
      BY <1>2, <3>1, <3>2, PendingAreTasks DEF CInv, CountOK
    <3> QED
      BY <3>1, <3>6, <3>7 DEF CInv, CountOK
  <2>2. CASE UNCHANGED ledger
    BY <1>8, <2>2, CountsKept DEF DeliverRecord, EndDelivery
  <2> QED
    BY <1>8, <2>1, <2>2 DEF DeliverRecord, RecordTaskReservation
<1> QED
  BY <1>3, <1>4, <1>5, <1>6, <1>7, <1>8 DEF Deliver

LEMMA SweepCounts ==
  ASSUME CountsAssumed, CInv, Sweep
  PROVE  CountOK'
<1>1. CASE BeginSweep \/ SweepSettled \/ SweepPair
  BY <1>1, CountsKept DEF BeginSweep, SweepSettled, SweepPair, EndSweep
<1>2. ASSUME NEW i \in Ids, SweepRead(i) \/ SweepLeave(i) \/ SweepReleaseAsync(i) PROVE CountOK'
  BY <1>2, CountsKept DEF SweepRead, SweepLeave, SweepReleaseAsync
<1>3. ASSUME NEW i \in Ids, SweepRetire(i) \/ SweepEscalate(i) \/ SweepReclaim(i) PROVE CountOK'
  <2>1. /\ i \in open /\ row[i].task \in Tasks /\ lpc = "sweep" /\ lpc' = lpc
        /\ UNCHANGED <<row, tries>>
    BY <1>3, SweepRowIsOpen DEF SweepRetire, SweepEscalate, SweepReclaim, RetireReservation, DeleteRow,
       KeepRows, SweepAt, CInv, HInv
  <2>2. PICK u \in Tasks : u = row[i].task
    BY <2>1
  <2>3. /\ tries[u] <= attempts[u] /\ tries[u] <= maxTaskHandouts /\ u \notin Pending(mark)
        /\ \A j \in open \ {i} : row[j].task # u
    BY <2>1, <2>2 DEF CInv, CountOK, HInv, Hands, FreeOK, RowOK, Pending
  <2>4. CASE SweepRetire(i) \/ SweepEscalate(i)
    <3>1. open' = open \ {i} /\ UNCHANGED mark
          /\ (attempts' = [attempts EXCEPT ![u] = 0] \/ attempts' = attempts)
      BY <2>2, <2>4 DEF SweepRetire, SweepEscalate, RetireReservation, ClearTaskHandouts, DeleteRow,
         Fails, CountsAssumed, OneHandAssumed
    <3>2. \A t \in Tasks \ {u} : attempts'[t] = attempts[t]
      BY <3>1 DEF CInv, HInv, TInv, LedgerT
    <3> QED
      BY <2>1, <2>3, <3>1, <3>2, CountsOfOne
  <2>5. CASE SweepReclaim(i)
    <3>1. CASE SetMark(u, "[ ]", "nobody") /\ DeleteRow(i) /\ UNCHANGED attempts
      <4>1. attempts[u] < maxTaskHandouts
        BY <2>2, <2>5 DEF SweepReclaim
      <4>2. Pending(mark') \subseteq Pending(mark) \cup {u}
        BY <3>1 DEF SetMark, CInv, HInv, TInv, FileT, Pending
      <4>3. open' = open \ {i}
        BY <3>1 DEF DeleteRow
      <4> QED
        BY <2>1, <2>3, <3>1, <4>1, <4>2, <4>3, CountsOfOne
    <3>2. CASE UNCHANGED <<file, ledger>>
      BY <2>1, <3>2, CountsKept
    <3> QED
      BY <2>2, <2>5, <3>1, <3>2 DEF SweepReclaim, Fails, CountsAssumed, OneHandAssumed
  <2> QED
    BY <1>3, <2>4, <2>5
<1> QED
  BY <1>1, <1>2, <1>3 DEF Sweep, SweepRow

LEMMA WorldCounts ==
  ASSUME CountsAssumed, CInv, World
  PROVE  CountOK'
<1>1. UNCHANGED <<attempts, row, open, lpc, del>>
  BY DEF World, TaskStart, TaskDone, TaskUndone, Edit, PauseOrResume, DeclareOrEndWait,
     AgentWorksElsewhere, AgentParks, AgentReparks, AgentLeaves, PaneRecycled, AgentStarts, KeysLost
<1>2. \A t \in Tasks : tries'[t] = tries[t] \/ tries'[t] = 0
  <2>1. UNCHANGED tries \/ \E t \in Tasks : tries' = [tries EXCEPT ![t] = 0]
    BY DEF World, TaskStart, TaskDone, TaskUndone, Edit, PauseOrResume, DeclareOrEndWait,
       AgentWorksElsewhere, AgentParks, AgentReparks, AgentLeaves, PaneRecycled, AgentStarts, KeysLost
  <2> QED
    BY <2>1 DEF CInv, HInv, TInv, HistoryT
<1>3. Pending(mark') \subseteq Pending(mark)
  <2>1. ASSUME NEW t \in Tasks, TaskStart(t) \/ TaskDone(t) \/ TaskUndone(t)
        PROVE  Pending(mark') \subseteq Pending(mark)
    BY <2>1 DEF TaskStart, TaskDone, TaskUndone, Edit, SetMark, event, CountsAssumed, OneHandAssumed,
       CInv, HInv, TInv, FileT, Pending
  <2>2. ASSUME NEW a \in Agents, AgentParks(a) PROVE Pending(mark') \subseteq Pending(mark)
    BY <2>2 DEF AgentParks, SetMark, CInv, HInv, TInv, FileT, Pending
  <2> QED
    BY <2>1, <2>2 DEF World, PauseOrResume, DeclareOrEndWait, AgentWorksElsewhere, AgentReparks,
       AgentLeaves, PaneRecycled, AgentStarts, KeysLost
<1> QED
  BY <1>1, <1>2, <1>3, CountsKept

LEMMA NextCounts ==
  ASSUME CountsAssumed, CInv, [Next]_vars
  PROVE  CInv'
<1>1. HInv'
  BY NextHands DEF CInv, CountsAssumed
<1>2. ~Background
  BY DEF Background, ReleaseFinishes, HandleTaskReclaimOutcome, RefreshTaskSnapshot, CInv, HInv, LocalOK,
     CountsAssumed, OneHandAssumed
<1>3. CASE Transition \/ Attention \/ Crash \/ Start \/ (\E i \in Ids : RowAges(i)) \/ UNCHANGED vars
  <2>1. /\ UNCHANGED <<attempts, row, open, tries, mark>>
        /\ UNCHANGED <<lpc, del>> \/ lpc' \in {"idle", "decided"}
    BY <1>3 DEF Transition, Attention, HandleWorking, HandleParked, DecideToSend, DecideNothing, Crash,
       Start, RowAges, vars
  <2> QED
    BY <1>1, <2>1, CountsKept DEF CInv
<1> QED
  BY <1>1, <1>2, <1>3, DeliverCounts, SweepCounts, WorldCounts DEF Next, CInv

\* Under CountsAssumed an item is in one agent's hands and is offered at most maxTaskHandouts
\* times before a person looks at it, refused sends included (escalateNeverStartedTask,
\* escalateUndeliverableTask).
THEOREM HandedOnceAlways == CountsAssumed => (Spec => []HandedOnce)
<1> SUFFICES ASSUME CountsAssumed PROVE Spec => []HandedOnce
  OBVIOUS
<1>1. Init => CInv
  <2> SUFFICES ASSUME Init PROVE CountOK
    BY InitHands DEF CInv
  <2>1. open = {} /\ lpc = "idle" /\ \A t \in Tasks : tries[t] = 0 /\ attempts[t] = 0
    BY DEF Init
  <2> QED
    BY <2>1, PendingAreTasks DEF CountOK, maxTaskHandouts
<1>2. CInv /\ [Next]_vars => CInv'
  BY NextCounts
<1>3. CInv => HandedOnce
  BY Typed, HandsOnce DEF CInv, HInv, CountOK, HandedOnce, HandoutsBounded
<1> QED
  BY <1>1, <1>2, <1>3, PTL DEF Spec
=============================================================================
