----------------------------- MODULE TaskHandout -----------------------------
(***************************************************************************)
(* The unattended hand-out of checklist items to idle agents.              *)
(*                                                                         *)
(* A hand-out marks its item "[-]", types it into an agent's pane and      *)
(* writes a ledger row; the row is confirmed when herdr reports the agent  *)
(* working.  Once a minute a sweep settles the rows (a row that was never  *)
(* confirmed gives its item back) and pairs idle agents with pending       *)
(* items.  The select loop runs sweep, transitions and deliveries one at a *)
(* time, but a delivery and a sweep take many steps, and between any two   *)
(* of them people and agents edit the checklist, agents start, stop, leave *)
(* and are replaced, and off-loop releases of a remote list finish.        *)
(***************************************************************************)
EXTENDS Naturals, FiniteSets

CONSTANTS
  Agents,      \* herdr panes; an agent id is a pane id
  Tasks,       \* checklist items of one list, numbered in list order
  Remote,      \* the list lives in a remote store (snapshots, off-loop releases)
  Events,      \* bound: the outside events of this instance
  Faults,      \* the store and list writes that may fail
  MaxRows,     \* bound: hand-outs in one behaviour
  MaxTerm,     \* bound: terminals that ever stand behind one pane
  MaxFaults,   \* bound: failing writes in one behaviour
  MaxCrashes   \* bound: daemon crashes in one behaviour

maxTaskHandouts == 3
maxHandoutRestamps == 3

\* Age of a ledger row: within reclaimGrace, past it, past staleHandoutTTL, past
\* staleHandoutTTL + MaxDeclaredWait.
Fresh == 0
Ripe == 1
Stale == 2
Over == 3

FaultKinds == {"ledger", "record", "count", "confirm", "delete", "clear", "told", "rollback",
               "release", "touch", "refresh"}
EventKinds == {"start", "lose", "other", "late", "repark", "forget", "leave", "sendfail", "kill",
               "wait", "refuse", "taskstart", "undone", "done", "crashloop"}

ASSUME TasksAssumption == Tasks \subseteq Nat \ {0} /\ IsFiniteSet(Tasks)
ASSUME HandoutBounds ==
  /\ Events \subseteq EventKinds /\ Faults \subseteq FaultKinds /\ Remote \in BOOLEAN
  /\ MaxRows \in Nat /\ MaxTerm \in Nat \ {0} /\ MaxFaults \in Nat /\ MaxCrashes \in Nat

Ids == 1..MaxRows
Terms == 0..MaxTerm          \* 0: herdr did not report the terminal

VARIABLES
  \* --- the checklist and the database ---------------------------------------
  mark,       \* the item's checkbox: "[ ]", "[-]" or "[x]"
  open,       \* task_reservations rows
  row,        \* task, agent and terminal of each row
  age,        \* how long ago the row was (re-)stamped
  restamps,   \* startups that renewed the row
  confirmed,  \* rows whose agent was seen working
  attempts,   \* task_handouts.attempts
  paused,     \* the kill switch
  waits,      \* agents with a declared wait
  \* --- the daemon's memory ---------------------------------------------------
  up,
  claim,      \* autoTaskClaim: the item promised to an agent (0: none)
  idle,       \* idleSince: the terminal an agent was last seen parked on (0: none)
  handled,    \* episodeHandled
  armed,      \* agents with a capture pending
  armTerm,    \* the terminal that capture was armed for
  snap,       \* taskSnapshots of a remote list
  lpc,        \* what the select loop is in the middle of
  del,        \* the delivery in hand: agent, task and terminal
  listing,    \* the sweep's agent listing
  todo,       \* rows the sweep has still to settle
  copy,       \* the list as the sweep read it (NoCopy: not read yet)
  barred,     \* agents the sweep may not pair
  flight,     \* releases of a row still running off the loop
  outcomes,   \* rows whose release succeeded and has not been handled
  \* --- the agents -------------------------------------------------------------
  status,     \* gone, parked (idle or done), working (or blocked)
  term,       \* the terminal behind the pane
  inbox,      \* items typed into the pane and not yet acted on
  doing,      \* the item an agent is working on (0: none)
  evq,        \* transitions of an agent the loop has not handled
  \* --- history, read by properties only ----------------------------------------
  nextId, owner, tries, told, faults, crashes

file == <<mark, owner>>
ledger == <<open, row, age, restamps, confirmed, attempts, nextId>>
switches == <<paused, waits>>
memory == <<claim, idle, handled, armed, armTerm>>
loop == <<lpc, del, listing, todo, copy, barred>>
release == <<flight, outcomes>>
agents == <<status, term, inbox, doing, evq>>
history == <<tries, told>>
bounds == <<faults, crashes>>
vars == <<file, ledger, switches, up, memory, snap, loop, release, agents, history, bounds>>

Marks == {"[ ]", "[-]", "[x]"}
\* A remote list's entry besides its content: none, one that carries an error, and the
\* one a first read leaves behind, which is served as an empty list.
NotCached == [t \in Tasks |-> "none"]
Refused == [t \in Tasks |-> "error"]
Blank == [t \in Tasks |-> "blank"]
NoCopy == NotCached
NoDelivery == [agent |-> 0, task |-> 0, term |-> 0]

\* Every definition has its type; row ids, ages and counters stay within their bounds.
TypeOK ==
  /\ mark \in [Tasks -> Marks] /\ owner \in [Tasks -> {"nobody", "daemon", "other"}]
  /\ open \subseteq Ids /\ confirmed \subseteq open /\ open \subseteq 1..(nextId - 1)
  /\ row \in [Ids -> [task : Tasks \cup {0}, agent : Agents \cup {0}, term : Terms]]
  /\ \A i \in open : row[i].task \in Tasks /\ row[i].agent \in Agents
  /\ age \in [Ids -> Fresh..Over] /\ restamps \in [Ids -> 0..maxHandoutRestamps]
  /\ attempts \in [Tasks -> Nat] /\ tries \in [Tasks -> Nat]
  /\ told \subseteq Tasks /\ nextId \in 1..(MaxRows + 1)
  /\ paused \in BOOLEAN /\ waits \subseteq Agents /\ up \in BOOLEAN
  /\ claim \in [Agents -> Tasks \cup {0}] /\ idle \in [Agents -> Terms]
  /\ handled \subseteq Agents /\ armed \subseteq Agents /\ armTerm \in [Agents -> Terms]
  /\ snap \in [Tasks -> Marks] \cup {NotCached, Refused, Blank}
  /\ copy \in [Tasks -> Marks] \cup {NoCopy, Blank}
  /\ lpc \in {"idle", "sweep", "pair", "decided", "reserved", "typed"}
  /\ lpc \in {"decided", "reserved", "typed"}
       => del.agent \in Agents /\ del.task \in Tasks /\ del.term \in Terms
  /\ listing \in [Agents -> [status : {"gone", "parked", "working"}, term : Terms]]
  /\ todo \subseteq Ids /\ barred \subseteq Agents
  /\ flight \in [Ids -> Nat] /\ outcomes \subseteq Ids
  /\ status \in [Agents -> {"gone", "parked", "working"}] /\ term \in [Agents -> 1..MaxTerm]
  /\ inbox \in [Agents -> SUBSET Tasks] /\ doing \in [Agents -> Tasks \cup {0}]
  /\ evq \in [Agents -> {"none", "working", "parked", "both"}]
  /\ faults \in 0..MaxFaults /\ crashes \in 0..MaxCrashes

Init ==
  /\ mark = [t \in Tasks |-> "[ ]"] /\ owner = [t \in Tasks |-> "nobody"]
  /\ open = {} /\ confirmed = {} /\ nextId = 1
  /\ row = [i \in Ids |-> [task |-> 0, agent |-> 0, term |-> 0]]
  /\ age = [i \in Ids |-> Fresh] /\ restamps = [i \in Ids |-> 0]
  /\ attempts = [t \in Tasks |-> 0] /\ tries = [t \in Tasks |-> 0] /\ told = {}
  /\ paused = FALSE /\ waits = {} /\ up = TRUE
  /\ claim = [a \in Agents |-> 0] /\ idle = [a \in Agents |-> 0]
  /\ handled = Agents /\ armed = {} /\ armTerm = [a \in Agents |-> 0]
  /\ snap = NotCached /\ lpc = "idle" /\ del = NoDelivery
  /\ listing = [a \in Agents |-> [status |-> "gone", term |-> 0]]
  /\ todo = {} /\ copy = NoCopy /\ barred = {} /\ flight = [i \in Ids |-> 0] /\ outcomes = {}
  /\ status = [a \in Agents |-> "parked"] /\ term = [a \in Agents |-> 1]
  /\ inbox = [a \in Agents |-> {}] /\ doing = [a \in Agents |-> 0]
  /\ evq = [a \in Agents |-> "none"]
  /\ faults = 0 /\ crashes = 0

event(e) == e \in Events

Succeeds == UNCHANGED faults
Fails(write) == write \in Faults /\ faults < MaxFaults /\ faults' = faults + 1

-----------------------------------------------------------------------------
(* The checklist.  Every write is one locked read-modify-write.             *)

SetMark(t, m, who) ==
  /\ mark' = [mark EXCEPT ![t] = m]
  /\ owner' = [owner EXCEPT ![t] = IF m = "[-]" THEN who ELSE "nobody"]

\* What the daemon reads: the file, or the remote list's snapshot.
ListView == IF Remote THEN snap ELSE mark
Readable == Remote => snap \notin {NotCached, Refused}
\* The first read of a remote list fails and starts a refresh; the entry it makes for
\* that has neither content nor error.
AfterRead == IF Remote /\ snap = NotCached THEN Blank ELSE snap
Pending(view) == {t \in Tasks : view[t] = "[ ]"}
First(S) == CHOOSE t \in S : \A u \in S : t <= u

\* The daemon's own write leaves its result as the snapshot; a refused one an error.
NoteTaskListWritten == snap' = IF Remote THEN mark' ELSE snap
NoteTaskListRefused == snap' = IF Remote THEN Refused ELSE snap

\* Release and Reclaim: back to "[ ]" only from "[-]"; otherwise refused, nothing written.
\* Mutant of Releasable: the text alone decides.
ReleasableByText(t) == TRUE
Releasable(t) == mark[t] = "[-]"

GiveBack(t) ==
  IF Releasable(t) THEN SetMark(t, "[ ]", "nobody") /\ NoteTaskListWritten
  ELSE UNCHANGED file /\ NoteTaskListRefused

Rollback(t) ==
  \/ Succeeds /\ GiveBack(t)
  \/ Fails("rollback") /\ UNCHANGED file /\ NoteTaskListRefused

-----------------------------------------------------------------------------
(* The hand-out ledger.                                                     *)

\* Mutant of DeleteRow: the confirmation outlives its row.
DeleteRowOnly(i) == open' = open \ {i} /\ UNCHANGED <<confirmed, row, age, restamps, nextId>>
DeleteRow(i) ==
  /\ open' = open \ {i} /\ confirmed' = confirmed \ {i}
  /\ UNCHANGED <<row, age, restamps, nextId>>
KeepRows == UNCHANGED <<open, row, age, restamps, confirmed, nextId>>
ClearTaskHandouts(t) == attempts' = [attempts EXCEPT ![t] = 0]

\* Deleting the row and clearing the counter are two writes; the second is only
\* tried once the first succeeded.
RetireReservation(i) ==
  \/ Succeeds /\ DeleteRow(i) /\ ClearTaskHandouts(row[i].task)
  \/ Fails("delete") /\ KeepRows /\ UNCHANGED attempts
  \/ Fails("clear") /\ DeleteRow(i) /\ UNCHANGED attempts

\* Mutant of RecordTaskReservation: the counter is not bumped with the row.
RecordUncounted(a, t, tm) ==
  \/ /\ Succeeds
     /\ open' = open \cup {nextId} /\ nextId' = nextId + 1
     /\ row' = [row EXCEPT ![nextId] = [task |-> t, agent |-> a, term |-> tm]]
     /\ age' = [age EXCEPT ![nextId] = Fresh]
     /\ UNCHANGED <<restamps, confirmed, attempts>>
  \/ Fails("record") /\ UNCHANGED ledger

\* The row and the counter in one transaction, or neither (keyed by the captured
\* terminal).
RecordTaskReservation(a, t, tm) ==
  \/ /\ Succeeds
     /\ open' = open \cup {nextId} /\ nextId' = nextId + 1
     /\ row' = [row EXCEPT ![nextId] = [task |-> t, agent |-> a, term |-> tm]]
     /\ age' = [age EXCEPT ![nextId] = Fresh]
     /\ attempts' = [attempts EXCEPT ![t] = @ + 1]
     /\ UNCHANGED <<restamps, confirmed>>
  \/ Fails("record") /\ UNCHANGED ledger

\* Every unconfirmed row of the agent, whichever item it is for.  herdr's event
\* socket reports no terminal, and an unknown terminal matches every row.
ConfirmTaskReservations(a, tm) ==
  \/ /\ Succeeds
     /\ confirmed' = confirmed \cup
          {i \in open : row[i].agent = a /\ (row[i].term = 0 \/ tm = 0 \/ row[i].term = tm)}
  \/ Fails("confirm") /\ UNCHANGED confirmed

\* Mutant of TouchTaskReservations: every start renews every row.
TouchAlways ==
  /\ Succeeds /\ UNCHANGED restamps
  /\ age' = [i \in Ids |-> IF i \in open \ confirmed THEN Fresh ELSE age[i]]

\* The startup re-stamp, bounded per row.
TouchTaskReservations ==
  LET renewed == {i \in open \ confirmed : restamps[i] < maxHandoutRestamps} IN
  \/ /\ Succeeds
     /\ age' = [i \in Ids |-> IF i \in renewed THEN Fresh ELSE age[i]]
     /\ restamps' = [i \in Ids |-> IF i \in renewed THEN restamps[i] + 1 ELSE restamps[i]]
  \/ Fails("touch") /\ UNCHANGED <<age, restamps>>

DropClaim(a) == claim' = [claim EXCEPT ![a] = 0]
DropClaimFor(i) ==
  IF claim[row[i].agent] = row[i].task THEN DropClaim(row[i].agent) ELSE UNCHANGED claim

-----------------------------------------------------------------------------
(* Transitions: herdr's events, handled on the loop.                         *)

LoopIdle == up /\ lpc = "idle"

\* "working": the parked episode is over and the agent's hand-outs are confirmed.
HandleWorking(a) ==
  /\ LoopIdle /\ evq[a] \in {"working", "both"}
  /\ evq' = [evq EXCEPT ![a] = IF @ = "both" THEN "parked" ELSE "none"]
  /\ armed' = armed \ {a} /\ handled' = handled \ {a}
  /\ DropClaim(a) /\ idle' = [idle EXCEPT ![a] = 0]
  /\ ConfirmTaskReservations(a, 0)
  /\ UNCHANGED <<file, open, row, age, restamps, attempts, nextId, switches, up, armTerm, snap,
                 loop, release, status, term, inbox, doing, history, crashes>>

\* idle, done or blocked: a capture is armed; the latest event wins.
HandleParked(a) ==
  /\ LoopIdle /\ evq[a] = "parked"
  /\ evq' = [evq EXCEPT ![a] = "none"]
  /\ armed' = armed \cup {a} /\ armTerm' = [armTerm EXCEPT ![a] = 0]
  /\ handled' = handled \cup {a}
  /\ UNCHANGED <<file, ledger, switches, up, claim, idle, snap, loop, release,
                 status, term, inbox, doing, history, bounds>>

-----------------------------------------------------------------------------
(* A delivery: capture, decide, reserve, last look, send, record.            *)

\* The item a capture resolves: the promised one while it is pending, else the
\* first pending one.
DeclaredTask(a) ==
  LET pending == IF Readable THEN Pending(ListView) ELSE {} IN
  IF claim[a] \in pending THEN claim[a]
  ELSE IF pending = {} THEN 0 ELSE First(pending)

\* The capture fires and the decision is to send the declared task.
DecideToSend(a) ==
  /\ LoopIdle /\ a \in armed /\ ~paused
  /\ DeclaredTask(a) # 0 /\ nextId <= MaxRows
  /\ del' = [agent |-> a, task |-> DeclaredTask(a), term |-> armTerm[a]]
  /\ lpc' = "decided" /\ armed' = armed \ {a}
  /\ IF claim[a] = DeclaredTask(a) THEN UNCHANGED claim ELSE DropClaim(a)
  /\ UNCHANGED <<file, ledger, switches, up, idle, handled, armTerm, snap, listing, todo, copy, barred,
                 release, agents, history, bounds>>

\* The capture fires and nothing is sent: paused, no pending task, a gate, an
\* escalation or a noop.  The agent's promise goes with the episode.
DecideNothing(a) ==
  /\ LoopIdle /\ a \in armed
  /\ paused \/ DeclaredTask(a) = 0 \/ "refuse" \in Events
  /\ armed' = armed \ {a} /\ DropClaim(a)
  /\ snap' \in {snap, AfterRead}   \* some gates come before the list is read
  /\ UNCHANGED <<file, ledger, switches, up, idle, handled, armTerm, loop, release, agents,
                 history, bounds>>

EndDelivery == lpc' = "idle" /\ del' = NoDelivery

\* The pane was recycled, the composer is not free, the agent was disabled or the
\* audit row could not be written: nothing was reserved.
DeliverAbandon ==
  /\ lpc = "decided"
  /\ \/ del.term # 0 /\ status[del.agent] # "gone" /\ term[del.agent] # del.term
     \/ "refuse" \in Events
  /\ EndDelivery /\ DropClaim(del.agent)
  /\ UNCHANGED <<file, ledger, switches, up, idle, handled, armed, armTerm, snap, listing, todo, copy,
                 barred, release, agents, history, bounds>>

\* reserveDeclaredTask: the item is claimed by text inside the file lock, or the
\* hand-out is refused.
DeliverReserve ==
  /\ lpc = "decided"
  /\ del.term = 0 \/ status[del.agent] = "gone" \/ term[del.agent] = del.term
  /\ \/ /\ mark[del.task] = "[ ]"
        /\ SetMark(del.task, "[-]", "daemon") /\ NoteTaskListWritten
        /\ lpc' = "reserved" /\ UNCHANGED <<del, claim>>
     \/ /\ mark[del.task] # "[ ]"
        /\ EndDelivery /\ DropClaim(del.agent) /\ NoteTaskListRefused /\ UNCHANGED file
  /\ UNCHANGED <<ledger, switches, up, idle, handled, armed, armTerm, listing, todo, copy, barred,
                 release, agents, history, bounds>>

\* The last look refuses, or the dialog moved: the reservation is rolled back.
DeliverLastLook ==
  /\ lpc = "reserved" /\ "refuse" \in Events
  /\ Rollback(del.task) /\ EndDelivery /\ DropClaim(del.agent)
  /\ UNCHANGED <<ledger, switches, up, idle, handled, armed, armTerm, listing, todo, copy, barred,
                 release, agents, history, crashes>>

\* herdr accepts the keystrokes: they are in the pane of whoever is behind it now.
DeliverSend ==
  /\ lpc = "reserved" /\ status[del.agent] # "gone"
  /\ inbox' = [inbox EXCEPT ![del.agent] = @ \cup {del.task}]
  /\ tries' = [tries EXCEPT ![del.task] = @ + 1] /\ UNCHANGED told
  /\ lpc' = "typed"
  /\ UNCHANGED <<file, ledger, switches, up, memory, snap, del, listing, todo, copy, barred, release,
                 status, term, doing, evq, bounds>>

\* herdr refuses them: the attempt is counted here, since no row will be, and at the
\* ceiling the item stays "[-]" once the operator has been told.
DeliverSendFails ==
  /\ lpc = "reserved"
  /\ status[del.agent] = "gone" \/ "sendfail" \in Events
  /\ LET t == del.task
         counted == attempts[t] + 1 IN
     /\ tries' = [tries EXCEPT ![t] = @ + 1]
     /\ \/ /\ counted >= maxTaskHandouts /\ Succeeds
           /\ ClearTaskHandouts(t) /\ told' = told \cup {t} /\ UNCHANGED <<file, snap>>
        \/ /\ counted >= maxTaskHandouts /\ Fails("told")
           /\ attempts' = [attempts EXCEPT ![t] = counted] /\ GiveBack(t) /\ UNCHANGED told
        \/ /\ counted < maxTaskHandouts
           /\ attempts' = [attempts EXCEPT ![t] = counted] /\ Rollback(t) /\ UNCHANGED told
        \/ /\ Fails("count") /\ GiveBack(t) /\ UNCHANGED <<attempts, told>>
  /\ EndDelivery /\ DropClaim(del.agent) /\ KeepRows
  /\ UNCHANGED <<switches, up, idle, handled, armed, armTerm, listing, todo, copy, barred, release,
                 agents, crashes>>

\* The ledger row, written after the send; without it the item stays "[-]".
DeliverRecord ==
  /\ lpc = "typed"
  /\ RecordTaskReservation(del.agent, del.task, del.term)
  /\ EndDelivery
  /\ UNCHANGED <<file, switches, up, memory, snap, listing, todo, copy, barred, release, agents, history,
                 crashes>>

-----------------------------------------------------------------------------
(* The sweep: refresh the idle clocks, settle the ledger, pair.               *)

EndSweep == lpc' = "idle" /\ todo' = {} /\ copy' = NoCopy /\ barred' = {}

\* noteIdleAgents, the reconcile of parked agents nobody captured yet, the kill
\* switch, and the ledger read.  expired: claims past autoTaskClaimTTL.  rested:
\* agents parked on the same terminal for longer than a minute and not backing off.
BeginSweep ==
  /\ LoopIdle
  /\ LET seen == [a \in Agents |-> [status |-> status[a], term |-> term[a]]]
         sits(a) == status[a] = "parked"
         since(a) == sits(a) /\ idle[a] = term[a]
         missed == {a \in Agents : sits(a) /\ a \notin handled} IN
     /\ listing' = seen
     /\ idle' = [a \in Agents |-> IF sits(a) THEN term[a] ELSE 0]
     /\ armed' = armed \cup missed /\ handled' = handled \cup missed
     /\ armTerm' = [a \in Agents |-> IF a \in missed THEN term[a] ELSE armTerm[a]]
     /\ \E expired \in SUBSET {a \in Agents : since(a) /\ claim[a] # 0} :
          claim' = [a \in Agents |-> IF since(a) /\ a \notin expired THEN claim[a] ELSE 0]
     /\ \/ /\ paused \/ Fails("ledger")
           /\ paused => Succeeds
           /\ UNCHANGED <<lpc, todo, barred>>
        \/ /\ ~paused /\ Succeeds
           /\ lpc' = "sweep" /\ todo' = open
           /\ \E rested \in SUBSET {a \in Agents : since(a)} : barred' = Agents \ rested
  /\ UNCHANGED <<file, ledger, switches, up, snap, del, copy, release, agents, history, crashes>>

\* The row's agent, as the listing shows it, and whether it is still the tenant the
\* item was handed to (an unknown terminal is never a difference).
SameTenant(i) ==
  LET seen == listing[row[i].agent] IN
  seen.status # "gone" /\ (row[i].term = 0 \/ row[i].term = seen.term)
DeclaredWait(i) == SameTenant(i) /\ row[i].agent \in waits
Held(i) == age[i] = Stale /\ DeclaredWait(i)

\* Rows whose item decides what happens to them; the list is read for the first of them.
NeedsList(i) == i \notin confirmed /\ age[i] < Stale
ListRead(i) == NeedsList(i) /\ copy # NoCopy
ListUnreadable(i) == NeedsList(i) /\ copy = NoCopy /\ ~Readable
InProgress(i) == ListRead(i) /\ copy[row[i].task] = "[-]"

\* Mutant of Retirable: a row is given up on as soon as its grace is over.
RetirableEarly(i) ==
  \/ i \in confirmed
  \/ age[i] >= Ripe /\ ~Held(i)
  \/ ListRead(i) /\ ~InProgress(i)

\* A row that has done its job: confirmed, given up on after the TTL, or its item is
\* no longer the "[-]" it reserved.
Retirable(i) ==
  \/ i \in confirmed
  \/ age[i] >= Stale /\ ~Held(i)
  \/ ListRead(i) /\ ~InProgress(i)

AtWork(i) == SameTenant(i) /\ listing[row[i].agent].status = "working"

\* Mutant of LeftAlone: no grace for a send that may yet land.
LeftAloneNoGrace(i) ==
  \/ i \notin confirmed /\ Held(i)
  \/ ListUnreadable(i)
  \/ InProgress(i) /\ (AtWork(i) \/ DeclaredWait(i))

\* A row nobody may touch yet; its agent is not paired by this sweep.
LeftAlone(i) ==
  \/ i \notin confirmed /\ Held(i)
  \/ ListUnreadable(i)
  \/ InProgress(i) /\ (AtWork(i) \/ DeclaredWait(i) \/ age[i] = Fresh)

\* A row whose agent took nothing up: its item goes back, or to the operator.
Stranded(i) == InProgress(i) /\ ~LeftAlone(i)

SweepAt(i) == up /\ lpc = "sweep" /\ todo # {} /\ i = First(todo)
sweepRest == <<switches, up, idle, handled, armed, armTerm, del, listing, agents, tries, crashes>>

SweepRead(i) ==
  /\ SweepAt(i) /\ NeedsList(i) /\ copy = NoCopy /\ Readable
  /\ copy' = ListView
  /\ UNCHANGED <<file, ledger, claim, snap, lpc, todo, barred, release, faults, sweepRest, told>>

SweepRetire(i) ==
  /\ SweepAt(i) /\ Retirable(i)
  /\ RetireReservation(i) /\ todo' = todo \ {i}
  /\ UNCHANGED <<file, claim, snap, lpc, copy, barred, release, sweepRest, told>>

\* Also when the pane shows background work, which herdr calls idle.
SweepLeave(i) ==
  /\ SweepAt(i)
  /\ LeftAlone(i) \/ ("wait" \in Events /\ InProgress(i) /\ SameTenant(i))
  /\ barred' = barred \cup {row[i].agent} /\ todo' = todo \ {i}
  /\ snap' = IF ListUnreadable(i) THEN AfterRead ELSE snap
  /\ UNCHANGED <<file, ledger, claim, lpc, copy, release, faults, sweepRest, told>>

\* escalateNeverStartedTask: the item stays "[-]", the row and the counter go.
SweepEscalate(i) ==
  /\ SweepAt(i) /\ Stranded(i) /\ attempts[row[i].task] >= maxTaskHandouts
  /\ \/ Succeeds /\ DeleteRow(i) /\ ClearTaskHandouts(row[i].task)
     \/ Fails("delete") /\ KeepRows /\ ClearTaskHandouts(row[i].task)
     \/ Fails("clear") /\ DeleteRow(i) /\ UNCHANGED attempts
  /\ DropClaimFor(i) /\ todo' = todo \ {i} /\ told' = told \cup {row[i].task}
  /\ UNCHANGED <<file, snap, lpc, copy, barred, release, sweepRest>>

\* The inline release of a local list: the item first, then the row.
SweepReclaim(i) ==
  /\ SweepAt(i) /\ Stranded(i) /\ ~Remote /\ attempts[row[i].task] < maxTaskHandouts
  /\ \/ /\ Releasable(row[i].task)
        /\ SetMark(row[i].task, "[ ]", "nobody") /\ NoteTaskListWritten
        /\ DropClaimFor(i) /\ copy' = NoCopy /\ UNCHANGED <<attempts, barred>>
        /\ \/ Succeeds /\ DeleteRow(i)
           \/ Fails("delete") /\ KeepRows
     \/ /\ \/ ~Releasable(row[i].task) /\ Succeeds
           \/ Fails("release")
        /\ barred' = barred \cup {row[i].agent}
        /\ NoteTaskListRefused /\ UNCHANGED <<file, ledger, claim, copy>>
  /\ todo' = todo \ {i}
  /\ UNCHANGED <<lpc, release, sweepRest, told>>

\* bound: releases of one row running at the same time
MaxFlights == 2

\* A remote list is released off the loop; the row stays open until its outcome is
\* handled.
SweepReleaseAsync(i) ==
  /\ SweepAt(i) /\ Stranded(i) /\ Remote /\ attempts[row[i].task] < maxTaskHandouts
  /\ flight' = IF flight[i] < MaxFlights THEN [flight EXCEPT ![i] = @ + 1] ELSE flight
  /\ barred' = barred \cup {row[i].agent} /\ todo' = todo \ {i}
  /\ UNCHANGED <<file, ledger, claim, snap, lpc, copy, outcomes, faults, sweepRest, told>>

SweepSettled ==
  /\ up /\ lpc = "sweep" /\ todo = {} /\ lpc' = "pair"
  /\ UNCHANGED <<file, ledger, switches, up, memory, snap, del, listing, todo, copy, barred, release,
                 agents, history, bounds>>

\* The longest-idle eligible agents (the listing's order abstracts the idle clock) are
\* paired with the first pending items nobody is promised, one each.
SweepPair ==
  /\ up /\ lpc = "pair"
  /\ LET eligible == {a \in Agents \ barred : listing[a].status = "parked" /\ claim[a] = 0
                                              /\ a \notin waits}
         pending == IF ~Readable THEN {}
                    ELSE Pending(ListView) \ {claim[a] : a \in Agents}
         fits(given) ==
           /\ \A a, b \in eligible : given[a] = given[b] => a = b \/ given[a] = 0
           /\ LET used == {given[a] : a \in eligible} \ {0} IN
              /\ \A t \in pending, u \in used : t < u => t \in used
              /\ used = pending \/ 0 \notin {given[a] : a \in eligible}
     IN \E given \in [eligible -> pending \cup {0}] :
          /\ fits(given)
          /\ LET driven == {a \in eligible : given[a] # 0} IN
             /\ claim' = [a \in Agents |-> IF a \in driven THEN given[a] ELSE claim[a]]
             /\ armed' = armed \cup driven /\ handled' = handled \cup driven
             /\ armTerm' = [a \in Agents |-> IF a \in driven THEN listing[a].term ELSE armTerm[a]]
  /\ EndSweep
  /\ \/ snap' = AfterRead
     \/ (\A a \in Agents : claim'[a] = claim[a]) /\ UNCHANGED snap   \* nobody eligible
  /\ UNCHANGED <<file, ledger, switches, up, idle, del, listing, release, agents, history,
                 bounds>>

\* A release finishing off the loop, and its outcome handled on the loop.
ReleaseFinishes(i) ==
  /\ up /\ flight[i] > 0
  /\ flight' = [flight EXCEPT ![i] = @ - 1]
  /\ GiveBack(row[i].task)
  /\ outcomes' = IF Releasable(row[i].task) THEN outcomes \cup {i} ELSE outcomes
  /\ UNCHANGED <<ledger, switches, up, memory, loop, agents, history, bounds>>

HandleTaskReclaimOutcome(i) ==
  /\ LoopIdle /\ i \in outcomes
  /\ outcomes' = outcomes \ {i} /\ snap' = NotCached
  /\ DropClaimFor(i) /\ UNCHANGED attempts
  /\ \/ Succeeds /\ DeleteRow(i)
     \/ Fails("delete") /\ KeepRows
  /\ UNCHANGED <<file, switches, up, idle, handled, armed, armTerm, loop, flight, agents, history,
                 crashes>>

\* A background refresh of a remote list's snapshot.
RefreshTaskSnapshot ==
  /\ up /\ Remote /\ snap \notin {NotCached, mark}
  /\ \/ Succeeds /\ snap' = mark
     \/ Fails("refresh") /\ snap' = Refused
  /\ UNCHANGED <<file, ledger, switches, up, memory, loop, release, agents, history, crashes>>

-----------------------------------------------------------------------------
(* Daemon life.                                                               *)

Crash ==
  /\ up
  /\ event("crashloop") \/ crashes < MaxCrashes
  /\ crashes' = IF event("crashloop") THEN crashes ELSE crashes + 1
  /\ up' = FALSE /\ lpc' = "idle" /\ del' = NoDelivery /\ todo' = {} /\ copy' = NoCopy /\ barred' = {}
  /\ claim' = [a \in Agents |-> 0] /\ idle' = [a \in Agents |-> 0] /\ handled' = {}
  /\ armed' = {} /\ snap' = NotCached /\ flight' = [i \in Ids |-> 0] /\ outcomes' = {}
  /\ evq' = [a \in Agents |-> "none"]
  /\ UNCHANGED <<file, ledger, switches, armTerm, listing, status, term, inbox, doing, history,
                 faults>>

\* Startup: the ledger is re-stamped, then every parked agent is captured.
Start ==
  /\ ~up /\ up' = TRUE
  /\ TouchTaskReservations
  /\ LET parkedNow == {a \in Agents : status[a] = "parked"} IN
     /\ armed' = parkedNow /\ handled' = parkedNow
     /\ armTerm' = [a \in Agents |-> IF a \in parkedNow THEN term[a] ELSE 0]
  /\ UNCHANGED <<file, open, row, confirmed, attempts, nextId, switches, claim, idle, snap, loop,
                 release, agents, history, crashes>>

-----------------------------------------------------------------------------
(* The outside world.                                                         *)

outside == <<ledger, up, memory, snap, loop, release, bounds>>

\* A person or an agent marks an item with `hap task start`, `done` or `undone`; each
\* writes its mark whatever was there.
Edit(t, m) ==
  /\ SetMark(t, m, "other") /\ tries' = [tries EXCEPT ![t] = 0] /\ told' = told \ {t}
  /\ UNCHANGED <<switches, agents, outside>>
TaskStart(t) == event("taskstart") /\ mark[t] # "[-]" /\ Edit(t, "[-]")
TaskDone(t) == event("done") /\ mark[t] # "[x]" /\ Edit(t, "[x]")
TaskUndone(t) == event("undone") /\ mark[t] # "[ ]" /\ Edit(t, "[ ]")

PauseOrResume ==
  /\ event("kill") /\ paused' = ~paused
  /\ UNCHANGED <<file, waits, agents, history, outside>>
DeclareOrEndWait(a) ==
  /\ event("wait")
  /\ waits' = IF a \in waits THEN waits \ {a} ELSE waits \cup {a}
  /\ UNCHANGED <<file, paused, agents, history, outside>>

\* The agent acts on an item typed into its pane.
AgentStarts(a, t) ==
  /\ event("start") /\ status[a] = "parked" /\ t \in inbox[a] /\ evq[a] = "none"
  /\ status' = [status EXCEPT ![a] = "working"] /\ doing' = [doing EXCEPT ![a] = t]
  /\ inbox' = [inbox EXCEPT ![a] = @ \ {t}] /\ evq' = [evq EXCEPT ![a] = "working"]
  /\ tries' = [tries EXCEPT ![t] = 0] /\ UNCHANGED told
  /\ UNCHANGED <<file, switches, term, outside>>
\* Keystrokes typed into a CLI that is restarting or repainting are lost.
KeysLost(a, t) ==
  /\ event("lose") /\ t \in inbox[a] /\ inbox' = [inbox EXCEPT ![a] = @ \ {t}]
  /\ UNCHANGED <<file, switches, status, term, doing, evq, history, outside>>
\* The agent works on something of its operator's own.
AgentWorksElsewhere(a) ==
  /\ event("other") /\ status[a] = "parked" /\ evq[a] = "none"
  /\ status' = [status EXCEPT ![a] = "working"] /\ evq' = [evq EXCEPT ![a] = "working"]
  /\ UNCHANGED <<file, switches, term, inbox, doing, history, outside>>
\* The agent is finished; it marks its item, unless it forgets to.
AgentParks(a) ==
  /\ status[a] = "working" /\ evq[a] \in {"none", "working"}
  /\ status' = [status EXCEPT ![a] = "parked"] /\ doing' = [doing EXCEPT ![a] = 0]
  /\ evq' = [evq EXCEPT ![a] = IF @ = "working" THEN "both" ELSE "parked"]
  /\ \/ doing[a] # 0 /\ SetMark(doing[a], "[x]", "nobody")
     \/ (doing[a] = 0 \/ event("forget")) /\ UNCHANGED file
  /\ UNCHANGED <<switches, term, inbox, history, outside>>
\* A parked agent goes from done to idle, say because its pane was looked at.
AgentReparks(a) ==
  /\ event("repark") /\ status[a] = "parked" /\ evq[a] = "none"
  /\ evq' = [evq EXCEPT ![a] = "parked"]
  /\ UNCHANGED <<file, switches, status, term, inbox, doing, history, outside>>
AgentLeaves(a) ==
  /\ event("leave") /\ status[a] # "gone"
  /\ status' = [status EXCEPT ![a] = "gone"] /\ inbox' = [inbox EXCEPT ![a] = {}]
  /\ doing' = [doing EXCEPT ![a] = 0] /\ evq' = [evq EXCEPT ![a] = "none"]
  /\ UNCHANGED <<file, switches, term, history, outside>>
\* herdr gives the pane id to a new terminal.
PaneRecycled(a) ==
  /\ status[a] = "gone" /\ term[a] < MaxTerm
  /\ status' = [status EXCEPT ![a] = "parked"] /\ term' = [term EXCEPT ![a] = @ + 1]
  /\ evq' = [evq EXCEPT ![a] = IF up THEN "parked" ELSE "none"]
  /\ UNCHANGED <<file, switches, inbox, doing, history, outside>>

\* Time passes for a row.  Without the "late" event, keystrokes are acted on or lost, and
\* the transition they cause is handled, within reclaimGrace.
RowAges(i) ==
  /\ i \in open /\ age[i] < Over /\ lpc # "sweep"
  /\ age[i] = Fresh /\ ~event("late") =>
       /\ row[i].task \notin inbox[row[i].agent]
       /\ evq[row[i].agent] \notin {"working", "both"}
  /\ age' = [age EXCEPT ![i] = @ + 1]
  /\ UNCHANGED <<file, open, row, restamps, confirmed, attempts, nextId, switches, up, memory,
                 snap, loop, release, agents, history, bounds>>

-----------------------------------------------------------------------------
Deliver ==
  \/ DeliverAbandon \/ DeliverReserve \/ DeliverLastLook \/ DeliverSend \/ DeliverSendFails
  \/ DeliverRecord
SweepRow(i) ==
  \/ SweepRead(i) \/ SweepRetire(i) \/ SweepLeave(i) \/ SweepEscalate(i) \/ SweepReclaim(i)
  \/ SweepReleaseAsync(i)
Sweep == BeginSweep \/ (\E i \in Ids : SweepRow(i)) \/ SweepSettled \/ SweepPair
Transition == \E a \in Agents : HandleWorking(a) \/ HandleParked(a)
Attention == \E a \in Agents : DecideToSend(a) \/ DecideNothing(a)
Background ==
  \/ \E i \in Ids : ReleaseFinishes(i) \/ HandleTaskReclaimOutcome(i)
  \/ RefreshTaskSnapshot
World ==
  \/ \E t \in Tasks : TaskStart(t) \/ TaskDone(t) \/ TaskUndone(t)
  \/ PauseOrResume
  \/ \E a \in Agents : \/ DeclareOrEndWait(a) \/ AgentWorksElsewhere(a) \/ AgentParks(a)
                       \/ AgentReparks(a) \/ AgentLeaves(a) \/ PaneRecycled(a)
                       \/ \E t \in Tasks : AgentStarts(a, t) \/ KeysLost(a, t)

Next ==
  \/ Deliver \/ Sweep \/ Transition \/ Attention \/ Background \/ World \/ Crash \/ Start
  \/ \E i \in Ids : RowAges(i)

Spec == Init /\ [][Next]_vars

\* The loop serves its select cases again and again, a daemon that stopped is started
\* again, time passes; a daemon that keeps crashing lives, now and then, long enough for
\* each step of a sweep.
FairSpec ==
  /\ Spec
  /\ WF_vars(Start) /\ SF_vars(BeginSweep) /\ SF_vars(SweepSettled \/ SweepPair)
  /\ SF_vars(Deliver)
  /\ \A i \in Ids : SF_vars(SweepRow(i)) /\ SF_vars(RowAges(i))

-----------------------------------------------------------------------------
(* Properties.                                                                 *)

\* A task never reaches two agents: at no time do two agents work on the same item
\* (reservation, grace and confirmation together; architecture FR-011).
NoTaskInTwoHands ==
  \A a, b \in Agents : a # b /\ doing[a] # 0 => doing[a] # doing[b]

\* An item that is never started is offered at most maxTaskHandouts times, failed sends
\* included, before a person looks at it (escalateNeverStartedTask,
\* escalateUndeliverableTask).
HandoutsBounded == \A t \in Tasks : tries[t] <= maxTaskHandouts

\* An item the operator was asked about stays "[-]" until a person reopens it
\* (escalateNeverStartedTask: left "[-]" so that it is not resent).
EscalatedStaysMarked ==
  [][\A t \in told : mark[t] = "[-]" /\ mark'[t] = "[ ]" => TaskUndone(t)]_vars

\* Nothing but `hap task undone` or `start` reopens a finished item: a rollback or a
\* reclaim whose item was completed meanwhile leaves it alone (taskfile Release and
\* Reclaim).
FinishedStaysFinished ==
  [][\A t \in Tasks : mark[t] = "[x]" /\ mark'[t] # "[x]" => TaskUndone(t) \/ TaskStart(t)]_vars

\* Only a "[-]" the daemon itself reserved is ever released: another hand's mark is not
\* cleared by a step of the daemon (reclaimStrandedTasks).
ForeignMarkStands ==
  [][\A t \in Tasks : mark[t] = "[-]" /\ owner[t] = "other" /\ mark'[t] = "[ ]"
       => TaskUndone(t)]_vars

\* An agent has at most one hand-out that nothing has confirmed yet, so one resumption
\* never confirms two (autoSendIdleTasks, awaiting).
OneUnconfirmedHandout ==
  \A i, j \in open \ confirmed : row[i].agent = row[j].agent => i = j

\* No hand-out benches its agent for ever: every ledger row is settled in the end, however
\* often the daemon restarts (maxHandoutRestamps, staleHandoutTTL).
RowsSettle == \A i \in Ids : i \in open ~> i \notin open

\* A row is confirmed only by the tenant it was handed to (ConfirmTaskReservations).
ConfirmedByItsTenant ==
  [][\A i \in confirmed' \ confirmed : row[i].term \in {0, term[row[i].agent]}]_vars

\* Within its TTL, an unconfirmed row is only dropped together with its item's "[-]", or
\* once the operator was asked: no item is left "[-]" with nothing to bring it back
\* (reclaimStrandedTasks: retired because "the item moved on under us").
NoItemForgotten ==
  [][\A i \in open \ (open' \cup confirmed) :
       LET t == row[i].task IN
       age[i] < Stale /\ mark[t] = "[-]" /\ mark'[t] = "[-]" /\ owner[t] = "daemon"
         => t \in told']_vars

\* What a hand-out promises the list: a task is in one agent's hands, and offered a
\* bounded number of times (reserve, reclaim and the hand-out ceiling together).
HandedOnce == TypeOK /\ NoTaskInTwoHands /\ HandoutsBounded
=============================================================================
