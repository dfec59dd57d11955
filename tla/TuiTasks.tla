------------------------------ MODULE TuiTasks ------------------------------
(* The Tasks tab (tui/tui.go): positions taken from a copy of the list, acted *)
(* on in the background while other processes edit the list itself. Every     *)
(* write is one locked read-modify-write that checks the text at the position *)
(* (frontend.guardedMutation).                                                *)
EXTENDS Integers, Sequences, FiniteSets

CONSTANTS
  TaskText,      \* the text of each task; a sequence, so that two may share one
  MaxOtherEdits, \* edits by other processes
  MaxKeys,       \* keys pressed
  MaxWriteFaults \* writes the store refuses

ASSUME TuiTasksAssumption ==
  TaskText \in Seq(STRING) /\ MaxOtherEdits \in Nat /\ MaxKeys \in Nat /\ MaxWriteFaults \in Nat

VARIABLES
  list,      \* the checklist: tasks and whether they are done
  view,      \* m.data: the copy on screen
  marks,     \* taskMarks, positions
  cursor,    \* the row under the cursor, a position
  asked,     \* the deletion awaiting its confirmation
  jobs,      \* actions in the background
  undo,      \* cursorUndo
  reading,   \* a refresh on its way, with what it read
  otherEdits, keys, writeFaults,
  movedTask       \* history: the task the operator keeps the cursor on, 0 for none

taskTabVars == <<list, view, marks, cursor, asked, jobs, undo, reading, otherEdits, keys, writeFaults, movedTask>>
counters == <<otherEdits, keys, writeFaults>>

Tasks == 1..Len(TaskText)
TaskSlots == 1..2
Text(x) == TaskText[x.task]
NoRead == {}   \* a refresh is the set of the one list it read
Of(r) == CHOOSE l \in r : TRUE
NoTaskJob == [kind |-> "none", targets |-> <<>>, to |-> 0, lists |-> NoRead, err |-> FALSE, clean |-> TRUE, refused |-> FALSE, stray |-> FALSE]
NoUndo == [slot |-> 0, pos |-> 0]

InitTasks ==
  /\ list = [i \in Tasks |-> [task |-> i, done |-> FALSE]] /\ view = list
  /\ marks = {} /\ cursor = 1 /\ asked = <<>>
  /\ jobs = [s \in TaskSlots |-> NoTaskJob] /\ undo = NoUndo /\ reading = NoRead
  /\ otherEdits = 0 /\ keys = 0 /\ writeFaults = 0
  /\ movedTask = IF Tasks = {} THEN 0 ELSE 1

-----------------------------------------------------------------------------
(* The list *)

Removed(l, n) == SubSeq(l, 1, n - 1) \o SubSeq(l, n + 1, Len(l))
Moved(l, n, to) ==
  LET rest == Removed(l, n) IN SubSeq(rest, 1, to - 1) \o <<l[n]>> \o SubSeq(rest, to, Len(rest))

\* A write that is not the slot's own: what the slot's targets were read from is no more.
StaleTab(s) == [t \in TaskSlots |-> IF t = s \/ jobs[t] = NoTaskJob THEN jobs[t] ELSE [jobs[t] EXCEPT !.clean = FALSE]]

\* The CLI, the daemon or another TUI.
OtherEdits ==
  /\ otherEdits < MaxOtherEdits /\ otherEdits' = otherEdits + 1
  /\ \E n \in DOMAIN list : \/ list' = Removed(list, n)
                            \/ n > 1 /\ list' = Moved(list, n, 1)
                            \/ list' = [list EXCEPT ![n].done = ~@]
  /\ jobs' = StaleTab(0)
  /\ UNCHANGED <<view, marks, cursor, asked, undo, reading, keys, writeFaults, movedTask>>

\* Mutant: the text is not compared.
ExpectTextNone(l, g) == g.item <= Len(l)

\* guardedMutation: the position must still carry the text it was chosen by.
ExpectText(l, g) == g.item <= Len(l) /\ Text(l[g.item]) = g.text

-----------------------------------------------------------------------------
(* Keys *)

PressKey == keys < MaxKeys /\ keys' = keys + 1 /\ asked = <<>>
FreeSlot == {s \in TaskSlots : jobs[s] = NoTaskJob}

\* markedTaskTargets: the marked rows in list order, or the one under the cursor.
Target(n) == [item |-> n, text |-> Text(view[n]), done |-> view[n].done, task |-> view[n].task]
InOrder(S) == [k \in 1..Cardinality(S) |-> CHOOSE n \in S : Cardinality({m \in S : m < n}) = k - 1]
MarkedTaskTargets ==
  LET S == marks \cap DOMAIN view
      chosen == IF S # {} THEN S ELSE {cursor} \cap DOMAIN view
  IN  [k \in 1..Cardinality(chosen) |-> Target(InOrder(chosen)[k])]

Launch(s, kind, targets, to) ==
  jobs' = [jobs EXCEPT ![s] = [NoTaskJob EXCEPT !.kind = kind, !.targets = targets, !.to = to,
                                 !.clean = to <= Len(list) /\ \A k \in DOMAIN targets : targets[k].item <= Len(list) /\ list[targets[k].item].task = targets[k].task]]

\* toggleTaskMarkSelected
ToggleTaskMark ==
  /\ PressKey /\ cursor \in DOMAIN view
  /\ marks' = IF cursor \in marks THEN marks \ {cursor} ELSE marks \cup {cursor}
  /\ cursor' = (IF cursor < Len(view) THEN cursor + 1 ELSE cursor)
  /\ movedTask' = 0
  /\ UNCHANGED <<list, view, asked, jobs, undo, reading, otherEdits, writeFaults>>

\* toggleTasksDone: the boxes flip on screen at once (flipTaskCheckboxes).
ToggleTasksDone ==
  /\ PressKey /\ MarkedTaskTargets # <<>> /\ marks' = {}
  /\ \E s \in FreeSlot : Launch(s, "toggle", MarkedTaskTargets, 0)
  /\ view' = [n \in DOMAIN view |-> [view[n] EXCEPT !.done = IF \E k \in DOMAIN MarkedTaskTargets : MarkedTaskTargets[k].item = n THEN ~@ ELSE @]]
  /\ UNCHANGED <<list, cursor, asked, undo, reading, otherEdits, writeFaults, movedTask>>

\* deleteTasksPrompt, confirmDeleteTaskTargets
DeleteAsks ==
  /\ PressKey /\ MarkedTaskTargets # <<>> /\ asked' = MarkedTaskTargets
  /\ UNCHANGED <<list, view, marks, cursor, jobs, undo, reading, otherEdits, writeFaults, movedTask>>

\* Mutant: top down.
DeleteOrderDown(targets) == targets

\* Bottom up: a deletion renumbers only what follows it.
DeleteOrder(targets) == [k \in DOMAIN targets |-> targets[Len(targets) + 1 - k]]

DeleteConfirmed ==
  /\ asked # <<>> /\ asked' = <<>> /\ marks' = {} /\ movedTask' = 0
  /\ \E s \in FreeSlot : Launch(s, "delete", DeleteOrder(asked), 0)
  /\ UNCHANGED <<list, view, cursor, undo, reading>> /\ UNCHANGED counters

DeleteCancelled ==
  /\ asked # <<>> /\ asked' = <<>>
  /\ UNCHANGED <<list, view, marks, cursor, jobs, undo, reading, movedTask>> /\ UNCHANGED counters

\* moveSelectedTask: one at a time; the cursor goes ahead of the task.
MoveSelectedTask ==
  /\ PressKey /\ undo = NoUndo /\ cursor \in DOMAIN view
  /\ \E delta \in {-1, 1}, s \in FreeSlot :
       /\ cursor + delta \in DOMAIN view
       /\ Launch(s, "move", <<Target(cursor)>>, cursor + delta)
       /\ undo' = [slot |-> s, pos |-> cursor] /\ cursor' = cursor + delta
  /\ marks' = {}
  /\ movedTask' = IF view = list /\ movedTask = view[cursor].task /\ reading = NoRead THEN movedTask ELSE 0
  /\ UNCHANGED <<list, view, asked, reading, otherEdits, writeFaults>>

-----------------------------------------------------------------------------
(* The background *)

Written(l, j, g) ==
  CASE j.kind = "toggle" -> [l EXCEPT ![g.item].done = ~g.done]
    [] j.kind = "delete" -> Removed(l, g.item)
    [] OTHER -> Moved(l, g.item, j.to)

\* One target: SetTaskDone, DeleteTask or MoveTask. A toggle that fails goes on
\* with the next target, a deletion stops.
TargetWritten(s, fault) ==
  LET j == jobs[s]
      g == Head(j.targets)
      ok == ~fault /\ ExpectText(list, g) /\ (j.kind = "move" => j.to <= Len(list))
  IN  /\ j # NoTaskJob /\ j.targets # <<>>
      /\ list' = IF ok THEN Written(list, j, g) ELSE list
      /\ jobs' = [(IF ok THEN StaleTab(s) ELSE jobs) EXCEPT
           ![s] = [j EXCEPT !.targets = IF ok \/ j.kind = "toggle" THEN Tail(@) ELSE <<>>,
                            !.err = @ \/ ~ok,
                            !.refused = @ \/ (~ok /\ ~fault),
                            !.stray = @ \/ (ok /\ Text(list[g.item]) # g.text),
                            !.lists = IF ok /\ j.kind # "move" THEN {list'} ELSE @]]

JobWrites ==
  /\ \E s \in TaskSlots, fault \in BOOLEAN :
       /\ TargetWritten(s, fault)
       /\ fault => writeFaults < MaxWriteFaults
       /\ writeFaults' = IF fault THEN writeFaults + 1 ELSE writeFaults
  /\ UNCHANGED <<view, marks, cursor, asked, undo, reading, otherEdits, keys, movedTask>>

\* The view shows what was read: marks keep the positions that still exist.
Shows(l) ==
  /\ view' = l /\ marks' = marks \cap DOMAIN l

Clamped(n, l) == IF n > Len(l) /\ Len(l) > 0 THEN Len(l) ELSE n

\* Mutant: a reorder that failed leaves the cursor where it would have gone.
UndoneCursorAhead(s, failed) == cursor

\* A reorder that failed takes the cursor back.
UndoneCursor(s, failed) == IF undo.slot = s /\ failed THEN undo.pos ELSE cursor

\* Mutant: only a failure ends the reorder.
UndoAfterFailed(s, failed) == IF undo.slot = s /\ failed THEN NoUndo ELSE undo

\* The token of the result releases the reorder it belongs to.
UndoAfter(s, failed) == IF undo.slot = s THEN NoUndo ELSE undo

\* actionResultMsg: applyTaskLists, cursorUndo, and a refresh.
JobLands ==
  /\ reading = NoRead
  /\ \E s \in TaskSlots :
       LET j == jobs[s]
           shown == IF j.lists = NoRead THEN view ELSE Of(j.lists)
       IN  /\ j # NoTaskJob /\ j.targets = <<>>
           /\ view' = shown /\ UNCHANGED marks
           /\ cursor' = Clamped(UndoneCursor(s, j.err), shown) /\ undo' = UndoAfter(s, j.err)
           /\ jobs' = [jobs EXCEPT ![s] = NoTaskJob]
           /\ movedTask' = IF movedTask # 0 /\ Clamped(UndoneCursor(s, FALSE), shown) = UndoneCursor(s, FALSE) THEN movedTask ELSE 0
  /\ reading' = {list}
  /\ UNCHANGED <<list, asked>> /\ UNCHANGED counters

\* A poll reads; whatever was read lands later.
PollReads ==
  /\ reading = NoRead /\ view # list /\ reading' = {list}
  /\ UNCHANGED <<list, view, marks, cursor, asked, jobs, undo, movedTask>> /\ UNCHANGED counters

RefreshShows ==
  /\ reading # NoRead /\ reading' = NoRead /\ Shows(Of(reading))
  /\ cursor' = Clamped(cursor, Of(reading))
  /\ movedTask' = IF cursor' = cursor THEN movedTask ELSE 0
  /\ UNCHANGED <<list, asked, jobs, undo>> /\ UNCHANGED counters

NextTasks ==
  \/ OtherEdits \/ ToggleTaskMark \/ ToggleTasksDone \/ DeleteAsks \/ DeleteConfirmed \/ DeleteCancelled
  \/ MoveSelectedTask \/ JobWrites \/ JobLands \/ PollReads \/ RefreshShows

SpecTasks == InitTasks /\ [][NextTasks]_taskTabVars

\* Commands return, and the tick goes on.
FairTasks ==
  WF_taskTabVars(JobWrites) /\ WF_taskTabVars(JobLands) /\ WF_taskTabVars(PollReads) /\ WF_taskTabVars(RefreshShows)

FairSpecTasks == SpecTasks /\ FairTasks

-----------------------------------------------------------------------------
(* Properties *)

\* What an operator confirmed is done to a task of that text or not at all,
\* whatever edits came in between (guardedMutation).
OnlyTheTextConfirmed == \A s \in TaskSlots : ~jobs[s].stray

\* Nothing is refused that nobody else touched: an action over several rows does
\* not invalidate its own later targets (confirmDeleteTaskTargets, bottom up).
OwnTargetsStayValid == \A s \in TaskSlots : jobs[s].clean => ~jobs[s].refused

\* The cursor is on the task the operator moved, or tried to, once the result
\* and its refresh are in (moveSelectedTask, cursorUndo).
CursorStaysOnTask ==
  (movedTask # 0 /\ otherEdits = 0 /\ undo = NoUndo /\ reading = NoRead /\ \A s \in TaskSlots : jobs[s] = NoTaskJob)
    => view[cursor].task = movedTask

\* A reorder does not block the next one for ever.
ReorderIsReleased == (undo # NoUndo) ~> (undo = NoUndo)

\* What a key on the tasks tab promises: it is for the task it was pressed on, over
\* refreshes and other editors (guardedMutation, confirmDeleteTaskTargets, cursorUndo).
TaskKeysHitTheirTask == OnlyTheTextConfirmed /\ OwnTargetsStayValid /\ CursorStaysOnTask
=============================================================================
