-------------------------- MODULE GeneratedTasks --------------------------
(* Tasks an LLM proposes for an idle agent: the generation flight of the      *)
(* daemon (generateTask, handleTaskGenOutcome), and the acceptance of its     *)
(* proposal by an operator or by the sweep (frontend.acceptGeneratedTask),    *)
(* which writes the list, closes the escalation, reserves the first task and  *)
(* sends it, in that order and without a transaction around it.               *)
EXTENDS Integers, Sequences, FiniteSets

CONSTANTS
  Proposed,       \* the tasks of the proposal, a sequence
  MaxTasksLimit,  \* max_tasks of the source
  MaxListEdits,   \* edits of the list by others
  MaxAccepts,     \* acceptances started
  MaxCrashes,     \* daemon restarts
  MaxFlights      \* generations started

ASSUME GeneratedTasksAssumption ==
  /\ Proposed \in Seq(STRING) /\ Proposed # <<>> /\ MaxTasksLimit \in Nat
  /\ MaxListEdits \in Nat /\ MaxAccepts \in Nat /\ MaxCrashes \in Nat /\ MaxFlights \in Nat

VARIABLES
  declared,    \* a source the operator declared, or the bootstrap list
  items,       \* its list: texts and marks
  registered,  \* the bootstrap list is in the configuration
  request,     \* llm_requests row of a generation
  flight,      \* the CLI run and what it answered
  row,         \* the escalation that carries the proposal
  accept,      \* an acceptance under way, under the agent's automation lock
  busyNow,     \* the agent is not cleanly idle
  sent,        \* history: times the first task was typed
  reopened,    \* history: somebody else put the first task back to [ ], or wrote it again
  listEdits, accepts, crashes, flights

genVars == <<declared, items, registered, request, flight, row, accept, busyNow, sent, reopened,
             listEdits, accepts, crashes, flights>>
genCounters == <<listEdits, accepts, crashes, flights>>

First == Proposed[1]
NoAccept == [pc |-> "none", by |-> "", send |-> FALSE, at |-> 0]
TextsOf(l) == {l[i].text : i \in DOMAIN l}
FirstAt(l, t) == CHOOSE i \in DOMAIN l : l[i].text = t /\ \A j \in DOMAIN l : l[j].text = t => i <= j

InitGen ==
  /\ declared \in BOOLEAN
  /\ items \in {<<>>, <<[text |-> "old", mark |-> "x"], [text |-> "other", mark |-> "x"]>>, <<[text |-> First, mark |-> " "]>>, <<[text |-> First, mark |-> "x"], [text |-> "other", mark |-> " "]>>}
  /\ registered = FALSE /\ request = "none" /\ flight = "none" /\ row = "none"
  /\ accept = NoAccept /\ busyNow = FALSE /\ sent = 0 /\ reopened = FALSE
  /\ listEdits = 0 /\ accepts = 0 /\ crashes = 0 /\ flights = 0

-----------------------------------------------------------------------------
(* Generation *)

\* refuseIfAgentBusy: the agent is cleanly idle.
AgentFree == ~busyNow

\* generateTask: not while a consult is pending, and not for a full list.
GenerateTask ==
  /\ flights < MaxFlights /\ flights' = flights + 1
  /\ row = "none" /\ request # "pending" /\ AgentFree /\ Len(items) < MaxTasksLimit
  /\ \A i \in DOMAIN items : items[i].mark # " "
  /\ request' = "pending" /\ flight' = "running"
  /\ UNCHANGED <<declared, items, registered, row, accept, busyNow, sent, reopened, listEdits, accepts, crashes>>

\* The CLI answers: tasks, nothing usable, a refusal, or an error.
GeneratorAnswers ==
  /\ flight = "running" /\ \E a \in {"tasks", "nothing", "declined", "failed"} : flight' = a
  /\ UNCHANGED <<declared, items, registered, request, row, accept, busyNow, sent, reopened>> /\ UNCHANGED genCounters

\* handleTaskGenOutcome: dropped when the agent went to work or its list got a
\* task; otherwise an escalation, with the tasks or without.
HandleTaskGenOutcome ==
  /\ flight \in {"tasks", "nothing", "declined", "failed"} /\ flight' = "none"
  /\ LET dropped == busyNow \/ \E i \in DOMAIN items : items[i].mark = " "
     IN  /\ request' = "done"
         /\ row' = IF ~dropped /\ flight = "tasks" THEN "escalated" ELSE row
  /\ UNCHANGED <<declared, items, registered, accept, busyNow, sent, reopened>> /\ UNCHANGED genCounters

\* Mutant: only the requests of this process's flights are looked at.
StaleRequestFlying == request = "pending" /\ flight # "none"

\* ExpireStalePendingLLMRequests: pending for twice the longest timeout, so no
\* flight can still answer it.
StaleRequest == request = "pending" /\ flight = "none"

ExpireStaleLLMWork ==
  /\ StaleRequest /\ request' = "expired"
  /\ UNCHANGED <<declared, items, registered, flight, row, accept, busyNow, sent, reopened>> /\ UNCHANGED genCounters

-----------------------------------------------------------------------------
(* Acceptance, one at a time: WithAgentAutomation *)

\* ConfirmGeneratedTaskForOperator, from the queue (acceptGeneratedTaskAction);
\* with --send it is refused while the agent is busy.
OperatorAccepts ==
  /\ accept = NoAccept /\ accepts < MaxAccepts /\ accepts' = accepts + 1
  /\ row = "escalated"
  /\ \E send \in BOOLEAN : (send => AgentFree) /\ accept' = [pc |-> "write", by |-> "operator", send |-> send, at |-> 0]
  /\ UNCHANGED <<declared, items, registered, request, flight, row, busyNow, sent, reopened, listEdits, crashes, flights>>

\* AcceptGeneratedTaskAutomatically: the sweep has taken the row already.
SweepAccepts ==
  /\ accept = NoAccept /\ accepts < MaxAccepts /\ accepts' = accepts + 1
  /\ row = "escalated" /\ AgentFree /\ row' = "accepting"
  /\ accept' = [pc |-> "write", by |-> "sweep", send |-> TRUE, at |-> 0]
  /\ UNCHANGED <<declared, items, registered, request, flight, busyNow, sent, reopened, listEdits, crashes, flights>>

\* The sweep gives its row back; an operator's confirm only reports.
Refused == /\ accept' = NoAccept /\ row' = IF accept.by = "sweep" THEN "escalated" ELSE row

\* Tasks that are missing, in the proposal's order.
Missing(l) == SelectSeq(Proposed, LAMBDA t : t \notin TextsOf(l))
Pending(ts) == [k \in DOMAIN ts |-> [text |-> ts[k], mark |-> " "]]

\* appendGeneratedTasks: what is not there yet, exactly by text.
Appended(l) == l \o Pending(Missing(l))

\* checklistMarkRank
Rank(mark) == CASE mark = " " -> 0 [] mark = "-" -> 1 [] OTHER -> 2

\* Mutant: the list is rendered anew, without its marks.
RenderedBare(l) ==
  LET keep == {i \in DOMAIN l : \A j \in DOMAIN l : l[j].text = l[i].text => i <= j}
      nth(k) == CHOOSE i \in keep : Cardinality({j \in keep : j < i}) = k - 1
  IN  [k \in 1..Cardinality(keep) |-> [text |-> l[nth(k)].text, mark |-> " "]] \o Pending(Missing(l))

\* carryOverChecklistMarks: the furthest of the marks a text has.
CarriedMark(l, t) ==
  CHOOSE m \in {l[i].mark : i \in {j \in DOMAIN l : l[j].text = t}} :
    \A i \in DOMAIN l : l[i].text = t => Rank(l[i].mark) <= Rank(m)

\* generatedTaskContent: each text once (mergeGeneratedTasks), with its mark.
Rendered(l) ==
  LET keep == {i \in DOMAIN l : \A j \in DOMAIN l : l[j].text = l[i].text => i <= j}
      nth(k) == CHOOSE i \in keep : Cardinality({j \in keep : j < i}) = k - 1
  IN  [k \in 1..Cardinality(keep) |-> [text |-> l[nth(k)].text, mark |-> CarriedMark(l, l[nth(k)].text)]] \o Pending(Missing(l))

\* Mutant: the cap is checked before the missing tasks are counted.
OverCapBefore(l, next) == Len(l) > MaxTasksLimit

\* A list is never grown past its cap; one past it already may be left as it is.
OverCap(l, next) == Missing(l) # <<>> /\ Len(next) > MaxTasksLimit

\* A send of a task that is done or in hand is refused before anything is
\* written, on the append path.
AlreadyTaken == declared /\ accept.send /\ First \in TextsOf(items) /\ items[FirstAt(items, First)].mark # " "

\* A declared file is appended to; the bootstrap list is rendered from what it holds.
AppendTarget == IF declared THEN Appended(items) ELSE Rendered(items)
\* addTaskSourceIfAbsent: the bootstrap list enters the configuration.
Registered == registered \/ ~declared

\* One locked read-modify-write; the bootstrap list is registered after it.
AcceptWrites ==
  /\ accept.pc = "write"
  /\ LET next == AppendTarget
     IN  \/ /\ AlreadyTaken \/ OverCap(items, next)
            /\ Refused /\ UNCHANGED <<items, registered>>
         \/ /\ ~AlreadyTaken /\ ~OverCap(items, next)
            /\ items' = next /\ registered' = Registered
            /\ accept' = [accept EXCEPT !.pc = "claim", !.at = FirstAt(next, First)]
            /\ UNCHANGED row
  /\ UNCHANGED <<declared, request, flight, busyNow, sent, reopened>> /\ UNCHANGED genCounters

\* claimGeneratedTaskEscalation: the operator's confirm closes the row, unless
\* somebody else did; the sweep's is closed already.
AcceptClaims ==
  /\ accept.pc = "claim"
  /\ \/ /\ accept.by = "operator" /\ row # "escalated" /\ accept' = NoAccept /\ UNCHANGED row
     \/ /\ accept.by = "sweep" \/ row = "escalated"
        /\ row' = IF accept.by = "operator" THEN "resolved" ELSE row
        /\ accept' = IF accept.send THEN [accept EXCEPT !.pc = "reserve"] ELSE NoAccept
  /\ UNCHANGED <<declared, items, registered, request, flight, busyNow, sent, reopened>> /\ UNCHANGED genCounters

\* Mutant: whatever is at the position is taken.
ReservableAny(l, n) == n <= Len(l)

\* taskfile.Reserve: still this text, still pending.
Reservable(l, n) == n <= Len(l) /\ l[n].text = First /\ l[n].mark = " "

\* The outbound text is screened, the item reserved by its position.
AcceptReserves ==
  /\ accept.pc = "reserve"
  /\ \/ /\ Reservable(items, accept.at)
        /\ items' = [items EXCEPT ![accept.at].mark = "-"]
        /\ accept' = [accept EXCEPT !.pc = "send"] /\ UNCHANGED row
     \/ Refused /\ UNCHANGED items
  /\ UNCHANGED <<declared, registered, request, flight, busyNow, sent, reopened>> /\ UNCHANGED genCounters

\* deliverReserved: on a failure the item goes back, if it still is the
\* reservation.
ReleasedTask(l, n) ==
  IF n <= Len(l) /\ l[n].text = First /\ l[n].mark = "-" THEN [l EXCEPT ![n].mark = " "] ELSE l

AcceptSends ==
  /\ accept.pc = "send"
  /\ \/ sent' = sent + 1 /\ accept' = [accept EXCEPT !.pc = "close"] /\ UNCHANGED <<items, row>>
     \/ Refused /\ items' = ReleasedTask(items, accept.at) /\ UNCHANGED sent
  /\ UNCHANGED <<declared, registered, request, flight, busyNow, reopened>> /\ UNCHANGED genCounters

\* The correction is marked sent; the sweep closes the row it holds.
AcceptCloses ==
  /\ accept.pc = "close" /\ accept' = NoAccept
  /\ row' = IF accept.by = "sweep" THEN "resolved" ELSE row
  /\ UNCHANGED <<declared, items, registered, request, flight, busyNow, sent, reopened>> /\ UNCHANGED genCounters

-----------------------------------------------------------------------------
(* The others *)

Dismisses ==
  /\ row = "escalated" /\ row' = "dismissed"
  /\ UNCHANGED <<declared, items, registered, request, flight, accept, busyNow, sent, reopened>> /\ UNCHANGED genCounters

\* An operator or the agent itself edits the list.
EditsList ==
  /\ listEdits < MaxListEdits /\ listEdits' = listEdits + 1
  /\ \/ \E i \in DOMAIN items, mark \in {" ", "x", "-"} :
          /\ items' = [items EXCEPT ![i].mark = mark]
          /\ reopened' = (reopened \/ (items[i].text = First /\ mark = " "))
     \/ /\ Len(items) < MaxTasksLimit
        /\ \E t \in {"other", First} : /\ items' = Append(items, [text |-> t, mark |-> " "])
                                       /\ reopened' = (reopened \/ t = First)
     \/ \E i \in DOMAIN items : /\ items' = SubSeq(items, 1, i - 1) \o SubSeq(items, i + 1, Len(items))
                                /\ reopened' = (reopened \/ items[i].text = First)
  /\ UNCHANGED <<declared, registered, request, flight, row, accept, busyNow, sent, accepts, crashes, flights>>

AgentMoves ==
  /\ busyNow' = ~busyNow
  /\ UNCHANGED <<declared, items, registered, request, flight, row, accept, sent, reopened>> /\ UNCHANGED genCounters

\* The daemon dies: flights and acceptances are gone, rows stay, and a row the
\* sweep had taken is given back, whatever was typed.
DaemonRestarts ==
  /\ crashes < MaxCrashes /\ crashes' = crashes + 1
  /\ flight' = "none" /\ accept' = NoAccept
  /\ row' = IF row = "accepting" THEN "escalated" ELSE row
  /\ UNCHANGED <<declared, items, registered, request, busyNow, sent, reopened, listEdits, accepts, flights>>

NextGen ==
  \/ GenerateTask \/ GeneratorAnswers \/ HandleTaskGenOutcome \/ ExpireStaleLLMWork
  \/ OperatorAccepts \/ SweepAccepts \/ AcceptWrites \/ AcceptClaims \/ AcceptReserves \/ AcceptSends \/ AcceptCloses
  \/ Dismisses \/ EditsList \/ AgentMoves \/ DaemonRestarts

SpecGen == InitGen /\ [][NextGen]_genVars

\* CLIs have timeouts, the loop handles results, the ticker expires.
FairGen ==
  WF_genVars(GeneratorAnswers) /\ WF_genVars(HandleTaskGenOutcome) /\ WF_genVars(ExpireStaleLLMWork)

FairSpecGen == SpecGen /\ FairGen

-----------------------------------------------------------------------------
(* Properties *)

\* The proposed task is typed once: confirmations that are repeated after a
\* crash, a refusal or a failure find it reserved (taskfile.Reserve), unless
\* somebody put it back.
GeneratedTaskSentOnce == ~reopened => sent <= 1

\* What was done stays done: an acceptance never takes a mark back, except its
\* own reservation after a failed send.
MarksAreKept ==
  [][AcceptWrites => \A i \in DOMAIN items : items[i].mark # " " =>
        \E j \in DOMAIN items' : items'[j].text = items[i].text /\ Rank(items'[j].mark) >= Rank(items[i].mark)]_genVars

\* However often it is confirmed, an acceptance adds no task twice and never
\* grows a list past its cap.
AcceptanceFits ==
  [][AcceptWrites /\ items' # items =>
        /\ Len(items') <= MaxTasksLimit
        /\ \A i, j \in DOMAIN items' : i # j /\ items'[i].text = items'[j].text =>
             i \in DOMAIN items /\ j \in DOMAIN items]_genVars

\* A generation that was lost does not block the next one for ever.
RequestIsClosed == (request = "pending") ~> (request # "pending")

\* What a generated task promises: its request ends, and however often it is accepted the
\* list fits, keeps its marks, and the task is typed once (generatedtask.go).
AcceptanceIsIdempotent ==
  []GeneratedTaskSentOnce /\ MarksAreKept /\ AcceptanceFits /\ RequestIsClosed
=============================================================================
