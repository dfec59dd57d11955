------------------------------ MODULE TuiQueue ------------------------------
(* The escalation queue as one terminal UI shows it: reads of the store that  *)
(* overlap and land in any order, alerts, and answers sent in the background  *)
(* while the rows go on changing (tui/tui.go).                                *)
(*                                                                            *)
(* The model is one Bubble Tea program: Update handles one message at a time, *)
(* commands run beside it and come back as messages.                          *)
EXTENDS Integers, FiniteSets

CONSTANTS MaxQueued, MaxReadErrors, MaxAnswers

ASSUME TuiQueueAssumption ==
  MaxQueued \in Nat /\ MaxReadErrors \in Nat /\ MaxAnswers \in Nat

VARIABLES
  pendingRows, \* escalations of the store that wait, by id
  created,     \* ids given out
  version,     \* what ChangeKey digests
  reads,       \* refreshes on their way
  pollOut,     \* pollStarted
  shownRows,   \* m.data.escalations
  shownErr,    \* m.data.err
  lastKey,     \* lastChangeKey, 0 for none
  lastMax,     \* lastMaxEscalationID, -1 before the first good refresh
  sending,     \* m.sending
  answers,     \* answers on their way
  ask,         \* the prompt that is open
  alerted,   \* history: escalations an alert was for
  droppedClaims,      \* history: claims dropped for a row a refresh did not show
  readErrors

queueVars == <<pendingRows, created, version, reads, pollOut, shownRows, shownErr, lastKey, lastMax,
               sending, answers, ask, alerted, droppedClaims, readErrors>>
storeRows == <<pendingRows, created, version>>
viewVars == <<shownRows, shownErr, lastKey, lastMax, alerted, droppedClaims, readErrors>>

QueueIds == 1..MaxQueued
NoAsk == [on |-> "none", id |-> 0]
Unread == {0}
NewestOf(S) == IF S = {} THEN 0 ELSE CHOOSE x \in S : \A y \in S : y <= x

InitQueue ==
  /\ pendingRows = {} /\ created = 0 /\ version = 1
  /\ reads = {[poll |-> FALSE, key |-> 0, rows |-> Unread]} /\ pollOut = FALSE
  /\ shownRows = {} /\ shownErr = FALSE /\ lastKey = 0 /\ lastMax = -1
  /\ sending = {} /\ answers = {} /\ ask = NoAsk
  /\ alerted = {} /\ droppedClaims = {} /\ readErrors = 0

-----------------------------------------------------------------------------
(* The store *)

Escalates ==
  /\ created < MaxQueued /\ created' = created + 1
  /\ pendingRows' = pendingRows \cup {created + 1} /\ version' = version + 1
  /\ UNCHANGED <<reads, pollOut, sending, answers, ask>> /\ UNCHANGED viewVars

SettledElsewhere ==
  /\ \E e \in pendingRows : pendingRows' = pendingRows \ {e}
  /\ version' = version + 1
  /\ UNCHANGED <<created, reads, pollOut, sending, answers, ask>> /\ UNCHANGED viewVars

-----------------------------------------------------------------------------
(* Reading it *)

\* One poll, and one refresh that an action asked for, at a time.
CanRead == \A r \in reads : r.poll
Refresh == reads \cup {[poll |-> FALSE, key |-> 0, rows |-> Unread]}

\* tickMsg: one poll at a time, and a refresh an action asked for does not count.
QueueTick ==
  /\ ~pollOut /\ pollOut' = TRUE
  /\ reads' = {r \in reads : ~r.poll} \cup {[poll |-> TRUE, key |-> 0, rows |-> Unread]}
  /\ UNCHANGED <<sending, answers, ask>> /\ UNCHANGED storeRows /\ UNCHANGED viewVars

\* Mutant: a poll that found nothing to read still counts as one on its way.
PollOutAfterProbeStuck == TRUE

\* probeMsg ends the poll.
PollOutAfterProbe == FALSE

\* ChangeKey, before the rows are read; a poll stops here when nothing changed.
ReadSamplesKey ==
  /\ \E r \in reads :
       /\ r.key = 0 /\ r.rows = Unread
       /\ IF r.poll /\ lastKey = version
          THEN reads' = reads \ {r} /\ pollOut' = PollOutAfterProbe
          ELSE reads' = (reads \ {r}) \cup {[r EXCEPT !.key = version, !.rows = {-1}]} /\ UNCHANGED pollOut
  /\ UNCHANGED <<sending, answers, ask>> /\ UNCHANGED storeRows /\ UNCHANGED viewVars

\* refreshDataProgress; the other reads of the refresh take their time too.
ReadRows ==
  /\ \E r \in reads : /\ r.rows = {-1}
                      /\ reads' = (reads \ {r}) \cup {[r EXCEPT !.rows = pendingRows]}
  /\ UNCHANGED <<pollOut, sending, answers, ask>> /\ UNCHANGED storeRows /\ UNCHANGED viewVars

\* Mutant: a refresh that failed prunes too.
PruneSendingAlways(claims, rows, failed) == claims \cap rows

\* pruneSending: claims on rows that left the queue; a failed read shows none
\* and prunes none.
PruneSending(claims, rows, failed) == IF failed THEN claims ELSE claims \cap rows

\* Mutant: a baseline of an empty queue is taken for no baseline.
NewestIsNewOfNone(rows) == lastMax > 0 /\ NewestOf(rows) > lastMax

\* One alert per refresh, when its newest row is newer than the last one seen.
NewestIsNew(rows) == lastMax >= 0 /\ NewestOf(rows) > lastMax

\* Mutant: data of an older refresh keeps the newer key.
KeyOfNewest(r) == IF r.key > lastKey THEN r.key ELSE lastKey

\* The key goes with the data it was sampled for, in whatever order they land.
KeyOf(r) == r.key

\* refreshMsg: the model's data become what the refresh read, old or new.
RefreshLands ==
  /\ \E r \in {x \in reads : x.rows \notin {Unread, {-1}}} :
       /\ reads' = reads \ {r} /\ pollOut' = FALSE
       /\ shownRows' = r.rows /\ shownErr' = FALSE
       /\ lastKey' = KeyOf(r) /\ lastMax' = NewestOf(r.rows)
       /\ alerted' = IF NewestIsNew(r.rows) THEN alerted \cup {i \in r.rows : i > lastMax} ELSE alerted
       /\ sending' = PruneSending(sending, r.rows, FALSE)
       /\ droppedClaims' = droppedClaims \cup (sending \ r.rows)
  /\ UNCHANGED <<answers, ask, readErrors>> /\ UNCHANGED storeRows

\* A refresh with an error shows nothing and leaves the bell's baseline alone.
QueueRefreshFails ==
  /\ readErrors < MaxReadErrors /\ readErrors' = readErrors + 1
  /\ \E r \in {x \in reads : x.rows # Unread} : reads' = reads \ {r}
  /\ pollOut' = FALSE
  /\ shownRows' = {} /\ shownErr' = TRUE /\ lastKey' = 0
  /\ sending' = PruneSending(sending, {}, TRUE)
  /\ UNCHANGED <<lastMax, alerted, droppedClaims, answers, ask>> /\ UNCHANGED storeRows

-----------------------------------------------------------------------------
(* Answering *)

SendingBlocked(ids) == ids \cap sending # {}

FreeSlots == {n \in 1..MaxAnswers : n = Cardinality(answers) + 1}

BeginAnswer(ids, how) ==
  /\ sending' = sending \cup ids
  /\ \E n \in FreeSlots : answers' = answers \cup {[ids |-> ids, how |-> how, n |-> n]}

QueueAnswers(ids, how) ==
  /\ ask = NoAsk /\ ~SendingBlocked(ids) /\ BeginAnswer(ids, how)
  /\ UNCHANGED <<reads, pollOut, ask>> /\ UNCHANGED storeRows /\ UNCHANGED viewVars

\* The marked rows, or the one under the cursor.
TargetEscalationIDs == SUBSET shownRows \ {{}}

\* confirmAuditID: the suggestion is sent to the agent.
ConfirmAuditID == \E id \in shownRows : QueueAnswers({id}, "send")

\* confirmWithoutSend, confirmIDWithoutSend
ConfirmWithoutSend == \E id \in shownRows : QueueAnswers({id}, "record")

\* deleteEscalations, dismissByID: each row on its own, the failures skipped.
DeleteEscalations == \E ids \in TargetEscalationIDs : QueueAnswers(ids, "dismiss")

\* retryByID: the row goes on waiting.
RetryByID == \E id \in shownRows : QueueAnswers({id}, "retry")

\* correctByID: a claimed row is refused before the prompt opens.
CorrectAsks ==
  /\ ask = NoAsk
  /\ \E id \in shownRows : ~SendingBlocked({id}) /\ ask' = [on |-> "correct", id |-> id]
  /\ UNCHANGED <<reads, pollOut, sending, answers>> /\ UNCHANGED storeRows /\ UNCHANGED viewVars

\* The correction is submitted, and whether to send it (beginSendingMsg).
CorrectSubmits ==
  /\ ask.on = "correct" /\ BeginAnswer({ask.id}, "record") /\ ask' = NoAsk
  /\ UNCHANGED <<reads, pollOut>> /\ UNCHANGED storeRows /\ UNCHANGED viewVars

AskCancelled ==
  /\ ask # NoAsk /\ ask' = NoAsk
  /\ UNCHANGED <<reads, pollOut, sending, answers>> /\ UNCHANGED storeRows /\ UNCHANGED viewVars

\* The numbers only tell answers apart.
Drop(a) == {[x EXCEPT !.n = IF x.n > a.n THEN @ - 1 ELSE @] : x \in answers \ {a}}

\* actionResultMsg: the claim is released and the store is read again. The
\* answer settled its rows, or those of them that did not fail.
AnswerLands ==
  /\ CanRead
  /\ \E a \in answers :
       /\ answers' = Drop(a) /\ sending' = IF a.how = "add" THEN sending ELSE sending \ a.ids
       /\ \E done \in SUBSET a.ids :
            /\ a.how = "retry" => done = {}
            /\ pendingRows' = pendingRows \ done
            /\ version' = IF pendingRows' # pendingRows THEN version + 1 ELSE version
  /\ reads' = Refresh
  /\ UNCHANGED <<created, pollOut, ask>> /\ UNCHANGED viewVars

\* openAddPromptMsg: the agent is busy. The prompt takes the place of whatever
\* was open, and its answer is made without a claim.
AgentIsBusy ==
  /\ \E a \in answers : /\ a.how = "send" /\ answers' = Drop(a) /\ sending' = sending \ a.ids
                        /\ \E id \in a.ids : ask' = [on |-> "add", id |-> id]
  /\ UNCHANGED <<reads, pollOut>> /\ UNCHANGED storeRows /\ UNCHANGED viewVars

AddSubmits ==
  /\ ask.on = "add"
  /\ \E n \in FreeSlots : answers' = answers \cup {[ids |-> {ask.id}, how |-> "add", n |-> n]}
  /\ ask' = NoAsk
  /\ UNCHANGED <<reads, pollOut, sending>> /\ UNCHANGED storeRows /\ UNCHANGED viewVars

NextQueue ==
  \/ Escalates \/ SettledElsewhere \/ QueueTick \/ ReadSamplesKey \/ ReadRows \/ RefreshLands \/ QueueRefreshFails
  \/ ConfirmAuditID \/ ConfirmWithoutSend \/ DeleteEscalations \/ RetryByID \/ CorrectAsks \/ CorrectSubmits \/ AskCancelled \/ AnswerLands \/ AgentIsBusy \/ AddSubmits

SpecQueue == InitQueue /\ [][NextQueue]_queueVars

\* The tick never stops, and commands return: reads and answers have timeouts.
FairQueue ==
  WF_queueVars(QueueTick) /\ WF_queueVars(ReadSamplesKey) /\ WF_queueVars(ReadRows)
  /\ WF_queueVars(RefreshLands) /\ WF_queueVars(AnswerLands)

FairSpecQueue == SpecQueue /\ FairQueue

-----------------------------------------------------------------------------
(* Properties *)

\* A tick that finds the key of the last refresh unchanged skips the read: then
\* the rows shown are the rows of the store, whatever reads overlapped (poll).
KeyVouchesForRows == lastKey = version => shownRows = pendingRows

InFlight(id) == {a \in answers : id \in a.ids}

\* Refuted. One answer at a time for an escalation: pressing again cannot queue
\* a second one while the first is on its way (beginSending, pruneSending).
OneAnswerInFlight == \A id \in QueueIds : Cardinality(InFlight(id)) <= 1

\* The same for claims that no refresh dropped because its rows were older than
\* the row, and for answers that take a claim (all but the add prompt's): a
\* failed read must not release them.
ClaimedOnce ==
  \A id \in QueueIds \ droppedClaims : Cardinality({a \in InFlight(id) : a.how # "add"}) <= 1

\* The view catches up: once the store is quiet, what is shown is what waits,
\* even after an old refresh landed on top of a newer one.
ViewCatchesUp == <>[](shownRows = pendingRows /\ ~shownErr)

\* An escalation that came after the first refresh and still waits was alerted for.
NewIsAlertedFor == \A id \in QueueIds : (id \in pendingRows /\ lastMax >= 0 /\ id > lastMax) ~> (id \in alerted \/ id \notin pendingRows)

\* What the queue tab promises: the rows of the store though reads are skipped by their
\* key, and one answer for an escalation (poll, beginSending).
QueueIsTrue == KeyVouchesForRows /\ ClaimedOnce
=============================================================================
