----------------------------- MODULE DialogKeys -----------------------------
(* Single dialogs answered by keys: Claude's permission queue, where a digit  *)
(* commits and the next request is drawn in place, builds where it only moves *)
(* the caret, and the trust dialogs whose rows are reached with the arrows    *)
(* (mcqdeliver.ClaudeMenu, ClaudeFolderTrust, Agy; daemon/claudemenu.go), and *)
(* the self-check that looks afterwards (followUpPromptStanding,              *)
(* verifyunblock). The screen follows the agent with a delay that is shorter  *)
(* than a row of verifying reads.                                             *)
EXTENDS Integers, Sequences

CONSTANTS
  Body,            \* per request in the queue: what its dialog says
  VerifyReads,     \* claudeMenuVerifyReads, agyVerifyReads, folderTrustVerifyReads
  Lag,             \* reads that may show an old screen after a key
  MaxRecaptures,   \* maxFollowUpRecaptures
  MaxOperatorKeys  \* what the operator does in the pane

ASSUME DialogAssumption == Len(Body) \in Nat \ {0} /\ {Lag, VerifyReads} \subseteq Nat /\ Lag < VerifyReads

Rows == 1..3
DialogRequests == 1..Len(Body)
NoDialog == 0

VARIABLES
  build,       \* "commits": a digit commits; "caret": it moves the caret; "rows": arrows only
  narrow,      \* the row is too narrow for the queue counter
  dialog,      \* what the agent is asking: request and caret
  frame,       \* what the screen shows of it
  staleReads,  \* reads of an old screen since the last key
  episode,     \* what hap does about it
  pendingCapture, \* a capture is scheduled
  recaptures,  \* followUpRecaptures
  stillBlocked, \* requests a "still blocked" or failed row was written for
  operatorKeys

dialogVars == <<build, narrow, dialog, frame, staleReads, episode, pendingCapture, recaptures, stillBlocked, operatorKeys>>

NoEpisode == [at |-> "none"]
Open(d) == d.request # NoDialog

\* The next request is drawn in place of the one that was answered.
NextRequest(d) == [request |-> IF d.request < Len(Body) THEN d.request + 1 ELSE NoDialog, caret |-> 1]

\* ClaudeModalRegion: counter and caret are masked; Header keeps the counter.
Region(d) == IF Open(d) THEN <<Body[d.request]>> ELSE <<>>
Header(d) == IF narrow THEN 0 ELSE d.request

InitDialog ==
  /\ build \in {"commits", "caret", "rows"} /\ narrow \in BOOLEAN
  /\ dialog = [request |-> 1, caret |-> 1] /\ frame = dialog /\ staleReads = 0
  /\ episode = NoEpisode /\ pendingCapture = TRUE /\ recaptures = 0 /\ stillBlocked = {} /\ operatorKeys = 0

\* The effect of hap's keys (external: the agent's); the screen is behind now.
Pressed(d) == dialog' = d /\ staleReads' = 0 /\ UNCHANGED frame

Render ==
  /\ frame # dialog /\ frame' = dialog
  /\ UNCHANGED <<build, narrow, dialog, staleReads, episode, pendingCapture, recaptures, stillBlocked, operatorKeys>>

\* A read; an old screen is shown at most Lag times.
Reads == /\ frame = dialog \/ staleReads < Lag
         /\ staleReads' = staleReads + 1 /\ staleReads < VerifyReads
         /\ UNCHANGED <<build, narrow, dialog, frame, operatorKeys>>

-----------------------------------------------------------------------------
(* Capture and press: pressClaudeMenu, ClaudeMenuPress, Agy, ClaudeFolderTrust *)

CaptureDialog ==
  /\ pendingCapture /\ episode = NoEpisode /\ frame = dialog /\ pendingCapture' = FALSE
  /\ IF Open(frame) THEN \E d \in Rows : episode' = [at |-> "decided", digit |-> d, seen |-> frame]
     ELSE UNCHANGED episode
  /\ UNCHANGED <<build, narrow, dialog, frame, staleReads, recaptures, stillBlocked, operatorKeys>>

\* The dialog that is answered is the one that was seen; one that moved on is
\* captured again.
PressDigit ==
  /\ episode.at = "decided" /\ build # "rows"
  /\ IF Open(frame) /\ Region(frame) = Region(episode.seen)
     THEN /\ episode' = [at |-> "settle", digit |-> episode.digit, seen |-> episode.seen, before |-> frame,
                         reads |-> 0, of |-> dialog.request]
          /\ Pressed(IF build = "commits" THEN NextRequest(dialog) ELSE [dialog EXCEPT !.caret = episode.digit])
          /\ UNCHANGED pendingCapture
     ELSE /\ episode' = NoEpisode /\ pendingCapture' = Open(frame)
          /\ UNCHANGED <<dialog, frame, staleReads>>
  /\ UNCHANGED <<build, narrow, recaptures, stillBlocked, operatorKeys>>

-----------------------------------------------------------------------------
(* ClaudeMenuSettle *)

\* Mutant: the counter is masked here as well.
SameStandingRegion(was, now) == Region(now) = Region(was)

SameStanding(was, now) == Region(now) = Region(was) /\ Header(now) = Header(was)

\* Enter only on evidence that the digit moved the caret and committed nothing.
SettleRead ==
  /\ episode.at = "settle" /\ Reads
  /\ LET reads == episode.reads + 1
     IN  episode' = IF episode.before.caret = episode.digit \/ ~SameStanding(episode.before, frame)
                    THEN [episode EXCEPT !.at = "check"]
                    ELSE IF reads < VerifyReads THEN [episode EXCEPT !.reads = reads]
                    ELSE [episode EXCEPT !.at = IF frame.caret = episode.digit THEN "enter" ELSE "check"]
  /\ UNCHANGED <<pendingCapture, recaptures, stillBlocked>>

SettleEnter ==
  /\ episode.at = "enter" /\ episode' = [episode EXCEPT !.at = "check"]
  /\ Pressed(NextRequest(dialog))
  /\ UNCHANGED <<build, narrow, pendingCapture, recaptures, stillBlocked, operatorKeys>>

-----------------------------------------------------------------------------
(* Rows: agyTrust, ClaudeFolderTrust *)

\* The prompt is still on screen after the walk: its request gets a row.
StillBlocked == {dialog.request} \ {NoDialog}

FailEpisode ==
  /\ episode' = NoEpisode
  /\ stillBlocked' = stillBlocked \union StillBlocked

StartRows ==
  /\ episode.at = "decided" /\ build = "rows"
  /\ IF Open(frame) /\ Region(frame) = Region(episode.seen)
     THEN episode' = [at |-> "walk", digit |-> episode.digit, seen |-> episode.seen, caret |-> frame.caret] /\ UNCHANGED stillBlocked
     ELSE FailEpisode
  /\ UNCHANGED <<build, narrow, dialog, frame, staleReads, pendingCapture, recaptures, operatorKeys>>

\* One arrow towards the row.
PressArrow ==
  /\ episode.at = "walk" /\ episode.caret # episode.digit
  /\ LET step == IF episode.digit > episode.caret THEN 1 ELSE -1
     IN  /\ Pressed([dialog EXCEPT !.caret = IF @ + step \in Rows THEN @ + step ELSE @])
         /\ episode' = [at |-> "await", digit |-> episode.digit, seen |-> episode.seen, want |-> episode.caret + step, reads |-> 0]
  /\ UNCHANGED <<build, narrow, pendingCapture, recaptures, stillBlocked, operatorKeys>>

\* Mutant: any read of the same dialog will do.
ArrivedAnywhere(now, want) == TRUE

\* The await's condition: the caret has arrived.
Arrived(now, want) == now.caret = want

AwaitCaret ==
  /\ episode.at = "await" /\ Reads
  /\ IF Open(frame) /\ Region(frame) = Region(episode.seen) /\ Arrived(frame, episode.want)
     THEN episode' = [at |-> "walk", digit |-> episode.digit, seen |-> episode.seen, caret |-> frame.caret] /\ UNCHANGED stillBlocked
     ELSE IF episode.reads + 1 < VerifyReads
     THEN episode' = [episode EXCEPT !.reads = @ + 1] /\ UNCHANGED stillBlocked
     ELSE FailEpisode
  /\ UNCHANGED <<pendingCapture, recaptures>>

EnterRow ==
  /\ episode.at = "walk" /\ episode.caret = episode.digit
  /\ Pressed(NextRequest(dialog))
  /\ episode' = [at |-> "check", seen |-> episode.seen]
  /\ UNCHANGED <<build, narrow, pendingCapture, recaptures, stillBlocked, operatorKeys>>

-----------------------------------------------------------------------------
(* armUnblockCheck: a second later, and not while an Enter may still come *)

\* Mutant: a dialog that changed is taken to be captured, however many were.
RecapturableAlways(n) == TRUE

Recapturable(n) == n < MaxRecaptures

\* The answer landed and the next prompt stands: capture it. Otherwise an agent
\* that is still blocked is reported.
UnblockCheck ==
  /\ episode.at = "check" /\ frame = dialog
  /\ episode' = NoEpisode
  /\ LET advanced == Open(frame) /\ Region(frame) # Region(episode.seen)
     IN  IF advanced /\ Recapturable(recaptures)
         THEN pendingCapture' = (recaptures < MaxRecaptures) /\ recaptures' = recaptures + 1 /\ UNCHANGED stillBlocked
         ELSE stillBlocked' = stillBlocked \union StillBlocked /\ UNCHANGED <<pendingCapture, recaptures>>
  /\ UNCHANGED <<build, narrow, dialog, frame, staleReads, operatorKeys>>

-----------------------------------------------------------------------------
(* The operator, at the same keyboard until hap's last look, seeing the result *)

OperatorKey(d) ==
  /\ operatorKeys < MaxOperatorKeys /\ operatorKeys' = operatorKeys + 1
  /\ Open(dialog) /\ dialog' = d /\ frame' = d /\ staleReads' = 0
  /\ UNCHANGED <<build, narrow, episode, pendingCapture, recaptures, stillBlocked>>

OperatorMovesCaret == episode.at \in {"none", "decided"} /\ (\E r \in Rows : OperatorKey([dialog EXCEPT !.caret = r]))
OperatorAnswers == episode.at \in {"decided", "settle"} /\ OperatorKey(NextRequest(dialog))

NextDialog ==
  \/ Render \/ CaptureDialog \/ PressDigit \/ SettleRead \/ SettleEnter
  \/ StartRows \/ PressArrow \/ AwaitCaret \/ EnterRow \/ UnblockCheck
  \/ OperatorMovesCaret \/ OperatorAnswers

SpecDialog == InitDialog /\ [][NextDialog]_dialogVars

\* The screen is drawn, timers fire and deliveries run to their end.
FairDialog ==
  /\ WF_dialogVars(Render) /\ WF_dialogVars(CaptureDialog) /\ WF_dialogVars(PressDigit)
  /\ WF_dialogVars(SettleRead) /\ WF_dialogVars(SettleEnter) /\ WF_dialogVars(StartRows)
  /\ WF_dialogVars(PressArrow) /\ WF_dialogVars(AwaitCaret) /\ WF_dialogVars(EnterRow) /\ WF_dialogVars(UnblockCheck)

FairSpecDialog == SpecDialog /\ FairDialog

-----------------------------------------------------------------------------
(* Properties *)

\* The Enter after a digit is for the dialog that got the digit, never for the
\* next request of the queue (#564).
EnterIsForItsDialog == [][SettleEnter => dialog.request = episode.of]_dialogVars

\* The same, where the row is wide enough for the counter that tells identical
\* requests apart.
EnterIsForItsCountedDialog == [][SettleEnter /\ ~narrow => dialog.request = episode.of]_dialogVars

\* Enter finds the caret on the chosen row, however late the screen is.
RowIsTheChosen == [][EnterRow => dialog.caret = episode.digit]_dialogVars

\* Nobody announces a request that is drawn in place of an answered one: it is
\* captured, or a row says that the agent is still blocked; none stands unseen.
RequestIsNotForgotten ==
  \A r \in DialogRequests : dialog.request = r ~> (dialog.request # r \/ r \in stillBlocked)
=============================================================================
