------------------------- MODULE EscalationDelivery -------------------------
(***************************************************************************)
(* How an escalation is answered.  An audit row that reached "escalated"   *)
(* can be answered, retired or re-driven by four kinds of actor:           *)
(*                                                                         *)
(*   - front ends (other processes): confirm with or without a send,       *)
(*     dismiss, ask for an LLM retry, pause the herd, disable an agent;    *)
(*   - the daemon's select loop: drains agent_actions, then corrections,   *)
(*     then llm_retries, and once a minute runs the auto-accept sweep;     *)
(*   - one background goroutine per agent (full self-prompting, FSP) that  *)
(*     answers a just-raised escalation off the loop;                      *)
(*   - a crash and the startup recovery that follows it.                   *)
(*                                                                         *)
(* They meet in the database (status, corrections, agent_actions) and in   *)
(* the agent's pane.  Every store call is one transaction, so one atomic   *)
(* step; the steps of different actors interleave.                         *)
(***************************************************************************)
EXTENDS Naturals, FiniteSets

CONSTANTS
  Agents,       \* agents (one herdr pane each)
  Rows,         \* audit_log ids that may become escalations
  AgentOf,      \* [Rows -> Agents], the agent a row was raised for
  MenuRows,     \* rows answered by a Claude menu digit (verified at send time)
  NoopRows,     \* rows whose suggestion is "@noop": nothing to deliver
  Replies,      \* ids of operator corrections, and of the action paired with each
  Loop,         \* the select loop, as a worker beside the per-agent goroutines
  Unread,       \* a pane the current sweep has not read yet
  Events,       \* bound: the outside events of this instance (subset of EventKinds)
  Faults,       \* the store writes that may fail
  MaxFaults,    \* bound: failing writes in one behaviour
  MaxCrashes    \* bound: daemon crashes in one behaviour

maxAutoAcceptAttempts == 3
maxAgentActionAttempts == 3
autoAcceptAbsenceConfirmations == 2

FaultKinds == {"finish", "release", "withdraw", "mark", "sent", "processed",
               "claim", "finalize", "revert", "dismiss", "reclaim", "apply"}

EventKinds == {"tick", "fsp", "kill", "disable", "age", "retry", "dismiss", "send",
               "teach", "move", "unlisted"}

ASSUME RowsAssumption == Rows \subseteq Nat \ {0} /\ IsFiniteSet(Rows)
ASSUME RepliesAssumption == Replies \subseteq Nat \ {0} /\ IsFiniteSet(Replies)
ASSUME AgentsAssumption == 
  AgentOf \in [Rows -> Agents] /\ MenuRows \subseteq Rows /\ NoopRows \subseteq Rows
ASSUME WorkersAssumption == Loop \notin Agents /\ Unread \notin Rows \cup {0}
ASSUME BoundsAssumption ==
  Events \subseteq EventKinds /\ Faults \subseteq FaultKinds /\ MaxFaults \in Nat /\ MaxCrashes \in Nat

Workers == Agents \cup {Loop}

VARIABLES
  \* --- the database -----------------------------------------------------
  status,        \* audit_log.status of each row ("none": not inserted yet)
  corrSt,        \* corrections: absent, unprocessed, processed or withdrawn
  corrRow,       \* corrections.audit_id (0 while absent)
  corrSent,      \* corrections marked sent
  actSt,         \* agent_actions.status of the delivery paired with a correction
  actTries,      \* agent_actions.attempts
  actMark,       \* actions marked side_effect
  actOld,        \* actions that waited past actionStaleAfter
  retryQ,        \* rows with an unprocessed llm_retries request
  killed,        \* the kill switch (newest kill event)
  disabled,      \* agents switched off for automation
  \* --- the daemon's memory ----------------------------------------------
  up,            \* the daemon process runs
  phase,         \* where the select loop is in its pass
  pass,          \* which select case the pass came from
  todo,          \* actions or corrections the current phase has still to handle
  rowsTodo,      \* rows the current phase has still to handle
  handled,       \* agents answered by the current sweep (handledAgent)
  eligible,      \* candidates of the current sweep whose bookkeeping is kept
  live,          \* the sweep's agent listing: gone, working or parked
  panes,         \* the sweep's paneCache
  sweepFsp,      \* the sweep runs in full self-prompting flavour
  job,           \* the queued delivery in the loop's hands (0: none)
  wpc,           \* program counter of each worker
  wrow,          \* the row a worker is auto-accepting (0: none)
  tries,         \* autoAcceptAttempts
  absent,        \* autoAcceptAbsent
  needsFinalize, \* autoAcceptNeedsFinalize
  needsRevert,   \* autoAcceptNeedsRevert
  fspOn,         \* FSP is on: configured, its preconditions hold, not latched off
  \* --- the agents ---------------------------------------------------------
  screen,        \* the row whose question stands in the pane (0: none of them)
  parked,        \* agents herdr reports blocked, idle or done
  \* --- history, read by properties only ------------------------------------
  typedAuto,     \* automatic answers typed for a row
  typedReply,    \* times a queued reply was typed
  learned,       \* times a correction's decision was recorded
  armed,         \* corrections whose post-action self-check was armed
  moved,         \* replies refused because their Claude dialog had been replaced
  late,          \* claims a worker won since the herd was paused
  missed,        \* consecutive sweep listings of this daemon an agent was missing from
  faults, crashes

corrs == <<corrSt, corrRow, corrSent>>
acts == <<actSt, actTries, actMark, actOld>>
store == <<status, corrs, acts, retryQ>>
controls == <<killed, disabled>>
sweepVars == <<handled, eligible, live, panes, sweepFsp>>
loopVars == <<phase, pass, todo, rowsTodo, sweepVars, job>>
workers == <<wpc, wrow>>
books == <<tries, absent, needsFinalize, needsRevert>>
world == <<screen, parked>>
history == <<typedAuto, typedReply, learned, armed, moved, late, missed>>
bounds == <<faults, crashes>>
vars == <<store, controls, up, loopVars, workers, books, fspOn, world, history,
          bounds>>

Statuses == {"none", "escalated", "auto_accepting", "auto_accepted",
             "resolved", "dismissed", "retried"}
CorrStates == {"absent", "unprocessed", "processed", "withdrawn"}
ActStates == {"absent", "pending", "running", "done", "failed"}
AutoPcs == {"check", "lastlook", "claim", "deliver", "finalize",
            "revert", "giveup"}
ReplyPcs == {"claimed", "screened", "marked", "typed", "sent",
             "fail", "withdraw", "retry"}
Phases == {"down", "idle", "actions", "corrections", "applied", "retries",
           "list", "settle", "begin", "sweep", "reclaimAuto", "reclaimActions"}
Passes == {"start", "nudge", "tick"}

-----------------------------------------------------------------------------
(* Store writes.  A write in Faults may fail: nothing is changed and the    *)
(* caller sees the error.                                                   *)

Succeeds == UNCHANGED faults
Fails(write) == write \in Faults /\ faults < MaxFaults /\ faults' = faults + 1

SetStatus(r, s) == status' = [status EXCEPT ![r] = s]

\* guardedStatus, ResolveEscalation, MarkAutoAccepted...: move a row only while
\* it still holds one of the expected statuses; otherwise nothing is written.
GuardedStatus(r, from, to) ==
  status' = IF status[r] \in from THEN [status EXCEPT ![r] = to] ELSE status

WorkerDone(w) ==
  /\ wpc' = [wpc EXCEPT ![w] = "idle"]
  /\ wrow' = [wrow EXCEPT ![w] = 0]

WorkerTo(w, pc) == wpc' = [wpc EXCEPT ![w] = pc] /\ UNCHANGED wrow

\* Mutant of paneBusy: nobody looks at sweepInFlight.
paneBusyNever(a) == FALSE

\* sweepInFlight: the goroutine of an agent owns that agent's pane from before it
\* is spawned until it ends.
paneBusy(a) == wpc[a] # "idle"

-----------------------------------------------------------------------------
Init ==
  /\ status = [r \in Rows |-> "none"]
  /\ corrSt = [c \in Replies |-> "absent"]
  /\ corrRow = [c \in Replies |-> 0]
  /\ corrSent = {}
  /\ actSt = [c \in Replies |-> "absent"]
  /\ actTries = [c \in Replies |-> 0]
  /\ actMark = {}
  /\ actOld = {}
  /\ retryQ = {}
  /\ killed = FALSE /\ disabled = {}
  /\ up = TRUE /\ phase = "idle" /\ pass = "nudge" /\ todo = {} /\ rowsTodo = {} /\ handled = {}
  /\ eligible = {} /\ live = [a \in Agents |-> "gone"]
  /\ panes = [a \in Agents |-> Unread] /\ sweepFsp = FALSE /\ job = 0
  /\ wpc = [w \in Workers |-> "idle"] /\ wrow = [w \in Workers |-> 0]
  /\ tries = [r \in Rows |-> 0] /\ absent = [r \in Rows |-> 0]
  /\ needsFinalize = {} /\ needsRevert = {}
  /\ fspOn = ("fsp" \in Events)
  /\ screen = [a \in Agents |-> 0] /\ parked = {}
  /\ typedAuto = [r \in Rows |-> 0] /\ typedReply = [c \in Replies |-> 0]
  /\ learned = [c \in Replies |-> 0] /\ armed = {}
  /\ moved = {} /\ late = [w \in Workers |-> 0]
  /\ missed = [a \in Agents |-> 0]
  /\ faults = 0 /\ crashes = 0

-----------------------------------------------------------------------------
(* The agents and the front ends: free to act at any moment.                *)

\* An agent stops and shows the question a row will be raised for.
Ask(r) ==
  LET a == AgentOf[r] IN
  /\ status[r] = "none" /\ screen[a] # r
  /\ screen' = [screen EXCEPT ![a] = r]
  /\ parked' = parked \cup {a}
  /\ UNCHANGED <<store, controls, up, loopVars, workers, books, fspOn, history,
                 bounds>>

\* An agent resumes, stops, or repaints without an answer of ours.
AgentMoves(a) ==
  /\ "move" \in Events
  /\ screen' \in {screen, [screen EXCEPT ![a] = 0]}
  /\ parked' \in {parked \cup {a}, parked \ {a}}
  /\ <<screen', parked'>> # <<screen, parked>>
  /\ UNCHANGED <<store, controls, up, loopVars, workers, books, fspOn, history,
                 bounds>>

\* InsertCorrectionWithDelivery: one transaction, refused unless the row is
\* pending; ids are handed out in insertion order.
ConfirmAndSend(c, r) ==
  /\ "send" \in Events
  /\ up /\ status[r] = "escalated"
  /\ corrSt[c] = "absent" /\ \A b \in Replies : b < c => corrSt[b] # "absent"
  /\ corrSt' = [corrSt EXCEPT ![c] = "unprocessed"]
  /\ corrRow' = [corrRow EXCEPT ![c] = r]
  /\ actSt' = [actSt EXCEPT ![c] = "pending"]
  /\ UNCHANGED <<status, corrSent, actTries, actMark, actOld, retryQ, controls, up,
                 loopVars, workers, books, fspOn, world, history, bounds>>

\* DismissEscalationsBefore: the front-end prune retires every pending row older
\* than its cutoff.
PruneEscalations ==
  /\ "dismiss" \in Events
  /\ \E old \in SUBSET {r \in Rows : status[r] = "escalated"} :
       /\ old # {}
       /\ status' = [r \in Rows |-> IF r \in old THEN "dismissed" ELSE status[r]]
  /\ UNCHANGED <<corrs, acts, retryQ, controls, up, loopVars, workers, books, fspOn,
                 world, history, bounds>>

\* Resolve without a send: InsertCorrection looks at no status.
ConfirmOnly(c, r) ==
  /\ "teach" \in Events
  /\ status[r] # "none"
  /\ corrSt[c] = "absent" /\ \A b \in Replies : b < c => corrSt[b] # "absent"
  /\ corrSt' = [corrSt EXCEPT ![c] = "unprocessed"]
  /\ corrRow' = [corrRow EXCEPT ![c] = r]
  /\ UNCHANGED <<status, corrSent, acts, retryQ, controls, up, loopVars, workers,
                 books, fspOn, world, history, bounds>>

DismissEscalation(r) ==
  /\ "dismiss" \in Events
  /\ status[r] = "escalated"
  /\ SetStatus(r, "dismissed")
  /\ UNCHANGED <<corrs, acts, retryQ, controls, up, loopVars, workers, books, fspOn,
                 world, history, bounds>>

RetryLLM(r) ==
  /\ "retry" \in Events
  /\ status[r] = "escalated" /\ r \notin retryQ
  /\ retryQ' = retryQ \cup {r}
  /\ UNCHANGED <<status, corrs, acts, controls, up, loopVars, workers, books, fspOn,
                 world, history, bounds>>

PauseOrResume ==
  /\ "kill" \in Events
  /\ killed' = ~killed /\ late' = [w \in Workers |-> 0]
  /\ UNCHANGED <<store, disabled, up, loopVars, workers, books, fspOn, world,
                 typedAuto, typedReply, learned, armed, moved, missed, bounds>>

\* Takes the per-agent automation lock, as every delivery does, so it falls
\* between deliveries and never inside one.
SetAgentEnabled(a) ==
  /\ "disable" \in Events
  /\ disabled' = IF a \in disabled THEN disabled \ {a} ELSE disabled \cup {a}
  /\ UNCHANGED <<store, killed, up, loopVars, workers, books, fspOn, world, history,
                 bounds>>

SetFullSelfPrompting ==
  /\ "fsp" \in Events
  /\ fspOn' = ~fspOn
  /\ UNCHANGED <<store, controls, up, loopVars, workers, books, world, history,
                 bounds>>

\* A queued delivery waits longer than actionStaleAfter (a lost nudge).
ActionAges(c) ==
  /\ "age" \in Events
  /\ actSt[c] = "pending" /\ c \notin actOld
  /\ actOld' = actOld \cup {c}
  /\ UNCHANGED <<status, corrs, actSt, actTries, actMark, retryQ, controls, up,
                 loopVars, workers, books, fspOn, world, history, bounds>>

-----------------------------------------------------------------------------
(* The select loop between passes.                                          *)

LoopFree == up /\ phase = "idle" /\ wpc[Loop] = "idle"

\* escalate: the row is appended, and in full self-prompting the pane is acquired
\* and a goroutine spawned to answer it at once (maybeFSPAcceptNow).
Raise(r) ==
  LET a == AgentOf[r] IN
  /\ LoopFree /\ status[r] = "none" /\ screen[a] = r /\ a \in parked
  /\ SetStatus(r, "escalated")
  /\ IF fspOn /\ ~paneBusy(a)
       THEN /\ wpc' = [wpc EXCEPT ![a] = "check"]
            /\ wrow' = [wrow EXCEPT ![a] = r]
       ELSE UNCHANGED workers
  /\ UNCHANGED <<corrs, acts, retryQ, controls, up, loopVars, books, fspOn, world,
                 history, bounds>>

PendingAgentActions == {c \in Replies : actSt[c] = "pending"}

\* Mutant of UnprocessedCorrections: the query forgets the delivery it must wait for.
CorrectionsNotWaiting == {c \in Replies : corrSt[c] = "unprocessed"}

UnprocessedCorrections ==
  {c \in Replies : corrSt[c] = "unprocessed" /\ actSt[c] \notin {"pending", "running"}}

\* Mutant of BeginPass: only a nudge drains the action queue, so a lost nudge strands it.
BeginPassForgets(kind) ==
  /\ LoopFree /\ (kind = "tick" => "tick" \in Events)
  /\ pass' = kind /\ phase' = "actions"
  /\ todo' = IF kind = "tick" THEN {} ELSE PendingAgentActions
  /\ UNCHANGED <<store, controls, up, sweepVars, rowsTodo, job, workers, books, fspOn,
                 world, history, bounds>>

\* A nudge, a sync event or the one-minute ticker starts a pass.
BeginPass(kind) ==
  /\ LoopFree /\ (kind = "tick" => "tick" \in Events)
  /\ pass' = kind /\ phase' = "actions" /\ todo' = PendingAgentActions
  /\ UNCHANGED <<store, controls, up, sweepVars, rowsTodo, job, workers, books, fspOn,
                 world, history, bounds>>

EndPhase(next, replies, rows) ==
  /\ phase' = next /\ todo' = replies /\ rowsTodo' = rows
  /\ pass' = IF next = "idle" THEN "nudge" ELSE pass
  /\ UNCHANGED <<store, controls, up, sweepVars, job, workers, books, fspOn, world,
                 history, bounds>>

\* Mutants of ActionsDrained: the batch lands in the wrong queue; the ticker's pass
\* forgets the corrections.
ActionsDrainedMixed ==
  /\ phase = "actions" /\ todo = {} /\ wpc[Loop] = "idle"
  /\ EndPhase(IF pass = "start" THEN "idle" ELSE "corrections",
              {}, IF pass = "start" THEN {} ELSE UnprocessedCorrections)

ActionsDrainedForgets ==
  /\ phase = "actions" /\ todo = {} /\ wpc[Loop] = "idle"
  /\ EndPhase(IF pass = "start" THEN "idle" ELSE "corrections",
              IF pass = "nudge" THEN UnprocessedCorrections ELSE {}, {})

ActionsDrained ==
  /\ phase = "actions" /\ todo = {} /\ wpc[Loop] = "idle"
  /\ EndPhase(IF pass = "start" THEN "idle" ELSE "corrections",
              IF pass = "start" THEN {} ELSE UnprocessedCorrections, {})

CorrectionsDrained ==
  /\ phase = "corrections" /\ todo = {} /\ EndPhase("retries", {}, retryQ)

RetriesDrained ==
  /\ phase = "retries" /\ rowsTodo = {}
  /\ EndPhase(CASE pass = "start" -> "reclaimAuto"
                [] pass = "nudge" -> "idle"
                [] OTHER -> "list", {}, {})

\* Queues and candidate lists are handled oldest id first.
Oldest(x, S) == x \in S /\ \A y \in S : x <= y

-----------------------------------------------------------------------------
(* processAgentActions / runAgentAction / deliverReply, on the loop.        *)

Unit == UNCHANGED <<controls, up, books, fspOn>>

\* ClaimAgentAction, and the loop takes the row in hand; a failed claim is skipped.
ActClaim ==
  /\ phase = "actions" /\ todo # {} /\ wpc[Loop] = "idle"
  /\ \E c \in todo :
     /\ Oldest(c, todo) /\ todo' = todo \ {c}
     /\ \/ /\ Succeeds /\ actSt[c] = "pending"
           /\ actSt' = [actSt EXCEPT ![c] = "running"]
           /\ actTries' = [actTries EXCEPT ![c] = @ + 1]
           /\ job' = c /\ WorkerTo(Loop, "claimed")
        \/ Fails("claim") /\ UNCHANGED <<actSt, actTries, job, workers>>
  /\ UNCHANGED <<status, corrs, actMark, actOld, retryQ, phase, pass, sweepVars,
                 world, history, crashes, rowsTodo>>
  /\ Unit

\* Everything deliverReply reads before the point of no return.  Stale requests
\* fail first, and so do the orchestrator's while the herd is paused; a closed row,
\* a replaced terminal or a refused text withdraws; an unreadable store or an owned
\* pane is transient.
ActScreen ==
  /\ wpc[Loop] = "claimed"
  /\ LET r == corrRow[job] IN
     \E verdict \in {"fail", "withdraw", "retry", "screened"} :
       /\ job \in actOld => verdict = "fail"
       /\ verdict = "fail" => job \in actOld \/ killed
       /\ verdict = "screened" =>
            /\ status[r] = "escalated"
            /\ ~(r \in MenuRows /\ paneBusy(AgentOf[r]))
       /\ WorkerTo(Loop, verdict)
  /\ UNCHANGED <<store, loopVars, world, history, bounds>> /\ Unit

\* MarkAgentActionSideEffect, written before the keystrokes.
ActMark ==
  /\ wpc[Loop] = "screened"
  /\ \/ /\ Succeeds /\ actMark' = actMark \cup {job}
        /\ WorkerTo(Loop, "marked")
     \/ Fails("mark") /\ UNCHANGED actMark /\ WorkerTo(Loop, "retry")
  /\ UNCHANGED <<status, corrs, actSt, actTries, actOld, retryQ, loopVars, world,
                 history, crashes>>
  /\ Unit

\* What the pane does with typed text: the agent takes it, or nothing changes.
PaneTakes(a) ==
  \/ screen' = [screen EXCEPT ![a] = 0] /\ parked' = parked \ {a}
  \/ UNCHANGED world

\* deliverToPane: inside the automation barrier.  A disabled agent, a replaced
\* Claude dialog or a herdr fault fails the action with nothing typed.
ActType ==
  /\ wpc[Loop] = "marked"
  /\ LET r == corrRow[job]  a == AgentOf[r] IN
     \/ /\ a \notin disabled /\ (r \in MenuRows => screen[a] = r)
        /\ typedReply' = [typedReply EXCEPT ![job] = @ + 1]
        /\ PaneTakes(a) /\ WorkerTo(Loop, "typed") /\ UNCHANGED moved
     \/ /\ a \notin disabled /\ r \in MenuRows /\ screen[a] # r
        /\ moved' = moved \cup {job}
        /\ WorkerTo(Loop, "fail") /\ UNCHANGED <<typedReply, world>>
     \/ WorkerTo(Loop, "fail") /\ UNCHANGED <<typedReply, world, moved>>
  /\ UNCHANGED <<store, loopVars, typedAuto, learned, armed, late, missed, bounds>>
  /\ Unit

\* MarkCorrectionSent: best effort.
ActSent ==
  /\ wpc[Loop] = "typed"
  /\ \/ Succeeds /\ corrSent' = corrSent \cup {job}
     \/ Fails("sent") /\ UNCHANGED corrSent
  /\ WorkerTo(Loop, "sent")
  /\ UNCHANGED <<status, corrSt, corrRow, acts, retryQ, loopVars, world, history,
                 crashes>>
  /\ Unit

\* The action's outcome.  A failed write leaves the row "running"; a transient
\* verdict past the attempt budget is a failure.
ActFinish ==
  /\ wpc[Loop] \in {"sent", "fail", "withdraw", "retry"}
  /\ LET retrying == wpc[Loop] = "retry" /\ actTries[job] < maxAgentActionAttempts
         end == CASE wpc[Loop] = "sent" -> "done"
                  [] retrying -> "pending"
                  [] OTHER -> "failed"
         write == CASE retrying -> "release"
                    [] wpc[Loop] = "withdraw" -> "withdraw"
                    [] OTHER -> "finish"
     IN \/ /\ Succeeds
           /\ actSt' = [actSt EXCEPT ![job] = end]
           /\ corrSt' = IF wpc[Loop] = "withdraw"
                          THEN [corrSt EXCEPT ![job] = "withdrawn"] ELSE corrSt
        \/ Fails(write) /\ UNCHANGED <<actSt, corrSt>>
  /\ WorkerTo(Loop, "idle") /\ job' = 0
  /\ UNCHANGED <<status, corrRow, corrSent, actTries, actMark, actOld, retryQ, phase,
                 pass, todo, rowsTodo, sweepVars, world, history, crashes>>
  /\ Unit

-----------------------------------------------------------------------------
(* processCorrections and processLLMRetries.                                *)

\* applyCorrection: the decision is recorded and the row marked resolved,
\* whatever its status was.  A store error skips the correction.
ApplyCorrection ==
  /\ phase = "corrections" /\ todo # {}
  /\ \E c \in todo : Oldest(c, todo) /\
     \/ /\ Succeeds
        /\ learned' = [learned EXCEPT ![c] = @ + 1]
        /\ SetStatus(corrRow[c], "resolved")
        /\ phase' = "applied" /\ job' = c /\ UNCHANGED todo
     \/ /\ Fails("apply") /\ todo' = todo \ {c}
        /\ UNCHANGED <<learned, status, phase, job>>
  /\ UNCHANGED <<corrs, acts, retryQ, pass, sweepVars, workers, world, typedAuto,
                 typedReply, armed, moved, late, missed, crashes, rowsTodo>>
  /\ Unit

\* Mutant of MarkCorrectionProcessed: a correction recovered at startup is not checked.
MarkCorrectionProcessedUnarmed ==
  /\ phase = "applied" /\ phase' = "corrections" /\ job' = 0
  /\ \/ /\ Succeeds /\ todo' = todo \ {job}
        /\ corrSt' = [corrSt EXCEPT ![job] = "processed"]
        /\ armed' = IF job \in corrSent /\ pass # "start" THEN armed \cup {job} ELSE armed
     \/ Fails("processed") /\ todo' = {} /\ UNCHANGED <<corrSt, armed>>
  /\ UNCHANGED <<status, corrRow, corrSent, acts, retryQ, pass, sweepVars, workers,
                 world, typedAuto, typedReply, learned, moved, late, missed, crashes,
                 rowsTodo>>
  /\ Unit

\* MarkCorrectionProcessed, then the self-check is armed; a failure drops the
\* rest of the batch.
MarkCorrectionProcessed ==
  /\ phase = "applied" /\ phase' = "corrections" /\ job' = 0
  /\ \/ /\ Succeeds /\ todo' = todo \ {job}
        /\ corrSt' = [corrSt EXCEPT ![job] = "processed"]
        /\ armed' = IF job \in corrSent THEN armed \cup {job} ELSE armed
     \/ Fails("processed") /\ todo' = {} /\ UNCHANGED <<corrSt, armed>>
  /\ UNCHANGED <<status, corrRow, corrSent, acts, retryQ, pass, sweepVars, workers,
                 world, typedAuto, typedReply, learned, moved, late, missed, crashes,
                 rowsTodo>>
  /\ Unit

\* applyLLMRetry: stays queued on a transient error, is dropped when a consult is
\* in flight or the agent is gone, otherwise retires the row (guarded).
ApplyLLMRetry ==
  /\ phase = "retries" /\ rowsTodo # {}
  /\ \E r \in rowsTodo :
     /\ Oldest(r, rowsTodo) /\ rowsTodo' = rowsTodo \ {r}
     /\ \/ UNCHANGED <<retryQ, status>>
        \/ retryQ' = retryQ \ {r} /\ UNCHANGED status
        \/ retryQ' = retryQ \ {r} /\ GuardedStatus(r, {"escalated"}, "retried")
  /\ UNCHANGED <<corrs, acts, phase, pass, sweepVars, todo, job, workers, world,
                 history, bounds>>
  /\ Unit

-----------------------------------------------------------------------------
(* Crash and startup recovery.  The order is Run's: corrections, retries,   *)
(* abandoned auto-accept claims, abandoned agent actions, the action queue. *)

Crash ==
  /\ up /\ crashes < MaxCrashes
  /\ up' = FALSE /\ phase' = "down" /\ crashes' = crashes + 1
  /\ todo' = {} /\ rowsTodo' = {} /\ handled' = {} /\ eligible' = {} /\ job' = 0 /\ pass' = "start"
  /\ live' = [a \in Agents |-> "gone"] /\ panes' = [a \in Agents |-> Unread]
  /\ sweepFsp' = FALSE
  /\ wpc' = [w \in Workers |-> "idle"] /\ wrow' = [w \in Workers |-> 0]
  /\ tries' = [r \in Rows |-> 0] /\ absent' = [r \in Rows |-> 0]
  /\ needsFinalize' = {} /\ needsRevert' = {}
  /\ missed' = [a \in Agents |-> 0]
  /\ UNCHANGED <<store, controls, fspOn, world, typedAuto, typedReply, learned, armed,
                 moved, late, faults>>

Start ==
  /\ ~up /\ up' = TRUE
  /\ pass' = "start" /\ phase' = "corrections" /\ todo' = UnprocessedCorrections
  /\ UNCHANGED <<store, controls, sweepVars, rowsTodo, job, workers, books, fspOn,
                 world, history, bounds>>

ReclaimAbandonedAutoAccepts ==
  /\ phase = "reclaimAuto" /\ phase' = "reclaimActions"
  /\ \/ /\ Succeeds
        /\ status' = [r \in Rows |-> IF status[r] = "auto_accepting" THEN "escalated"
                                                                      ELSE status[r]]
     \/ Fails("reclaim") /\ UNCHANGED status
  /\ UNCHANGED <<corrs, acts, retryQ, pass, todo, rowsTodo, sweepVars, job, workers,
                 world, history, crashes>>
  /\ Unit

\* Mutant of ReclaimRunningAgentActions: a marked action is replayed too.
ReclaimReplaysMarked ==
  /\ phase = "reclaimActions" /\ phase' = "actions"
  /\ \/ /\ Succeeds
        /\ actSt' = [c \in Replies |->
                       IF actSt[c] # "running" THEN actSt[c] ELSE "pending"]
     \/ Fails("reclaim") /\ UNCHANGED actSt
  /\ todo' = {c \in Replies : actSt'[c] = "pending"}
  /\ UNCHANGED <<status, corrs, actTries, actMark, actOld, retryQ, pass, sweepVars,
                 rowsTodo, job, workers, world, history, crashes>>
  /\ Unit

\* A claim abandoned past the side-effect mark is failed, never replayed; any
\* other is requeued.
ReclaimRunningAgentActions ==
  /\ phase = "reclaimActions" /\ phase' = "actions"
  /\ \/ /\ Succeeds
        /\ actSt' = [c \in Replies |->
                       IF actSt[c] # "running" THEN actSt[c]
                       ELSE IF c \in actMark THEN "failed" ELSE "pending"]
     \/ Fails("reclaim") /\ UNCHANGED actSt
  /\ todo' = {c \in Replies : actSt'[c] = "pending"}
  /\ UNCHANGED <<status, corrs, actTries, actMark, actOld, retryQ, pass, sweepVars,
                 rowsTodo, job, workers, world, history, crashes>>
  /\ Unit

-----------------------------------------------------------------------------
(* autoAcceptEscalations: the one-minute sweep.                             *)

\* ListAgents.  A failed listing ends the pass; a restarting herdr may leave
\* agents out of it.
ListAgents ==
  /\ phase = "list"
  /\ \/ /\ phase' = "settle"
        /\ \E here \in SUBSET Agents :
             /\ "unlisted" \notin Events => here = Agents
             /\ live' = [a \in Agents |-> IF a \notin here THEN "gone"
                                          ELSE IF a \in parked THEN "parked" ELSE "working"]
             /\ missed' = [a \in Agents |->
                   IF a \in here THEN 0
                   ELSE IF missed[a] < autoAcceptAbsenceConfirmations
                     THEN missed[a] + 1 ELSE missed[a]]
     \/ phase' = "idle" /\ UNCHANGED <<live, missed>>
  /\ pass' = "nudge"
  /\ UNCHANGED <<store, controls, up, todo, rowsTodo, handled, eligible, panes,
                 sweepFsp, job, workers, books, fspOn, world, typedAuto, typedReply,
                 learned, armed, moved, late, bounds>>

\* Mutant of SettleObligations: retryAutoAcceptRevert is never called.
SettleFinalizesOnly ==
  /\ phase = "settle" /\ phase' = "begin"
  /\ \E finalized \in SUBSET needsFinalize, reverted \in {{}} :
       /\ needsFinalize' = needsFinalize \ finalized
       /\ needsRevert' = needsRevert \ reverted
       /\ \/ Succeeds /\ needsFinalize' = {}
          \/ needsFinalize' # {} /\ Fails("finalize")
       /\ status' = [r \in Rows |->
            IF status[r] # "auto_accepting" THEN status[r]
            ELSE IF r \in finalized THEN "auto_accepted"
            ELSE IF r \in reverted THEN "escalated" ELSE status[r]]
  /\ UNCHANGED <<corrs, acts, retryQ, controls, up, pass, todo, rowsTodo, sweepVars,
                 job, workers, tries, absent, fspOn, world, history, crashes>>

\* retryAutoAcceptFinalize, then retryAutoAcceptRevert, before every gate: settle
\* the answers that landed and release the claims whose revert failed.  An entry
\* whose write fails again is kept for the next tick.
SettleObligations ==
  /\ phase = "settle" /\ phase' = "begin"
  /\ \E finalized \in SUBSET needsFinalize, reverted \in SUBSET needsRevert :
       /\ needsFinalize' = needsFinalize \ finalized
       /\ needsRevert' = needsRevert \ reverted
       /\ \/ Succeeds /\ needsFinalize' = {} /\ needsRevert' = {}
          \/ needsFinalize' # {} /\ needsRevert' = {} /\ Fails("finalize")
          \/ needsRevert' # {} /\ needsFinalize' = {} /\ Fails("revert")
       /\ status' = [r \in Rows |->
            IF status[r] # "auto_accepting" THEN status[r]
            ELSE IF r \in finalized THEN "auto_accepted"
            ELSE IF r \in reverted THEN "escalated" ELSE status[r]]
  /\ UNCHANGED <<corrs, acts, retryQ, controls, up, pass, todo, rowsTodo, sweepVars,
                 job, workers, tries, absent, fspOn, world, history, crashes>>

\* The kill switch returns before anything is retired.  Under full self-prompting
\* every pending row is a candidate, otherwise the ones old enough; with neither
\* feature on the pass ends here.
BeginSweep ==
  /\ phase = "begin"
  /\ LET pending == {r \in Rows : status[r] = "escalated"} IN
     \/ ~killed /\ phase' = "sweep" /\ sweepFsp' = fspOn /\ UNCHANGED live
        /\ \E aged \in SUBSET pending :
             /\ fspOn => aged = pending
             /\ rowsTodo' = aged /\ eligible' = aged \ NoopRows
        /\ handled' = {} /\ panes' = [a \in Agents |-> Unread]
     \/ (killed \/ ~fspOn) /\ phase' = "idle" /\ live' = [a \in Agents |-> "gone"]
        /\ UNCHANGED <<rowsTodo, handled, eligible, panes, sweepFsp>>
  /\ UNCHANGED <<store, controls, up, pass, todo, job, workers, books, fspOn, world,
                 history, bounds>>

\* autoDismiss -> DismissEscalationWithReason, from either non-terminal status.
Dismiss(r) ==
  \/ /\ Succeeds
     /\ GuardedStatus(r, {"escalated", "auto_accepting"}, "dismissed")
     /\ IF status[r] \in {"escalated", "auto_accepting"}
          THEN tries' = [tries EXCEPT ![r] = 0] /\ absent' = [absent EXCEPT ![r] = 0]
               /\ eligible' = eligible \ {r}
          ELSE UNCHANGED <<tries, absent, eligible>>
  \/ Fails("dismiss") /\ UNCHANGED <<status, tries, absent, eligible>>

\* One candidate whose turn ends before the guard chain: another answer this
\* tick, an owned pane, a "@noop" suggestion outside full self-prompting.
SweepSkip ==
  /\ phase = "sweep" /\ wpc[Loop] = "idle" /\ rowsTodo # {}
  /\ \E r \in rowsTodo : LET a == AgentOf[r] IN
     /\ Oldest(r, rowsTodo) /\ (a \in handled \/ paneBusy(a) \/ r \in NoopRows)
     /\ rowsTodo' = rowsTodo \ {r}
  /\ UNCHANGED <<store, controls, up, phase, pass, sweepVars, todo, job, workers,
                 books, fspOn, world, history, bounds>>

\* retireNoopEscalation, after the same last look a claim takes.
SweepNoop ==
  /\ phase = "sweep" /\ wpc[Loop] = "idle" /\ rowsTodo # {}
  /\ \E r \in rowsTodo :
     /\ Oldest(r, rowsTodo) /\ r \in NoopRows /\ sweepFsp /\ AgentOf[r] \notin disabled /\ ~killed /\ fspOn
     /\ Dismiss(r) /\ rowsTodo' = rowsTodo \ {r}
  /\ UNCHANGED <<corrs, acts, retryQ, controls, up, phase, pass, handled, live, panes,
                 sweepFsp, todo, job, workers, needsFinalize, needsRevert, fspOn,
                 world, history, crashes>>

\* An agent missing from the listing is noted, and its row retired once the
\* absence is confirmed.
SweepAbsent ==
  /\ phase = "sweep" /\ wpc[Loop] = "idle" /\ rowsTodo # {}
  /\ \E r \in rowsTodo : LET a == AgentOf[r] IN
     /\ Oldest(r, rowsTodo) /\ a \notin handled /\ ~paneBusy(a) /\ r \notin NoopRows /\ live[a] = "gone"
     /\ rowsTodo' = rowsTodo \ {r}
     /\ IF absent[r] + 1 < autoAcceptAbsenceConfirmations
          THEN /\ absent' = [absent EXCEPT ![r] = @ + 1]
               /\ Succeeds /\ UNCHANGED <<status, tries, eligible>>
          ELSE Dismiss(r)
  /\ UNCHANGED <<corrs, acts, retryQ, controls, up, phase, pass, handled, live, panes,
                 sweepFsp, todo, job, workers, needsFinalize, needsRevert, fspOn,
                 world, history, crashes>>

\* A listed agent: the loop takes the row through the guard chain.  A full
\* self-prompting ceiling switches the mode off and defers what is left.
SweepTake ==
  /\ phase = "sweep" /\ wpc[Loop] = "idle" /\ rowsTodo # {}
  /\ \E r \in rowsTodo : LET a == AgentOf[r] IN
     /\ Oldest(r, rowsTodo) /\ a \notin handled /\ ~paneBusy(a) /\ r \notin NoopRows /\ live[a] # "gone"
     /\ \/ /\ rowsTodo' = rowsTodo \ {r} /\ UNCHANGED fspOn
           /\ absent' = [absent EXCEPT ![r] = 0]
           /\ wpc' = [wpc EXCEPT ![Loop] = "check"]
           /\ wrow' = [wrow EXCEPT ![Loop] = r]
        \/ /\ sweepFsp /\ live[a] = "parked"
           /\ fspOn' = FALSE /\ rowsTodo' = {} /\ UNCHANGED <<absent, workers>>
  /\ UNCHANGED <<store, controls, up, phase, pass, sweepVars, todo, job, tries,
                 needsFinalize, needsRevert, world, history, bounds>>

\* pruneAutoAcceptState, then the pass ends.
EndSweep ==
  /\ phase = "sweep" /\ wpc[Loop] = "idle" /\ rowsTodo = {}
  /\ tries' = [r \in Rows |-> IF r \in eligible THEN tries[r] ELSE 0]
  /\ absent' = [r \in Rows |-> IF r \in eligible THEN absent[r] ELSE 0]
  /\ phase' = "idle" /\ handled' = {} /\ eligible' = {}
  /\ panes' = [a \in Agents |-> Unread] /\ live' = [a \in Agents |-> "gone"]
  /\ sweepFsp' = FALSE
  /\ UNCHANGED <<store, controls, up, pass, rowsTodo, todo, job, workers,
                 needsFinalize, needsRevert, fspOn, world, history, bounds>>

-----------------------------------------------------------------------------
(* autoAcceptOne, run by the loop for the sweep and by an agent's goroutine *)
(* for full self-prompting: guards, last look, claim, deliver, finalize.    *)

Fsp(w) == w # Loop \/ sweepFsp

\* What the guards see: the sweep judges by its listing and by one pane read per
\* tick, the goroutine by a fresh listing and a fresh read.
SeenParked(w, a) == IF w = Loop THEN live[a] = "parked" ELSE a \in parked
SeenScreen(w, a) == IF w = Loop /\ panes[a] # Unread THEN panes[a] ELSE screen[a]

\* Guards 1b, 2 and 3.  Every worker may leave the row pending (a paused agent,
\* an unreadable store or pane); a question that is gone retires it.
AutoCheck(w) ==
  /\ wpc[w] = "check"
  /\ LET r == wrow[w]  a == AgentOf[r] IN
     \/ /\ WorkerDone(w)
        /\ UNCHANGED <<status, tries, absent, eligible, panes, fspOn, faults>>
     \/ \* fspAcceptNow met a [limits] ceiling
        /\ w # Loop /\ fspOn' = FALSE /\ WorkerDone(w)
        /\ UNCHANGED <<status, tries, absent, eligible, panes, faults>>
     \/ /\ a \notin disabled /\ SeenParked(w, a)
        /\ w # Loop => fspOn /\ ~killed /\ status[r] = "escalated"
        /\ panes' = IF w = Loop THEN [panes EXCEPT ![a] = SeenScreen(w, a)] ELSE panes
        /\ UNCHANGED fspOn
        /\ IF SeenScreen(w, a) = r
             THEN /\ WorkerTo(w, "lastlook")
                  /\ UNCHANGED <<status, tries, absent, eligible, faults>>
             ELSE Dismiss(r) /\ WorkerDone(w)
  /\ UNCHANGED <<corrs, acts, retryQ, controls, up, phase, pass, todo, rowsTodo,
                 handled, live, sweepFsp, job, needsFinalize, needsRevert, world,
                 history, crashes>>

\* Mutant of AutoLastLook: the kill switch is not read again before the claim.
AutoLastLookUnpaused(w) ==
  /\ wpc[w] = "lastlook"
  /\ \/ (Fsp(w) => fspOn) /\ WorkerTo(w, "claim")
     \/ WorkerDone(w)
  /\ UNCHANGED <<store, loopVars, world, history, bounds>> /\ Unit

\* claimBlockedBy: the kill switch, the mode, a human at the composer.
AutoLastLook(w) ==
  /\ wpc[w] = "lastlook"
  /\ \/ ~killed /\ (Fsp(w) => fspOn) /\ WorkerTo(w, "claim")
     \/ WorkerDone(w)
  /\ UNCHANGED <<store, loopVars, world, history, bounds>> /\ Unit

\* Mutant of AutoClaim: the row is claimed whatever its status is by now.
AutoClaimBlind(w) ==
  /\ wpc[w] = "claim"
  /\ \/ /\ Succeeds /\ SetStatus(wrow[w], "auto_accepting") /\ WorkerTo(w, "deliver")
        /\ late' = IF killed THEN [late EXCEPT ![w] = @ + 1] ELSE late
     \/ Fails("claim") /\ UNCHANGED <<status, late>> /\ WorkerDone(w)
  /\ UNCHANGED <<corrs, acts, retryQ, loopVars, world, typedAuto, typedReply, learned,
                 armed, moved, missed, crashes>>
  /\ Unit

\* ClaimForAutoAccept: only the winner goes on to deliver.
AutoClaim(w) ==
  /\ wpc[w] = "claim"
  /\ LET r == wrow[w] IN
     \/ /\ Succeeds /\ GuardedStatus(r, {"escalated"}, "auto_accepting")
        /\ IF status[r] = "escalated"
             THEN /\ WorkerTo(w, "deliver")
                  /\ late' = IF killed THEN [late EXCEPT ![w] = @ + 1] ELSE late
             ELSE WorkerDone(w) /\ UNCHANGED late
     \/ Fails("claim") /\ UNCHANGED <<status, late>> /\ WorkerDone(w)
  /\ UNCHANGED <<corrs, acts, retryQ, loopVars, world, typedAuto, typedReply, learned,
                 armed, moved, missed, crashes>>
  /\ Unit

\* autoAcceptDeliver in the automation barrier, and autoAcceptDeliveryFailed:
\* a refusal, a replaced dialog or a disabled agent reverts without an attempt; a
\* fault burns one and gives up at the ceiling.
AutoDeliver(w) ==
  /\ wpc[w] = "deliver"
  /\ LET r == wrow[w]  a == AgentOf[r] IN
     \/ /\ a \notin disabled /\ (r \in MenuRows => screen[a] = r)
        /\ typedAuto' = [typedAuto EXCEPT ![r] = @ + 1]
        /\ PaneTakes(a) /\ WorkerTo(w, "finalize") /\ UNCHANGED tries
     \/ WorkerTo(w, "revert") /\ UNCHANGED <<typedAuto, world, tries>>
     \/ /\ a \notin disabled /\ UNCHANGED <<typedAuto, world>>
        /\ IF tries[r] + 1 >= maxAutoAcceptAttempts
             THEN tries' = [tries EXCEPT ![r] = 0] /\ WorkerTo(w, "giveup")
             ELSE tries' = [tries EXCEPT ![r] = @ + 1] /\ WorkerTo(w, "revert")
  /\ UNCHANGED <<store, controls, up, loopVars, absent, needsFinalize, needsRevert,
                 fspOn, typedReply, learned, armed, moved, late, missed, bounds>>

\* Mutant of AutoFinalize: an answer that could not be recorded goes back in the queue.
AutoFinalizeReverts(w) ==
  /\ wpc[w] = "finalize"
  /\ LET r == wrow[w] IN
     /\ \/ /\ Succeeds /\ GuardedStatus(r, {"auto_accepting"}, "auto_accepted")
           /\ UNCHANGED needsRevert
        \/ /\ Fails("finalize") /\ UNCHANGED status
           /\ needsRevert' = needsRevert \cup {r}
     /\ tries' = [tries EXCEPT ![r] = 0]
     /\ handled' = IF w = Loop THEN handled \cup {AgentOf[r]} ELSE handled
  /\ WorkerDone(w)
  /\ UNCHANGED <<corrs, acts, retryQ, controls, up, phase, pass, todo, rowsTodo,
                 eligible, live, panes, sweepFsp, job, absent, needsFinalize, fspOn,
                 world, history, crashes>>

\* MarkAutoAccepted; a failure is remembered and retried by every later sweep.
AutoFinalize(w) ==
  /\ wpc[w] = "finalize"
  /\ LET r == wrow[w] IN
     /\ \/ /\ Succeeds /\ GuardedStatus(r, {"auto_accepting"}, "auto_accepted")
           /\ UNCHANGED needsFinalize
        \/ /\ Fails("finalize") /\ UNCHANGED status
           /\ needsFinalize' = needsFinalize \cup {r}
     /\ tries' = [tries EXCEPT ![r] = 0]
     /\ handled' = IF w = Loop THEN handled \cup {AgentOf[r]} ELSE handled
  /\ WorkerDone(w)
  /\ UNCHANGED <<corrs, acts, retryQ, controls, up, phase, pass, todo, rowsTodo,
                 eligible, live, panes, sweepFsp, job, absent, needsRevert, fspOn,
                 world, history, crashes>>

\* Mutant of AutoRevert: a failed revert leaves no obligation.
AutoRevertForgets(w) ==
  /\ wpc[w] = "revert"
  /\ LET r == wrow[w] IN
     \/ /\ Succeeds /\ GuardedStatus(r, {"auto_accepting"}, "escalated")
        /\ needsRevert' = needsRevert \ {r}
     \/ Fails("revert") /\ UNCHANGED <<status, needsRevert>>
  /\ WorkerDone(w)
  /\ UNCHANGED <<corrs, acts, retryQ, controls, up, loopVars, tries, absent,
                 needsFinalize, fspOn, world, history, crashes>>

\* revertClaim: back to the queue, with a retry obligation when the write fails.
AutoRevert(w) ==
  /\ wpc[w] = "revert"
  /\ LET r == wrow[w] IN
     \/ /\ Succeeds /\ GuardedStatus(r, {"auto_accepting"}, "escalated")
        /\ needsRevert' = needsRevert \ {r}
     \/ Fails("revert") /\ UNCHANGED status /\ needsRevert' = needsRevert \cup {r}
  /\ WorkerDone(w)
  /\ UNCHANGED <<corrs, acts, retryQ, controls, up, loopVars, tries, absent,
                 needsFinalize, fspOn, world, history, crashes>>

\* The attempt budget is spent: autoDismiss on the row still claimed.
AutoGiveUp(w) ==
  /\ wpc[w] = "giveup" /\ Dismiss(wrow[w]) /\ WorkerDone(w)
  /\ UNCHANGED <<corrs, acts, retryQ, controls, up, phase, pass, todo, rowsTodo,
                 handled, live, panes, sweepFsp, job, needsFinalize, needsRevert,
                 fspOn, world, history, crashes>>

-----------------------------------------------------------------------------
Environment ==
  \/ \E r \in Rows : Ask(r) \/ DismissEscalation(r) \/ RetryLLM(r)
  \/ \E a \in Agents : AgentMoves(a) \/ SetAgentEnabled(a)
  \/ \E c \in Replies, r \in Rows : ConfirmAndSend(c, r) \/ ConfirmOnly(c, r)
  \/ \E c \in Replies : ActionAges(c)
  \/ PruneEscalations \/ PauseOrResume \/ SetFullSelfPrompting
  \/ Crash

QueueStep ==
  \/ ActClaim \/ ActScreen \/ ActMark \/ ActType \/ ActSent \/ ActFinish
  \/ ApplyCorrection \/ MarkCorrectionProcessed \/ ApplyLLMRetry
  \/ ActionsDrained \/ CorrectionsDrained \/ RetriesDrained

RecoveryStep == Start \/ ReclaimAbandonedAutoAccepts \/ ReclaimRunningAgentActions

SweepStep ==
  \/ ListAgents \/ SettleObligations \/ BeginSweep
  \/ SweepSkip \/ SweepNoop \/ SweepAbsent \/ SweepTake \/ EndSweep

AutoStep(w) ==
  \/ AutoCheck(w) \/ AutoLastLook(w) \/ AutoClaim(w) \/ AutoDeliver(w)
  \/ AutoFinalize(w) \/ AutoRevert(w) \/ AutoGiveUp(w)

Next ==
  \/ Environment
  \/ \E r \in Rows : Raise(r)
  \/ BeginPass("nudge") \/ BeginPass("tick")
  \/ QueueStep \/ RecoveryStep \/ SweepStep
  \/ \E w \in Workers : AutoStep(w)

Spec == Init /\ [][Next]_vars

\* The Go scheduler runs every goroutine, and select picks among ready cases at
\* random, so a due ticker and a lost-nudge sweep are eventually served; a listing
\* that keeps being tried eventually succeeds.  Front ends, agents and crashes are
\* under no obligation.
Fairness ==
  /\ SF_vars(BeginPass("tick"))
  /\ WF_vars(QueueStep) /\ WF_vars(RecoveryStep) /\ WF_vars(SweepStep)
  /\ SF_vars(ListAgents /\ phase' = "settle")
  /\ \A w \in Workers : WF_vars(AutoStep(w))

FairSpec == Spec /\ Fairness

-----------------------------------------------------------------------------
StoreTypeOK ==
  /\ status \in [Rows -> Statuses]
  /\ corrSt \in [Replies -> CorrStates]
  /\ corrRow \in [Replies -> Rows \cup {0}]
  /\ corrSent \subseteq Replies
  /\ actSt \in [Replies -> ActStates]
  /\ actTries \in [Replies -> Nat]
  /\ actMark \subseteq Replies
  /\ actOld \subseteq Replies
  /\ retryQ \subseteq Rows
  /\ killed \in BOOLEAN /\ disabled \subseteq Agents

LoopTypeOK ==
  /\ up \in BOOLEAN /\ phase \in Phases /\ pass \in Passes
  /\ todo \subseteq Replies /\ rowsTodo \subseteq Rows
  /\ handled \subseteq Agents /\ eligible \subseteq Rows
  /\ live \in [Agents -> {"gone", "working", "parked"}]
  /\ panes \in [Agents -> Rows \cup {0, Unread}]
  /\ sweepFsp \in BOOLEAN /\ job \in Replies \cup {0}

WorkerTypeOK ==
  /\ wpc \in [Workers -> {"idle"} \cup AutoPcs \cup ReplyPcs]
  /\ wrow \in [Workers -> Rows \cup {0}]
  /\ tries \in [Rows -> Nat] /\ absent \in [Rows -> Nat]
  /\ needsFinalize \subseteq Rows /\ needsRevert \subseteq Rows
  /\ fspOn \in BOOLEAN

WorldTypeOK ==
  /\ screen \in [Agents -> Rows \cup {0}] /\ parked \subseteq Agents
  /\ typedAuto \in [Rows -> Nat] /\ typedReply \in [Replies -> Nat]
  /\ learned \in [Replies -> Nat]
  /\ armed \subseteq Replies /\ moved \subseteq Replies
  /\ late \in [Workers -> Nat] /\ missed \in [Agents -> Nat]
  /\ faults \in Nat /\ crashes \in Nat

\* Every variable has the type its comment gives: the database rows, the loop's and
\* the workers' memory, the panes and the histories.
TypeOK == StoreTypeOK /\ LoopTypeOK /\ WorkerTypeOK /\ WorldTypeOK

\* A queued reply is typed at most once, whatever crashes, failed store writes and
\* retries fall between its claim and its outcome (the side-effect mark and the
\* startup reclaim that refuses to replay a marked action).
ReplyTypedOnce == \A c \in Replies : typedReply[c] <= 1

\* A reply withdrawn with its action (refused text, closed row, replaced terminal)
\* was never typed and is never learned from.
WithdrawnLeavesNoTrace ==
  \A c \in Replies : corrSt[c] = "withdrawn" => typedReply[c] = 0 /\ learned[c] = 0

\* A correction is consumed only after its delivery settled, so the unblock check
\* of a delivered reply is always armed: the sent flag never lands on a correction
\* that was already processed.
DeliveredReplyIsChecked ==
  \A c \in Replies : corrSt[c] = "processed" /\ c \in corrSent => c \in armed

\* While the daemon runs, a row in the hidden "auto_accepting" status is in the
\* hands of a worker or owed a finalize or a revert: no claim is stranded where
\* neither the operator's queue nor the candidate query can see it.
NoStrandedClaim ==
  up /\ pass # "start" =>
    \A r \in Rows : status[r] = "auto_accepting" =>
      \/ r \in needsFinalize \cup needsRevert
      \/ \E w \in Workers : wrow[w] = r /\ wpc[w] \in {"deliver", "finalize", "revert", "giveup"}

\* A closed escalation never reopens: a late revert, reclaim, sweep or retry moves
\* a row only from the status it expects, so what another actor closed meanwhile
\* stays closed (a late correction may still mark it resolved).
ClosedStaysClosed ==
  [][\A r \in Rows : status[r] \in {"auto_accepted", "resolved", "dismissed", "retried"} =>
       status'[r] \in {status[r], "resolved"}]_vars

\* Two automatic deliveries never drive one pane: while an agent's goroutine runs,
\* the sweep is not inside the guard chain for a row of that agent.
OneAutomaticWriterPerPane ==
  \A a \in Agents : wpc[a] # "idle" /\ wrow[Loop] # 0 => AgentOf[wrow[Loop]] # a

\* The automatic path answers a row at most once per daemon lifetime: only a crash
\* before the finalize can put an answered row back in the queue.
AutoAnswersOncePerLife == \A r \in Rows : typedAuto[r] <= crashes + 1

\* Pausing the herd stops the automatic path: each worker finishes at most the one
\* claim it had already cleared when the pause landed.
PauseStopsClaims == \A w \in Workers : late[w] <= 1

\* Every claim is released: "auto_accepting" is transient.
ClaimsAreReleased ==
  \A r \in Rows : status[r] = "auto_accepting" ~> status[r] # "auto_accepting"

\* Every queued delivery reaches an outcome.
QueuedRepliesEnd ==
  \A c \in Replies : actSt[c] = "pending" ~> actSt[c] \in {"done", "failed"}

\* Every correction is consumed or withdrawn.
CorrectionsAreConsumed ==
  \A c \in Replies : corrSt[c] = "unprocessed" ~> corrSt[c] # "unprocessed"

\* What the automatic path promises of a row (autoAcceptPass, fullSelfPromptDeliver): it is
\* never lost in the hidden status, driven by one writer at a time, answered once, and
\* left alone from the pause on.
AutomaticAnswersAreSound ==
  NoStrandedClaim /\ OneAutomaticWriterPerPane /\ AutoAnswersOncePerLife /\ PauseStopsClaims

\* Work that was taken on ends: claims, queued deliveries and corrections, after whatever
\* lost nudge, failed write or restart.
QueuedWorkEnds == ClaimsAreReleased /\ QueuedRepliesEnd /\ CorrectionsAreConsumed

-----------------------------------------------------------------------------
(* The promise made of an operator's answer, as a specification of its own: *)
(* how far an answer is follows from its correction, from the status of its *)
(* action and from the side-effect mark.                                    *)
FateOf(c) ==
  CASE corrSt[c] = "absent" -> "new"
    [] corrSt[c] = "withdrawn" -> "withdrawn"
    [] corrSt[c] = "processed" -> "consumed"
    [] corrSt[c] = "unprocessed" /\ actSt[c] \notin {"pending", "running"} -> "settled"
    [] OTHER -> IF c \in actMark THEN "committed" ELSE "queued"

Contract == INSTANCE ReplyContract WITH
  fate <- [c \in Replies |-> FateOf(c)],
  typed <- typedReply,
  learnt <- {c \in Replies : learned[c] # 0}

\* An operator's answer keeps its contract: queued, it may be withdrawn without a trace;
\* past the side-effect mark it is never queued again and typed at most once; it is
\* learned from only when its delivery is settled, and consumed only after that.
AnswersKeepContract == Contract!Spec

-----------------------------------------------------------------------------
(* What comments in the code promise and the code does not do.              *)

\* autoaccept.go: "an operator confirming this same escalation right now cannot
\* produce a double send: exactly one writer wins, and only the winner delivers".
NoDoubleSend ==
  \A r \in Rows, c \in Replies :
    corrRow[c] = r => typedAuto[r] + typedReply[c] <= 1

\* deliverreply.go: delivering to a dismissed row "would flip the dismissed row back
\* to resolved, erasing their decision"; a reply that was never typed must not.
DismissalStands ==
  [][\A c \in Replies :
       /\ learned'[c] # learned[c] /\ actSt[c] = "failed" /\ typedReply[c] = 0
       /\ status[corrRow[c]] = "dismissed"
       => status'[corrRow[c]] = "dismissed"]_vars

\* deliverreply.go: when the Claude dialog was replaced before the operator's answer
\* was typed, "nothing was pressed; the escalation stays open".
MovedDialogStaysOpen ==
  [][\A c \in moved : learned'[c] # learned[c] =>
       status'[corrRow[c]] = status[corrRow[c]]]_vars

\* autoaccept.go: an agent must be missing from two CONSECUTIVE sweeps before its
\* escalations are retired.
AbsenceIsConsecutive ==
  [][\A r \in Rows :
       SweepAbsent /\ status[r] # "dismissed" /\ status'[r] = "dismissed" =>
         missed[AgentOf[r]] >= autoAcceptAbsenceConfirmations]_vars

\* autoaccept.go: "while the kill switch is active this pass retires nothing for any
\* reason".
PausedRetiresNothing ==
  [][killed /\ phase = "sweep" /\ (SweepAbsent \/ SweepNoop \/ AutoCheck(Loop)) =>
       \A r \in Rows : status'[r] = "dismissed" => status[r] = "dismissed"]_vars
=============================================================================
