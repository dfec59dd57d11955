---------------------------- MODULE AgentRequests ----------------------------
(* What an operator, also one at another machine, asks a node's daemon to do  *)
(* about one of its agents: the agent_actions queue (daemon/agentactions.go,  *)
(* store/agentactions.go, frontend/remoteagent.go) and the agent_names row    *)
(* the requests change: an operator's disable, and the wait an agent declared *)
(* (daemon/agentnames.go, store.go).                                          *)
(*                                                                            *)
(* A pane's tenants are told apart by their terminal ids: the daemon learns   *)
(* of a new one at its next listing, a request carries the one its author saw.*)
EXTENDS Integers, FiniteSets

CONSTANTS ReqPanes, Requests, MaxMoves, MaxAttempts, MaxReclaims, MaxFaults

ASSUME RequestsAssumption ==
  /\ ReqPanes # {} /\ {MaxMoves, MaxReclaims, MaxFaults} \subseteq Nat /\ MaxAttempts \in Nat \ {0}

VARIABLES
  tenant,   \* herdr's truth: a terminal per pane, 0 for none
  moves,    \* terminals given out so far
  listed,    \* panes of the roster, as last published
  names,    \* agent_names: [term, disabled, wait], wait is the terminal a wait was asked for
  handler,     \* the main loop: LoopIdle, a sweep with its listing, or an action
  queue,    \* agent_actions
  typing,   \* a pane's automation lock: "none", "locked" or "typing"
  reclaims, faults

requestVars == <<tenant, moves, listed, names, handler, queue, typing, reclaims, faults>>

LoopIdle == [do |-> "none"]
NoRequest == [st |-> "none", kind |-> "wait", pane |-> CHOOSE p \in ReqPanes : TRUE, want |-> 0, tries |-> 0]

InitRequests ==
  /\ tenant = [p \in ReqPanes |-> 0] /\ moves = 0 /\ listed = {}
  /\ names = [p \in ReqPanes |-> [term |-> 0, disabled |-> FALSE, wait |-> 0]]
  /\ handler = LoopIdle /\ queue = [r \in Requests |-> NoRequest]
  /\ typing = [p \in ReqPanes |-> "none"] /\ reclaims = 0 /\ faults = 0

\* herdr gives the pane to a new terminal, or takes it away.
TenantChanges(p) ==
  /\ \/ moves < MaxMoves /\ moves' = moves + 1 /\ tenant' = [tenant EXCEPT ![p] = moves + 1]
     \/ tenant[p] # 0 /\ tenant' = [tenant EXCEPT ![p] = 0] /\ UNCHANGED moves
  /\ UNCHANGED <<listed, names, handler, queue, typing, reclaims, faults>>

-----------------------------------------------------------------------------
(* The sweep *)

SweepListsAgents ==
  /\ handler = LoopIdle /\ handler' = [do |-> "sweep", listing |-> tenant]
  /\ UNCHANGED <<tenant, moves, listed, names, queue, typing, reclaims, faults>>

\* Mutant: a new tenant keeps the wait of the last one.
SyncAgentTerminalIDKeepsWait(n, term) == [n EXCEPT !.term = IF term = 0 THEN @ ELSE term]

\* Another terminal: the operator's name and disable stay with the pane, the
\* declared wait was the last tenant's own.
SyncAgentTerminalID(n, term) ==
  IF term = 0 \/ n.term = term THEN n
  ELSE IF n.term = 0 THEN [n EXCEPT !.term = term]
  ELSE [n EXCEPT !.term = term, !.wait = 0]

\* The roster pass and syncTerminalIDs, from one listing.
SweepSyncs ==
  /\ handler.do = "sweep" /\ handler' = LoopIdle
  /\ listed' = {p \in ReqPanes : handler.listing[p] # 0}
  /\ names' = [p \in ReqPanes |-> SyncAgentTerminalID(names[p], handler.listing[p])]
  /\ UNCHANGED <<tenant, moves, queue, typing, reclaims, faults>>

-----------------------------------------------------------------------------
(* A request *)

\* Queued with the terminal the store names at this moment (remoteTerminalID).
RunRemoteAction(r, p, kind) ==
  /\ queue[r].st = "none" /\ p \in listed
  /\ queue' = [queue EXCEPT ![r] = [st |-> "pending", kind |-> kind, pane |-> p,
                                    want |-> names[p].term, tries |-> 0]]
  /\ UNCHANGED <<tenant, moves, listed, names, handler, typing, reclaims, faults>>

ClaimAgentAction(r) ==
  /\ handler = LoopIdle /\ queue[r].st = "pending"
  /\ handler' = [do |-> "action", r |-> r]
  /\ queue' = [queue EXCEPT ![r].st = "running", ![r].tries = @ + 1]
  /\ UNCHANGED <<tenant, moves, listed, names, typing, reclaims, faults>>

Executing(r) == handler = [do |-> "action", r |-> r] /\ queue[r].st = "running"

FinishAgentAction(r, st) == queue' = [queue EXCEPT ![r].st = st] /\ handler' = LoopIdle

\* Mutant: the terminal asked for is not compared with the row's.
AgentStillTheSameTrusts(r) == TRUE

AgentStillTheSame(r) ==
  LET q == queue[r] IN q.want = 0 \/ names[q.pane].term \in {0, q.want}

\* resolveActionTarget and agentStillTheSame: refused once and for all.
Refused(r) == queue[r].pane \notin listed \/ ~AgentStillTheSame(r)

\* Refused, or too old to be trusted any more (agentActionStaleBound).
ActionFails(r) ==
  /\ Executing(r)
  /\ Refused(r) \/ faults < MaxFaults
  /\ faults' = IF Refused(r) THEN faults ELSE faults + 1
  /\ FinishAgentAction(r, "failed")
  /\ UNCHANGED <<tenant, moves, listed, names, typing, reclaims>>

\* Mutant: the disable is written without the pane's automation lock.
LockFreeAlways(p) == TRUE

\* lockAgentAutomation, for a writer that waits at most agentLockBudget.
LockFree(p) == typing[p] = "none"

\* declareWaitAction (and a rename or a snooze): written as it is.
DeclareWaitAction(r) ==
  LET q == queue[r] IN
  /\ Executing(r) /\ ~Refused(r) /\ q.kind = "wait"
  /\ names' = [names EXCEPT ![q.pane].wait = q.want]
  /\ FinishAgentAction(r, "done")
  /\ UNCHANGED <<tenant, moves, listed, typing, reclaims, faults>>

\* setAgentEnabledAction: the disable is written under the automation lock.
SetAgentEnabledAction(r) ==
  LET q == queue[r] IN
  /\ Executing(r) /\ ~Refused(r) /\ q.kind = "disable" /\ LockFree(q.pane)
  /\ names' = [names EXCEPT ![q.pane].disabled = ~@]
  /\ FinishAgentAction(r, "done")
  /\ UNCHANGED <<tenant, moves, listed, typing, reclaims, faults>>

\* Mutant: a transient failure is left claimed.
ReleaseAgentActionForgets(r) == queue

ReleaseAgentAction(r) == [queue EXCEPT ![r].st = "pending"]

\* A fault of the machinery (the roster is not fresh, the lock is held for the
\* whole budget): tried again, up to MaxAttempts claims.
ActionTransient(r) ==
  LET q == queue[r]
      held == q.kind = "disable" /\ ~LockFree(q.pane) IN
  /\ Executing(r) /\ ~Refused(r)
  /\ held \/ faults < MaxFaults
  /\ faults' = IF held THEN faults ELSE faults + 1
  /\ queue' = IF q.tries >= MaxAttempts THEN [queue EXCEPT ![r].st = "failed"] ELSE ReleaseAgentAction(r)
  /\ handler' = LoopIdle
  /\ UNCHANGED <<tenant, moves, listed, names, typing, reclaims>>

\* AwaitAgentAction has read its answer.
AwaitAgentAction(r) ==
  /\ queue[r].st \in {"done", "failed"} /\ queue' = [queue EXCEPT ![r] = NoRequest]
  /\ UNCHANGED <<tenant, moves, listed, names, handler, typing, reclaims, faults>>

\* A crash, and ReclaimRunningAgentActions of the next daemon: none of these
\* kinds types, so a claim left behind is queued again.
ReclaimRunningAgentActions ==
  /\ reclaims < MaxReclaims /\ reclaims' = reclaims + 1
  /\ handler' = LoopIdle /\ typing' = [p \in ReqPanes |-> "none"]
  /\ queue' = [r \in Requests |-> IF queue[r].st = "running" THEN ReleaseAgentAction(r)[r] ELSE queue[r]]
  /\ UNCHANGED <<tenant, moves, listed, names, faults>>

-----------------------------------------------------------------------------
(* WithAgentAutomation: the lock, the check, then the keystrokes *)

LockAgentAutomation(p) ==
  /\ typing[p] = "none" /\ tenant[p] # 0 /\ typing' = [typing EXCEPT ![p] = "locked"]
  /\ UNCHANGED <<tenant, moves, listed, names, handler, queue, reclaims, faults>>

WithAgentAutomation(p) ==
  /\ typing[p] = "locked"
  /\ typing' = [typing EXCEPT ![p] = IF names[p].disabled THEN "none" ELSE "typing"]
  /\ UNCHANGED <<tenant, moves, listed, names, handler, queue, reclaims, faults>>

AutomationEnds(p) ==
  /\ typing[p] = "typing" /\ typing' = [typing EXCEPT ![p] = "none"]
  /\ UNCHANGED <<tenant, moves, listed, names, handler, queue, reclaims, faults>>

-----------------------------------------------------------------------------
ActionStep(r) == ActionFails(r) \/ DeclareWaitAction(r) \/ SetAgentEnabledAction(r) \/ ActionTransient(r)

Automation(p) == LockAgentAutomation(p) \/ WithAgentAutomation(p) \/ AutomationEnds(p)

Asks(r) == \E p \in ReqPanes, kind \in {"wait", "disable"} : RunRemoteAction(r, p, kind)

NextRequests ==
  \/ \E p \in ReqPanes : TenantChanges(p) \/ Automation(p)
  \/ SweepListsAgents \/ SweepSyncs \/ ReclaimRunningAgentActions
  \/ \E r \in Requests : Asks(r) \/ ClaimAgentAction(r) \/ ActionStep(r) \/ AwaitAgentAction(r)

SpecRequests == InitRequests /\ [][NextRequests]_requestVars

\* processAgentActions drains the queue on every nudge and sweep, so a pending
\* row is claimed in the end however often the loop does something else.
FairRequests ==
  /\ WF_requestVars(SweepSyncs)
  /\ \A r \in Requests : SF_requestVars(ClaimAgentAction(r)) /\ WF_requestVars(ActionStep(r))

FairSpecRequests == SpecRequests /\ FairRequests

-----------------------------------------------------------------------------
\* A declared wait is in force only for the tenant the daemon knows on the pane:
\* a request made for an earlier one is refused, and a change of tenants ends
\* the wait.
WaitIsTheTenants == \A p \in ReqPanes : names[p].wait # 0 => names[p].wait = names[p].term

\* Once an operator's disable is written nothing is being typed into the pane,
\* and nothing starts to be.
DisabledIsStill == \A p \in ReqPanes : names[p].disabled => typing[p] # "typing"

\* A request queued for the daemon is answered, whatever is retried or crashes.
RequestsAreAnswered ==
  \A r \in Requests : (queue[r].st \in {"pending", "running"}) ~> (queue[r].st \in {"done", "failed", "none"})

\* What the operator's requests about an agent promise (processAgentActions): they are
\* answered, a wait is its tenant's, and a disabled pane is still.
RequestsAreCarriedOut == [](WaitIsTheTenants /\ DisabledIsStill) /\ RequestsAreAnswered
=============================================================================
