---------------------------- MODULE PanesProofs ----------------------------
(***************************************************************************)
(* Theorems about what stands between the daemon and the panes of the herd:*)
(* the requests for a pane, the roster, session names, messages, the keys  *)
(* of a dialog, the TUI sessions that watch a shared capture, the stream   *)
(* that announces escalations, the orchestrator's session, and last the    *)
(* supervision of the daemon.                                              *)
(* Each is for any panes, tenants, sends and commands and any bound on     *)
(* what the outside does.                                                  *)
(***************************************************************************)
EXTENDS AgentRequests, AgentRoster, DialogKeys, Orchestrator, PaneSend, SessionNames, StreamAnnounce,
        TuiSessions, Supervision, FiniteSetTheorems, SequenceTheorems, TLAPS

-----------------------------------------------------------------------------
(* Escalations on the orchestrator's stream *)

\* The inductive invariant: a row announced since it became pending has its mark, and a
\* walk that is under way saw every such row behind its cursor, so the marks kept at its
\* end are enough; what a pass reports it has looked at and left.
AnnounceInv ==
  /\ rows \in [StreamRows -> {"none", "escalated", "auto_accepting", "closed"}]
  /\ raised \in [StreamRows -> Nat]
  /\ walk.after \in Nat
  /\ walk.report \subseteq everLeft
  /\ \A r \in StreamRows : rows[r] = "none" => raised[r] = 0
  /\ \A r \in Awaiting : raised[r] = 0 \/ (raised[r] = 1 /\ r \in seenMarks)
  /\ walk.on => \A r \in Awaiting : r <= walk.after /\ raised[r] > 0 => r \in walk.saw
  /\ LeftBeforeAnnounced

LEMMA AnnounceInvInit == InitAnnounce => AnnounceInv
BY StreamAssumption DEF InitAnnounce, AnnounceInv, NoWalk, Awaiting, LeftBeforeAnnounced

LEMMA AnnounceInvStep == AnnounceInv /\ [NextAnnounce]_announceVars => AnnounceInv'
<1> SUFFICES ASSUME AnnounceInv, [NextAnnounce]_announceVars PROVE AnnounceInv'
  OBVIOUS
<1> USE StreamAssumption
<1>1. ASSUME NEW r \in StreamRows, Escalate(r) PROVE AnnounceInv'
  <2>1. /\ raised[r] = 0 /\ rows' = [rows EXCEPT ![r] = "escalated"]
        /\ UNCHANGED << seenMarks, everLeft, raised, walk >>
    BY <1>1 DEF Escalate, AnnounceInv
  <2>2. \A q \in StreamRows : rows'[q] = IF q = r THEN "escalated" ELSE rows[q]
    BY <2>1 DEF AnnounceInv
  <2>3. \A q \in Awaiting' : q \in StreamRows /\ (q = r \/ q \in Awaiting)
    BY <2>2 DEF Awaiting
  <2>4. /\ \A q \in StreamRows : rows'[q] = "none" => raised'[q] = 0
        /\ \A q \in Awaiting' : raised'[q] = 0 \/ (raised'[q] = 1 /\ q \in seenMarks')
        /\ walk'.on => \A q \in Awaiting' : q <= walk'.after /\ raised'[q] > 0 => q \in walk'.saw
    BY <2>1, <2>2, <2>3 DEF AnnounceInv
  <2>5. rows' \in [StreamRows -> {"none", "escalated", "auto_accepting", "closed"}]
    BY <2>1 DEF AnnounceInv
  <2> QED BY <2>1, <2>4, <2>5 DEF AnnounceInv, LeftBeforeAnnounced
<1>2. ASSUME NEW r \in StreamRows, CloseRow(r) PROVE AnnounceInv'
  BY <1>2 DEF CloseRow, AnnounceInv, Awaiting, LeftBeforeAnnounced
<1>3. ASSUME NEW r \in StreamRows, ReopenRow(r) PROVE AnnounceInv'
  BY <1>3 DEF ReopenRow, AnnounceInv, Awaiting, LeftBeforeAnnounced
<1>4. ASSUME NEW r \in StreamRows, AutoAcceptEnds(r) PROVE AnnounceInv'
  BY <1>4 DEF AutoAcceptEnds, AnnounceInv, Awaiting, LeftBeforeAnnounced
<1>5. ASSUME NEW r \in StreamRows, WalkRow(r) PROVE AnnounceInv'
  <2>1. /\ walk.on /\ r \in Awaiting /\ r > walk.after /\ \A q \in Awaiting : q > walk.after => q >= r
        /\ walk' = [walk EXCEPT !.after = r, !.saw = @ \cup {r}]
        /\ UNCHANGED << rows, everLeft >>
    BY <1>5 DEF WalkRow, NextRow, Walked
  <2>2. CASE ~Announces(r)
    BY <1>5, <2>1, <2>2 DEF WalkRow, AnnounceInv, Awaiting, LeftBeforeAnnounced
  <2>3. CASE Announces(r)
    BY <1>5, <2>1, <2>3 DEF WalkRow, AnnounceInv, Awaiting, LeftBeforeAnnounced, AnnounceEscalation, Announces,
       LeftForAHuman, Seen
  <2> QED BY <2>2, <2>3
<1>6. ASSUME NEW r \in StreamRows, AppendFails(r) PROVE AnnounceInv'
  BY <1>6 DEF AppendFails, NextRow, Walked, AnnounceInv, Awaiting, LeftBeforeAnnounced
<1>7. CASE AutoAcceptPass
  BY <1>7 DEF AutoAcceptPass, AnnounceInv, Awaiting, Takeable, LeftBeforeAnnounced
<1>8. CASE WalkEnds
  BY <1>8 DEF WalkEnds, NoWalk, KeptMarks, AnnounceInv, Awaiting, LeftBeforeAnnounced
<1>9. CASE WalkFails \/ StreamDayPasses \/ DaemonStops \/ UNCHANGED announceVars
  BY <1>9 DEF WalkFails, StreamDayPasses, DaemonStops, announceVars, NoWalk, AnnounceInv, Awaiting, LeftBeforeAnnounced
<1> QED BY <1>1, <1>2, <1>3, <1>4, <1>5, <1>6, <1>7, <1>8, <1>9 DEF NextAnnounce

\* stream.go: an escalation is announced once while it stays pending, and one that
\* auto-accept can take only after a pass has looked at it and left it, for any number of
\* rows, walks, failed reads and appends, withdrawn answers and restarts.
THEOREM AnnouncedOnceInTurn == SpecAnnounce => [](AnnouncedOnce /\ LeftBeforeAnnounced)
<1>1. AnnounceInv => AnnouncedOnce /\ LeftBeforeAnnounced
  BY DEF AnnounceInv, AnnouncedOnce, LeftBeforeAnnounced, Awaiting
<1> QED BY <1>1, AnnounceInvInit, AnnounceInvStep, PTL DEF SpecAnnounce
-----------------------------------------------------------------------------
(* Requests about an agent *)

NameRow == [term : Nat, disabled : BOOLEAN, wait : Nat]
RequestRow == [st : {"none", "pending", "running", "done", "failed"}, kind : {"wait", "disable"}, pane : ReqPanes, want : Nat, tries : Nat]

\* The inductive invariant: a request that names a terminal was queued for a pane whose
\* row has one, and a row that has a terminal keeps one.
RequestsInv ==
  /\ names \in [ReqPanes -> NameRow]
  /\ tenant \in [ReqPanes -> Nat] /\ moves \in Nat
  /\ handler.do = "sweep" => handler.listing \in [ReqPanes -> Nat]
  /\ queue \in [Requests -> RequestRow]
  /\ typing \in [ReqPanes -> {"none", "locked", "typing"}]
  /\ \A r \in Requests : queue[r].st \in {"pending", "running"} /\ queue[r].want # 0 => names[queue[r].pane].term # 0
  /\ WaitIsTheTenants
  /\ DisabledIsStill

LEMMA RequestsInvInit == InitRequests => RequestsInv
<1> SUFFICES ASSUME InitRequests PROVE RequestsInv
  OBVIOUS
<1>1. names \in [ReqPanes -> NameRow] /\ tenant \in [ReqPanes -> Nat] /\ moves \in Nat /\ typing \in [ReqPanes -> {"none", "locked", "typing"}]
  BY DEF InitRequests, NameRow
<1>2. NoRequest \in RequestRow /\ NoRequest.st = "none"
  BY RequestsAssumption DEF NoRequest, RequestRow
<1>3. queue \in [Requests -> RequestRow] /\ \A r \in Requests : queue[r].st = "none"
  BY <1>2 DEF InitRequests
<1>4. handler.do # "sweep" /\ WaitIsTheTenants /\ DisabledIsStill
  BY DEF InitRequests, LoopIdle, WaitIsTheTenants, DisabledIsStill
<1> QED BY <1>1, <1>3, <1>4 DEF RequestsInv

LEMMA SyncIsSound ==
  ASSUME NEW n \in NameRow, NEW t \in Nat, n.wait # 0 => n.wait = n.term
  PROVE  /\ SyncAgentTerminalID(n, t) \in NameRow
         /\ SyncAgentTerminalID(n, t).disabled = n.disabled
         /\ n.term # 0 => SyncAgentTerminalID(n, t).term # 0
         /\ SyncAgentTerminalID(n, t).wait # 0 => SyncAgentTerminalID(n, t).wait = SyncAgentTerminalID(n, t).term
<1>1. CASE t = 0 \/ n.term = t
  BY <1>1 DEF SyncAgentTerminalID
<1>2. CASE t # 0 /\ n.term # t /\ n.term = 0
  BY <1>2 DEF SyncAgentTerminalID, NameRow
<1>3. CASE t # 0 /\ n.term # t /\ n.term # 0
  BY <1>3 DEF SyncAgentTerminalID, NameRow
<1> QED BY <1>1, <1>2, <1>3

\* A step that leaves the names alone and only ends, starts or answers requests.
LEMMA QueueStep ==
  ASSUME RequestsInv, UNCHANGED <<tenant, moves, names, typing>>,
         handler'.do # "sweep" \/ handler' = handler,
         queue' \in [Requests -> RequestRow],
         \A r \in Requests : queue'[r].st \in {"pending", "running"} =>
           \/ queue'[r].want = 0 \/ names[queue'[r].pane].term # 0
           \/ queue[r].st \in {"pending", "running"} /\ queue'[r].want = queue[r].want /\ queue'[r].pane = queue[r].pane
  PROVE  RequestsInv'
BY DEF RequestsInv, WaitIsTheTenants, DisabledIsStill

LEMMA RequestsInvStep == RequestsInv /\ [NextRequests]_requestVars => RequestsInv'
<1> SUFFICES ASSUME RequestsInv, [NextRequests]_requestVars PROVE RequestsInv'
  OBVIOUS
<1>1. ASSUME NEW p \in ReqPanes, TenantChanges(p) PROVE RequestsInv'
  <2>1. tenant' \in [ReqPanes -> Nat] /\ moves' \in Nat
    BY <1>1 DEF TenantChanges, RequestsInv
  <2> QED BY <1>1, <2>1 DEF TenantChanges, RequestsInv, WaitIsTheTenants, DisabledIsStill
<1>2. ASSUME NEW p \in ReqPanes, Automation(p) PROVE RequestsInv'
  <2>1. UNCHANGED <<tenant, moves, names, handler, queue>>
    BY <1>2 DEF Automation, LockAgentAutomation, WithAgentAutomation, AutomationEnds
  <2>2. typing' \in [ReqPanes -> {"none", "locked", "typing"}]
    BY <1>2 DEF Automation, LockAgentAutomation, WithAgentAutomation, AutomationEnds, RequestsInv
  <2>3. DisabledIsStill'
    BY <1>2, <2>1 DEF Automation, LockAgentAutomation, WithAgentAutomation, AutomationEnds, RequestsInv, DisabledIsStill
  <2> QED BY <2>1, <2>2, <2>3 DEF RequestsInv, WaitIsTheTenants
<1>3. CASE SweepListsAgents
  <2>1. handler'.listing \in [ReqPanes -> Nat] /\ UNCHANGED <<tenant, moves, names, queue, typing>>
    BY <1>3 DEF SweepListsAgents, RequestsInv
  <2> QED BY <2>1 DEF RequestsInv, WaitIsTheTenants, DisabledIsStill
<1>4. CASE SweepSyncs
  <2>1. /\ handler' = LoopIdle /\ UNCHANGED <<tenant, moves, queue, typing>>
        /\ names' = [p \in ReqPanes |-> SyncAgentTerminalID(names[p], handler.listing[p])]
        /\ handler.listing \in [ReqPanes -> Nat]
    BY <1>4 DEF SweepSyncs, RequestsInv
  <2>2. \A p \in ReqPanes : /\ names'[p] \in NameRow
                            /\ names'[p].disabled = names[p].disabled
                            /\ names[p].term # 0 => names'[p].term # 0
                            /\ names'[p].wait # 0 => names'[p].wait = names'[p].term
    <3> SUFFICES ASSUME NEW p \in ReqPanes
                 PROVE  /\ names'[p] \in NameRow
                        /\ names'[p].disabled = names[p].disabled
                        /\ names[p].term # 0 => names'[p].term # 0
                        /\ names'[p].wait # 0 => names'[p].wait = names'[p].term
      OBVIOUS
    <3>1. PICK n \in NameRow : n = names[p]
      BY DEF RequestsInv
    <3>2. PICK t \in Nat : t = handler.listing[p]
      BY <2>1
    <3>3. n.wait # 0 => n.wait = n.term
      BY <3>1 DEF RequestsInv, WaitIsTheTenants
    <3>4. names'[p] = SyncAgentTerminalID(n, t)
      BY <2>1, <3>1, <3>2
    <3>5. names[p].disabled = n.disabled /\ names[p].term = n.term
      BY <3>1
    <3> HIDE <3>1, <3>2
    <3> QED BY <3>3, <3>4, <3>5, SyncIsSound
  <2>3. names' \in [ReqPanes -> NameRow]
    BY <2>1, <2>2
  <2>4. handler'.do # "sweep"
    BY <2>1 DEF LoopIdle
  <2>5. \A r \in Requests : queue[r].pane \in ReqPanes
    BY DEF RequestsInv, RequestRow
  <2> QED BY <2>1, <2>2, <2>3, <2>4, <2>5 DEF RequestsInv, WaitIsTheTenants, DisabledIsStill
<1>5. CASE ReclaimRunningAgentActions
  <2>1. /\ handler' = LoopIdle /\ UNCHANGED <<tenant, moves, names>>
        /\ typing' = [p \in ReqPanes |-> "none"]
    BY <1>5 DEF ReclaimRunningAgentActions
  <2>2. \A r \in Requests : queue'[r] = IF queue[r].st = "running" THEN [queue[r] EXCEPT !.st = "pending"] ELSE queue[r]
    BY <1>5 DEF ReclaimRunningAgentActions, ReleaseAgentAction, RequestsInv
  <2>a. ASSUME NEW r \in Requests
        PROVE  /\ queue'[r] \in RequestRow /\ queue'[r].want = queue[r].want /\ queue'[r].pane = queue[r].pane
               /\ queue'[r].st \in {"pending", "running"} => queue[r].st \in {"pending", "running"}
    <3>1. queue[r] \in RequestRow
      BY DEF RequestsInv
    <3>2. CASE queue[r].st = "running"
      BY <2>2, <3>1, <3>2 DEF RequestRow
    <3>3. CASE queue[r].st # "running"
      BY <2>2, <3>1, <3>3
    <3> QED BY <3>2, <3>3
  <2>b. DOMAIN queue' = Requests /\ queue' = [r \in Requests |-> queue'[r]]
    BY <1>5 DEF ReclaimRunningAgentActions
  <2>3. queue' \in [Requests -> RequestRow]
    BY <2>a, <2>b
  <2>4. \A r \in Requests : queue'[r].st \in {"pending", "running"} =>
          queue[r].st \in {"pending", "running"} /\ queue'[r].want = queue[r].want /\ queue'[r].pane = queue[r].pane
    BY <2>a
  <2>5. handler'.do # "sweep"
    BY <2>1 DEF LoopIdle
  <2> QED BY <2>1, <2>3, <2>4, <2>5 DEF RequestsInv, WaitIsTheTenants, DisabledIsStill
<1>6. ASSUME NEW r \in Requests, Asks(r) PROVE RequestsInv'
  <2>1. PICK p \in ReqPanes, kind \in {"wait", "disable"} : RunRemoteAction(r, p, kind)
    BY <1>6 DEF Asks
  <2> DEFINE row == [st |-> "pending", kind |-> kind, pane |-> p, want |-> names[p].term, tries |-> 0]
  <2>2. row \in RequestRow
    BY DEF RequestsInv, NameRow, RequestRow
  <2>3. row.want = names[row.pane].term
    OBVIOUS
  <2>4. queue' = [queue EXCEPT ![r] = row] /\ UNCHANGED <<tenant, moves, names, handler, typing>>
    BY <2>1 DEF RunRemoteAction
  <2> HIDE DEF row
  <2>5. queue' \in [Requests -> RequestRow]
    BY <2>2, <2>4 DEF RequestsInv
  <2>6. \A q \in Requests : queue'[q] = IF q = r THEN row ELSE queue[q]
    BY <2>4 DEF RequestsInv
  <2> QED BY <2>2, <2>3, <2>4, <2>5, <2>6, QueueStep DEF RequestRow
<1>7. ASSUME NEW r \in Requests, ClaimAgentAction(r) PROVE RequestsInv'
  <2>1. /\ queue[r].st = "pending" /\ handler'.do # "sweep" /\ UNCHANGED <<tenant, moves, names, typing>>
        /\ queue' = [queue EXCEPT ![r] = [@ EXCEPT !.st = "running", !.tries = queue[r].tries + 1]]
    BY <1>7 DEF ClaimAgentAction, RequestsInv
  <2>2. queue[r] \in RequestRow /\ queue[r].tries + 1 \in Nat
    BY DEF RequestsInv, RequestRow
  <2>3. queue'[r] \in RequestRow /\ queue'[r].want = queue[r].want /\ queue'[r].pane = queue[r].pane
    <3>1. queue'[r] = [queue[r] EXCEPT !.st = "running", !.tries = queue[r].tries + 1]
      BY <2>1 DEF RequestsInv
    <3>2. PICK k \in Nat : k = queue[r].tries + 1
      BY <2>2
    <3>3. queue'[r] = [queue[r] EXCEPT !.st = "running", !.tries = k]
      BY <3>1, <3>2
    <3>4. DOMAIN queue[r] = {"st", "kind", "pane", "want", "tries"}
      BY <2>2 DEF RequestRow
    <3>5. queue'[r] = [st |-> "running", kind |-> queue[r].kind, pane |-> queue[r].pane, want |-> queue[r].want, tries |-> k]
      BY <3>3, <3>4
    <3>6. /\ queue[r].kind \in {"wait", "disable"} /\ queue[r].pane \in ReqPanes /\ queue[r].want \in Nat
      BY <2>2 DEF RequestRow
    <3> QED BY <3>2, <3>5, <3>6 DEF RequestRow
  <2>4. \A q \in Requests : q # r => queue'[q] = queue[q]
    BY <2>1 DEF RequestsInv
  <2>5. queue' \in [Requests -> RequestRow]
    BY <2>1, <2>3, <2>4 DEF RequestsInv
  <2> QED BY <2>1, <2>3, <2>4, <2>5, QueueStep
<1>8. ASSUME NEW r \in Requests, NEW st \in {"pending", "failed"}, queue[r].st = "running", handler' = LoopIdle,
             queue' = [queue EXCEPT ![r].st = st], UNCHANGED <<tenant, moves, names, typing>>
      PROVE  RequestsInv'
  <2>1. queue[r] \in RequestRow
    BY DEF RequestsInv
  <2>2. queue'[r] = [queue[r] EXCEPT !.st = st] /\ \A q \in Requests : q # r => queue'[q] = queue[q]
    BY <1>8 DEF RequestsInv
  <2>3. queue'[r] \in RequestRow /\ queue'[r].want = queue[r].want /\ queue'[r].pane = queue[r].pane
    BY <1>8, <2>1, <2>2 DEF RequestRow
  <2>4. queue' \in [Requests -> RequestRow]
    BY <1>8, <2>2, <2>3 DEF RequestsInv
  <2>5. handler'.do # "sweep"
    BY <1>8 DEF LoopIdle
  <2> QED BY <1>8, <2>2, <2>3, <2>4, <2>5, QueueStep
<1>9. ASSUME NEW r \in Requests, ActionFails(r) PROVE RequestsInv'
  BY <1>8, <1>9 DEF ActionFails, Executing, FinishAgentAction
<1>10. ASSUME NEW r \in Requests, ActionTransient(r) PROVE RequestsInv'
  BY <1>8, <1>10 DEF ActionTransient, Executing, ReleaseAgentAction
<1>11. ASSUME NEW r \in Requests, DeclareWaitAction(r) PROVE RequestsInv'
  <2>1. /\ queue[r].st = "running" /\ AgentStillTheSame(r)
        /\ names' = [names EXCEPT ![queue[r].pane].wait = queue[r].want]
        /\ queue' = [queue EXCEPT ![r].st = "done"] /\ handler' = LoopIdle
        /\ UNCHANGED <<tenant, moves, listed, typing>>
    BY <1>11 DEF DeclareWaitAction, Executing, Refused, FinishAgentAction
  <2>2. queue[r].pane \in ReqPanes /\ queue[r].want \in Nat
    BY DEF RequestsInv, RequestRow
  <2>3. queue[r].want # 0 => queue[r].want = names[queue[r].pane].term
    BY <2>1 DEF AgentStillTheSame, RequestsInv
  <2>4. /\ names' \in [ReqPanes -> NameRow]
        /\ \A p \in ReqPanes : names'[p].term = names[p].term /\ names'[p].disabled = names[p].disabled
        /\ \A p \in ReqPanes : names'[p].wait = IF p = queue[r].pane THEN queue[r].want ELSE names[p].wait
    BY <2>1, <2>2 DEF RequestsInv, NameRow
  <2>5. /\ queue' \in [Requests -> RequestRow]
        /\ \A q \in Requests : /\ queue'[q].want = queue[q].want /\ queue'[q].pane = queue[q].pane
                               /\ queue'[q].st \in {"pending", "running"} => queue[q].st \in {"pending", "running"}
    BY <2>1 DEF RequestsInv, RequestRow
  <2>6. handler'.do # "sweep" /\ \A q \in Requests : queue[q].pane \in ReqPanes
    BY <2>1 DEF LoopIdle, RequestsInv, RequestRow
  <2> QED BY <2>1, <2>3, <2>4, <2>5, <2>6 DEF RequestsInv, DisabledIsStill, WaitIsTheTenants
<1>12. ASSUME NEW r \in Requests, SetAgentEnabledAction(r) PROVE RequestsInv'
  <2>1. /\ typing[queue[r].pane] = "none" /\ queue[r].st = "running"
        /\ names' = [names EXCEPT ![queue[r].pane].disabled = ~@]
        /\ queue' = [queue EXCEPT ![r].st = "done"] /\ handler' = LoopIdle
        /\ UNCHANGED <<tenant, moves, listed, typing>>
    BY <1>12 DEF SetAgentEnabledAction, LockFree, Executing, FinishAgentAction
  <2>2. queue[r].pane \in ReqPanes
    BY DEF RequestsInv, RequestRow
  <2>3. /\ names' \in [ReqPanes -> NameRow]
        /\ \A p \in ReqPanes : names'[p].term = names[p].term /\ names'[p].wait = names[p].wait
        /\ \A p \in ReqPanes : p # queue[r].pane => names'[p].disabled = names[p].disabled
    BY <2>1, <2>2 DEF RequestsInv, NameRow
  <2>4. /\ queue' \in [Requests -> RequestRow]
        /\ \A q \in Requests : /\ queue'[q].want = queue[q].want /\ queue'[q].pane = queue[q].pane
                               /\ queue'[q].st \in {"pending", "running"} => queue[q].st \in {"pending", "running"}
    BY <2>1 DEF RequestsInv, RequestRow
  <2>5. handler'.do # "sweep" /\ \A q \in Requests : queue[q].pane \in ReqPanes
    BY <2>1 DEF LoopIdle, RequestsInv, RequestRow
  <2> QED BY <2>1, <2>2, <2>3, <2>4, <2>5 DEF RequestsInv, DisabledIsStill, WaitIsTheTenants
<1>13. ASSUME NEW r \in Requests, AwaitAgentAction(r) PROVE RequestsInv'
  <2>1. NoRequest \in RequestRow /\ NoRequest.st = "none"
    BY RequestsAssumption DEF NoRequest, RequestRow
  <2>2. queue' = [queue EXCEPT ![r] = NoRequest] /\ UNCHANGED <<tenant, moves, names, handler, typing>>
    BY <1>13 DEF AwaitAgentAction
  <2>3. queue' \in [Requests -> RequestRow] /\ \A q \in Requests : queue'[q] = IF q = r THEN NoRequest ELSE queue[q]
    BY <2>1, <2>2 DEF RequestsInv
  <2> QED BY <2>1, <2>2, <2>3, QueueStep
<1>14. CASE UNCHANGED requestVars
  BY <1>14 DEF requestVars, RequestsInv, WaitIsTheTenants, DisabledIsStill
<1> QED BY <1>1, <1>2, <1>3, <1>4, <1>5, <1>6, <1>7, <1>9, <1>10, <1>11, <1>12, <1>13, <1>14 DEF NextRequests, ActionStep

\* agentactions.go: a wait an operator declared is in force only for the tenant the daemon
\* knows on the pane, and a disable is written only while nothing is typed: for any panes,
\* requests, tenants, retries, faults and restarts.
THEOREM RequestsAreSound == SpecRequests => [](WaitIsTheTenants /\ DisabledIsStill)
<1>1. RequestsInv => WaitIsTheTenants /\ DisabledIsStill
  BY DEF RequestsInv
<1> QED BY <1>1, RequestsInvInit, RequestsInvStep, PTL DEF SpecRequests

-----------------------------------------------------------------------------
(* The roster *)

\* The inductive invariant: what a listing retired has its tombstone.
RosterInv ==
  /\ DOMAIN roster = Panes
  /\ retired \subseteq tomb
  /\ RetiredStaysGone
  /\ NoStrandedListing

LEMMA RosterInvInit == InitRoster => RosterInv
BY DEF InitRoster, RosterInv, NoRow, RetiredStaysGone, NoStrandedListing, LivePanes

LEMMA RosterInvStep == RosterInv /\ [NextRoster]_rosterVars => RosterInv'
<1> SUFFICES ASSUME RosterInv, [NextRoster]_rosterVars PROVE RosterInv'
  OBVIOUS
<1>1. ASSUME NEW p \in Panes, Arrives(p) \/ Leaves(p) \/ Emits(p) PROVE RosterInv'
  BY <1>1 DEF Arrives, Leaves, Emits, RosterInv, RetiredStaysGone, NoStrandedListing, LivePanes
<1>2. CASE NoteRosterTransition
  BY <1>2 DEF NoteRosterTransition, UpsertRosterAgent, RosterInv, RetiredStaysGone, NoStrandedListing, LivePanes
<1>3. CASE SweepPublishes \/ RosterPassReads \/ RosterTickLists \/ RosterTickPublishes
  BY <1>3 DEF SweepPublishes, RosterPassReads, RosterTickLists, RosterTickPublishes, HandOver, RosterInv,
     RetiredStaysGone, NoStrandedListing, LivePanes
<1>4. CASE RosterPass
  <2>1. CASE pending = NoListing
    BY <1>4, <2>1 DEF RosterPass, RosterInv, RetiredStaysGone, NoStrandedListing, LivePanes
  <2>2. CASE pending # NoListing
    <3>1. PublishRoster(pending) /\ pending' = NoListing
      BY <1>4, <2>2 DEF RosterPass
    <3>2. \A p \in Panes : p \in retired' => ~Listed(pending, p) /\ p \in tomb' /\ p \notin LivePanes'
      BY <3>1 DEF PublishRoster, RosterInv, RetiredStaysGone, LivePanes, Absent
    <3>3. \A p \in retired' : p \in tomb'
      BY <3>1 DEF PublishRoster, RosterInv
    <3>4. DOMAIN roster' = Panes
      BY <3>1 DEF PublishRoster
    <3>5. RetiredStaysGone'
      BY <3>2 DEF RetiredStaysGone, LivePanes
    <3> QED BY <3>1, <3>3, <3>4, <3>5 DEF RosterInv, NoStrandedListing
  <2> QED BY <2>1, <2>2
<1>5. CASE PruneRetired
  BY <1>5 DEF PruneRetired, NoRow, RosterInv, RetiredStaysGone, NoStrandedListing, LivePanes
<1>6. CASE RosterRestart \/ UNCHANGED rosterVars
  BY <1>6 DEF RosterRestart, rosterVars, RosterInv, RetiredStaysGone, NoStrandedListing, LivePanes
<1> QED BY <1>1, <1>2, <1>3, <1>4, <1>5, <1>6 DEF NextRoster

\* roster.go, store/agentroster.go: transitions that were still buffered bring back nobody a
\* full listing retired, and no listing handed over is left lying: for any panes, tenants,
\* transitions, listings, prunes and restarts.
THEOREM RosterIsSound == SpecRoster => [](RetiredStaysGone /\ NoStrandedListing)
<1>1. RosterInv => RetiredStaysGone /\ NoStrandedListing
  BY DEF RosterInv
<1> QED BY <1>1, RosterInvInit, RosterInvStep, PTL DEF SpecRoster
-----------------------------------------------------------------------------
(* Renames of sessions *)


\* The inductive invariant: names are names, a rename under way is for one of them and for
\* this terminal or an earlier one, and the charges are within the budget.
SessionInv ==
  /\ hapName \in AgentNames
  /\ session \in [name : SessionNameSet \cup AgentNames \cup {UnnamedSession}, parked : BOOLEAN, settled : BOOLEAN,
                  draft : BOOLEAN, takes : BOOLEAN]
  /\ session.name \in SessionNameSet \cup AgentNames \cup {UnnamedSession}
  /\ terminal \in Nat
  /\ pushes \in [AgentNames -> 0..MaxPushes] /\ typedIn \in [AgentNames -> Nat]
  /\ push.at \in {"none", "start", "checked", "typed"}
  /\ push.at = "none" \/ (push.want \in AgentNames /\ push.term \in Nat /\ push.term <= terminal)
  /\ push = NoPush \/ push.at # "none"
  /\ BudgetIsKeystrokes

LEMMA SessionInvInit == InitSession => SessionInv
<1> SUFFICES ASSUME InitSession PROVE SessionInv
  OBVIOUS
<1>1. OwnName \in AgentNames /\ hapName = OwnName
  BY DEF InitSession, AgentNames
<1>2. /\ session \in [name : SessionNameSet \cup AgentNames \cup {UnnamedSession}, parked : BOOLEAN, settled : BOOLEAN,
                      draft : BOOLEAN, takes : BOOLEAN]
      /\ session.name = UnnamedSession
  BY DEF InitSession
<1>3. push = NoPush /\ push.at = "none" /\ terminal = 1
  BY DEF InitSession, NoPush
<1>4. /\ pushes \in [AgentNames -> 0..MaxPushes] /\ typedIn \in [AgentNames -> Nat]
      /\ \A n \in AgentNames : pushes[n] = 0 /\ typedIn[n] = 0
  BY SessionNamesAssumption DEF InitSession, NoPushes
<1>5. BudgetIsKeystrokes
  BY <1>3, <1>4, SessionNamesAssumption DEF BudgetIsKeystrokes
<1> QED BY <1>1, <1>2, <1>3, <1>4, <1>5 DEF SessionInv

LEMMA AdoptedIsAName ==
  ASSUME NEW n \in SessionNameSet \cup AgentNames
  PROVE  AdoptAgentName(IF n \in SessionNameSet THEN Fold[n] ELSE n) \in AgentNames
BY DEF AdoptAgentName, AgentNames

LEMMA StartIsCharged ==
  ASSUME SessionInv, NEW want \in AgentNames, StartSessionRename(want), hapName' \in AgentNames,
         UNCHANGED <<session, typedIn, terminal>>
  PROVE  SessionInv'
<1>1. CASE UNCHANGED <<pushes, push>>
  BY <1>1 DEF SessionInv, BudgetIsKeystrokes
<1>2. CASE ~UNCHANGED <<pushes, push>>
  <2>1. /\ pushes[want] < MaxPushes /\ push = NoPush /\ pushes' = [pushes EXCEPT ![want] = @ + 1]
        /\ push' = [at |-> "start", want |-> want, term |-> terminal]
    BY <1>2 DEF StartSessionRename
  <2>2. pushes' \in [AgentNames -> 0..MaxPushes] /\ \A n \in AgentNames : pushes'[n] = IF n = want THEN pushes[n] + 1 ELSE pushes[n]
    BY <2>1, SessionNamesAssumption DEF SessionInv
  <2>3. \A n \in AgentNames : pushes[n] = typedIn[n] /\ typedIn[n] <= MaxPushes
    BY <2>1 DEF SessionInv, BudgetIsKeystrokes, NoPush
  <2>4. push'.at = "start" /\ push'.want = want /\ push'.term = terminal
    BY <2>1
  <2> QED BY <2>2, <2>3, <2>4 DEF SessionInv, BudgetIsKeystrokes
<1> QED BY <1>1, <1>2

LEMMA ApplyIsCharged ==
  ASSUME SessionInv, ApplyClaudeSession, UNCHANGED <<session, typedIn, terminal>>
  PROVE  SessionInv'
<1>1. CASE UNCHANGED <<hapName, pushes, push>>
  BY <1>1 DEF SessionInv, BudgetIsKeystrokes
<1>2. ASSUME session.name \notin {hapName, UnnamedSession},
             hapName' = AdoptAgentName(IF session.name \in SessionNameSet THEN Fold[session.name] ELSE session.name),
             UNCHANGED <<pushes, push>> \/ StartSessionRename(hapName')
      PROVE  SessionInv'
  <2>1. session.name \in SessionNameSet \cup AgentNames
    BY <1>2 DEF SessionInv
  <2>2. hapName' \in AgentNames
    BY <1>2, <2>1, AdoptedIsAName
  <2>3. CASE UNCHANGED <<pushes, push>>
    BY <2>2, <2>3 DEF SessionInv, BudgetIsKeystrokes
  <2>4. CASE StartSessionRename(hapName')
    <3>1. PICK w \in AgentNames : w = hapName'
      BY <2>2
    <3>2. StartSessionRename(w)
      BY <2>4, <3>1
    <3> QED BY <2>2, <3>2, StartIsCharged
  <2> QED BY <1>2, <2>3, <2>4
<1>3. ASSUME UNCHANGED hapName, StartSessionRename(hapName) PROVE SessionInv'
  BY <1>3, StartIsCharged DEF SessionInv
<1> QED BY <1>1, <1>2, <1>3 DEF ApplyClaudeSession

LEMMA SessionInvStep == SessionInv /\ [NextSession]_sessionVars => SessionInv'
<1> SUFFICES ASSUME SessionInv, [NextSession]_sessionVars PROVE SessionInv'
  OBVIOUS
<1> USE SessionNamesAssumption
<1>1. CASE HumanActs
  <2>1. /\ session' \in [name : SessionNameSet \cup AgentNames \cup {UnnamedSession}, parked : BOOLEAN,
                          settled : BOOLEAN, draft : BOOLEAN, takes : BOOLEAN]
        /\ session'.name \in SessionNameSet \cup AgentNames \cup {UnnamedSession}
    BY <1>1 DEF HumanActs, SessionInv
  <2> QED BY <1>1, <2>1 DEF HumanActs, SessionInv, BudgetIsKeystrokes
<1>2. CASE Settles
  <2>1. /\ session' \in [name : SessionNameSet \cup AgentNames \cup {UnnamedSession}, parked : BOOLEAN,
                          settled : BOOLEAN, draft : BOOLEAN, takes : BOOLEAN]
        /\ session'.name = session.name
    BY <1>2 DEF Settles, SessionInv
  <2> QED BY <1>2, <2>1 DEF Settles, SessionInv, BudgetIsKeystrokes
<1>3. CASE Recycles
  <2>1. /\ session' \in [name : SessionNameSet \cup AgentNames \cup {UnnamedSession}, parked : BOOLEAN,
                          settled : BOOLEAN, draft : BOOLEAN, takes : BOOLEAN]
        /\ session'.name = UnnamedSession
    BY <1>3 DEF Recycles, SessionInv
  <2> QED BY <1>3, <2>1 DEF Recycles, NoPushes, SessionInv, BudgetIsKeystrokes
<1>4. CASE SyncClaudeSessionName
  BY <1>4, ApplyIsCharged DEF SyncClaudeSessionName
<1>5. CASE PassEnds
  <2>1. CASE ApplyClaudeSession
    BY <1>5, <2>1, ApplyIsCharged DEF PassEnds
  <2>2. CASE UNCHANGED <<hapName, deferred, pushes, push>>
    BY <1>5, <2>2 DEF PassEnds, SessionInv, BudgetIsKeystrokes
  <2> QED BY <1>5, <2>1, <2>2 DEF PassEnds
<1>6. CASE PushRefused
  <2>1. push.at = "start" /\ push' = NoPush /\ pushes' = ReleaseSessionRenamePush(push)
        /\ UNCHANGED <<session, hapName, typedIn, terminal>>
    BY <1>6 DEF PushRefused
  <2>2. push.want \in AgentNames
    BY <2>1 DEF SessionInv
  <2>3. CASE push.term = terminal
    <3>1. pushes[push.want] = typedIn[push.want] + 1
      BY <2>1, <2>2, <2>3 DEF SessionInv, BudgetIsKeystrokes
    <3>2. pushes' = [pushes EXCEPT ![push.want] = @ - 1]
      BY <2>1, <2>2, <2>3, <3>1 DEF ReleaseSessionRenamePush, SessionInv
    <3>3. /\ pushes' \in [AgentNames -> 0..MaxPushes]
          /\ \A n \in AgentNames : pushes'[n] = typedIn[n]
      BY <2>1, <2>2, <2>3, <3>1, <3>2 DEF SessionInv, BudgetIsKeystrokes
    <3> QED BY <2>1, <3>3 DEF SessionInv, BudgetIsKeystrokes, NoPush
  <2>4. CASE push.term # terminal
    <3>1. UNCHANGED pushes
      BY <2>1, <2>4 DEF ReleaseSessionRenamePush
    <3> QED BY <2>1, <2>4, <3>1 DEF SessionInv, BudgetIsKeystrokes, NoPush
  <2> QED BY <2>3, <2>4
<1>7. CASE PushFindsItDone
  BY <1>7 DEF PushFindsItDone, NoPush, SessionInv, BudgetIsKeystrokes
<1>8. CASE PushChecks
  <2>1. push'.at = "checked" /\ push'.want = push.want /\ push'.term = push.term /\ push.at = "start"
    BY <1>8 DEF PushChecks, SessionInv
  <2> QED BY <1>8, <2>1 DEF PushChecks, SessionInv, BudgetIsKeystrokes
<1>9. CASE PushTypes
  <2>1. push'.at = "typed" /\ push'.want = push.want /\ push'.term = push.term /\ push.at = "checked"
    BY <1>9 DEF PushTypes, SessionInv
  <2>2. /\ push.want \in AgentNames
        /\ session' \in [name : SessionNameSet \cup AgentNames \cup {UnnamedSession}, parked : BOOLEAN,
                          settled : BOOLEAN, draft : BOOLEAN, takes : BOOLEAN]
        /\ session'.name \in SessionNameSet \cup AgentNames \cup {UnnamedSession}
    BY <1>9, <2>1 DEF PushTypes, SessionInv
  <2>3. \A n \in AgentNames : typedIn'[n] = IF push.term = terminal /\ push.want = n THEN typedIn[n] + 1 ELSE typedIn[n]
    BY <1>9, <2>2 DEF PushTypes, SessionInv
  <2>4. typedIn' \in [AgentNames -> Nat]
    BY <1>9, <2>2 DEF PushTypes, SessionInv
  <2>5. BudgetIsKeystrokes'
    BY <1>9, <2>1, <2>3 DEF PushTypes, SessionInv, BudgetIsKeystrokes
  <2> QED BY <1>9, <2>1, <2>2, <2>4, <2>5 DEF PushTypes, SessionInv
<1>10. CASE PushVerifies
  <2>1. push.at = "typed" /\ push' = NoPush /\ push.want \in AgentNames
    BY <1>10 DEF PushVerifies, SessionInv
  <2>2. CASE UNCHANGED <<pushes, typedIn>>
    BY <1>10, <2>1, <2>2 DEF PushVerifies, NoPush, SessionInv, BudgetIsKeystrokes
  <2>3. CASE pushes' = [pushes EXCEPT ![push.want] = 0] /\ typedIn' = [typedIn EXCEPT ![push.want] = 0]
    BY <1>10, <2>1, <2>3 DEF PushVerifies, NoPush, SessionInv, BudgetIsKeystrokes
  <2> QED BY <1>10, <2>2, <2>3 DEF PushVerifies
<1>11. CASE SwitchFlips \/ RetryPassStarts \/ UNCHANGED sessionVars
  BY <1>11 DEF SwitchFlips, RetryPassStarts, sessionVars, SessionInv, BudgetIsKeystrokes
<1> QED BY <1>1, <1>2, <1>3, <1>4, <1>5, <1>6, <1>7, <1>8, <1>9, <1>10, <1>11 DEF NextSession, PushStep

\* sessionname.go: the budget of renames counts keystrokes - what was charged for a name is
\* what was typed, and one more while an attempt is on its way, and typing never outruns
\* it - for any names, drafts, tenants, switches and passes.
THEOREM RenamesAreCharged == SpecSession => []BudgetIsKeystrokes
<1>1. SessionInv => BudgetIsKeystrokes
  BY DEF SessionInv
<1> QED BY <1>1, SessionInvInit, SessionInvStep, PTL DEF SpecSession
-----------------------------------------------------------------------------
(* Keys to a dialog *)

Screens == [request : 0..Len(Body), caret : Rows]

\* The inductive invariant: what the daemon knows of the dialog while it presses.  A
\* dialog decided on is on the screen as it is; after a digit a screen that is behind has
\* been read at least as often as the settle counts; the Enter waits for evidence that the
\* dialog is the one that got the digit; in a walk over rows, the caret is where the
\* daemon saw it or wants it.
DialogInv ==
  /\ dialog \in Screens /\ frame \in Screens /\ staleReads \in Nat
  /\ episode.at \in {"none", "decided", "settle", "enter", "check", "walk", "await"}
  /\ episode.at = "decided" => frame = dialog /\ episode.digit \in Rows
  /\ episode.at \in {"settle", "enter"} => DOMAIN episode = {"at", "digit", "seen", "before", "reads", "of"}
  /\ episode.at = "settle" =>
       /\ episode.reads \in Nat /\ episode.before.request = episode.of
       /\ frame = dialog \/ staleReads >= episode.reads
  /\ episode.at = "enter" /\ ~narrow => dialog.request = episode.of
  /\ episode.at = "walk" => dialog.caret = episode.caret /\ episode.digit \in Rows
  /\ episode.at = "await" =>
       /\ DOMAIN episode = {"at", "digit", "seen", "want", "reads"}
       /\ dialog.caret = episode.want /\ episode.digit \in Rows

LEMMA DialogInvInit == InitDialog => DialogInv
BY DialogAssumption DEF InitDialog, DialogInv, NoEpisode, Rows, Screens

LEMMA NextRequestIsAScreen == ASSUME NEW d \in Screens PROVE NextRequest(d) \in Screens
BY DialogAssumption DEF NextRequest, Screens, Rows, NoDialog

LEMMA DialogInvStep == DialogInv /\ [NextDialog]_dialogVars => DialogInv'
<1> SUFFICES ASSUME DialogInv, [NextDialog]_dialogVars PROVE DialogInv'
  OBVIOUS
<1> USE DialogAssumption
<1>1. CASE Render
  BY <1>1 DEF Render, DialogInv
<1>2. CASE CaptureDialog
  BY <1>2 DEF CaptureDialog, DialogInv
<1>3. CASE PressDigit
  <2>1. frame = dialog /\ episode.digit \in Rows /\ UNCHANGED narrow
    BY <1>3 DEF PressDigit, DialogInv
  <2>2. CASE Open(frame) /\ Region(frame) = Region(episode.seen)
    <3>1. /\ episode' = [at |-> "settle", digit |-> episode.digit, seen |-> episode.seen, before |-> frame,
                         reads |-> 0, of |-> dialog.request]
          /\ staleReads' = 0 /\ UNCHANGED frame
          /\ dialog' = IF build = "commits" THEN NextRequest(dialog) ELSE [dialog EXCEPT !.caret = episode.digit]
      BY <1>3, <2>2 DEF PressDigit, Pressed
    <3>2. dialog' \in Screens
      BY <2>1, <3>1, NextRequestIsAScreen DEF DialogInv, Screens
    <3> QED BY <2>1, <3>1, <3>2 DEF DialogInv
  <2>3. CASE ~(Open(frame) /\ Region(frame) = Region(episode.seen))
    BY <1>3, <2>3 DEF PressDigit, NoEpisode, DialogInv
  <2> QED BY <2>2, <2>3
<1>4. CASE SettleRead
  <2>1. /\ episode.at = "settle" /\ (frame = dialog \/ staleReads < Lag) /\ staleReads' = staleReads + 1
        /\ UNCHANGED <<narrow, dialog, frame>>
        /\ episode.reads \in Nat /\ episode.before.request = episode.of
        /\ frame = dialog \/ staleReads >= episode.reads
    BY <1>4 DEF SettleRead, Reads, DialogInv
  <2>2. CASE episode' = [episode EXCEPT !.at = "check"]
    <3>1. episode'.at = "check"
      BY <2>1, <2>2 DEF DialogInv
    <3> QED BY <2>1, <3>1 DEF DialogInv
  <2>3. CASE episode' = [episode EXCEPT !.reads = episode.reads + 1]
    <3>1. /\ episode'.at = "settle" /\ episode'.reads = episode.reads + 1 /\ episode'.before = episode.before
          /\ episode'.of = episode.of /\ DOMAIN episode' = DOMAIN episode
      BY <2>1, <2>3 DEF DialogInv
    <3>2. frame = dialog \/ staleReads' >= episode'.reads
      BY <2>1, <3>1 DEF DialogInv
    <3> QED BY <2>1, <3>1, <3>2 DEF DialogInv
  <2>4. CASE /\ episode' = [episode EXCEPT !.at = "enter"]
             /\ SameStanding(episode.before, frame) /\ ~(episode.reads + 1 < VerifyReads)
    <3>1. episode'.at = "enter" /\ episode'.of = episode.of /\ DOMAIN episode' = DOMAIN episode
      BY <2>1, <2>4 DEF DialogInv
    <3>2. frame = dialog
      BY <2>1, <2>4 DEF DialogInv
    <3>3. ~narrow => dialog.request = episode.of
      BY <2>1, <2>4, <3>2 DEF SameStanding, Header
    <3> QED BY <2>1, <3>1, <3>3 DEF DialogInv
  <2>5. episode' = IF episode.before.caret = episode.digit \/ ~SameStanding(episode.before, frame)
                   THEN [episode EXCEPT !.at = "check"]
                   ELSE IF episode.reads + 1 < VerifyReads THEN [episode EXCEPT !.reads = episode.reads + 1]
                   ELSE [episode EXCEPT !.at = IF frame.caret = episode.digit THEN "enter" ELSE "check"]
    BY <1>4 DEF SettleRead
  <2> QED BY <2>2, <2>3, <2>4, <2>5
<1>5. CASE SettleEnter
  <2>1. episode'.at = "check" /\ dialog' = NextRequest(dialog) /\ staleReads' = 0 /\ UNCHANGED frame
    BY <1>5 DEF SettleEnter, Pressed, DialogInv
  <2> QED BY <2>1, NextRequestIsAScreen DEF DialogInv
<1>6. CASE StartRows
  BY <1>6 DEF StartRows, FailEpisode, NoEpisode, DialogInv
<1>7. CASE PressArrow
  <2> DEFINE step == IF episode.digit > episode.caret THEN 1 ELSE -1
  <2>1. /\ episode.at = "walk" /\ episode.caret # episode.digit /\ staleReads' = 0 /\ UNCHANGED <<frame, narrow>>
        /\ dialog' = [dialog EXCEPT !.caret = IF @ + step \in Rows THEN @ + step ELSE @]
        /\ episode' = [at |-> "await", digit |-> episode.digit, seen |-> episode.seen, want |-> episode.caret + step, reads |-> 0]
    BY <1>7 DEF PressArrow, Pressed
  <2>2. /\ dialog.caret = episode.caret /\ episode.digit \in 1..3 /\ dialog.caret \in 1..3
    BY <2>1 DEF DialogInv, Rows, Screens
  <2>3. dialog.caret + step \in 1..3
    BY <2>1, <2>2
  <2> HIDE DEF step
  <2>4. dialog' = [dialog EXCEPT !.caret = dialog.caret + step]
    BY <2>1, <2>3 DEF Rows
  <2>5. dialog'.caret = episode'.want /\ dialog' \in Screens
    BY <2>1, <2>2, <2>3, <2>4 DEF DialogInv, Screens, Rows
  <2> QED BY <2>1, <2>5 DEF DialogInv
<1>8. CASE AwaitCaret
  <2>1. /\ episode.at = "await" /\ staleReads' = staleReads + 1 /\ UNCHANGED <<narrow, dialog, frame>>
        /\ dialog.caret = episode.want /\ episode.digit \in Rows
    BY <1>8 DEF AwaitCaret, Reads, DialogInv
  <2>2. CASE Open(frame) /\ Region(frame) = Region(episode.seen) /\ Arrived(frame, episode.want)
    BY <1>8, <2>1, <2>2 DEF AwaitCaret, Arrived, DialogInv
  <2>3. CASE episode' = [episode EXCEPT !.reads = @ + 1]
    <3>1. /\ episode'.at = "await" /\ DOMAIN episode' = DOMAIN episode
          /\ episode'.want = episode.want /\ episode'.digit = episode.digit
      BY <2>1, <2>3 DEF DialogInv
    <3> QED BY <2>1, <3>1 DEF DialogInv
  <2>4. CASE episode' = NoEpisode
    BY <2>1, <2>4 DEF NoEpisode, DialogInv
  <2> QED BY <1>8, <2>2, <2>3, <2>4 DEF AwaitCaret, FailEpisode
<1>9. CASE EnterRow
  <2>1. episode'.at = "check" /\ dialog' = NextRequest(dialog) /\ staleReads' = 0 /\ UNCHANGED frame
    BY <1>9 DEF EnterRow, Pressed
  <2> QED BY <2>1, NextRequestIsAScreen DEF DialogInv
<1>10. CASE UnblockCheck
  BY <1>10 DEF UnblockCheck, NoEpisode, DialogInv
<1>11. CASE OperatorMovesCaret
  <2>1. /\ episode.at \in {"none", "decided"} /\ UNCHANGED <<episode, narrow>> /\ staleReads' = 0 /\ frame' = dialog'
        /\ dialog' \in Screens
    BY <1>11 DEF OperatorMovesCaret, OperatorKey, DialogInv, Screens
  <2> QED BY <2>1 DEF DialogInv
<1>12. CASE OperatorAnswers
  <2>1. /\ episode.at \in {"decided", "settle"} /\ UNCHANGED <<episode, narrow>> /\ staleReads' = 0 /\ frame' = dialog'
        /\ dialog' \in Screens
    BY <1>12, NextRequestIsAScreen DEF OperatorAnswers, OperatorKey, DialogInv
  <2> QED BY <2>1 DEF DialogInv
<1>13. CASE UNCHANGED dialogVars
  BY <1>13 DEF dialogVars, DialogInv
<1> QED BY <1>1, <1>2, <1>3, <1>4, <1>5, <1>6, <1>7, <1>8, <1>9, <1>10, <1>11, <1>12, <1>13 DEF NextDialog

\* claudemenu.go, mcqdeliver: the Enter after a digit is for the dialog that got the digit,
\* where the counter shows, and in a walk over rows it finds the caret on the chosen one:
\* for any queue of requests, any number of verifying reads above the screen's delay, and
\* any keys of the operator.
THEOREM DialogKeysHit == SpecDialog => EnterIsForItsCountedDialog /\ RowIsTheChosen
<1>1. DialogInv /\ [NextDialog]_dialogVars => [SettleEnter /\ ~narrow => dialog.request = episode.of]_dialogVars
  BY DEF DialogInv, SettleEnter
<1>2. DialogInv /\ [NextDialog]_dialogVars => [EnterRow => dialog.caret = episode.digit]_dialogVars
  BY DEF DialogInv, EnterRow
<1> QED BY <1>1, <1>2, DialogInvInit, DialogInvStep, PTL
  DEF SpecDialog, EnterIsForItsCountedDialog, RowIsTheChosen
-----------------------------------------------------------------------------
(* Sessions of the TUI *)

\* A session that registered: what it wrote of its start stays.
Registered(p) == tui[p].pc \in {"live", "leaving", "gone"}

\* The newest of the sessions stays: any session still sweeping that was told to stop has
\* a newer one that was not, and so has the herd of them once one was told.
NewestStays ==
  /\ \A c \in Sessions : Registered(c) /\ tui[c].term /\ sweep[c].on =>
       \E s \in Sessions : Registered(s) /\ ~tui[s].term /\ Older(c, s)
  /\ (\E c \in Sessions : tui[c].term) => \E s \in Sessions : Registered(s) /\ ~tui[s].term

\* The inductive invariant.  Only a registered session sweeps, and unless an operator
\* closed one, one that was not told is there.
TuiInv ==
  /\ TypeOKTui
  /\ \A p \in Sessions : sweep[p].on => Registered(p)
  /\ quits = 0 => \A p \in Sessions : tui[p].pc \in {"leaving", "gone"} => tui[p].term
  /\ NewestStays

LEMMA OlderIsTransitive ==
  ASSUME TypeOKTui, NEW a \in Sessions, NEW b \in Sessions, NEW c \in Sessions, Older(a, b), Older(b, c)
  PROVE  Older(a, c) /\ ~Older(b, a) /\ a # b
<1>1. tui[a].started \in Int /\ tui[b].started \in Int /\ tui[c].started \in Int /\ {a, b, c} \subseteq Int
  BY SessionBounds DEF TypeOKTui
<1> QED BY <1>1 DEF Older

LEMMA TuiInvInit == InitTui => TuiInv
BY SessionBounds DEF InitTui, TuiInv, TypeOKTui, NotStarted, NoSweep, NewestStays, Registered

TuiRow == [pc : {"none", "opened", "locked", "written", "live", "leaving", "gone", "unlisted"},
           started : 0..MaxTime, term : BOOLEAN, tries : 0..ClaimAttempts]

\* One session takes a step of its own.
LEMMA OneRowMoves ==
  ASSUME TypeOKTui, NEW p \in Sessions, NEW row \in TuiRow, row.term = tui[p].term, tui' = [tui EXCEPT ![p] = row]
  PROVE  /\ tui' \in [Sessions -> TuiRow] /\ tui'[p] = row
         /\ \A q \in Sessions \ {p} : tui'[q] = tui[q]
         /\ tui'[p].term = tui[p].term
BY DEF TypeOKTui, TuiRow

LEMMA RowParts ==
  ASSUME TypeOKTui, NEW p \in Sessions
  PROVE  /\ tui \in [Sessions -> TuiRow] /\ tui[p] \in TuiRow
         /\ DOMAIN tui[p] = {"pc", "started", "term", "tries"}
         /\ tui[p].started \in 0..MaxTime /\ tui[p].term \in BOOLEAN /\ tui[p].tries \in 0..ClaimAttempts
BY DEF TypeOKTui, TuiRow

\* The doomed of a sweep are older than the sweeper.
LEMMA DoomedAreOlder ==
  ASSUME NEW s \in Sessions, NEW p \in Doomed(s), sweep[s].live \subseteq Sessions
  PROVE  p \in Sessions /\ p # s /\ p \notin signalled[s] /\ Older(p, s)
BY DEF Doomed, Surplus

\* A step that keeps who is registered, when they started, who was told and who sweeps.
LEMMA NewestKept ==
  ASSUME TuiInv,
         \A p \in Sessions : /\ tui'[p].term = tui[p].term
                             /\ sweep'[p].on /\ tui[p].term => sweep[p].on
                             /\ Registered(p) => Registered(p)' /\ tui'[p].started = tui[p].started
                             /\ sweep'[p].on => Registered(p)
  PROVE  NewestStays'
<1>1. ASSUME NEW c \in Sessions, Registered(c)', tui'[c].term, sweep'[c].on
      PROVE  \E s \in Sessions : Registered(s)' /\ ~tui'[s].term /\ Older(c, s)'
  <2>1. Registered(c) /\ tui[c].term /\ sweep[c].on
    BY <1>1
  <2>2. PICK s \in Sessions : Registered(s) /\ ~tui[s].term /\ Older(c, s)
    BY <2>1 DEF TuiInv, NewestStays
  <2>3. Registered(s)' /\ ~tui'[s].term /\ tui'[s].started = tui[s].started /\ tui'[c].started = tui[c].started
    BY <2>1, <2>2
  <2> QED BY <2>2, <2>3 DEF Older
<1>2. ASSUME NEW c \in Sessions, tui'[c].term PROVE \E s \in Sessions : Registered(s)' /\ ~tui'[s].term
  <2>1. PICK s \in Sessions : Registered(s) /\ ~tui[s].term
    BY <1>2 DEF TuiInv, NewestStays
  <2> QED BY <2>1
<1> QED BY <1>1, <1>2 DEF NewestStays

LEMMA TuiInvStep == TuiInv /\ [NextTui]_tuiVars => TuiInv'
<1> SUFFICES ASSUME TuiInv, [NextTui]_tuiVars PROVE TuiInv'
  OBVIOUS
<1> USE SessionBounds
<1>1. ASSUME NEW p \in Sessions, Claim(p) \/ WriteRecord(p) \/ StillLinked(p) PROVE TuiInv'
  <2>1. UNCHANGED <<sweep, signalled, now, quits>> /\ ~Registered(p) /\ ~sweep[p].on
    BY <1>1 DEF Claim, WriteRecord, StillLinked, Registered, TuiInv
  <2>a. PICK row \in TuiRow : /\ row.term = tui[p].term /\ row.pc \notin {"leaving", "gone"}
                              /\ tui' = [tui EXCEPT ![p] = row]
    <3>1. PICK r \in TuiRow : r = tui[p]
      BY RowParts DEF TuiInv
    <3>2. now \in 0..MaxTime /\ r.tries \in 0..ClaimAttempts
      BY DEF TuiInv, TypeOKTui, TuiRow
    <3>3. CASE Claim(p)
      <4>1. PICK pc \in {"opened", "locked"} : tui' = [tui EXCEPT ![p] = [r EXCEPT !.pc = pc]]
        BY <3>1, <3>3 DEF Claim
      <4>2. PICK row : row = [r EXCEPT !.pc = pc]
        OBVIOUS
      <4>3. row \in TuiRow /\ row.pc = pc /\ row.term = r.term
        BY <4>2 DEF TuiRow
      <4> QED BY <3>1, <4>1, <4>2, <4>3
    <3>4. CASE WriteRecord(p)
      <4>1. tui' = [tui EXCEPT ![p] = [r EXCEPT !.pc = "written", !.started = now]]
        BY <3>1, <3>4 DEF WriteRecord
      <4>2. PICK row : row = [r EXCEPT !.pc = "written", !.started = now]
        OBVIOUS
      <4>3. row \in TuiRow /\ row.pc = "written" /\ row.term = r.term
        BY <3>2, <4>2 DEF TuiRow
      <4> QED BY <3>1, <4>1, <4>2, <4>3
    <3>5. CASE StillLinked(p)
      <4>1. CASE p \in linked
        <5>1. tui' = [tui EXCEPT ![p] = [r EXCEPT !.pc = "live"]]
          BY <3>1, <3>5, <4>1 DEF StillLinked
        <5>2. PICK row : row = [r EXCEPT !.pc = "live"]
          OBVIOUS
        <5>3. row \in TuiRow /\ row.pc = "live" /\ row.term = r.term
          BY <5>2 DEF TuiRow
        <5> QED BY <3>1, <5>1, <5>2, <5>3
      <4>2. CASE p \notin linked /\ r.tries + 1 < ClaimAttempts
        <5>1. PICK k \in 0..ClaimAttempts : k = r.tries + 1
          BY <3>2, <4>2
        <5>0. tui' = [tui EXCEPT ![p] = [r EXCEPT !.pc = "none", !.tries = r.tries + 1]]
          <6>1. tui[p].tries + 1 < ClaimAttempts
            BY <3>1, <4>2
          <6>2. tui' = [tui EXCEPT ![p] = [@ EXCEPT !.pc = "none", !.tries = tui[p].tries + 1]]
            BY <3>5, <4>2, <6>1 DEF StillLinked
          <6> QED BY <3>1, <6>2
        <5>2. tui' = [tui EXCEPT ![p] = [r EXCEPT !.pc = "none", !.tries = k]]
          BY <5>0, <5>1
        <5>3. PICK row : row = [r EXCEPT !.pc = "none", !.tries = k]
          OBVIOUS
        <5>4. row \in TuiRow /\ row.pc = "none" /\ row.term = r.term
          BY <5>1, <5>3 DEF TuiRow
        <5> QED BY <3>1, <5>2, <5>3, <5>4
      <4>3. CASE p \notin linked /\ ~(r.tries + 1 < ClaimAttempts)
        <5>1. tui' = [tui EXCEPT ![p] = [r EXCEPT !.pc = "unlisted"]]
          BY <3>1, <3>5, <4>3 DEF StillLinked
        <5>2. PICK row : row = [r EXCEPT !.pc = "unlisted"]
          OBVIOUS
        <5>3. row \in TuiRow /\ row.pc = "unlisted" /\ row.term = r.term
          BY <5>2 DEF TuiRow
        <5> QED BY <3>1, <5>1, <5>2, <5>3
      <4> QED BY <4>1, <4>2, <4>3
    <3> QED BY <1>1, <3>3, <3>4, <3>5
  <2>b. linked' \subseteq Sessions
    BY <1>1 DEF Claim, WriteRecord, StillLinked, TuiInv, TypeOKTui
  <2>3. /\ tui' \in [Sessions -> TuiRow] /\ \A q \in Sessions \ {p} : tui'[q] = tui[q]
        /\ tui'[p].term = tui[p].term /\ tui'[p].pc \notin {"leaving", "gone"}
    BY <2>a, OneRowMoves DEF TuiInv
  <2>2. TypeOKTui'
    BY <2>1, <2>3, <2>b DEF TuiInv, TypeOKTui, TuiRow
  <2>4. NewestStays'
    BY <2>1, <2>3, NewestKept DEF TuiInv, Registered
  <2> QED BY <2>1, <2>2, <2>3, <2>4 DEF TuiInv, Registered
<1>2. ASSUME NEW p \in Sessions, EnforceLists(p) PROVE TuiInv'
  <2>1. /\ tui[p].pc = "live" /\ ~tui[p].term /\ UNCHANGED <<tui, linked, signalled, now, quits>>
        /\ sweep' = [sweep EXCEPT ![p] = [on |-> TRUE, live |-> Live, free |-> Free]]
    BY <1>2 DEF EnforceLists
  <2>2. TypeOKTui'
    BY <2>1 DEF TuiInv, TypeOKTui, Live, Free
  <2>3. \A q \in Sessions : q # p => sweep'[q] = sweep[q]
    BY <2>1 DEF TuiInv, TypeOKTui
  <2>4. NewestStays'
    BY <2>1, <2>3, NewestKept DEF TuiInv, Registered
  <2> QED BY <2>1, <2>2, <2>3, <2>4 DEF TuiInv, Registered
<1>3. ASSUME NEW z \in Sessions, EnforceActs(z) PROVE TuiInv'
  <2> DEFINE doomed == IF tui[z].pc = "live" THEN Doomed(z) ELSE {}
  <2>1. /\ sweep[z].on /\ sweep' = [sweep EXCEPT ![z] = NoSweep] /\ linked' = linked \ sweep[z].free
        /\ tui' = [p \in Sessions |-> IF p \in doomed THEN [tui[p] EXCEPT !.term = TRUE] ELSE tui[p]]
        /\ signalled' = [signalled EXCEPT ![z] = @ \cup doomed]
        /\ UNCHANGED <<now, quits>>
    BY <1>3 DEF EnforceActs
  <2>2. \A p \in doomed : p \in Sessions /\ p # z /\ Older(p, z)
    BY DoomedAreOlder DEF TuiInv, TypeOKTui
  <2>3. \A p \in Sessions : /\ tui'[p].pc = tui[p].pc /\ tui'[p].started = tui[p].started
                            /\ tui'[p].term = (p \in doomed \/ tui[p].term)
                            /\ sweep'[p].on => p # z /\ sweep[p].on
                            /\ tui'[p] \in TuiRow
    <3>1. ASSUME NEW p \in Sessions
          PROVE  tui'[p].pc = tui[p].pc /\ tui'[p].started = tui[p].started /\ tui'[p].term = (p \in doomed \/ tui[p].term)
                 /\ tui'[p] \in TuiRow
      <4> HIDE DEF doomed
      <4>1. tui[p].term \in BOOLEAN /\ DOMAIN tui[p] = {"pc", "started", "term", "tries"} /\ tui[p] \in TuiRow
        BY RowParts DEF TuiInv
      <4>2. CASE p \in doomed
        <5>1. tui'[p] = [tui[p] EXCEPT !.term = TRUE]
          BY <2>1, <4>2
        <5> QED BY <4>1, <4>2, <5>1 DEF TuiRow
      <4>3. CASE p \notin doomed
        <5>1. tui'[p] = tui[p]
          BY <2>1, <4>3
        <5> QED BY <4>1, <4>3, <5>1
      <4> QED BY <4>2, <4>3
    <3>2. \A p \in Sessions : sweep'[p].on => p # z /\ sweep[p].on
      BY <2>1 DEF TuiInv, TypeOKTui, NoSweep
    <3> QED BY <3>1, <3>2
  <2> HIDE DEF doomed
  <2>4. TypeOKTui'
    <3>1. tui' \in [Sessions -> TuiRow]
      BY <2>1, <2>3
    <3>2. sweep' \in [Sessions -> [on : BOOLEAN, live : SUBSET Sessions, free : SUBSET Sessions]]
      BY <2>1 DEF TuiInv, TypeOKTui, NoSweep
    <3>3. signalled' \in [Sessions -> SUBSET Sessions] /\ \A p \in Sessions : p \notin signalled'[p]
      BY <2>1, <2>2 DEF TuiInv, TypeOKTui
    <3> QED BY <2>1, <3>1, <3>2, <3>3 DEF TuiInv, TypeOKTui, TuiRow
  <2>5. PICK w \in Sessions : Registered(w) /\ ~tui[w].term /\ (w = z \/ Older(z, w))
    BY <2>1 DEF TuiInv, NewestStays
  <2>6. w \notin doomed
    BY <2>2, <2>5, OlderIsTransitive DEF TuiInv
  <2>7. Registered(w)' /\ ~tui'[w].term
    BY <2>3, <2>5, <2>6 DEF Registered
  <2>8. \A a, b \in Sessions : Older(a, b)' = Older(a, b)
    BY <2>3 DEF Older
  <2>9. ASSUME NEW c \in Sessions, Registered(c)', tui'[c].term, sweep'[c].on
        PROVE  \E s \in Sessions : Registered(s)' /\ ~tui'[s].term /\ Older(c, s)'
    <3>1. Registered(c) /\ sweep[c].on /\ (c \in doomed \/ tui[c].term)
      BY <2>3, <2>9 DEF Registered
    <3>2. CASE c \in doomed
      BY <2>2, <2>5, <2>7, <2>8, <3>2, OlderIsTransitive DEF TuiInv
    <3>3. CASE c \notin doomed
      <4>1. PICK s \in Sessions : Registered(s) /\ ~tui[s].term /\ Older(c, s)
        BY <3>1, <3>3 DEF TuiInv, NewestStays
      <4>2. CASE s \in doomed
        <5>1. Older(s, z) /\ Older(c, z)
          BY <2>2, <4>1, <4>2, OlderIsTransitive DEF TuiInv
        <5>2. Older(c, w)
          BY <2>5, <5>1, OlderIsTransitive DEF TuiInv
        <5> QED BY <2>7, <2>8, <5>2
      <4>3. CASE s \notin doomed
        BY <2>3, <2>8, <4>1, <4>3 DEF Registered
      <4> QED BY <4>2, <4>3
    <3> QED BY <3>2, <3>3
  <2>10. NewestStays'
    BY <2>7, <2>9 DEF NewestStays
  <2>11. \A p \in Sessions : /\ sweep'[p].on => Registered(p)'
                             /\ quits' = 0 /\ tui'[p].pc \in {"leaving", "gone"} => tui'[p].term
    BY <2>1, <2>3 DEF TuiInv, Registered
  <2> QED BY <2>4, <2>10, <2>11 DEF TuiInv
<1>4. ASSUME NEW p \in Sessions, Release(p) PROVE TuiInv'
  <2>1. UNCHANGED <<sweep, signalled, now>> /\ Registered(p) /\ linked' \subseteq linked
    BY <1>4 DEF Release, Registered
  <2>a. PICK pc \in {"leaving", "gone"} : tui' = [tui EXCEPT ![p] = [@ EXCEPT !.pc = pc]]
    BY <1>4 DEF Release
  <2>b. PICK row \in TuiRow : row.term = tui[p].term /\ row.started = tui[p].started /\ row.pc = pc /\ tui' = [tui EXCEPT ![p] = row]
    <3> DEFINE row == [pc |-> pc, started |-> tui[p].started, term |-> tui[p].term, tries |-> tui[p].tries]
    <3>1. /\ tui[p].started \in 0..MaxTime /\ tui[p].term \in BOOLEAN /\ tui[p].tries \in 0..ClaimAttempts
          /\ DOMAIN tui[p] = {"pc", "started", "term", "tries"}
      BY RowParts DEF TuiInv
    <3>2. [tui[p] EXCEPT !.pc = pc] = row
      BY <3>1
    <3>3. tui' = [tui EXCEPT ![p] = row]
      BY <2>a, <3>2 DEF TuiInv, TypeOKTui
    <3>4. row \in TuiRow
      BY <3>1 DEF TuiRow
    <3> QED BY <3>3, <3>4
  <2>2. /\ \A q \in Sessions \ {p} : tui'[q] = tui[q]
        /\ tui'[p].term = tui[p].term /\ tui'[p].started = tui[p].started /\ tui'[p].pc \in {"leaving", "gone"}
        /\ tui' \in [Sessions -> TuiRow]
    BY <2>b, OneRowMoves DEF TuiInv
  <2>3. quits' \in 0..MaxQuits /\ (quits' = 0 => quits = 0 /\ tui[p].term)
    BY <1>4 DEF Release, TuiInv, TypeOKTui
  <2>4. TypeOKTui'
    BY <2>1, <2>2, <2>3 DEF TuiInv, TypeOKTui, TuiRow
  <2>5. \A q \in Sessions : Registered(q) => Registered(q)' /\ tui'[q].started = tui[q].started
    BY <2>1, <2>2 DEF Registered
  <2>6. NewestStays'
    BY <2>1, <2>2, <2>5, NewestKept DEF TuiInv
  <2> QED BY <2>1, <2>2, <2>3, <2>4, <2>5, <2>6 DEF TuiInv
<1>5. ASSUME NEW p \in Sessions, NEW q \in Sessions, ForgetDeparted(p, q) PROVE TuiInv'
  <2>1. UNCHANGED <<tui, linked, sweep, now, quits>> /\ signalled' \in [Sessions -> SUBSET Sessions]
        /\ \A r \in Sessions : signalled'[r] \subseteq signalled[r]
    BY <1>5 DEF ForgetDeparted, TuiInv, TypeOKTui
  <2> QED BY <2>1 DEF TuiInv, TypeOKTui, NewestStays, Registered, Older
<1>6. CASE ClockTicks
  <2>1. UNCHANGED <<tui, linked, sweep, signalled, quits>> /\ now' \in 1..MaxTime
    BY <1>6 DEF ClockTicks, TuiInv, TypeOKTui
  <2> QED BY <2>1 DEF TuiInv, TypeOKTui, NewestStays, Registered, Older
<1>7. CASE UNCHANGED tuiVars
  BY <1>7 DEF tuiVars, TuiInv, TypeOKTui, NewestStays, Registered, Older
<1> QED BY <1>1, <1>2, <1>3, <1>4, <1>5, <1>6, <1>7 DEF NextTui, TuiStep

\* tuisession: the limit on TUIs never closes the last of them, for any number of sessions,
\* any limit, any readings of the clock they start at and any interleaving of their sweeps.
THEOREM LastTuiStays == SpecTui => [](TypeOKTui /\ SomeTuiStays)
<1>1. ASSUME TuiInv PROVE SomeTuiStays
  <2> SUFFICES ASSUME quits = 0, NEW c \in Sessions, tui[c].term
               PROVE  \E p \in Sessions : tui[p].pc \in {"locked", "written", "live"} /\ ~tui[p].term
    BY DEF SomeTuiStays
  <2>1. PICK s \in Sessions : Registered(s) /\ ~tui[s].term
    BY <1>1 DEF TuiInv, NewestStays
  <2> QED BY <1>1, <2>1 DEF TuiInv, Registered
<1>2. TuiInv => TypeOKTui
  BY DEF TuiInv
<1> QED BY <1>1, <1>2, TuiInvInit, TuiInvStep, PTL DEF SpecTui
-----------------------------------------------------------------------------
(* Messages to panes *)

PieceRows == Nat \X (Nat \ {0})

\* The pieces of each send that s holds follow one another.
Follows(s) == \A i, j \in 1..Len(s) : s[i][1] = s[j][1] => s[j][2] - s[i][2] = j - i

\* All that s holds was typed by the sends begun so far.
OfSends(s) == s \in Seq(PieceRows) /\ \A i \in 1..Len(s) : s[i][1] <= sends

\* The inductive invariant of the pieces: what the composer holds of the send being typed
\* ends with the last piece typed.
PiecesInv ==
  /\ sends \in Nat /\ sending.typed \in Nat
  /\ DOMAIN sending = DOMAIN SendOff
  /\ OfSends(composer) /\ \A s \in submitted : OfSends(s)
  /\ NoPieceTwice
  /\ sending.step = "type" =>
       \A i \in 1..Len(composer) : composer[i][1] = sends => composer[i][2] = sending.typed - (Len(composer) - i)
  /\ sending.step = "type" /\ ~TypesKeys(sending.kind, sending.body) => sending.typed = 0

\* The inductive invariant of the prompts: a prompt that blocks is shown by the status, so
\* the Enter of the typed route has none in view, and a worker none but a form.
PromptsInv ==
  /\ modal \in {"none", "form", "prompt"}
  /\ modal = "prompt" => paneStatus = "blocked"
  /\ DOMAIN sending = DOMAIN SendOff /\ sending.inView = "none"
  /\ \A n \in 1..MaxSends : DOMAIN worker[n] = DOMAIN WorkerOff /\ worker[n].inView \in {"none", "form"}
  /\ DOMAIN worker = 1..MaxSends
  /\ SeenPromptIsLeft

LEMMA PromptsInvInit == InitSend => PromptsInv
<1> SUFFICES ASSUME InitSend PROVE PromptsInv
  OBVIOUS
<1>1. sending = SendOff /\ SendOff.inView = "none" /\ modal = "none" /\ SeenPromptIsLeft
  BY DEF InitSend, SendOff, SeenPromptIsLeft
<1>2. \A n \in 1..MaxSends : worker[n] = WorkerOff
  BY DEF InitSend
<1>3. WorkerOff.inView = "none"
  BY DEF WorkerOff
<1>4. DOMAIN worker = 1..MaxSends
  BY DEF InitSend
<1> QED BY <1>1, <1>2, <1>3, <1>4 DEF PromptsInv

\* An Enter commits no prompt its presser had in view, unless it is one to commit.
LEMMA PressLeaves ==
  ASSUME PromptsInv, NEW seen \in {"none", "form"}, seen = "form" => modal # "form", Press(seen)
  PROVE  /\ modal' \in {"none", "form", "prompt"} /\ (modal' = "prompt" => paneStatus' = "blocked")
         /\ SeenPromptIsLeft'
<1>1. CASE modal # "none" /\ modal' = "none" /\ strayed' = (strayed \/ seen = modal)
  <2>1. seen # modal
    BY <1>1 DEF PromptsInv
  <2> QED BY <1>1, <2>1 DEF PromptsInv, SeenPromptIsLeft
<1>2. CASE modal = "none" /\ UNCHANGED <<modal, strayed>>
  BY <1>2 DEF PromptsInv, SeenPromptIsLeft
<1> QED BY <1>1, <1>2 DEF Press

LEMMA PromptsInvStep == PromptsInv /\ [NextSend]_sendVars => PromptsInv'
<1> SUFFICES ASSUME PromptsInv, [NextSend]_sendVars PROVE PromptsInv'
  OBVIOUS
<1>1. ASSUME NEW kind \in SendKinds, NEW body \in MessageKinds, BeginSend(kind, body) \/ BeginSendUnprobed(kind, body)
      PROVE  PromptsInv'
  <2>1. DOMAIN sending' = DOMAIN SendOff /\ sending'.inView = "none"
    BY <1>1 DEF BeginSend, BeginSendUnprobed, SendOff
  <2>2. UNCHANGED <<paneStatus, modal, worker, strayed>>
    BY <1>1 DEF BeginSend, BeginSendUnprobed, paneVars
  <2> QED BY <2>1, <2>2 DEF PromptsInv, SeenPromptIsLeft
<1>2. CASE TypeChunk \/ TypeChunkFails \/ SendText \/ LegacySend \/ SendFails
  <2>1. DOMAIN sending' = DOMAIN SendOff /\ sending'.inView = "none"
    <3>1. CASE TypeChunk
      BY <3>1 DEF TypeChunk, AfterBurst, PromptsInv
    <3>2. CASE TypeChunkFails
      <4>1. sending' = [sending EXCEPT !.socket = FALSE] \/ sending' = [sending EXCEPT !.step = "off"]
        BY <3>2 DEF TypeChunkFails, Ended
      <4>2. DOMAIN sending = {"step", "kind", "body", "typed", "snapshot", "socket", "inView", "explicit"}
        BY DEF PromptsInv, SendOff
      <4>3. CASE sending' = [sending EXCEPT !.socket = FALSE]
        BY <4>2, <4>3 DEF PromptsInv
      <4>4. CASE sending' = [sending EXCEPT !.step = "off"]
        BY <4>2, <4>4 DEF PromptsInv
      <4> QED BY <4>1, <4>3, <4>4
    <3>3. CASE SendText
      BY <3>3 DEF SendText, PromptsInv
    <3>4. CASE LegacySend
      BY <3>4 DEF LegacySend, PromptsInv
    <3>5. CASE SendFails
      BY <3>5 DEF SendFails, Ended, PromptsInv
    <3> QED BY <1>2, <3>1, <3>2, <3>3, <3>4, <3>5
  <2>2. UNCHANGED <<paneStatus, modal, worker, strayed>>
    BY <1>2 DEF TypeChunk, TypeChunkFails, SendText, LegacySend, SendFails, paneVars
  <2> QED BY <2>1, <2>2 DEF PromptsInv, SeenPromptIsLeft
<1>3. CASE TypedLook
  <2>1. UNCHANGED <<paneStatus, modal, worker, strayed>>
    BY <1>3 DEF TypedLook, paneVars
  <2>2. CASE TypedRefused
    BY <1>3, <2>1, <2>2 DEF TypedLook, Ended, PromptsInv, SeenPromptIsLeft
  <2>3. CASE ~TypedRefused
    <3>1. sending.snapshot # "blocked" => modal = "none"
      BY <2>3 DEF TypedRefused, FormShown, PromptsInv
    <3>2. DOMAIN sending' = DOMAIN SendOff /\ sending'.inView = "none"
      BY <1>3, <2>3, <3>1 DEF TypedLook, PromptsInv, SendOff
    <3> QED BY <2>1, <3>2 DEF PromptsInv, SeenPromptIsLeft
  <2> QED BY <2>2, <2>3
<1>4. CASE PromptAgent
  <2>1. DOMAIN sending' = DOMAIN SendOff /\ sending'.inView = "none"
    BY <1>4 DEF PromptAgent, PromptsInv
  <2>2. UNCHANGED <<worker, strayed>> /\ modal' = "none"
    BY <1>4 DEF PromptAgent
  <2> QED BY <2>1, <2>2 DEF PromptsInv, SeenPromptIsLeft
<1>5. CASE PressEnter \/ SecondEnter
  <2>1. DOMAIN sending' = DOMAIN SendOff /\ sending'.inView = "none" /\ UNCHANGED worker
    <3>1. CASE PressEnter
      BY <3>1 DEF PressEnter, PromptsInv
    <3>2. CASE SecondEnter
      BY <3>2 DEF SecondEnter, PromptsInv
    <3> QED BY <1>5, <3>1, <3>2
  <2>2. Press("none")
    BY <1>5 DEF PressEnter, SecondEnter, PromptsInv
  <2> QED BY <2>1, <2>2, PressLeaves DEF PromptsInv
<1>6. CASE SendEnds
  <2>1. DOMAIN sending' = DOMAIN SendOff /\ sending'.inView = "none" /\ UNCHANGED <<paneStatus, modal, strayed>>
    BY <1>6 DEF SendEnds, Ended, PromptsInv, paneVars
  <2>2. /\ \A n \in 1..MaxSends : DOMAIN worker'[n] = DOMAIN WorkerOff /\ worker'[n].inView \in {"none", "form"}
        /\ DOMAIN worker' = 1..MaxSends
    BY <1>6 DEF SendEnds, PromptsInv, WorkerOff
  <2> QED BY <2>1, <2>2 DEF PromptsInv, SeenPromptIsLeft
<1>7. CASE PaneMoves
  BY <1>7 DEF PaneMoves, PromptsInv, SeenPromptIsLeft
<1>8. ASSUME NEW n \in 1..MaxSends, WorkerProbes(n) PROVE PromptsInv'
  <2>1. UNCHANGED <<sending, paneStatus, modal, strayed>>
    BY <1>8 DEF WorkerProbes, paneVars
  <2>2. paneStatus = "idle" => modal \in {"none", "form"}
    BY DEF PromptsInv
  <2>3. /\ \A k \in 1..MaxSends : DOMAIN worker'[k] = DOMAIN WorkerOff /\ worker'[k].inView \in {"none", "form"}
        /\ DOMAIN worker' = 1..MaxSends
    BY <1>8, <2>2 DEF WorkerProbes, PromptsInv, WorkerOff
  <2> QED BY <2>1, <2>3 DEF PromptsInv, SeenPromptIsLeft
<1>9. ASSUME NEW n \in 1..MaxSends, WorkerReadsForm(n) \/ WorkerFails(n) PROVE PromptsInv'
  <2>1. UNCHANGED <<sending, paneStatus, modal, strayed>>
    BY <1>9 DEF WorkerReadsForm, WorkerFails, paneVars
  <2>2. /\ \A k \in 1..MaxSends : DOMAIN worker'[k] = DOMAIN WorkerOff /\ worker'[k].inView \in {"none", "form"}
        /\ DOMAIN worker' = 1..MaxSends
    BY <1>9 DEF WorkerReadsForm, WorkerFails, PromptsInv, WorkerOff
  <2> QED BY <2>1, <2>2 DEF PromptsInv, SeenPromptIsLeft
<1>10. ASSUME NEW n \in 1..MaxSends, WorkerPresses(n) PROVE PromptsInv'
  <2>1. Press(worker[n].inView) /\ modal # "form" /\ UNCHANGED sending
    BY <1>10 DEF WorkerPresses, FormShown
  <2>2. worker' = [worker EXCEPT ![n] = [@ EXCEPT !.tries = worker[n].tries + 1, !.looked = FALSE, !.live = MoreTries(n)]]
    BY <1>10 DEF WorkerPresses, PromptsInv
  <2>3. /\ \A k \in 1..MaxSends : DOMAIN worker'[k] = DOMAIN WorkerOff /\ worker'[k].inView \in {"none", "form"}
        /\ DOMAIN worker' = 1..MaxSends
    BY <2>2 DEF PromptsInv, WorkerOff
  <2>4. worker[n].inView \in {"none", "form"}
    BY DEF PromptsInv
  <2> QED BY <2>1, <2>3, <2>4, PressLeaves DEF PromptsInv
<1>11. CASE UNCHANGED sendVars
  BY <1>11 DEF sendVars, PromptsInv, SeenPromptIsLeft
<1> QED BY <1>1, <1>2, <1>3, <1>4, <1>5, <1>6, <1>7, <1>8, <1>9, <1>10, <1>11 DEF NextSend, SendStep, WorkerStep

\* Typing the next piece of a send, or all of one that has none there yet, keeps the pieces
\* of each send one after the other.
LEMMA NextPieceFollows ==
  ASSUME NEW s \in Seq(PieceRows), Follows(s), NEW n \in Nat, NEW k \in Nat,
         \A i \in 1..Len(s) : s[i][1] <= n,
         \A i \in 1..Len(s) : s[i][1] = n => s[i][2] = k - (Len(s) - i)
  PROVE  /\ Append(s, <<n, k + 1>>) \in Seq(PieceRows) /\ Follows(Append(s, <<n, k + 1>>))
         /\ \A i \in 1..Len(Append(s, <<n, k + 1>>)) :
              /\ Append(s, <<n, k + 1>>)[i][1] <= n
              /\ Append(s, <<n, k + 1>>)[i][1] = n
                   => Append(s, <<n, k + 1>>)[i][2] = (k + 1) - (Len(Append(s, <<n, k + 1>>)) - i)
<1> DEFINE t == Append(s, <<n, k + 1>>)
<1>1. <<n, k + 1>> \in PieceRows
  BY DEF PieceRows
<1>2. t \in Seq(PieceRows) /\ Len(t) = Len(s) + 1 /\ Len(s) \in Nat
  BY <1>1
<1>3. \A i \in 1..Len(s) : t[i] = s[i] /\ s[i] \in PieceRows
  BY <1>1
<1>4. t[Len(s) + 1] = <<n, k + 1>>
  BY <1>1
<1> HIDE DEF t
<1>5. ASSUME NEW i \in 1..Len(t) PROVE t[i][1] <= n /\ (t[i][1] = n => t[i][2] = (k + 1) - (Len(t) - i))
  <2>1. CASE i \in 1..Len(s)
    <3>1. t[i] = s[i] /\ s[i] \in PieceRows /\ s[i][1] <= n /\ (s[i][1] = n => s[i][2] = k - (Len(s) - i))
      BY <1>3, <2>1
    <3>2. k - (Len(s) - i) = (k + 1) - (Len(t) - i)
      BY <1>2, <2>1
    <3> QED BY <3>1, <3>2
  <2>2. CASE i = Len(s) + 1
    BY <1>2, <1>4, <2>2
  <2> QED BY <1>2, <2>1, <2>2
<1>6. ASSUME NEW i \in 1..Len(t), NEW j \in 1..Len(t), t[i][1] = t[j][1] PROVE t[j][2] - t[i][2] = j - i
  <2>1. CASE i \in 1..Len(s) /\ j \in 1..Len(s)
    BY <1>3, <1>6, <2>1 DEF Follows
  <2>2. CASE ~(i \in 1..Len(s) /\ j \in 1..Len(s))
    <3>1. t[i][1] = n /\ t[j][1] = n
      BY <1>2, <1>4, <1>6, <2>2
    <3>2. t[i][2] = (k + 1) - (Len(t) - i) /\ t[j][2] = (k + 1) - (Len(t) - j)
      BY <1>5, <3>1
    <3> QED BY <1>2, <3>2
  <2> QED BY <2>1, <2>2
<1> QED BY <1>2, <1>5, <1>6 DEF Follows, t

LEMMA WholeFollows ==
  ASSUME NEW s \in Seq(PieceRows), Follows(s), NEW n \in Nat, NEW k \in Nat,
         \A i \in 1..Len(s) : s[i][1] <= n /\ s[i][1] # n
  PROVE  /\ s \o [i \in 1..k |-> <<n, i>>] \in Seq(PieceRows) /\ Follows(s \o [i \in 1..k |-> <<n, i>>])
         /\ \A i \in 1..Len(s \o [j \in 1..k |-> <<n, j>>]) : (s \o [j \in 1..k |-> <<n, j>>])[i][1] <= n
<1> DEFINE w == [i \in 1..k |-> <<n, i>>]
           t == s \o w
<1>1. w \in Seq(PieceRows) /\ Len(w) = k
  <2>1. \A i \in 1..k : <<n, i>> \in PieceRows
    BY DEF PieceRows
  <2>2. w \in [1..k -> PieceRows]
    BY <2>1
  <2> QED BY <2>2
<1>2. t \in Seq(PieceRows) /\ Len(t) = Len(s) + k /\ Len(s) \in Nat
  BY <1>1
<1>3. \A i \in 1..Len(s) : t[i] = s[i] /\ s[i] \in PieceRows
  BY <1>1
<1>4. \A i \in Len(s) + 1..Len(t) : t[i] = <<n, i - Len(s)>>
  BY <1>1, <1>2
<1> HIDE DEF w, t
<1>5. ASSUME NEW i \in 1..Len(t) PROVE t[i][1] <= n
  <2>1. CASE i \in 1..Len(s)
    BY <1>3, <2>1
  <2>2. CASE i \in Len(s) + 1..Len(t)
    BY <1>4, <2>2
  <2> QED BY <1>2, <2>1, <2>2
<1>6. ASSUME NEW i \in 1..Len(t), NEW j \in 1..Len(t), t[i][1] = t[j][1] PROVE t[j][2] - t[i][2] = j - i
  <2>1. CASE i \in 1..Len(s) /\ j \in 1..Len(s)
    BY <1>3, <1>6, <2>1 DEF Follows
  <2>2. CASE i \in Len(s) + 1..Len(t) /\ j \in Len(s) + 1..Len(t)
    BY <1>2, <1>4, <2>2
  <2>3. CASE i \in 1..Len(s) /\ j \in Len(s) + 1..Len(t)
    BY <1>3, <1>4, <1>6, <2>3
  <2>4. CASE i \in Len(s) + 1..Len(t) /\ j \in 1..Len(s)
    BY <1>3, <1>4, <1>6, <2>4
  <2> QED BY <1>2, <2>1, <2>2, <2>3, <2>4
<1> QED BY <1>2, <1>5, <1>6 DEF Follows, t, w

\* Steps that type nothing keep the pieces: they may submit the composer, empty it, and
\* leave the typing, not start it.
LEMMA NothingTyped ==
  ASSUME PiecesInv, UNCHANGED sends, DOMAIN sending' = DOMAIN SendOff, sending'.typed = sending.typed,
         composer' \in {<<>>, composer}, submitted' \subseteq submitted \cup {composer},
         sending'.step = "type" => sending.step = "type" /\ sending'.kind = sending.kind /\ sending'.body = sending.body
  PROVE  PiecesInv'
<1>1. OfSends(<<>>) /\ Follows(<<>>)
  BY DEF OfSends, Follows
<1>2. OfSends(composer') /\ \A s \in submitted' : OfSends(s)
  BY <1>1 DEF PiecesInv
<1>3. NoPieceTwice'
  BY <1>1 DEF PiecesInv, NoPieceTwice, Follows
<1>4. sending'.step = "type" =>
        \A i \in 1..Len(composer') : composer'[i][1] = sends => composer'[i][2] = sending'.typed - (Len(composer') - i)
  BY DEF PiecesInv
<1> QED BY <1>2, <1>3, <1>4 DEF PiecesInv, OfSends, TypesKeys

LEMMA PiecesInvInit == InitSend => PiecesInv
<1> SUFFICES ASSUME InitSend PROVE PiecesInv
  OBVIOUS
<1>1. /\ sends = 0 /\ composer = <<>> /\ submitted = {}
      /\ sending = SendOff /\ SendOff.typed = 0
  BY DEF InitSend, SendOff
<1>2. OfSends(<<>>) /\ Follows(<<>>)
  BY DEF OfSends, Follows
<1>3. NoPieceTwice
  BY <1>1, <1>2 DEF NoPieceTwice, Follows
<1> QED BY <1>1, <1>2, <1>3 DEF PiecesInv

LEMMA PiecesAreOrdered == PiecesInv => Follows(composer) /\ \A s \in submitted : Follows(s)
BY DEF PiecesInv, NoPieceTwice, Follows

LEMMA PressTypesNothing ==
  ASSUME NEW seen, Press(seen) PROVE composer' \in {<<>>, composer} /\ submitted' \subseteq submitted \cup {composer}
BY DEF Press

\* A burst of the send under way, typed at the end of the composer.
LEMMA BurstFollows ==
  ASSUME PiecesInv, sending.step = "type"
  PROVE  /\ OfSends(Burst) /\ Follows(Burst)
         /\ \A i \in 1..Len(Burst) :
              Burst[i][1] = sends => Burst[i][2] = (sending.typed + 1) - (Len(Burst) - i)
<1>1. PICK k \in Nat : k = sending.typed
  BY DEF PiecesInv
<1>2. PICK n \in Nat : n = sends
  BY DEF PiecesInv
<1>3. PICK s \in Seq(PieceRows) : s = composer
  BY DEF PiecesInv, OfSends
<1>4. /\ \A i \in 1..Len(s) : s[i][1] <= n
      /\ \A i \in 1..Len(s) : s[i][1] = n => s[i][2] = k - (Len(s) - i)
  BY <1>1, <1>2, <1>3 DEF PiecesInv, OfSends
<1>5. Follows(s)
  BY <1>3, PiecesAreOrdered
<1> DEFINE t == Append(s, <<n, k + 1>>)
<1>6. /\ t \in Seq(PieceRows) /\ Follows(t)
      /\ \A i \in 1..Len(t) : t[i][1] <= n /\ (t[i][1] = n => t[i][2] = (k + 1) - (Len(t) - i))
  BY <1>4, <1>5, NextPieceFollows
<1>7. Burst = t
  BY <1>1, <1>2, <1>3 DEF Burst
<1> HIDE DEF t
<1> QED BY <1>1, <1>2, <1>6, <1>7 DEF OfSends

\* The whole of the send under way, of which nothing was typed.
LEMMA WholeIsNew ==
  ASSUME PiecesInv, sending.step = "type", ~TypesKeys(sending.kind, sending.body)
  PROVE  OfSends(Whole) /\ Follows(Whole)
<1>1. PICK n \in Nat : n = sends
  BY DEF PiecesInv
<1>2. PICK s \in Seq(PieceRows) : s = composer
  BY DEF PiecesInv, OfSends
<1>3. PICK k \in Nat : k = Pieces(sending.body)
  BY DEF Pieces
<1>4. ASSUME NEW i \in 1..Len(s) PROVE s[i][1] <= n /\ s[i][1] # n
  <2>1. s[i] \in PieceRows /\ Len(s) \in Nat
    OBVIOUS
  <2>2. s[i][1] = n => s[i][2] = 0 - (Len(s) - i)
    BY <1>1, <1>2 DEF PiecesInv
  <2>3. s[i][1] <= n
    BY <1>1, <1>2 DEF PiecesInv, OfSends
  <2> QED BY <2>1, <2>2, <2>3 DEF PieceRows
<1>5. Follows(s)
  BY <1>2, PiecesAreOrdered
<1> DEFINE t == s \o [i \in 1..k |-> <<n, i>>]
<1>6. t \in Seq(PieceRows) /\ Follows(t) /\ \A i \in 1..Len(t) : t[i][1] <= n
  BY <1>4, <1>5, WholeFollows
<1>7. Whole = t
  BY <1>1, <1>2, <1>3 DEF Whole
<1> HIDE DEF t
<1> QED BY <1>1, <1>6, <1>7 DEF OfSends

\* Steps that type and leave the typing: the composer or a submission may be a new row.
LEMMA TypedAndLeft ==
  ASSUME PiecesInv, UNCHANGED sends, DOMAIN sending' = DOMAIN SendOff, sending'.typed \in Nat,
         sending'.step # "type", NEW row, OfSends(row), Follows(row),
         composer' \in {<<>>, composer, row}, submitted' \subseteq submitted \cup {row}
  PROVE  PiecesInv'
<1>1. OfSends(<<>>) /\ Follows(<<>>)
  BY DEF OfSends, Follows
<1>2. OfSends(composer') /\ \A s \in submitted' : OfSends(s)
  BY <1>1 DEF PiecesInv
<1>3. Follows(composer') /\ \A s \in submitted' : Follows(s)
  BY <1>1, PiecesAreOrdered
<1>4. NoPieceTwice'
  BY <1>3 DEF NoPieceTwice, Follows
<1> QED BY <1>2, <1>4 DEF PiecesInv, OfSends

LEMMA PiecesInvStep == PiecesInv /\ [NextSend]_sendVars => PiecesInv'
<1> SUFFICES ASSUME PiecesInv, [NextSend]_sendVars PROVE PiecesInv'
  OBVIOUS
<1>1. ASSUME NEW kind \in SendKinds, NEW body \in MessageKinds, BeginSend(kind, body) \/ BeginSendUnprobed(kind, body)
      PROVE  PiecesInv'
  <2>1. /\ DOMAIN sending' = DOMAIN SendOff /\ sending'.typed = 0
        /\ sends' = sends + 1 /\ UNCHANGED <<composer, submitted>>
    BY <1>1 DEF BeginSend, BeginSendUnprobed, SendOff, paneVars
  <2>2. \A s : OfSends(s) => OfSends(s)' /\ \A i \in 1..Len(s) : s[i][1] # sends'
    BY <2>1 DEF OfSends, PiecesInv, PieceRows
  <2>3. OfSends(composer)' /\ (\A s \in submitted' : OfSends(s)') /\ \A i \in 1..Len(composer') : composer'[i][1] # sends'
    BY <2>1, <2>2 DEF PiecesInv
  <2>4. NoPieceTwice'
    BY <2>1 DEF PiecesInv, NoPieceTwice
  <2>5. sends' \in Nat /\ sending'.typed \in Nat
    BY <2>1 DEF PiecesInv
  <2>6. \A i \in 1..Len(composer') : composer'[i][1] = sends' => composer'[i][2] = sending'.typed - (Len(composer') - i)
    BY <2>3
  <2> QED BY <2>1, <2>3, <2>4, <2>5, <2>6 DEF PiecesInv
<1>2. CASE TypeChunk
  <2>1. sending.step = "type" /\ TypesKeys(sending.kind, sending.body)
    BY <1>2 DEF TypeChunk, Typing
  <2>2. /\ DOMAIN sending' = DOMAIN SendOff /\ sending'.typed = sending.typed + 1
        /\ sending'.kind = sending.kind /\ sending'.body = sending.body
        /\ UNCHANGED <<sends, submitted>> /\ composer' = Burst
    BY <1>2 DEF TypeChunk, AfterBurst, PiecesInv, SendOff
  <2>3. OfSends(composer') /\ Follows(composer')
    BY <2>1, <2>2, BurstFollows
  <2>4. NoPieceTwice'
    BY <2>2, <2>3, PiecesAreOrdered DEF NoPieceTwice, Follows
  <2>5. \A i \in 1..Len(composer') : composer'[i][1] = sends => composer'[i][2] = sending'.typed - (Len(composer') - i)
    BY <2>1, <2>2, BurstFollows
  <2>6. sending'.typed \in Nat /\ TypesKeys(sending.kind, sending.body)'
    BY <2>1, <2>2 DEF PiecesInv, TypesKeys
  <2>7. (\A s \in submitted' : OfSends(s)') /\ OfSends(composer)'
    BY <2>2, <2>3 DEF PiecesInv, OfSends
  <2> QED BY <2>2, <2>4, <2>5, <2>6, <2>7 DEF PiecesInv
<1>3. CASE TypeChunkFails
  <2>1. PICK why \in {"dial", "method", "typed", "lost"} :
          /\ composer' = IF why = "typed" THEN Burst ELSE composer
          /\ sending' = IF SocketUnusable(why) THEN [sending EXCEPT !.socket = FALSE] ELSE Ended
    BY <1>3 DEF TypeChunkFails
  <2>2. UNCHANGED <<sends, submitted>> /\ sending.step = "type"
    BY <1>3 DEF TypeChunkFails, Typing
  <2>3. CASE why = "typed"
    <3>1. composer' = Burst /\ sending' = Ended
      BY <2>1, <2>3 DEF SocketUnusable
    <3>2. DOMAIN sending' = DOMAIN SendOff /\ sending'.typed \in Nat /\ sending'.step # "type"
      BY <3>1 DEF Ended, PiecesInv, SendOff
    <3>3. OfSends(Burst) /\ Follows(Burst)
      BY <2>2, BurstFollows
    <3> QED BY <2>2, <3>1, <3>2, <3>3, TypedAndLeft
  <2>4. CASE why # "typed"
    <3>1. composer' = composer /\ (sending' = [sending EXCEPT !.socket = FALSE] \/ sending' = Ended)
      BY <2>1, <2>4
    <3>2. /\ DOMAIN sending' = DOMAIN SendOff /\ sending'.typed = sending.typed
          /\ sending'.kind = sending.kind /\ sending'.body = sending.body
      BY <3>1 DEF Ended, PiecesInv, SendOff
    <3> QED BY <2>2, <3>1, <3>2, NothingTyped
  <2> QED BY <2>3, <2>4
<1>4. CASE SendText
  <2>1. /\ DOMAIN sending' = DOMAIN SendOff /\ sending'.typed = 1 /\ sending'.step # "type"
        /\ UNCHANGED <<sends, submitted>>
    BY <1>4 DEF SendText, PiecesInv, SendOff
  <2>2. sending.step = "type" /\ ~TypesKeys(sending.kind, sending.body)
    BY <1>4 DEF SendText, TypesKeys
  <2>3. sending.typed = 0
    BY <2>2 DEF PiecesInv
  <2>4. composer' \in {composer, Burst}
    BY <1>4, <2>3 DEF SendText, Burst
  <2>5. OfSends(Burst) /\ Follows(Burst)
    BY <2>2, BurstFollows
  <2> QED BY <2>1, <2>4, <2>5, TypedAndLeft
<1>5. CASE PromptAgent \/ LegacySend
  <2>1. /\ DOMAIN sending' = DOMAIN SendOff /\ sending'.typed = Pieces(sending.body) /\ sending'.step # "type"
        /\ UNCHANGED sends
    BY <1>5 DEF PromptAgent, LegacySend, PiecesInv, SendOff
  <2>2. sending.step = "type" /\ ~TypesKeys(sending.kind, sending.body)
    BY <1>5 DEF PromptAgent, LegacySend, Pasting, Typing
  <2>3. composer' \in {<<>>, composer, Whole} /\ submitted' \subseteq submitted \cup {Whole}
    BY <1>5 DEF PromptAgent, LegacySend
  <2>4. OfSends(Whole) /\ Follows(Whole)
    BY <2>2, WholeIsNew
  <2>5. sending'.typed \in Nat
    BY <2>1 DEF Pieces
  <2> QED BY <2>1, <2>3, <2>4, <2>5, TypedAndLeft
<1>6. CASE TypedLook \/ SendFails \/ SendEnds
  <2>1. /\ DOMAIN sending' = DOMAIN SendOff /\ sending'.typed = sending.typed /\ sending'.step # "type"
        /\ UNCHANGED <<sends, composer, submitted>>
    BY <1>6 DEF TypedLook, SendFails, SendEnds, Ended, PiecesInv, SendOff, paneVars
  <2> QED BY <2>1, NothingTyped
<1>7. CASE PressEnter \/ SecondEnter
  <2>1. /\ DOMAIN sending' = DOMAIN SendOff /\ sending'.typed = sending.typed /\ sending'.step # "type"
        /\ UNCHANGED sends
    BY <1>7 DEF PressEnter, SecondEnter, PiecesInv, SendOff
  <2>2. composer' \in {<<>>, composer} /\ submitted' \subseteq submitted \cup {composer}
    BY <1>7, PressTypesNothing DEF PressEnter, SecondEnter
  <2> QED BY <2>1, <2>2, NothingTyped
<1>8. ASSUME NEW n \in 1..MaxSends, WorkerStep(n) \/ WorkerFails(n) PROVE PiecesInv'
  <2>1. UNCHANGED <<sends, sending>>
    BY <1>8 DEF WorkerStep, WorkerProbes, WorkerReadsForm, WorkerPresses, WorkerFails
  <2>2. composer' \in {<<>>, composer} /\ submitted' \subseteq submitted \cup {composer}
    BY <1>8, PressTypesNothing DEF WorkerStep, WorkerProbes, WorkerReadsForm, WorkerPresses, WorkerFails, paneVars
  <2> QED BY <2>1, <2>2, NothingTyped DEF PiecesInv
<1>9. CASE PaneMoves \/ UNCHANGED sendVars
  <2>1. UNCHANGED <<sends, sending, composer, submitted>>
    BY <1>9 DEF PaneMoves, sendVars
  <2> QED BY <2>1, NothingTyped DEF PiecesInv
<1> QED BY <1>1, <1>2, <1>3, <1>4, <1>5, <1>6, <1>7, <1>8, <1>9 DEF NextSend, SendStep

\* However a burst fails, nothing of a message is typed twice and its pieces follow one
\* another (submitKeystrokes); and an Enter of the typed route or of a retry worker commits
\* no prompt that stood when its presser looked (typedSubmitRefusal, retrySubmitEnter).
THEOREM MessagesAreTypedOnce == SpecSend => [](NoPieceTwice /\ SeenPromptIsLeft)
<1>1. PiecesInv /\ PromptsInv => NoPieceTwice /\ SeenPromptIsLeft
  BY DEF PiecesInv, PromptsInv
<1> QED BY <1>1, PiecesInvInit, PiecesInvStep, PromptsInvInit, PromptsInvStep, PTL DEF SpecSend

-----------------------------------------------------------------------------
(* The orchestrator's session *)

IdRecs == [pane : OrchPanes \cup {0}, term : 0..MaxOrchTerminals, briefed : BOOLEAN, briefs : Nat, dormant : BOOLEAN,
           unconfirmed : BOOLEAN, target : BOOLEAN, nudges : Nat, reclaimed : BOOLEAN]

PassSteps == {"idle", "listed", "lookup", "opened", "started", "brief", "nudge", "briefSent", "nudgeSent", "nudgeFailed"}

\* What an identity says of its terminal: hap briefs none but its own, puts to sleep none it
\* did not brief, and reclaims none that heard nothing from it.
IdOK(i) ==
  /\ i \in IdRecs
  /\ i.dormant => i.briefed
  /\ ~i.briefed \/ i.briefs > 0 => i.term \in own \cup {0}
  /\ i.reclaimed /\ i.term # 0 => landed[i.term] # "nothing"

\* An identity that is what its terminal last heard.
RecordOK(i) ==
  i.term \notin strayNudges \cup {0} /\ HapBriefed(i) /\ ~i.unconfirmed
    => landed[i.term] = IF i.dormant THEN "dormant" ELSE "awake"

\* herdr and the pass.
HerdrOK ==
  /\ landed \in [Terminals -> {"nothing", "awake", "dormant"}]
  /\ paneTenant \in [OrchPanes -> 0..MaxOrchTerminals]
  /\ holder \in 0..MaxOrchTerminals /\ terminals \in Nat
  /\ holder # 0 => \E p \in OrchPanes : paneTenant[p] = holder
  /\ DOMAIN orchPass = DOMAIN NoPass /\ orchPass.at \in PassSteps /\ orchPass.dormancy \in BOOLEAN

\* The file is the record, but while a pane is being opened: then the record is the pane's,
\* provisionally, and whoever is in the pane was started by hap.
SavedOK ==
  IF orchPass.at \in {"opened", "started"}
  THEN /\ id = [UnknownId EXCEPT !.pane = orchPass.pane]
       /\ orchPass.pane \in OrchPanes /\ paneTenant[orchPass.pane] \in own \cup {0}
  ELSE saved = id

\* The copy the pass works on: unless the record was dropped meanwhile, it is the record's,
\* and what was sent is what is about to be recorded.
MineOK ==
  LET mine == orchPass.mine
  IN /\ orchPass.at \in {"lookup", "briefSent"} => RecordOK(mine)
     /\ orchPass.at \in {"brief", "nudge", "briefSent", "nudgeSent", "nudgeFailed"} =>
          Known(mine) /\ (id = UnknownId \/ CurrentInstall(mine))
     /\ orchPass.at = "brief" => id = UnknownId \/ (HapBriefed(id) <=> HapBriefed(mine))
     /\ orchPass.at \in {"nudge", "nudgeSent", "nudgeFailed"} =>
          HapBriefed(mine) /\ (id = UnknownId \/ HapBriefed(id))
     /\ orchPass.at = "nudgeSent" =>
          mine.term \in strayNudges \cup {0} \/ landed[mine.term] = IF orchPass.dormancy THEN "dormant" ELSE "awake"

\* The inductive invariant.
OrchInv ==
  /\ HerdrOK
  /\ IdOK(id) /\ IdOK(saved) /\ IdOK(orchPass.mine)
  /\ SavedOK
  /\ ~Sent => RecordOK(id) /\ RecordOK(saved)
  /\ MineOK

LEMMA UnknownIsOK == IdOK(UnknownId) /\ RecordOK(UnknownId) /\ ~Known(UnknownId)
BY OrchAssumption DEF IdOK, RecordOK, UnknownId, IdRecs, Known

LEMMA OrchInvInit == InitOrch => OrchInv
<1> SUFFICES ASSUME InitOrch PROVE OrchInv
  OBVIOUS
<1>1. orchPass = NoPass /\ NoPass.at = "idle" /\ NoPass.mine = UnknownId
  BY DEF InitOrch, NoPass
<1>2. HerdrOK
  <2>1. landed \in [Terminals -> {"nothing", "awake", "dormant"}] /\ holder = 0 /\ terminals = 0
    BY DEF InitOrch
  <2>2. paneTenant \in [OrchPanes -> 0..MaxOrchTerminals] /\ 0 \in 0..MaxOrchTerminals
    BY OrchAssumption DEF InitOrch
  <2>3. NoPass.dormancy \in BOOLEAN /\ DOMAIN orchPass = DOMAIN NoPass
    BY <1>1 DEF NoPass
  <2> QED BY <1>1, <2>1, <2>2, <2>3 DEF HerdrOK, PassSteps
<1>3. id = UnknownId /\ saved = UnknownId
  BY DEF InitOrch
<1> QED BY <1>1, <1>2, <1>3, UnknownIsOK DEF OrchInv, SavedOK, MineOK

\* Identities stay right when terminals are started, texts land elsewhere and records are
\* known to be wrong.
LEMMA IdsStay ==
  ASSUME NEW i, IdOK(i), own \subseteq own', \A t \in Terminals : landed[t] # "nothing" => landed'[t] # "nothing"
  PROVE  IdOK(i)'
<1>1. i \in IdRecs
  BY DEF IdOK
<1>2. i.term # 0 => i.term \in Terminals
  BY <1>1, OrchAssumption DEF IdRecs, Terminals
<1> QED BY <1>1, <1>2 DEF IdOK

LEMMA RecordsStay ==
  ASSUME NEW i, RecordOK(i), strayNudges \subseteq strayNudges', landed'[i.term] = landed[i.term]
  PROVE  RecordOK(i)'
BY DEF RecordOK, HapBriefed

\* Steps outside the pass that leave the records alone.
LEMMA HerdMoves ==
  ASSUME OrchInv, UNCHANGED <<id, saved, orchPass, landed, strayNudges>>,
         own \subseteq own', HerdrOK',
         orchPass.at \in {"opened", "started"} => paneTenant'[orchPass.pane] \in own' \cup {0}
  PROVE  OrchInv'
<1>1. IdOK(id)' /\ IdOK(saved)' /\ IdOK(orchPass.mine)'
  BY IdsStay DEF OrchInv
<1>2. SavedOK'
  BY DEF OrchInv, SavedOK
<1>3. (~Sent => RecordOK(id) /\ RecordOK(saved))'
  BY DEF OrchInv, Sent, RecordOK
<1>4. MineOK'
  BY DEF OrchInv, MineOK, RecordOK, CurrentInstall
<1> QED BY <1>1, <1>2, <1>3, <1>4 DEF OrchInv

\* The end of a pass, whatever became of the record.
LEMMA PassIsOver ==
  ASSUME OrchInv, orchPass' = NoPass, HerdrOK', UNCHANGED <<own, landed>>,
         IdOK(id'), RecordOK(id)', saved' = id'
  PROVE  OrchInv'
<1>1. NoPass.at = "idle" /\ NoPass.mine = UnknownId
  BY DEF NoPass
<1>2. IdOK(id)' /\ IdOK(saved)' /\ IdOK(orchPass.mine)'
  BY <1>1, UnknownIsOK DEF IdOK
<1>3. SavedOK' /\ MineOK'
  BY <1>1 DEF SavedOK, MineOK
<1>4. RecordOK(saved)'
  BY DEF RecordOK
<1> QED BY <1>2, <1>3, <1>4 DEF OrchInv

\* The record goes over to another identity the daemon is sure of, or the pass takes the
\* record as it is.
LEMMA PassTakesUp ==
  ASSUME OrchInv, NEW i, IdOK(i), RecordOK(i), Known(i), NEW at \in {"brief", "nudge"}, at = "nudge" => HapBriefed(i),
         orchPass' = Working(at, i), id' = i, saved' = i,
         UNCHANGED <<herdrVars, strayNudges>>
  PROVE  OrchInv'
<1>1. /\ orchPass'.at = at /\ orchPass'.mine = i /\ DOMAIN orchPass' = DOMAIN NoPass
      /\ orchPass'.dormancy = orchPass.dormancy
  BY DEF Working, NoPass
<1>2. HerdrOK'
  BY <1>1 DEF OrchInv, HerdrOK, herdrVars, PassSteps
<1>3. IdOK(id)' /\ IdOK(saved)' /\ IdOK(orchPass.mine)'
  BY <1>1 DEF IdOK, herdrVars
<1>4. RecordOK(id)' /\ RecordOK(saved)'
  BY DEF RecordOK, herdrVars
<1>5. SavedOK' /\ MineOK'
  BY <1>1 DEF SavedOK, MineOK, CurrentInstall, Known
<1> QED BY <1>2, <1>3, <1>4, <1>5 DEF OrchInv

LEMMA SettledIs ==
  ASSUME NEW i, IdOK(i)
  PROVE  /\ IdOK(Settled(i))
         /\ Settled(i).pane = i.pane /\ Settled(i).term = i.term /\ Settled(i).dormant = i.dormant
         /\ Settled(i).unconfirmed = i.unconfirmed /\ (HapBriefed(Settled(i)) <=> HapBriefed(i))
         /\ i.nudges = 0 => Settled(i) = i
<1>1. i \in IdRecs
  BY DEF IdOK
<1>2. CASE i.target = modeOn /\ i.nudges > 0
  <2>1. PICK k : k = [i EXCEPT !.target = ~modeOn, !.nudges = 0]
    OBVIOUS
  <2>2. Settled(i) = k
    BY <1>2, <2>1 DEF Settled
  <2>3. /\ k.pane = i.pane /\ k.term = i.term /\ k.dormant = i.dormant /\ k.briefed = i.briefed /\ k.briefs = i.briefs
        /\ k.unconfirmed = i.unconfirmed /\ k.reclaimed = i.reclaimed
    BY <1>1, <2>1 DEF IdRecs
  <2>4. k \in IdRecs
    BY <1>1, <2>1 DEF IdRecs
  <2> QED BY <1>2, <2>2, <2>3, <2>4 DEF IdOK, HapBriefed
<1>3. CASE ~(i.target = modeOn /\ i.nudges > 0)
  BY <1>3 DEF Settled
<1> QED BY <1>2, <1>3

LEMMA SweepsKeep == OrchInv /\ (SweepObserves \/ Sweep) => OrchInv'
<1> SUFFICES ASSUME OrchInv, SweepObserves \/ Sweep PROVE OrchInv'
  OBVIOUS
<1>1. CASE SweepObserves
  <2>1. /\ id' = UnknownId /\ saved' = UnknownId /\ id.term # 0
        /\ UNCHANGED <<orchPass, landed, own, paneTenant, holder, terminals, strayNudges>>
    BY <1>1 DEF SweepObserves, RecycledBy, herdrVars, orchBudgetVars
  <2>2. orchPass.at \notin {"opened", "started"}
    BY <2>1 DEF OrchInv, SavedOK, UnknownId
  <2>3. IdOK(id)' /\ IdOK(saved)' /\ IdOK(orchPass.mine)'
    BY <2>1, UnknownIsOK DEF OrchInv, IdOK
  <2>4. RecordOK(id)' /\ RecordOK(saved)'
    BY <2>1, UnknownIsOK DEF RecordOK, UnknownId
  <2>5. MineOK'
    BY <2>1 DEF OrchInv, MineOK, RecordOK
  <2> QED BY <2>1, <2>2, <2>3, <2>4, <2>5 DEF OrchInv, SavedOK, HerdrOK
<1>2. CASE Sweep
  <2>1. PICK kept : kept = Settled(id)
    OBVIOUS
  <2>2. /\ id' = kept /\ saved' = IF kept # id THEN kept ELSE saved
        /\ UNCHANGED <<landed, own, paneTenant, holder, terminals, strayNudges>>
        /\ \/ UNCHANGED orchPass
           \/ orchPass.at = "idle" /\ orchPass' = [at |-> "listed", dormancy |-> ~modeOn, listing |-> paneTenant, mine |-> kept, pane |-> 0]
    BY <1>2, <2>1 DEF Sweep, herdrVars, orchBudgetVars
  <2>3. /\ IdOK(kept) /\ kept.pane = id.pane /\ kept.term = id.term /\ kept.dormant = id.dormant
        /\ kept.unconfirmed = id.unconfirmed /\ (HapBriefed(kept) <=> HapBriefed(id)) /\ (id.nudges = 0 => kept = id)
    BY <2>1, SettledIs DEF OrchInv
  <2>4. orchPass.at \in {"opened", "started"} => kept = id
    BY <2>3 DEF OrchInv, SavedOK, UnknownId
  <2>5. id = UnknownId => kept = id
    BY <2>3 DEF UnknownId
  <2>6. ~Sent => RecordOK(kept)
    BY <2>3 DEF OrchInv, RecordOK
  <2>7. CASE UNCHANGED orchPass
    <3>1. IdOK(id)' /\ IdOK(saved)' /\ IdOK(orchPass.mine)'
      BY <2>2, <2>3, <2>7 DEF OrchInv, IdOK
    <3>2. (~Sent => RecordOK(id) /\ RecordOK(saved))'
      BY <2>2, <2>6, <2>7 DEF OrchInv, RecordOK, Sent
    <3>3. MineOK'
      BY <2>2, <2>3, <2>5, <2>7 DEF OrchInv, MineOK, RecordOK, CurrentInstall
    <3>4. SavedOK'
      BY <2>2, <2>4, <2>7 DEF OrchInv, SavedOK
    <3> QED BY <2>2, <2>7, <3>1, <3>2, <3>3, <3>4 DEF OrchInv, HerdrOK
  <2>8. CASE orchPass.at = "idle" /\ orchPass' = [at |-> "listed", dormancy |-> ~modeOn, listing |-> paneTenant, mine |-> kept, pane |-> 0]
    <3>1. orchPass'.at = "listed" /\ orchPass'.mine = kept /\ DOMAIN orchPass' = DOMAIN NoPass /\ orchPass'.dormancy \in BOOLEAN
      BY <2>8 DEF NoPass
    <3>2. saved' = id'
      BY <2>2, <2>8 DEF OrchInv, SavedOK
    <3>3. IdOK(id)' /\ IdOK(saved)' /\ IdOK(orchPass.mine)'
      BY <2>2, <2>3, <3>1, <3>2 DEF IdOK
    <3>4. RecordOK(id)' /\ RecordOK(saved)'
      BY <2>2, <2>6, <2>8, <3>2 DEF RecordOK, Sent
    <3>5. MineOK' /\ SavedOK'
      BY <3>1, <3>2 DEF MineOK, SavedOK
    <3>6. HerdrOK'
      BY <2>2, <3>1 DEF OrchInv, HerdrOK, PassSteps
    <3> QED BY <3>3, <3>4, <3>5, <3>6 DEF OrchInv
  <2> QED BY <2>2, <2>7, <2>8
<1> QED BY <1>1, <1>2

LEMMA ListedKeeps == OrchInv /\ EnsureListed => OrchInv'
<1> SUFFICES ASSUME OrchInv, EnsureListed PROVE OrchInv'
  OBVIOUS
<1>1. /\ UNCHANGED <<id, saved, herdrVars, strayNudges>> /\ orchPass.at = "listed"
      /\ saved = id /\ IdOK(id) /\ RecordOK(id)
  BY DEF EnsureListed, orchBudgetVars, OrchInv, SavedOK, Sent
<1>2. CASE orchPass' = NoPass
  <2>1. HerdrOK'
    BY <1>1, <1>2 DEF OrchInv, HerdrOK, herdrVars, NoPass, PassSteps
  <2>2. RecordOK(id)' /\ IdOK(id')
    BY <1>1 DEF RecordOK, herdrVars
  <2> QED BY <1>1, <1>2, <2>1, <2>2, PassIsOver DEF herdrVars
<1>3. CASE orchPass' = Working("nudge", id) /\ SessionAlive(id, orchPass.listing) /\ NudgeOwed(id, TRUE)
  <2>1. Known(id) /\ HapBriefed(id)
    BY <1>3 DEF SessionAlive, NudgeOwed
  <2> QED BY <1>1, <1>3, <2>1, PassTakesUp
<1>4. CASE orchPass' = Working("brief", id) /\ SessionAlive(id, orchPass.listing)
  <2>1. Known(id)
    BY <1>4 DEF SessionAlive
  <2> QED BY <1>1, <1>4, <2>1, PassTakesUp
<1>5. CASE orchPass' = [orchPass EXCEPT !.at = "lookup", !.mine = id]
  <2>1. orchPass'.at = "lookup" /\ orchPass'.mine = id /\ DOMAIN orchPass' = DOMAIN NoPass
        /\ orchPass'.dormancy = orchPass.dormancy
    BY <1>5 DEF OrchInv, HerdrOK, NoPass
  <2>2. HerdrOK'
    BY <1>1, <2>1 DEF OrchInv, HerdrOK, herdrVars, PassSteps
  <2>3. IdOK(id)' /\ IdOK(saved)' /\ IdOK(orchPass.mine)'
    BY <1>1, <2>1 DEF IdOK, herdrVars
  <2>4. RecordOK(id)' /\ RecordOK(saved)'
    BY <1>1 DEF RecordOK, herdrVars
  <2>5. MineOK' /\ SavedOK'
    BY <1>1, <2>1, <2>4 DEF MineOK, SavedOK, RecordOK
  <2> QED BY <2>2, <2>3, <2>4, <2>5 DEF OrchInv
<1> QED BY <1>2, <1>3, <1>4, <1>5 DEF EnsureListed, EndPass

LEMMA FoundIsOK ==
  ASSUME OrchInv, NEW prev, IdOK(prev), RecordOK(prev), holder # 0, NEW read \in BOOLEAN
  PROVE  IdOK(Reclaimed(holder, prev, read)) /\ RecordOK(Reclaimed(holder, prev, read)) /\ Known(Reclaimed(holder, prev, read))
<1>1. PICK p \in OrchPanes : p = PaneOf(holder)
  BY DEF OrchInv, HerdrOK, PaneOf
<1>2. p # 0 /\ holder \in 0..MaxOrchTerminals
  BY OrchAssumption DEF OrchInv, HerdrOK
<1>3. PICK found : found = [UnknownId EXCEPT !.pane = p, !.term = holder, !.briefed = TRUE]
  OBVIOUS
<1>4. /\ found \in IdRecs /\ found.pane = p /\ found.term = holder /\ found.briefed /\ found.briefs = 0
      /\ ~found.dormant /\ ~found.reclaimed
  BY <1>2, <1>3 DEF UnknownId, IdRecs
<1>5. CASE HapBriefed(prev) /\ prev.term = holder
  <2>1. PICK k : k = [prev EXCEPT !.pane = p]
    OBVIOUS
  <2>2. Reclaimed(holder, prev, read) = k
    BY <1>1, <1>5, <2>1 DEF Reclaimed
  <2>3. /\ k.pane = p /\ k.term = prev.term /\ k.dormant = prev.dormant /\ k.briefed = prev.briefed
        /\ k.briefs = prev.briefs /\ k.unconfirmed = prev.unconfirmed /\ k.reclaimed = prev.reclaimed /\ k \in IdRecs
    BY <2>1 DEF IdOK, IdRecs
  <2> QED BY <1>2, <2>2, <2>3 DEF IdOK, RecordOK, HapBriefed, Known
<1>6. CASE ~(HapBriefed(prev) /\ prev.term = holder) /\ (read /\ DormantOnScreen(holder))
  <2>1. PICK k : k = [found EXCEPT !.reclaimed = TRUE, !.dormant = TRUE, !.target = TRUE]
    OBVIOUS
  <2>2. Reclaimed(holder, prev, read) = k
    BY <1>1, <1>3, <1>6, <2>1 DEF Reclaimed
  <2>3. /\ k \in IdRecs /\ k.pane = p /\ k.term = holder /\ k.briefed /\ k.dormant /\ k.reclaimed /\ k.briefs = 0
    BY <1>4, <2>1 DEF IdRecs
  <2>4. RecordOK(k) /\ Known(k)
    BY <1>2, <1>6, <2>3 DEF RecordOK, Known, DormantOnScreen
  <2>5. IdOK(k)
    BY <1>6, <2>3 DEF IdOK, DormantOnScreen
  <2> QED BY <2>2, <2>4, <2>5
<1>7. CASE ~(HapBriefed(prev) /\ prev.term = holder) /\ ~(read /\ DormantOnScreen(holder))
  <2>1. Reclaimed(holder, prev, read) = found
    BY <1>1, <1>3, <1>7 DEF Reclaimed
  <2>2. RecordOK(found) /\ Known(found)
    BY <1>2, <1>4 DEF RecordOK, HapBriefed, Known
  <2>3. IdOK(found)
    BY <1>4 DEF IdOK
  <2> QED BY <2>1, <2>2, <2>3
<1> QED BY <1>5, <1>6, <1>7

LEMMA LookupKeeps == OrchInv /\ (LookupFound \/ LookupFails \/ OpenPane) => OrchInv'
<1> SUFFICES ASSUME OrchInv, LookupFound \/ LookupFails \/ OpenPane PROVE OrchInv'
  OBVIOUS
<1>1. orchPass.at = "lookup" /\ saved = id /\ RecordOK(id) /\ IdOK(id) /\ UNCHANGED <<herdrVars, strayNudges>>
  BY DEF OrchInv, SavedOK, Sent, LookupFound, LookupFails, OpenPane, orchBudgetVars
<1>2. CASE LookupFound
  <2>0. PICK read \in BOOLEAN : Install(Reclaimed(holder, orchPass.mine, read))
    BY <1>2 DEF LookupFound
  <2>1. PICK i : i = Reclaimed(holder, orchPass.mine, read)
    OBVIOUS
  <2>2. holder # 0 /\ id' = i /\ saved' = i /\ orchPass' = Working("brief", i)
    BY <1>2, <2>0, <2>1 DEF LookupFound, Install
  <2>3. IdOK(orchPass.mine) /\ RecordOK(orchPass.mine)
    BY <1>1 DEF OrchInv, MineOK
  <2>4. IdOK(i) /\ RecordOK(i) /\ Known(i)
    BY <2>1, <2>2, <2>3, FoundIsOK
  <2> QED BY <1>1, <2>2, <2>4, PassTakesUp
<1>3. CASE orchPass' = NoPass /\ UNCHANGED <<id, saved>>
  <2>1. HerdrOK'
    BY <1>1, <1>3 DEF OrchInv, HerdrOK, herdrVars, NoPass, PassSteps
  <2>2. RecordOK(id)' /\ IdOK(id')
    BY <1>1, <1>3 DEF RecordOK, herdrVars
  <2> QED BY <1>1, <1>3, <2>1, <2>2, PassIsOver DEF herdrVars
<1>4. CASE OpenPane /\ SpawnAllowed
  <2>1. PICK p \in OrchPanes : /\ paneTenant[p] = 0 /\ id' = [UnknownId EXCEPT !.pane = p]
                               /\ orchPass' = [orchPass EXCEPT !.at = "opened", !.pane = p, !.mine = UnknownId]
    BY <1>4 DEF OpenPane
  <2>2. /\ orchPass'.at = "opened" /\ orchPass'.pane = p /\ orchPass'.mine = UnknownId /\ DOMAIN orchPass' = DOMAIN NoPass
        /\ orchPass'.dormancy = orchPass.dormancy
    BY <2>1 DEF OrchInv, HerdrOK, NoPass
  <2>3. saved' = saved
    BY <1>4 DEF OpenPane
  <2>4. HerdrOK'
    BY <1>1, <2>2 DEF OrchInv, HerdrOK, herdrVars, PassSteps
  <2>5. IdOK(id)' /\ RecordOK(id)'
    BY <2>1, UnknownIsOK DEF IdOK, IdRecs, UnknownId, RecordOK
  <2>6. IdOK(saved)' /\ IdOK(orchPass.mine)' /\ RecordOK(saved)'
    BY <1>1, <2>2, <2>3, UnknownIsOK DEF IdOK, RecordOK, herdrVars
  <2>7. SavedOK' /\ MineOK'
    BY <1>1, <2>1, <2>2 DEF SavedOK, MineOK, herdrVars
  <2> QED BY <2>4, <2>5, <2>6, <2>7 DEF OrchInv
<1> QED BY <1>2, <1>3, <1>4 DEF LookupFails, OpenPane, EndPass

LEMMA AbandonKeeps ==
  ASSUME OrchInv, orchPass.at \in {"opened", "started"}, NEW failed \in BOOLEAN, Abandon(failed), UNCHANGED <<terminals, own, landed>>
  PROVE  OrchInv'
<1>1. id.pane = orchPass.pane /\ id.term = 0 /\ orchPass.pane \in OrchPanes
  BY DEF OrchInv, SavedOK, UnknownId
<1>2. id' = UnknownId /\ saved' = UnknownId /\ orchPass' = NoPass
  BY <1>1 DEF Abandon, EndPass
<1>3. HerdrOK'
  <2>1. paneTenant' \in [OrchPanes -> 0..MaxOrchTerminals] /\ holder' \in 0..MaxOrchTerminals
    BY <1>1, OrchAssumption DEF Abandon, OrchInv, HerdrOK
  <2>2. holder' # 0 => \E p \in OrchPanes : paneTenant'[p] = holder'
    <3> SUFFICES ASSUME holder' # 0 PROVE \E p \in OrchPanes : paneTenant'[p] = holder'
      OBVIOUS
    <3>1. holder' = holder /\ holder # 0 /\ holder # paneTenant[orchPass.pane]
      BY DEF Abandon
    <3>2. PICK p \in OrchPanes : paneTenant[p] = holder
      BY <3>1 DEF OrchInv, HerdrOK
    <3>3. paneTenant'[p] = paneTenant[p]
      BY <3>1, <3>2 DEF Abandon, OrchInv, HerdrOK
    <3> QED BY <3>1, <3>2, <3>3
  <2> QED BY <1>2, <2>1, <2>2 DEF OrchInv, HerdrOK, NoPass, PassSteps
<1>4. IdOK(id') /\ RecordOK(id)' /\ saved' = id'
  BY <1>2, UnknownIsOK DEF RecordOK, UnknownId
<1> QED BY <1>2, <1>3, <1>4, PassIsOver

LEMMA StartKeeps == OrchInv /\ (AbandonUnpermitted \/ StartAgent \/ Started) => OrchInv'
<1> SUFFICES ASSUME OrchInv, AbandonUnpermitted \/ StartAgent \/ Started PROVE OrchInv'
  OBVIOUS
<1>1. CASE AbandonUnpermitted
  BY <1>1, AbandonKeeps DEF AbandonUnpermitted
<1>2. CASE StartAgent
  <2>1. /\ orchPass.at = "opened" /\ orchPass' = [orchPass EXCEPT !.at = "started"]
        /\ UNCHANGED <<id, saved, landed, strayNudges>>
    BY <1>2 DEF StartAgent, orchBudgetVars
  <2>2. /\ orchPass'.at = "started" /\ orchPass'.mine = orchPass.mine /\ orchPass'.pane = orchPass.pane
        /\ DOMAIN orchPass' = DOMAIN NoPass /\ orchPass'.dormancy = orchPass.dormancy
    BY <2>1 DEF OrchInv, HerdrOK, NoPass
  <2>3. orchPass.pane \in OrchPanes /\ id = [UnknownId EXCEPT !.pane = orchPass.pane]
        /\ paneTenant[orchPass.pane] \in own \cup {0}
    BY <2>1 DEF OrchInv, SavedOK
  <2>4. /\ own \subseteq own' /\ paneTenant'[orchPass.pane] \in own' \cup {0}
        /\ paneTenant' \in [OrchPanes -> 0..MaxOrchTerminals] /\ holder' \in 0..MaxOrchTerminals /\ terminals' \in Nat
        /\ holder' # 0 => \E p \in OrchPanes : paneTenant'[p] = holder'
    <3>1. CASE UNCHANGED << terminals, paneTenant, holder, own >>
      BY <2>3, <3>1 DEF OrchInv, HerdrOK
    <3>2. CASE /\ terminals < MaxOrchTerminals /\ terminals' = terminals + 1
               /\ paneTenant' = [paneTenant EXCEPT ![orchPass.pane] = terminals + 1]
               /\ holder' = terminals + 1 /\ own' = own \cup {terminals + 1}
      <4>1. terminals + 1 \in 0..MaxOrchTerminals /\ terminals' \in Nat
        BY <3>2, OrchAssumption DEF OrchInv, HerdrOK
      <4>2. paneTenant'[orchPass.pane] = terminals + 1 /\ paneTenant' \in [OrchPanes -> 0..MaxOrchTerminals]
        BY <2>3, <3>2, <4>1 DEF OrchInv, HerdrOK
      <4> QED BY <2>3, <3>2, <4>1, <4>2
    <3> QED BY <1>2, <3>1, <3>2 DEF StartAgent
  <2>5. HerdrOK'
    BY <2>1, <2>2, <2>4 DEF OrchInv, HerdrOK, PassSteps
  <2>6. IdOK(id)' /\ IdOK(saved)' /\ IdOK(orchPass.mine)'
    BY <2>1, <2>2, <2>4 DEF OrchInv, IdOK
  <2>7. RecordOK(id)' /\ RecordOK(saved)'
    BY <2>1 DEF OrchInv, RecordOK, Sent
  <2>8. SavedOK' /\ MineOK'
    BY <2>1, <2>2, <2>3, <2>4 DEF SavedOK, MineOK
  <2> QED BY <2>5, <2>6, <2>7, <2>8 DEF OrchInv
<1>3. CASE Started
  <2>1. orchPass.at = "started" /\ UNCHANGED <<terminals, own, landed>>
    BY <1>3 DEF Started
  <2>2. CASE holder # 0 /\ paneTenant[orchPass.pane] = holder
    <3>1. PICK i : i = [UnknownId EXCEPT !.pane = orchPass.pane, !.term = holder]
      OBVIOUS
    <3>2. i.pane = orchPass.pane /\ i.term = holder /\ ~i.briefed /\ ~i.dormant /\ ~i.reclaimed /\ i.briefs = 0
      BY <3>1 DEF UnknownId
    <3>3. id' = i /\ saved' = i /\ orchPass' = Working("brief", i) /\ UNCHANGED <<herdrVars, strayNudges>>
      BY <1>3, <2>2, <3>1 DEF Started, Install, herdrVars, orchBudgetVars
    <3>4. orchPass.pane \in OrchPanes /\ holder \in own /\ holder \in 0..MaxOrchTerminals
      BY <2>1, <2>2 DEF OrchInv, SavedOK, HerdrOK
    <3>5. i \in IdRecs
      BY <3>1, <3>4 DEF IdRecs, UnknownId
    <3>6. IdOK(i) /\ RecordOK(i) /\ Known(i)
      BY <3>2, <3>4, <3>5, OrchAssumption DEF IdOK, RecordOK, HapBriefed, Known
    <3> QED BY <3>3, <3>6, PassTakesUp
  <2>3. CASE ~(holder # 0 /\ paneTenant[orchPass.pane] = holder)
    BY <1>3, <2>1, <2>3, AbandonKeeps DEF Started
  <2> QED BY <2>2, <2>3
<1> QED BY <1>1, <1>2, <1>3

\* A text that is sent lands in the session the pass works on, or is known to have gone astray.
LEMMA SendIs ==
  ASSUME OrchInv, Known(orchPass.mine), NEW text \in {"awake", "dormant"}, NEW ok \in BOOLEAN, Sends(orchPass.mine.pane, text, ok)
  PROVE  /\ landed' \in [Terminals -> {"nothing", "awake", "dormant"}]
         /\ \A t \in Terminals : landed[t] # "nothing" => landed'[t] # "nothing"
         /\ strayNudges \subseteq strayNudges'
         /\ ok => orchPass.mine.term \in strayNudges' \cup {0} \/ landed'[orchPass.mine.term] = text
<1>1. PICK p \in OrchPanes : p = orchPass.mine.pane
  BY DEF OrchInv, IdOK, IdRecs, Known
<1>2. PICK t \in Terminals : t = paneTenant[p]
  <2>1. paneTenant[p] # 0 /\ paneTenant[p] \in 0..MaxOrchTerminals
    BY <1>1 DEF Sends, OrchInv, HerdrOK
  <2> QED BY <2>1, OrchAssumption DEF Terminals
<1>3. landed \in [Terminals -> {"nothing", "awake", "dormant"}]
  BY DEF OrchInv, HerdrOK
<1>4. landed' = [landed EXCEPT ![t] = text] \/ (~ok /\ landed' = landed)
  BY <1>1, <1>2 DEF Sends
<1>5. strayNudges' = IF t = orchPass.mine.term THEN strayNudges ELSE strayNudges \cup {orchPass.mine.term}
  BY <1>1, <1>2 DEF Sends
<1> QED BY <1>3, <1>4, <1>5

\* A send leaves the record and all else as they are.
LEMMA SendKeeps ==
  ASSUME OrchInv, orchPass.at \in {"brief", "nudge"}, UNCHANGED <<id, saved, paneTenant, holder, terminals, own>>,
         landed' \in [Terminals -> {"nothing", "awake", "dormant"}],
         \A t \in Terminals : landed[t] # "nothing" => landed'[t] # "nothing",
         DOMAIN orchPass' = DOMAIN NoPass, orchPass'.at \in {"briefSent", "nudgeSent", "nudgeFailed"},
         orchPass'.dormancy = orchPass.dormancy,
         IdOK(orchPass.mine)', MineOK'
  PROVE  OrchInv'
<1>1. HerdrOK'
  BY DEF OrchInv, HerdrOK, PassSteps
<1>2. IdOK(id)' /\ IdOK(saved)'
  BY IdsStay DEF OrchInv, IdOK
<1>3. SavedOK'
  BY DEF OrchInv, SavedOK
<1>4. IdOK(orchPass.mine)'
  OBVIOUS
<1>5. Sent'
  BY DEF Sent
<1> QED BY <1>1, <1>2, <1>3, <1>4, <1>5 DEF OrchInv

LEMMA BriefSendKeeps == OrchInv /\ BriefSend => OrchInv'
<1> SUFFICES ASSUME OrchInv, BriefSend PROVE OrchInv'
  OBVIOUS
<1>1. PICK mine : mine = orchPass.mine
  OBVIOUS
<1>2. /\ orchPass.at = "brief" /\ ~mine.briefed
      /\ UNCHANGED <<id, saved, paneTenant, holder, terminals, own>>
  BY <1>1 DEF BriefSend
<1>3. PICK ok \in BOOLEAN :
        /\ Sends(mine.pane, "awake", ok)
        /\ orchPass' = [orchPass EXCEPT !.at = "briefSent", !.mine = [mine EXCEPT !.briefs = mine.briefs + 1, !.briefed = ok]]
  BY <1>1 DEF BriefSend
<1>4. Known(mine) /\ (id = UnknownId \/ CurrentInstall(mine)) /\ IdOK(mine)
  BY <1>1, <1>2 DEF OrchInv, MineOK
<1>5. /\ landed' \in [Terminals -> {"nothing", "awake", "dormant"}]
      /\ \A t \in Terminals : landed[t] # "nothing" => landed'[t] # "nothing"
      /\ ok => mine.term \in strayNudges' \cup {0} \/ landed'[mine.term] = "awake"
  BY <1>1, <1>3, <1>4, SendIs
<1>6. PICK new : new = [mine EXCEPT !.briefs = mine.briefs + 1, !.briefed = ok]
  OBVIOUS
<1>7. PICK n \in Nat : n = mine.briefs + 1 /\ n > 0
  BY <1>4 DEF IdOK, IdRecs
<1>8. /\ new \in IdRecs /\ new.briefed = ok /\ new.briefs = n /\ new.pane = mine.pane /\ new.term = mine.term
      /\ new.dormant = mine.dormant /\ new.reclaimed = mine.reclaimed
  BY <1>4, <1>6, <1>7 DEF IdOK, IdRecs
<1>9. orchPass'.at = "briefSent" /\ orchPass'.mine = new /\ DOMAIN orchPass' = DOMAIN NoPass
      /\ orchPass'.dormancy = orchPass.dormancy
  BY <1>3, <1>6 DEF OrchInv, HerdrOK, NoPass
<1>10. mine.term # 0 => mine.term \in Terminals
  BY <1>4, OrchAssumption DEF IdOK, IdRecs, Terminals
<1>11. IdOK(orchPass.mine)'
  BY <1>2, <1>4, <1>5, <1>8, <1>9, <1>10, <1>7 DEF IdOK
<1>12. RecordOK(orchPass.mine)'
  BY <1>2, <1>4, <1>5, <1>8, <1>9 DEF RecordOK, HapBriefed, IdOK
<1>13. MineOK'
  BY <1>2, <1>4, <1>8, <1>9, <1>12 DEF MineOK, Known, CurrentInstall
<1> QED BY <1>2, <1>5, <1>9, <1>11, <1>13, SendKeeps

LEMMA NudgeSendKeeps == OrchInv /\ NudgeSend => OrchInv'
<1> SUFFICES ASSUME OrchInv, NudgeSend PROVE OrchInv'
  OBVIOUS
<1>1. PICK mine : mine = orchPass.mine
  OBVIOUS
<1>2. orchPass.at = "nudge" /\ UNCHANGED <<id, saved, paneTenant, holder, terminals, own>>
  BY DEF NudgeSend
<1>3. PICK text \in {"awake", "dormant"} : text = IF orchPass.dormancy THEN "dormant" ELSE "awake"
  OBVIOUS
<1>4. PICK ok \in BOOLEAN :
        Sends(mine.pane, text, ok) /\ orchPass' = [orchPass EXCEPT !.at = IF ok THEN "nudgeSent" ELSE "nudgeFailed"]
  BY <1>1, <1>3 DEF NudgeSend
<1>5. Known(mine) /\ (id = UnknownId \/ CurrentInstall(mine)) /\ IdOK(mine)
      /\ HapBriefed(mine) /\ (id = UnknownId \/ HapBriefed(id))
  BY <1>1, <1>2 DEF OrchInv, MineOK
<1>6. /\ landed' \in [Terminals -> {"nothing", "awake", "dormant"}]
      /\ \A t \in Terminals : landed[t] # "nothing" => landed'[t] # "nothing"
      /\ ok => mine.term \in strayNudges' \cup {0} \/ landed'[mine.term] = text
  BY <1>1, <1>4, <1>5, SendIs
<1>7. /\ orchPass'.at = (IF ok THEN "nudgeSent" ELSE "nudgeFailed") /\ orchPass'.mine = mine
      /\ orchPass'.dormancy = orchPass.dormancy /\ DOMAIN orchPass' = DOMAIN NoPass
  BY <1>1, <1>4 DEF OrchInv, HerdrOK, NoPass
<1>8. IdOK(orchPass.mine)'
  BY <1>2, <1>5, <1>6, <1>7, IdsStay DEF IdOK
<1>9. MineOK'
  BY <1>2, <1>3, <1>5, <1>6, <1>7 DEF MineOK, CurrentInstall
<1> QED BY <1>2, <1>6, <1>7, <1>8, <1>9, SendKeeps

LEMMA RecordKeeps == OrchInv /\ (BriefRecorded \/ NudgeRecorded) => OrchInv'
<1> SUFFICES ASSUME OrchInv, BriefRecorded \/ NudgeRecorded PROVE OrchInv'
  OBVIOUS
<1>1. PICK mine : mine = orchPass.mine
  OBVIOUS
<1>2. /\ orchPass.at \in {"briefSent", "nudgeSent", "nudgeFailed"} /\ orchPass' = NoPass /\ saved = id
      /\ UNCHANGED <<herdrVars, strayNudges>>
  BY DEF BriefRecorded, NudgeRecorded, EndPass, OrchInv, SavedOK, orchBudgetVars
<1>3. IdOK(mine) /\ IdOK(id) /\ Known(mine) /\ (id = UnknownId \/ CurrentInstall(mine))
  BY <1>1, <1>2 DEF OrchInv, MineOK
<1>4. HerdrOK'
  BY <1>2 DEF OrchInv, HerdrOK, herdrVars, NoPass, PassSteps
<1>5. CASE ~CurrentInstall(mine)
  <2>1. id' = UnknownId /\ saved' = id'
    BY <1>1, <1>2, <1>3, <1>5 DEF BriefRecorded, NudgeRecorded
  <2>2. RecordOK(id)' /\ IdOK(id')
    BY <2>1, UnknownIsOK DEF RecordOK, UnknownId
  <2> QED BY <1>2, <1>4, <2>1, <2>2, PassIsOver DEF herdrVars
<1>6. CASE BriefRecorded /\ CurrentInstall(mine)
  <2>1. id' = mine /\ saved' = id' /\ RecordOK(mine)
    BY <1>1, <1>6 DEF BriefRecorded, OrchInv, MineOK
  <2>2. RecordOK(id)' /\ IdOK(id')
    BY <1>2, <1>3, <2>1 DEF RecordOK, herdrVars
  <2> QED BY <1>2, <1>4, <2>1, <2>2, PassIsOver DEF herdrVars
<1>7. CASE NudgeRecorded /\ CurrentInstall(mine)
  <2>1. PICK ok \in BOOLEAN : ok = (orchPass.at = "nudgeSent")
    OBVIOUS
  <2>2. id' = NudgeOutcome(id, ok, orchPass.dormancy) /\ saved' = id' /\ orchPass.at \in {"nudgeSent", "nudgeFailed"}
    BY <1>1, <1>7, <2>1 DEF NudgeRecorded
  <2>3. id # UnknownId /\ HapBriefed(id) /\ id.term = mine.term
    BY <1>1, <1>3, <1>7, <2>2, UnknownIsOK DEF OrchInv, MineOK, CurrentInstall, Known
  <2>4. id.briefed
    BY <2>3 DEF HapBriefed
  <2>5. CASE ok
    <3>1. id' = [id EXCEPT !.dormant = orchPass.dormancy, !.unconfirmed = FALSE, !.target = orchPass.dormancy, !.nudges = 0]
      BY <2>2, <2>5 DEF NudgeOutcome
    <3>2. id \in IdRecs /\ orchPass.dormancy \in BOOLEAN
      BY <1>3 DEF IdOK, OrchInv, HerdrOK
    <3>3. /\ id' \in IdRecs /\ id'.pane = id.pane /\ id'.term = id.term /\ id'.briefed = id.briefed /\ id'.briefs = id.briefs
          /\ id'.reclaimed = id.reclaimed /\ id'.dormant = orchPass.dormancy
      BY <3>1, <3>2 DEF IdRecs
    <3>4. mine.term \in strayNudges \cup {0} \/ landed[mine.term] = IF orchPass.dormancy THEN "dormant" ELSE "awake"
      BY <1>1, <2>1, <2>5 DEF OrchInv, MineOK
    <3>5. RecordOK(id)'
      BY <1>2, <2>3, <3>3, <3>4 DEF RecordOK, herdrVars
    <3>6. IdOK(id')
      BY <1>3, <2>4, <3>3 DEF IdOK
    <3> QED BY <1>2, <1>4, <2>2, <3>5, <3>6, PassIsOver DEF herdrVars
  <2>6. CASE ~ok
    <3>1. PICK k \in Nat : k = IF id.target = orchPass.dormancy THEN id.nudges + 1 ELSE 1
      BY <1>3 DEF IdOK, IdRecs
    <3>2. id' = [id EXCEPT !.target = orchPass.dormancy, !.unconfirmed = TRUE, !.nudges = k]
      BY <2>2, <2>6, <3>1 DEF NudgeOutcome
    <3>3. id \in IdRecs /\ orchPass.dormancy \in BOOLEAN
      BY <1>3 DEF IdOK, OrchInv, HerdrOK
    <3>4. /\ id' \in IdRecs /\ id'.pane = id.pane /\ id'.term = id.term /\ id'.briefed = id.briefed /\ id'.briefs = id.briefs
          /\ id'.reclaimed = id.reclaimed /\ id'.unconfirmed
      BY <3>2, <3>3 DEF IdRecs
    <3>5. RecordOK(id)'
      BY <3>4 DEF RecordOK
    <3>6. IdOK(id')
      BY <1>3, <2>4, <3>4 DEF IdOK
    <3> QED BY <1>2, <1>4, <2>2, <3>5, <3>6, PassIsOver DEF herdrVars
  <2> QED BY <2>5, <2>6
<1> QED BY <1>5, <1>6, <1>7

LEMMA SkipKeeps == OrchInv /\ (BriefSkipped \/ NudgeSkipped) => OrchInv'
<1> SUFFICES ASSUME OrchInv, BriefSkipped \/ NudgeSkipped PROVE OrchInv'
  OBVIOUS
<1>1. /\ orchPass.at \in {"brief", "nudge"} /\ saved = id /\ RecordOK(id) /\ IdOK(id)
      /\ UNCHANGED <<id, saved, herdrVars, strayNudges>>
  BY DEF BriefSkipped, NudgeSkipped, OrchInv, SavedOK, Sent, orchBudgetVars
<1>2. CASE orchPass' = NoPass
  <2>1. HerdrOK'
    BY <1>1, <1>2 DEF OrchInv, HerdrOK, herdrVars, NoPass, PassSteps
  <2>2. RecordOK(id)' /\ IdOK(id')
    BY <1>1 DEF RecordOK, herdrVars
  <2> QED BY <1>1, <1>2, <2>1, <2>2, PassIsOver DEF herdrVars
<1>3. CASE /\ orchPass.at = "brief" /\ orchPass.mine.briefed /\ NudgeOwed(orchPass.mine, FALSE)
           /\ orchPass' = [orchPass EXCEPT !.at = "nudge"]
  <2>1. orchPass'.at = "nudge" /\ orchPass'.mine = orchPass.mine /\ DOMAIN orchPass' = DOMAIN NoPass
        /\ orchPass'.dormancy = orchPass.dormancy
    BY <1>3 DEF OrchInv, HerdrOK, NoPass
  <2>2. HerdrOK'
    BY <1>1, <2>1 DEF OrchInv, HerdrOK, herdrVars, PassSteps
  <2>3. IdOK(id)' /\ IdOK(saved)' /\ IdOK(orchPass.mine)'
    BY <1>1, <2>1 DEF OrchInv, IdOK, herdrVars
  <2>4. RecordOK(id)' /\ RecordOK(saved)'
    BY <1>1 DEF RecordOK, herdrVars
  <2>5. HapBriefed(orchPass.mine)
    BY <1>3 DEF NudgeOwed
  <2>6. MineOK' /\ SavedOK'
    <3>1. HapBriefed(orchPass.mine)' /\ (id = UnknownId \/ HapBriefed(id))'
      BY <1>1, <1>3, <2>1, <2>5 DEF OrchInv, MineOK, HapBriefed
    <3>2. Known(orchPass.mine)' /\ (id = UnknownId \/ CurrentInstall(orchPass.mine))'
      BY <1>1, <1>3, <2>1 DEF OrchInv, MineOK, CurrentInstall, Known
    <3> QED BY <1>1, <2>1, <3>1, <3>2 DEF MineOK, SavedOK
  <2> QED BY <2>2, <2>3, <2>4, <2>6 DEF OrchInv
<1> QED BY <1>2, <1>3 DEF BriefSkipped, NudgeSkipped, EndPass

LEMMA RestartKeeps == OrchInv /\ DaemonRestarts => OrchInv'
<1> SUFFICES ASSUME OrchInv, DaemonRestarts PROVE OrchInv'
  OBVIOUS
<1>1. /\ saved' \in {saved, UnknownId} /\ id' = saved' /\ orchPass' = NoPass /\ UNCHANGED herdrVars
      /\ strayNudges \subseteq strayNudges' /\ (Sent => orchPass.mine.term \in strayNudges')
  BY DEF DaemonRestarts
<1>2. HerdrOK'
  BY <1>1 DEF OrchInv, HerdrOK, herdrVars, NoPass, PassSteps
<1>3. IdOK(id')
  BY <1>1, UnknownIsOK DEF OrchInv
<1>4. RecordOK(id)'
  <2>1. CASE id' = UnknownId
    BY <2>1 DEF RecordOK, UnknownId
  <2>2. CASE id' = saved /\ ~Sent
    BY <1>1, <2>2 DEF OrchInv, RecordOK, herdrVars
  <2>3. CASE id' = saved /\ Sent
    <3>1. saved = id /\ (id = UnknownId \/ CurrentInstall(orchPass.mine))
      BY <2>3 DEF OrchInv, SavedOK, MineOK, Sent
    <3> QED BY <1>1, <2>3, <3>1 DEF RecordOK, UnknownId, CurrentInstall
  <2> QED BY <1>1, <2>1, <2>2, <2>3
<1> QED BY <1>1, <1>2, <1>3, <1>4, PassIsOver DEF herdrVars

LEMMA OutsideKeeps ==
  ASSUME OrchInv,
         \/ ReleaseOrchestratorName \/ FlipMode \/ FlipPause \/ OrchTick
         \/ \E p \in OrchPanes : SessionEnds(p) \/ StrangerStarts(p)
         \/ \E p, q \in OrchPanes : OrchPaneMoves(p, q)
         \/ UNCHANGED orchVars
  PROVE  OrchInv'
<1>1. CASE ReleaseOrchestratorName \/ FlipMode \/ FlipPause \/ OrchTick \/ UNCHANGED orchVars
  <2>1. UNCHANGED <<id, saved, orchPass, strayNudges, herdrVars>>
    BY <1>1 DEF ReleaseOrchestratorName, FlipMode, FlipPause, OrchTick, orchVars, herdrVars, daemonVars, orchBudgetVars
  <2>2. HerdrOK'
    BY <2>1 DEF OrchInv, HerdrOK, herdrVars
  <2> QED BY <2>1, <2>2, HerdMoves DEF herdrVars, OrchInv, SavedOK
<1>2. ASSUME NEW p \in OrchPanes, SessionEnds(p) PROVE OrchInv'
  <2>1. /\ UNCHANGED <<id, saved, orchPass, strayNudges, landed, own, terminals>>
        /\ paneTenant' = [paneTenant EXCEPT ![p] = 0]
        /\ holder' = IF holder = paneTenant[p] THEN 0 ELSE holder
    BY <1>2 DEF SessionEnds, daemonVars, orchBudgetVars
  <2>2. paneTenant' \in [OrchPanes -> 0..MaxOrchTerminals]
        /\ \A q \in OrchPanes : paneTenant'[q] = IF q = p THEN 0 ELSE paneTenant[q]
    BY <2>1, OrchAssumption DEF OrchInv, HerdrOK
  <2>3. holder' # 0 => \E q \in OrchPanes : paneTenant'[q] = holder'
    BY <2>1, <2>2 DEF OrchInv, HerdrOK
  <2>4. HerdrOK'
    BY <2>1, <2>2, <2>3 DEF OrchInv, HerdrOK
  <2> QED BY <2>1, <2>2, <2>4, HerdMoves DEF OrchInv, SavedOK
<1>3. ASSUME NEW p \in OrchPanes, StrangerStarts(p) PROVE OrchInv'
  <2>1. /\ UNCHANGED <<id, saved, orchPass, strayNudges, landed, own>> /\ terminals < MaxOrchTerminals
        /\ terminals' = terminals + 1 /\ paneTenant' = [paneTenant EXCEPT ![p] = terminals + 1] /\ paneTenant[p] = 0
        /\ p \notin Opening /\ holder' \in {holder} \cup (IF holder = 0 THEN {terminals + 1} ELSE {})
    BY <1>3 DEF StrangerStarts, daemonVars, orchBudgetVars
  <2>2. terminals + 1 \in 0..MaxOrchTerminals /\ terminals' \in Nat
    BY <2>1, OrchAssumption DEF OrchInv, HerdrOK
  <2>3. paneTenant' \in [OrchPanes -> 0..MaxOrchTerminals]
        /\ \A q \in OrchPanes : paneTenant'[q] = IF q = p THEN terminals + 1 ELSE paneTenant[q]
    BY <2>1, <2>2 DEF OrchInv, HerdrOK
  <2>4. holder' # 0 => \E q \in OrchPanes : paneTenant'[q] = holder'
    BY <2>1, <2>3 DEF OrchInv, HerdrOK
  <2>5. HerdrOK'
    BY <2>1, <2>2, <2>3, <2>4 DEF OrchInv, HerdrOK
  <2>6. orchPass.at \in {"opened", "started"} => orchPass.pane # p
    BY <2>1 DEF Opening
  <2> QED BY <2>1, <2>3, <2>5, <2>6, HerdMoves DEF OrchInv, SavedOK
<1>4. ASSUME NEW p \in OrchPanes, NEW q \in OrchPanes, OrchPaneMoves(p, q) PROVE OrchInv'
  <2>1. /\ UNCHANGED <<id, saved, orchPass, strayNudges, landed, own, terminals, holder>>
        /\ paneTenant[p] # 0 /\ paneTenant[q] = 0 /\ q \notin Opening
        /\ paneTenant' = [paneTenant EXCEPT ![p] = 0, ![q] = paneTenant[p]]
    BY <1>4 DEF OrchPaneMoves, daemonVars
  <2>2. paneTenant' \in [OrchPanes -> 0..MaxOrchTerminals]
        /\ \A x \in OrchPanes : paneTenant'[x] = IF x = q THEN paneTenant[p] ELSE IF x = p THEN 0 ELSE paneTenant[x]
    BY <2>1, OrchAssumption DEF OrchInv, HerdrOK
  <2>3. holder # 0 => \E x \in OrchPanes : paneTenant'[x] = holder
    BY <2>1, <2>2 DEF OrchInv, HerdrOK
  <2>4. HerdrOK'
    BY <2>1, <2>2, <2>3 DEF OrchInv, HerdrOK
  <2>5. orchPass.at \in {"opened", "started"} => orchPass.pane # q
    BY <2>1 DEF Opening
  <2> QED BY <2>1, <2>2, <2>4, <2>5, HerdMoves DEF OrchInv, SavedOK
<1> QED BY <1>1, <1>2, <1>3, <1>4

LEMMA OrchInvStep == OrchInv /\ [NextOrch]_orchVars => OrchInv'
BY SweepsKeep, ListedKeeps, LookupKeeps, StartKeeps, BriefSendKeeps, NudgeSendKeeps, RecordKeeps, SkipKeeps,
   RestartKeeps, OutsideKeeps DEF NextOrch

\* What hap has on record of the session is what it last heard, and a session it put to
\* sleep is owed its wake.
LEMMA RecordIsKnown == OrchInv => RecordIsWhatItHeard /\ NoneLeftAsleep
<1> SUFFICES ASSUME OrchInv PROVE RecordIsWhatItHeard /\ NoneLeftAsleep
  OBVIOUS
<1>1. RecordIsWhatItHeard
  BY DEF OrchInv, RecordOK, RecordIsWhatItHeard
<1>2. NoneLeftAsleep
  <2> SUFFICES ASSUME ~Sent, id.term \notin strayNudges \cup {0}, HapBriefed(id), landed[id.term] = "dormant"
               PROVE  NudgeOwed(Settled(id), FALSE) \/ Settled(id).nudges >= NudgeAttempts
    BY DEF NoneLeftAsleep
  <2>1. id.dormant \/ id.unconfirmed
    BY <1>1 DEF RecordIsWhatItHeard
  <2>2. PICK kept : kept = Settled(id)
    OBVIOUS
  <2>3. /\ kept \in IdRecs /\ HapBriefed(kept) /\ kept.dormant = id.dormant /\ kept.unconfirmed = id.unconfirmed
    BY <2>2, SettledIs DEF OrchInv, IdOK
  <2>4. kept.dormant # FALSE \/ kept.unconfirmed
    BY <2>1, <2>3 DEF IdRecs
  <2>5. kept.nudges \in Nat
    BY <2>3 DEF IdRecs
  <2>6. NudgeOwed(kept, FALSE) \/ kept.nudges >= NudgeAttempts
    <3>1. kept.nudges < NudgeAttempts \/ kept.nudges >= NudgeAttempts
      BY <2>5 DEF NudgeAttempts
    <3>2. kept.nudges < NudgeAttempts => NudgeOwed(kept, FALSE)
      BY <2>3, <2>4 DEF NudgeOwed
    <3> QED BY <3>1, <3>2
  <2> QED BY <2>2, <2>6
<1> QED BY <1>1, <1>2

LEMMA StrangersAreLeft ==
  ASSUME OrchInv, [NextOrch]_orchVars, NEW t \in Terminals \ own, landed'[t] # landed[t], t = orchPass.mine.term
  PROVE  landed[t] = "dormant" \/ (landed[t] = "awake" /\ orchPass.mine.reclaimed)
<1>1. t # 0
  BY DEF Terminals
<1>2. IdOK(orchPass.mine)
  BY DEF OrchInv
<1>3. CASE BriefSend
  BY <1>1, <1>2, <1>3 DEF BriefSend, IdOK
<1>4. CASE NudgeSend
  <2>1. HapBriefed(orchPass.mine)
    BY <1>4 DEF NudgeSend, OrchInv, MineOK
  <2>2. orchPass.mine.reclaimed
    BY <1>1, <1>2, <2>1 DEF HapBriefed, IdOK, IdRecs
  <2>3. landed[t] \in {"nothing", "awake", "dormant"}
    BY DEF OrchInv, HerdrOK
  <2> QED BY <1>1, <1>2, <2>2, <2>3 DEF IdOK
<1>5. CASE UNCHANGED landed
  BY <1>5
<1> QED BY <1>3, <1>4, <1>5
  DEF NextOrch, orchVars, herdrVars, SweepObserves, Sweep, ReleaseOrchestratorName, EnsureListed, LookupFound, LookupFails,
      OpenPane, AbandonUnpermitted, StartAgent, Started, BriefRecorded, BriefSkipped, NudgeSkipped, NudgeRecorded, FlipMode,
      FlipPause, OrchTick, DaemonRestarts, SessionEnds, StrangerStarts, OrchPaneMoves

\* orchestrator.go: for any panes, terminals, mode changes and mishaps, what the daemon has
\* on record of its session is what that session last heard, no session it put to sleep is
\* left so with nothing owed, and its texts go to no stranger.
THEOREM OrchestratorKnowsItsSession ==
  SpecOrch => [](RecordIsWhatItHeard /\ NoneLeftAsleep) /\ StrangerIsNotTypedAt
<1>1. OrchInv /\ [NextOrch]_orchVars =>
        [\A t \in Terminals \ own : landed'[t] # landed[t] /\ t = orchPass.mine.term
            => landed[t] = "dormant" \/ (landed[t] = "awake" /\ orchPass.mine.reclaimed)]_orchVars
  BY StrangersAreLeft
<1> QED BY <1>1, RecordIsKnown, OrchInvInit, OrchInvStep, PTL DEF SpecOrch, StrangerIsNotTypedAt

-----------------------------------------------------------------------------
(* One daemon at a time, for any number of processes, commands and         *)
(* incidents.  Everything follows from who holds the flock: a process past *)
(* Acquire is its owner until it ends, so the file names it as soon as it  *)
(* is written, nobody else beats, and nobody else orders a recovery.       *)

USE SupervisionBounds

Holding == Alive \ {"boot"}
Recorded == Alive \ {"boot", "locked", "truncated"}
Unheard == {"boot", "locked", "truncated", "guard", "judge"}

\* A process past Acquire holds the flock, and holds it alone.
OwnerInv == \A d \in Daemons : daemon[d].pc \in Holding <=> lock.owner = d

\* Once the record is rewritten, it names its writer.
RecordInv ==
  \A d \in Daemons : daemon[d].pc \in Recorded => lock.pid = d

\* A process that has not opened its store has not beaten under its pid: its slot was free
\* of any earlier record when it was spawned.
UnheardInv ==
  \A d \in Daemons : daemon[d].pc \in Unheard => health.pid # d

\* A recovery under way is known to whoever could order the next one: it ordered this one
\* itself, or adopted the marker when it started.
OutageInv ==
  /\ orders <= 1 /\ (orders = 1 => marker = "new") /\ (marker = "new" => Shared)
  /\ marker = "new" =>
       \A d \in Daemons : daemon[d].pc = "run" => daemon[d].latched \/ daemon[d].ordered

DaemonRecs == [pc : Alive \cup {"none"}, bin : Binaries, term : BOOLEAN, off : BOOLEAN,
               copy : Guards, handed : BOOLEAN, ordered : BOOLEAN, latched : BOOLEAN,
               wedged : BOOLEAN, replaced : BOOLEAN]
CommandRecs == [pc : {"idle", "check", "lift", "forget", "forgot", "look", "relook", "stop",
                      "wait", "start", "confirm"},
                kind : {"ensure", "replace", "restart"}, bin : Binaries,
                seen : Daemons \cup {NoPid}, beat : BOOLEAN, copy : Guards]

\* The types of the state; the flock's owner is a matter of OwnerInv.
Typed ==
  /\ daemon \in [Daemons -> DaemonRecs] /\ command \in [Commands -> CommandRecs]
  /\ lock \in [owner : Daemons \cup {NoPid}, pid : Daemons \cup {NoPid}, bin : Binaries]
  /\ probing \in BOOLEAN /\ guard \in Guards /\ digest \in Digests /\ installed \in Binaries
  /\ health \in [pid : Daemons \cup {NoPid}, booted : BOOLEAN, replaced : BOOLEAN]
  /\ incidents \in 0..MaxIncidents /\ marker \in {"none", "new", "old"} /\ orders \in Nat

\* A command stops a process that a lock file named.
StopsSomebody == \A c \in Commands : command[c].pc = "stop" => command[c].seen \in Daemons

-----------------------------------------------------------------------------
(* The records the operators build.                                        *)

LEMMA SaturatingCount ==
  ASSUME NEW n \in 0..LoopThreshold
  PROVE  Min({n + 1, LoopThreshold}) \in 0..LoopThreshold
<1> DEFINE m == IF n + 1 <= LoopThreshold THEN n + 1 ELSE LoopThreshold
<1>1. m \in {n + 1, LoopThreshold} /\ \A y \in {n + 1, LoopThreshold} : m <= y
  OBVIOUS
<1>2. \E x \in {n + 1, LoopThreshold} : \A y \in {n + 1, LoopThreshold} : x <= y
  BY <1>1
<1>3. /\ Min({n + 1, LoopThreshold}) \in {n + 1, LoopThreshold}
      /\ \A y \in {n + 1, LoopThreshold} : Min({n + 1, LoopThreshold}) <= y
  BY <1>2, Zenon DEF Min
<1> QED
  BY <1>3

LEMMA FixedRecords ==
  /\ NoGuard \in Guards /\ NoDaemon \in DaemonRecs /\ NoCommand \in CommandRecs
  /\ NoHealth \in [pid : Daemons \cup {NoPid}, booted : BOOLEAN, replaced : BOOLEAN]
  /\ NoDaemon.pc = "none" /\ NoHealth.pid = NoPid
  /\ NoCommand.pc = "idle"
  /\ \A b \in Binaries : [NoDaemon EXCEPT !.pc = "boot", !.bin = b] \in DaemonRecs
<1>1. NoGuard \in Guards
  BY DEF NoGuard, Guard, Guards
<1>2. NoDaemon \in DaemonRecs /\ NoDaemon.pc = "none"
  BY <1>1 DEF NoDaemon, DaemonRecs, Alive, Booting, Binaries
<1>5. ASSUME NEW b \in Binaries
      PROVE  [NoDaemon EXCEPT !.pc = "boot", !.bin = b] \in DaemonRecs
  <2> DEFINE r == [NoDaemon EXCEPT !.pc = "boot"]
  <2>1. r \in DaemonRecs
    BY <1>2 DEF DaemonRecs, Alive, Booting
  <2> HIDE DEF r
  <2>2. [r EXCEPT !.bin = b] \in DaemonRecs
    BY <2>1 DEF DaemonRecs
  <2> QED
    BY <2>2 DEF r
<1>3. NoCommand \in CommandRecs /\ NoCommand.pc = "idle"
  BY <1>1 DEF NoCommand, CommandRecs, Binaries
<1>4. /\ NoHealth \in [pid : Daemons \cup {NoPid}, booted : BOOLEAN, replaced : BOOLEAN]
      /\ NoHealth.pid = NoPid
  BY DEF NoHealth
<1> QED
  BY <1>1, <1>2, <1>3, <1>4, <1>5

\* A boot's verdict, a survived window and a lifted latch are states of the breaker's file.
LEMMA GuardOperators ==
  ASSUME NEW st \in Guards, NEW d \in Digests
  PROVE  /\ Evaluate(st, d).st \in Guards /\ Evaluate(st, d).off \in BOOLEAN
         /\ Survived(st) \in Guards /\ Cleared(d) \in Guards
<1>1. Survived(st) \in Guards /\ Cleared(d) \in Guards
  BY FixedRecords DEF Survived, Cleared, Guards, NoGuard, Guard
<1> DEFINE s == IF st.digest # NoDigest /\ d # st.digest THEN NoGuard ELSE st
           n == Appended(s)
           counted == [s EXCEPT !.starts = n]
           new == [counted EXCEPT !.digest = d]
           tripped == [new EXCEPT !.off = TRUE]
<1>2. s \in Guards
  BY FixedRecords
<1>3. n \in 0..LoopThreshold
  BY <1>2, SaturatingCount DEF Appended, Guards
<1> HIDE DEF s, n
<1>7. counted \in Guards
  BY <1>2, <1>3 DEF Guards
<1> HIDE DEF counted
<1>8. new \in Guards
  BY <1>7 DEF Guards
<1> HIDE DEF new
<1>9. tripped \in Guards /\ [new EXCEPT !.gaveUp = TRUE] \in Guards
  BY <1>8 DEF Guards
<1> HIDE DEF tripped
<1>4. [tripped EXCEPT !.starts = 1] \in Guards
  BY <1>9 DEF Guards
<1>5. Evaluate(st, d) =
        CASE s.gaveUp -> [st |-> new, off |-> FALSE, giveUp |-> TRUE]
          [] ~s.gaveUp /\ s.off /\ (n >= LoopThreshold) ->
               [st |-> [new EXCEPT !.gaveUp = TRUE], off |-> FALSE, giveUp |-> TRUE]
          [] ~s.gaveUp /\ s.off /\ ~(n >= LoopThreshold) -> [st |-> new, off |-> TRUE, giveUp |-> FALSE]
          [] ~s.gaveUp /\ ~s.off /\ (n >= LoopThreshold) ->
               [st |-> [tripped EXCEPT !.starts = 1], off |-> TRUE, giveUp |-> FALSE]
          [] OTHER -> [st |-> new, off |-> FALSE, giveUp |-> FALSE]
  BY Zenon DEF Evaluate, s, n, new, counted, tripped
<1>6. s.gaveUp \in BOOLEAN /\ s.off \in BOOLEAN
  BY <1>2 DEF Guards
<1> QED
  BY <1>1, <1>4, <1>5, <1>6, <1>8, <1>9
-----------------------------------------------------------------------------
(* Types.                                                                  *)

\* The commands' part of Typed.
CommandsTyped == command \in [Commands -> CommandRecs] /\ StopsSomebody

LEMMA BoundsTyped ==
  /\ MaxIncidents \in Nat /\ MaxSectionEdits \in Nat /\ LoopThreshold \in Nat \ {0}
  /\ Shared \in BOOLEAN /\ NoPid \notin Daemons
BY DEF SupervisionBounds

LEMMA Counted ==
  ASSUME incidents \in 0..MaxIncidents, NEW k, Happens(k)
  PROVE  incidents' \in 0..MaxIncidents
BY BoundsTyped DEF Happens

\* One field of one process changes.
LEMMA DaemonFields ==
  ASSUME NEW f \in [Daemons -> DaemonRecs], NEW d \in Daemons
  PROVE  /\ \A r \in DaemonRecs : [f EXCEPT ![d] = r] \in [Daemons -> DaemonRecs]
         /\ \A pc \in Alive \cup {"none"} : [f EXCEPT ![d].pc = pc] \in [Daemons -> DaemonRecs]
         /\ \A g \in Guards : [f EXCEPT ![d].copy = g] \in [Daemons -> DaemonRecs]
         /\ \A b \in BOOLEAN : /\ [f EXCEPT ![d].term = b] \in [Daemons -> DaemonRecs]
                               /\ [f EXCEPT ![d].off = b] \in [Daemons -> DaemonRecs]
                               /\ [f EXCEPT ![d].handed = b] \in [Daemons -> DaemonRecs]
                               /\ [f EXCEPT ![d].ordered = b] \in [Daemons -> DaemonRecs]
                               /\ [f EXCEPT ![d].latched = b] \in [Daemons -> DaemonRecs]
                               /\ [f EXCEPT ![d].wedged = b] \in [Daemons -> DaemonRecs]
                               /\ [f EXCEPT ![d].replaced = b] \in [Daemons -> DaemonRecs]
<1>1. \A r \in DaemonRecs : [f EXCEPT ![d] = r] \in [Daemons -> DaemonRecs]
  OBVIOUS
<1>2. ASSUME NEW pc \in Alive \cup {"none"} PROVE [f EXCEPT ![d].pc = pc] \in [Daemons -> DaemonRecs]
  BY DEF DaemonRecs
<1>3. ASSUME NEW g \in Guards PROVE [f EXCEPT ![d].copy = g] \in [Daemons -> DaemonRecs]
  BY DEF DaemonRecs
<1>4. ASSUME NEW b \in BOOLEAN
      PROVE  /\ [f EXCEPT ![d].term = b] \in [Daemons -> DaemonRecs]
             /\ [f EXCEPT ![d].off = b] \in [Daemons -> DaemonRecs]
             /\ [f EXCEPT ![d].handed = b] \in [Daemons -> DaemonRecs]
             /\ [f EXCEPT ![d].ordered = b] \in [Daemons -> DaemonRecs]
  BY DEF DaemonRecs
<1>5. ASSUME NEW b \in BOOLEAN
      PROVE  /\ [f EXCEPT ![d].latched = b] \in [Daemons -> DaemonRecs]
             /\ [f EXCEPT ![d].wedged = b] \in [Daemons -> DaemonRecs]
             /\ [f EXCEPT ![d].replaced = b] \in [Daemons -> DaemonRecs]
  BY DEF DaemonRecs
<1> QED
  BY <1>1, <1>2, <1>3, <1>4, <1>5

\* The flock is taken, recorded or dropped.
LockRecs == [owner : Daemons \cup {NoPid}, pid : Daemons \cup {NoPid}, bin : Binaries]

LEMMA LockFields ==
  ASSUME NEW l \in LockRecs
  PROVE  /\ \A p \in Daemons \cup {NoPid} : /\ [l EXCEPT !.owner = p] \in LockRecs
                                         /\ [l EXCEPT !.pid = p] \in LockRecs
         /\ \A b \in Binaries : [l EXCEPT !.bin = b] \in LockRecs
BY DEF LockRecs

LEMMA EndsTyped ==
  ASSUME Typed, NEW d \in Daemons, DaemonEnds(d)
  PROVE  daemon' \in [Daemons -> DaemonRecs] /\ lock' \in LockRecs
<1>1. daemon' \in [Daemons -> DaemonRecs]
  BY FixedRecords, DaemonFields DEF DaemonEnds, Typed
<1>2. (IF lock.owner = d THEN NoPid ELSE lock.owner) \in Daemons \cup {NoPid} /\ lock \in LockRecs
  BY DEF Typed, LockRecs
<1> QED
  BY <1>1, <1>2, LockFields DEF DaemonEnds

\* What a heartbeat, a spawned, a moving and an ending command leave behind.
LEMMA BeatsTyped ==
  ASSUME Typed, CommandsTyped, NEW d \in Daemons, NEW b \in BOOLEAN, Beats(d, b)
  PROVE  /\ health' \in [pid : Daemons \cup {NoPid}, booted : BOOLEAN, replaced : BOOLEAN]
         /\ health'.pid = d /\ CommandsTyped'
<1>1. daemon[d].replaced \in BOOLEAN
  BY DEF Typed, DaemonRecs
<1>2. ASSUME NEW c \in Commands
      PROVE  /\ command'[c] \in CommandRecs
             /\ command'[c].pc = command[c].pc /\ command'[c].seen = command[c].seen
  <2>1. command[c] \in CommandRecs
    BY DEF CommandsTyped
  <2>2. [command[c] EXCEPT !.beat = TRUE] \in CommandRecs
    BY <2>1 DEF CommandRecs
  <2> QED
    BY <2>1, <2>2 DEF Beats, CommandRecs
<1>3. command' \in [Commands -> CommandRecs]
  BY <1>2 DEF Beats
<1> QED
  BY <1>1, <1>2, <1>3 DEF Beats, CommandsTyped, StopsSomebody

LEMMA CommandSteps ==
  ASSUME CommandsTyped, NEW c \in Commands
  PROVE  /\ Quit(c) => CommandsTyped'
         /\ \A pc \in {"wait", "start", "confirm", "look", "relook", "forget"} :
              To(c, pc) => CommandsTyped'
         /\ \A kind \in {"ensure", "replace", "restart"}, bin \in Binaries :
              Spawns(c, kind, bin) => CommandsTyped'
<1>1. ASSUME Quit(c) PROVE CommandsTyped'
  BY <1>1, FixedRecords DEF Quit, CommandsTyped, StopsSomebody
<1>2. ASSUME NEW pc \in {"wait", "start", "confirm", "look", "relook", "forget"}, To(c, pc)
      PROVE  CommandsTyped'
  BY <1>2 DEF To, CommandsTyped, StopsSomebody, CommandRecs
<1>3. ASSUME NEW kind \in {"ensure", "replace", "restart"}, NEW bin \in Binaries,
             Spawns(c, kind, bin)
      PROVE  CommandsTyped'
  <2> DEFINE checks == [NoCommand EXCEPT !.pc = "check"]
             ofKind == [checks EXCEPT !.kind = kind]
             spawned == [ofKind EXCEPT !.bin = bin]
  <2>1. command' = [command EXCEPT ![c] = spawned]
    BY <1>3 DEF Spawns
  <2>2. checks \in CommandRecs /\ checks.pc = "check"
    BY FixedRecords DEF CommandRecs
  <2> HIDE DEF checks
  <2>3. ofKind \in CommandRecs /\ ofKind.pc = "check"
    BY <2>2 DEF CommandRecs
  <2> HIDE DEF ofKind
  <2>4. spawned \in CommandRecs /\ spawned.pc = "check"
    BY <2>3 DEF CommandRecs
  <2> HIDE DEF spawned
  <2> QED
    BY <2>1, <2>4 DEF CommandsTyped, StopsSomebody
<1> QED
  BY <1>1, <1>2, <1>3
LEMMA TypesKept ==
  ASSUME Typed, StopsSomebody, [NextSup]_supVars
  PROVE  Typed' /\ StopsSomebody'
<1> CommandsTyped
  BY DEF Typed, CommandsTyped
<1>1. ASSUME NEW d \in Daemons, Acquire(d) PROVE Typed' /\ StopsSomebody'
  <2>1. daemon' \in [Daemons -> DaemonRecs]
    <3>1. "locked" \in Alive \cup {"none"}
      BY DEF Alive, Booting
    <3> DEFINE locks == [daemon EXCEPT ![d].pc = "locked"]
    <3>2. locks \in [Daemons -> DaemonRecs]
      BY <3>1, DaemonFields DEF Typed
    <3>3. daemon' = locks \/ daemon' = [daemon EXCEPT ![d] = NoDaemon]
      BY <1>1 DEF Acquire
    <3>4. [daemon EXCEPT ![d] = NoDaemon] \in [Daemons -> DaemonRecs]
      BY FixedRecords DEF Typed
    <3> HIDE DEF locks
    <3> QED
      BY <3>2, <3>3, <3>4, Zenon DEF Typed
  <2>2. lock' \in LockRecs
    BY <1>1, LockFields DEF Typed, LockRecs, Acquire
  <2> QED
    BY <1>1, <2>1, <2>2 DEF Typed, CommandsTyped, StopsSomebody, LockRecs, Acquire
<1>2. ASSUME NEW d \in Daemons, AcquireRecords(d) PROVE Typed' /\ StopsSomebody'
  <2>1. daemon[d].bin \in Binaries /\ lock \in LockRecs
    BY DEF Typed, DaemonRecs, LockRecs
  <2>2. CASE daemon[d].pc = "locked"
    <3>1. lock' \in LockRecs
      BY <1>2, <2>1, <2>2, LockFields DEF AcquireRecords
    <3>4. [daemon EXCEPT ![d].pc = "truncated"] \in [Daemons -> DaemonRecs]
      BY DaemonFields DEF Typed, Alive, Booting
    <3>2. daemon' \in [Daemons -> DaemonRecs]
      BY <1>2, <2>2, <3>4 DEF AcquireRecords
    <3> QED
      BY <1>2, <2>2, <3>1, <3>2 DEF Typed, CommandsTyped, StopsSomebody, LockRecs, AcquireRecords
  <2>3. CASE daemon[d].pc = "truncated"
    <3>1. lock' = [[lock EXCEPT !.pid = d] EXCEPT !.bin = daemon[d].bin]
      BY <1>2, <2>3 DEF AcquireRecords
    <3>2. lock' \in LockRecs
      BY <2>1, <3>1, LockFields
    <3>4. [daemon EXCEPT ![d].pc = "guard"] \in [Daemons -> DaemonRecs]
      BY DaemonFields DEF Typed, Alive, Booting
    <3>3. daemon' \in [Daemons -> DaemonRecs]
      BY <1>2, <2>3, <3>4 DEF AcquireRecords
    <3> QED
      BY <1>2, <2>3, <3>2, <3>3 DEF Typed, CommandsTyped, StopsSomebody, LockRecs, AcquireRecords
  <2> QED
    BY <1>2, <2>2, <2>3 DEF AcquireRecords
<1>3. ASSUME NEW d \in Daemons, ReadGuard(d) PROVE Typed' /\ StopsSomebody'
  <2> DEFINE v == Evaluate(guard, digest)
             judges == [daemon EXCEPT ![d].pc = "judge"]
             copies == [judges EXCEPT ![d].copy = v.st]
  <2>1. v.st \in Guards /\ v.off \in BOOLEAN
    BY GuardOperators DEF Typed
  <2>2. daemon' = [copies EXCEPT ![d].off = v.off]
    BY <1>3 DEF ReadGuard
  <2> HIDE DEF v
  <2>3. judges \in [Daemons -> DaemonRecs]
    BY DaemonFields DEF Typed, Alive, Booting
  <2> HIDE DEF judges
  <2>4. copies \in [Daemons -> DaemonRecs]
    BY <2>1, <2>3, DaemonFields
  <2> HIDE DEF copies
  <2>5. daemon' \in [Daemons -> DaemonRecs]
    BY <2>1, <2>2, <2>4, DaemonFields
  <2> QED
    BY <1>3, <2>5 DEF Typed, CommandsTyped, StopsSomebody, LockRecs, ReadGuard, files
<1>4. ASSUME NEW d \in Daemons, WriteGuard(d) PROVE Typed' /\ StopsSomebody'
  <2>1. daemon[d].copy \in Guards
    BY DEF Typed, DaemonRecs
  <2>2. CASE daemon[d].copy.gaveUp
    BY <1>4, <2>1, <2>2, EndsTyped DEF Typed, CommandsTyped, StopsSomebody, LockRecs, WriteGuard
  <2>3. CASE ~daemon[d].copy.gaveUp
    <3> DEFINE opens == [daemon EXCEPT ![d].pc = "opening"]
    <3>1. daemon' = [opens EXCEPT ![d].copy = NoGuard]
      BY <1>4, <2>3 DEF WriteGuard
    <3>2. opens \in [Daemons -> DaemonRecs]
      BY DaemonFields DEF Typed, Alive, Booting
    <3> HIDE DEF opens
    <3>3. daemon' \in [Daemons -> DaemonRecs]
      BY <3>1, <3>2, DaemonFields, FixedRecords
    <3> QED
      BY <1>4, <2>1, <2>3, <3>3 DEF Typed, CommandsTyped, StopsSomebody, LockRecs, WriteGuard
  <2> QED
    BY <2>2, <2>3
<1>5. ASSUME NEW d \in Daemons, OpenShared(d) PROVE Typed' /\ StopsSomebody'
  BY <1>5, EndsTyped, BeatsTyped DEF Typed, CommandsTyped, StopsSomebody, LockRecs, OpenShared
<1>6. ASSUME NEW d \in Daemons, RunStarts(d) PROVE Typed' /\ StopsSomebody'
  BY <1>6, BoundsTyped, BeatsTyped, DaemonFields DEF Typed, CommandsTyped, StopsSomebody, LockRecs, RunStarts, Alive, Booting
<1>7. ASSUME NEW d \in Daemons, OpenFails(d) PROVE Typed' /\ StopsSomebody'
  BY <1>7, Counted, EndsTyped DEF Typed, CommandsTyped, StopsSomebody, LockRecs, OpenFails
<1>8. ASSUME NEW d \in Daemons, Heartbeat(d) PROVE Typed' /\ StopsSomebody'
  BY <1>8, BeatsTyped DEF Typed, CommandsTyped, StopsSomebody, LockRecs, Heartbeat
<1>9. ASSUME NEW d \in Daemons, SurviveRead(d) PROVE Typed' /\ StopsSomebody'
  BY <1>9, GuardOperators, DaemonFields DEF Typed, CommandsTyped, StopsSomebody, LockRecs, SurviveRead, files
<1>10. ASSUME NEW d \in Daemons, EmbedderFactory(d) PROVE Typed' /\ StopsSomebody'
  <2> DEFINE suppressed == EmbeddingSuppressed(guard, digest)
             clears == guard.off /\ ~suppressed
             rebuilt == [daemon EXCEPT ![d].off = suppressed]
             cleared == IF clears THEN Cleared(digest) ELSE rebuilt[d].copy
  <2>1. daemon' = [daemon EXCEPT ![d].off = suppressed,
                                 ![d].copy = IF clears THEN Cleared(digest) ELSE @]
    BY <1>10 DEF EmbedderFactory
  <2>2. daemon' = [rebuilt EXCEPT ![d].copy = cleared]
    BY <2>1
  <2>3. suppressed \in BOOLEAN
    BY DEF Typed, Guards, EmbeddingSuppressed
  <2>4. rebuilt \in [Daemons -> DaemonRecs]
    BY <2>3, DaemonFields DEF Typed
  <2>5. cleared \in Guards
    BY <2>4, GuardOperators DEF Typed, DaemonRecs
  <2> HIDE DEF rebuilt, cleared
  <2>6. daemon' \in [Daemons -> DaemonRecs]
    BY <2>2, <2>4, <2>5, DaemonFields
  <2> QED
    BY <1>10, <2>6 DEF Typed, CommandsTyped, StopsSomebody, LockRecs, EmbedderFactory, files
<1>11. ASSUME NEW d \in Daemons, GuardCopyLands(d) PROVE Typed' /\ StopsSomebody'
  <2>1. daemon[d].copy \in Guards /\ daemon' \in [Daemons -> DaemonRecs]
    BY <1>11, FixedRecords, DaemonFields DEF Typed, DaemonRecs, GuardCopyLands
  <2> QED
    BY <1>11, <2>1 DEF Typed, CommandsTyped, StopsSomebody, LockRecs, GuardCopyLands
<1>12. ASSUME NEW d \in Daemons, CheckOwnBinary(d) PROVE Typed' /\ StopsSomebody'
  <2>1. CASE HandOff(d)
    <3> DEFINE hands == [daemon EXCEPT ![d].handed = TRUE]
    <3>1. CASE /\ daemon' = [daemon EXCEPT ![d].handed = TRUE, ![d].pc = "tidy"]
               /\ \E c \in Commands : Spawns(c, "ensure", installed)
      <4>1. hands \in [Daemons -> DaemonRecs]
        BY DaemonFields DEF Typed
      <4>2. daemon' = [hands EXCEPT ![d].pc = "tidy"]
        BY <3>1
      <4> HIDE DEF hands
      <4>3. [hands EXCEPT ![d].pc = "tidy"] \in [Daemons -> DaemonRecs]
        BY <4>1, DaemonFields DEF Alive
      <4>4. CommandsTyped'
        BY <3>1, CommandSteps DEF Typed
      <4> QED
        BY <1>12, <4>2, <4>3, <4>4 DEF Typed, CommandsTyped, StopsSomebody, LockRecs, CheckOwnBinary, files
    <3>2. CASE daemon' = [daemon EXCEPT ![d].replaced = TRUE] /\ UNCHANGED command
      <4>1. daemon' \in [Daemons -> DaemonRecs]
        BY <3>2, DaemonFields DEF Typed
      <4> QED
        BY <1>12, <3>2, <4>1 DEF Typed, CommandsTyped, StopsSomebody, LockRecs, CheckOwnBinary, files
    <3> QED
      BY <1>12, <3>1, <3>2 DEF CheckOwnBinary
  <2>2. CASE ~HandOff(d)
    <3>1. daemon' = [daemon EXCEPT ![d].replaced = TRUE] /\ UNCHANGED command
      BY <1>12, <2>2 DEF CheckOwnBinary
    <3>2. daemon' \in [Daemons -> DaemonRecs]
      BY <3>1, DaemonFields DEF Typed
    <3> QED
      BY <1>12, <3>1, <3>2 DEF Typed, CommandsTyped, StopsSomebody, LockRecs, CheckOwnBinary, files
  <2> QED
    BY <2>1, <2>2
<1>13. ASSUME NEW d \in Daemons, CheckFleetSyncWedged(d) PROVE Typed' /\ StopsSomebody'
  <2>1. CASE /\ \E c \in Commands : Spawns(c, "restart", installed)
             /\ daemon' = [daemon EXCEPT ![d].ordered = TRUE]
             /\ marker' = "new" /\ orders' = orders + 1
    <3>1. [daemon EXCEPT ![d].ordered = TRUE] \in [Daemons -> DaemonRecs]
      BY DaemonFields DEF Typed
    <3>2. CommandsTyped'
      BY <2>1, CommandSteps DEF Typed
    <3> QED
      BY <1>13, <2>1, <3>1, <3>2 DEF Typed, CommandsTyped, StopsSomebody, LockRecs, CheckFleetSyncWedged
  <2>2. CASE marker' = "none" /\ UNCHANGED <<daemon, command, orders>>
    BY <1>13, <2>2 DEF Typed, CommandsTyped, StopsSomebody, LockRecs, CheckFleetSyncWedged
  <2> QED
    BY <1>13, <2>1, <2>2 DEF CheckFleetSyncWedged
<1>14. ASSUME NEW d \in Daemons, FleetSync(d) PROVE Typed' /\ StopsSomebody'
  <2>1. CASE Happens("wedge") /\ daemon' = [daemon EXCEPT ![d].wedged = TRUE]
               /\ UNCHANGED <<marker, orders>>
    <3>1. daemon' \in [Daemons -> DaemonRecs] /\ incidents' \in 0..MaxIncidents
      BY <2>1, Counted, DaemonFields DEF Typed
    <3> QED
      BY <1>14, <2>1, <3>1 DEF Typed, CommandsTyped, StopsSomebody, LockRecs, FleetSync
  <2>2. CASE /\ daemon' = [daemon EXCEPT ![d].wedged = FALSE, ![d].latched = FALSE]
             /\ marker' = "none" /\ orders' = 0 /\ UNCHANGED incidents
    <3> DEFINE cured == [daemon EXCEPT ![d].wedged = FALSE]
    <3>1. cured \in [Daemons -> DaemonRecs]
      BY DaemonFields DEF Typed
    <3>2. daemon' = [cured EXCEPT ![d].latched = FALSE]
      BY <2>2
    <3> HIDE DEF cured
    <3>3. daemon' \in [Daemons -> DaemonRecs]
      BY <3>1, <3>2, DaemonFields
    <3> QED
      BY <1>14, <2>2, <3>3 DEF Typed, CommandsTyped, StopsSomebody, LockRecs, FleetSync
  <2> QED
    BY <1>14, <2>1, <2>2 DEF FleetSync
<1>15. ASSUME NEW d \in Daemons, Terminated(d) PROVE Typed' /\ StopsSomebody'
  BY <1>15, DaemonFields DEF Typed, CommandsTyped, StopsSomebody, LockRecs, Terminated, files, Alive, Booting
<1>16. ASSUME NEW d \in Daemons, Shutdown(d) PROVE Typed' /\ StopsSomebody'
  <2>1. CASE DaemonEnds(d) /\ UNCHANGED health
    BY <1>16, <2>1, EndsTyped DEF Typed, CommandsTyped, StopsSomebody, LockRecs, Shutdown
  <2>2. CASE /\ \E pc \in {"drain", "release"} : daemon' = [daemon EXCEPT ![d].pc = pc]
             /\ health' \in {health, NoHealth} /\ UNCHANGED lock
    <3>2. PICK pc \in {"drain", "release"} : daemon' = [daemon EXCEPT ![d].pc = pc]
      BY <2>2
    <3>3. [daemon EXCEPT ![d].pc = pc] \in [Daemons -> DaemonRecs]
      BY DaemonFields DEF Typed, Alive
    <3>1. daemon' \in [Daemons -> DaemonRecs]
      BY <3>2, <3>3
    <3> QED
      BY <1>16, <2>2, <3>1, FixedRecords DEF Typed, CommandsTyped, StopsSomebody, LockRecs, Shutdown
  <2> QED
    BY <1>16, <2>1, <2>2 DEF Shutdown
<1>17. ASSUME NEW d \in Daemons, Crash(d) PROVE Typed' /\ StopsSomebody'
  BY <1>17, Counted, EndsTyped DEF Typed, CommandsTyped, StopsSomebody, LockRecs, Crash
<1>18. ASSUME NEW c \in Commands, HookEnsures(c) PROVE Typed' /\ StopsSomebody'
  BY <1>18, CommandSteps DEF Typed, CommandsTyped, StopsSomebody, LockRecs, HookEnsures, files
<1>19. ASSUME NEW c \in Commands, OperatorCommands(c) PROVE Typed' /\ StopsSomebody'
  BY <1>19, Counted, CommandSteps DEF Typed, CommandsTyped, StopsSomebody, LockRecs, OperatorCommands, files
<1>20. ASSUME NEW c \in Commands, SpawnBlockedCheck(c) PROVE Typed' /\ StopsSomebody'
  <2> DEFINE next == IF guard.gaveUp THEN "lift"
                    ELSE IF command[c].kind = "restart" THEN "forget" ELSE "look"
             proceeds == [command EXCEPT ![c].pc = next]
             takes == IF guard.gaveUp THEN Cleared(digest) ELSE proceeds[c].copy
  <2>1. CASE Quit(c)
    BY <1>20, <2>1, CommandSteps DEF Typed, CommandsTyped, StopsSomebody, LockRecs, SpawnBlockedCheck, files
  <2>2. CASE command' = [command EXCEPT
                ![c].pc = IF guard.gaveUp THEN "lift"
                          ELSE IF command[c].kind = "restart" THEN "forget" ELSE "look",
                ![c].copy = IF guard.gaveUp THEN Cleared(digest) ELSE @]
    <3>1. command' = [proceeds EXCEPT ![c].copy = takes]
      BY <2>2
    <3>2. proceeds \in [Commands -> CommandRecs] /\ \A x \in Commands :
            proceeds[x].pc = "stop" => proceeds[x].seen \in Daemons
      BY DEF CommandsTyped, CommandRecs, StopsSomebody
    <3>3. takes \in Guards
      BY <3>2, GuardOperators DEF Typed, CommandRecs
    <3> HIDE DEF proceeds, takes
    <3>4. CommandsTyped'
      BY <3>1, <3>2, <3>3 DEF CommandsTyped, CommandRecs, StopsSomebody
    <3> QED
      BY <1>20, <3>4 DEF Typed, CommandsTyped, StopsSomebody, LockRecs, SpawnBlockedCheck, files
  <2> QED
    BY <1>20, <2>1, <2>2 DEF SpawnBlockedCheck
<1>21. ASSUME NEW c \in Commands, LatchLifts(c) PROVE Typed' /\ StopsSomebody'
  <2>1. command[c].copy \in Guards /\ CommandsTyped'
    BY <1>21, CommandSteps DEF CommandsTyped, CommandRecs, LatchLifts
  <2> QED
    BY <1>21, <2>1 DEF Typed, CommandsTyped, StopsSomebody, LockRecs, LatchLifts
<1>22. ASSUME NEW c \in Commands, ForgetRestartBoots(c) PROVE Typed' /\ StopsSomebody'
  <2>1. CASE command[c].pc = "forget" /\ guard.starts = 0
    BY <1>22, <2>1, CommandSteps DEF Typed, CommandsTyped, StopsSomebody, LockRecs, ForgetRestartBoots, files
  <2>2. CASE command[c].pc = "forget" /\ guard.starts # 0
    <3> DEFINE proceeds == [command EXCEPT ![c].pc = "forgot"]
    <3>1. command' = [proceeds EXCEPT ![c].copy = Survived(guard)]
      BY <1>22, <2>2 DEF ForgetRestartBoots
    <3>2. proceeds \in [Commands -> CommandRecs] /\ \A x \in Commands :
            proceeds[x].pc = "stop" => proceeds[x].seen \in Daemons
      BY DEF CommandsTyped, CommandRecs, StopsSomebody
    <3>3. Survived(guard) \in Guards
      BY GuardOperators DEF Typed
    <3> HIDE DEF proceeds
    <3>4. CommandsTyped'
      BY <3>1, <3>2, <3>3 DEF CommandsTyped, CommandRecs, StopsSomebody
    <3> QED
      BY <1>22, <2>2, <3>4 DEF Typed, CommandsTyped, StopsSomebody, LockRecs, ForgetRestartBoots, files
  <2>3. CASE command[c].pc = "forgot"
    <3>1. command[c].copy \in Guards /\ CommandsTyped'
      BY <1>22, <2>3, CommandSteps DEF CommandsTyped, CommandRecs, ForgetRestartBoots
    <3> QED
      BY <1>22, <2>3, <3>1 DEF Typed, CommandsTyped, StopsSomebody, LockRecs, ForgetRestartBoots
  <2> QED
    BY <1>22, <2>1, <2>2, <2>3 DEF ForgetRestartBoots
<1>23. ASSUME NEW c \in Commands, ReplaceHolder(c) PROVE Typed' /\ StopsSomebody'
  <2>1. CommandsTyped'
    <3>1. \/ Quit(c) \/ To(c, "start") \/ To(c, "relook")
          \/ /\ lock.pid # NoPid
             /\ command' = [command EXCEPT ![c].pc = "stop", ![c].seen = lock.pid]
      BY <1>23 DEF ReplaceHolder
    <3>2. CASE Quit(c) \/ To(c, "start") \/ To(c, "relook")
      BY <3>2, CommandSteps
    <3>3. CASE /\ lock.pid # NoPid
               /\ command' = [command EXCEPT ![c].pc = "stop", ![c].seen = lock.pid]
      <4> DEFINE pursued == [command EXCEPT ![c].pc = "stop"]
      <4>1. pursued \in [Commands -> CommandRecs] /\ pursued[c].pc = "stop"
            /\ \A x \in Commands \ {c} : pursued[x] = command[x]
        BY DEF CommandsTyped, CommandRecs
      <4>2. command' = [pursued EXCEPT ![c].seen = lock.pid]
        BY <3>3
      <4>3. lock.pid \in Daemons
        BY <3>3 DEF Typed
      <4> HIDE DEF pursued
      <4> QED
        BY <4>1, <4>2, <4>3 DEF CommandsTyped, CommandRecs, StopsSomebody
    <3> QED
      BY <3>1, <3>2, <3>3
  <2> QED
    BY <1>23, <2>1 DEF Typed, CommandsTyped, StopsSomebody, LockRecs, ReplaceHolder, files
<1>24. ASSUME NEW c \in Commands, Stop(c) PROVE Typed' /\ StopsSomebody'
  <2> DEFINE p == command[c].seen
  <2>1. p \in Daemons /\ CommandsTyped'
    BY <1>24, CommandSteps DEF CommandsTyped, StopsSomebody, Stop
  <2>2. daemon' = [daemon EXCEPT ![p].term = daemon[p].pc \in Alive]
    BY <1>24 DEF Stop
  <2>3. (daemon[p].pc \in Alive) \in BOOLEAN
    OBVIOUS
  <2> HIDE DEF p
  <2>4. daemon' \in [Daemons -> DaemonRecs]
    BY <2>1, <2>2, <2>3, DaemonFields DEF Typed
  <2> QED
    BY <1>24, <2>1, <2>4 DEF Typed, CommandsTyped, StopsSomebody, LockRecs, Stop, files
<1>25. ASSUME NEW c \in Commands, WaitReleased(c) PROVE Typed' /\ StopsSomebody'
  BY <1>25, CommandSteps DEF Typed, CommandsTyped, StopsSomebody, LockRecs, WaitReleased, files
<1>26. ASSUME NEW c \in Commands, SpawnDaemon(c) PROVE Typed' /\ StopsSomebody'
  <2>1. daemon' \in [Daemons -> DaemonRecs]
    <3>1. CASE UNCHANGED daemon
      BY <3>1 DEF Typed
    <3>2. CASE \E d \in Daemons :
                 daemon' = [daemon EXCEPT ![d] = [NoDaemon EXCEPT !.pc = "boot", !.bin = command[c].bin]]
      <4> DEFINE boots == [NoDaemon EXCEPT !.pc = "boot", !.bin = command[c].bin]
      <4>1. boots \in DaemonRecs
        BY FixedRecords DEF CommandsTyped, CommandRecs
      <4> HIDE DEF boots
      <4>2. PICK d \in Daemons : daemon' = [daemon EXCEPT ![d] = boots]
        BY <3>2 DEF boots
      <4> QED
        BY <4>1, <4>2, DaemonFields DEF Typed
    <3> QED
      BY <1>26, <3>1, <3>2 DEF SpawnDaemon
  <2>2. CommandsTyped'
    BY <1>26, CommandSteps DEF SpawnDaemon
  <2> QED
    BY <1>26, <2>1, <2>2 DEF Typed, CommandsTyped, StopsSomebody, LockRecs, SpawnDaemon, files
<1>27. ASSUME NEW c \in Commands, AwaitDaemonHealth(c) PROVE Typed' /\ StopsSomebody'
  BY <1>27, CommandSteps DEF Typed, CommandsTyped, StopsSomebody, LockRecs, AwaitDaemonHealth, files
<1>28. CASE Probe
  BY <1>28, Counted, BoundsTyped DEF Typed, CommandsTyped, StopsSomebody, LockRecs, Probe
<1>29. CASE EditConfig
  BY <1>29, BoundsTyped DEF Typed, CommandsTyped, StopsSomebody, LockRecs, EditConfig, Digests
<1>30. CASE Upgrade
  BY <1>30, Counted, BoundsTyped DEF Typed, CommandsTyped, StopsSomebody, LockRecs, Upgrade, Binaries
<1>31. CASE TimePasses
  BY <1>31, BoundsTyped DEF Typed, CommandsTyped, StopsSomebody, LockRecs, TimePasses, Guards
<1>32. CASE UNCHANGED supVars
  BY <1>32, BoundsTyped DEF Typed, CommandsTyped, StopsSomebody, LockRecs, supVars, files
<1> QED
  BY <1>1, <1>2, <1>3, <1>4, <1>5, <1>6, <1>7, <1>8, <1>9, <1>10, <1>11, <1>12, <1>13, <1>14, <1>15, <1>16, <1>17, <1>18, <1>19, <1>20, <1>21, <1>22, <1>23, <1>24, <1>25, <1>26, <1>27, <1>28, <1>29, <1>30, <1>31, <1>32 DEF NextSup, DaemonStep, CommandStep

-----------------------------------------------------------------------------
(* The flock and what follows from it.                                     *)

\* Nobody else holds the flock while d does.
LEMMA OwnerIsAlone ==
  ASSUME OwnerInv, NEW d \in Daemons, daemon[d].pc \in Holding
  PROVE  \A x \in Daemons \ {d} : daemon[x].pc \notin Holding
BY DEF OwnerInv

LEMMA Phases ==
  /\ Unheard \ {"boot"} \subseteq Holding /\ Recorded \subseteq Holding
  /\ "run" \in Recorded /\ "none" \notin Alive /\ "none" \notin Holding /\ Holding \subseteq Alive
  /\ "boot" \in Alive /\ Alive \ {"boot"} = Holding
BY DEF Unheard, Recorded, Holding, Alive, Booting

\* The parts of SupInv besides the types.
FlockInv == OwnerInv /\ RecordInv /\ UnheardInv /\ HeartbeatIsItsOwn /\ OutageInv

\* A step that is none of the daemons' own business.
LEMMA Undisturbed ==
  ASSUME FlockInv, UNCHANGED <<lock, health, marker, orders>>,
         \A x \in Daemons : /\ daemon'[x].pc = daemon[x].pc
                            /\ daemon'[x].latched = daemon[x].latched
                            /\ daemon[x].ordered => daemon'[x].ordered
  PROVE  FlockInv'
BY DEF FlockInv, OwnerInv, RecordInv, UnheardInv, HeartbeatIsItsOwn, OutageInv

\* A process ends, whatever it was doing.
LEMMA EndsKeepFlock ==
  ASSUME Typed, FlockInv, NEW d \in Daemons, daemon[d].pc \in Alive, DaemonEnds(d),
         UNCHANGED <<marker, orders>>,
         UNCHANGED health
  PROVE  FlockInv'
<1>1. /\ \A x \in Daemons \ {d} : daemon'[x] = daemon[x]
      /\ daemon'[d].pc = "none"
  BY FixedRecords DEF Typed, DaemonEnds
<1>2. lock'.owner = (IF lock.owner = d THEN NoPid ELSE lock.owner) /\ lock'.pid = lock.pid
  BY DEF Typed, DaemonEnds
<1>3. "none" \notin Holding /\ "none" \notin Recorded /\ "none" \notin Unheard
  BY Phases DEF Unheard
<1>4. OwnerInv'
  BY <1>1, <1>2, <1>3, BoundsTyped DEF FlockInv, OwnerInv
<1>5. RecordInv'
  BY <1>1, <1>2, <1>3 DEF FlockInv, RecordInv
<1>6. UnheardInv' /\ HeartbeatIsItsOwn'
  BY <1>1, <1>3 DEF FlockInv, UnheardInv, HeartbeatIsItsOwn
<1>7. OutageInv'
  BY <1>1 DEF FlockInv, OutageInv
<1> QED
  BY <1>4, <1>5, <1>6, <1>7 DEF FlockInv

\* A step of the flock's holder that does not end it.
LEMMA HolderMoves ==
  ASSUME Typed, FlockInv, NEW d \in Daemons,
         daemon[d].pc \in Holding, daemon'[d].pc \in Holding,
         \A x \in Daemons \ {d} : daemon'[x] = daemon[x],
         lock'.owner = lock.owner, daemon'[d].pc \in Recorded => lock'.pid = d,
         health'.pid \in {health.pid, d, NoPid},
         daemon'[d].pc \in Unheard => health'.pid # d,
         daemon'[d].pc = "run" => health'.pid = d,
         orders' <= 1, orders' = 1 => marker' = "new", marker' = "new" => Shared,
         marker' = "new" /\ daemon'[d].pc = "run" => daemon'[d].latched \/ daemon'[d].ordered
  PROVE  FlockInv'
<1>1. \A x \in Daemons \ {d} : daemon[x].pc \notin Holding
  BY OwnerIsAlone DEF FlockInv
<1>2. OwnerInv'
  BY <1>1 DEF FlockInv, OwnerInv
<1>3. RecordInv'
  BY <1>1, Phases DEF RecordInv
<1>4. UnheardInv'
  <2> SUFFICES ASSUME NEW x \in Daemons \ {d}, daemon[x].pc \in Unheard PROVE health'.pid # x
    BY DEF UnheardInv
  <2> QED
    BY BoundsTyped DEF FlockInv, UnheardInv
<1>5. HeartbeatIsItsOwn'
  BY <1>1, Phases DEF HeartbeatIsItsOwn
<1>6. OutageInv'
  BY <1>1, Phases DEF OutageInv
<1> QED
  BY <1>2, <1>3, <1>4, <1>5, <1>6 DEF FlockInv

\* What the holder's step does to its own record.
Moves(d, from, to) ==
  /\ daemon[d].pc = from /\ daemon'[d].pc = to
  /\ daemon'[d].latched = daemon[d].latched /\ (daemon[d].ordered => daemon'[d].ordered)
  /\ \A x \in Daemons \ {d} : daemon'[x] = daemon[x]

\* A step of the holder that leaves the outage alone.
LEMMA HolderSteps ==
  ASSUME Typed, FlockInv, NEW d \in Daemons, NEW from \in Holding, NEW to \in Holding,
         Moves(d, from, to), UNCHANGED <<marker, orders>>,
         lock'.owner = lock.owner, to \in Recorded => lock'.pid = d,
         health'.pid \in {health.pid, d, NoPid},
         to \in Unheard => health'.pid # d,
         to = "run" => health'.pid = d /\ from = "run"
  PROVE  FlockInv'
BY HolderMoves, Phases DEF Moves, FlockInv, OutageInv

LEMMA FlockKept ==
  ASSUME Typed, StopsSomebody, FlockInv, [NextSup]_supVars
  PROVE  FlockInv'
<1>1. ASSUME NEW d \in Daemons, Acquire(d) PROVE FlockInv'
  <2>1. CASE daemon' = [daemon EXCEPT ![d] = NoDaemon] /\ UNCHANGED lock
    <3>1. lock.owner # d
      BY <1>1 DEF Acquire, FlockInv, OwnerInv, Holding
    <3>2. DaemonEnds(d)
      BY <2>1, <3>1 DEF DaemonEnds, Typed
    <3> QED
      BY <1>1, <3>2, EndsKeepFlock, Phases DEF Acquire
  <2>2. CASE /\ ~Running /\ lock' = [lock EXCEPT !.owner = d]
             /\ daemon' = [daemon EXCEPT ![d].pc = "locked"]
    <3>1. /\ \A x \in Daemons \ {d} : daemon'[x] = daemon[x]
          /\ daemon[d].pc = "boot" /\ daemon'[d].pc = "locked"
          /\ lock'.owner = d /\ lock'.pid = lock.pid
      BY <1>1, <2>2 DEF Acquire, Typed, DaemonRecs
    <3>2. \A x \in Daemons : daemon[x].pc \notin Holding
      BY <2>2, BoundsTyped DEF Running, FlockInv, OwnerInv
    <3>3. "locked" \in Holding /\ "locked" \notin Recorded /\ "locked" \in Unheard /\ "boot" \in Unheard
      BY DEF Holding, Recorded, Unheard, Alive, Booting
    <3>4. OwnerInv'
      BY <3>1, <3>2, <3>3 DEF OwnerInv
    <3>5. RecordInv'
      BY <3>1, <3>2, <3>3, Phases DEF RecordInv
    <3>6. UnheardInv' /\ HeartbeatIsItsOwn'
      BY <1>1, <3>1, <3>3 DEF Acquire, FlockInv, UnheardInv, HeartbeatIsItsOwn
    <3>7. OutageInv'
      BY <1>1, <3>1 DEF Acquire, FlockInv, OutageInv
    <3> QED
      BY <3>4, <3>5, <3>6, <3>7 DEF FlockInv
  <2> QED
    BY <1>1, <2>1, <2>2 DEF Acquire
<1>2. ASSUME NEW d \in Daemons, AcquireRecords(d) PROVE FlockInv'
  <2>1. CASE daemon[d].pc = "locked"
    <3>1. Moves(d, "locked", "truncated") /\ lock'.owner = lock.owner
      BY <1>2, <2>1 DEF Moves, AcquireRecords, Typed, DaemonRecs
    <3>2. /\ {"locked", "truncated"} \subseteq Holding \cap Unheard /\ "truncated" \notin Recorded
      BY DEF Holding, Recorded, Unheard, Alive, Booting
    <3> QED
      BY <1>2, <2>1, <3>1, <3>2, HolderSteps DEF AcquireRecords, FlockInv, UnheardInv
  <2>2. CASE daemon[d].pc = "truncated"
    <3>1. Moves(d, "truncated", "guard")
      BY <1>2, <2>2 DEF Moves, AcquireRecords, Typed, DaemonRecs
    <3>2. lock'.owner = lock.owner /\ lock'.pid = d
      BY <1>2, <2>2 DEF AcquireRecords, Typed
    <3>3. {"truncated", "guard"} \subseteq Holding \cap Unheard
      BY DEF Holding, Recorded, Unheard, Alive, Booting
    <3> QED
      BY <1>2, <2>2, <3>1, <3>2, <3>3, HolderSteps DEF AcquireRecords, FlockInv, UnheardInv
  <2> QED
    BY <1>2, <2>1, <2>2 DEF AcquireRecords
<1>3. ASSUME NEW d \in Daemons, ReadGuard(d) PROVE FlockInv'
  <2>1. Moves(d, "guard", "judge")
    BY <1>3 DEF Moves, ReadGuard, Typed, DaemonRecs
  <2>2. {"guard", "judge"} \subseteq Holding \cap Unheard \cap Recorded
    BY DEF Holding, Recorded, Unheard, Alive, Booting
  <2> QED
    BY <1>3, <2>1, <2>2, HolderSteps DEF ReadGuard, files, FlockInv, RecordInv, UnheardInv, HeartbeatIsItsOwn
<1>4. ASSUME NEW d \in Daemons, WriteGuard(d) PROVE FlockInv'
  <2>1. CASE daemon[d].copy.gaveUp
    BY <1>4, <2>1, EndsKeepFlock DEF WriteGuard, Alive, Booting
  <2>2. CASE ~daemon[d].copy.gaveUp
    <3>1. Moves(d, "judge", "opening")
      BY <1>4, <2>2 DEF Moves, WriteGuard, Typed, DaemonRecs
    <3>2. {"judge", "opening"} \subseteq Holding \cap Recorded /\ "opening" \notin Unheard
      BY DEF Holding, Recorded, Unheard, Alive, Booting
    <3> QED
      BY <1>4, <2>2, <3>1, <3>2, HolderSteps DEF WriteGuard, FlockInv, RecordInv, UnheardInv, HeartbeatIsItsOwn
  <2> QED
    BY <2>1, <2>2
<1>5. ASSUME NEW d \in Daemons, OpenShared(d) PROVE FlockInv'
  <2>1. CASE DaemonEnds(d) /\ UNCHANGED health
    BY <1>5, <2>1, EndsKeepFlock DEF OpenShared, Alive, Booting
  <2>2. CASE Beats(d, FALSE) /\ UNCHANGED <<daemon, lock>>
    <3>1. Moves(d, "opening", "opening") /\ health'.pid = d
      BY <1>5, <2>2 DEF Moves, OpenShared, Beats
    <3>2. "opening" \in Holding \cap Recorded /\ "opening" \notin Unheard
      BY DEF Holding, Recorded, Unheard, Alive, Booting
    <3> QED
      BY <1>5, <2>2, <3>1, <3>2, HolderSteps DEF OpenShared, FlockInv, RecordInv, UnheardInv, HeartbeatIsItsOwn
  <2> QED
    BY <1>5, <2>1, <2>2 DEF OpenShared
<1>6. ASSUME NEW d \in Daemons, RunStarts(d) PROVE FlockInv'
  <2>1. /\ daemon[d].pc = "opening" /\ daemon'[d].pc = "run"
        /\ daemon'[d].latched = (Shared /\ marker = "new")
        /\ \A x \in Daemons \ {d} : daemon'[x] = daemon[x]
    BY <1>6 DEF RunStarts, Typed, DaemonRecs
  <2>2. /\ health'.pid = d /\ UNCHANGED <<lock, orders>>
        /\ marker' = marker \/ (marker' = "none" /\ marker = "old")
    <3>1. health' = [pid |-> d, booted |-> TRUE, replaced |-> daemon[d].replaced]
      BY <1>6 DEF RunStarts, Beats
    <3> QED
      BY <1>6, <3>1 DEF RunStarts
  <2>3. {"opening", "run"} \subseteq Holding \cap Recorded /\ "run" \notin Unheard
    BY DEF Holding, Recorded, Unheard, Alive, Booting
  <2> QED
    BY <2>1, <2>2, <2>3, HolderMoves DEF FlockInv, RecordInv, OutageInv
<1>7. ASSUME NEW d \in Daemons, OpenFails(d) PROVE FlockInv'
  BY <1>7, EndsKeepFlock DEF OpenFails, Alive, Booting
<1>8. ASSUME NEW d \in Daemons, Crash(d) PROVE FlockInv'
  BY <1>8, EndsKeepFlock DEF Crash, Alive, Booting
<1>9. ASSUME NEW d \in Daemons, Heartbeat(d) PROVE FlockInv'
  <2>1. Moves(d, "run", "run") /\ health'.pid = d
    BY <1>9 DEF Moves, Heartbeat, Beats
  <2>2. "run" \in Holding \cap Recorded /\ "run" \notin Unheard
    BY DEF Holding, Recorded, Unheard, Alive, Booting
  <2> QED
    BY <1>9, <2>1, <2>2, HolderSteps DEF Heartbeat, FlockInv, RecordInv, UnheardInv, HeartbeatIsItsOwn
<1>10. ASSUME NEW d \in Daemons, SurviveRead(d) PROVE FlockInv'
  <2>1. Moves(d, "run", "run")
    BY <1>10 DEF Moves, SurviveRead, Typed, DaemonRecs
  <2>2. "run" \in Holding \cap Recorded /\ "run" \notin Unheard
    BY DEF Holding, Recorded, Unheard, Alive, Booting
  <2> QED
    BY <1>10, <2>1, <2>2, HolderSteps DEF SurviveRead, files, FlockInv, RecordInv, UnheardInv, HeartbeatIsItsOwn
<1>11. ASSUME NEW d \in Daemons, EmbedderFactory(d) PROVE FlockInv'
  <2>1. Moves(d, "run", "run")
    BY <1>11 DEF Moves, EmbedderFactory, Typed, DaemonRecs
  <2>2. "run" \in Holding \cap Recorded /\ "run" \notin Unheard
    BY DEF Holding, Recorded, Unheard, Alive, Booting
  <2> QED
    BY <1>11, <2>1, <2>2, HolderSteps DEF EmbedderFactory, files, FlockInv, RecordInv, UnheardInv, HeartbeatIsItsOwn
<1>12. ASSUME NEW d \in Daemons, GuardCopyLands(d) PROVE FlockInv'
  <2>1. Moves(d, "run", "run")
    BY <1>12 DEF Moves, GuardCopyLands, Typed, DaemonRecs
  <2>2. "run" \in Holding \cap Recorded /\ "run" \notin Unheard
    BY DEF Holding, Recorded, Unheard, Alive, Booting
  <2> QED
    BY <1>12, <2>1, <2>2, HolderSteps DEF GuardCopyLands, files, FlockInv, RecordInv, UnheardInv, HeartbeatIsItsOwn
<1>13. ASSUME NEW d \in Daemons, CheckOwnBinary(d) PROVE FlockInv'
  <2>1. Moves(d, "run", "run") \/ Moves(d, "run", "tidy")
    <3>1. CASE daemon' = [daemon EXCEPT ![d].handed = TRUE, ![d].pc = "tidy"]
      BY <1>13, <3>1 DEF Moves, CheckOwnBinary, Typed, DaemonRecs
    <3>2. CASE daemon' = [daemon EXCEPT ![d].replaced = TRUE]
      BY <1>13, <3>2 DEF Moves, CheckOwnBinary, Typed, DaemonRecs
    <3> QED
      BY <1>13, <3>1, <3>2 DEF CheckOwnBinary
  <2>2. {"run", "tidy"} \subseteq Holding \cap Recorded /\ {"run", "tidy"} \cap Unheard = {}
    BY DEF Holding, Recorded, Unheard, Alive, Booting
  <2> QED
    BY <1>13, <2>1, <2>2, HolderSteps DEF CheckOwnBinary, files, FlockInv, RecordInv, UnheardInv, HeartbeatIsItsOwn
<1>14. ASSUME NEW d \in Daemons, CheckFleetSyncWedged(d) PROVE FlockInv'
  <2>1. "run" \in Holding \cap Recorded /\ "run" \notin Unheard
    BY DEF Holding, Recorded, Unheard, Alive, Booting
  <2>2. /\ Shared /\ daemon[d].pc = "run" /\ ~daemon[d].ordered /\ ~daemon[d].latched
        /\ UNCHANGED <<lock, health>>
    BY <1>14 DEF CheckFleetSyncWedged
  <2>3. marker # "new" /\ orders = 0
    BY <2>2 DEF FlockInv, OutageInv, Typed
  <2>4. CASE daemon' = [daemon EXCEPT ![d].ordered = TRUE] /\ marker' = "new" /\ orders' = orders + 1
    <3>1. /\ daemon'[d].pc = "run" /\ daemon'[d].ordered
          /\ \A x \in Daemons \ {d} : daemon'[x] = daemon[x]
      BY <2>2, <2>4 DEF Typed, DaemonRecs
    <3> QED
      BY <2>1, <2>2, <2>3, <2>4, <3>1, HolderMoves DEF FlockInv, RecordInv, HeartbeatIsItsOwn
  <2>5. CASE marker' = "none" /\ UNCHANGED <<daemon, orders>>
    BY <2>1, <2>2, <2>3, <2>5, HolderMoves DEF FlockInv, RecordInv, HeartbeatIsItsOwn
  <2> QED
    BY <1>14, <2>4, <2>5 DEF CheckFleetSyncWedged
<1>15. ASSUME NEW d \in Daemons, FleetSync(d) PROVE FlockInv'
  <2>1. "run" \in Holding \cap Recorded /\ "run" \notin Unheard
    BY DEF Holding, Recorded, Unheard, Alive, Booting
  <2>2. daemon[d].pc = "run" /\ UNCHANGED <<lock, health>>
    BY <1>15 DEF FleetSync
  <2>3. CASE daemon' = [daemon EXCEPT ![d].wedged = TRUE] /\ UNCHANGED <<marker, orders>>
    <3>1. Moves(d, "run", "run")
      BY <2>2, <2>3 DEF Moves, Typed, DaemonRecs
    <3> QED
      BY <2>1, <2>2, <2>3, <3>1, HolderSteps DEF FlockInv, RecordInv, UnheardInv, HeartbeatIsItsOwn
  <2>4. CASE daemon' = [daemon EXCEPT ![d].wedged = FALSE, ![d].latched = FALSE]
             /\ marker' = "none" /\ orders' = 0
    <3>1. /\ daemon'[d].pc = "run" /\ \A x \in Daemons \ {d} : daemon'[x] = daemon[x]
          /\ lock'.owner = lock.owner /\ lock'.pid = d /\ health'.pid = d
      BY <2>1, <2>2, <2>4 DEF Typed, DaemonRecs, FlockInv, RecordInv, HeartbeatIsItsOwn
    <3>2. orders' <= 1 /\ orders' # 1 /\ marker' # "new"
      BY <2>4
    <3> QED
      BY <2>1, <2>2, <3>1, <3>2, HolderMoves
  <2> QED
    BY <1>15, <2>3, <2>4 DEF FleetSync
<1>16. ASSUME NEW d \in Daemons, Terminated(d) PROVE FlockInv'
  <2>1. Moves(d, "run", "tidy")
    BY <1>16 DEF Moves, Terminated, Typed, DaemonRecs
  <2>2. {"run", "tidy"} \subseteq Holding \cap Recorded /\ "tidy" \notin Unheard
    BY DEF Holding, Recorded, Unheard, Alive, Booting
  <2> QED
    BY <1>16, <2>1, <2>2, HolderSteps DEF Terminated, files, FlockInv, RecordInv, UnheardInv, HeartbeatIsItsOwn
<1>17. ASSUME NEW d \in Daemons, Shutdown(d) PROVE FlockInv'
  <2>1. CASE daemon[d].pc = "release"
    BY <1>17, <2>1, EndsKeepFlock DEF Shutdown, Alive, Booting
  <2>2. CASE daemon[d].pc # "release"
    <3>1. \/ Moves(d, "tidy", "drain") /\ UNCHANGED health
          \/ Moves(d, "drain", "release") /\ health' = NoHealth
      BY <1>17, <2>2 DEF Moves, Shutdown, Typed, DaemonRecs
    <3>2. /\ {"tidy", "drain", "release"} \subseteq Holding \cap Recorded
          /\ {"drain", "release"} \cap Unheard = {} /\ "run" \notin {"drain", "release"}
      BY DEF Holding, Recorded, Unheard, Alive, Booting
    <3>3. UNCHANGED <<lock, marker, orders>>
      BY <1>17, <2>2 DEF Shutdown
    <3>4. lock.pid = d /\ health'.pid \in {health.pid, d, NoPid}
      BY <3>1, <3>2, FixedRecords DEF Moves, FlockInv, RecordInv
    <3> QED
      BY <3>1, <3>2, <3>3, <3>4, HolderSteps
  <2> QED
    BY <2>1, <2>2
<1>18. ASSUME NEW c \in Commands, HookEnsures(c) PROVE FlockInv'
  BY <1>18, Undisturbed DEF HookEnsures, files
<1>19. ASSUME NEW c \in Commands, OperatorCommands(c) PROVE FlockInv'
  BY <1>19, Undisturbed DEF OperatorCommands, files
<1>20. ASSUME NEW c \in Commands, SpawnBlockedCheck(c) PROVE FlockInv'
  BY <1>20, Undisturbed DEF SpawnBlockedCheck, files
<1>21. ASSUME NEW c \in Commands, LatchLifts(c) PROVE FlockInv'
  BY <1>21, Undisturbed DEF LatchLifts, files
<1>22. ASSUME NEW c \in Commands, ForgetRestartBoots(c) PROVE FlockInv'
  BY <1>22, Undisturbed DEF ForgetRestartBoots, files
<1>23. ASSUME NEW c \in Commands, ReplaceHolder(c) PROVE FlockInv'
  BY <1>23, Undisturbed DEF ReplaceHolder, files
<1>24. ASSUME NEW c \in Commands, WaitReleased(c) PROVE FlockInv'
  BY <1>24, Undisturbed DEF WaitReleased, files
<1>25. ASSUME NEW c \in Commands, AwaitDaemonHealth(c) PROVE FlockInv'
  BY <1>25, Undisturbed DEF AwaitDaemonHealth, files
<1>26. ASSUME NEW c \in Commands, Stop(c) PROVE FlockInv'
  BY <1>26, Undisturbed DEF Stop, StopsSomebody, Typed, DaemonRecs, files
<1>27. ASSUME NEW c \in Commands, SpawnDaemon(c) PROVE FlockInv'
  <2>1. CASE UNCHANGED daemon
    BY <1>27, <2>1, Undisturbed DEF SpawnDaemon, files
  <2>2. ASSUME NEW d \in Daemons, daemon[d].pc = "none", Unnamed(d),
               daemon' = [daemon EXCEPT ![d] = [NoDaemon EXCEPT !.pc = "boot", !.bin = command[c].bin]]
        PROVE  FlockInv'
    <3> DEFINE boots == [NoDaemon EXCEPT !.pc = "boot", !.bin = command[c].bin]
    <3>1. boots.pc = "boot"
      <4> DEFINE r == [NoDaemon EXCEPT !.pc = "boot"]
      <4>1. r \in DaemonRecs /\ r.pc = "boot"
        BY FixedRecords, Phases DEF DaemonRecs
      <4> HIDE DEF r
      <4>2. [r EXCEPT !.bin = command[c].bin].pc = "boot"
        BY <4>1 DEF DaemonRecs
      <4> QED
        BY <4>2 DEF r
    <3> HIDE DEF boots
    <3>2. /\ daemon'[d].pc = "boot" /\ \A x \in Daemons \ {d} : daemon'[x] = daemon[x]
      BY <2>2, <3>1 DEF Typed, boots
    <3>3. UNCHANGED <<lock, health, marker, orders>>
      BY <1>27 DEF SpawnDaemon, files
    <3>4. /\ "boot" \notin Holding /\ "boot" \notin Recorded /\ "boot" # "run"
          /\ "none" \notin Holding
      BY DEF Holding, Recorded, Alive, Booting
    <3>5. OwnerInv'
      BY <2>2, <3>2, <3>3, <3>4 DEF FlockInv, OwnerInv
    <3>6. RecordInv' /\ HeartbeatIsItsOwn' /\ OutageInv'
      BY <3>2, <3>3, <3>4 DEF FlockInv, RecordInv, HeartbeatIsItsOwn, OutageInv
    <3>7. UnheardInv'
      BY <2>2, <3>2, <3>3 DEF FlockInv, UnheardInv, Unnamed
    <3> QED
      BY <3>5, <3>6, <3>7 DEF FlockInv
  <2> QED
    BY <1>27, <2>1, <2>2 DEF SpawnDaemon
<1>28. CASE Probe
  BY <1>28, Undisturbed DEF Probe, files
<1>29. CASE EditConfig
  BY <1>29, Undisturbed DEF EditConfig, files
<1>30. CASE Upgrade
  BY <1>30, Undisturbed DEF Upgrade, files
<1>31. CASE TimePasses
  <2>1. UNCHANGED <<daemon, lock, health>>
    BY <1>31 DEF TimePasses
  <2> QED
    BY <1>31, <2>1 DEF TimePasses, FlockInv, OwnerInv, RecordInv, UnheardInv, HeartbeatIsItsOwn, OutageInv
<1>32. CASE UNCHANGED supVars
  BY <1>32, Undisturbed DEF supVars, files
<1> QED
  BY <1>1, <1>2, <1>3, <1>4, <1>5, <1>6, <1>7, <1>8, <1>9, <1>10, <1>11, <1>12, <1>13, <1>14, <1>15, <1>16, <1>17, <1>18, <1>19, <1>20, <1>21, <1>22, <1>23, <1>24, <1>25, <1>26, <1>27, <1>28, <1>29, <1>30, <1>31, <1>32 DEF NextSup, DaemonStep, CommandStep

-----------------------------------------------------------------------------
(* The theorems.                                                           *)

SupInvariant == Typed /\ StopsSomebody /\ FlockInv

LEMMA InitialFlock == InitSup => SupInvariant
<1> SUFFICES ASSUME InitSup PROVE SupInvariant
  OBVIOUS
<1>1. \A d \in Daemons : daemon[d] = NoDaemon
  BY DEF InitSup
<1>2. Typed
  <2>1. /\ daemon \in [Daemons -> DaemonRecs] /\ command \in [Commands -> CommandRecs]
        /\ guard \in Guards
        /\ health \in [pid : Daemons \cup {NoPid}, booted : BOOLEAN, replaced : BOOLEAN]
    BY FixedRecords DEF InitSup
  <2>2. lock \in [owner : Daemons \cup {NoPid}, pid : Daemons \cup {NoPid}, bin : Binaries]
    BY DEF InitSup, Binaries
  <2>3. digest \in Digests /\ incidents \in 0..MaxIncidents /\ orders \in Nat
    BY BoundsTyped DEF InitSup, Digests
  <2>4. probing \in BOOLEAN /\ installed \in Binaries /\ marker \in {"none", "new", "old"}
    BY DEF InitSup, Binaries
  <2> QED
    BY <2>1, <2>2, <2>3, <2>4 DEF Typed
<1>3. StopsSomebody
  BY FixedRecords DEF InitSup, StopsSomebody
<1>4. FlockInv
  <2>1. "none" \notin Holding /\ "none" \notin Recorded /\ "none" \notin Unheard
    BY Phases DEF Unheard
  <2>2. lock.owner = NoPid /\ marker = "none" /\ orders = 0
    BY DEF InitSup
  <2>3. \A d \in Daemons : daemon[d].pc = "none" /\ lock.owner # d
    BY <1>1, <2>2, FixedRecords, BoundsTyped
  <2>4. OwnerInv /\ RecordInv /\ UnheardInv /\ HeartbeatIsItsOwn
    BY <2>1, <2>3 DEF OwnerInv, RecordInv, UnheardInv, HeartbeatIsItsOwn
  <2>5. OutageInv
    BY <2>2 DEF OutageInv
  <2> QED
    BY <2>4, <2>5 DEF FlockInv
<1> QED
  BY <1>2, <1>3, <1>4 DEF SupInvariant

\* The flock's owner is a process past Acquire.
LEMMA SupTyped == SupInvariant => TypeOKSupervision
BY Phases DEF SupInvariant, Typed, FlockInv, OwnerInv, TypeOKSupervision, DaemonRecs, CommandRecs,
   Holding

\* Two processes past Acquire would both own the flock.
LEMMA AloneByFlock == SupInvariant => OneMonitor
<1> SUFFICES ASSUME SupInvariant PROVE OneMonitor
  OBVIOUS
<1> DEFINE Monitors == {d \in Daemons : daemon[d].pc \in Alive \ {"boot", "release"}}
<1>1. Monitors \subseteq {lock.owner}
  BY DEF SupInvariant, FlockInv, OwnerInv, Holding
<1>2. IsFiniteSet({lock.owner}) /\ Cardinality({lock.owner}) = 1
  BY FS_Singleton
<1>3. Cardinality(Monitors) <= 1
  <2> HIDE DEF Monitors
  <2> QED
    BY <1>1, <1>2, FS_Subset
<1> QED
  BY <1>3 DEF OneMonitor

\* The record a booting holder finds is its own or a dead process's: it has not beaten yet.
LEMMA JudgedByOwnBeat == SupInvariant => StatusIsOfTheHolder
<1> SUFFICES ASSUME SupInvariant, lock.owner # NoPid,
                    daemon[lock.owner].pc \in {"guard", "judge"},
                    NEW stale \in BOOLEAN
             PROVE  ~Assess(stale).hung /\ ~Assess(stale).replaced
  BY DEF StatusIsOfTheHolder
<1>1. lock.owner \in Daemons
  BY DEF SupInvariant, Typed
<1>2. lock.pid = lock.owner /\ health.pid # lock.owner
  BY <1>1 DEF SupInvariant, FlockInv, RecordInv, UnheardInv, Recorded, Unheard, Alive, Booting
<1> QED
  BY <1>2 DEF Assess

\* However many daemons, commands and incidents there are, one daemon monitors the herd, the
\* heartbeat file and the status are of the process that holds the lock, and a fault a
\* restart does not cure restarts the daemon once (daemonlock.Acquire, Run's shutdown,
\* AssessDaemonHealth, checkFleetSyncWedged).
THEOREM OneDaemonAlways == SpecSup => []OneDaemonIsKept
<1>1. InitSup => SupInvariant
  BY InitialFlock
<1>2. SupInvariant /\ [NextSup]_supVars => SupInvariant'
  BY TypesKept, FlockKept DEF SupInvariant
<1>3. SupInvariant => OneDaemonIsKept
  BY SupTyped, AloneByFlock, JudgedByOwnBeat
     DEF SupInvariant, FlockInv, OutageInv, OneDaemonIsKept, OneRecoveryPerOutage
<1> QED
  BY <1>1, <1>2, <1>3, PTL DEF SpecSup
=============================================================================
