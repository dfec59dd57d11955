------------------------------- MODULE MCPanes -------------------------------
(***************************************************************************)
(* The components that watch the panes, type into them and account for *)
(* them, in one instance: a behaviour picks one (`focus') and the others   *)
(* stay as they started.  A component is scheduled fairly while it is in   *)
(* focus.                                                                  *)
(***************************************************************************)
EXTENDS AgentRequests, AgentRoster, DialogKeys, EventStream, PaneSend,
        SessionNames, Supervision, TLC



\* A menu whose second and third dialog show the same rows.
McBody == <<"a", "b", "b", "c">>
\* "~" folds to nothing; "b" is another session's.
McSessionNames == {"A", "b", "~"}
McFold == [n \in McSessionNames |-> CASE n = "A" -> "a" [] n = "b" -> "b" [] OTHER -> Unusable]
McTaken == {"b"}
McSuffix == [n \in McTaken |-> "b2"]

VARIABLE focus      \* the component that steps

Parts == {"requests", "roster", "dialog", "events", "send", "session", "supervision"}

StillBut(part) ==
  /\ part # "requests" => UNCHANGED requestVars
  /\ part # "roster" => UNCHANGED rosterVars
  /\ part # "dialog" => UNCHANGED dialogVars
  /\ part # "events" => UNCHANGED eventVars
  /\ part # "send" => UNCHANGED sendVars
  /\ part # "session" => UNCHANGED sessionVars
  /\ part # "supervision" => UNCHANGED supVars

\* Out of focus, one of a component's initial states will do.
InitParts ==
  /\ focus \in Parts
  /\ InitRequests
  /\ InitRoster
  /\ InitDialog /\ (focus = "dialog" \/ (build = "rows" /\ ~narrow))
  /\ InitEvents /\ (focus = "events" \/ (occupant = [p \in EventPanes |-> "gone"]))
  /\ InitSend
  /\ InitSession /\ (focus = "session" \/ (~session.takes))
  /\ InitSup

NextParts ==
  /\ UNCHANGED focus /\ StillBut(focus)
  /\ \/ focus = "requests" /\ NextRequests
     \/ focus = "roster" /\ NextRoster
     \/ focus = "dialog" /\ NextDialog
     \/ focus = "events" /\ NextEvents
     \/ focus = "send" /\ NextSend
     \/ focus = "session" /\ NextSession
     \/ focus = "supervision" /\ NextSup

SpecParts ==
  InitParts /\ [][NextParts]_<< focus, requestVars, rosterVars, dialogVars, eventVars, sendVars, sessionVars, supVars >>

FairSpecParts ==
  /\ SpecParts
  /\ WF_requestVars(focus = "requests" /\ SweepSyncs)
  /\ \A r \in Requests : SF_requestVars(focus = "requests" /\ ClaimAgentAction(r)) /\ WF_requestVars(focus = "requests" /\ ActionStep(r))
  /\ WF_rosterVars(focus = "roster" /\ NoteRosterTransition) /\ WF_rosterVars(focus = "roster" /\ SweepPublishes)
  /\ WF_rosterVars(focus = "roster" /\ RosterPass) /\ WF_rosterVars(focus = "roster" /\ RosterPassReads) /\ WF_rosterVars(focus = "roster" /\ RosterTickPublishes)
  /\ WF_dialogVars(focus = "dialog" /\ Render) /\ WF_dialogVars(focus = "dialog" /\ CaptureDialog) /\ WF_dialogVars(focus = "dialog" /\ PressDigit)
  /\ WF_dialogVars(focus = "dialog" /\ SettleRead) /\ WF_dialogVars(focus = "dialog" /\ SettleEnter) /\ WF_dialogVars(focus = "dialog" /\ StartRows)
  /\ WF_dialogVars(focus = "dialog" /\ PressArrow) /\ WF_dialogVars(focus = "dialog" /\ AwaitCaret) /\ WF_dialogVars(focus = "dialog" /\ EnterRow) /\ WF_dialogVars(focus = "dialog" /\ UnblockCheck)
  /\ WF_eventVars(focus = "events" /\ DiscoveryStep) /\ WF_eventVars(focus = "events" /\ StatusStep)
  /\ WF_eventVars(focus = "events" /\ statusLoop = "cancelled" /\ StatusEnds)
  /\ WF_sendVars(focus = "send" /\ SendStep) /\ \A n \in 1..MaxSends : WF_sendVars(focus = "send" /\ WorkerStep(n))
  /\ WF_sessionVars(focus = "session" /\ (PushRefused \/ PushFindsItDone \/ PushTypes \/ PushVerifies)) /\ WF_sessionVars(focus = "session" /\ PassEnds)
  /\ \A d \in Daemons : WF_supVars(focus = "supervision" /\ DaemonStep(d))
  /\ \A c \in Commands : SF_supVars(focus = "supervision" /\ HookEnsures(c)) /\ WF_supVars(focus = "supervision" /\ CommandStep(c))
  /\ WF_supVars(focus = "supervision" /\ probing /\ Probe)

-----------------------------------------------------------------------------
\* What the keys to a dialog promise, in the behaviours that run them: each is for the
\* dialog and the row it was meant for, and every dialog an agent raises is left, or
\* recorded as still blocked (the unblock verification's escalation).
DialogsAreTaken ==
  /\ EnterIsForItsCountedDialog /\ RowIsTheChosen
  /\ focus = "dialog" => RequestIsNotForgotten

\* Supervision's HerdIsMonitored, of the behaviours that run it: a daemon is up again and
\* again, or the breaker gave up (EnsureDaemon, crashguard).
HerdStaysMonitored == focus = "supervision" => HerdIsMonitored
=============================================================================
