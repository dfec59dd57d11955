------------------------------ MODULE MCScreens ------------------------------
(***************************************************************************)
(* What an operator's screen shows, edits or opens - the TUI's sessions    *)
(* and tabs, the config file and the orchestrator - in one instance: a     *)
(* behaviour picks one (`focus') and the others stay as they started.  A   *)
(* component is scheduled fairly while it is in focus.                     *)
(***************************************************************************)
EXTENDS TuiSessions, TuiQueue, TuiTasks, ConfigFile, Orchestrator, TLC

McTaskText == <<"t", "u">>

\* Files an operator may have left: broken, written for an old version, with a value out
\* of range.
EmptyFile == [kind |-> "text", threshold |-> {70}, oldThreshold |-> {}, seed |-> {}, oldSeed |-> {},
              rules |-> <<>>, oldRules |-> <<>>, accept |-> "", provider |-> {}, command |-> "",
              fsp |-> FALSE, delays |-> <<>>]
McHandFiles ==
  { [kind |-> "broken"],
    [EmptyFile EXCEPT !.threshold = {}, !.oldThreshold = {60}, !.oldSeed = {TRUE}, !.oldRules = <<"r", "s">>, !.rules = <<"r">>],
    [EmptyFile EXCEPT !.threshold = {-1}, !.seed = {FALSE}, !.oldSeed = {TRUE}, !.rules = <<"s", "r">>, !.command = "mine",
                      !.fsp = TRUE, !.provider = {"sqlite"}, !.delays = <<[type |-> "*", ms |-> 5]>>] }
McEdits ==
  { [op |-> "threshold", value |-> NaN], [op |-> "accept", value |-> "10s"],
    [op |-> "fsp", value |-> TRUE], [op |-> "fsp", value |-> FALSE],
    [op |-> "remove", value |-> 1], [op |-> "delay", type |-> "claude", value |-> 9] }

VARIABLE focus      \* the component that steps

Parts == {"sessions", "queue", "tasks", "config", "orchestrator"}

StillBut(part) ==
  /\ part # "sessions" => UNCHANGED tuiVars
  /\ part # "queue" => UNCHANGED queueVars
  /\ part # "tasks" => UNCHANGED taskTabVars
  /\ part # "config" => UNCHANGED configVars
  /\ part # "orchestrator" => UNCHANGED orchVars

\* Out of focus, one of a component's initial states will do.
InitParts ==
  /\ focus \in Parts
  /\ InitTui
  /\ InitQueue
  /\ InitTasks
  /\ InitConfig /\ (focus = "config" \/ (file = (CHOOSE f \in HandFiles : Loads(f))))
  /\ InitOrch

NextParts ==
  /\ UNCHANGED focus /\ StillBut(focus)
  /\ \/ focus = "sessions" /\ NextTui
     \/ focus = "queue" /\ NextQueue
     \/ focus = "tasks" /\ NextTasks
     \/ focus = "config" /\ NextConfig
     \/ focus = "orchestrator" /\ NextOrch

SpecParts ==
  InitParts /\ [][NextParts]_<< focus, tuiVars, queueVars, taskTabVars, configVars, orchVars >>

FairSpecParts ==
  /\ SpecParts
  /\ \A p \in Sessions :
       /\ WF_tuiVars(focus = "sessions" /\ (((tui[p].pc # "none" \/ tui[p].tries > 0) /\ (Claim(p) \/ WriteRecord(p) \/ StillLinked(p))) \/ (tui[p].term /\ Release(p))))
       /\ WF_tuiVars(focus = "sessions" /\ EnforceLists(p)) /\ WF_tuiVars(focus = "sessions" /\ EnforceActs(p))
  /\ WF_queueVars(focus = "queue" /\ QueueTick) /\ WF_queueVars(focus = "queue" /\ ReadSamplesKey) /\ WF_queueVars(focus = "queue" /\ ReadRows)
  /\ WF_queueVars(focus = "queue" /\ RefreshLands) /\ WF_queueVars(focus = "queue" /\ AnswerLands)
  /\ WF_taskTabVars(focus = "tasks" /\ JobWrites) /\ WF_taskTabVars(focus = "tasks" /\ JobLands) /\ WF_taskTabVars(focus = "tasks" /\ PollReads) /\ WF_taskTabVars(focus = "tasks" /\ RefreshShows)
  /\ \A w \in Editors : WF_configVars(focus = "config" /\ SaveEdit(w)) /\ WF_configVars(focus = "config" /\ RecordEdit(w)) /\ WF_configVars(focus = "config" /\ TellDaemon(w))
  /\ WF_configVars(focus = "config" /\ TakeNudge)
  /\ WF_orchVars(focus = "orchestrator" /\ SweepObserves) /\ WF_orchVars(focus = "orchestrator" /\ Sweep)
  /\ WF_orchVars(focus = "orchestrator" /\ ReleaseOrchestratorName) /\ WF_orchVars(focus = "orchestrator" /\ PassStep)

-----------------------------------------------------------------------------
\* What a screen started comes to its end: the queue's view catches up and alerts for what
\* is new, a reorder is released, and an edit of the configuration reaches the daemon.
StartedIsFinished ==
  ViewCatchesUp /\ NewIsAlertedFor /\ ReorderIsReleased /\ EditReachesDaemon
=============================================================================
