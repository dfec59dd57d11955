---------------------------- MODULE MCBackground ----------------------------
(***************************************************************************)
(* Work the daemon leaves to goroutines and workers - the stream, generated *)
(* tasks, the fleet's sync, the judge and the list snapshots - in one       *)
(* instance: a behaviour picks one (`focus') and the others stay as they    *)
(* started.  A component is scheduled fairly while it is in focus.          *)
(***************************************************************************)
EXTENDS StreamAnnounce, GeneratedTasks, FleetSync, RuleMatching, TaskCache, TLC

McProposed == <<"g1", "g2">>

VARIABLE focus      \* the component that steps

Parts == {"announce", "generated", "sync", "matching", "cache"}

StillBut(part) ==
  /\ part # "announce" => UNCHANGED announceVars
  /\ part # "generated" => UNCHANGED genVars
  /\ part # "sync" => UNCHANGED syncVars
  /\ part # "matching" => UNCHANGED matchVars
  /\ part # "cache" => UNCHANGED vars

\* Out of focus, one of a component's initial states will do.
InitParts ==
  /\ focus \in Parts
  /\ InitAnnounce
  /\ InitGen /\ (focus = "generated" \/ (~declared /\ items = <<>>))
  /\ InitSync /\ (focus = "sync" \/ (~pausedCfg /\ reachable))
  /\ InitMatching /\ (focus = "matching" \/ (shownScreen = (CHOOSE x \in Screens : TRUE) /\ ruleRows = {shownScreen}))
  /\ Init

NextParts ==
  /\ UNCHANGED focus /\ StillBut(focus)
  /\ \/ focus = "announce" /\ NextAnnounce
     \/ focus = "generated" /\ NextGen
     \/ focus = "sync" /\ NextSync
     \/ focus = "matching" /\ NextMatching
     \/ focus = "cache" /\ Next

SpecParts ==
  InitParts /\ [][NextParts]_<< focus, announceVars, genVars, syncVars, matchVars, vars >>

FairSpecParts ==
  /\ SpecParts
  /\ WF_announceVars(focus = "announce" /\ AutoAcceptPass) /\ WF_announceVars(focus = "announce" /\ WalkEnds)
  /\ \A r \in StreamRows : WF_announceVars(focus = "announce" /\ WalkRow(r))
  /\ WF_genVars(focus = "generated" /\ GeneratorAnswers) /\ WF_genVars(focus = "generated" /\ HandleTaskGenOutcome) /\ WF_genVars(focus = "generated" /\ ExpireStaleLLMWork)
  /\ WF_syncVars(focus = "sync" /\ StartLoop) /\ SF_syncVars(focus = "sync" /\ OnWrites) /\ SF_syncVars(focus = "sync" /\ OnPushNow)
  /\ SF_syncVars(focus = "sync" /\ OnPushTimer) /\ WF_syncVars(focus = "sync" /\ OnPull)
  /\ WF_matchVars(focus = "matching" /\ BuildStep) /\ WF_matchVars(focus = "matching" /\ JudgeAnswers) /\ WF_matchVars(focus = "matching" /\ TakeJudgement)
  /\ WF_matchVars(focus = "matching" /\ FinishOutcome) /\ WF_matchVars(focus = "matching" /\ RefreshKnowledge)
  /\ SF_vars(focus = "cache" /\ Reader) /\ WF_vars(focus = "cache" /\ Expires)
  /\ \A r \in Slots : SF_vars(focus = "cache" /\ RefreshReads(r)) /\ WF_vars(focus = "cache" /\ RefreshTaskSnapshot(r))
  /\ \A w \in Writers : WF_vars(focus = "cache" /\ NoteTaskListWritten(w)) /\ WF_vars(focus = "cache" /\ DropTaskSnapshot(w))

-----------------------------------------------------------------------------
\* What was left to the background comes to its end: a write to the fleet reaches its
\* server, a capture that waits for the judge is decided, and the readers of a remote list
\* are served the store's content (taskSnapshot.refreshing is not left set).
BackgroundWorkEnds ==
  /\ WritesArePushed /\ SuspendedIsDecided
  /\ focus = "cache" => CatchesUp
=============================================================================
