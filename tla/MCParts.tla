------------------------------- MODULE MCParts -------------------------------
(***************************************************************************)
(* The components whose properties are all of safety, in one instance.     *)
(* They share no state that the properties are about, so a behaviour picks *)
(* one of them (`focus') and the others stay as they started.              *)
(***************************************************************************)
EXTENDS FleetReplica, StoreImport, Checklist, FormSeries, TaskReview,
        AgentMode, StreamReader, TaskCache, TuiQueue, TuiTasks,
        ConfigFile, RuleMatching, TLC

\* Two questions with one choice each and one with one or two.
McAnswers == {<<{1}, {2}, {1}>>, <<{1}, {1, 2}, {1}>>}
\* Three of the four modes are offered: "auto" is asked for and not there.
McCycle == << "manual", "edits", "plan" >>
McTaskText == <<"t", "u">>

\* Files an operator may have left: broken, written for an old version, with a value out
\* of range.
EmptyFile == [kind |-> "text", threshold |-> {70}, oldThreshold |-> {}, seed |-> {}, oldSeed |-> {},
              rules |-> <<>>, oldRules |-> <<>>, accept |-> "", provider |-> {}, command |-> "",
              fsp |-> FALSE, delays |-> <<>>]
McHandFiles ==
  { [kind |-> "broken"],
    [EmptyFile EXCEPT !.threshold = {}, !.oldThreshold = {60}, !.oldSeed = {TRUE}, !.oldRules = <<"r", "s">>, !.rules = <<"r">>],
    [EmptyFile EXCEPT !.threshold = {-1}, !.seed = {FALSE}, !.oldSeed = {TRUE}, !.rules = <<"s", "r">>, !.command = "mine",
                      !.fsp = TRUE, !.provider = {"sqlite"}, !.delays = <<[type |-> "*", ms |-> 5]>>] }
McEdits ==
  { [op |-> "threshold", value |-> NaN], [op |-> "accept", value |-> "10s"],
    [op |-> "fsp", value |-> TRUE], [op |-> "fsp", value |-> FALSE],
    [op |-> "remove", value |-> 1], [op |-> "delay", type |-> "claude", value |-> 9] }

VARIABLE focus      \* the component that steps

Parts == {"replica", "import", "checklist", "form", "review", "mode", "reader", "cache", "queue", "tasks", "config", "matching"}

StillBut(part) ==
  /\ part # "replica" => UNCHANGED replicaVars
  /\ part # "import" => UNCHANGED importVars
  /\ part # "checklist" => UNCHANGED listVars
  /\ part # "form" => UNCHANGED formVars
  /\ part # "review" => UNCHANGED reviewVars
  /\ part # "mode" => UNCHANGED modeVars
  /\ part # "reader" => UNCHANGED readerVars
  /\ part # "cache" => UNCHANGED vars
  /\ part # "queue" => UNCHANGED queueVars
  /\ part # "tasks" => UNCHANGED taskTabVars
  /\ part # "config" => UNCHANGED configVars
  /\ part # "matching" => UNCHANGED matchVars

\* Out of focus, one of a component's initial states will do.
InitParts ==
  /\ focus \in Parts
  /\ InitReplica /\ (focus = "replica" \/ (faults = 0))
  /\ InitImport /\ (focus = "import" \/ (engine = "local"))
  /\ InitList /\ (focus = "checklist" \/ (doc = Numbered(<<Blank>>)))
  /\ InitForm /\ (focus = "form" \/ (chosen = (CHOOSE a \in Answers : TRUE) /\ form = FreshForm(1, CHOOSE k \in Kinds : k[Tabs] # "multi")))
  /\ InitReview
  /\ InitMode /\ (focus = "mode" \/ (actual = 1))
  /\ InitReader
  /\ Init
  /\ InitQueue
  /\ InitTasks
  /\ InitConfig /\ (focus = "config" \/ (file = (CHOOSE f \in HandFiles : Loads(f))))
  /\ InitMatching /\ (focus = "matching" \/ (shownScreen = (CHOOSE x \in Screens : TRUE) /\ ruleRows = {shownScreen}))

NextParts ==
  /\ UNCHANGED focus /\ StillBut(focus)
  /\ \/ focus = "replica" /\ NextReplica
     \/ focus = "import" /\ NextImport
     \/ focus = "checklist" /\ NextList
     \/ focus = "form" /\ NextForm
     \/ focus = "review" /\ NextReview
     \/ focus = "mode" /\ NextMode
     \/ focus = "reader" /\ NextReader
     \/ focus = "cache" /\ Next
     \/ focus = "queue" /\ NextQueue
     \/ focus = "tasks" /\ NextTasks
     \/ focus = "config" /\ NextConfig
     \/ focus = "matching" /\ NextMatching

SpecParts ==
  InitParts /\ [][NextParts]_<< focus, replicaVars, importVars, listVars, formVars, reviewVars, modeVars, readerVars, vars, queueVars, taskTabVars, configVars, matchVars >>
=============================================================================
