------------------------------ MODULE MCDaemon ------------------------------
(***************************************************************************)
(* The daemon's decisions about one rule and the processes that keep it up, *)
(* in one instance: a behaviour picks one (`focus') and the other stays as  *)
(* it started.                                                              *)
(***************************************************************************)
EXTENDS LearnedRules, Supervision, TLC

\* Errors need more agreement; the never-auto lists refuse nothing, or reply 1.
McThreshold == [t \in {"approval", "choice", "error"} |-> IF t = "error" THEN 75 ELSE 70]
McBadChoices == {{}, {1}}

VARIABLE focus      \* the component that steps

Parts == {"rule", "supervision"}

StillBut(part) ==
  /\ part # "rule" => UNCHANGED ruleVars
  /\ part # "supervision" => UNCHANGED supVars

\* Out of focus, one of a component's initial states will do.
InitParts ==
  /\ focus \in Parts
  /\ InitRule /\ (focus = "rule" \/ (bad = {}))
  /\ InitSup

\* Bound: without lists no screen is dangerous to them.
NoListsNoDanger == bad = {} => prompt' # "danger"

NextParts ==
  /\ UNCHANGED focus /\ StillBut(focus)
  /\ \/ focus = "rule" /\ NextRule /\ NoListsNoDanger
     \/ focus = "supervision" /\ NextSup

SpecParts ==
  InitParts /\ [][NextParts]_<< focus, ruleVars, supVars >>

\* What no step may do: type an LLM's answer into a prompt it was not asked about, or lift
\* the breaker's latch before the section that tripped it was edited.
DaemonStepsAreSound == LLMAnswersItsPrompt /\ LatchStands
=============================================================================
