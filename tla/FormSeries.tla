----------------------------- MODULE FormSeries -----------------------------
(* A form of several tabs (questions, then Submit), captured tab by tab and   *)
(* answered by keystrokes: daemon/sweep.go, internal/deliver and              *)
(* internal/mcqdeliver. Every key is verified by reading the screen; a digit  *)
(* commits on plain tabs, moves the caret on preview tabs and toggles a box   *)
(* on multi-select tabs, and which of the three a tab is cannot be seen       *)
(* beforehand.                                                                *)
(*                                                                           *)
(* The operator sits at the same terminal and may tick and answer tabs that  *)
(* hap has not reached, and before hap claims the pane anything at all.       *)
EXTENDS Integers, Sequences, FiniteSets

CONSTANTS
  Answers,      \* answers that may be chosen: per tab the set of digits, Submit last
  MaxTouches,   \* what the operator does in the pane
  MaxTries,     \* captures of the form
  MaxKeyFaults  \* keys that herdr refuses

Tabs == Len(CHOOSE a \in Answers : TRUE)
Questions == 1..(Tabs - 1)
Digits == 1..2

ASSUME FormSeriesAssumption ==
  /\ Tabs \in Nat \ {0} /\ \A a \in Answers : a \in Seq(SUBSET Digits) /\ Len(a) = Tabs
  /\ MaxTouches \in Nat /\ MaxTries \in Nat /\ MaxKeyFaults \in Nat

VARIABLES
  chosen,     \* the answer that is delivered, from Answers
  form,       \* the form on the screen
  formJob,        \* what hap is doing in the pane
  capture,    \* the frames the answer was decided from
  attempted,  \* toggleAttempt: hap has ticked boxes of this form before
  submission, \* history: what hap submitted
  meddled,    \* history: a tab was touched after hap had left it
  touches, tries, keyFaults

formVars == <<chosen, form, formJob, capture, attempted, submission, meddled, touches, tries, keyFaults>>

NoJob == [at |-> "idle"]
NotSubmitted == [of |-> 0]

-----------------------------------------------------------------------------
(* The form (external: Claude Code's own) *)

Kinds == [1..Tabs -> {"plain", "preview", "multi"}]
FreshForm(id, kinds) ==
  [id |-> id, open |-> TRUE, tab |-> 1, caret |-> 1, kind |-> kinds,
   answer |-> [t \in Questions |-> 0], ticks |-> [t \in Questions |-> {}]]

Flip(set, d) == IF d \in set THEN set \ {d} ELSE set \union {d}
MovedTo(f, t) == [f EXCEPT !.tab = t, !.caret = 1]
Commit(f, d) ==
  IF f.tab = Tabs THEN [f EXCEPT !.open = FALSE, !.caret = d]
  ELSE MovedTo([f EXCEPT !.answer[f.tab] = d], f.tab + 1)

\* What a key does.
Digit(f, d) ==
  CASE ~f.open -> f
    [] f.open /\ f.kind[f.tab] = "plain" -> Commit(f, d)
    [] f.open /\ f.kind[f.tab] = "preview" -> [f EXCEPT !.caret = d]
    [] f.open /\ f.kind[f.tab] = "multi" -> [f EXCEPT !.ticks[f.tab] = Flip(@, d), !.caret = d]
Enter(f) ==
  IF ~f.open THEN f
  ELSE IF f.kind[f.tab] = "multi" THEN [f EXCEPT !.ticks[f.tab] = Flip(@, f.caret)] ELSE Commit(f, f.caret)
Right(f) == IF f.open /\ f.tab < Tabs THEN MovedTo(f, f.tab + 1) ELSE f
Reset(f) == IF f.open /\ f.tab > 1 THEN MovedTo(f, 1) ELSE f

Answered(f) == {t \in Questions : f.answer[t] # 0 \/ f.ticks[t] # {}}
Unanswered(f) == Cardinality(Questions \ Answered(f))

\* What one read of the screen shows; ClearCheckboxMarks takes marks and ticks away.
Multi(f) == f.open /\ f.kind[f.tab] = "multi"
Frame(f) ==
  [of |-> f.id, tab |-> f.tab, caret |-> f.caret, marks |-> Answered(f), multi |-> Multi(f),
   ticks |-> IF Multi(f) THEN f.ticks[f.tab] ELSE {}]
Unmarked(frame) == [frame EXCEPT !.marks = {}, !.ticks = {}]

InitForm ==
  /\ \E kinds \in {k \in Kinds : k[Tabs] # "multi"} : form = FreshForm(1, kinds)
  /\ chosen \in Answers
  /\ formJob = NoJob /\ capture = <<>> /\ attempted = FALSE /\ submission = NotSubmitted /\ meddled = FALSE
  /\ touches = 0 /\ tries = 0 /\ keyFaults = 0

-----------------------------------------------------------------------------
(* Capture: startSweep, sweepFrames *)

Breaks == formJob' = NoJob

\* CheckedOutside: boxes ticked that the answer does not choose.
CheckedOutside(frame, wanted) == frame.ticks \ wanted

StartSweep ==
  /\ formJob = NoJob /\ submission = NotSubmitted /\ tries < MaxTries /\ form.open
  /\ tries' = tries + 1 /\ formJob' = [at |-> "sweep", i |-> 1, frames |-> <<>>]
  /\ UNCHANGED <<chosen, form, capture, attempted, submission, meddled, touches, keyFaults>>

\* One tab of a walk: read it, go to the next one, at the end return to the
\* first. The baseline of a walk before delivery is enforced.
Walk(allowed(_), done(_), refused) ==
  LET frames == Append(formJob.frames, Frame(form))
  IN  IF ~form.open \/ CheckedOutside(Frame(form), allowed(formJob.i)) # {}
      THEN form' = Reset(form) /\ refused
      ELSE IF formJob.i < Tabs
      THEN form' = Right(form) /\ formJob' = [formJob EXCEPT !.i = @ + 1, !.frames = frames] /\ UNCHANGED capture
      ELSE form' = Reset(form) /\ done(frames)

\* handleSweepOutcome: a complete sweep is decided on, with the frames it read.
SweepDone(fs) == formJob' = [at |-> "decided"] /\ capture' = fs

SweepTab ==
  /\ formJob.at = "sweep"
  /\ Walk(LAMBDA t : Digits, SweepDone, Breaks /\ UNCHANGED capture)
  /\ UNCHANGED <<chosen, attempted, submission, meddled, touches, tries, keyFaults>>

-----------------------------------------------------------------------------
(* Delivery: deliverSeries, reverifyMultiSelect *)

\* Mutant: a form that stands on the same tab will do.
SeriesStaleByTab(f, frames) == ~f.open \/ f.tab # frames[1].tab

\* seriesStale: the first tab of the form that was captured is showing.
SeriesStale(f, frames) == ~f.open \/ Frame(f) # frames[1]

DeliverSeries ==
  /\ formJob.at = "decided"
  /\ IF SeriesStale(form, capture) THEN Breaks
     ELSE formJob' = IF \E i \in 1..Tabs : capture[i].multi THEN [at |-> "reverify", i |-> 1, frames |-> <<>>]
                 ELSE [at |-> "start"]
  /\ UNCHANGED <<chosen, form, capture, attempted, submission, meddled, touches, tries, keyFaults>>

\* Mutant: boxes ticked by an earlier try are foreign too.
BaselineNone(t) == {}

\* Boxes this answer ticked in an earlier try are its own.
Baseline(t) == IF attempted THEN chosen[t] ELSE {}

ReverifyTab ==
  /\ formJob.at = "reverify"
  /\ Walk(Baseline,
          LAMBDA fs : IF \A i \in 1..Tabs : Unmarked(fs[i]) = Unmarked(capture[i]) THEN formJob' = [at |-> "start"] /\ UNCHANGED capture
                      ELSE Breaks /\ UNCHANGED capture,
          Breaks /\ UNCHANGED capture)
  /\ UNCHANGED <<chosen, attempted, submission, meddled, touches, tries, keyFaults>>

\* markToggleAttempt, then the reset of ClaudeTabs.
StartTabs ==
  /\ formJob.at = "start" /\ attempted' = TRUE /\ form' = Reset(form) /\ formJob' = [at |-> "before", i |-> 1]
  /\ UNCHANGED <<chosen, capture, submission, meddled, touches, tries, keyFaults>>

-----------------------------------------------------------------------------
(* A single-select tab: answerTab *)

\* A key that herdr refuses ends the delivery; otherwise it reaches the form.
SendKey(pressed, next) ==
  \/ /\ form' = pressed /\ formJob' = next /\ UNCHANGED keyFaults
  \/ /\ keyFaults < MaxKeyFaults /\ keyFaults' = keyFaults + 1 /\ Breaks /\ UNCHANGED form

TheDigit(t) == CHOOSE d \in chosen[t] : TRUE
NextTab == [at |-> "before", i |-> formJob.i + 1]

BeforeTab ==
  /\ formJob.at = "before"
  /\ CASE ~form.open -> Breaks
       [] form.open /\ capture[formJob.i].multi /\ formJob.i < Tabs ->
            formJob' = [at |-> "toggleread", i |-> formJob.i]
       [] OTHER ->
            IF Cardinality(chosen[formJob.i]) # 1 THEN Breaks
            ELSE formJob' = [at |-> "press", i |-> formJob.i, was |-> Frame(form), open |-> Unanswered(form)]
  /\ UNCHANGED <<chosen, form, capture, attempted, submission, meddled, touches, tries, keyFaults>>

\* History: the form closed under hap's own key.
Submits(f) ==
  IF form.open /\ ~f.open THEN [of |-> form.id, confirmed |-> f.caret, answer |-> form.answer, ticks |-> form.ticks, kind |-> form.kind]
  ELSE submission

PressOption ==
  /\ formJob.at = "press"
  /\ SendKey(Digit(form, TheDigit(formJob.i)), [formJob EXCEPT !.at = "after"])
  /\ submission' = Submits(form')
  /\ UNCHANGED <<chosen, capture, attempted, meddled, touches, tries>>

\* Mutant: the count of open questions alone decides.
SameQuestionAny(was, now) == TRUE

SameQuestion(was, now) == now.tab = was.tab

\* The digit has committed, or only moved the caret, or something is wrong.
AfterOption ==
  /\ formJob.at = "after"
  /\ LET now == Frame(form) last == formJob.i = Tabs
     IN  CASE ~form.open -> formJob' = IF last THEN [at |-> "done"] ELSE NoJob
           [] form.open /\ ~last /\ Unanswered(form) = formJob.open - 1 -> formJob' = NextTab
           [] OTHER ->
                IF Unanswered(form) = formJob.open /\ SameQuestion(formJob.was, now) /\ now.caret = TheDigit(formJob.i)
                THEN formJob' = [formJob EXCEPT !.at = "enter"] ELSE Breaks
  /\ UNCHANGED <<chosen, form, capture, attempted, submission, meddled, touches, tries, keyFaults>>

PressEnter ==
  /\ formJob.at = "enter"
  /\ SendKey(Enter(form), [formJob EXCEPT !.at = "final"])
  /\ submission' = Submits(form')
  /\ UNCHANGED <<chosen, capture, attempted, meddled, touches, tries>>

AfterEnter ==
  /\ formJob.at = "final"
  /\ IF ~form.open THEN formJob' = IF formJob.i = Tabs THEN [at |-> "done"] ELSE NoJob
     ELSE IF formJob.i < Tabs /\ Unanswered(form) = formJob.open - 1 THEN formJob' = NextTab ELSE Breaks
  /\ UNCHANGED <<chosen, form, capture, attempted, submission, meddled, touches, tries, keyFaults>>

-----------------------------------------------------------------------------
(* A multi-select tab: toggleTab *)

ToggleRead ==
  /\ formJob.at = "toggleread"
  /\ IF ~form.open \/ ~Multi(form) \/ CheckedOutside(Frame(form), chosen[formJob.i]) # {} THEN Breaks
     ELSE LET missing == chosen[formJob.i] \ Frame(form).ticks
          IN  formJob' = [at |-> IF missing = {} THEN "advance" ELSE "toggle", i |-> formJob.i, was |-> Frame(form), missing |-> missing]
  /\ UNCHANGED <<chosen, form, capture, attempted, submission, meddled, touches, tries, keyFaults>>

Toggle ==
  /\ formJob.at = "toggle"
  /\ LET d == CHOOSE x \in formJob.missing : \A y \in formJob.missing : x <= y
         rest == formJob.missing \ {d}
     IN  SendKey(Digit(form, d), [formJob EXCEPT !.missing = rest, !.at = IF rest = {} THEN "verify" ELSE "toggle"])
  /\ submission' = Submits(form')
  /\ UNCHANGED <<chosen, capture, attempted, meddled, touches, tries>>

\* Every box of the tab is as chosen.
TogglesLanded(ticks, wanted) == ticks = wanted

ToggleVerify ==
  /\ formJob.at = "verify"
  /\ IF form.open /\ SameQuestion(formJob.was, Frame(form)) /\ TogglesLanded(Frame(form).ticks, chosen[formJob.i])
     THEN formJob' = [formJob EXCEPT !.at = "advance"] ELSE Breaks
  /\ UNCHANGED <<chosen, form, capture, attempted, submission, meddled, touches, tries, keyFaults>>

Advance ==
  /\ formJob.at = "advance" /\ SendKey(Right(form), [formJob EXCEPT !.at = "moved"])
  /\ UNCHANGED <<chosen, capture, attempted, submission, meddled, touches, tries>>

AfterAdvance ==
  /\ formJob.at = "moved"
  /\ IF form.open /\ Frame(form).tab # formJob.was.tab THEN formJob' = NextTab ELSE Breaks
  /\ UNCHANGED <<chosen, form, capture, attempted, submission, meddled, touches, tries, keyFaults>>

\* clearToggleAttempt, the rows of the decision and of the rate, the check.
FinishSeries ==
  /\ formJob.at = "done" /\ formJob' = NoJob /\ attempted' = FALSE
  /\ UNCHANGED <<chosen, form, capture, submission, meddled, touches, tries, keyFaults>>

-----------------------------------------------------------------------------
(* The operator *)

\* hap holds the pane's claim and is typing.
Typing == formJob.at \notin {"idle", "decided", "sweep"}
Left(t) ==
  /\ formJob.at \notin {"idle", "decided", "sweep", "reverify", "start", "done"}
  /\ formJob.i > t \/ (formJob.i = t /\ formJob.at \in {"after", "enter", "final", "advance", "moved"})

OperatorTicks(t, d) ==
  /\ form.open /\ form.kind[t] = "multi"
  /\ form' = [form EXCEPT !.ticks[t] = Flip(@, d)]
OperatorAnswers(t, d) ==
  /\ form.open /\ form.kind[t] # "multi"
  /\ form' = [form EXCEPT !.answer[t] = d]

Touch ==
  /\ touches < MaxTouches /\ touches' = touches + 1
  /\ \E t \in Questions, d \in Digits :
       /\ Typing => t # form.tab \/ form.kind[t] = "multi"
       /\ OperatorTicks(t, d) \/ OperatorAnswers(t, d)
       /\ meddled' = (meddled \/ Left(t))
  /\ UNCHANGED <<chosen, formJob, capture, attempted, submission, tries, keyFaults>>

\* Outside hap's claim the operator also walks around, dismisses the form, and
\* the agent asks another one.
Navigate ==
  /\ ~Typing /\ touches < MaxTouches /\ touches' = touches + 1 /\ form.open
  /\ \E t \in 1..Tabs : t # form.tab /\ form' = MovedTo(form, t)
  /\ UNCHANGED <<chosen, formJob, capture, attempted, submission, meddled, tries, keyFaults>>

AskAnother ==
  /\ ~Typing /\ touches < MaxTouches /\ touches' = touches + 1 /\ form.id = 1 /\ submission = NotSubmitted
  /\ form' = FreshForm(2, form.kind)
  /\ UNCHANGED <<chosen, formJob, capture, attempted, submission, meddled, tries, keyFaults>>

Dismiss ==
  /\ touches < MaxTouches /\ touches' = touches + 1 /\ form.open /\ form' = [form EXCEPT !.open = FALSE]
  /\ UNCHANGED <<chosen, formJob, capture, attempted, submission, meddled, tries, keyFaults>>

NextForm ==
  \/ StartSweep \/ SweepTab \/ DeliverSeries \/ ReverifyTab \/ StartTabs
  \/ BeforeTab \/ PressOption \/ AfterOption \/ PressEnter \/ AfterEnter
  \/ ToggleRead \/ Toggle \/ ToggleVerify \/ Advance \/ AfterAdvance \/ FinishSeries
  \/ Touch \/ Navigate \/ AskAnother \/ Dismiss

SpecForm == InitForm /\ [][NextForm]_formVars

-----------------------------------------------------------------------------
(* Properties *)

\* A form that hap submits holds the answers that were chosen for it, tab by
\* tab and box by box, whatever its tabs are, whatever was on it before and
\* however the earlier try ended (mcqdeliver.ClaudeTabs, "fails CLOSED").
SubmittedAsChosen ==
  submission.of # 0 /\ ~meddled =>
    \A t \in Questions :
      IF submission.kind[t] = "multi" THEN submission.ticks[t] = chosen[t] ELSE {submission.answer[t]} = chosen[t]

\* The form that is answered is the one that was captured (seriesStale: same
\* number of tabs, another first question).
OwnFormIsAnswered == submission.of # 0 => submission.of = capture[1].of

\* Boxes that hap ticked in a try that broke off do not stop the next try
\* (toggleAttempt), as long as nobody else touched the form.
OwnResidueIsNotForeign ==
  [][ReverifyTab /\ formJob' = NoJob => touches > 0]_formVars

\* What the delivery of a multi-tab form promises (mcqdeliver): the captured form, with
\* the chosen answers, or a refusal that is not over hap's own earlier keys.
FormIsCarriedThrough == [](SubmittedAsChosen /\ OwnFormIsAnswered) /\ OwnResidueIsNotForeign
=============================================================================
