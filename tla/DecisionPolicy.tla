--------------------------- MODULE DecisionPolicy ---------------------------
(* The decision core of internal/domain: how much a signature's history      *)
(* agrees (confidence.go), when a rule graduates (graduation.go), which       *)
(* never-auto rules are in force and how many automated prompts an agent may  *)
(* get (safety.go), and the order in which Decide consults all of them        *)
(* (decide.go).  Pure operators: LearnedRules composes them with the daemon.  *)
(*                                                                            *)
(* An action is a natural number ordered as the code orders its strings; 0 is *)
(* @noop and NoAction the empty string.  A decision record is                 *)
(* [id, act, src, corr]; a history lists records newest first.                *)
EXTENDS Integers, Sequences, FiniteSets, FiniteSetsExt

CONSTANTS ConfirmationWeight,  \* learning.confirmation_weight
          GraduationN,         \* learning.graduation_n
          Threshold,           \* confidence_thresholds per situation, percent
          Minimum,             \* confidence_thresholds.minimum, percent
          MaxConsecutive, MaxPerMinute, MaxRetries

ASSUME PolicyAssumption ==
  /\ ConfirmationWeight \in Nat \ {0}
  /\ GraduationN \in Nat \ {0}
  /\ MaxConsecutive \in Nat /\ MaxPerMinute \in Nat /\ MaxRetries \in Nat

NoAction == -1
NOOP == 0
Sources == {"operator", "rule", "llm"}

-----------------------------------------------------------------------------
(* Confidence *)

\* The records an operator's reset has not retired.
DecisionsSince(h, floor) == SelectSeq(h, LAMBDA d : d.id > floor)

\* An operator, or a rule an operator graduated, stands behind a record.
HasOperatorEvidence(h) ==
  \E i \in DOMAIN h : h[i].src \in {"operator", "rule"}

\* Recency decay 0.85 = 17/20, in integers: the i-th newest of n records weighs
\* 17^(i-1) * 20^(n-i), times the confirmation weight when the operator agreed.
Weight(h, i) ==
  17 ^ (i - 1) * 20 ^ (Len(h) - i)
    * (IF h[i].src = "operator" /\ ~h[i].corr THEN ConfirmationWeight ELSE 1)

WeightOf(h, a) == MapThenSumSet(LAMBDA i : Weight(h, i), {i \in DOMAIN h : h[i].act = a})

\* The plurality action, the smallest on a tie, with its share top/total.
Confidence(h) ==
  IF h = << >> THEN [top |-> NoAction, part |-> 0, total |-> 1, backed |-> FALSE]
  ELSE LET acts == {h[i].act : i \in DOMAIN h}
           best == Max({WeightOf(h, a) : a \in acts})
           top  == Min({a \in acts : WeightOf(h, a) = best})
       IN [top |-> top, part |-> best,
           total |-> MapThenSumSet(LAMBDA i : Weight(h, i), DOMAIN h),
           backed |-> \E i \in DOMAIN h : h[i].act = top /\ h[i].src \in {"operator", "rule"}]

\* After a reset the score is empty, and the old top action is still suggested.
LiveConfidence(h, floor) ==
  LET post == DecisionsSince(h, floor)
      conf == Confidence(post)
      full == Confidence(h)
  IN IF post # << >> THEN conf
     ELSE [conf EXCEPT !.top = full.top, !.backed = full.backed]

Above(conf, percent) == conf.part * 100 > percent * conf.total

\* Four records or more that disagree below the minimum: one signature is
\* standing for materially different situations.
VarianceGuardTripped(post) ==
  LET conf == Confidence(post)
  IN Len(post) >= 4 /\ conf.part * 100 < Minimum * conf.total

-----------------------------------------------------------------------------
(* Graduation; a rule is [mode, streak, floor] *)

ObserveConfirmation(rule, consistent) ==
  IF rule.mode = "autonomous" THEN rule
  ELSE [rule EXCEPT !.streak = IF consistent THEN @ + 1 ELSE 1]

\* Mutant: the streak survives a reset.
ResetModeOnly(rule) == [rule EXCEPT !.mode = "shadow"]

ResetGraduation(rule) == [rule EXCEPT !.mode = "shadow", !.streak = 0]

MaybeGraduate(rule, conf, percent) ==
  IF rule.streak >= GraduationN /\ Above(conf, percent)
  THEN [rule EXCEPT !.mode = "autonomous"] ELSE rule

\* Mutant: the streak is not clamped at zero.
AdjustUnclamped(rule, delta, conf, percent) ==
  [rule EXCEPT !.streak = @ + delta,
               !.mode = IF rule.streak + delta < GraduationN THEN "shadow" ELSE @]

\* Mutant: a decrement below graduation_n leaves the rule autonomous.
AdjustKeepsMode(rule, delta, conf, percent) ==
  [rule EXCEPT !.streak = IF @ + delta < 0 THEN 0 ELSE @ + delta]

AdjustConfirmations(rule, delta, conf, percent) ==
  LET next  == IF rule.streak + delta < 0 THEN 0 ELSE rule.streak + delta
      moved == [rule EXCEPT !.streak = next]
  IN IF rule.mode = "autonomous"
     THEN IF delta < 0 /\ next < GraduationN THEN [moved EXCEPT !.mode = "shadow"] ELSE moved
     ELSE IF delta > 0 THEN MaybeGraduate(moved, conf, percent) ELSE moved

-----------------------------------------------------------------------------
(* Rate; an agent's rate is [consec, count, fresh, paused] where fresh says   *)
(* that the minute its window counts has not passed                           *)

\* Mutant: one prompt more than the limit.
CheckRateLate(rate, inert, handout) ==
  inert \/ (~rate.paused /\ (handout \/ rate.consec <= MaxConsecutive)
               /\ (IF rate.fresh THEN rate.count ELSE 0) < MaxPerMinute)

CheckRate(rate, inert, handout) ==
  \/ inert
  \/ /\ ~rate.paused
     /\ handout \/ rate.consec < MaxConsecutive
     /\ (IF rate.fresh THEN rate.count ELSE 0) < MaxPerMinute

RegisterAutoPromptIdle(rate) ==
  [rate EXCEPT !.count = IF rate.fresh THEN @ + 1 ELSE 1, !.fresh = TRUE]

RegisterAutoPrompt(rate) ==
  [RegisterAutoPromptIdle(rate) EXCEPT !.consec = @ + 1]

RegisterHumanInteraction(rate) == [rate EXCEPT !.consec = 0, !.paused = FALSE]

PauseAgent(rate) == [rate EXCEPT !.paused = TRUE]

-----------------------------------------------------------------------------
(* The never-auto list; a rule is [pat, kind, src, agents], a pattern that   *)
(* does not compile is dropped                                               *)

RuleAppliesTo(r, agent) == r.agents = {} \/ "*" \in r.agents \/ agent \in r.agents

\* Seeds unless the list is off or the operator disabled them one by one; then
\* the operator's own rules, which default to strict.
NewNeverAutoList(seeds, seedEnabled, disabled, operatorRules, compiles) ==
  {r \in seeds : seedEnabled /\ r.pat \notin disabled /\ r.pat \in compiles}
    \cup {r \in operatorRules : r.pat \in compiles}

\* The list of actions the automation may not type: every operator rule is
\* strict here, and a disabled seed is filtered by its source.
NewNeverAutoActionList(seeds, seedEnabled, disabled, operatorRules, compiles) ==
  LET strict == {[r EXCEPT !.kind = "strict"] : r \in operatorRules}
      all == {r \in (IF seedEnabled THEN seeds ELSE {}) \cup strict : r.pat \in compiles}
  IN {r \in all : ~(seedEnabled /\ r.src = "seed" /\ r.pat \in disabled)}

Matches(list, kind, agent, content) ==
  \E r \in list : r.kind = kind /\ RuleAppliesTo(r, agent) /\ r.pat \in content

Match(list, agent, content) == Matches(list, "strict", agent, content)

SuspectedIrreversible(list, agent, content) == Matches(list, "heuristic", agent, content)

\* What the guards read: an idle agent's scrollback is not what it is about to
\* do, its next task is; a prompt is read to its tail with everything it offers,
\* a whole multi-question form to its top.
IrreversibleScanContent(s, declaredTask) ==
  CASE s.type = "idle" ->
         declaredTask \cup (IF s.inferred # {} THEN s.inferred ELSE {})
    [] s.type \in {"approval", "choice", "error"} ->
         IF s.answers > 1 THEN s.screen \cup s.options
         ELSE s.tail \cup s.summary \cup s.options
    [] OTHER -> s.screen

-----------------------------------------------------------------------------
(* Decide *)

Escalated(why, suggest) == [do |-> "escalate", why |-> why, act |-> NoAction, suggest |-> suggest]
Acting(do, act) == [do |-> do, why |-> "none", act |-> act, suggest |-> NoAction]

\* Pseudo-actions of an idle agent: the next task of its list, and a task read
\* off its own screen.
NextDeclaredTask == 100
NextInferredTask == 101

Resolved(act) == [act |-> act, suggest |-> act, why |-> "none"]
Unresolved(why, suggest) == [act |-> NoAction, suggest |-> suggest, why |-> why]

\* An idle agent: a list that sends unattended outranks a learned noop, a noop
\* never hides pending tasks, an LLM-only noop never hides a list.
ResolveIdle(in, conf) ==
  LET pending == in.declared \in {"pending", "inprogress"} IN
  IF pending /\ in.reserve THEN Resolved(NextDeclaredTask)
  ELSE IF conf.top = NOOP /\ in.declared = "pending"
       THEN Unresolved("noop_vs_pending_tasks", NextDeclaredTask)
  ELSE IF conf.top = NOOP /\ (conf.backed \/ in.declared = "none") THEN Resolved(NOOP)
  ELSE IF in.declared = "exhausted" THEN Unresolved("task_source_exhausted", NoAction)
  ELSE IF pending THEN Resolved(NextDeclaredTask)
  ELSE IF ~in.inferred THEN Unresolved("no_task_source", NoAction)
  ELSE IF in.mode = "autonomous" /\ ~Above(conf, Minimum)
       THEN Unresolved("below_threshold", NextInferredTask)
  ELSE Resolved(NextInferredTask)

\* A learned reply; a choice only when it is still among the options offered.
ResolvePrompt(in, conf) ==
  IF conf.top = NoAction THEN Unresolved("no_history", NoAction)
  ELSE IF in.type = "choice" /\ conf.top # NOOP /\ conf.top \notin in.options
       THEN Unresolved("unfamiliar_options", NoAction)
       ELSE Resolved(conf.top)

ResolveSituation(in, conf) ==
  IF in.type = "idle" THEN ResolveIdle(in, conf) ELSE ResolvePrompt(in, conf)

\* Vetoes no learning can outvote, and nothing to confirm with one key.
Veto(in) ==
  IF in.kill THEN "daemon_paused"
  ELSE IF in.type = "unclassifiable" THEN "unclassifiable"
  ELSE IF in.folderTrust /\ in.type = "approval" THEN "folder_trust"
  ELSE IF in.overMasked THEN "over_masked"
  ELSE IF in.neverAuto THEN "never_auto_match"
  ELSE "none"

ThresholdFor(in, act) == IF act = NextInferredTask THEN Minimum ELSE Threshold[in.type]

\* Nothing to do was found: ask the LLM, have a task generated, or ask the
\* operator.
DecideUnresolved(in, r) ==
  IF in.llm /\ r.why \in {"no_history", "unfamiliar_options"} THEN Acting("consult", NoAction)
  ELSE IF in.type = "idle" /\ r.why = "no_task_source" /\ in.gen THEN Acting("generate", NoAction)
  ELSE IF r.why = "task_source_exhausted" THEN Escalated(r.why, NOOP)
  ELSE Escalated(r.why, r.suggest)

\* A learned reply was found: it needs a graduated rule that still agrees.
DecideLearned(in, r, conf) ==
  IF in.mode # "autonomous"
  THEN IF in.llm /\ in.hist = << >> THEN Acting("consult", NoAction)
       ELSE Escalated("shadow_mode", r.suggest)
  ELSE IF ~Above(conf, ThresholdFor(in, r.act))
  THEN IF in.llm THEN Acting("consult", NoAction) ELSE Escalated("below_threshold", r.suggest)
  ELSE IF r.act = NOOP THEN Acting("noop", NOOP) ELSE Acting("send", r.act)

\* The order of the guards: conf is the live confidence, post what counts towards it, r
\* what the situation resolves to.
DecideFrom(in, conf, post, r, handout) ==
  IF Veto(in) # "none" THEN Escalated(Veto(in), NoAction)
  ELSE IF VarianceGuardTripped(post) THEN Escalated("variance_guard", r.suggest)
  ELSE IF ~CheckRate(in.rate, in.inert, handout) THEN Escalated("rate_limited", r.suggest)
  ELSE IF in.suspect THEN Escalated("suspected_irreversible", conf.top)
  ELSE IF r.why # "none" THEN DecideUnresolved(in, r)
  ELSE IF ~in.inert /\ in.type = "error" /\ in.retries >= MaxRetries /\ r.act # NOOP
       THEN Escalated("retry_exhausted", r.suggest)
  ELSE IF handout THEN Acting("send", NextDeclaredTask)
  ELSE DecideLearned(in, r, conf)

Decide(in) ==
  LET conf == LiveConfidence(in.hist, in.floor)
      r == ResolveSituation(in, conf)
  IN DecideFrom(in, conf, DecisionsSince(in.hist, in.floor), r,
                in.type = "idle" /\ r.act = NextDeclaredTask /\ in.reserve)
=============================================================================
