---------------------------- MODULE LearnedRules ----------------------------
(* One learned rule (a signature) and one agent that keeps raising the prompt *)
(* the rule stands for.  The daemon's main loop decides (decideAndActResolved, *)
(* act), consults an LLM and promotes its answer (consultLLM, handleLLMOutcome),*)
(* has a learned reply reviewed before it is typed (startActionReview,        *)
(* handleActionReviewOutcome) and learns from the operator's answers          *)
(* (applyCorrection).  Front ends edit the same rule from other processes:    *)
(* every edit, theirs and the daemon's, reads the row and writes it back later.*)
(*                                                                            *)
(* The looks of the prompt that share the rule's signature are "plain" and,   *)
(* within the jitter the signature tolerates, "danger" (a never-auto rule     *)
(* matches it) and "suspect" (a heuristic does); "other" is a prompt of       *)
(* another signature, "gone" no prompt.                                       *)
EXTENDS DecisionPolicy

CONSTANTS Type,        \* the situation: "approval", "choice" or "error"
          Acts,        \* replies, 0 is @noop
          BadChoices,  \* sets of replies the never-auto lists may refuse to type
          Window,      \* decisions a reader loads (50)
          LLM, Review, \* llm.command is set; enable_rewrite_action is set
          Looks,       \* of "plain", "danger", "suspect"
          CallSlots,       \* calls that may be under way at once
          MaxDecisions, MaxAsks,
          MaxRuleIncidents \* crashes, pauses, retries and commands of one behaviour

ASSUME LearnedAssumption ==
  /\ Looks \subseteq {"plain", "danger", "suspect"}
  /\ NOOP \in Acts /\ Acts \subseteq Nat /\ BadChoices \subseteq SUBSET (Acts \ {NOOP})
  /\ Window \in Nat \ {0} /\ {MaxDecisions, MaxAsks, MaxRuleIncidents} \subseteq Nat
  /\ LLM \in BOOLEAN /\ Review \in BOOLEAN

VARIABLES
  hist,     \* the decisions table, newest first
  lastId,   \* the id last given to a decision
  rule,     \* the signatures row, NoRule when there is none
  rate,     \* the agent's agent_rate row
  retries,  \* error_retries
  kill, disabled,
  bad,      \* replies the never-auto lists refuse
  prompt,   \* what is on the pane
  handled,  \* the daemon captured and handled it (attention episode)
  retry,    \* the coming capture was asked for by an operator's LLM retry
  asks,     \* escalation rows [look, suggest, open]
  inbox,    \* unprocessed corrections [suggest, act]
  flights,  \* LLM calls under way [kind, look, act, retry]
  underReview,   \* preDeliveryReviewInFlight: NoAction or the reply under review
  fix,      \* applyCorrection between its reads and its writes
  ruleCmd,      \* a front end's command between its read and its write
  told,     \* history: somebody answers for the prompt on screen
  credit,   \* history: confirmations the operator gave or granted since the last reset
  raced,    \* history: a reset was written while somebody held a copy of the row
  crashes, ruleIncidents

ruleStore  == <<hist, lastId, rule, rate, retries, asks, inbox>>
ruleScreen == <<prompt, handled, retry>>
ruleMemory == <<flights, underReview, fix>>
ruleAudit  == <<told, credit, raced>>
ruleVars   == <<ruleStore, ruleScreen, ruleMemory, ruleAudit, kill, disabled, bad, ruleCmd, crashes, ruleIncidents>>

NoRuleYet == [mode |-> "none", streak |-> 0, floor |-> 0]
NoFix == [step |-> "none"]
NoCmd == [op |-> "none"]

Recent == SubSeq(hist, 1, IF Len(hist) < Window THEN Len(hist) ELSE Window)
Live == Confidence(DecisionsSince(Recent, rule.floor))
Limit == Threshold[Type]

InitRule ==
  /\ hist = << >> /\ lastId = 0 /\ rule = NoRuleYet /\ retries = 0
  /\ rate = [consec |-> 0, count |-> 0, fresh |-> FALSE, paused |-> FALSE]
  /\ kill = FALSE /\ disabled = FALSE /\ bad \in BadChoices
  /\ prompt = "gone" /\ handled = TRUE /\ retry = FALSE
  /\ asks = {} /\ inbox = << >> /\ flights = {} /\ underReview = NoAction
  /\ fix = NoFix /\ ruleCmd = NoCmd
  /\ told = FALSE /\ credit = 0 /\ raced = FALSE
  /\ crashes = 0 /\ ruleIncidents = 0

\* Bounds how much goes on besides prompts and answers.
Incident == ruleIncidents < MaxRuleIncidents /\ ruleIncidents' = ruleIncidents + 1

\* The daemon's main loop is one goroutine: it does nothing else while it
\* applies a correction.
Loop == fix = NoFix

-----------------------------------------------------------------------------
(* The agent and its operator at the pane *)

\* The agent parks on a prompt; the transition herdr reports starts an episode.
AgentParks(look) ==
  /\ prompt \in {"gone", "other"}
  /\ prompt' = look /\ handled' = FALSE /\ told' = FALSE
  /\ UNCHANGED <<ruleStore, retry, ruleMemory, credit, raced, kill, disabled, ruleCmd, crashes, ruleIncidents>>

\* The screen moves on under a standing prompt: no status change, no event.
ScreenChanges(look) ==
  /\ prompt \in Looks /\ look # prompt
  /\ prompt' = look
  /\ UNCHANGED <<ruleStore, handled, retry, ruleMemory, ruleAudit, kill, disabled, ruleCmd, crashes, ruleIncidents>>

\* registerHumanInteraction: the human owns the pane, a reviewed send is moot.
HumanInteraction ==
  /\ rate' = RegisterHumanInteraction(rate)
  /\ underReview' = NoAction
  /\ told' = (told \/ underReview # NoAction)

\* The agent works again: after an answer of the daemon's own within ten
\* seconds this is its doing, otherwise a human's.
AgentWorksOn(human) ==
  /\ Loop /\ prompt # "gone"
  /\ prompt' = "gone" /\ handled' = TRUE
  /\ rate' = IF human THEN RegisterHumanInteraction(rate) ELSE rate
  /\ underReview' = NoAction /\ told' = FALSE
  /\ UNCHANGED <<hist, lastId, rule, retries, asks, inbox, retry, flights, fix,
                 credit, raced, kill, disabled, ruleCmd, crashes, ruleIncidents>>

MinutePasses ==
  /\ Incident /\ rate.fresh /\ rate' = [rate EXCEPT !.fresh = FALSE]
  /\ UNCHANGED <<hist, lastId, rule, retries, asks, inbox, ruleScreen, ruleMemory, ruleAudit,
                 kill, disabled, ruleCmd, crashes>>

-----------------------------------------------------------------------------
(* Escalating and delivering *)

\* escalateWith: dismissed at once for a disabled agent, ignored when the same
\* ask was raised lately, and a rate limit pauses the agent.
EscalateAs(look, why, suggest, forced) ==
  LET dup == \E a \in asks : a.look = look
      row == [look |-> look, suggest |-> suggest, open |-> TRUE]
      gone == disabled \/ forced IN
  /\ gone \/ dup \/ Cardinality(asks) < MaxAsks
  /\ asks' = IF gone \/ dup THEN asks ELSE asks \cup {row}
  /\ rate' = IF why = "rate_limited" /\ ~gone /\ ~dup THEN PauseAgent(rate) ELSE rate
  /\ told' = (told \/ (prompt # "gone" /\ ~forced))

Escalate(look, why, suggest) == EscalateAs(look, why, suggest, FALSE)

NewRecord(act, src, corr) == [id |-> lastId + 1, act |-> act, src |-> src, corr |-> corr]

RecordDecision(act, src, corr) ==
  /\ lastId < MaxDecisions
  /\ lastId' = lastId + 1
  /\ hist' = <<NewRecord(act, src, corr)>> \o hist

\* deliverAutonomousClaimed and the LLM's own delivery: the disabled barrier,
\* the keystrokes, then the bookkeeping.  A failed send leaves the audit row
\* escalated.
DeliverReply(look, act, src, ok) ==
  IF disabled
  THEN /\ told' = TRUE
       /\ UNCHANGED <<hist, lastId, rate, retries, asks, prompt, handled>>
  ELSE IF ok
  THEN /\ RecordDecision(act, src, FALSE)
       /\ rate' = RegisterAutoPrompt(rate)
       /\ retries' = IF Type = "error" /\ src = "rule" THEN retries + 1 ELSE retries
       /\ prompt' = "gone" /\ handled' = TRUE /\ told' = FALSE
       /\ UNCHANGED asks
  ELSE /\ Cardinality(asks) < MaxAsks
       /\ asks' = asks \cup {[look |-> look, suggest |-> NoAction, open |-> TRUE]}
       /\ told' = TRUE
       /\ UNCHANGED <<hist, lastId, rate, retries, prompt, handled>>

\* deliverNoop: doing nothing is a decision too, recorded and rate-limited.
DeliverNoop(src) ==
  IF disabled
  THEN told' = TRUE /\ UNCHANGED <<hist, lastId, rate>>
  ELSE /\ RecordDecision(NOOP, src, FALSE)
       /\ rate' = RegisterAutoPrompt(rate)
       /\ told' = (told \/ prompt # "gone")

-----------------------------------------------------------------------------
(* decideAndActResolved *)

Input(look) ==
  [type |-> Type, hist |-> Recent, mode |-> rule.mode, floor |-> rule.floor,
   kill |-> kill, folderTrust |-> FALSE, overMasked |-> FALSE,
   neverAuto |-> look = "danger", suspect |-> look = "suspect",
   rate |-> rate, inert |-> FALSE, retries |-> retries,
   declared |-> "none", reserve |-> FALSE, inferred |-> FALSE,
   options |-> Acts \ {NOOP}, llm |-> LLM, gen |-> FALSE]

FreeSlots == CallSlots \ {f.n : f \in flights}
Flight(kind, look, act) ==
  [kind |-> kind, look |-> look, act |-> act, retry |-> retry, n |-> CHOOSE n \in FreeSlots : TRUE]

\* consultLLM: one more call, whatever else is under way for the agent.
StartConsult(look) ==
  /\ FreeSlots # {}
  /\ flights' = flights \cup {Flight("consult", look, NoAction)}
  /\ told' = FALSE
  /\ UNCHANGED <<hist, lastId, rate, retries, asks, prompt>>

\* startActionReview: the reply goes to the LLM first, unless one is already
\* under review (that one will do) or a consult is pending (typed as it is).
StartReview(look, act, ok) ==
  IF underReview # NoAction
  THEN /\ told' = FALSE
       /\ handled' = TRUE
       /\ UNCHANGED <<hist, lastId, rate, retries, asks, prompt, flights, underReview>>
  ELSE IF flights # {}
  THEN /\ IF act \in bad
          THEN /\ Escalate(look, "never_auto_match", act)
               /\ handled' = TRUE
               /\ UNCHANGED <<hist, lastId, retries, prompt>>
          ELSE DeliverReply(look, act, "rule", ok) /\ handled' = TRUE
       /\ UNCHANGED <<flights, underReview>>
  ELSE /\ underReview' = act
       /\ flights' = flights \cup {Flight("review", look, act)}
       /\ told' = FALSE
       /\ handled' = TRUE
       /\ UNCHANGED <<hist, lastId, rate, retries, asks, prompt>>

\* act: the outbound text is screened once more before anything is typed.
Act(look, act, ok) ==
  IF act \in bad
  THEN /\ Escalate(look, "never_auto_match", NoAction)
       /\ handled' = TRUE
       /\ UNCHANGED <<hist, lastId, retries, prompt, flights, underReview>>
  ELSE IF Review /\ LLM THEN StartReview(look, act, ok)
  ELSE DeliverReply(look, act, "rule", ok) /\ handled' = TRUE /\ UNCHANGED <<flights, underReview>>

\* cancelPreDeliveryReviewExcept: any other decision than a send retires the
\* reply under review.
CancelReview == underReview' = NoAction

\* What becomes of a decision: escalated, sent, a noop recorded, or the LLM consulted.
DecideAndAct(look, dec, ok) ==
  CASE disabled /\ dec.do # "escalate" ->
            /\ told' = TRUE /\ handled' = TRUE
            /\ UNCHANGED <<hist, lastId, rate, retries, asks, prompt, flights, underReview>>
       [] dec.do = "escalate" ->
            /\ Escalate(look, dec.why, dec.suggest)
            /\ handled' = TRUE
            /\ IF disabled THEN UNCHANGED underReview ELSE CancelReview
            /\ UNCHANGED <<hist, lastId, retries, prompt, flights>>
       [] ~disabled /\ dec.do = "send" -> Act(look, dec.act, ok)
       [] ~disabled /\ dec.do = "noop" ->
            /\ DeliverNoop("rule") /\ CancelReview /\ handled' = TRUE
            /\ UNCHANGED <<retries, asks, prompt, flights>>
       [] ~disabled /\ dec.do = "consult" ->
            StartConsult(look) /\ CancelReview /\ handled' = TRUE

\* The capture of a parked agent, decided upon as its rule is now.
HandleAttention(ok) ==
  /\ Loop /\ ~handled /\ prompt \in Looks
  /\ DecideAndAct(prompt, Decide(Input(prompt)), ok)
  /\ retry' = FALSE
  /\ UNCHANGED <<rule, inbox, fix, credit, raced, kill, disabled, ruleCmd, crashes, ruleIncidents>>

-----------------------------------------------------------------------------
(* handleLLMOutcome *)

OperatorReplies == [act : Acts, sure : BOOLEAN]
NoAnswer == [act |-> NoAction, sure |-> FALSE]

\* ensureSignatureRow: INSERT OR IGNORE, an existing row is never touched.
EnsureSignatureRow == IF rule = NoRuleYet THEN [NoRuleYet EXCEPT !.mode = "shadow"] ELSE rule

\* Mutant: the rate is not checked again when the answer arrives.
RefusalUnlimited(f, ans) ==
  IF ans = NoAnswer THEN "llm_no_submit"
  ELSE IF kill THEN "daemon_paused"
  ELSE IF f.look = "danger" \/ ans.act \in bad THEN "never_auto_match"
  ELSE IF f.look = "suspect" THEN "suspected_irreversible"
  ELSE IF f.retry THEN "llm_retry"
  ELSE IF ~ans.sure THEN "llm_low_confidence"
  ELSE IF Live.top \notin {NoAction, ans.act} THEN "variance_guard"
  ELSE "none"

\* Mutant: an answer is not held against what was learned while it was on its way.
RefusalAgreeable(f, ans) ==
  IF ans = NoAnswer THEN "llm_no_submit"
  ELSE IF kill THEN "daemon_paused"
  ELSE IF f.look = "danger" \/ ans.act \in bad THEN "never_auto_match"
  ELSE IF f.look = "suspect" THEN "suspected_irreversible"
  ELSE IF ~CheckRate(rate, FALSE, FALSE) THEN "rate_limited"
  ELSE IF f.retry THEN "llm_retry"
  ELSE IF ~ans.sure THEN "llm_low_confidence"
  ELSE "none"

\* Why an answer is refused before the pane is read again.
Refusal(f, ans) ==
  IF ans = NoAnswer THEN "llm_no_submit"
  ELSE IF kill THEN "daemon_paused"
  ELSE IF f.look = "danger" \/ ans.act \in bad THEN "never_auto_match"
  ELSE IF f.look = "suspect" THEN "suspected_irreversible"
  ELSE IF ~CheckRate(rate, FALSE, FALSE) THEN "rate_limited"
  ELSE IF f.retry THEN "llm_retry"
  ELSE IF ~ans.sure THEN "llm_low_confidence"
  ELSE IF Live.top \notin {NoAction, ans.act} THEN "variance_guard"
  ELSE "none"

\* Mutant: any change on the screen counts as another prompt.
StaleOnJitter == prompt # "plain"

\* The prompt consulted about is not what is on the pane any more.
StalePrompt == prompt \notin Looks

\* Mutant: a screen that held still is not read for danger again.
RereadTrusts(f) == "none"

\* The screen held still within the signature's jitter, and reads dangerous now.
Reread(f) ==
  IF prompt = f.look THEN "none"
  ELSE IF prompt = "danger" THEN "never_auto_match"
  ELSE IF prompt = "suspect" THEN "suspected_irreversible" ELSE "none"

\* The decision row an accepted answer leaves makes the rule's row visible.
PromoteAnswer(f, ans, ok) ==
  /\ DeliverReply(f.look, ans.act, "llm", ok)
  /\ rule' = IF ok /\ ~disabled THEN EnsureSignatureRow ELSE rule

HandleLLMOutcome(f, ans, ok) ==
  /\ Loop /\ f \in flights /\ f.kind = "consult"
  /\ flights' = flights \ {f}
  /\ IF Refusal(f, ans) # "none"
     THEN /\ Escalate(f.look, Refusal(f, ans), ans.act)
          /\ UNCHANGED <<hist, lastId, rule, retries, prompt, handled>>
     ELSE IF ans.act = NOOP
     THEN /\ DeliverNoop("llm")
          /\ rule' = IF disabled THEN rule ELSE EnsureSignatureRow
          /\ UNCHANGED <<retries, asks, prompt, handled>>
     ELSE IF StalePrompt
     THEN /\ EscalateAs(f.look, "llm_no_submit", ans.act, prompt = "gone")
          /\ UNCHANGED <<hist, lastId, rule, retries, prompt, handled>>
     ELSE IF Reread(f) # "none"
     THEN /\ Escalate(f.look, Reread(f), ans.act)
          /\ UNCHANGED <<hist, lastId, rule, retries, prompt, handled>>
     ELSE PromoteAnswer(f, ans, ok)
  /\ UNCHANGED <<inbox, retry, underReview, fix, credit, raced, kill, disabled, ruleCmd, crashes, ruleIncidents>>

-----------------------------------------------------------------------------
(* handleActionReviewOutcome *)

\* What is left to type: the reviewer's own text, the learned reply when it
\* affirmed it or said nothing usable, NOOP when it declined.
Reviewed(f, ans) ==
  IF ans = NoAnswer \/ ans.act \in bad THEN f.act ELSE ans.act

HandleActionReviewOutcome(f, ans, ok) ==
  LET final == Reviewed(f, ans) IN
  /\ Loop /\ f \in flights /\ f.kind = "review"
  /\ flights' = flights \ {f}
  /\ IF underReview # f.act                      \* cancelled or replaced: dropped
     THEN UNCHANGED <<hist, lastId, rate, retries, asks, prompt, handled, underReview, told>>
     ELSE /\ underReview' = NoAction
          /\ CASE disabled ->
                    /\ told' = TRUE
                    /\ UNCHANGED <<hist, lastId, rate, retries, asks, prompt, handled>>
               [] ~disabled /\ kill ->
                    /\ Escalate(f.look, "daemon_paused", final)
                    /\ UNCHANGED <<hist, lastId, retries, prompt, handled>>
               [] ~disabled /\ ~kill /\ final # NOOP /\ final \in bad ->
                    /\ Escalate(f.look, "never_auto_match", f.act)
                    /\ UNCHANGED <<hist, lastId, retries, prompt, handled>>
               [] OTHER ->
                    IF ~CheckRate(rate, FALSE, FALSE)
                    THEN /\ Escalate(f.look, "rate_limited", final)
                         /\ UNCHANGED <<hist, lastId, retries, prompt, handled>>
                    ELSE IF final = NOOP    \* deliverActionReviewNoop learns nothing
                    THEN /\ rate' = RegisterAutoPrompt(rate) /\ told' = TRUE
                         /\ UNCHANGED <<hist, lastId, retries, asks, prompt, handled>>
                    ELSE IF StalePrompt           \* dropped without a word
                    THEN UNCHANGED <<hist, lastId, rate, retries, asks, prompt, handled, told>>
                    ELSE IF prompt \in {"danger", "suspect"}
                    THEN /\ Escalate(f.look, "never_auto_match", f.act)
                         /\ UNCHANGED <<hist, lastId, retries, prompt, handled>>
                    ELSE DeliverReply(f.look, f.act, "rule", ok)
  /\ UNCHANGED <<rule, inbox, retry, fix, credit, raced, kill, disabled, ruleCmd, crashes, ruleIncidents>>

-----------------------------------------------------------------------------
(* The operator *)

\* An answer to an open row: typed into the pane by the front end and queued
\* for the daemon to learn from.
AnswerEscalation(row, act) ==
  /\ row \in asks /\ row.open /\ Len(inbox) < MaxAsks
  /\ asks' = (asks \ {row}) \cup {[row EXCEPT !.open = FALSE, !.suggest = NoAction]}
  /\ inbox' = Append(inbox, [suggest |-> row.suggest, act |-> act])
  /\ IF prompt = row.look
     THEN prompt' = "gone" /\ handled' = TRUE /\ told' = FALSE
     ELSE UNCHANGED <<prompt, handled, told>>
  /\ UNCHANGED <<hist, lastId, rule, rate, retries, retry, ruleMemory, credit, raced,
                 kill, disabled, ruleCmd, crashes, ruleIncidents>>

\* Ten minutes on, a settled row no longer hides a new ask.
DedupWindowPasses(row) ==
  /\ row \in asks /\ ~row.open
  /\ asks' = asks \ {row}
  /\ UNCHANGED <<hist, lastId, rule, rate, retries, inbox, ruleScreen, ruleMemory, ruleAudit,
                 kill, disabled, ruleCmd, crashes, ruleIncidents>>

\* applyLLMRetry: the row is retired and the pane captured again.
RetryLLM(row) ==
  /\ Loop /\ Incident
  /\ row \in asks /\ row.open /\ flights = {} /\ prompt \in Looks /\ handled
  /\ asks' = asks \ {row}
  /\ retry' = TRUE /\ handled' = FALSE /\ told' = FALSE
  /\ UNCHANGED <<hist, lastId, rule, rate, retries, inbox, prompt, ruleMemory, credit, raced,
                 kill, disabled, ruleCmd, crashes>>

TogglePause ==
  /\ Incident
  /\ kill' = ~kill
  /\ UNCHANGED <<ruleStore, ruleScreen, ruleMemory, ruleAudit, disabled, ruleCmd, crashes>>

ToggleAgent ==
  /\ Incident
  /\ disabled' = ~disabled
  /\ UNCHANGED <<ruleStore, ruleScreen, ruleMemory, ruleAudit, kill, ruleCmd, crashes>>

\* A front end reads the row for a reset or a nudge of the streak ...
ReadForReset ==
  /\ ruleCmd = NoCmd /\ rule # NoRuleYet /\ Incident
  /\ ruleCmd' = [op |-> "reset",
             rule |-> [ResetGraduation(rule) EXCEPT !.floor = IF hist = << >> THEN @ ELSE hist[1].id]]
  /\ UNCHANGED <<ruleStore, ruleScreen, ruleMemory, ruleAudit, kill, disabled, crashes>>

ReadForAdjust(delta) ==
  /\ ruleCmd = NoCmd /\ rule # NoRuleYet /\ Incident
  /\ ruleCmd' = [op |-> "adjust", delta |-> delta,
             rule |-> AdjustConfirmations(rule, delta, LiveConfidence(Recent, rule.floor), Limit)]
  /\ UNCHANGED <<ruleStore, ruleScreen, ruleMemory, ruleAudit, kill, disabled, crashes>>

\* The daemon has read the row and not yet written it.
CopyHeld == fix.step \in {"record", "save"}

\* ... and writes it back, whatever has happened to the row since.
WriteCommand ==
  /\ ruleCmd # NoCmd
  /\ rule' = ruleCmd.rule /\ ruleCmd' = NoCmd
  /\ credit' = IF ruleCmd.op = "reset" THEN 0
               ELSE IF ruleCmd.delta > 0 THEN credit + ruleCmd.delta ELSE credit
  /\ raced' = (raced \/ (ruleCmd.op = "reset" /\ CopyHeld))
  /\ UNCHANGED <<hist, lastId, rate, retries, asks, inbox, ruleScreen, ruleMemory, told,
                 kill, disabled, crashes, ruleIncidents>>

\* DeleteSignature: the row and its decisions, in one transaction.
DeleteRule ==
  /\ rule # NoRuleYet /\ Incident
  /\ rule' = NoRuleYet /\ hist' = << >> /\ credit' = 0
  /\ raced' = (raced \/ CopyHeld \/ ruleCmd # NoCmd)
  /\ UNCHANGED <<lastId, rate, retries, asks, inbox, ruleScreen, ruleMemory, told,
                 kill, disabled, ruleCmd, crashes>>

-----------------------------------------------------------------------------
(* applyCorrection *)

\* Flooring: when everything that counts is the LLM's own guesses, the
\* operator's first word starts the count afresh.
Floored(r) ==
  IF Recent # << >> /\ ~HasOperatorEvidence(DecisionsSince(Recent, r.floor)) /\ Recent[1].id > r.floor
  THEN [r EXCEPT !.floor = Recent[1].id] ELSE r

ApplyCorrectionReads ==
  LET r == Floored(EnsureSignatureRow)
      c == Head(inbox) IN
  /\ Loop /\ inbox # << >>
  /\ HumanInteraction
  /\ fix' = [step |-> "record", c |-> c, rule |-> r,
             prior |-> Confidence(DecisionsSince(Recent, r.floor)).top]
  /\ UNCHANGED <<hist, lastId, rule, retries, asks, inbox, ruleScreen, flights, credit, raced,
                 kill, disabled, ruleCmd, crashes, ruleIncidents>>

Confirms(c) == c.suggest # NoAction /\ c.act = c.suggest

ApplyCorrectionRecords ==
  /\ fix.step = "record"
  /\ RecordDecision(fix.c.act, "operator", ~Confirms(fix.c))
  /\ fix' = [fix EXCEPT !.step = "save"]
  /\ UNCHANGED <<rule, rate, retries, asks, inbox, ruleScreen, flights, underReview, ruleAudit,
                 kill, disabled, ruleCmd, crashes, ruleIncidents>>

\* The answer agrees with what counted before it; a confirmation also when
\* nothing did.
Consistent(f) ==
  f.prior = f.c.act \/ (Confirms(f.c) /\ f.prior = NoAction)

\* The row as read, with this answer observed and its graduation decided on
\* the history as it is now.
Observed(f) ==
  MaybeGraduate(ObserveConfirmation(f.rule, Consistent(f)),
                Confidence(DecisionsSince(Recent, f.rule.floor)), Limit)

ApplyCorrectionSaves ==
  /\ fix.step = "save"
  /\ rule' = Observed(fix)
  /\ retries' = IF Type = "error" THEN 0 ELSE retries
  /\ fix' = [fix EXCEPT !.step = "mark"]
  /\ UNCHANGED <<hist, lastId, rate, asks, inbox, ruleScreen, flights, underReview, ruleAudit,
                 kill, disabled, ruleCmd, crashes, ruleIncidents>>

MarkCorrectionProcessed ==
  /\ fix.step = "mark"
  /\ inbox' = Tail(inbox) /\ fix' = NoFix /\ credit' = credit + 1
  /\ UNCHANGED <<hist, lastId, rule, rate, retries, asks, ruleScreen, flights, underReview, told, raced,
                 kill, disabled, ruleCmd, crashes, ruleIncidents>>

\* The daemon dies: calls and the correction in hand are lost, the queue is not,
\* and the restart surfaces whoever is parked.
CrashRestart ==
  /\ Incident
  /\ crashes' = crashes + 1
  /\ flights' = {} /\ underReview' = NoAction /\ fix' = NoFix /\ retry' = FALSE
  /\ handled' = (prompt = "gone")
  /\ told' = FALSE
  /\ UNCHANGED <<ruleStore, prompt, credit, raced, kill, disabled, ruleCmd>>

-----------------------------------------------------------------------------
Operator ==
  \/ \E row \in asks : \/ \E a \in Acts : AnswerEscalation(row, a)
                       \/ DedupWindowPasses(row) \/ RetryLLM(row)
  \/ TogglePause \/ ToggleAgent \/ DeleteRule
  \/ ReadForReset \/ \E delta \in {-1, 1} : ReadForAdjust(delta)
  \/ WriteCommand

Outcome(n) ==
  \E f \in flights, ans \in OperatorReplies \cup {NoAnswer}, ok \in BOOLEAN :
    f.n = n /\ (HandleLLMOutcome(f, ans, ok) \/ HandleActionReviewOutcome(f, ans, ok))

Corrections ==
  ApplyCorrectionReads \/ ApplyCorrectionRecords \/ ApplyCorrectionSaves \/ MarkCorrectionProcessed

Steps ==
  \/ \E look \in Looks : AgentParks(look)
  \/ \E look \in Looks \cup {"other"} : ScreenChanges(look)
  \/ \E human \in BOOLEAN : AgentWorksOn(human)
  \/ MinutePasses
  \/ \E ok \in BOOLEAN : HandleAttention(ok)
  \/ \E n \in CallSlots : Outcome(n)
  \/ Operator \/ Corrections \/ CrashRestart

\* The lists do not change under a behaviour.
NextRule == Steps /\ UNCHANGED bad

SpecRule == InitRule /\ [][NextRule]_ruleVars

-----------------------------------------------------------------------------
Rules == [mode : {"none", "shadow", "autonomous"}, streak : Nat, floor : Nat]
DecisionRows == [id : Nat, act : Acts, src : Sources, corr : BOOLEAN]
MaybeActs == Acts \cup {NoAction}

TypeOKRule ==
  /\ hist \in Seq(DecisionRows) /\ lastId \in Nat /\ rule \in Rules /\ retries \in Nat
  /\ rate \in [consec : Nat, count : Nat, fresh : BOOLEAN, paused : BOOLEAN]
  /\ kill \in BOOLEAN /\ disabled \in BOOLEAN /\ bad \in BadChoices
  /\ prompt \in Looks \cup {"other", "gone"} /\ handled \in BOOLEAN /\ retry \in BOOLEAN
  /\ asks \subseteq [look : Looks, suggest : MaybeActs, open : BOOLEAN]
  /\ inbox \in Seq([suggest : MaybeActs, act : Acts])
  /\ flights \subseteq [kind : {"consult", "review"}, look : Looks, act : MaybeActs, retry : BOOLEAN, n : CallSlots]
  /\ underReview \in MaybeActs
  /\ fix.step \in {"none", "record", "save", "mark"}
  /\ fix # NoFix => fix.rule \in Rules /\ fix.prior \in MaybeActs
  /\ ruleCmd # NoCmd => ruleCmd.rule \in Rules
  /\ credit \in Nat /\ raced \in BOOLEAN /\ crashes \in Nat /\ ruleIncidents \in Nat

\* However corrections, resets and nudges of the streak overwrite each other's
\* row, no row that is or will be written calls a rule autonomous below
\* graduation_n confirmations.
AutonomyIsEarned ==
  \A r \in {rule} \cup (IF fix = NoFix THEN {} ELSE {fix.rule}) \cup (IF ruleCmd = NoCmd THEN {} ELSE {ruleCmd.rule}) :
    r.mode = "autonomous" => r.streak >= GraduationN

\* A reset stands: the streak a rule shows was given by the operator since the
\* last reset, but for one answer counted twice per crash of the daemon; unless
\* the reset landed while the daemon was between reading and writing the row.
ResetStands ==
  raced \/ rule.streak <= credit + crashes + (IF fix.step = "mark" THEN 1 ELSE 0)

\* Whatever was decided earlier, the automation types only at a prompt of the
\* signature it decided for, never at one a never-auto rule or a heuristic
\* speaks against by now, never while paused, and never a refused reply.
TypedWhereDecided ==
  [][ (lastId' # lastId /\ hist'[1].src \in {"rule", "llm"} /\ hist'[1].act # NOOP)
        => prompt = "plain" /\ ~kill /\ ~disabled /\ hist'[1].act \notin bad ]_ruleVars

\* The consecutive-prompt limit holds over every path that types or declines:
\* learned replies, promoted LLM answers, reviewed replies and noops.
PromptsBounded == rate.consec <= MaxConsecutive

\* A prompt the daemon has handled and that still stands is accounted for: the
\* operator was asked, a call is under way, or doing nothing was decided, the
\* agent is disabled or a human took the pane over.  Nobody waits unseen.
NothingSwallowed ==
  handled /\ prompt \in Looks =>
    told \/ flights # {}

\* An LLM's answer never changes what a rule would reply: it is recorded only
\* when it agrees with what counts, or when nothing does.
LLMNeverOutvotes ==
  [][ (hist' # hist /\ lastId' # lastId /\ hist'[1].src = "llm")
        => Live.top = NoAction \/ Live'.top = Live.top ]_ruleVars

\* What a learned rule is: autonomous only by confirmations that were given since its
\* last reset (observe, ResetGraduation, AdjustConfirmations).
RuleIsEarned == AutonomyIsEarned /\ ResetStands

\* Every prompt is accounted for: it counts against the agent's limits when the daemon
\* answers it, and somebody knows of it when the daemon does not.
PromptsAreAccounted == PromptsBounded /\ NothingSwallowed

\* What becomes of an LLM's answer: recorded as one of the agent's replies (TypeOKRule),
\* typed only at the prompt it was asked about, and never counted against what the
\* operator taught meanwhile.
LLMAnswersItsPrompt == []TypeOKRule /\ TypedWhereDecided /\ LLMNeverOutvotes
=============================================================================
