--------------------------- MODULE LearnedProofs ---------------------------
(***************************************************************************)
(* Theorems about LearnedRules, for every set of replies, every limit and  *)
(* threshold and every bound on what happens.                              *)
(*                                                                         *)
(* Two inductive invariants.  EarnedInv follows the copies of the rule's   *)
(* row that are read now and written later: that a rule was earned is a    *)
(* fact about every copy.  CallsInv follows who answers for the prompt on  *)
(* screen: a call under way, a reply under review, or somebody who was     *)
(* told.                                                                   *)
(***************************************************************************)
EXTENDS LearnedRules, TLAPS, SequenceTheorems

Earned(r) == r \in Rules /\ (r.mode = "autonomous" => r.streak >= GraduationN)

\* The answer learned and not yet marked, which a crash counts once more.
Slack == crashes + (IF fix.step = "mark" THEN 1 ELSE 0)

\* The copy the daemon holds while it applies a correction.
FixOK ==
  \/ fix = NoFix
  \/ /\ fix = [step |-> fix.step, c |-> fix.c, rule |-> fix.rule, prior |-> fix.prior]
     /\ fix.step \in {"record", "save", "mark"} /\ Earned(fix.rule)
     /\ raced \/ (fix.step \in {"record", "save"} => fix.rule.streak <= credit + crashes)

\* The copy a front end's command holds: a reset has let go of everything, a nudge
\* grants what it adds.
CmdOK ==
  \/ ruleCmd = NoCmd
  \/ /\ ruleCmd = [op |-> "reset", rule |-> ruleCmd.rule]
     /\ Earned(ruleCmd.rule) /\ ruleCmd.rule.streak = 0
  \/ /\ ruleCmd = [op |-> "adjust", delta |-> ruleCmd.delta, rule |-> ruleCmd.rule]
     /\ ruleCmd.delta \in {-1, 1} /\ Earned(ruleCmd.rule)
     /\ raced \/ ruleCmd.rule.streak <= credit + Slack + (IF ruleCmd.delta > 0 THEN 1 ELSE 0)

\* The decisions are records with numbered ids, newest first.
HistOK ==
  /\ lastId \in Nat
  /\ \E A : hist \in Seq([id : Nat, act : A, src : Sources, corr : BOOLEAN])

EarnedInv ==
  /\ HistOK
  /\ credit \in Nat /\ crashes \in Nat /\ raced \in BOOLEAN
  /\ Earned(rule) /\ (raced \/ rule.streak <= credit + Slack)
  /\ FixOK /\ CmdOK

\* Every call is for a reply the lists allow; the reply under review has its call.
FlightsOK ==
  /\ \A f \in flights : f.kind = "review" => f.act \notin bad
  /\ underReview # NoAction =>
       \E f \in flights : f.kind = "review" /\ f.act = underReview

\* Somebody answers for a handled prompt: whoever was told, a consult, or the review of
\* the reply about to be typed.
Answered ==
  handled /\ prompt \in Looks =>
    \/ told
    \/ \E f \in flights : f.kind = "consult"
    \/ underReview # NoAction

Bounded(r) ==
  /\ r \in [consec : Nat, count : Nat, fresh : BOOLEAN, paused : BOOLEAN]
  /\ r.consec <= MaxConsecutive

RateOK == Bounded(rate)

CallsInv ==
  /\ RateOK /\ FlightsOK /\ Answered
  /\ prompt \in Looks \cup {"other", "gone"}
  /\ handled \in BOOLEAN /\ told \in BOOLEAN

USE PolicyAssumption, LearnedAssumption

-----------------------------------------------------------------------------
(* The operators of DecisionPolicy.                                        *)

\* A confirmation counts one more or starts the count again, and leaves an autonomous
\* rule alone (ObserveConfirmation).
LEMMA ObserveAdds ==
  ASSUME NEW r, Earned(r), NEW consistent \in BOOLEAN
  PROVE  /\ ObserveConfirmation(r, consistent) \in Rules
         /\ ObserveConfirmation(r, consistent).mode = r.mode
         /\ r.mode = "autonomous" => ObserveConfirmation(r, consistent) = r
         /\ ObserveConfirmation(r, consistent).streak \in {r.streak, r.streak + 1, 1}
  BY DEF Earned, Rules, ObserveConfirmation

\* Graduating asks for graduation_n confirmations (MaybeGraduate).
LEMMA GraduateEarns ==
  ASSUME NEW r \in Rules, r.mode = "autonomous" => r.streak >= GraduationN,
         NEW conf, NEW percent
  PROVE  /\ Earned(MaybeGraduate(r, conf, percent))
         /\ MaybeGraduate(r, conf, percent).streak = r.streak
  BY DEF Earned, Rules, MaybeGraduate

\* A nudge moves the streak by at most its delta, and demotes below graduation_n
\* (AdjustConfirmations).
LEMMA AdjustEarns ==
  ASSUME NEW r, Earned(r), NEW delta \in {-1, 1}, NEW conf, NEW percent
  PROVE  /\ Earned(AdjustConfirmations(r, delta, conf, percent))
         /\ AdjustConfirmations(r, delta, conf, percent).streak
              <= r.streak + (IF delta > 0 THEN 1 ELSE 0)
  <1> DEFINE next == IF r.streak + delta < 0 THEN 0 ELSE r.streak + delta
             moved == [r EXCEPT !.streak = next]
  <1>1. next \in Nat /\ next <= r.streak + (IF delta > 0 THEN 1 ELSE 0)
    BY DEF Earned, Rules
  <1>2. moved \in Rules /\ moved.mode = r.mode /\ moved.streak = next
    BY <1>1 DEF Earned, Rules
  <1> HIDE DEF next
  <1>3. CASE r.mode = "autonomous"
    <2>1. AdjustConfirmations(r, delta, conf, percent) =
            IF delta < 0 /\ next < GraduationN THEN [moved EXCEPT !.mode = "shadow"] ELSE moved
      BY <1>3 DEF AdjustConfirmations, next
    <2>2. next < GraduationN => delta < 0
      BY <1>3, <1>1 DEF Earned, Rules, next
    <2> HIDE DEF moved
    <2> QED BY <1>1, <1>2, <2>1, <2>2 DEF Earned, Rules
  <1>4. CASE r.mode # "autonomous"
    <2>1. AdjustConfirmations(r, delta, conf, percent) =
            IF delta > 0 THEN MaybeGraduate(moved, conf, percent) ELSE moved
      BY <1>4 DEF AdjustConfirmations, next
    <2> HIDE DEF moved
    <2> QED BY <1>1, <1>2, <1>4, <2>1, GraduateEarns DEF Earned
  <1> QED BY <1>3, <1>4

\* What Decide acts upon passed the vetoes, the guards and the rate (Decide).
LEMMA DecideGuards ==
  ASSUME NEW look, rate.consec \in Nat
  PROVE  LET dec == Decide(Input(look)) IN
         /\ dec.do \in {"escalate", "send", "noop", "consult"}
         /\ dec.do # "escalate" =>
              ~kill /\ look # "danger" /\ look # "suspect" /\ rate.consec < MaxConsecutive
  <1> DEFINE in == Input(look)
             conf == LiveConfidence(in.hist, in.floor)
             r == ResolveSituation(in, conf)
  <1>1. /\ ~in.reserve /\ ~in.inert /\ ~in.gen
        /\ in.kill = kill /\ in.rate = rate
        /\ in.neverAuto = (look = "danger") /\ in.suspect = (look = "suspect")
    BY DEF Input
  <1> HIDE DEF in
  <1>2. DecideLearned(in, r, conf).do \in {"consult", "escalate", "noop", "send"}
    BY DEF DecideLearned, Escalated, Acting
  <1>3. DecideUnresolved(in, r).do \in {"consult", "escalate"}
    BY <1>1 DEF DecideUnresolved, Escalated, Acting
  <1> HIDE DEF conf, r
  <1>4. Decide(in).do \in {"escalate", "send", "noop", "consult"}
    BY <1>1, <1>2, <1>3 DEF Decide, DecideFrom, Escalated, Acting, conf, r
  <1>5. Decide(in).do # "escalate" =>
          Veto(in) = "none" /\ ~in.suspect /\ CheckRate(in.rate, in.inert, FALSE)
    BY <1>1 DEF Decide, DecideFrom, Escalated, CheckRate
  <1>6. Veto(in) = "none" => ~in.kill /\ ~in.neverAuto
    BY DEF Veto
  <1> QED BY <1>1, <1>4, <1>5, <1>6 DEF CheckRate, in

-----------------------------------------------------------------------------
(* The rule's row and its copies.                                          *)

\* A step that at most records a decision, and gives the rule its row, leaves the
\* copies alone.
Records ==
  \E act : \E src \in Sources, corr \in BOOLEAN :
    lastId' = lastId + 1 /\ hist' = <<NewRecord(act, src, corr)>> \o hist

RowAlone ==
  /\ rule' \in {rule, EnsureSignatureRow}
  /\ UNCHANGED <<fix, ruleCmd, credit, raced, crashes>>
  /\ UNCHANGED <<hist, lastId>> \/ Records

LEMMA RecordsTyped ==
  ASSUME HistOK, Records
  PROVE  HistOK'
  <1>1. PICK A : hist \in Seq([id : Nat, act : A, src : Sources, corr : BOOLEAN])
    BY DEF HistOK
  <1>2. PICK act : \E src \in Sources, corr \in BOOLEAN :
          lastId' = lastId + 1 /\ hist' = <<NewRecord(act, src, corr)>> \o hist
    BY DEF Records
  <1>a. PICK src \in Sources, corr \in BOOLEAN :
          lastId' = lastId + 1 /\ hist' = <<NewRecord(act, src, corr)>> \o hist
    BY <1>2
  <1> DEFINE R == [id : Nat, act : A \cup {act}, src : Sources, corr : BOOLEAN]
  <1>3. hist \in Seq(R)
    <2>1. [id : Nat, act : A, src : Sources, corr : BOOLEAN] \subseteq R OBVIOUS
    <2> QED BY <1>1, <2>1, SeqMonotonic
  <1>4. NewRecord(act, src, corr) \in R
    BY <1>a DEF NewRecord, HistOK
  <1>5. hist' \in Seq(R)
    <2> HIDE DEF R
    <2>1. <<NewRecord(act, src, corr)>> \in Seq(R) BY <1>4
    <2> QED BY <1>a, <1>3, <2>1, ConcatProperties
  <1>6. \E B : hist' \in Seq([id : Nat, act : B, src : Sources, corr : BOOLEAN])
    BY <1>5, Zenon
  <1>7. lastId' \in Nat
    BY <1>a DEF HistOK
  <1> QED BY <1>6, <1>7, Zenon DEF HistOK

\* The row a rule gets when it has none.
LEMMA RowEnsured ==
  ASSUME EarnedInv
  PROVE  Earned(EnsureSignatureRow) /\ EnsureSignatureRow.streak = rule.streak
  BY DEF EarnedInv, EnsureSignatureRow, NoRuleYet, Earned, Rules

LEMMA RowAloneKeeps ==
  ASSUME EarnedInv, RowAlone
  PROVE  EarnedInv'
  <1>1. HistOK'
    <2>1. CASE UNCHANGED <<hist, lastId>> BY <2>1 DEF EarnedInv, HistOK
    <2>2. CASE Records BY <2>2, RecordsTyped DEF EarnedInv
    <2> QED BY <2>1, <2>2 DEF RowAlone
  <1>2. FixOK'
    BY DEF EarnedInv, RowAlone, FixOK, Earned
  <1>3. CmdOK'
    BY DEF EarnedInv, RowAlone, CmdOK, Slack, Earned
  <1>4. Earned(rule') /\ rule'.streak = rule.streak
    BY RowEnsured DEF EarnedInv, RowAlone
  <1> QED BY <1>1, <1>2, <1>3, <1>4 DEF EarnedInv, RowAlone, Slack, Earned

\* What the reads see of the history.
LEMMA NewestId ==
  ASSUME HistOK
  PROVE  /\ hist # << >> => hist[1].id \in Nat
         /\ Recent # << >> => Recent[1].id \in Nat
  <1>1. PICK A : hist \in Seq([id : Nat, act : A, src : Sources, corr : BOOLEAN])
    BY DEF HistOK
  <1>2. hist # << >> => hist[1].id \in Nat
    <2>1. hist # << >> => Len(hist) \in Nat /\ Len(hist) >= 1
      BY <1>1, EmptySeq
    <2>2. hist # << >> => hist[1] \in [id : Nat, act : A, src : Sources, corr : BOOLEAN]
      <3> DEFINE R == [id : Nat, act : A, src : Sources, corr : BOOLEAN]
      <3>1. hist \in Seq(R) BY <1>1
      <3> HIDE DEF R
      <3>2. hist # << >> => hist[1] \in R BY <2>1, <3>1, ElementOfSeq
      <3> QED BY <3>2 DEF R
    <2> QED BY <2>2
  <1> DEFINE n == IF Len(hist) < Window THEN Len(hist) ELSE Window
  <1>3. /\ n \in 0 .. Len(hist) /\ Len(hist) \in Nat
        /\ n = 0 => hist = << >> \/ n = Window
    BY <1>1
  <1>4. Recent # << >> => Recent[1] = hist[1] /\ hist # << >>
    <2>1. CASE n = 0
      BY <2>1, <1>1, <1>3, SubSeqEmpty DEF Recent
    <2>2. CASE n # 0
      <3>1. Recent[1] = hist[1]
        BY <1>1, <1>3, <2>2, SubSeqProperties DEF Recent
      <3> QED BY <1>1, <1>3, <2>2, <3>1
    <2> QED BY <2>1, <2>2
  <1> QED BY <1>2, <1>4

USE DEF ruleStore, ruleScreen, ruleMemory, ruleAudit

\* What types, declines or asks records at most one decision.
LEMMA OutcomesRecord ==
  /\ \A act : \A corr \in BOOLEAN, src \in Sources : RecordDecision(act, src, corr) => Records
  /\ \A look, act, ok : \A src \in Sources : DeliverReply(look, act, src, ok) =>
       UNCHANGED <<hist, lastId>> \/ Records
  /\ \A src \in Sources : DeliverNoop(src) => UNCHANGED <<hist, lastId>> \/ Records
  BY DEF RecordDecision, DeliverReply, DeliverNoop, Records

\* The daemon's decision, however it ends.
LEMMA AttentionRecords ==
  ASSUME NEW ok \in BOOLEAN, HandleAttention(ok), rate.consec \in Nat
  PROVE  RowAlone
  <1>1. UNCHANGED <<rule, fix, ruleCmd, credit, raced, crashes>>
    BY DEF HandleAttention, DecideAndAct
  <1>2. \A look, act : Act(look, act, ok) => UNCHANGED <<hist, lastId>> \/ Records
    BY OutcomesRecord DEF Act, StartReview, Sources
  <1>3. UNCHANGED <<hist, lastId>> \/ Records
    BY <1>2, OutcomesRecord, DecideGuards DEF HandleAttention, DecideAndAct, StartConsult, Sources
  <1> QED BY <1>1, <1>3 DEF RowAlone

\* An answer of the LLM.
LEMMA ConsultRecords ==
  ASSUME NEW f, NEW ans, NEW ok \in BOOLEAN, HandleLLMOutcome(f, ans, ok)
  PROVE  RowAlone
  <1>1. UNCHANGED <<fix, ruleCmd, credit, raced, crashes>>
    BY DEF HandleLLMOutcome
  <1>2. rule' \in {rule, EnsureSignatureRow}
    BY DEF HandleLLMOutcome, PromoteAnswer
  <1>3. UNCHANGED <<hist, lastId>> \/ Records
    BY OutcomesRecord DEF HandleLLMOutcome, PromoteAnswer, Sources
  <1> QED BY <1>1, <1>2, <1>3 DEF RowAlone

\* The outcome of a review.
LEMMA ReviewRecords ==
  ASSUME NEW f, NEW ans, NEW ok \in BOOLEAN, HandleActionReviewOutcome(f, ans, ok)
  PROVE  RowAlone
  <1>1. UNCHANGED <<rule, fix, ruleCmd, credit, raced, crashes>>
    BY DEF HandleActionReviewOutcome
  <1>2. UNCHANGED <<hist, lastId>> \/ Records
    BY OutcomesRecord DEF HandleActionReviewOutcome, Sources
  <1> QED BY <1>1, <1>2 DEF RowAlone

\* Every other step of the agent and the operator that does not write the row.
LEMMA OthersLeaveRow ==
  ASSUME \/ \E look \in Looks : AgentParks(look)
         \/ \E look \in Looks \cup {"other"} : ScreenChanges(look)
         \/ \E human \in BOOLEAN : AgentWorksOn(human)
         \/ MinutePasses \/ TogglePause \/ ToggleAgent
         \/ \E row \in asks : \/ \E a \in Acts : AnswerEscalation(row, a)
                              \/ DedupWindowPasses(row) \/ RetryLLM(row)
  PROVE  RowAlone
  BY DEF RowAlone, AgentParks, ScreenChanges, AgentWorksOn, MinutePasses, TogglePause,
     ToggleAgent, AnswerEscalation, DedupWindowPasses, RetryLLM

-----------------------------------------------------------------------------
(* The steps that read and write the row.                                  *)

\* With nothing in hand, no answer is learned and not yet marked.
LEMMA NotMarking == NoFix.step # "mark" /\ NoFix.step = "none"
  BY DEF NoFix

\* A front end copies the row, reset.
LEMMA EarnedReadForReset ==
  ASSUME EarnedInv, ReadForReset
  PROVE  EarnedInv'
  <1> DEFINE floor == IF hist = << >> THEN rule.floor ELSE hist[1].id
             r == [ResetGraduation(rule) EXCEPT !.floor = floor]
  <1>1. UNCHANGED <<hist, lastId, rule, fix, credit, raced, crashes>>
        /\ ruleCmd' = [op |-> "reset", rule |-> r]
    BY DEF ReadForReset, EarnedInv, Earned, Rules, ResetGraduation
  <1>2. floor \in Nat
    BY NewestId DEF EarnedInv, Earned, Rules
  <1> HIDE DEF floor
  <1>3. Earned(r) /\ r.streak = 0
    BY <1>2 DEF EarnedInv, Earned, Rules, ResetGraduation
  <1> HIDE DEF r
  <1>4. CmdOK'
    BY <1>1, <1>3 DEF CmdOK, Earned
  <1> QED BY <1>1, <1>4 DEF EarnedInv, HistOK, FixOK, Slack, Earned

\* A front end copies the row, nudged.
LEMMA EarnedReadForAdjust ==
  ASSUME EarnedInv, NEW delta \in {-1, 1}, ReadForAdjust(delta)
  PROVE  EarnedInv'
  <1> DEFINE r == AdjustConfirmations(rule, delta, LiveConfidence(Recent, rule.floor), Limit)
  <1>1. UNCHANGED <<hist, lastId, rule, fix, credit, raced, crashes>>
        /\ ruleCmd' = [op |-> "adjust", delta |-> delta, rule |-> r]
    BY DEF ReadForAdjust
  <1>2. Earned(r) /\ r.streak <= rule.streak + (IF delta > 0 THEN 1 ELSE 0)
    BY AdjustEarns DEF EarnedInv
  <1> HIDE DEF r
  <1>3. raced \/ r.streak <= credit + Slack + (IF delta > 0 THEN 1 ELSE 0)
    BY <1>2 DEF EarnedInv, Earned, Rules, Slack
  <1>4. CmdOK'
    BY <1>1, <1>2, <1>3 DEF CmdOK, Earned, Slack
  <1> QED BY <1>1, <1>4 DEF EarnedInv, HistOK, FixOK, Slack, Earned

\* ... and writes its copy over whatever the row is by now.
LEMMA EarnedWriteCommand ==
  ASSUME EarnedInv, WriteCommand
  PROVE  EarnedInv'
  <1>1. UNCHANGED <<hist, lastId, fix, crashes>> /\ rule' = ruleCmd.rule /\ ruleCmd' = NoCmd
        /\ ruleCmd # NoCmd
    BY DEF WriteCommand
  <1>2. CASE ruleCmd.op = "reset"
    <2>1. credit' = 0 /\ raced' = (raced \/ CopyHeld)
      BY <1>2 DEF WriteCommand
    <2>2. Earned(rule') /\ rule'.streak = 0
      BY <1>1, <1>2 DEF EarnedInv, CmdOK
    <2>3. FixOK'
      BY <1>1, <2>1 DEF EarnedInv, FixOK, CopyHeld, Earned
    <2>4. raced' \/ rule'.streak <= credit' + Slack'
      BY <1>1, <2>1, <2>2 DEF EarnedInv, Slack
    <2>5. credit' \in Nat /\ crashes' \in Nat /\ raced' \in BOOLEAN
      BY <1>1, <2>1 DEF EarnedInv, CopyHeld
    <2>6. Earned(rule)' /\ HistOK' /\ CmdOK'
      BY <1>1, <2>2 DEF EarnedInv, HistOK, CmdOK, Earned
    <2> QED BY <2>3, <2>4, <2>5, <2>6 DEF EarnedInv
  <1>3. CASE ruleCmd.op # "reset"
    <2>1. raced' = raced /\ ruleCmd.delta \in {-1, 1}
          /\ credit' = credit + (IF ruleCmd.delta > 0 THEN 1 ELSE 0)
      BY <1>1, <1>3 DEF WriteCommand, EarnedInv, CmdOK
    <2>2. Earned(rule')
          /\ (raced \/ rule'.streak <= credit + Slack + (IF ruleCmd.delta > 0 THEN 1 ELSE 0))
      BY <1>1, <1>3 DEF EarnedInv, CmdOK
    <2>3. FixOK'
      BY <1>1, <2>1 DEF EarnedInv, FixOK, Earned, Rules
    <2>4. raced' \/ rule'.streak <= credit' + Slack'
      BY <1>1, <2>1, <2>2 DEF EarnedInv, Slack, Earned, Rules
    <2>5. credit' \in Nat /\ crashes' \in Nat /\ raced' \in BOOLEAN
      BY <1>1, <2>1 DEF EarnedInv
    <2>6. Earned(rule)' /\ HistOK' /\ CmdOK'
      BY <1>1, <2>2 DEF EarnedInv, HistOK, CmdOK, Earned
    <2> QED BY <2>3, <2>4, <2>5, <2>6 DEF EarnedInv
  <1> QED BY <1>2, <1>3

\* The rule is deleted with its decisions.
LEMMA EarnedDeleteRule ==
  ASSUME EarnedInv, DeleteRule
  PROVE  EarnedInv'
  <1>1. /\ rule' = NoRuleYet /\ hist' = << >> /\ credit' = 0
        /\ raced' = (raced \/ CopyHeld \/ ruleCmd # NoCmd)
        /\ UNCHANGED <<lastId, fix, ruleCmd, crashes>>
    BY DEF DeleteRule
  <1>2. HistOK'
    <2>1. hist' \in Seq([id : Nat, act : {}, src : Sources, corr : BOOLEAN])
      BY <1>1
    <2>2. lastId' \in Nat BY <1>1 DEF EarnedInv, HistOK
    <2> QED BY <2>1, <2>2, Zenon DEF HistOK
  <1>3. FixOK' /\ CmdOK'
    BY <1>1 DEF EarnedInv, FixOK, CmdOK, CopyHeld, Earned, Slack
  <1>4. Earned(rule') /\ rule'.streak = 0
    BY <1>1 DEF Earned, Rules, NoRuleYet
  <1> QED BY <1>1, <1>2, <1>3, <1>4 DEF EarnedInv, Slack, CopyHeld

\* applyCorrection reads the row, floored when only guesses counted.
LEMMA EarnedApplyCorrectionReads ==
  ASSUME EarnedInv, ApplyCorrectionReads
  PROVE  EarnedInv'
  <1> DEFINE r == Floored(EnsureSignatureRow)
  <1>1. /\ fix = NoFix /\ fix'.step = "record" /\ fix'.rule = r
        /\ fix' = [step |-> fix'.step, c |-> fix'.c, rule |-> fix'.rule, prior |-> fix'.prior]
        /\ UNCHANGED <<hist, lastId, rule, ruleCmd, credit, raced, crashes>>
    BY DEF ApplyCorrectionReads, Loop
  <1>2. Earned(r) /\ r.streak = rule.streak
    BY RowEnsured, NewestId DEF Floored, EarnedInv, Earned, Rules
  <1> HIDE DEF r
  <1>3. FixOK'
    BY <1>1, <1>2 DEF EarnedInv, FixOK, NoFix, Slack, Earned
  <1>4. CmdOK'
    BY <1>1 DEF EarnedInv, CmdOK, NoFix, Slack, Earned
  <1> QED BY <1>1, <1>3, <1>4 DEF EarnedInv, HistOK, NoFix, Slack, Earned

\* ... records the answer ...
LEMMA EarnedApplyCorrectionRecords ==
  ASSUME EarnedInv, ApplyCorrectionRecords
  PROVE  EarnedInv'
  <1>1. /\ fix.step = "record" /\ fix' = [fix EXCEPT !.step = "save"]
        /\ UNCHANGED <<rule, ruleCmd, credit, raced, crashes>>
    BY DEF ApplyCorrectionRecords
  <1>2. HistOK'
    BY OutcomesRecord, RecordsTyped DEF ApplyCorrectionRecords, Sources, EarnedInv, Confirms
  <1>3. fix # NoFix /\ Slack = crashes /\ Slack' = crashes'
    BY <1>1 DEF NoFix, Slack, EarnedInv, FixOK
  <1>4. FixOK'
    BY <1>1, <1>3 DEF EarnedInv, FixOK, Earned
  <1>5. CmdOK'
    BY <1>1, <1>3 DEF EarnedInv, CmdOK, Earned
  <1> QED BY <1>1, <1>2, <1>3, <1>4, <1>5 DEF EarnedInv, Earned

\* ... and writes its copy of the row back, observed.
LEMMA EarnedApplyCorrectionSaves ==
  ASSUME EarnedInv, ApplyCorrectionSaves
  PROVE  EarnedInv'
  <1>1. /\ fix.step = "save" /\ fix' = [fix EXCEPT !.step = "mark"] /\ rule' = Observed(fix)
        /\ UNCHANGED <<hist, lastId, ruleCmd, credit, raced, crashes>>
    BY DEF ApplyCorrectionSaves
  <1>2. fix # NoFix /\ Slack = crashes /\ Slack' = crashes' + 1
    BY <1>1 DEF NoFix, Slack, EarnedInv, FixOK
  <1>3. /\ Earned(fix.rule) /\ (raced \/ fix.rule.streak <= credit + crashes)
    BY <1>1, <1>2 DEF EarnedInv, FixOK
  <1>4. Earned(rule') /\ rule'.streak \in {fix.rule.streak, fix.rule.streak + 1, 1}
    <2> DEFINE o == ObserveConfirmation(fix.rule, Consistent(fix))
    <2>1. Consistent(fix) \in BOOLEAN BY DEF Consistent
    <2>2. /\ o \in Rules /\ (o.mode = "autonomous" => o.streak >= GraduationN)
          /\ o.streak \in {fix.rule.streak, fix.rule.streak + 1, 1}
      BY <1>3, <2>1, ObserveAdds DEF Earned
    <2> HIDE DEF o
    <2> QED BY <1>1, <2>2, GraduateEarns DEF Observed, o
  <1>5. raced \/ rule'.streak <= credit + crashes + 1
    BY <1>3, <1>4 DEF EarnedInv, Earned, Rules
  <1>6. FixOK'
    BY <1>1, <1>2 DEF EarnedInv, FixOK, Earned
  <1>7. CmdOK'
    BY <1>1, <1>2 DEF EarnedInv, CmdOK, Earned, Rules
  <1>8. raced' \/ rule'.streak <= credit' + Slack'
    BY <1>1, <1>2, <1>5 DEF EarnedInv, Earned, Rules
  <1>9. HistOK' /\ Earned(rule)'
    BY <1>1, <1>4 DEF EarnedInv, HistOK, Earned
  <1> QED BY <1>1, <1>6, <1>7, <1>8, <1>9 DEF EarnedInv

\* The correction is consumed: the operator is credited with it.
LEMMA EarnedMarkCorrectionProcessed ==
  ASSUME EarnedInv, MarkCorrectionProcessed
  PROVE  EarnedInv'
  <1>1. /\ fix.step = "mark" /\ fix' = NoFix /\ credit' = credit + 1
        /\ UNCHANGED <<hist, lastId, rule, ruleCmd, raced, crashes>>
    BY DEF MarkCorrectionProcessed
  <1>2. Slack = crashes + 1
    BY <1>1 DEF Slack
  <1>3. Slack' = crashes'
    BY <1>1, NotMarking DEF Slack, EarnedInv
  <1>4. CmdOK'
    BY <1>1, <1>2, <1>3 DEF EarnedInv, CmdOK, Earned, Rules
  <1>5. raced' \/ rule'.streak <= credit' + Slack'
    BY <1>1, <1>2, <1>3 DEF EarnedInv, Earned, Rules
  <1>6. HistOK' /\ Earned(rule)' /\ FixOK'
    BY <1>1 DEF EarnedInv, HistOK, Earned, FixOK
  <1> QED BY <1>1, <1>4, <1>5, <1>6 DEF EarnedInv

\* A crash loses the correction in hand, which will be learned again.
LEMMA EarnedCrashRestart ==
  ASSUME EarnedInv, CrashRestart
  PROVE  EarnedInv'
  <1>1. /\ fix' = NoFix /\ crashes' = crashes + 1
        /\ UNCHANGED <<hist, lastId, rule, ruleCmd, credit, raced>>
    BY DEF CrashRestart
  <1>2. Slack \in {crashes, crashes + 1}
    BY DEF Slack, EarnedInv
  <1>3. Slack' = crashes + 1
    BY <1>1, NotMarking DEF Slack, EarnedInv
  <1>4. CmdOK'
    BY <1>1, <1>2, <1>3 DEF EarnedInv, CmdOK, Earned, Rules
  <1>5. raced' \/ rule'.streak <= credit' + Slack'
    BY <1>1, <1>2, <1>3 DEF EarnedInv, Earned, Rules
  <1>6. HistOK' /\ Earned(rule)' /\ FixOK'
    BY <1>1 DEF EarnedInv, HistOK, Earned, FixOK
  <1> QED BY <1>1, <1>4, <1>5, <1>6 DEF EarnedInv


-----------------------------------------------------------------------------
(* EarnedInv is inductive.                                                 *)

LEMMA EarnedInitially ==
  ASSUME InitRule
  PROVE  EarnedInv
  <1>1. HistOK
    <2>1. hist \in Seq([id : Nat, act : {}, src : Sources, corr : BOOLEAN])
      BY DEF InitRule
    <2> QED BY <2>1, Zenon DEF HistOK, InitRule
  <1>2. Slack \in Nat
    BY NotMarking DEF InitRule, Slack, NoFix
  <1>3. Earned(rule) /\ rule.streak = 0
    BY DEF InitRule, Earned, Rules, NoRuleYet
  <1>4. credit = 0 /\ crashes = 0 /\ raced = FALSE /\ FixOK /\ CmdOK
    BY DEF InitRule, FixOK, CmdOK
  <1>5. raced \/ rule.streak <= credit + Slack
    BY <1>2, <1>3, <1>4
  <1> QED BY <1>1, <1>3, <1>4, <1>5 DEF EarnedInv

LEMMA EarnedStays ==
  ASSUME EarnedInv, rate.consec \in Nat, [NextRule]_ruleVars
  PROVE  EarnedInv'
  <1>1. CASE \/ \E look \in Looks : AgentParks(look)
             \/ \E look \in Looks \cup {"other"} : ScreenChanges(look)
             \/ \E human \in BOOLEAN : AgentWorksOn(human)
             \/ MinutePasses \/ TogglePause \/ ToggleAgent
             \/ \E row \in asks : \/ \E a \in Acts : AnswerEscalation(row, a)
                                  \/ DedupWindowPasses(row) \/ RetryLLM(row)
    BY <1>1, OthersLeaveRow, RowAloneKeeps
  <1>2. CASE \E ok \in BOOLEAN : HandleAttention(ok)
    BY <1>2, AttentionRecords, RowAloneKeeps
  <1>3. CASE \E n \in CallSlots : Outcome(n)
    BY <1>3, ConsultRecords, ReviewRecords, RowAloneKeeps DEF Outcome
  <1>4. CASE ReadForReset \/ (\E delta \in {-1, 1} : ReadForAdjust(delta)) \/ WriteCommand
    BY <1>4, EarnedReadForReset, EarnedReadForAdjust, EarnedWriteCommand
  <1>5. CASE DeleteRule
    BY <1>5, EarnedDeleteRule
  <1>6. CASE Corrections
    BY <1>6, EarnedApplyCorrectionReads, EarnedApplyCorrectionRecords,
       EarnedApplyCorrectionSaves, EarnedMarkCorrectionProcessed DEF Corrections
  <1>7. CASE CrashRestart
    BY <1>7, EarnedCrashRestart
  <1>8. CASE UNCHANGED ruleVars
    <2>1. RowAlone BY <1>8 DEF RowAlone, ruleVars
    <2> QED BY <2>1, RowAloneKeeps
  <1>9. [NextRule]_ruleVars => Steps \/ UNCHANGED ruleVars
    BY DEF NextRule
  <1> QED BY <1>1, <1>2, <1>3, <1>4, <1>5, <1>6, <1>7, <1>8, <1>9, Zenon DEF Steps, Operator

-----------------------------------------------------------------------------
(* The rate and the calls.                                                 *)

\* A prompt counted below the limit stays within it; a human starts the count again
\* (RegisterAutoPrompt, RegisterHumanInteraction, PauseAgent).
LEMMA RatesBounded ==
  ASSUME NEW r, Bounded(r)
  PROVE  /\ r.consec < MaxConsecutive => Bounded(RegisterAutoPrompt(r))
         /\ Bounded(RegisterHumanInteraction(r)) /\ Bounded(PauseAgent(r))
         /\ Bounded([r EXCEPT !.fresh = FALSE])
         /\ CheckRate(r, FALSE, FALSE) => r.consec < MaxConsecutive
  <1>1. r.consec < MaxConsecutive => Bounded(RegisterAutoPrompt(r))
    <2> DEFINE counted == [r EXCEPT !.count = IF r.fresh THEN @ + 1 ELSE 1]
               idle == [counted EXCEPT !.fresh = TRUE]
    <2>1. Bounded(counted) /\ counted.consec = r.consec BY DEF Bounded
    <2>2. RegisterAutoPromptIdle(r) = idle BY DEF RegisterAutoPromptIdle
    <2> HIDE DEF counted
    <2>3. Bounded(idle) /\ idle.consec = r.consec BY <2>1 DEF Bounded
    <2> HIDE DEF idle
    <2> QED BY <2>2, <2>3 DEF Bounded, RegisterAutoPrompt
  <1>2. Bounded(RegisterHumanInteraction(r))
    <2> DEFINE zero == [r EXCEPT !.consec = 0]
    <2>1. Bounded(zero) BY DEF Bounded
    <2>2. RegisterHumanInteraction(r) = [zero EXCEPT !.paused = FALSE]
      BY DEF RegisterHumanInteraction
    <2> HIDE DEF zero
    <2> QED BY <2>1, <2>2 DEF Bounded
  <1>3. Bounded(PauseAgent(r)) /\ Bounded([r EXCEPT !.fresh = FALSE])
    BY DEF Bounded, PauseAgent
  <1>4. CheckRate(r, FALSE, FALSE) => r.consec < MaxConsecutive
    BY DEF CheckRate
  <1> QED BY <1>1, <1>2, <1>3, <1>4

\* ... so it does for the agent's own row, whatever a step makes of it.
LEMMA RateKept ==
  ASSUME RateOK
  PROVE  /\ rate' = rate => RateOK'
         /\ rate.consec < MaxConsecutive /\ rate' = RegisterAutoPrompt(rate) => RateOK'
         /\ rate' = RegisterHumanInteraction(rate) => RateOK'
         /\ rate' = PauseAgent(rate) => RateOK'
         /\ rate' = [rate EXCEPT !.fresh = FALSE] => RateOK'
         /\ CheckRate(rate, FALSE, FALSE) => rate.consec < MaxConsecutive
  <1>1. Bounded(rate)
    BY DEF RateOK
  <1>2. ASSUME NEW r, Bounded(r), rate' = r PROVE RateOK'
    BY <1>2 DEF RateOK, Bounded
  <1> QED BY <1>1, <1>2, RatesBounded, Zenon

ScreenOK ==
  /\ prompt \in Looks \cup {"other", "gone"}
  /\ handled \in BOOLEAN /\ told \in BOOLEAN

\* Somebody was told of the prompt that stands, if one of the signature does.
Told == prompt \in Looks => told

LEMMA GoneIsNoLook == "gone" \notin Looks /\ "other" \notin Looks
  BY DEF LearnedAssumption

LEMMA EscalateTells ==
  ASSUME RateOK, ScreenOK, NEW look, NEW why, NEW suggest, Escalate(look, why, suggest),
         UNCHANGED prompt
  PROVE  RateOK' /\ Told' /\ told' \in BOOLEAN
  BY RateKept, GoneIsNoLook DEF Escalate, EscalateAs, ScreenOK, Told

LEMMA DeliverTells ==
  ASSUME RateOK, ScreenOK, rate.consec < MaxConsecutive,
         NEW look, NEW act, NEW src, NEW ok \in BOOLEAN, DeliverReply(look, act, src, ok)
  PROVE  /\ RateOK' /\ Told' /\ told' \in BOOLEAN
         /\ prompt' \in {prompt, "gone"} /\ handled' \in BOOLEAN
  BY RateKept, GoneIsNoLook DEF DeliverReply, ScreenOK, Told

LEMMA NoopTells ==
  ASSUME RateOK, ScreenOK, rate.consec < MaxConsecutive,
         NEW src, DeliverNoop(src), UNCHANGED prompt
  PROVE  RateOK' /\ Told' /\ told' \in BOOLEAN
  BY RateKept, GoneIsNoLook DEF DeliverNoop, ScreenOK, Told

\* Whoever tells, and types, leaves the calls in order.
LEMMA ToldIsAnswered ==
  ASSUME CallsInv, bad' = bad, RateOK', Told', told' \in BOOLEAN, FlightsOK',
         prompt' \in {prompt, "gone"}, handled' \in BOOLEAN
  PROVE  CallsInv'
  BY DEF CallsInv, Told, Answered

\* act, with its review.
LEMMA ActCalls ==
  ASSUME CallsInv, rate.consec < MaxConsecutive, prompt \in Looks, bad' = bad,
         NEW look, NEW act, act # NoAction, NEW ok \in BOOLEAN, Act(look, act, ok)
  PROVE  CallsInv'
  <1> USE DEF ScreenOK
  <1>1. CASE UNCHANGED <<flights, underReview>> /\ handled' = TRUE
             /\ ( \/ \E w, s : Escalate(look, w, s) /\ UNCHANGED prompt
                  \/ DeliverReply(look, act, "rule", ok) )
    <2>1. FlightsOK' BY <1>1 DEF CallsInv, FlightsOK
    <2>2. RateOK' /\ Told' /\ told' \in BOOLEAN /\ prompt' \in {prompt, "gone"}
      BY <1>1, EscalateTells, DeliverTells DEF CallsInv
    <2> QED BY <1>1, <2>1, <2>2, ToldIsAnswered
  <1>2. CASE underReview # NoAction /\ told' = FALSE /\ handled' = TRUE
             /\ UNCHANGED <<rate, prompt, flights, underReview>>
    BY <1>2, RateKept DEF CallsInv, FlightsOK, Answered
  <1>3. CASE /\ act \notin bad /\ underReview' = act /\ told' = FALSE /\ handled' = TRUE
             /\ flights' = flights \cup {Flight("review", look, act)}
             /\ UNCHANGED <<rate, prompt>>
    <2>1. Flight("review", look, act).kind = "review" /\ Flight("review", look, act).act = act
      BY DEF Flight
    <2> QED BY <1>3, <2>1, RateKept DEF CallsInv, FlightsOK, Answered
  <1> QED BY <1>1, <1>2, <1>3 DEF Act, StartReview

\* A decision to send has something to send.
LEMMA SendsSomething ==
  ASSUME NEW look
  PROVE  Decide(Input(look)).do = "send" => Decide(Input(look)).act # NoAction
  <1> DEFINE in == Input(look)
             conf == LiveConfidence(in.hist, in.floor)
             r == ResolveSituation(in, conf)
  <1>1. ~in.reserve /\ ~in.gen /\ in.declared = "none"
    BY DEF Input
  <1> HIDE DEF in
  <1>2. r.why = "none" => r.act # NoAction
    <2> HIDE DEF conf
    <2> QED BY <1>1 DEF r, ResolveSituation, ResolveIdle, ResolvePrompt, Resolved, Unresolved,
            NoAction, NOOP, NextInferredTask, NextDeclaredTask
  <1>3. DecideLearned(in, r, conf).do = "send" => DecideLearned(in, r, conf).act = r.act
    BY DEF DecideLearned, Escalated, Acting
  <1>4. DecideUnresolved(in, r).do # "send"
    BY <1>1 DEF DecideUnresolved, Escalated, Acting
  <1> HIDE DEF conf, r
  <1>5. Decide(in).do = "send" =>
          r.why = "none" /\ Decide(in) = DecideLearned(in, r, conf)
    BY <1>1, <1>4 DEF Decide, DecideFrom, Escalated, Acting, conf, r
  <1> QED BY <1>2, <1>3, <1>5 DEF in

LEMMA AttentionCalls ==
  ASSUME CallsInv, bad' = bad, NEW ok \in BOOLEAN, HandleAttention(ok)
  PROVE  CallsInv'
  <1> DEFINE dec == Decide(Input(prompt))
  <1> USE DEF ScreenOK
  <1>1. prompt \in Looks /\ rate.consec \in Nat
    BY DEF HandleAttention, DecideAndAct, CallsInv, RateOK, Bounded
  <1>2. /\ dec.do \in {"escalate", "send", "noop", "consult"}
        /\ dec.do # "escalate" => rate.consec < MaxConsecutive
        /\ dec.do = "send" => dec.act # NoAction
    BY <1>1, DecideGuards, SendsSomething
  <1> HIDE DEF dec
  <1>3. CASE disabled /\ dec.do # "escalate"
    <2>1. told' = TRUE /\ handled' = TRUE /\ UNCHANGED <<rate, prompt, flights, underReview>>
      BY <1>3 DEF HandleAttention, DecideAndAct, dec
    <2> QED BY <2>1, RateKept DEF CallsInv, FlightsOK, Answered
  <1>4. CASE dec.do = "escalate"
    <2>1. /\ \E w, s : Escalate(prompt, w, s)
          /\ handled' = TRUE /\ underReview' \in {underReview, NoAction}
          /\ UNCHANGED <<prompt, flights>>
      BY <1>4 DEF HandleAttention, DecideAndAct, dec, CancelReview
    <2>2. FlightsOK' BY <2>1 DEF CallsInv, FlightsOK
    <2>3. RateOK' /\ Told' /\ told' \in BOOLEAN
      BY <2>1, EscalateTells DEF CallsInv
    <2> QED BY <2>1, <2>2, <2>3, ToldIsAnswered
  <1>5. CASE ~disabled /\ dec.do = "send"
    <2>1. Act(prompt, dec.act, ok)
      BY <1>5 DEF HandleAttention, DecideAndAct, dec
    <2> QED BY <1>1, <1>2, <1>5, <2>1, ActCalls
  <1>6. CASE ~disabled /\ dec.do = "noop"
    <2>1. DeliverNoop("rule") /\ underReview' = NoAction /\ handled' = TRUE
          /\ UNCHANGED <<prompt, flights>>
      BY <1>6 DEF HandleAttention, DecideAndAct, dec, CancelReview
    <2>2. FlightsOK' BY <2>1 DEF CallsInv, FlightsOK
    <2>3. RateOK' /\ Told' /\ told' \in BOOLEAN
      BY <1>2, <1>6, <2>1, NoopTells DEF CallsInv
    <2> QED BY <2>1, <2>2, <2>3, ToldIsAnswered
  <1>7. CASE ~disabled /\ dec.do = "consult"
    <2>1. StartConsult(prompt) /\ underReview' = NoAction /\ handled' = TRUE
      BY <1>7 DEF HandleAttention, DecideAndAct, dec, CancelReview
    <2>2. Flight("consult", prompt, NoAction).kind = "consult"
      BY DEF Flight
    <2> QED BY <2>1, <2>2, RateKept DEF StartConsult, CallsInv, FlightsOK, Answered
  <1> QED BY <1>2, <1>3, <1>4, <1>5, <1>6, <1>7

LEMMA ConsultCalls ==
  ASSUME CallsInv, bad' = bad, NEW f, NEW ans, NEW ok \in BOOLEAN,
         HandleLLMOutcome(f, ans, ok)
  PROVE  CallsInv'
  <1> USE DEF ScreenOK
  <1>1. f.kind = "consult" /\ flights' = flights \ {f} /\ underReview' = underReview
    BY DEF HandleLLMOutcome
  <1>2. FlightsOK' BY <1>1 DEF CallsInv, FlightsOK
  <1>3. CASE (\E w, s : Escalate(f.look, w, s)) /\ UNCHANGED <<prompt, handled>>
    <2>1. RateOK' /\ Told' /\ told' \in BOOLEAN
      BY <1>3, EscalateTells DEF CallsInv
    <2> QED BY <1>2, <1>3, <2>1, ToldIsAnswered DEF CallsInv
  <1>4. CASE Refusal(f, ans) = "none" /\ DeliverNoop("llm") /\ UNCHANGED <<prompt, handled>>
    <2>1. RateOK' /\ Told' /\ told' \in BOOLEAN
      BY <1>4, NoopTells, RateKept DEF CallsInv, Refusal
    <2> QED BY <1>2, <1>4, <2>1, ToldIsAnswered DEF CallsInv
  <1>5. CASE StalePrompt /\ EscalateAs(f.look, "llm_no_submit", ans.act, prompt = "gone")
             /\ UNCHANGED <<prompt, handled>>
    <2>1. RateOK'
      BY <1>5, RateKept DEF CallsInv, EscalateAs
    <2>2. Told' /\ told' \in BOOLEAN
      BY <1>5 DEF CallsInv, EscalateAs, StalePrompt, Told
    <2> QED BY <1>2, <1>5, <2>1, <2>2, ToldIsAnswered DEF CallsInv
  <1>6. CASE Refusal(f, ans) = "none" /\ PromoteAnswer(f, ans, ok)
    <2>a. rate.consec < MaxConsecutive
      BY <1>6, RateKept DEF CallsInv, Refusal
    <2>b. DeliverReply(f.look, ans.act, "llm", ok)
      BY <1>6 DEF PromoteAnswer
    <2>1. RateOK' /\ Told' /\ told' \in BOOLEAN /\ prompt' \in {prompt, "gone"}
          /\ handled' \in BOOLEAN
      BY <2>a, <2>b, DeliverTells DEF CallsInv
    <2> QED BY <1>2, <2>1, ToldIsAnswered
  <1> QED BY <1>3, <1>4, <1>5, <1>6 DEF HandleLLMOutcome

LEMMA ReviewCalls ==
  ASSUME CallsInv, bad' = bad, NEW f, NEW ans, NEW ok \in BOOLEAN,
         HandleActionReviewOutcome(f, ans, ok)
  PROVE  CallsInv'
  <1> USE DEF ScreenOK
  <1>1. flights' = flights \ {f} /\ f.kind = "review"
    BY DEF HandleActionReviewOutcome
  <1>2. CASE underReview # f.act
    <2>1. UNCHANGED <<rate, prompt, handled, underReview, told>>
      BY <1>2 DEF HandleActionReviewOutcome
    <2> QED BY <1>1, <1>2, <2>1 DEF CallsInv, FlightsOK, RateOK, Answered
  <1>3. CASE underReview = f.act
    <2>1. underReview' = NoAction
      BY <1>3 DEF HandleActionReviewOutcome
    <2>2. FlightsOK' BY <1>1, <2>1 DEF CallsInv, FlightsOK
    <2>3. \/ told' = TRUE /\ UNCHANGED <<rate, prompt, handled>>
          \/ (\E w, s : Escalate(f.look, w, s)) /\ UNCHANGED <<prompt, handled>>
          \/ /\ CheckRate(rate, FALSE, FALSE) /\ rate' = RegisterAutoPrompt(rate) /\ told' = TRUE
             /\ UNCHANGED <<prompt, handled>>
          \/ StalePrompt /\ UNCHANGED <<rate, prompt, handled, told>>
          \/ CheckRate(rate, FALSE, FALSE) /\ DeliverReply(f.look, f.act, "rule", ok)
      BY <1>3 DEF HandleActionReviewOutcome
    <2>4. CASE told' = TRUE /\ UNCHANGED <<prompt, handled>>
               /\ \/ rate' = rate
                  \/ CheckRate(rate, FALSE, FALSE) /\ rate' = RegisterAutoPrompt(rate)
      <3>1. RateOK' BY <2>4, RateKept DEF CallsInv
      <3>2. Told' BY <2>4 DEF Told
      <3> QED BY <2>2, <2>4, <3>1, <3>2, ToldIsAnswered DEF CallsInv
    <2>5. CASE (\E w, s : Escalate(f.look, w, s)) /\ UNCHANGED <<prompt, handled>>
      <3>1. RateOK' /\ Told' /\ told' \in BOOLEAN
        BY <2>5, EscalateTells DEF CallsInv
      <3> QED BY <2>2, <2>5, <3>1, ToldIsAnswered DEF CallsInv
    <2>6. CASE StalePrompt /\ UNCHANGED <<rate, prompt, handled, told>>
      <3>1. Told' BY <2>6 DEF Told, StalePrompt
      <3>2. RateOK' BY <2>6, RateKept DEF CallsInv
      <3> QED BY <2>2, <2>6, <3>1, <3>2, ToldIsAnswered DEF CallsInv
    <2>7. CASE CheckRate(rate, FALSE, FALSE) /\ DeliverReply(f.look, f.act, "rule", ok)
      <3>1. rate.consec < MaxConsecutive BY <2>7, RateKept DEF CallsInv
      <3>2. /\ RateOK' /\ Told' /\ told' \in BOOLEAN
            /\ prompt' \in {prompt, "gone"} /\ handled' \in BOOLEAN
        BY <2>7, <3>1, DeliverTells DEF CallsInv
      <3> QED BY <2>2, <3>2, ToldIsAnswered
    <2> QED BY <2>3, <2>4, <2>5, <2>6, <2>7
  <1> QED BY <1>2, <1>3

LEMMA OthersCalls ==
  ASSUME CallsInv, bad' = bad,
         \/ \E look \in Looks : AgentParks(look)
         \/ \E look \in Looks \cup {"other"} : ScreenChanges(look)
         \/ \E human \in BOOLEAN : AgentWorksOn(human)
         \/ MinutePasses \/ Operator \/ Corrections \/ CrashRestart \/ UNCHANGED ruleVars
  PROVE  CallsInv'
  <1>1. CASE (\E look \in Looks : AgentParks(look))
             \/ (\E look \in Looks \cup {"other"} : ScreenChanges(look))
    <2>1. /\ prompt' \in Looks \cup {"other"} /\ UNCHANGED <<rate, flights, underReview>>
          /\ \/ handled' = FALSE /\ told' = FALSE
             \/ prompt \in Looks /\ handled' = handled /\ told' = told
      BY <1>1 DEF AgentParks, ScreenChanges
    <2>2. FlightsOK' BY <2>1 DEF CallsInv, FlightsOK
    <2>3. Answered'
      <3>1. CASE handled' = FALSE
        BY <3>1 DEF Answered
      <3>2. CASE prompt \in Looks /\ handled' = handled /\ told' = told
        BY <2>1, <3>2 DEF CallsInv, Answered
      <3> QED BY <2>1, <3>1, <3>2
    <2> QED BY <2>1, <2>2, <2>3, RateKept DEF CallsInv
  <1>2. CASE (\E human \in BOOLEAN : AgentWorksOn(human)) \/ MinutePasses
    <2>1. /\ rate' \in {rate, RegisterHumanInteraction(rate), [rate EXCEPT !.fresh = FALSE]}
          /\ flights' = flights
          /\ \/ prompt' = "gone" /\ handled' = TRUE /\ underReview' = NoAction /\ told' = FALSE
             \/ UNCHANGED <<prompt, handled, underReview, told>>
      BY <1>2 DEF AgentWorksOn, MinutePasses
    <2>2. RateOK'
      BY <2>1, RateKept DEF CallsInv
    <2>3. FlightsOK' BY <2>1 DEF CallsInv, FlightsOK
    <2>4. Answered'
      <3>1. CASE prompt' = "gone"
        BY <3>1, GoneIsNoLook DEF Answered
      <3>2. CASE UNCHANGED <<prompt, handled, underReview, told>>
        BY <2>1, <3>2, Zenon DEF CallsInv, Answered
      <3> QED BY <2>1, <3>1, <3>2
    <2> QED BY <2>1, <2>2, <2>3, <2>4 DEF CallsInv
  <1>3. CASE \E row \in asks : \E a \in Acts : AnswerEscalation(row, a)
    BY <1>3, GoneIsNoLook, RateKept DEF AnswerEscalation, CallsInv, FlightsOK, Answered
  <1>4. CASE (\E row \in asks : DedupWindowPasses(row) \/ RetryLLM(row))
             \/ TogglePause \/ ToggleAgent
    <2>1. /\ UNCHANGED <<rate, prompt, flights, underReview>>
          /\ \/ handled' = FALSE /\ told' = FALSE
             \/ handled' = handled /\ told' = told
      BY <1>4 DEF DedupWindowPasses, RetryLLM, TogglePause, ToggleAgent
    <2>2. FlightsOK' BY <2>1 DEF CallsInv, FlightsOK
    <2>3. Answered' BY <2>1, GoneIsNoLook, Zenon DEF CallsInv, Answered
    <2> QED BY <2>1, <2>2, <2>3, RateKept DEF CallsInv
  <1>5. CASE DeleteRule \/ ReadForReset \/ (\E delta \in {-1, 1} : ReadForAdjust(delta))
             \/ WriteCommand
    BY <1>5, RateKept DEF DeleteRule, ReadForReset, ReadForAdjust, WriteCommand,
            CallsInv, FlightsOK, Answered
  <1>6. CASE ApplyCorrectionReads
    BY <1>6, RateKept DEF ApplyCorrectionReads, HumanInteraction,
       CallsInv, FlightsOK, Answered
  <1>7. CASE ApplyCorrectionRecords \/ ApplyCorrectionSaves \/ MarkCorrectionProcessed
    BY <1>7, RateKept DEF ApplyCorrectionRecords, ApplyCorrectionSaves, MarkCorrectionProcessed,
            CallsInv, FlightsOK, Answered
  <1>8. CASE CrashRestart
    BY <1>8, GoneIsNoLook, RateKept DEF CrashRestart, CallsInv, FlightsOK, Answered
  <1>9. CASE UNCHANGED ruleVars
    BY <1>9, RateKept DEF ruleVars, CallsInv, FlightsOK, Answered
  <1> QED BY <1>1, <1>2, <1>3, <1>4, <1>5, <1>6, <1>7, <1>8, <1>9, Zenon
          DEF Operator, Corrections

LEMMA CallsStay ==
  ASSUME CallsInv, [NextRule]_ruleVars
  PROVE  CallsInv'
  <1>1. bad' = bad /\ (Steps \/ UNCHANGED ruleVars)
    BY DEF NextRule, ruleVars
  <1>2. CASE \E ok \in BOOLEAN : HandleAttention(ok)
    BY <1>1, <1>2, AttentionCalls
  <1>3. CASE \E n \in CallSlots : Outcome(n)
    BY <1>1, <1>3, ConsultCalls, ReviewCalls DEF Outcome
  <1> QED BY <1>1, <1>2, <1>3, OthersCalls, Zenon DEF Steps

LEMMA CallsInitially ==
  ASSUME InitRule
  PROVE  CallsInv
  <1>1. RateOK BY DEF InitRule, RateOK, Bounded
  <1>2. FlightsOK BY DEF InitRule, FlightsOK
  <1> QED BY <1>1, <1>2, GoneIsNoLook DEF InitRule, CallsInv, Answered

-----------------------------------------------------------------------------
(* Where the automation types.                                             *)

\* The decision a step adds is the newest of the history.
LEMMA NewestIsAdded ==
  ASSUME HistOK, NEW act, NEW src, NEW corr, RecordDecision(act, src, corr)
  PROVE  hist'[1].act = act /\ hist'[1].src = src
  <1>1. PICK A : hist \in Seq([id : Nat, act : A, src : Sources, corr : BOOLEAN])
    BY DEF HistOK
  <1>2. hist' = <<NewRecord(act, src, corr)>> \o hist
    BY DEF RecordDecision
  <1>3. hist'[1] = NewRecord(act, src, corr)
    BY <1>1, <1>2
  <1> QED BY <1>3 DEF NewRecord

\* What a step may have typed of its own accord.
TypedHere ==
  lastId' # lastId /\ hist'[1].src \in {"rule", "llm"} /\ hist'[1].act # NOOP
    => prompt = "plain" /\ ~kill /\ ~disabled /\ hist'[1].act \notin bad

LEMMA DeliverTypesHere ==
  ASSUME HistOK, NEW look, NEW act, NEW src, NEW ok \in BOOLEAN,
         DeliverReply(look, act, src, ok),
         prompt = "plain", ~kill, act \notin bad
  PROVE  TypedHere
  <1>1. CASE UNCHANGED <<hist, lastId>>
    BY <1>1 DEF TypedHere
  <1>2. CASE ~disabled /\ RecordDecision(act, src, FALSE)
    BY <1>2, NewestIsAdded DEF TypedHere
  <1> QED BY <1>1, <1>2 DEF DeliverReply

LEMMA NoopTypesNothing ==
  ASSUME HistOK, NEW src, DeliverNoop(src)
  PROVE  TypedHere
  <1>1. CASE UNCHANGED <<hist, lastId>>
    BY <1>1 DEF TypedHere
  <1>2. CASE RecordDecision(NOOP, src, FALSE)
    BY <1>2, NewestIsAdded DEF TypedHere
  <1> QED BY <1>1, <1>2 DEF DeliverNoop

LEMMA AttentionTypesHere ==
  ASSUME EarnedInv, CallsInv, NEW ok \in BOOLEAN, HandleAttention(ok)
  PROVE  TypedHere
  <1> DEFINE dec == Decide(Input(prompt))
  <1>1. prompt \in Looks /\ rate.consec \in Nat /\ HistOK
    BY DEF HandleAttention, DecideAndAct, CallsInv, RateOK, Bounded, EarnedInv
  <1>2. dec.do # "escalate" => ~kill /\ prompt = "plain"
    BY <1>1, DecideGuards DEF LearnedAssumption
  <1>3. dec.do \in {"escalate", "send", "noop", "consult"}
    BY <1>1, DecideGuards
  <1> HIDE DEF dec
  <1>4. CASE UNCHANGED <<hist, lastId>>
    BY <1>4 DEF TypedHere
  <1>5. CASE dec.do = "send" /\ ~disabled
    <2>1. Act(prompt, dec.act, ok)
      BY <1>5 DEF HandleAttention, DecideAndAct, dec
    <2>2. UNCHANGED <<hist, lastId>> \/ (dec.act \notin bad /\ DeliverReply(prompt, dec.act, "rule", ok))
      BY <2>1 DEF Act, StartReview
    <2> QED BY <1>1, <1>2, <1>4, <1>5, <2>2, DeliverTypesHere
  <1>6. CASE dec.do = "noop" /\ ~disabled
    <2>1. DeliverNoop("rule")
      BY <1>6 DEF HandleAttention, DecideAndAct, dec
    <2> QED BY <1>1, <2>1, NoopTypesNothing
  <1>7. dec.do \in {"escalate", "consult"} \/ disabled => UNCHANGED <<hist, lastId>>
    BY <1>3 DEF HandleAttention, DecideAndAct, StartConsult, dec
  <1> QED BY <1>3, <1>4, <1>5, <1>6, <1>7

LEMMA ConsultTypesHere ==
  ASSUME EarnedInv, CallsInv, NEW f, NEW ans, NEW ok \in BOOLEAN, HandleLLMOutcome(f, ans, ok)
  PROVE  TypedHere
  <1>1. CASE UNCHANGED <<hist, lastId>>
    BY <1>1 DEF TypedHere
  <1>2. CASE DeliverNoop("llm")
    BY <1>2, NoopTypesNothing DEF EarnedInv
  <1>3. CASE Refusal(f, ans) = "none" /\ ~StalePrompt /\ Reread(f) = "none"
             /\ PromoteAnswer(f, ans, ok)
    <2>1. ~kill /\ f.look # "danger" /\ f.look # "suspect" /\ ans.act \notin bad
      BY <1>3 DEF Refusal
    <2>2. prompt = "plain"
      BY <1>3, <2>1 DEF StalePrompt, Reread, LearnedAssumption
    <2> QED BY <1>3, <2>1, <2>2, DeliverTypesHere DEF PromoteAnswer, EarnedInv
  <1> QED BY <1>1, <1>2, <1>3 DEF HandleLLMOutcome

LEMMA ReviewTypesHere ==
  ASSUME EarnedInv, CallsInv, NEW f, NEW ans, NEW ok \in BOOLEAN,
         HandleActionReviewOutcome(f, ans, ok)
  PROVE  TypedHere
  <1>1. CASE UNCHANGED <<hist, lastId>>
    BY <1>1 DEF TypedHere
  <1>2. CASE /\ ~kill /\ ~StalePrompt /\ prompt \notin {"danger", "suspect"}
             /\ DeliverReply(f.look, f.act, "rule", ok)
    <2>1. f.act \notin bad
      BY DEF HandleActionReviewOutcome, CallsInv, FlightsOK
    <2>2. prompt = "plain"
      BY <1>2 DEF StalePrompt, LearnedAssumption
    <2> QED BY <1>2, <2>1, <2>2, DeliverTypesHere DEF EarnedInv
  <1> QED BY <1>1, <1>2 DEF HandleActionReviewOutcome

LEMMA StepTypesHere ==
  ASSUME EarnedInv, CallsInv, NextRule
  PROVE  TypedHere
  <1>1. CASE \E ok \in BOOLEAN : HandleAttention(ok)
    BY <1>1, AttentionTypesHere
  <1>2. CASE \E n \in CallSlots : Outcome(n)
    BY <1>2, ConsultTypesHere, ReviewTypesHere DEF Outcome
  <1>3. CASE ApplyCorrectionRecords
    <2>1. RecordDecision(fix.c.act, "operator", ~Confirms(fix.c))
      BY <1>3 DEF ApplyCorrectionRecords
    <2>2. hist'[1].src = "operator"
      BY <2>1, NewestIsAdded DEF EarnedInv
    <2> QED BY <2>2 DEF TypedHere
  <1>4. CASE UNCHANGED lastId
    BY <1>4 DEF TypedHere
  <1>5. \/ \E look \in Looks : AgentParks(look)
        \/ \E look \in Looks \cup {"other"} : ScreenChanges(look)
        \/ \E human \in BOOLEAN : AgentWorksOn(human)
        \/ MinutePasses \/ Operator \/ CrashRestart
        \/ ApplyCorrectionReads \/ ApplyCorrectionSaves \/ MarkCorrectionProcessed
        => UNCHANGED lastId
    BY DEF AgentParks, ScreenChanges, AgentWorksOn, MinutePasses, Operator, CrashRestart,
       ApplyCorrectionReads, ApplyCorrectionSaves, MarkCorrectionProcessed,
       AnswerEscalation, DedupWindowPasses, RetryLLM, TogglePause, ToggleAgent,
       DeleteRule, ReadForReset, ReadForAdjust, WriteCommand
  <1> QED BY <1>1, <1>2, <1>3, <1>4, <1>5, Zenon DEF NextRule, Steps, Corrections

-----------------------------------------------------------------------------
(* The theorems.                                                           *)

\* Both invariants hold of every behaviour of the rule, the agent and its operator.
THEOREM LearnedInvariance == SpecRule => [](EarnedInv /\ CallsInv)
  <1>1. InitRule => EarnedInv /\ CallsInv
    BY EarnedInitially, CallsInitially
  <1>2. EarnedInv /\ CallsInv /\ [NextRule]_ruleVars => (EarnedInv /\ CallsInv)'
    <2> SUFFICES ASSUME EarnedInv, CallsInv, [NextRule]_ruleVars PROVE EarnedInv' /\ CallsInv'
      OBVIOUS
    <2>1. rate.consec \in Nat BY DEF CallsInv, RateOK, Bounded
    <2> QED BY <2>1, EarnedStays, CallsStay
  <1> QED BY <1>1, <1>2, PTL DEF SpecRule

\* No copy of the row that is, or will be, written calls the rule autonomous below
\* graduation_n confirmations, and a reset stands (observe, ResetGraduation,
\* AdjustConfirmations; the property RuleIsEarned).
THEOREM EarnedAlways == SpecRule => []RuleIsEarned
  <1>1. EarnedInv => AutonomyIsEarned
    BY DEF EarnedInv, AutonomyIsEarned, Earned, FixOK, CmdOK
  <1>2. EarnedInv => ResetStands
    BY DEF EarnedInv, ResetStands, Earned, Rules, Slack
  <1>3. EarnedInv /\ CallsInv => RuleIsEarned
    BY <1>1, <1>2 DEF RuleIsEarned
  <1> QED BY <1>3, LearnedInvariance, PTL

\* The consecutive-prompt limit holds over every path that types or declines, and no
\* handled prompt waits unseen (CheckRate, RegisterAutoPrompt; decideAndActResolved,
\* handleLLMOutcome, handleActionReviewOutcome; the property PromptsAreAccounted).
THEOREM AccountedAlways == SpecRule => []PromptsAreAccounted
  <1>1. CallsInv => PromptsBounded
    BY DEF CallsInv, RateOK, Bounded, PromptsBounded
  <1>2. CallsInv => NothingSwallowed
    BY DEF CallsInv, FlightsOK, Answered, NothingSwallowed
  <1>3. EarnedInv /\ CallsInv => PromptsAreAccounted
    BY <1>1, <1>2 DEF PromptsAreAccounted
  <1> QED BY <1>3, LearnedInvariance, PTL

\* The automation types only at a plain prompt, never while paused or for a disabled
\* agent, never a refused reply, however long ago the reply was decided
\* (act, handleLLMOutcome, handleActionReviewOutcome).
THEOREM TypesWhereDecided == SpecRule => TypedWhereDecided
  <1>1. EarnedInv /\ CallsInv /\ [NextRule]_ruleVars =>
          [ (lastId' # lastId /\ hist'[1].src \in {"rule", "llm"} /\ hist'[1].act # NOOP)
              => prompt = "plain" /\ ~kill /\ ~disabled /\ hist'[1].act \notin bad ]_ruleVars
    BY StepTypesHere DEF TypedHere
  <1> QED BY <1>1, LearnedInvariance, PTL DEF SpecRule, TypedWhereDecided
=============================================================================
