----------------------------- MODULE TaskReview -----------------------------
(***************************************************************************)
(* The review of a declared task before it is handed out                   *)
(* (daemon/tasklistreview.go): the hand-out of one agent stages a review,  *)
(* a subprocess judges the list for several seconds while the operator,    *)
(* other agents and the kill switch go on, and the outcome is applied and  *)
(* delivered by the main loop: the reviewer's edits, its choice of task    *)
(* and the reservation in one locked write, or the original task as it     *)
(* was.                                                                    *)
(***************************************************************************)
EXTENDS Naturals, FiniteSets

CONSTANTS ReviewTasks,      \* the items of the list
          MaxReviews,       \* reviews started
          MaxListMoves,     \* edits of the operator, hand-outs to other agents
          MaxKills          \* presses of the kill switch, on or off

VARIABLES item,        \* mark of each item: "pending", "progress", "gone"
          byUs,        \* items in progress by a reservation of this agent's hand-out
          pairing,     \* autoTaskClaim of the agent: at most one task
          review,      \* preDeliveryReviewInFlight of the agent: at most one
          running,     \* review subprocesses, live or cancelled
          outcomes,    \* taskListReviewResults
          handling,    \* the outcome the main loop is at, see HandlingNone
          killSwitch, agentOff,
          handed,      \* reviews whose task reached the pane, with the task
          held,        \* items held back after too many failed sends
          overtaken,   \* reviews a newer situation superseded
          reviews, listMoves, kills

reviewVars == <<item, byUs, pairing, review, running, outcomes, handling, killSwitch,
                agentOff, handed, held, overtaken, reviews, listMoves, kills>>

listVarsR == <<item, byUs, held>>
outsideVars == <<killSwitch, agentOff, listMoves, kills>>

HandlingNone == [step |-> "none", token |-> 0, task |-> {}, verdict |-> "none", send |-> {},
                 drop |-> {}, ours |-> FALSE, killed |-> FALSE]

InitReview ==
  /\ item = [t \in ReviewTasks |-> "pending"] /\ byUs = {} /\ pairing = {}
  /\ review = {} /\ running = {} /\ outcomes = {} /\ handling = HandlingNone
  /\ killSwitch = FALSE /\ agentOff = FALSE
  /\ handed = {} /\ held = {} /\ overtaken = {}
  /\ reviews = 0 /\ listMoves = 0 /\ kills = 0

ReviewIdle == handling.step = "none"

----------------------------------------------------------------------------
\* Everything that goes on while a review runs.

KillFlips ==
  /\ kills < MaxKills /\ kills' = kills + 1
  /\ killSwitch' = ~killSwitch
  /\ handling' = [handling EXCEPT !.killed = @ /\ ~killSwitch]
  /\ UNCHANGED <<listVarsR, pairing, review, running, outcomes, agentOff, handed, overtaken,
                 reviews, listMoves>>

AgentDisabled ==
  /\ ~agentOff /\ agentOff' = TRUE
  /\ UNCHANGED <<listVarsR, pairing, review, running, outcomes, handling, killSwitch, handed,
                 overtaken, reviews, listMoves, kills>>

\* Another agent takes a pending item that is not withheld by a pairing, or the
\* operator deletes one.
ListMoves(t) ==
  /\ listMoves < MaxListMoves /\ listMoves' = listMoves + 1
  /\ \/ item[t] = "pending" /\ t \notin pairing /\ item' = [item EXCEPT ![t] = "progress"]
     \/ item[t] # "gone" /\ item' = [item EXCEPT ![t] = "gone"]
  /\ byUs' = byUs \ {t}
  /\ UNCHANGED <<pairing, review, running, outcomes, handling, killSwitch, agentOff, handed,
                 held, overtaken, reviews, kills>>

----------------------------------------------------------------------------
\* The hand-out and its review.

\* unclaimedPendingTasks: an item an outstanding pairing withholds is not offered.
Offerable(t) == item[t] = "pending" /\ pairing \subseteq {t}

\* The sweep pairs an idle agent with a pending task; a review is staged and
\* spawned.  An event for a paired agent finds the task of the pairing.
StartTaskListReview(t) ==
  /\ ReviewIdle /\ ~killSwitch /\ ~agentOff /\ review = {}
  /\ Offerable(t)
  /\ reviews < MaxReviews /\ reviews' = reviews + 1
  /\ pairing' = {t}
  /\ review' = {reviews'}
  /\ running' = running \cup {[token |-> reviews', task |-> {t}]}
  /\ UNCHANGED <<listVarsR, outcomes, handling, outsideVars, handed, overtaken>>

Deliver(token, t) ==
  [HandlingNone EXCEPT !.step = "deliver", !.token = token, !.task = {t}, !.send = {t}]

\* The review cannot even start: the original task is delivered at once.
ReviewUnstartable(t) ==
  /\ ReviewIdle /\ ~killSwitch /\ ~agentOff /\ review = {}
  /\ Offerable(t)
  /\ reviews < MaxReviews /\ reviews' = reviews + 1
  /\ pairing' = {t}
  /\ handling' = Deliver(reviews', t)
  /\ UNCHANGED <<listVarsR, review, running, outcomes, outsideVars, handed, overtaken>>

\* cancelPreDeliveryReviewExcept: a newer situation owns the pane.
NewerSituation ==
  /\ ReviewIdle /\ review # {}
  /\ review' = {} /\ overtaken' = overtaken \cup review
  /\ UNCHANGED <<listVarsR, pairing, running, outcomes, handling, outsideVars, handed, reviews>>

\* The agent is seen working: its review is cancelled and its pairing is over.
AgentWorks ==
  /\ ReviewIdle
  /\ review' = {} /\ overtaken' = overtaken \cup review
  /\ pairing' = {}
  /\ UNCHANGED <<listVarsR, running, outcomes, handling, outsideVars, handed, reviews>>

Verdicts == {"failed", "silent", "low", "malformed", "unsafe", "send", "noop"}

\* The subprocess ends; a send names its task and may delete another one.
ReviewReturns(r) ==
  /\ running' = running \ {r}
  /\ \E v \in Verdicts, s \in ReviewTasks, drop \in {{}} \cup {{x} : x \in ReviewTasks} :
       /\ v # "send" => s \in r.task /\ drop = {}
       /\ s \notin drop
       /\ outcomes' = outcomes \cup {[token |-> r.token, task |-> r.task, verdict |-> v,
                                      send |-> {s}, drop |-> drop]}
  /\ UNCHANGED <<listVarsR, pairing, review, handling, outsideVars, handed, overtaken, reviews>>

----------------------------------------------------------------------------
\* handleTaskListReviewOutcome.

LiveReviewAny(o) == review # {}

LiveReview(o) == o.token \in review

DropsPairingNever(o) == FALSE

\* A superseded outcome ends the pairing only if it is still the one it was for.
DropsPairing(o) == pairing = o.task

TakeOutcome(o) ==
  /\ ReviewIdle
  /\ outcomes' = outcomes \ {o}
  /\ IF LiveReview(o)
     THEN /\ review' = {}
          /\ handling' = [step |-> "judge", token |-> o.token, task |-> o.task,
                          verdict |-> o.verdict, send |-> o.send, drop |-> o.drop,
                          ours |-> FALSE, killed |-> killSwitch]
          /\ pairing' = pairing
     ELSE /\ pairing' = IF DropsPairing(o) THEN {} ELSE pairing
          /\ UNCHANGED <<review, handling>>
  /\ UNCHANGED <<listVarsR, running, outsideVars, handed, overtaken, reviews>>

\* An unusable review delivers the original, with the list as it is.
Fallback == [handling EXCEPT !.step = "deliver", !.send = handling.task, !.drop = {}]

JudgeOutcome ==
  /\ handling.step = "judge"
  /\ handling' = IF handling.verdict \in {"failed", "silent", "low", "malformed"} THEN Fallback
                 ELSE [handling EXCEPT !.step = "check"]
  /\ UNCHANGED <<listVarsR, pairing, review, running, outcomes, outsideVars, handed, overtaken,
                 reviews>>

\* standDown: nothing is sent, nothing written, the pairing ends.
StandDown == handling' = HandlingNone /\ pairing' = {}

\* The kill switch, the composer of the pane.
CheckOutcome ==
  /\ handling.step = "check"
  /\ \/ StandDown
     \/ ~killSwitch /\ handling' = [handling EXCEPT !.step = "write"] /\ pairing' = pairing
  /\ UNCHANGED <<listVarsR, review, running, outcomes, outsideVars, handed, overtaken, reviews>>

\* ApplyReview: what the reviewer saw still stands, its edits and its choice fit.
Applicable ==
  /\ \A t \in handling.task \cup handling.drop : item[t] # "gone"
  /\ \A t \in handling.send : item[t] = "pending"
  /\ handling.verdict = "send"

Exhausted == \A t \in ReviewTasks : item[t] # "pending"

\* The locked write: kill switch once more, edits, safety gate, reservation.
WriteReview ==
  /\ handling.step = "write"
  /\ \/ /\ killSwitch /\ StandDown /\ UNCHANGED listVarsR
     \/ /\ ~killSwitch /\ Applicable
        /\ item' = [t \in ReviewTasks |-> IF t \in handling.send THEN "progress"
                                          ELSE IF t \in handling.drop THEN "gone" ELSE item[t]]
        /\ byUs' = (byUs \ handling.drop) \cup handling.send
        /\ handling' = [handling EXCEPT !.step = "deliver", !.ours = TRUE]
        /\ UNCHANGED <<pairing, held>>
     \/ /\ ~killSwitch /\ handling.verdict = "noop" /\ Exhausted
        /\ handling' = HandlingNone /\ pairing' = {}
        /\ UNCHANGED listVarsR
     \/ /\ ~killSwitch /\ ~Applicable /\ ~(handling.verdict = "noop" /\ Exhausted)
        /\ handling' = Fallback
        /\ UNCHANGED <<listVarsR, pairing>>
  /\ UNCHANGED <<review, running, outcomes, outsideVars, handed, overtaken, reviews>>

----------------------------------------------------------------------------
\* deliverAutonomous.

\* Release: an item still in progress by this reservation is pending again.
ReleasedItem == [t \in ReviewTasks |-> IF t \in handling.send /\ item[t] = "progress"
                                   THEN "pending" ELSE item[t]]

AbandonKeeping ==
  /\ handling' = HandlingNone /\ pairing' = {}
  /\ UNCHANGED <<item, byUs>>

Abandon ==
  /\ handling' = HandlingNone /\ pairing' = {}
  /\ item' = IF handling.ours THEN ReleasedItem ELSE item
  /\ byUs' = IF handling.ours THEN byUs \ handling.send ELSE byUs

\* The lifecycle barrier refuses without running the delivery.
BarrierRefuses ==
  /\ handling.step = "deliver" /\ agentOff
  /\ Abandon
  /\ UNCHANGED <<held, review, running, outcomes, outsideVars, handed, overtaken, reviews>>

\* A recycled pane, a composer that is not free, an audit row that cannot be
\* written: nothing was sent.
DeliveryRefused ==
  /\ handling.step \in {"deliver", "send"} /\ ~agentOff
  /\ Abandon
  /\ UNCHANGED <<held, review, running, outcomes, outsideVars, handed, overtaken, reviews>>

ReservableAny == TRUE

Reservable == \A t \in handling.send : item[t] = "pending"

\* reserveDeclaredTask, when the review has not reserved the item already.
ReserveTask ==
  /\ handling.step = "deliver" /\ ~agentOff
  /\ \/ handling.ours /\ handling' = [handling EXCEPT !.step = "send"]
        /\ UNCHANGED <<listVarsR, pairing>>
     \/ /\ ~handling.ours /\ Reservable
        /\ item' = [t \in ReviewTasks |-> IF t \in handling.send THEN "progress" ELSE item[t]]
        /\ byUs' = byUs \cup handling.send
        /\ handling' = [handling EXCEPT !.step = "send", !.ours = TRUE]
        /\ UNCHANGED <<held, pairing>>
     \/ /\ ~handling.ours /\ ~Reservable
        /\ handling' = HandlingNone /\ pairing' = {}
        /\ UNCHANGED listVarsR
  /\ UNCHANGED <<review, running, outcomes, outsideVars, handed, overtaken, reviews>>

SendReviewed ==
  /\ handling.step = "send"
  /\ handed' = handed \cup {[token |-> handling.token, task |-> handling.send]}
  /\ handling' = HandlingNone
  /\ UNCHANGED <<listVarsR, pairing, review, running, outcomes, outsideVars, overtaken, reviews>>

\* The send fails: the item is released, or held once it failed too often.
SendFailsReviewed ==
  /\ handling.step = "send"
  /\ \/ Abandon /\ held' = held
     \/ /\ handling' = HandlingNone /\ pairing' = {}
        /\ held' = held \cup handling.send
        /\ UNCHANGED <<item, byUs>>
  /\ UNCHANGED <<review, running, outcomes, outsideVars, handed, overtaken, reviews>>

NextReview ==
  \/ KillFlips \/ AgentDisabled \/ NewerSituation \/ AgentWorks
  \/ \E t \in ReviewTasks : ListMoves(t) \/ StartTaskListReview(t) \/ ReviewUnstartable(t)
  \/ \E r \in running : ReviewReturns(r)
  \/ \E o \in outcomes : TakeOutcome(o)
  \/ JudgeOutcome \/ CheckOutcome \/ WriteReview
  \/ BarrierRefuses \/ DeliveryRefused \/ ReserveTask \/ SendReviewed \/ SendFailsReviewed

SpecReview == InitReview /\ [][NextReview]_reviewVars

----------------------------------------------------------------------------
\* A superseded review never sends: the newer situation owns the pane, whichever
\* order the two outcomes arrive in (handleTaskListReviewOutcome).
OvertakenIsSilent == \A h \in handed : h.token \notin overtaken

\* No item is stranded: what a hand-out reserved was sent, is held for the
\* operator, or is being delivered; every refusal after the reviewer's own
\* reservation gives the item back (deliverAutonomous, reviewRollback).
NoStrandedReservation ==
  \A t \in byUs :
    \/ \E h \in handed : t \in h.task
    \/ t \in held
    \/ handling.ours /\ t \in handling.send

\* What is sent was free when it was reserved: a task another agent took, or the
\* operator removed, while the review ran is not handed out a second time.
HandedWasFree ==
  [][\A t \in ReviewTasks : t \in byUs' \ byUs => item[t] = "pending"]_reviewVars

\* A pairing does not outlive its attempt: it would keep the agent out of every
\* sweep and withhold a pending task from the others.
PairingEnds ==
  \A t \in pairing :
    \/ \E r \in running \cup outcomes : t \in r.task
    \/ ~ReviewIdle
    \/ \E h \in handed : h.token = reviews

\* The kill switch stops a review that is already in flight: an outcome that
\* arrives at a paused daemon sends nothing.
KilledReviewSendsNothing ==
  [][handed' # handed => ~handling.killed]_reviewVars

\* What a pre-delivery review promises (tasklistreview.go): a hand-out that is still
\* current, of an item that was free, or an item and an agent that are free again.
ReviewLeavesNoTrace ==
  [](OvertakenIsSilent /\ NoStrandedReservation /\ PairingEnds) /\ HandedWasFree
=============================================================================
