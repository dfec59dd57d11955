-------------------------- MODULE EscalationProofs --------------------------
(***************************************************************************)
(* Theorems about EscalationDelivery, for every set of agents, rows and    *)
(* replies, every selection of outside events and failing writes, and      *)
(* every bound on faults and crashes.                                      *)
(*                                                                         *)
(* The properties of a reply are not inductive: that it is typed once      *)
(* rests on the side-effect mark (MarkOK), the mark on who holds the       *)
(* action (HandsOK), and the order of delivery and learning (LearnOK) on   *)
(* what the loop's batches contain (QueueOK).  IInv joins them; each       *)
(* action preserves it.  The second part is about the contract the module  *)
(* implements, the third about the answers nobody was asked for.           *)
(***************************************************************************)
EXTENDS EscalationDelivery, TLAPS

\* What the loop and the workers hold: an automatic delivery has a row and, on the
\* loop, belongs to the sweep; a queued delivery belongs to the loop's action phase,
\* its action is running and it has left the batch.
HandsOK ==
  /\ \A w \in Workers : wpc[w] \in AutoPcs => wrow[w] \in Rows
  /\ \A a \in Agents : wpc[a] \notin ReplyPcs
  /\ wpc[Loop] \in AutoPcs => phase = "sweep"
  /\ wpc[Loop] \in ReplyPcs =>
       phase = "actions" /\ job \in Replies /\ actSt[job] = "running"
  /\ phase = "applied" => job \in todo
  /\ ~up => phase = "down"

\* Every queued id names a stored correction, and every stored correction a row.
QueueOK ==
  /\ \A c \in Replies : corrSt[c] # "absent" => corrRow[c] \in Rows
  /\ \A c \in Replies : actSt[c] # "absent" => corrSt[c] # "absent"
  /\ \A c \in todo : corrSt[c] # "absent"
  /\ phase \in {"corrections", "applied"} =>
       \A c \in todo : corrSt[c] = "unprocessed" /\ actSt[c] \notin {"pending", "running"}

\* The side-effect mark separates what may be replayed from what may not: a marked
\* action is never pending again, a typed reply is marked, and before the mark
\* nothing was typed.
MarkOK ==
  /\ \A c \in Replies : typedReply[c] \in {0, 1}
  /\ \A c \in Replies : typedReply[c] # 0 => c \in actMark
  /\ \A c \in actMark : actSt[c] \notin {"absent", "pending"}
  /\ wpc[Loop] \in {"claimed", "screened", "withdraw", "retry"} => job \notin actMark
  /\ wpc[Loop] = "marked" => job \in actMark /\ typedReply[job] = 0

\* Learning waits for the delivery: nothing is recorded of a correction while its
\* action is queued or running, and withdrawal comes before both.
LearnOK ==
  /\ \A c \in Replies : learned[c] # 0 =>
       corrSt[c] \in {"unprocessed", "processed"} /\ actSt[c] \notin {"pending", "running"}
  /\ \A c \in Replies : corrSt[c] = "processed" => actSt[c] \notin {"pending", "running"}
  /\ \A c \in Replies : corrSt[c] = "withdrawn" =>
       actSt[c] = "failed" /\ typedReply[c] = 0 /\ learned[c] = 0
  /\ \A c \in corrSent : corrSt[c] = "processed" => c \in armed

IInv == TypeOK /\ HandsOK /\ QueueOK /\ MarkOK /\ LearnOK

USE RowsAssumption, RepliesAssumption, AgentsAssumption, WorkersAssumption,
    BoundsAssumption
USE DEF store, corrs, acts, controls, loopVars, sweepVars, workers, books, world, history,
        bounds, Unit

-----------------------------------------------------------------------------
\* The daemon starts with empty queues and nothing in hand.
LEMMA InitOK == Init => IInv
  <1> SUFFICES ASSUME Init PROVE IInv OBVIOUS
  <1>1. corrSent \subseteq Replies /\ actMark \subseteq Replies /\ actOld \subseteq Replies BY DEF Init
  <1>2. retryQ \subseteq Rows /\ disabled \subseteq Agents BY DEF Init
  <1>3. StoreTypeOK BY <1>1, <1>2 DEF StoreTypeOK, Init, Statuses, CorrStates, ActStates
  <1>4. todo \subseteq Replies /\ rowsTodo \subseteq Rows /\ handled \subseteq Agents /\ eligible \subseteq Rows
    BY DEF Init
  <1>5. LoopTypeOK BY <1>4 DEF LoopTypeOK, Init, Phases, Passes
  <1>6. WorkerTypeOK BY DEF WorkerTypeOK, Init
  <1>7. WorldTypeOK BY DEF WorldTypeOK, Init
  <1>8. HandsOK /\ QueueOK BY DEF Init, HandsOK, QueueOK, Workers, AutoPcs, ReplyPcs
  <1>9. MarkOK /\ LearnOK BY DEF Init, MarkOK, LearnOK, Workers
  <1> QED BY <1>3, <1>5, <1>6, <1>7, <1>8, <1>9 DEF IInv, TypeOK

-----------------------------------------------------------------------------
(* The agents and the front ends.                                          *)

\* An agent shows a question: only its pane changes.
LEMMA KeepsAsk ==
  ASSUME IInv, NEW r \in Rows, Ask(r)
  PROVE  IInv'
  <1>1. TypeOK'
    BY DEF IInv, TypeOK, StoreTypeOK, LoopTypeOK, WorkerTypeOK, WorldTypeOK, HandsOK,
       QueueOK, Ask, Statuses, CorrStates, ActStates, Phases, Passes, Workers, AutoPcs,
       ReplyPcs
  <1>2. HandsOK' /\ QueueOK'
    BY DEF IInv, TypeOK, StoreTypeOK, LoopTypeOK, WorkerTypeOK, HandsOK, QueueOK, Ask,
       Workers, AutoPcs, ReplyPcs
  <1>3. MarkOK' /\ LearnOK'
    BY DEF IInv, TypeOK, StoreTypeOK, LoopTypeOK, WorkerTypeOK, WorldTypeOK, HandsOK,
       QueueOK, MarkOK, LearnOK, Ask, Workers, ReplyPcs
  <1> QED BY <1>1, <1>2, <1>3 DEF IInv, TypeOK

\* An agent resumes, stops or repaints.
LEMMA KeepsAgentMoves ==
  ASSUME IInv, NEW a \in Agents, AgentMoves(a)
  PROVE  IInv'
  <1>1. TypeOK'
    BY DEF IInv, TypeOK, StoreTypeOK, LoopTypeOK, WorkerTypeOK, WorldTypeOK, HandsOK,
       QueueOK, AgentMoves, Statuses, CorrStates, ActStates, Phases, Passes, Workers,
       AutoPcs, ReplyPcs
  <1>2. HandsOK' /\ QueueOK'
    BY DEF IInv, TypeOK, StoreTypeOK, LoopTypeOK, WorkerTypeOK, HandsOK, QueueOK,
       AgentMoves, Workers, AutoPcs, ReplyPcs
  <1>3. MarkOK' /\ LearnOK'
    BY DEF IInv, TypeOK, StoreTypeOK, LoopTypeOK, WorkerTypeOK, WorldTypeOK, HandsOK,
       QueueOK, MarkOK, LearnOK, AgentMoves, Workers, ReplyPcs
  <1> QED BY <1>1, <1>2, <1>3 DEF IInv, TypeOK

\* A confirmed reply enters both queues with a fresh id.
LEMMA KeepsConfirmAndSend ==
  ASSUME IInv, NEW c \in Replies, NEW r \in Rows, ConfirmAndSend(c, r)
  PROVE  IInv'
  <1>1. TypeOK'
    BY DEF IInv, TypeOK, StoreTypeOK, LoopTypeOK, WorkerTypeOK, WorldTypeOK, HandsOK,
       QueueOK, ConfirmAndSend, Statuses, CorrStates, ActStates, Phases, Passes,
       Workers, AutoPcs, ReplyPcs
  <1>2. HandsOK' /\ QueueOK'
    BY DEF IInv, TypeOK, StoreTypeOK, LoopTypeOK, WorkerTypeOK, HandsOK, QueueOK,
       ConfirmAndSend, Workers, AutoPcs, ReplyPcs
  <1>3. MarkOK' /\ LearnOK'
    BY DEF IInv, TypeOK, StoreTypeOK, LoopTypeOK, WorkerTypeOK, WorldTypeOK, HandsOK,
       QueueOK, MarkOK, LearnOK, ConfirmAndSend, Workers, ReplyPcs
  <1> QED BY <1>1, <1>2, <1>3 DEF IInv, TypeOK

\* A correction without a delivery.
LEMMA KeepsConfirmOnly ==
  ASSUME IInv, NEW c \in Replies, NEW r \in Rows, ConfirmOnly(c, r)
  PROVE  IInv'
  <1>1. TypeOK'
    BY DEF IInv, TypeOK, StoreTypeOK, LoopTypeOK, WorkerTypeOK, WorldTypeOK, HandsOK,
       QueueOK, ConfirmOnly, Statuses, CorrStates, ActStates, Phases, Passes, Workers,
       AutoPcs, ReplyPcs
  <1>2. HandsOK' /\ QueueOK'
    BY DEF IInv, TypeOK, StoreTypeOK, LoopTypeOK, WorkerTypeOK, HandsOK, QueueOK,
       ConfirmOnly, Workers, AutoPcs, ReplyPcs
  <1>3. MarkOK' /\ LearnOK'
    BY DEF IInv, TypeOK, StoreTypeOK, LoopTypeOK, WorkerTypeOK, WorldTypeOK, HandsOK,
       QueueOK, MarkOK, LearnOK, ConfirmOnly, Workers, ReplyPcs
  <1> QED BY <1>1, <1>2, <1>3 DEF IInv, TypeOK

\* The operator dismisses a row.
LEMMA KeepsDismissEscalation ==
  ASSUME IInv, NEW r \in Rows, DismissEscalation(r)
  PROVE  IInv'
  <1>1. TypeOK'
    BY DEF IInv, TypeOK, StoreTypeOK, LoopTypeOK, WorkerTypeOK, WorldTypeOK, HandsOK,
       QueueOK, DismissEscalation, SetStatus, Statuses, CorrStates, ActStates, Phases,
       Passes, Workers, AutoPcs, ReplyPcs
  <1>2. HandsOK' /\ QueueOK'
    BY DEF IInv, TypeOK, StoreTypeOK, LoopTypeOK, WorkerTypeOK, HandsOK, QueueOK,
       DismissEscalation, SetStatus, Workers, AutoPcs, ReplyPcs
  <1>3. MarkOK' /\ LearnOK'
    BY DEF IInv, TypeOK, StoreTypeOK, LoopTypeOK, WorkerTypeOK, WorldTypeOK, HandsOK,
       QueueOK, MarkOK, LearnOK, DismissEscalation, SetStatus, Workers, ReplyPcs
  <1> QED BY <1>1, <1>2, <1>3 DEF IInv, TypeOK

\* The front-end prune.
LEMMA KeepsPruneEscalations ==
  ASSUME IInv, PruneEscalations
  PROVE  IInv'
  <1>1. TypeOK'
    BY DEF IInv, TypeOK, StoreTypeOK, LoopTypeOK, WorkerTypeOK, WorldTypeOK, HandsOK,
       QueueOK, PruneEscalations, Statuses, CorrStates, ActStates, Phases, Passes,
       Workers, AutoPcs, ReplyPcs
  <1>2. HandsOK' /\ QueueOK'
    BY DEF IInv, TypeOK, StoreTypeOK, LoopTypeOK, WorkerTypeOK, HandsOK, QueueOK,
       PruneEscalations, Workers, AutoPcs, ReplyPcs
  <1>3. MarkOK' /\ LearnOK'
    BY DEF IInv, TypeOK, StoreTypeOK, LoopTypeOK, WorkerTypeOK, WorldTypeOK, HandsOK,
       QueueOK, MarkOK, LearnOK, PruneEscalations, Workers, ReplyPcs
  <1> QED BY <1>1, <1>2, <1>3 DEF IInv, TypeOK

\* A retry is requested.
LEMMA KeepsRetryLLM ==
  ASSUME IInv, NEW r \in Rows, RetryLLM(r)
  PROVE  IInv'
  <1>1. TypeOK'
    BY DEF IInv, TypeOK, StoreTypeOK, LoopTypeOK, WorkerTypeOK, WorldTypeOK, HandsOK,
       QueueOK, RetryLLM, Statuses, CorrStates, ActStates, Phases, Passes, Workers,
       AutoPcs, ReplyPcs
  <1>2. HandsOK' /\ QueueOK'
    BY DEF IInv, TypeOK, StoreTypeOK, LoopTypeOK, WorkerTypeOK, HandsOK, QueueOK,
       RetryLLM, Workers, AutoPcs, ReplyPcs
  <1>3. MarkOK' /\ LearnOK'
    BY DEF IInv, TypeOK, StoreTypeOK, LoopTypeOK, WorkerTypeOK, WorldTypeOK, HandsOK,
       QueueOK, MarkOK, LearnOK, RetryLLM, Workers, ReplyPcs
  <1> QED BY <1>1, <1>2, <1>3 DEF IInv, TypeOK

\* The kill switch.
LEMMA KeepsPauseOrResume ==
  ASSUME IInv, PauseOrResume
  PROVE  IInv'
  <1>1. TypeOK'
    BY DEF IInv, TypeOK, StoreTypeOK, LoopTypeOK, WorkerTypeOK, WorldTypeOK, HandsOK,
       QueueOK, PauseOrResume, Statuses, CorrStates, ActStates, Phases, Passes, Workers,
       AutoPcs, ReplyPcs
  <1>2. HandsOK' /\ QueueOK'
    BY DEF IInv, TypeOK, StoreTypeOK, LoopTypeOK, WorkerTypeOK, HandsOK, QueueOK,
       PauseOrResume, Workers, AutoPcs, ReplyPcs
  <1>3. MarkOK' /\ LearnOK'
    BY DEF IInv, TypeOK, StoreTypeOK, LoopTypeOK, WorkerTypeOK, WorldTypeOK, HandsOK,
       QueueOK, MarkOK, LearnOK, PauseOrResume, Workers, ReplyPcs
  <1> QED BY <1>1, <1>2, <1>3 DEF IInv, TypeOK

\* An agent is switched on or off.
LEMMA KeepsSetAgentEnabled ==
  ASSUME IInv, NEW a \in Agents, SetAgentEnabled(a)
  PROVE  IInv'
  <1>1. TypeOK'
    BY DEF IInv, TypeOK, StoreTypeOK, LoopTypeOK, WorkerTypeOK, WorldTypeOK, HandsOK,
       QueueOK, SetAgentEnabled, Statuses, CorrStates, ActStates, Phases, Passes,
       Workers, AutoPcs, ReplyPcs
  <1>2. HandsOK' /\ QueueOK'
    BY DEF IInv, TypeOK, StoreTypeOK, LoopTypeOK, WorkerTypeOK, HandsOK, QueueOK,
       SetAgentEnabled, Workers, AutoPcs, ReplyPcs
  <1>3. MarkOK' /\ LearnOK'
    BY DEF IInv, TypeOK, StoreTypeOK, LoopTypeOK, WorkerTypeOK, WorldTypeOK, HandsOK,
       QueueOK, MarkOK, LearnOK, SetAgentEnabled, Workers, ReplyPcs
  <1> QED BY <1>1, <1>2, <1>3 DEF IInv, TypeOK

\* FSP is switched.
LEMMA KeepsSetFullSelfPrompting ==
  ASSUME IInv, SetFullSelfPrompting
  PROVE  IInv'
  <1>1. TypeOK'
    BY DEF IInv, TypeOK, StoreTypeOK, LoopTypeOK, WorkerTypeOK, WorldTypeOK, HandsOK,
       QueueOK, SetFullSelfPrompting, Statuses, CorrStates, ActStates, Phases, Passes,
       Workers, AutoPcs, ReplyPcs
  <1>2. HandsOK' /\ QueueOK'
    BY DEF IInv, TypeOK, StoreTypeOK, LoopTypeOK, WorkerTypeOK, HandsOK, QueueOK,
       SetFullSelfPrompting, Workers, AutoPcs, ReplyPcs
  <1>3. MarkOK' /\ LearnOK'
    BY DEF IInv, TypeOK, StoreTypeOK, LoopTypeOK, WorkerTypeOK, WorldTypeOK, HandsOK,
       QueueOK, MarkOK, LearnOK, SetFullSelfPrompting, Workers, ReplyPcs
  <1> QED BY <1>1, <1>2, <1>3 DEF IInv, TypeOK

\* A queued delivery grows stale.
LEMMA KeepsActionAges ==
  ASSUME IInv, NEW c \in Replies, ActionAges(c)
  PROVE  IInv'
  <1>1. TypeOK'
    BY DEF IInv, TypeOK, StoreTypeOK, LoopTypeOK, WorkerTypeOK, WorldTypeOK, HandsOK,
       QueueOK, ActionAges, Statuses, CorrStates, ActStates, Phases, Passes, Workers,
       AutoPcs, ReplyPcs
  <1>2. HandsOK' /\ QueueOK'
    BY DEF IInv, TypeOK, StoreTypeOK, LoopTypeOK, WorkerTypeOK, HandsOK, QueueOK,
       ActionAges, Workers, AutoPcs, ReplyPcs
  <1>3. MarkOK' /\ LearnOK'
    BY DEF IInv, TypeOK, StoreTypeOK, LoopTypeOK, WorkerTypeOK, WorldTypeOK, HandsOK,
       QueueOK, MarkOK, LearnOK, ActionAges, Workers, ReplyPcs
  <1> QED BY <1>1, <1>2, <1>3 DEF IInv, TypeOK

-----------------------------------------------------------------------------
(* The select loop between passes.                                         *)

\* A row is raised, perhaps with a goroutine.
LEMMA KeepsRaise ==
  ASSUME IInv, NEW r \in Rows, Raise(r)
  PROVE  IInv'
  <1>1. TypeOK'
    BY DEF IInv, TypeOK, StoreTypeOK, LoopTypeOK, WorkerTypeOK, WorldTypeOK, HandsOK,
       QueueOK, Raise, LoopFree, SetStatus, paneBusy, Statuses, CorrStates, ActStates,
       Phases, Passes, Workers, AutoPcs, ReplyPcs
  <1>2. HandsOK' /\ QueueOK'
    BY DEF IInv, TypeOK, StoreTypeOK, LoopTypeOK, WorkerTypeOK, HandsOK, QueueOK, Raise,
       LoopFree, SetStatus, paneBusy, Workers, AutoPcs, ReplyPcs
  <1>3. MarkOK' /\ LearnOK'
    BY DEF IInv, TypeOK, StoreTypeOK, LoopTypeOK, WorkerTypeOK, WorldTypeOK, HandsOK,
       QueueOK, MarkOK, LearnOK, Raise, LoopFree, SetStatus, paneBusy, Workers, ReplyPcs
  <1> QED BY <1>1, <1>2, <1>3 DEF IInv, TypeOK

\* A pass loads the pending actions.
LEMMA KeepsBeginPass ==
  ASSUME IInv, NEW kind \in {"nudge", "tick"}, BeginPass(kind)
  PROVE  IInv'
  <1>1. TypeOK'
    BY DEF IInv, TypeOK, StoreTypeOK, LoopTypeOK, WorkerTypeOK, WorldTypeOK, HandsOK,
       QueueOK, BeginPass, LoopFree, PendingAgentActions, Statuses, CorrStates,
       ActStates, Phases, Passes, Workers, AutoPcs, ReplyPcs
  <1>2. HandsOK' /\ QueueOK'
    BY DEF IInv, TypeOK, StoreTypeOK, LoopTypeOK, WorkerTypeOK, HandsOK, QueueOK,
       BeginPass, LoopFree, PendingAgentActions, Workers, AutoPcs, ReplyPcs
  <1>3. MarkOK' /\ LearnOK'
    BY DEF IInv, TypeOK, StoreTypeOK, LoopTypeOK, WorkerTypeOK, WorldTypeOK, HandsOK,
       QueueOK, MarkOK, LearnOK, BeginPass, LoopFree, PendingAgentActions, Workers,
       ReplyPcs
  <1> QED BY <1>1, <1>2, <1>3 DEF IInv, TypeOK

\* The action phase ends and the corrections are loaded.
LEMMA KeepsActionsDrained ==
  ASSUME IInv, ActionsDrained
  PROVE  IInv'
  <1>1. TypeOK'
    <2>1. todo' \subseteq Replies /\ rowsTodo' \subseteq Rows
      BY DEF ActionsDrained, EndPhase, UnprocessedCorrections
    <2>2. phase' \in Phases /\ pass' \in Passes
      BY DEF ActionsDrained, EndPhase, IInv, TypeOK, LoopTypeOK, Phases, Passes
    <2> QED
    BY <2>1, <2>2 DEF ActionsDrained, EndPhase, IInv, TypeOK, StoreTypeOK, LoopTypeOK, WorkerTypeOK, WorldTypeOK
  <1>2. HandsOK' /\ QueueOK'
    BY DEF ActionsDrained, EndPhase, UnprocessedCorrections, IInv, HandsOK, QueueOK,
       TypeOK, LoopTypeOK, AutoPcs, ReplyPcs
  <1>3. MarkOK' /\ LearnOK'
    BY DEF ActionsDrained, EndPhase, IInv, MarkOK, LearnOK
  <1> QED BY <1>1, <1>2, <1>3 DEF IInv, TypeOK

\* The corrections phase ends.
LEMMA KeepsCorrectionsDrained ==
  ASSUME IInv, CorrectionsDrained
  PROVE  IInv'
  <1>1. TypeOK'
    BY DEF IInv, TypeOK, StoreTypeOK, LoopTypeOK, WorkerTypeOK, WorldTypeOK, HandsOK,
       QueueOK, CorrectionsDrained, EndPhase, Statuses, CorrStates, ActStates, Phases,
       Passes, Workers, AutoPcs, ReplyPcs
  <1>2. HandsOK' /\ QueueOK'
    BY DEF IInv, TypeOK, StoreTypeOK, LoopTypeOK, WorkerTypeOK, HandsOK, QueueOK,
       CorrectionsDrained, EndPhase, Workers, AutoPcs, ReplyPcs
  <1>3. MarkOK' /\ LearnOK'
    BY DEF IInv, TypeOK, StoreTypeOK, LoopTypeOK, WorkerTypeOK, WorldTypeOK, HandsOK,
       QueueOK, MarkOK, LearnOK, CorrectionsDrained, EndPhase, Workers, ReplyPcs
  <1> QED BY <1>1, <1>2, <1>3 DEF IInv, TypeOK

\* The retries phase ends.
LEMMA KeepsRetriesDrained ==
  ASSUME IInv, RetriesDrained
  PROVE  IInv'
  <1>1. TypeOK'
    BY DEF IInv, TypeOK, StoreTypeOK, LoopTypeOK, WorkerTypeOK, WorldTypeOK, HandsOK,
       QueueOK, RetriesDrained, EndPhase, Statuses, CorrStates, ActStates, Phases,
       Passes, Workers, AutoPcs, ReplyPcs
  <1>2. HandsOK' /\ QueueOK'
    BY DEF IInv, TypeOK, StoreTypeOK, LoopTypeOK, WorkerTypeOK, HandsOK, QueueOK,
       RetriesDrained, EndPhase, Workers, AutoPcs, ReplyPcs
  <1>3. MarkOK' /\ LearnOK'
    BY DEF IInv, TypeOK, StoreTypeOK, LoopTypeOK, WorkerTypeOK, WorldTypeOK, HandsOK,
       QueueOK, MarkOK, LearnOK, RetriesDrained, EndPhase, Workers, ReplyPcs
  <1> QED BY <1>1, <1>2, <1>3 DEF IInv, TypeOK

-----------------------------------------------------------------------------
(* Queued deliveries.                                                      *)

\* A pending action is claimed: pending actions are unmarked.
LEMMA KeepsActClaim ==
  ASSUME IInv, ActClaim
  PROVE  IInv'
  <1>1. TypeOK'
    BY DEF IInv, TypeOK, StoreTypeOK, LoopTypeOK, WorkerTypeOK, WorldTypeOK, HandsOK,
       QueueOK, ActClaim, Oldest, Succeeds, WorkerTo, Fails, Statuses, CorrStates,
       ActStates, Phases, Passes, Workers, AutoPcs, ReplyPcs
  <1>2. HandsOK' /\ QueueOK'
    BY DEF IInv, TypeOK, StoreTypeOK, LoopTypeOK, WorkerTypeOK, HandsOK, QueueOK,
       ActClaim, Oldest, Succeeds, WorkerTo, Fails, Workers, AutoPcs, ReplyPcs
  <1>3. MarkOK' /\ LearnOK'
    BY DEF IInv, TypeOK, StoreTypeOK, LoopTypeOK, WorkerTypeOK, WorldTypeOK, HandsOK,
       QueueOK, MarkOK, LearnOK, ActClaim, Oldest, Succeeds, WorkerTo, Fails, Workers,
       ReplyPcs
  <1> QED BY <1>1, <1>2, <1>3 DEF IInv, TypeOK

\* The checks before the mark.
LEMMA KeepsActScreen ==
  ASSUME IInv, ActScreen
  PROVE  IInv'
  <1>1. TypeOK'
    BY DEF IInv, TypeOK, StoreTypeOK, LoopTypeOK, WorkerTypeOK, WorldTypeOK, HandsOK,
       QueueOK, ActScreen, paneBusy, WorkerTo, Statuses, CorrStates, ActStates, Phases,
       Passes, Workers, AutoPcs, ReplyPcs
  <1>2. HandsOK' /\ QueueOK'
    BY DEF IInv, TypeOK, StoreTypeOK, LoopTypeOK, WorkerTypeOK, HandsOK, QueueOK,
       ActScreen, paneBusy, WorkerTo, Workers, AutoPcs, ReplyPcs
  <1>3. MarkOK' /\ LearnOK'
    BY DEF IInv, TypeOK, StoreTypeOK, LoopTypeOK, WorkerTypeOK, WorldTypeOK, HandsOK,
       QueueOK, MarkOK, LearnOK, ActScreen, paneBusy, WorkerTo, Workers, ReplyPcs
  <1> QED BY <1>1, <1>2, <1>3 DEF IInv, TypeOK

\* The mark is set on an action of which nothing was typed.
LEMMA KeepsActMark ==
  ASSUME IInv, ActMark
  PROVE  IInv'
  <1>1. StoreTypeOK' /\ MarkOK'
    <2>1. job \in Replies /\ actSt[job] = "running" /\ wpc[Loop] = "screened"
      BY DEF IInv, HandsOK, ActMark, ReplyPcs
    <2>2. actMark' = actMark \/ actMark' = actMark \cup {job}
      BY DEF ActMark
    <2>3. StoreTypeOK'
      BY <2>1, <2>2 DEF IInv, TypeOK, StoreTypeOK, ActMark
    <2>4. typedReply[job] = 0
      BY <2>1 DEF IInv, MarkOK
    <2>5. /\ wpc'[Loop] \in {"marked", "retry"}
          /\ wpc'[Loop] = "retry" => actMark' = actMark
          /\ wpc'[Loop] = "marked" => job \in actMark'
      BY DEF ActMark, WorkerTo, IInv, TypeOK, WorkerTypeOK, Workers
    <2>6. UNCHANGED <<typedReply, actSt, job>>
      BY DEF ActMark
    <2>7. job \notin actMark
      BY <2>1 DEF IInv, MarkOK
    <2> QED BY <2>1, <2>2, <2>3, <2>4, <2>5, <2>6, <2>7 DEF IInv, MarkOK
  <1>2. HandsOK' /\ QueueOK'
    BY DEF IInv, TypeOK, StoreTypeOK, LoopTypeOK, WorkerTypeOK, HandsOK, QueueOK,
       ActMark, Succeeds, WorkerTo, Fails, Workers, AutoPcs, ReplyPcs
  <1>3. LoopTypeOK'
    BY DEF IInv, TypeOK, StoreTypeOK, LoopTypeOK, WorkerTypeOK, WorldTypeOK, HandsOK,
       QueueOK, ActMark, Succeeds, WorkerTo, Fails, Phases, Passes
  <1>4. WorkerTypeOK'
    BY DEF IInv, TypeOK, StoreTypeOK, LoopTypeOK, WorkerTypeOK, WorldTypeOK, HandsOK,
       QueueOK, ActMark, Succeeds, WorkerTo, Fails, Workers, AutoPcs, ReplyPcs
  <1>5. WorldTypeOK'
    BY DEF IInv, TypeOK, StoreTypeOK, LoopTypeOK, WorkerTypeOK, WorldTypeOK, HandsOK,
       QueueOK, ActMark, Succeeds, WorkerTo, Fails, Workers
  <1>6. LearnOK'
    BY DEF IInv, TypeOK, StoreTypeOK, LoopTypeOK, WorkerTypeOK, WorldTypeOK, HandsOK,
       QueueOK, MarkOK, LearnOK, ActMark, Succeeds, WorkerTo, Fails, Workers, ReplyPcs
  <1> QED BY <1>1, <1>2, <1>3, <1>4, <1>5, <1>6 DEF IInv, TypeOK

\* The reply is typed, marked and for the first time.
LEMMA KeepsActType ==
  ASSUME IInv, ActType
  PROVE  IInv'
  <1>1. WorldTypeOK' /\ MarkOK'
    <2>1. job \in Replies /\ actSt[job] = "running" /\ wpc[Loop] = "marked"
      BY DEF IInv, HandsOK, ActType, ReplyPcs
    <2>2. \/ UNCHANGED typedReply
          \/ typedReply' = [typedReply EXCEPT ![job] = @ + 1]
      BY DEF ActType
    <2>3. moved' = moved \/ moved' = moved \cup {job}
      BY DEF ActType
    <2>4. screen' \in [Agents -> Rows \cup {0}] /\ parked' \subseteq Agents
      BY <2>1 DEF ActType, PaneTakes, IInv, TypeOK, WorldTypeOK
    <2>a. typedReply' \in [Replies -> Nat]
      BY <2>1, <2>2 DEF IInv, TypeOK, WorldTypeOK
    <2>b. moved' \subseteq Replies
      BY <2>1, <2>3 DEF IInv, TypeOK, WorldTypeOK
    <2>5. WorldTypeOK'
      BY <2>a, <2>b, <2>4 DEF ActType, IInv, TypeOK, WorldTypeOK
    <2>6. job \in actMark /\ typedReply[job] = 0
      BY <2>1 DEF IInv, MarkOK
    <2>7. wpc'[Loop] \in {"typed", "fail"}
      BY DEF ActType, WorkerTo, IInv, TypeOK, WorkerTypeOK, Workers
    <2>8. UNCHANGED <<actMark, actSt, job>>
      BY DEF ActType
    <2> QED BY <2>1, <2>2, <2>5, <2>6, <2>7, <2>8 DEF IInv, MarkOK, TypeOK, WorldTypeOK
  <1>2. HandsOK' /\ QueueOK'
    BY DEF IInv, TypeOK, StoreTypeOK, LoopTypeOK, WorkerTypeOK, HandsOK, QueueOK,
       ActType, PaneTakes, WorkerTo, Workers, AutoPcs, ReplyPcs
  <1>3. StoreTypeOK'
    BY DEF IInv, TypeOK, StoreTypeOK, LoopTypeOK, WorkerTypeOK, WorldTypeOK, HandsOK,
       QueueOK, ActType, PaneTakes, WorkerTo, Statuses, CorrStates, ActStates
  <1>4. LoopTypeOK'
    BY DEF IInv, TypeOK, StoreTypeOK, LoopTypeOK, WorkerTypeOK, WorldTypeOK, HandsOK,
       QueueOK, ActType, PaneTakes, WorkerTo, Phases, Passes
  <1>5. WorkerTypeOK'
    BY DEF IInv, TypeOK, StoreTypeOK, LoopTypeOK, WorkerTypeOK, WorldTypeOK, HandsOK,
       QueueOK, ActType, PaneTakes, WorkerTo, Workers, AutoPcs, ReplyPcs
  <1>6. LearnOK'
    BY DEF IInv, TypeOK, StoreTypeOK, LoopTypeOK, WorkerTypeOK, WorldTypeOK, HandsOK,
       QueueOK, MarkOK, LearnOK, ActType, PaneTakes, WorkerTo, Workers, ReplyPcs
  <1> QED BY <1>1, <1>2, <1>3, <1>4, <1>5, <1>6 DEF IInv, TypeOK

\* The sent flag lands before the correction can be processed.
LEMMA KeepsActSent ==
  ASSUME IInv, ActSent
  PROVE  IInv'
  <1>1. StoreTypeOK'
    <2>1. job \in Replies
      BY DEF IInv, HandsOK, ActSent, ReplyPcs
    <2>2. corrSent' = corrSent \/ corrSent' = corrSent \cup {job}
      BY DEF ActSent
    <2> QED BY <2>1, <2>2 DEF IInv, TypeOK, StoreTypeOK, ActSent
  <1>2. HandsOK' /\ QueueOK'
    BY DEF IInv, TypeOK, StoreTypeOK, LoopTypeOK, WorkerTypeOK, HandsOK, QueueOK,
       ActSent, Succeeds, Fails, WorkerTo, Workers, AutoPcs, ReplyPcs
  <1>3. MarkOK' /\ LearnOK'
    BY DEF IInv, TypeOK, StoreTypeOK, LoopTypeOK, WorkerTypeOK, WorldTypeOK, HandsOK,
       QueueOK, MarkOK, LearnOK, ActSent, Succeeds, Fails, WorkerTo, Workers, ReplyPcs
  <1>4. LoopTypeOK'
    BY DEF IInv, TypeOK, StoreTypeOK, LoopTypeOK, WorkerTypeOK, WorldTypeOK, HandsOK,
       QueueOK, ActSent, Succeeds, Fails, WorkerTo, Phases, Passes
  <1>5. WorkerTypeOK'
    BY DEF IInv, TypeOK, StoreTypeOK, LoopTypeOK, WorkerTypeOK, WorldTypeOK, HandsOK,
       QueueOK, ActSent, Succeeds, Fails, WorkerTo, Workers, AutoPcs, ReplyPcs
  <1>6. WorldTypeOK'
    BY DEF IInv, TypeOK, StoreTypeOK, LoopTypeOK, WorkerTypeOK, WorldTypeOK, HandsOK,
       QueueOK, ActSent, Succeeds, Fails, WorkerTo, Workers
  <1> QED BY <1>1, <1>2, <1>3, <1>4, <1>5, <1>6 DEF IInv, TypeOK

\* Only an unmarked action is released back to pending.
LEMMA KeepsActFinish ==
  ASSUME IInv, ActFinish
  PROVE  IInv'
  <1>1. TypeOK'
    <2>1. job \in Replies
      BY DEF IInv, HandsOK, ActFinish, ReplyPcs
    <2>2. PICK end \in {"done", "pending", "failed"} :
             actSt' = actSt \/ actSt' = [actSt EXCEPT ![job] = end]
      BY DEF ActFinish
    <2>3. corrSt' = corrSt \/ corrSt' = [corrSt EXCEPT ![job] = "withdrawn"]
      BY DEF ActFinish
    <2>4. StoreTypeOK'
      BY <2>1, <2>2, <2>3 DEF ActFinish, IInv, TypeOK, StoreTypeOK, CorrStates, ActStates
    <2>5. faults' \in Nat
      BY DEF ActFinish, Succeeds, Fails, IInv, TypeOK, WorldTypeOK
    <2>6. wpc' \in [Workers -> {"idle"} \cup AutoPcs \cup ReplyPcs]
      BY DEF ActFinish, WorkerTo, IInv, TypeOK, WorkerTypeOK
    <2>7. LoopTypeOK'
      BY DEF ActFinish, IInv, TypeOK, LoopTypeOK
    <2>8. WorkerTypeOK'
      BY <2>6 DEF ActFinish, WorkerTo, IInv, TypeOK, WorkerTypeOK
    <2>9. WorldTypeOK'
      BY <2>5 DEF ActFinish, IInv, TypeOK, WorldTypeOK
    <2> QED BY <2>4, <2>7, <2>8, <2>9 DEF TypeOK
  <1>2. HandsOK' /\ QueueOK'
    BY DEF IInv, TypeOK, StoreTypeOK, LoopTypeOK, WorkerTypeOK, HandsOK, QueueOK,
       ActFinish, maxAgentActionAttempts, Succeeds, Fails, WorkerTo, Workers, AutoPcs,
       ReplyPcs
  <1>3. MarkOK' /\ LearnOK'
    BY DEF IInv, TypeOK, StoreTypeOK, LoopTypeOK, WorkerTypeOK, WorldTypeOK, HandsOK,
       QueueOK, MarkOK, LearnOK, ActFinish, maxAgentActionAttempts, Succeeds, Fails,
       WorkerTo, Workers, ReplyPcs
  <1> QED BY <1>1, <1>2, <1>3 DEF IInv, TypeOK

-----------------------------------------------------------------------------
(* Corrections and LLM retries.                                            *)

\* A correction of the batch is recorded: its delivery has settled.
LEMMA KeepsApplyCorrection ==
  ASSUME IInv, ApplyCorrection
  PROVE  IInv'
  <1>1. LoopTypeOK'
    <2>1. PICK c \in todo : \/ phase' = "applied" /\ job' = c /\ UNCHANGED todo
                            \/ todo' = todo \ {c} /\ UNCHANGED <<phase, job>>
      BY DEF ApplyCorrection
    <2>2. todo' \subseteq Replies /\ job' \in Replies \cup {0} /\ phase' \in Phases
      BY <2>1 DEF IInv, TypeOK, LoopTypeOK, Phases
    <2> QED BY <2>2 DEF IInv, TypeOK, LoopTypeOK, ApplyCorrection
  <1>2. MarkOK' /\ LearnOK'
    BY DEF IInv, TypeOK, StoreTypeOK, LoopTypeOK, WorkerTypeOK, WorldTypeOK, HandsOK,
       QueueOK, MarkOK, LearnOK, ApplyCorrection, Oldest, Succeeds, SetStatus, Fails,
       Workers, ReplyPcs
  <1>3. StoreTypeOK'
    BY DEF IInv, TypeOK, StoreTypeOK, LoopTypeOK, WorkerTypeOK, WorldTypeOK, HandsOK,
       QueueOK, ApplyCorrection, Oldest, Succeeds, SetStatus, Fails, Statuses,
       CorrStates, ActStates
  <1>4. WorkerTypeOK'
    BY DEF IInv, TypeOK, StoreTypeOK, LoopTypeOK, WorkerTypeOK, WorldTypeOK, HandsOK,
       QueueOK, ApplyCorrection, Oldest, Succeeds, SetStatus, Fails, Workers, AutoPcs,
       ReplyPcs
  <1>5. WorldTypeOK'
    BY DEF IInv, TypeOK, StoreTypeOK, LoopTypeOK, WorkerTypeOK, WorldTypeOK, HandsOK,
       QueueOK, ApplyCorrection, Oldest, Succeeds, SetStatus, Fails, Workers
  <1>6. HandsOK'
    BY DEF IInv, TypeOK, StoreTypeOK, LoopTypeOK, WorkerTypeOK, HandsOK,
       ApplyCorrection, Oldest, Succeeds, SetStatus, Fails, Workers, AutoPcs, ReplyPcs
  <1>7. QueueOK'
    BY DEF IInv, TypeOK, StoreTypeOK, LoopTypeOK, WorkerTypeOK, HandsOK, QueueOK,
       ApplyCorrection, Oldest, Succeeds, SetStatus, Fails, ReplyPcs
  <1> QED BY <1>1, <1>2, <1>3, <1>4, <1>5, <1>6, <1>7 DEF IInv, TypeOK

\* The correction leaves the batch.
LEMMA KeepsMarkCorrectionProcessed ==
  ASSUME IInv, MarkCorrectionProcessed
  PROVE  IInv'
  <1>1. WorldTypeOK' /\ QueueOK'
    <2>1. job \in todo /\ job \in Replies /\ phase = "applied" /\ corrSt[job] = "unprocessed"
      BY DEF IInv, HandsOK, QueueOK, TypeOK, LoopTypeOK, MarkCorrectionProcessed
    <2>2. armed' = armed \/ armed' = armed \cup {job}
      BY DEF MarkCorrectionProcessed
    <2>3. \/ corrSt' = corrSt /\ todo' = {}
          \/ corrSt' = [corrSt EXCEPT ![job] = "processed"] /\ todo' = todo \ {job}
      BY DEF MarkCorrectionProcessed
    <2>a. armed' \subseteq Replies
      BY <2>1, <2>2 DEF IInv, TypeOK, WorldTypeOK
    <2>b. faults' \in Nat
      BY DEF IInv, TypeOK, WorldTypeOK, MarkCorrectionProcessed, Succeeds, Fails
    <2>4. WorldTypeOK'
      BY <2>a, <2>b DEF IInv, TypeOK, WorldTypeOK, MarkCorrectionProcessed
    <2>5. UNCHANGED <<corrRow, actSt>> /\ phase' = "corrections"
      BY DEF MarkCorrectionProcessed
    <2>6. \A c \in Replies : c # job => corrSt'[c] = corrSt[c]
      BY <2>1, <2>3 DEF IInv, TypeOK, StoreTypeOK
    <2>7. corrSt'[job] # "absent"
      BY <2>1, <2>3 DEF IInv, TypeOK, StoreTypeOK
    <2>8. todo' \subseteq todo /\ job \notin todo' /\ todo' \subseteq Replies
      BY <2>3 DEF IInv, TypeOK, LoopTypeOK
    <2> QED BY <2>1, <2>4, <2>5, <2>6, <2>7, <2>8 DEF IInv, QueueOK
  <1>2. MarkOK' /\ LearnOK'
    BY DEF IInv, TypeOK, StoreTypeOK, LoopTypeOK, WorkerTypeOK, WorldTypeOK, HandsOK,
       QueueOK, MarkOK, LearnOK, MarkCorrectionProcessed, Succeeds, Fails, Workers,
       ReplyPcs
  <1>3. StoreTypeOK'
    BY DEF IInv, TypeOK, StoreTypeOK, LoopTypeOK, WorkerTypeOK, WorldTypeOK, HandsOK,
       QueueOK, MarkCorrectionProcessed, Succeeds, Fails, Statuses, CorrStates,
       ActStates
  <1>4. LoopTypeOK'
    BY DEF IInv, TypeOK, StoreTypeOK, LoopTypeOK, WorkerTypeOK, WorldTypeOK, HandsOK,
       QueueOK, MarkCorrectionProcessed, Succeeds, Fails, Phases, Passes
  <1>5. WorkerTypeOK'
    BY DEF IInv, TypeOK, StoreTypeOK, LoopTypeOK, WorkerTypeOK, WorldTypeOK, HandsOK,
       QueueOK, MarkCorrectionProcessed, Succeeds, Fails, Workers, AutoPcs, ReplyPcs
  <1>6. HandsOK'
    BY DEF IInv, TypeOK, StoreTypeOK, LoopTypeOK, WorkerTypeOK, HandsOK,
       MarkCorrectionProcessed, Succeeds, Fails, Workers, AutoPcs, ReplyPcs
  <1> QED BY <1>1, <1>2, <1>3, <1>4, <1>5, <1>6 DEF IInv, TypeOK

\* A retry request is consumed.
LEMMA KeepsApplyLLMRetry ==
  ASSUME IInv, ApplyLLMRetry
  PROVE  IInv'
  <1>1. StoreTypeOK'
    <2>1. retryQ' \subseteq retryQ
      BY DEF ApplyLLMRetry
    <2>2. status' \in [Rows -> Statuses]
      BY DEF ApplyLLMRetry, GuardedStatus, IInv, TypeOK, StoreTypeOK, LoopTypeOK, Statuses
    <2> QED BY <2>1, <2>2 DEF ApplyLLMRetry, IInv, TypeOK, StoreTypeOK
  <1>2. HandsOK' /\ QueueOK'
    BY DEF IInv, TypeOK, StoreTypeOK, LoopTypeOK, WorkerTypeOK, HandsOK, QueueOK,
       ApplyLLMRetry, Oldest, GuardedStatus, Workers, AutoPcs, ReplyPcs
  <1>3. MarkOK' /\ LearnOK'
    BY DEF IInv, TypeOK, StoreTypeOK, LoopTypeOK, WorkerTypeOK, WorldTypeOK, HandsOK,
       QueueOK, MarkOK, LearnOK, ApplyLLMRetry, Oldest, GuardedStatus, Workers, ReplyPcs
  <1>4. LoopTypeOK'
    BY DEF IInv, TypeOK, StoreTypeOK, LoopTypeOK, WorkerTypeOK, WorldTypeOK, HandsOK,
       QueueOK, ApplyLLMRetry, Oldest, GuardedStatus, Phases, Passes
  <1>5. WorkerTypeOK'
    BY DEF IInv, TypeOK, StoreTypeOK, LoopTypeOK, WorkerTypeOK, WorldTypeOK, HandsOK,
       QueueOK, ApplyLLMRetry, Oldest, GuardedStatus, Workers, AutoPcs, ReplyPcs
  <1>6. WorldTypeOK'
    BY DEF IInv, TypeOK, StoreTypeOK, LoopTypeOK, WorkerTypeOK, WorldTypeOK, HandsOK,
       QueueOK, ApplyLLMRetry, Oldest, GuardedStatus, Workers
  <1> QED BY <1>1, <1>2, <1>3, <1>4, <1>5, <1>6 DEF IInv, TypeOK

-----------------------------------------------------------------------------
(* Crash and recovery.                                                     *)

\* Memory is lost; the stored marks are not.
LEMMA KeepsCrash ==
  ASSUME IInv, Crash
  PROVE  IInv'
  <1>1. HandsOK' /\ QueueOK'
    BY DEF IInv, TypeOK, StoreTypeOK, LoopTypeOK, WorkerTypeOK, HandsOK, QueueOK, Crash,
       Workers, AutoPcs, ReplyPcs
  <1>2. MarkOK' /\ LearnOK'
    BY DEF IInv, TypeOK, StoreTypeOK, LoopTypeOK, WorkerTypeOK, WorldTypeOK, HandsOK,
       QueueOK, MarkOK, LearnOK, Crash, Workers, ReplyPcs
  <1>3. StoreTypeOK'
    BY DEF IInv, TypeOK, StoreTypeOK, LoopTypeOK, WorkerTypeOK, WorldTypeOK, HandsOK,
       QueueOK, Crash, Statuses, CorrStates, ActStates
  <1>4. LoopTypeOK'
    BY DEF IInv, TypeOK, StoreTypeOK, LoopTypeOK, WorkerTypeOK, WorldTypeOK, HandsOK,
       QueueOK, Crash, Phases, Passes
  <1>5. WorkerTypeOK'
    BY DEF IInv, TypeOK, StoreTypeOK, LoopTypeOK, WorkerTypeOK, WorldTypeOK, HandsOK,
       QueueOK, Crash, Workers, AutoPcs, ReplyPcs
  <1>6. WorldTypeOK'
    BY DEF IInv, TypeOK, StoreTypeOK, LoopTypeOK, WorkerTypeOK, WorldTypeOK, HandsOK,
       QueueOK, Crash, Workers
  <1> QED BY <1>1, <1>2, <1>3, <1>4, <1>5, <1>6 DEF IInv, TypeOK

\* Startup loads the corrections.
LEMMA KeepsStart ==
  ASSUME IInv, Start
  PROVE  IInv'
  <1>1. HandsOK'
    BY DEF Start, IInv, HandsOK, TypeOK, StoreTypeOK, LoopTypeOK, WorkerTypeOK, Workers,
       AutoPcs, ReplyPcs, UnprocessedCorrections
  <1>2. TypeOK'
    BY DEF IInv, TypeOK, StoreTypeOK, LoopTypeOK, WorkerTypeOK, WorldTypeOK, HandsOK,
       QueueOK, Start, UnprocessedCorrections, Statuses, CorrStates, ActStates, Phases,
       Passes, Workers, AutoPcs, ReplyPcs
  <1>3. MarkOK' /\ LearnOK'
    BY DEF IInv, TypeOK, StoreTypeOK, LoopTypeOK, WorkerTypeOK, WorldTypeOK, HandsOK,
       QueueOK, MarkOK, LearnOK, Start, UnprocessedCorrections, Workers, ReplyPcs
  <1>4. QueueOK'
    BY DEF IInv, TypeOK, StoreTypeOK, LoopTypeOK, WorkerTypeOK, HandsOK, QueueOK, Start,
       UnprocessedCorrections, ReplyPcs
  <1> QED BY <1>1, <1>2, <1>3, <1>4 DEF IInv, TypeOK

\* Abandoned automatic claims return to the queue.
LEMMA KeepsReclaimAbandonedAutoAccepts ==
  ASSUME IInv, ReclaimAbandonedAutoAccepts
  PROVE  IInv'
  <1>1. TypeOK'
    BY DEF IInv, TypeOK, StoreTypeOK, LoopTypeOK, WorkerTypeOK, WorldTypeOK, HandsOK,
       QueueOK, ReclaimAbandonedAutoAccepts, Succeeds, Fails, Statuses, CorrStates,
       ActStates, Phases, Passes, Workers, AutoPcs, ReplyPcs
  <1>2. HandsOK' /\ QueueOK'
    BY DEF IInv, TypeOK, StoreTypeOK, LoopTypeOK, WorkerTypeOK, HandsOK, QueueOK,
       ReclaimAbandonedAutoAccepts, Succeeds, Fails, Workers, AutoPcs, ReplyPcs
  <1>3. MarkOK' /\ LearnOK'
    BY DEF IInv, TypeOK, StoreTypeOK, LoopTypeOK, WorkerTypeOK, WorldTypeOK, HandsOK,
       QueueOK, MarkOK, LearnOK, ReclaimAbandonedAutoAccepts, Succeeds, Fails, Workers,
       ReplyPcs
  <1> QED BY <1>1, <1>2, <1>3 DEF IInv, TypeOK

\* Marked actions are failed, unmarked ones requeued.
LEMMA KeepsReclaimRunningAgentActions ==
  ASSUME IInv, ReclaimRunningAgentActions
  PROVE  IInv'
  <1>1. TypeOK'
    BY DEF IInv, TypeOK, StoreTypeOK, LoopTypeOK, WorkerTypeOK, WorldTypeOK, HandsOK,
       QueueOK, ReclaimRunningAgentActions, Succeeds, Fails, Statuses, CorrStates,
       ActStates, Phases, Passes, Workers, AutoPcs, ReplyPcs
  <1>2. HandsOK' /\ QueueOK'
    BY DEF IInv, TypeOK, StoreTypeOK, LoopTypeOK, WorkerTypeOK, HandsOK, QueueOK,
       ReclaimRunningAgentActions, Succeeds, Fails, Workers, AutoPcs, ReplyPcs
  <1>3. MarkOK' /\ LearnOK'
    BY DEF IInv, TypeOK, StoreTypeOK, LoopTypeOK, WorkerTypeOK, WorldTypeOK, HandsOK,
       QueueOK, MarkOK, LearnOK, ReclaimRunningAgentActions, Succeeds, Fails, Workers,
       ReplyPcs
  <1> QED BY <1>1, <1>2, <1>3 DEF IInv, TypeOK

-----------------------------------------------------------------------------
(* The sweep.                                                              *)

\* The agent listing.
LEMMA KeepsListAgents ==
  ASSUME IInv, ListAgents
  PROVE  IInv'
  <1>1. TypeOK'
    BY DEF IInv, TypeOK, StoreTypeOK, LoopTypeOK, WorkerTypeOK, WorldTypeOK, HandsOK,
       QueueOK, ListAgents, autoAcceptAbsenceConfirmations, Statuses, CorrStates,
       ActStates, Phases, Passes, Workers, AutoPcs, ReplyPcs
  <1>2. HandsOK' /\ QueueOK'
    BY DEF IInv, TypeOK, StoreTypeOK, LoopTypeOK, WorkerTypeOK, HandsOK, QueueOK,
       ListAgents, autoAcceptAbsenceConfirmations, Workers, AutoPcs, ReplyPcs
  <1>3. MarkOK' /\ LearnOK'
    BY DEF IInv, TypeOK, StoreTypeOK, LoopTypeOK, WorkerTypeOK, WorldTypeOK, HandsOK,
       QueueOK, MarkOK, LearnOK, ListAgents, autoAcceptAbsenceConfirmations, Workers,
       ReplyPcs
  <1> QED BY <1>1, <1>2, <1>3 DEF IInv, TypeOK

\* Owed finalizes and reverts.
LEMMA KeepsSettleObligations ==
  ASSUME IInv, SettleObligations
  PROVE  IInv'
  <1>1. TypeOK'
    BY DEF IInv, TypeOK, StoreTypeOK, LoopTypeOK, WorkerTypeOK, WorldTypeOK, HandsOK,
       QueueOK, SettleObligations, Succeeds, Fails, Statuses, CorrStates, ActStates,
       Phases, Passes, Workers, AutoPcs, ReplyPcs
  <1>2. HandsOK' /\ QueueOK'
    BY DEF IInv, TypeOK, StoreTypeOK, LoopTypeOK, WorkerTypeOK, HandsOK, QueueOK,
       SettleObligations, Succeeds, Fails, Workers, AutoPcs, ReplyPcs
  <1>3. MarkOK' /\ LearnOK'
    BY DEF IInv, TypeOK, StoreTypeOK, LoopTypeOK, WorkerTypeOK, WorldTypeOK, HandsOK,
       QueueOK, MarkOK, LearnOK, SettleObligations, Succeeds, Fails, Workers, ReplyPcs
  <1> QED BY <1>1, <1>2, <1>3 DEF IInv, TypeOK

\* The candidates are loaded.
LEMMA KeepsBeginSweep ==
  ASSUME IInv, BeginSweep
  PROVE  IInv'
  <1>1. LoopTypeOK'
    <2>1. rowsTodo' \subseteq Rows /\ eligible' \subseteq Rows
      BY DEF BeginSweep, IInv, TypeOK, LoopTypeOK
    <2>2. handled' \subseteq Agents
      BY DEF BeginSweep, IInv, TypeOK, LoopTypeOK
    <2>3. live' \in [Agents -> {"gone", "working", "parked"}]
      BY DEF BeginSweep, IInv, TypeOK, LoopTypeOK
    <2>4. panes' \in [Agents -> Rows \cup {0, Unread}]
      BY DEF BeginSweep, IInv, TypeOK, LoopTypeOK
    <2>5. sweepFsp' \in BOOLEAN /\ phase' \in Phases
      BY DEF BeginSweep, IInv, TypeOK, LoopTypeOK, WorkerTypeOK, Phases
    <2> QED BY <2>1, <2>2, <2>3, <2>4, <2>5 DEF BeginSweep, IInv, TypeOK, LoopTypeOK
  <1>2. HandsOK' /\ QueueOK'
    BY DEF IInv, TypeOK, StoreTypeOK, LoopTypeOK, WorkerTypeOK, HandsOK, QueueOK,
       BeginSweep, Workers, AutoPcs, ReplyPcs
  <1>3. MarkOK' /\ LearnOK'
    BY DEF IInv, TypeOK, StoreTypeOK, LoopTypeOK, WorkerTypeOK, WorldTypeOK, HandsOK,
       QueueOK, MarkOK, LearnOK, BeginSweep, Workers, ReplyPcs
  <1>4. StoreTypeOK'
    BY DEF IInv, TypeOK, StoreTypeOK, LoopTypeOK, WorkerTypeOK, WorldTypeOK, HandsOK,
       QueueOK, BeginSweep, Statuses, CorrStates, ActStates
  <1>5. WorkerTypeOK'
    BY DEF IInv, TypeOK, StoreTypeOK, LoopTypeOK, WorkerTypeOK, WorldTypeOK, HandsOK,
       QueueOK, BeginSweep, Workers, AutoPcs, ReplyPcs
  <1>6. WorldTypeOK'
    BY DEF IInv, TypeOK, StoreTypeOK, LoopTypeOK, WorkerTypeOK, WorldTypeOK, HandsOK,
       QueueOK, BeginSweep, Workers
  <1> QED BY <1>1, <1>2, <1>3, <1>4, <1>5, <1>6 DEF IInv, TypeOK

\* A candidate is passed over.
LEMMA KeepsSweepSkip ==
  ASSUME IInv, SweepSkip
  PROVE  IInv'
  <1>1. TypeOK'
    BY DEF IInv, TypeOK, StoreTypeOK, LoopTypeOK, WorkerTypeOK, WorldTypeOK, HandsOK,
       QueueOK, SweepSkip, Oldest, paneBusy, Statuses, CorrStates, ActStates, Phases,
       Passes, Workers, AutoPcs, ReplyPcs
  <1>2. HandsOK' /\ QueueOK'
    BY DEF IInv, TypeOK, StoreTypeOK, LoopTypeOK, WorkerTypeOK, HandsOK, QueueOK,
       SweepSkip, Oldest, paneBusy, Workers, AutoPcs, ReplyPcs
  <1>3. MarkOK' /\ LearnOK'
    BY DEF IInv, TypeOK, StoreTypeOK, LoopTypeOK, WorkerTypeOK, WorldTypeOK, HandsOK,
       QueueOK, MarkOK, LearnOK, SweepSkip, Oldest, paneBusy, Workers, ReplyPcs
  <1> QED BY <1>1, <1>2, <1>3 DEF IInv, TypeOK

\* A noop row is retired.
LEMMA KeepsSweepNoop ==
  ASSUME IInv, SweepNoop
  PROVE  IInv'
  <1>1. LoopTypeOK'
    <2>1. rowsTodo' \subseteq rowsTodo /\ eligible' \subseteq eligible
      BY DEF SweepNoop, Dismiss
    <2> QED BY <2>1 DEF SweepNoop, IInv, TypeOK, LoopTypeOK
  <1>2. HandsOK' /\ QueueOK'
    BY DEF IInv, TypeOK, StoreTypeOK, LoopTypeOK, WorkerTypeOK, HandsOK, QueueOK,
       SweepNoop, Oldest, Dismiss, Succeeds, GuardedStatus, Fails, Workers, AutoPcs,
       ReplyPcs
  <1>3. MarkOK' /\ LearnOK'
    BY DEF IInv, TypeOK, StoreTypeOK, LoopTypeOK, WorkerTypeOK, WorldTypeOK, HandsOK,
       QueueOK, MarkOK, LearnOK, SweepNoop, Oldest, Dismiss, Succeeds, GuardedStatus,
       Fails, Workers, ReplyPcs
  <1>4. StoreTypeOK'
    BY DEF IInv, TypeOK, StoreTypeOK, LoopTypeOK, WorkerTypeOK, WorldTypeOK, HandsOK,
       QueueOK, SweepNoop, Oldest, Dismiss, Succeeds, GuardedStatus, Fails, Statuses,
       CorrStates, ActStates
  <1>5. WorkerTypeOK'
    BY DEF IInv, TypeOK, StoreTypeOK, LoopTypeOK, WorkerTypeOK, WorldTypeOK, HandsOK,
       QueueOK, SweepNoop, Oldest, Dismiss, Succeeds, GuardedStatus, Fails, Workers,
       AutoPcs, ReplyPcs
  <1>6. WorldTypeOK'
    BY DEF IInv, TypeOK, StoreTypeOK, LoopTypeOK, WorkerTypeOK, WorldTypeOK, HandsOK,
       QueueOK, SweepNoop, Oldest, Dismiss, Succeeds, GuardedStatus, Fails, Workers
  <1> QED BY <1>1, <1>2, <1>3, <1>4, <1>5, <1>6 DEF IInv, TypeOK

\* An absent agent is noted or its row retired.
LEMMA KeepsSweepAbsent ==
  ASSUME IInv, SweepAbsent
  PROVE  IInv'
  <1>1. LoopTypeOK'
    <2>1. rowsTodo' \subseteq rowsTodo /\ eligible' \subseteq eligible
      BY DEF SweepAbsent, Dismiss
    <2> QED BY <2>1 DEF SweepAbsent, IInv, TypeOK, LoopTypeOK
  <1>2. HandsOK' /\ QueueOK'
    BY DEF IInv, TypeOK, StoreTypeOK, LoopTypeOK, WorkerTypeOK, HandsOK, QueueOK,
       SweepAbsent, Oldest, paneBusy, autoAcceptAbsenceConfirmations, Succeeds, Dismiss,
       GuardedStatus, Fails, Workers, AutoPcs, ReplyPcs
  <1>3. MarkOK' /\ LearnOK'
    BY DEF IInv, TypeOK, StoreTypeOK, LoopTypeOK, WorkerTypeOK, WorldTypeOK, HandsOK,
       QueueOK, MarkOK, LearnOK, SweepAbsent, Oldest, paneBusy,
       autoAcceptAbsenceConfirmations, Succeeds, Dismiss, GuardedStatus, Fails, Workers,
       ReplyPcs
  <1>4. StoreTypeOK'
    BY DEF IInv, TypeOK, StoreTypeOK, LoopTypeOK, WorkerTypeOK, WorldTypeOK, HandsOK,
       QueueOK, SweepAbsent, Oldest, paneBusy, autoAcceptAbsenceConfirmations, Succeeds,
       Dismiss, GuardedStatus, Fails, Statuses, CorrStates, ActStates
  <1>5. WorkerTypeOK'
    BY DEF IInv, TypeOK, StoreTypeOK, LoopTypeOK, WorkerTypeOK, WorldTypeOK, HandsOK,
       QueueOK, SweepAbsent, Oldest, paneBusy, autoAcceptAbsenceConfirmations, Succeeds,
       Dismiss, GuardedStatus, Fails, Workers, AutoPcs, ReplyPcs
  <1>6. WorldTypeOK'
    BY DEF IInv, TypeOK, StoreTypeOK, LoopTypeOK, WorkerTypeOK, WorldTypeOK, HandsOK,
       QueueOK, SweepAbsent, Oldest, paneBusy, autoAcceptAbsenceConfirmations, Succeeds,
       Dismiss, GuardedStatus, Fails, Workers
  <1> QED BY <1>1, <1>2, <1>3, <1>4, <1>5, <1>6 DEF IInv, TypeOK

\* The loop takes a row in hand.
LEMMA KeepsSweepTake ==
  ASSUME IInv, SweepTake
  PROVE  IInv'
  <1>1. WorkerTypeOK'
    <2>1. wpc' \in [Workers -> {"idle"} \cup AutoPcs \cup ReplyPcs] /\ wrow' \in [Workers -> Rows \cup {0}]
      BY DEF SweepTake, IInv, TypeOK, LoopTypeOK, WorkerTypeOK, Workers, AutoPcs
    <2>2. fspOn' \in BOOLEAN
      BY DEF SweepTake, IInv, TypeOK, WorkerTypeOK
    <2>3. absent' \in [Rows -> Nat]
      BY DEF SweepTake, IInv, TypeOK, LoopTypeOK, WorkerTypeOK
    <2> QED BY <2>1, <2>2, <2>3 DEF SweepTake, IInv, TypeOK, WorkerTypeOK
  <1>2. HandsOK' /\ QueueOK'
    BY DEF IInv, TypeOK, StoreTypeOK, LoopTypeOK, WorkerTypeOK, HandsOK, QueueOK,
       SweepTake, Oldest, paneBusy, Workers, AutoPcs, ReplyPcs
  <1>3. MarkOK' /\ LearnOK'
    BY DEF IInv, TypeOK, StoreTypeOK, LoopTypeOK, WorkerTypeOK, WorldTypeOK, HandsOK,
       QueueOK, MarkOK, LearnOK, SweepTake, Oldest, paneBusy, Workers, ReplyPcs
  <1>4. StoreTypeOK'
    BY DEF IInv, TypeOK, StoreTypeOK, LoopTypeOK, WorkerTypeOK, WorldTypeOK, HandsOK,
       QueueOK, SweepTake, Oldest, paneBusy, Statuses, CorrStates, ActStates
  <1>5. LoopTypeOK'
    BY DEF IInv, TypeOK, StoreTypeOK, LoopTypeOK, WorkerTypeOK, WorldTypeOK, HandsOK,
       QueueOK, SweepTake, Oldest, paneBusy, Phases, Passes
  <1>6. WorldTypeOK'
    BY DEF IInv, TypeOK, StoreTypeOK, LoopTypeOK, WorkerTypeOK, WorldTypeOK, HandsOK,
       QueueOK, SweepTake, Oldest, paneBusy, Workers
  <1> QED BY <1>1, <1>2, <1>3, <1>4, <1>5, <1>6 DEF IInv, TypeOK

\* Bookkeeping is pruned.
LEMMA KeepsEndSweep ==
  ASSUME IInv, EndSweep
  PROVE  IInv'
  <1>1. TypeOK'
    BY DEF IInv, TypeOK, StoreTypeOK, LoopTypeOK, WorkerTypeOK, WorldTypeOK, HandsOK,
       QueueOK, EndSweep, Statuses, CorrStates, ActStates, Phases, Passes, Workers,
       AutoPcs, ReplyPcs
  <1>2. HandsOK' /\ QueueOK'
    BY DEF IInv, TypeOK, StoreTypeOK, LoopTypeOK, WorkerTypeOK, HandsOK, QueueOK,
       EndSweep, Workers, AutoPcs, ReplyPcs
  <1>3. MarkOK' /\ LearnOK'
    BY DEF IInv, TypeOK, StoreTypeOK, LoopTypeOK, WorkerTypeOK, WorldTypeOK, HandsOK,
       QueueOK, MarkOK, LearnOK, EndSweep, Workers, ReplyPcs
  <1> QED BY <1>1, <1>2, <1>3 DEF IInv, TypeOK

-----------------------------------------------------------------------------
(* The automatic path.                                                     *)

\* The guard chain.
LEMMA KeepsAutoCheck ==
  ASSUME IInv, NEW w \in Workers, AutoCheck(w)
  PROVE  IInv'
  <1>1. LoopTypeOK' /\ WorkerTypeOK'
    <2>1. wrow[w] \in Rows
      BY DEF AutoCheck, IInv, HandsOK, AutoPcs
    <2>2. eligible' \subseteq eligible
      BY DEF AutoCheck, Dismiss
    <2>3. panes' \in [Agents -> Rows \cup {0, Unread}]
      BY <2>1 DEF AutoCheck, SeenScreen, IInv, TypeOK, LoopTypeOK, WorldTypeOK
    <2>4. LoopTypeOK'
      BY <2>2, <2>3 DEF AutoCheck, IInv, TypeOK, LoopTypeOK
    <2>5. wpc' \in [Workers -> {"idle"} \cup AutoPcs \cup ReplyPcs] /\ wrow' \in [Workers -> Rows \cup {0}]
      BY DEF AutoCheck, WorkerTo, WorkerDone, IInv, TypeOK, WorkerTypeOK, AutoPcs
    <2>6. fspOn' \in BOOLEAN 
      BY DEF AutoCheck, IInv, TypeOK, WorkerTypeOK
    <2>7. tries' \in [Rows -> Nat] /\ absent' \in [Rows -> Nat]
      BY <2>1 DEF AutoCheck, Dismiss, IInv, TypeOK, WorkerTypeOK
    <2> QED BY <2>4, <2>5, <2>6, <2>7 DEF AutoCheck, IInv, TypeOK, WorkerTypeOK
  <1>2. HandsOK' /\ QueueOK'
    BY DEF IInv, TypeOK, StoreTypeOK, LoopTypeOK, WorkerTypeOK, HandsOK, QueueOK,
       AutoCheck, WorkerDone, SeenParked, SeenScreen, WorkerTo, Dismiss, Succeeds,
       GuardedStatus, Fails, Workers, AutoPcs, ReplyPcs
  <1>3. MarkOK' /\ LearnOK'
    BY DEF IInv, TypeOK, StoreTypeOK, LoopTypeOK, WorkerTypeOK, WorldTypeOK, HandsOK,
       QueueOK, MarkOK, LearnOK, AutoCheck, WorkerDone, SeenParked, SeenScreen,
       WorkerTo, Dismiss, Succeeds, GuardedStatus, Fails, Workers, ReplyPcs
  <1>4. StoreTypeOK'
    BY DEF IInv, TypeOK, StoreTypeOK, LoopTypeOK, WorkerTypeOK, WorldTypeOK, HandsOK,
       QueueOK, AutoCheck, WorkerDone, SeenParked, SeenScreen, WorkerTo, Dismiss,
       Succeeds, GuardedStatus, Fails, Statuses, CorrStates, ActStates
  <1>5. WorldTypeOK'
    BY DEF IInv, TypeOK, StoreTypeOK, LoopTypeOK, WorkerTypeOK, WorldTypeOK, HandsOK,
       QueueOK, AutoCheck, WorkerDone, SeenParked, SeenScreen, WorkerTo, Dismiss,
       Succeeds, GuardedStatus, Fails, Workers
  <1> QED BY <1>1, <1>2, <1>3, <1>4, <1>5 DEF IInv, TypeOK

\* The last look.
LEMMA KeepsAutoLastLook ==
  ASSUME IInv, NEW w \in Workers, AutoLastLook(w)
  PROVE  IInv'
  <1>1. TypeOK'
    BY DEF IInv, TypeOK, StoreTypeOK, LoopTypeOK, WorkerTypeOK, WorldTypeOK, HandsOK,
       QueueOK, AutoLastLook, Fsp, WorkerTo, WorkerDone, Statuses, CorrStates,
       ActStates, Phases, Passes, Workers, AutoPcs, ReplyPcs
  <1>2. HandsOK' /\ QueueOK'
    BY DEF IInv, TypeOK, StoreTypeOK, LoopTypeOK, WorkerTypeOK, HandsOK, QueueOK,
       AutoLastLook, Fsp, WorkerTo, WorkerDone, Workers, AutoPcs, ReplyPcs
  <1>3. MarkOK' /\ LearnOK'
    BY DEF IInv, TypeOK, StoreTypeOK, LoopTypeOK, WorkerTypeOK, WorldTypeOK, HandsOK,
       QueueOK, MarkOK, LearnOK, AutoLastLook, Fsp, WorkerTo, WorkerDone, Workers,
       ReplyPcs
  <1> QED BY <1>1, <1>2, <1>3 DEF IInv, TypeOK

\* The claim.
LEMMA KeepsAutoClaim ==
  ASSUME IInv, NEW w \in Workers, AutoClaim(w)
  PROVE  IInv'
  <1>1. TypeOK'
    BY DEF IInv, TypeOK, StoreTypeOK, LoopTypeOK, WorkerTypeOK, WorldTypeOK, HandsOK,
       QueueOK, AutoClaim, Succeeds, GuardedStatus, WorkerTo, WorkerDone, Fails,
       Statuses, CorrStates, ActStates, Phases, Passes, Workers, AutoPcs, ReplyPcs
  <1>2. HandsOK' /\ QueueOK'
    BY DEF IInv, TypeOK, StoreTypeOK, LoopTypeOK, WorkerTypeOK, HandsOK, QueueOK,
       AutoClaim, Succeeds, GuardedStatus, WorkerTo, WorkerDone, Fails, Workers,
       AutoPcs, ReplyPcs
  <1>3. MarkOK' /\ LearnOK'
    BY DEF IInv, TypeOK, StoreTypeOK, LoopTypeOK, WorkerTypeOK, WorldTypeOK, HandsOK,
       QueueOK, MarkOK, LearnOK, AutoClaim, Succeeds, GuardedStatus, WorkerTo,
       WorkerDone, Fails, Workers, ReplyPcs
  <1> QED BY <1>1, <1>2, <1>3 DEF IInv, TypeOK

\* The keystrokes.
LEMMA KeepsAutoDeliver ==
  ASSUME IInv, NEW w \in Workers, AutoDeliver(w)
  PROVE  IInv'
  <1>1. TypeOK'
    BY DEF IInv, TypeOK, StoreTypeOK, LoopTypeOK, WorkerTypeOK, WorldTypeOK, HandsOK,
       QueueOK, AutoDeliver, PaneTakes, WorkerTo, maxAutoAcceptAttempts, Statuses,
       CorrStates, ActStates, Phases, Passes, Workers, AutoPcs, ReplyPcs
  <1>2. HandsOK' /\ QueueOK'
    BY DEF IInv, TypeOK, StoreTypeOK, LoopTypeOK, WorkerTypeOK, HandsOK, QueueOK,
       AutoDeliver, PaneTakes, WorkerTo, maxAutoAcceptAttempts, Workers, AutoPcs,
       ReplyPcs
  <1>3. MarkOK' /\ LearnOK'
    BY DEF IInv, TypeOK, StoreTypeOK, LoopTypeOK, WorkerTypeOK, WorldTypeOK, HandsOK,
       QueueOK, MarkOK, LearnOK, AutoDeliver, PaneTakes, WorkerTo,
       maxAutoAcceptAttempts, Workers, ReplyPcs
  <1> QED BY <1>1, <1>2, <1>3 DEF IInv, TypeOK

\* The answer is recorded.
LEMMA KeepsAutoFinalize ==
  ASSUME IInv, NEW w \in Workers, AutoFinalize(w)
  PROVE  IInv'
  <1>1. LoopTypeOK' /\ WorkerTypeOK'
    <2>1. wrow[w] \in Rows
      BY DEF AutoFinalize, IInv, HandsOK, AutoPcs
    <2>a. AgentOf[wrow[w]] \in Agents
      BY <2>1
    <2>b. handled' = handled \/ handled' = handled \cup {AgentOf[wrow[w]]}
      BY DEF AutoFinalize
    <2>2. handled' \subseteq Agents
      BY <2>a, <2>b DEF IInv, TypeOK, LoopTypeOK
    <2>3. LoopTypeOK'
      BY <2>2 DEF AutoFinalize, IInv, TypeOK, LoopTypeOK
    <2>4. needsFinalize' \subseteq Rows
      BY <2>1 DEF AutoFinalize, IInv, TypeOK, WorkerTypeOK
    <2> QED BY <2>1, <2>3, <2>4 DEF AutoFinalize, WorkerDone, IInv, TypeOK, WorkerTypeOK
  <1>2. HandsOK' /\ QueueOK'
    BY DEF IInv, TypeOK, StoreTypeOK, LoopTypeOK, WorkerTypeOK, HandsOK, QueueOK,
       AutoFinalize, Succeeds, GuardedStatus, Fails, WorkerDone, Workers, AutoPcs,
       ReplyPcs
  <1>3. MarkOK' /\ LearnOK'
    BY DEF IInv, TypeOK, StoreTypeOK, LoopTypeOK, WorkerTypeOK, WorldTypeOK, HandsOK,
       QueueOK, MarkOK, LearnOK, AutoFinalize, Succeeds, GuardedStatus, Fails,
       WorkerDone, Workers, ReplyPcs
  <1>4. StoreTypeOK'
    BY DEF IInv, TypeOK, StoreTypeOK, LoopTypeOK, WorkerTypeOK, WorldTypeOK, HandsOK,
       QueueOK, AutoFinalize, Succeeds, GuardedStatus, Fails, WorkerDone, Statuses,
       CorrStates, ActStates
  <1>5. WorldTypeOK'
    BY DEF IInv, TypeOK, StoreTypeOK, LoopTypeOK, WorkerTypeOK, WorldTypeOK, HandsOK,
       QueueOK, AutoFinalize, Succeeds, GuardedStatus, Fails, WorkerDone, Workers
  <1> QED BY <1>1, <1>2, <1>3, <1>4, <1>5 DEF IInv, TypeOK

\* The claim is released.
LEMMA KeepsAutoRevert ==
  ASSUME IInv, NEW w \in Workers, AutoRevert(w)
  PROVE  IInv'
  <1>1. WorkerTypeOK'
    <2>1. wrow[w] \in Rows
      BY DEF AutoRevert, IInv, HandsOK, AutoPcs
    <2>2. needsRevert' \subseteq Rows
      BY <2>1 DEF AutoRevert, IInv, TypeOK, WorkerTypeOK
    <2> QED BY <2>1, <2>2 DEF AutoRevert, WorkerDone, IInv, TypeOK, WorkerTypeOK
  <1>2. HandsOK' /\ QueueOK'
    BY DEF IInv, TypeOK, StoreTypeOK, LoopTypeOK, WorkerTypeOK, HandsOK, QueueOK,
       AutoRevert, Succeeds, GuardedStatus, Fails, WorkerDone, Workers, AutoPcs,
       ReplyPcs
  <1>3. MarkOK' /\ LearnOK'
    BY DEF IInv, TypeOK, StoreTypeOK, LoopTypeOK, WorkerTypeOK, WorldTypeOK, HandsOK,
       QueueOK, MarkOK, LearnOK, AutoRevert, Succeeds, GuardedStatus, Fails, WorkerDone,
       Workers, ReplyPcs
  <1>4. StoreTypeOK'
    BY DEF IInv, TypeOK, StoreTypeOK, LoopTypeOK, WorkerTypeOK, WorldTypeOK, HandsOK,
       QueueOK, AutoRevert, Succeeds, GuardedStatus, Fails, WorkerDone, Statuses,
       CorrStates, ActStates
  <1>5. LoopTypeOK'
    BY DEF IInv, TypeOK, StoreTypeOK, LoopTypeOK, WorkerTypeOK, WorldTypeOK, HandsOK,
       QueueOK, AutoRevert, Succeeds, GuardedStatus, Fails, WorkerDone, Phases, Passes
  <1>6. WorldTypeOK'
    BY DEF IInv, TypeOK, StoreTypeOK, LoopTypeOK, WorkerTypeOK, WorldTypeOK, HandsOK,
       QueueOK, AutoRevert, Succeeds, GuardedStatus, Fails, WorkerDone, Workers
  <1> QED BY <1>1, <1>2, <1>3, <1>4, <1>5, <1>6 DEF IInv, TypeOK

\* The row is retired after the last attempt.
LEMMA KeepsAutoGiveUp ==
  ASSUME IInv, NEW w \in Workers, AutoGiveUp(w)
  PROVE  IInv'
  <1>1. LoopTypeOK'
    <2>1. eligible' \subseteq eligible
      BY DEF AutoGiveUp, Dismiss
    <2> QED BY <2>1 DEF AutoGiveUp, IInv, TypeOK, LoopTypeOK
  <1>2. HandsOK' /\ QueueOK'
    BY DEF IInv, TypeOK, StoreTypeOK, LoopTypeOK, WorkerTypeOK, HandsOK, QueueOK,
       AutoGiveUp, Dismiss, Succeeds, GuardedStatus, Fails, WorkerDone, Workers,
       AutoPcs, ReplyPcs
  <1>3. MarkOK' /\ LearnOK'
    BY DEF IInv, TypeOK, StoreTypeOK, LoopTypeOK, WorkerTypeOK, WorldTypeOK, HandsOK,
       QueueOK, MarkOK, LearnOK, AutoGiveUp, Dismiss, Succeeds, GuardedStatus, Fails,
       WorkerDone, Workers, ReplyPcs
  <1>4. StoreTypeOK'
    BY DEF IInv, TypeOK, StoreTypeOK, LoopTypeOK, WorkerTypeOK, WorldTypeOK, HandsOK,
       QueueOK, AutoGiveUp, Dismiss, Succeeds, GuardedStatus, Fails, WorkerDone,
       Statuses, CorrStates, ActStates
  <1>5. WorkerTypeOK'
    BY DEF IInv, TypeOK, StoreTypeOK, LoopTypeOK, WorkerTypeOK, WorldTypeOK, HandsOK,
       QueueOK, AutoGiveUp, Dismiss, Succeeds, GuardedStatus, Fails, WorkerDone,
       Workers, AutoPcs, ReplyPcs
  <1>6. WorldTypeOK'
    BY DEF IInv, TypeOK, StoreTypeOK, LoopTypeOK, WorkerTypeOK, WorldTypeOK, HandsOK,
       QueueOK, AutoGiveUp, Dismiss, Succeeds, GuardedStatus, Fails, WorkerDone, Workers
  <1> QED BY <1>1, <1>2, <1>3, <1>4, <1>5, <1>6 DEF IInv, TypeOK

-----------------------------------------------------------------------------
\* Every step of every actor, and stuttering, preserves IInv.
LEMMA NextOK == IInv /\ [Next]_vars => IInv'
  <1> SUFFICES ASSUME IInv, [Next]_vars PROVE IInv' OBVIOUS
  <1>1. CASE Environment
    BY <1>1, KeepsAsk, KeepsDismissEscalation, KeepsRetryLLM, KeepsAgentMoves,
       KeepsSetAgentEnabled, KeepsConfirmAndSend, KeepsConfirmOnly, KeepsActionAges,
       KeepsPruneEscalations, KeepsPauseOrResume, KeepsSetFullSelfPrompting, KeepsCrash
       DEF Environment
  <1>2. CASE \E r \in Rows : Raise(r)
    BY <1>2, KeepsRaise
  <1>3. CASE BeginPass("nudge") \/ BeginPass("tick")
    BY <1>3, KeepsBeginPass
  <1>4. CASE QueueStep
    BY <1>4, KeepsActClaim, KeepsActScreen, KeepsActMark, KeepsActType, KeepsActSent,
       KeepsActFinish, KeepsApplyCorrection, KeepsMarkCorrectionProcessed,
       KeepsApplyLLMRetry, KeepsActionsDrained, KeepsCorrectionsDrained,
       KeepsRetriesDrained DEF QueueStep
  <1>5. CASE RecoveryStep
    BY <1>5, KeepsStart, KeepsReclaimAbandonedAutoAccepts,
       KeepsReclaimRunningAgentActions DEF RecoveryStep
  <1>6. CASE SweepStep
    BY <1>6, KeepsListAgents, KeepsSettleObligations, KeepsBeginSweep, KeepsSweepSkip,
       KeepsSweepNoop, KeepsSweepAbsent, KeepsSweepTake, KeepsEndSweep DEF SweepStep
  <1>7. CASE \E w \in Workers : AutoStep(w)
    BY <1>7, KeepsAutoCheck, KeepsAutoLastLook, KeepsAutoClaim, KeepsAutoDeliver,
       KeepsAutoFinalize, KeepsAutoRevert, KeepsAutoGiveUp DEF AutoStep
  <1>8. CASE UNCHANGED vars
    <2>1. TypeOK'
      BY <1>8 DEF vars, IInv, TypeOK, StoreTypeOK, LoopTypeOK, WorkerTypeOK, WorldTypeOK
    <2>2. HandsOK' /\ QueueOK' /\ MarkOK' /\ LearnOK'
      BY <1>8 DEF vars, IInv, HandsOK, QueueOK, MarkOK, LearnOK
    <2> QED BY <2>1, <2>2 DEF IInv
  <1> QED
    BY <1>1, <1>2, <1>3, <1>4, <1>5, <1>6, <1>7, <1>8 DEF Next

\* The inductive invariant holds throughout.
THEOREM Invariance == Spec => []IInv
  <1> QED BY InitOK, NextOK, PTL DEF Spec

\* Every variable keeps its type, for every instance.
THEOREM TypeCorrect == Spec => []TypeOK
  <1>1. IInv => TypeOK
    BY DEF IInv
  <1> QED BY Invariance, <1>1, PTL

\* A queued reply is typed at most once, across any number of crashes, failing
\* writes and retries (runAgentAction's mark and the startup reclaim).
THEOREM TypedOnce == Spec => []ReplyTypedOnce
  <1>1. IInv => ReplyTypedOnce
    BY DEF IInv, MarkOK, ReplyTypedOnce
  <1> QED BY Invariance, <1>1, PTL

\* A withdrawn reply was neither typed nor learned from (finishWithdrawn and the
\* UnprocessedCorrections query).
THEOREM WithdrawnIsClean == Spec => []WithdrawnLeavesNoTrace
  <1>1. IInv => WithdrawnLeavesNoTrace
    BY DEF IInv, LearnOK, WithdrawnLeavesNoTrace
  <1> QED BY Invariance, <1>1, PTL

\* The unblock check of a delivered reply is armed before its correction is
\* consumed: processAgentActions runs before processCorrections, and a correction
\* whose delivery is queued or running is left in the queue.
THEOREM DeliveredIsChecked == Spec => []DeliveredReplyIsChecked
  <1>1. IInv => DeliveredReplyIsChecked
    BY DEF IInv, LearnOK, DeliveredReplyIsChecked, TypeOK, StoreTypeOK
  <1> QED BY Invariance, <1>1, PTL

-----------------------------------------------------------------------------
(* EscalationDelivery implements ReplyContract: every step of every actor   *)
(* is, for each of the operator's answers, a step of the contract or none   *)
(* at all.  Eight actions take a step of the contract or, when their write  *)
(* fails, none; every other action leaves the answers where they were.      *)

\* Beyond IInv the mapping needs that the correction the loop is about to mark
\* processed has been learned.
AppliedOK == phase = "applied" => learned[job] # 0

RInv == IInv /\ AppliedOK

\* How far every answer is, and which were learned: what the contract is mapped to.
FatesNow == [c \in Replies |-> FateOf(c)]
LearntNow == {c \in Replies : learned[c] # 0}

-----------------------------------------------------------------------------
(* Steps that leave the answers alone.                                     *)

\* Nothing about the answers is written.
AnswersStand == UNCHANGED <<corrSt, actSt, actMark, typedReply, learned>>

\* Nor is a correction taken in hand or let go of as learned.
HandStands == phase' = "applied" => phase = "applied" /\ job' = job

AnswersQuiet == AnswersStand /\ HandStands

\* A quiet step is a stutter of the contract and keeps AppliedOK.
LEMMA QuietStutters ==
  ASSUME AppliedOK, AnswersQuiet
  PROVE  AppliedOK' /\ UNCHANGED Contract!contractVars
  <1>1. AppliedOK' BY DEF AppliedOK, AnswersQuiet, AnswersStand, HandStands
  <1>2. UNCHANGED Contract!contractVars
    BY DEF AnswersQuiet, AnswersStand, Contract!contractVars, FateOf
  <1> QED BY <1>1, <1>2

\* The agents and the front ends, but for the two that answer.
LEMMA QuietEnvironment ==
  ASSUME \/ \E r \in Rows : Ask(r) \/ DismissEscalation(r) \/ RetryLLM(r) \/ Raise(r)
         \/ \E a \in Agents : AgentMoves(a) \/ SetAgentEnabled(a)
         \/ \E c \in Replies : ActionAges(c)
         \/ PruneEscalations \/ PauseOrResume \/ SetFullSelfPrompting \/ Crash
  PROVE  AnswersQuiet
  <1> USE DEF AnswersQuiet, AnswersStand, HandStands
  <1>1. ASSUME NEW r \in Rows, Ask(r) PROVE AnswersQuiet BY <1>1 DEF Ask
  <1>2. ASSUME NEW r \in Rows, DismissEscalation(r) PROVE AnswersQuiet BY <1>2 DEF DismissEscalation
  <1>3. ASSUME NEW r \in Rows, RetryLLM(r) PROVE AnswersQuiet BY <1>3 DEF RetryLLM
  <1>4. ASSUME NEW r \in Rows, Raise(r) PROVE AnswersQuiet BY <1>4 DEF Raise
  <1>5. ASSUME NEW a \in Agents, AgentMoves(a) PROVE AnswersQuiet BY <1>5 DEF AgentMoves
  <1>6. ASSUME NEW a \in Agents, SetAgentEnabled(a) PROVE AnswersQuiet BY <1>6 DEF SetAgentEnabled
  <1>7. ASSUME NEW c \in Replies, ActionAges(c) PROVE AnswersQuiet BY <1>7 DEF ActionAges
  <1>8. ASSUME PruneEscalations PROVE AnswersQuiet BY <1>8 DEF PruneEscalations
  <1>9. ASSUME PauseOrResume PROVE AnswersQuiet BY <1>9 DEF PauseOrResume
  <1>10. ASSUME SetFullSelfPrompting PROVE AnswersQuiet BY <1>10 DEF SetFullSelfPrompting
  <1>11. ASSUME Crash PROVE AnswersQuiet BY <1>11 DEF Crash
  <1> HIDE DEF AnswersQuiet
  <1> QED BY <1>1, <1>2, <1>3, <1>4, <1>5, <1>6, <1>7, <1>8, <1>9, <1>10, <1>11

\* What the loop does besides claiming, marking, typing, finishing and learning.
LEMMA QuietLoop ==
  ASSUME IInv,
         \/ BeginPass("nudge") \/ BeginPass("tick") \/ ActScreen \/ ActSent \/ ApplyLLMRetry
         \/ ActionsDrained \/ CorrectionsDrained \/ RetriesDrained
         \/ Start \/ ReclaimAbandonedAutoAccepts
  PROVE  AnswersQuiet
  <1> USE DEF AnswersQuiet, AnswersStand, HandStands
  <1>1. ASSUME BeginPass("nudge") \/ BeginPass("tick") PROVE AnswersQuiet BY <1>1 DEF BeginPass
  <1>2. ASSUME ActScreen PROVE AnswersQuiet BY <1>2 DEF ActScreen
  <1>3. ASSUME ActSent PROVE AnswersQuiet BY <1>3 DEF ActSent
  <1>4. ASSUME ApplyLLMRetry PROVE AnswersQuiet BY <1>4 DEF ApplyLLMRetry
  <1>5. ASSUME ActionsDrained PROVE AnswersQuiet BY <1>5 DEF ActionsDrained, EndPhase
  <1>6. ASSUME CorrectionsDrained PROVE AnswersQuiet BY <1>6 DEF CorrectionsDrained, EndPhase
  <1>7. ASSUME RetriesDrained PROVE AnswersQuiet BY <1>7 DEF RetriesDrained, EndPhase
  <1>8. ASSUME Start PROVE AnswersQuiet BY <1>8 DEF Start
  <1>9. ASSUME ReclaimAbandonedAutoAccepts PROVE AnswersQuiet BY <1>9 DEF ReclaimAbandonedAutoAccepts
  <1> HIDE DEF AnswersQuiet
  <1> QED BY <1>1, <1>2, <1>3, <1>4, <1>5, <1>6, <1>7, <1>8, <1>9

\* The sweep answers rows, never an operator's reply.
LEMMA QuietSweep ==
  ASSUME SweepStep
  PROVE  AnswersQuiet
  <1> USE DEF AnswersQuiet, AnswersStand, HandStands
  <1>1. ASSUME ListAgents PROVE AnswersQuiet BY <1>1 DEF ListAgents
  <1>2. ASSUME SettleObligations PROVE AnswersQuiet BY <1>2 DEF SettleObligations
  <1>3. ASSUME BeginSweep PROVE AnswersQuiet BY <1>3 DEF BeginSweep
  <1>4. ASSUME SweepSkip PROVE AnswersQuiet BY <1>4 DEF SweepSkip
  <1>5. ASSUME SweepNoop PROVE AnswersQuiet BY <1>5 DEF SweepNoop
  <1>6. ASSUME SweepAbsent PROVE AnswersQuiet BY <1>6 DEF SweepAbsent
  <1>7. ASSUME SweepTake PROVE AnswersQuiet BY <1>7 DEF SweepTake
  <1>8. ASSUME EndSweep PROVE AnswersQuiet BY <1>8 DEF EndSweep
  <1> HIDE DEF AnswersQuiet
  <1> QED BY <1>1, <1>2, <1>3, <1>4, <1>5, <1>6, <1>7, <1>8 DEF SweepStep

\* Nor does an automatic delivery touch one, in whoever's hands it is.
LEMMA QuietAuto ==
  ASSUME NEW w \in Workers, AutoStep(w)
  PROVE  AnswersQuiet
  <1> USE DEF AnswersQuiet, AnswersStand, HandStands
  <1>1. ASSUME AutoCheck(w) PROVE AnswersQuiet BY <1>1 DEF AutoCheck
  <1>2. ASSUME AutoLastLook(w) PROVE AnswersQuiet BY <1>2 DEF AutoLastLook
  <1>3. ASSUME AutoClaim(w) PROVE AnswersQuiet BY <1>3 DEF AutoClaim
  <1>4. ASSUME AutoDeliver(w) PROVE AnswersQuiet BY <1>4 DEF AutoDeliver
  <1>5. ASSUME AutoFinalize(w) PROVE AnswersQuiet BY <1>5 DEF AutoFinalize
  <1>6. ASSUME AutoRevert(w) PROVE AnswersQuiet BY <1>6 DEF AutoRevert
  <1>7. ASSUME AutoGiveUp(w) PROVE AnswersQuiet BY <1>7 DEF AutoGiveUp
  <1> HIDE DEF AnswersQuiet
  <1> QED BY <1>1, <1>2, <1>3, <1>4, <1>5, <1>6, <1>7 DEF AutoStep
-----------------------------------------------------------------------------
(* Steps of the contract, said of the answer that takes them.              *)

\* Only the answer c gets further.
OnlyMoves(c) == \A b \in Replies : b # c => FateOf(b)' = FateOf(b)

LEMMA OneMoves ==
  ASSUME NEW c \in Replies, OnlyMoves(c), NEW next, FateOf(c)' = next
  PROVE  FatesNow' = [FatesNow EXCEPT ![c] = next]
  BY DEF FatesNow, OnlyMoves

LEMMA IsAnswer ==
  ASSUME NEW c \in Replies, OnlyMoves(c), UNCHANGED <<typedReply, learned>>,
         FateOf(c) = "new", FateOf(c)' \in {"queued", "settled"}
  PROVE  Contract!Next
  <1>1. FatesNow' = [FatesNow EXCEPT ![c] = "queued"] \/ FatesNow' = [FatesNow EXCEPT ![c] = "settled"]
    BY OneMoves
  <1>2. Contract!Answer(c)
    BY <1>1 DEF Contract!Answer, Contract!Becomes, FatesNow
  <1> QED BY <1>2 DEF Contract!Next

LEMMA IsWithdraw ==
  ASSUME NEW c \in Replies, OnlyMoves(c), UNCHANGED <<typedReply, learned>>,
         FateOf(c) = "queued", FateOf(c)' = "withdrawn"
  PROVE  Contract!Next
  <1>1. FatesNow' = [FatesNow EXCEPT ![c] = "withdrawn"] BY OneMoves
  <1>2. Contract!Withdraw(c)
    BY <1>1 DEF Contract!Withdraw, Contract!Becomes, FatesNow
  <1> QED BY <1>2 DEF Contract!Next

LEMMA IsCommit ==
  ASSUME NEW c \in Replies, OnlyMoves(c), UNCHANGED <<typedReply, learned>>,
         FateOf(c) = "queued", FateOf(c)' = "committed"
  PROVE  Contract!Next
  <1>1. FatesNow' = [FatesNow EXCEPT ![c] = "committed"] BY OneMoves
  <1>2. Contract!Commit(c)
    BY <1>1 DEF Contract!Commit, Contract!Becomes, FatesNow
  <1> QED BY <1>2 DEF Contract!Next

LEMMA IsTypeInto ==
  ASSUME NEW c \in Replies, UNCHANGED <<FatesNow, learned>>,
         FateOf(c) = "committed", typedReply[c] = 0, typedReply' = [typedReply EXCEPT ![c] = 1]
  PROVE  Contract!Next
  <1>1. Contract!TypeInto(c) BY DEF Contract!TypeInto, FatesNow
  <1> QED BY <1>1 DEF Contract!Next

LEMMA IsSettle ==
  ASSUME UNCHANGED <<typedReply, learned>>,
         \A c \in Replies : FateOf(c)' # FateOf(c) =>
           FateOf(c)' = "settled" /\ FateOf(c) \in {"queued", "committed"}
  PROVE  Contract!Next
  <1> DEFINE over == {c \in Replies : FateOf(c)' # FateOf(c)}
  <1>1. over \in SUBSET {c \in Replies : FatesNow[c] \in {"queued", "committed"}} BY DEF FatesNow
  <1>2. FatesNow' = [c \in Replies |-> IF c \in over THEN "settled" ELSE FatesNow[c]] BY DEF FatesNow
  <1>3. Contract!Settle
    <2> HIDE DEF over
    <2> QED BY <1>1, <1>2 DEF Contract!Settle, FatesNow
  <1> QED BY <1>3 DEF Contract!Next

LEMMA IsLearn ==
  ASSUME NEW c \in Replies, UNCHANGED <<FatesNow, typedReply>>,
         FateOf(c) = "settled", LearntNow' = LearntNow \cup {c}
  PROVE  Contract!Next
  <1>1. Contract!Learn(c) BY DEF Contract!Learn, FatesNow, LearntNow
  <1> QED BY <1>1 DEF Contract!Next

LEMMA IsConsume ==
  ASSUME NEW c \in Replies, OnlyMoves(c), UNCHANGED <<typedReply, learned>>,
         FateOf(c) = "settled", learned[c] # 0, FateOf(c)' = "consumed"
  PROVE  Contract!Next
  <1>1. FatesNow' = [FatesNow EXCEPT ![c] = "consumed"] BY OneMoves
  <1>2. Contract!Consume(c)
    BY <1>1 DEF Contract!Consume, Contract!Becomes, FatesNow
  <1> QED BY <1>2 DEF Contract!Next
-----------------------------------------------------------------------------
(* The actions that take a step of the contract.                           *)

\* The correction is queued with its delivery, or to teach only.
LEMMA ConfirmKeepsContract ==
  ASSUME RInv, NEW c \in Replies, NEW r \in Rows, ConfirmAndSend(c, r) \/ ConfirmOnly(c, r)
  PROVE  AppliedOK' /\ Contract!Next
  <1>1. c \notin actMark /\ (actSt[c] = "absent" \/ corrSt[c] # "absent")
    BY DEF RInv, IInv, QueueOK, MarkOK, ConfirmAndSend, ConfirmOnly, TypeOK, StoreTypeOK
  <1>2. actSt[c] = "absent" /\ corrSt[c] = "absent"
    BY <1>1 DEF ConfirmAndSend, ConfirmOnly
  <1>3. OnlyMoves(c) /\ UNCHANGED <<typedReply, learned>>
    BY DEF OnlyMoves, FateOf, ConfirmAndSend, ConfirmOnly, RInv, IInv, TypeOK, StoreTypeOK
  <1>4. FateOf(c) = "new" BY <1>2 DEF FateOf
  <1>5. FateOf(c)' \in {"queued", "settled"}
    BY <1>1, <1>2 DEF FateOf, ConfirmAndSend, ConfirmOnly, RInv, IInv, TypeOK, StoreTypeOK
  <1>6. Contract!Next BY <1>3, <1>4, <1>5, IsAnswer
  <1>7. AppliedOK' BY DEF RInv, AppliedOK, ConfirmAndSend, ConfirmOnly
  <1> QED BY <1>6, <1>7

\* A claimed delivery is as far as a queued one: it may still be withdrawn.
LEMMA ClaimKeepsContract ==
  ASSUME RInv, ActClaim
  PROVE  AppliedOK' /\ UNCHANGED Contract!contractVars
  <1>1. AppliedOK' BY DEF RInv, AppliedOK, ActClaim
  <1>2. UNCHANGED <<typedReply, learned, corrSt, actMark>> BY DEF ActClaim
  <1>3. ASSUME NEW b \in Replies PROVE FateOf(b)' = FateOf(b)
    <2>1. actSt'[b] = actSt[b] \/ (actSt[b] = "pending" /\ actSt'[b] = "running")
      BY DEF ActClaim, RInv, IInv, TypeOK, StoreTypeOK
    <2> QED BY <1>2, <2>1 DEF FateOf
  <1>4. UNCHANGED Contract!contractVars BY <1>2, <1>3 DEF Contract!contractVars
  <1> QED BY <1>1, <1>4

\* What the loop has in hand while it delivers.
LEMMA InHand ==
  ASSUME RInv, wpc[Loop] \in ReplyPcs
  PROVE  /\ job \in Replies /\ actSt[job] = "running" /\ phase = "actions"
         /\ corrSt[job] = "unprocessed"
         /\ FateOf(job) = IF job \in actMark THEN "committed" ELSE "queued"
  <1>1. job \in Replies /\ actSt[job] = "running" /\ phase = "actions"
    BY DEF RInv, IInv, HandsOK
  <1>2. corrSt[job] = "unprocessed"
    BY <1>1 DEF RInv, IInv, QueueOK, LearnOK, TypeOK, StoreTypeOK, CorrStates
  <1> QED BY <1>1, <1>2 DEF FateOf

\* The side-effect mark is the point of no return.
LEMMA MarkKeepsContract ==
  ASSUME RInv, ActMark
  PROVE  AppliedOK' /\ (Contract!Next \/ UNCHANGED Contract!contractVars)
  <1>1. wpc[Loop] = "screened" /\ wpc[Loop] \in ReplyPcs BY DEF ActMark, ReplyPcs
  <1>2. job \in Replies /\ FateOf(job) = "queued" /\ job \notin actMark /\ corrSt[job] = "unprocessed"
        /\ actSt[job] = "running"
    <2>1. job \notin actMark BY <1>1 DEF RInv, IInv, MarkOK
    <2>2. job \in Replies /\ FateOf(job) = "queued" /\ actSt[job] = "running" BY <1>1, <2>1, InHand
    <2> QED BY <2>1, <2>2 DEF FateOf, RInv, IInv, TypeOK, StoreTypeOK, CorrStates, LearnOK
  <1>3. UNCHANGED <<typedReply, learned, corrSt, actSt, phase, job>> BY DEF ActMark
  <1>4. AppliedOK' BY <1>3 DEF RInv, AppliedOK
  <1>5. CASE actMark' = actMark \cup {job}
    <2>1. OnlyMoves(job) BY <1>3, <1>5 DEF OnlyMoves, FateOf
    <2>2. FateOf(job)' = "committed" BY <1>2, <1>3, <1>5 DEF FateOf
    <2> QED BY <1>2, <1>3, <1>4, <2>1, <2>2, IsCommit
  <1>6. CASE UNCHANGED actMark
    <2>1. UNCHANGED Contract!contractVars BY <1>3, <1>6 DEF Contract!contractVars, FateOf
    <2> QED BY <1>4, <2>1
  <1> QED BY <1>5, <1>6 DEF ActMark

\* Past the mark the reply is typed, once, or the delivery fails.
LEMMA TypeKeepsContract ==
  ASSUME RInv, ActType
  PROVE  AppliedOK' /\ (Contract!Next \/ UNCHANGED Contract!contractVars)
  <1>1. wpc[Loop] = "marked" /\ wpc[Loop] \in ReplyPcs BY DEF ActType, ReplyPcs
  <1>2. job \in Replies /\ FateOf(job) = "committed" /\ typedReply[job] = 0
    <2>1. job \in actMark /\ typedReply[job] = 0 BY <1>1 DEF RInv, IInv, MarkOK
    <2> QED BY <1>1, <2>1, InHand
  <1>3. UNCHANGED <<learned, corrSt, actSt, actMark, phase, job>> BY DEF ActType
  <1>4. AppliedOK' BY <1>3 DEF RInv, AppliedOK
  <1>5. UNCHANGED FatesNow BY <1>3 DEF FatesNow, FateOf
  <1>6. CASE typedReply' = [typedReply EXCEPT ![job] = @ + 1]
    <2>1. typedReply' = [typedReply EXCEPT ![job] = 1] BY <1>2, <1>6
    <2> QED BY <1>2, <1>3, <1>4, <1>5, <2>1, IsTypeInto
  <1>7. CASE UNCHANGED typedReply
    <2>1. UNCHANGED Contract!contractVars BY <1>3, <1>5, <1>7 DEF Contract!contractVars, FatesNow
    <2> QED BY <1>4, <2>1
  <1> QED BY <1>6, <1>7 DEF ActType

\* The outcome: withdrawn, which leaves no trace since nothing was marked; back in the
\* queue, for the same reason; or settled.
LEMMA FinishKeepsContract ==
  ASSUME RInv, ActFinish
  PROVE  AppliedOK' /\ (Contract!Next \/ UNCHANGED Contract!contractVars)
  <1>1. wpc[Loop] \in {"sent", "fail", "withdraw", "retry"} /\ wpc[Loop] \in ReplyPcs
    BY DEF ActFinish, ReplyPcs
  <1>2. PICK c \in Replies : c = job BY <1>1, InHand
  <1>3. corrSt[c] = "unprocessed" /\ actSt[c] = "running" /\ phase = "actions"
        /\ FateOf(c) = (IF c \in actMark THEN "committed" ELSE "queued")
    BY <1>1, <1>2, InHand
  <1>4. UNCHANGED <<typedReply, learned, actMark, phase>> BY DEF ActFinish
  <1>5. AppliedOK' BY <1>3, <1>4 DEF AppliedOK
  <1>6. CASE UNCHANGED <<actSt, corrSt>>
    <2>1. UNCHANGED Contract!contractVars BY <1>4, <1>6 DEF Contract!contractVars, FateOf
    <2> QED BY <1>5, <2>1
  <1>7. CASE ~UNCHANGED <<actSt, corrSt>>
    <2>1. \A b \in Replies : b # c => actSt'[b] = actSt[b] /\ corrSt'[b] = corrSt[b]
      BY <1>2, <1>7 DEF ActFinish, RInv, IInv, TypeOK, StoreTypeOK
    <2>2. OnlyMoves(c) BY <1>4, <2>1 DEF OnlyMoves, FateOf
    <2>3. CASE wpc[Loop] = "withdraw"
      <3>1. c \notin actMark BY <1>2, <2>3 DEF RInv, IInv, MarkOK
      <3>2. corrSt'[c] = "withdrawn" BY <1>2, <1>7, <2>3 DEF ActFinish, RInv, IInv, TypeOK, StoreTypeOK
      <3>3. FateOf(c)' = "withdrawn" BY <3>2 DEF FateOf
      <3> QED BY <1>3, <1>4, <1>5, <2>2, <3>1, <3>3, IsWithdraw
    <2>4. CASE wpc[Loop] # "withdraw"
      <3>1. corrSt' = corrSt BY <1>7, <2>4 DEF ActFinish
      <3>2. actSt'[c] \in {"done", "pending", "failed"}
        BY <1>1, <1>2, <1>7 DEF ActFinish, RInv, IInv, TypeOK, StoreTypeOK
      <3>3. CASE actSt'[c] = "pending"
        <4>1. FateOf(c)' = FateOf(c) BY <1>2, <1>3, <1>4, <3>1, <3>3 DEF FateOf
        <4>2. UNCHANGED Contract!contractVars
          BY <1>4, <2>2, <4>1 DEF Contract!contractVars, OnlyMoves
        <4> QED BY <1>5, <4>2
      <3>4. CASE actSt'[c] # "pending"
        <4>1. FateOf(c)' = "settled" BY <1>3, <3>1, <3>2, <3>4 DEF FateOf
        <4>2. Contract!Next BY <1>3, <1>4, <2>2, <4>1, IsSettle DEF OnlyMoves
        <4> QED BY <1>5, <4>2
      <3> QED BY <3>3, <3>4
    <2> QED BY <2>3, <2>4
  <1> QED BY <1>6, <1>7
\* A correction is learned from only when its delivery is settled.
LEMMA ApplyKeepsContract ==
  ASSUME RInv, ApplyCorrection
  PROVE  AppliedOK' /\ (Contract!Next \/ UNCHANGED Contract!contractVars)
  <1>1. UNCHANGED <<typedReply, corrSt, actSt, actMark>> /\ phase = "corrections"
    BY DEF ApplyCorrection
  <1>2. UNCHANGED FatesNow BY <1>1 DEF FatesNow, FateOf
  <1>3. PICK c \in todo :
          \/ learned' = [learned EXCEPT ![c] = @ + 1] /\ phase' = "applied" /\ job' = c
          \/ UNCHANGED <<learned, phase, job>>
    BY DEF ApplyCorrection
  <1>4. c \in Replies /\ FateOf(c) = "settled" /\ learned \in [Replies -> Nat]
    BY <1>1, <1>3 DEF FateOf, RInv, IInv, QueueOK, TypeOK, StoreTypeOK, LoopTypeOK, WorldTypeOK
  <1>5. CASE learned' = [learned EXCEPT ![c] = @ + 1] /\ phase' = "applied" /\ job' = c
    <2>1. learned'[c] # 0 /\ \A b \in Replies : b # c => learned'[b] = learned[b]
      BY <1>4, <1>5
    <2>2. AppliedOK' BY <1>5, <2>1 DEF AppliedOK
    <2>3. LearntNow' = LearntNow \cup {c} BY <1>4, <2>1 DEF LearntNow
    <2> QED BY <1>1, <1>2, <1>4, <2>2, <2>3, IsLearn
  <1>6. CASE UNCHANGED <<learned, phase, job>>
    <2>1. AppliedOK' BY <1>6 DEF RInv, AppliedOK
    <2>2. UNCHANGED Contract!contractVars BY <1>1, <1>2, <1>6 DEF Contract!contractVars, FatesNow
    <2> QED BY <2>1, <2>2
  <1> QED BY <1>3, <1>5, <1>6

\* A correction is consumed only when it has been learned from.
LEMMA ProcessedKeepsContract ==
  ASSUME RInv, MarkCorrectionProcessed
  PROVE  AppliedOK' /\ (Contract!Next \/ UNCHANGED Contract!contractVars)
  <1>1. UNCHANGED <<typedReply, learned, actSt, actMark>> /\ phase = "applied" /\ phase' = "corrections"
    BY DEF MarkCorrectionProcessed
  <1>2. AppliedOK' BY <1>1 DEF AppliedOK
  <1>3. PICK c \in Replies : c = job /\ learned[c] # 0 /\ FateOf(c) = "settled"
    BY <1>1 DEF FateOf, RInv, AppliedOK, IInv, HandsOK, QueueOK, TypeOK, LoopTypeOK
  <1>4. CASE corrSt' = [corrSt EXCEPT ![c] = "processed"]
    <2>1. OnlyMoves(c) /\ FateOf(c)' = "consumed"
      BY <1>1, <1>4 DEF OnlyMoves, FateOf, RInv, IInv, TypeOK, StoreTypeOK
    <2> QED BY <1>1, <1>2, <1>3, <2>1, IsConsume
  <1>5. CASE UNCHANGED corrSt
    <2>1. UNCHANGED Contract!contractVars BY <1>1, <1>5 DEF Contract!contractVars, FateOf
    <2> QED BY <1>2, <2>1
  <1> QED BY <1>3, <1>4, <1>5 DEF MarkCorrectionProcessed

\* After a crash the deliveries past the mark are settled together, the others queued
\* again.
LEMMA ReclaimKeepsContract ==
  ASSUME RInv, ReclaimRunningAgentActions
  PROVE  AppliedOK' /\ (Contract!Next \/ UNCHANGED Contract!contractVars)
  <1>1. UNCHANGED <<typedReply, learned, corrSt, actMark>> /\ phase' = "actions"
    BY DEF ReclaimRunningAgentActions
  <1>2. AppliedOK' BY <1>1 DEF AppliedOK
  <1>3. ASSUME NEW c \in Replies, FateOf(c)' # FateOf(c)
        PROVE  FateOf(c)' = "settled" /\ FateOf(c) \in {"queued", "committed"}
    <2>1. actSt[c] = "running" /\ actSt'[c] = IF c \in actMark THEN "failed" ELSE "pending"
      BY <1>1, <1>3 DEF ReclaimRunningAgentActions, FateOf
    <2>2. corrSt[c] \in CorrStates BY DEF RInv, IInv, TypeOK, StoreTypeOK
    <2> QED BY <1>1, <1>3, <2>1, <2>2 DEF FateOf, CorrStates
  <1>4. Contract!Next BY <1>1, <1>3, IsSettle
  <1> QED BY <1>2, <1>4

-----------------------------------------------------------------------------
\* Nothing was answered when the daemon is first started.
LEMMA InitKeepsContract == Init => RInv /\ Contract!Init
  <1> SUFFICES ASSUME Init PROVE RInv /\ Contract!Init
    OBVIOUS
  <1>1. IInv BY InitOK
  <1>2. AppliedOK BY DEF Init, AppliedOK
  <1>3. \A c \in Replies : FateOf(c) = "new" BY DEF Init, FateOf
  <1>4. {c \in Replies : learned[c] # 0} = {} BY DEF Init
  <1>5. typedReply = [c \in Replies |-> 0] BY DEF Init
  <1> QED BY <1>1, <1>2, <1>3, <1>4, <1>5 DEF RInv, Contract!Init

\* Every step of the system is a step of the contract or a stutter.
LEMMA NextKeepsContract ==
  ASSUME RInv, [Next]_vars
  PROVE  AppliedOK' /\ (Contract!Next \/ UNCHANGED Contract!contractVars)
  <1> DEFINE Kept == AppliedOK' /\ (Contract!Next \/ UNCHANGED Contract!contractVars)
  <1>1. ASSUME AnswersQuiet PROVE Kept BY <1>1, QuietStutters DEF RInv
  <1>2. ASSUME Environment PROVE Kept
    <2>1. CASE \E c \in Replies, r \in Rows : ConfirmAndSend(c, r) \/ ConfirmOnly(c, r)
      BY <2>1, ConfirmKeepsContract
    <2>2. CASE ~(\E c \in Replies, r \in Rows : ConfirmAndSend(c, r) \/ ConfirmOnly(c, r))
      BY <1>1, <1>2, <2>2, QuietEnvironment DEF Environment
    <2> QED BY <2>1, <2>2
  <1>3. ASSUME NEW r \in Rows, Raise(r) PROVE Kept BY <1>1, <1>3, QuietEnvironment
  <1>4. ASSUME BeginPass("nudge") \/ BeginPass("tick") PROVE Kept
    BY <1>1, <1>4, QuietLoop DEF RInv
  <1>5. ASSUME QueueStep PROVE Kept
    <2>1. CASE ActClaim BY <2>1, ClaimKeepsContract
    <2>2. CASE ActMark BY <2>2, MarkKeepsContract
    <2>3. CASE ActType BY <2>3, TypeKeepsContract
    <2>4. CASE ActFinish BY <2>4, FinishKeepsContract
    <2>5. CASE ApplyCorrection BY <2>5, ApplyKeepsContract
    <2>6. CASE MarkCorrectionProcessed BY <2>6, ProcessedKeepsContract
    <2>7. CASE ActScreen \/ ActSent \/ ApplyLLMRetry \/ ActionsDrained \/ CorrectionsDrained
               \/ RetriesDrained
      BY <1>1, <2>7, QuietLoop DEF RInv
    <2> QED BY <1>5, <2>1, <2>2, <2>3, <2>4, <2>5, <2>6, <2>7 DEF QueueStep
  <1>6. ASSUME RecoveryStep PROVE Kept
    <2>1. CASE Start \/ ReclaimAbandonedAutoAccepts BY <1>1, <2>1, QuietLoop DEF RInv
    <2>2. CASE ReclaimRunningAgentActions BY <2>2, ReclaimKeepsContract
    <2> QED BY <1>6, <2>1, <2>2 DEF RecoveryStep
  <1>7. ASSUME SweepStep PROVE Kept BY <1>1, <1>7, QuietSweep
  <1>8. ASSUME NEW w \in Workers, AutoStep(w) PROVE Kept BY <1>1, <1>8, QuietAuto
  <1>9. ASSUME UNCHANGED vars PROVE Kept
    <2>1. AnswersQuiet BY <1>9 DEF vars, AnswersQuiet, AnswersStand, HandStands
    <2> QED BY <1>1, <2>1
  <1> HIDE DEF Kept
  <1>10. Kept BY <1>2, <1>3, <1>4, <1>5, <1>6, <1>7, <1>8, <1>9 DEF Next
  <1> QED BY <1>10 DEF Kept

\* The refinement (processAgentActions, processCorrections, the startup reclaim): an
\* operator's answer keeps the contract, for all answers, rows, agents, outside events,
\* failing writes and crashes.
THEOREM AnswersAreKept == Spec => AnswersKeepContract
  <1>1. Init => RInv /\ Contract!Init BY InitKeepsContract
  <1>2. RInv /\ [Next]_vars => RInv'
    BY NextOK, NextKeepsContract DEF RInv
  <1>3. RInv /\ [Next]_vars => [Contract!Next]_(Contract!contractVars)
    BY NextKeepsContract
  <1> QED BY <1>1, <1>2, <1>3, PTL DEF Spec, AnswersKeepContract, Contract!Spec

-----------------------------------------------------------------------------
(* The automatic path                                                      *)
(*                                                                         *)
(* None of the four properties of AutomaticAnswersAreSound is inductive.   *)
(* That a row is answered once per life rests on who holds its claim       *)
(* (ClaimOK), that on which worker may have which row (WritersOK), and     *)
(* both on startup running alone (StartOK).  AInv joins them.  A claim is  *)
(* never stranded (StrandedOK) unless one of two writes fails: the         *)
(* dismissal that gives up on a row and the startup's reclaim.             *)

\* The pcs at which a worker holds a claim.
HoldPcs == {"deliver", "finalize", "revert", "giveup"}
NeverTaken == {"none", "escalated"}

\* Startup runs before any worker, with empty books, over answers of earlier lives.
StartPhases == {"down", "corrections", "applied", "retries", "reclaimAuto",
                "reclaimActions", "actions"}
StartOK ==
  /\ ~up => pass = "start"
  /\ phase \in {"reclaimAuto", "reclaimActions"} => pass = "start"
  /\ pass = "start" =>
       /\ phase \in StartPhases
       /\ \A a \in Agents : wpc[a] = "idle"
       /\ needsFinalize = {} /\ needsRevert = {}
       /\ \A r \in Rows : typedAuto[r] <= crashes

\* A worker has a row exactly while it is in the guard chain; a goroutine's row is
\* its agent's, and the sweep keeps off an agent that has one.
WritersOK ==
  /\ \A w \in Workers : wrow[w] # 0 <=> wpc[w] \in AutoPcs
  /\ \A a \in Agents : wpc[a] # "idle" => AgentOf[wrow[a]] = a
  /\ OneAutomaticWriterPerPane

\* A claim that is held, or owed a write, is out of the queue, and is not both.
ClaimOK ==
  /\ \A w \in Workers : wpc[w] \in HoldPcs =>
       status[wrow[w]] \notin NeverTaken /\ wrow[w] \notin needsFinalize \cup needsRevert
  /\ \A r \in needsFinalize \cup needsRevert : status[r] \notin NeverTaken
  /\ needsFinalize \cap needsRevert = {}

\* A row that can still be claimed, and a claim that has not delivered, was not
\* answered in this life of the daemon.
TypedOK ==
  /\ \A r \in Rows : typedAuto[r] <= crashes + 1
  /\ \A r \in Rows : status[r] \in NeverTaken => typedAuto[r] <= crashes
  /\ \A r \in needsRevert : typedAuto[r] <= crashes
  /\ \A w \in Workers : wpc[w] \in {"deliver", "revert"} => typedAuto[wrow[w]] <= crashes

\* A worker past its last look has claimed nothing since the pause.
LateOK ==
  \A w \in Workers :
    late[w] <= 1 /\ (~killed \/ wpc[w] = "claim" => late[w] = 0)

AInv == StartOK /\ WritersOK /\ ClaimOK /\ TypedOK /\ LateOK

\* Startup has returned every claim to the queue before it drains the actions.
StrandedOK ==
  /\ NoStrandedClaim
  /\ pass = "start" /\ phase \in {"reclaimActions", "actions"} =>
       \A r \in Rows : status[r] # "auto_accepting"

\* The two writes whose failure strands a claim until the next start.
SureWrites == "reclaim" \notin Faults /\ "dismiss" \notin Faults

USE RowsAssumption, RepliesAssumption, AgentsAssumption, WorkersAssumption,
    BoundsAssumption
USE DEF store, corrs, acts, controls, loopVars, sweepVars, workers, books, world, history,
        bounds, Unit

-----------------------------------------------------------------------------
(* What a step may change without touching the automatic path.             *)

\* ClosedStaysClosed, of one step.
ClosedStay ==
  \A r \in Rows : status[r] \in {"auto_accepted", "resolved", "dismissed", "retried"} =>
    status'[r] \in {status[r], "resolved"}

\* No row comes back to the queue, none is claimed.
RowsMove ==
  /\ \A r \in Rows : status'[r] \in NeverTaken => status[r] \in NeverTaken
  /\ \A r \in Rows : status'[r] = "auto_accepting" => status[r] = "auto_accepting"
  /\ ClosedStay

\* The loop's hands change only between replies.
HandsAlike ==
  /\ wrow' = wrow
  /\ \A a \in Agents : wpc'[a] = wpc[a]
  /\ wpc'[Loop] # wpc[Loop] => wpc[Loop] \notin AutoPcs /\ wpc'[Loop] \notin AutoPcs

\* The pass goes on, or a startup ends after draining the actions.
PassGoesOn ==
  /\ ~up => pass' = pass
  /\ pass' = "start" => pass = "start" /\ phase' \in StartPhases
  /\ phase' \in {"reclaimAuto", "reclaimActions"} => pass' = "start"
  /\ pass = "start" /\ pass' # "start" => phase = "actions"
  /\ pass' = "start" /\ phase' \in {"reclaimActions", "actions"} =>
       phase \in {"reclaimActions", "actions"}

Quiet ==
  /\ RowsMove /\ HandsAlike /\ PassGoesOn
  /\ UNCHANGED <<up, needsFinalize, needsRevert, typedAuto, crashes, late, killed>>

\* What every step keeps.
StepOK == AInv' /\ ClosedStay /\ (SureWrites /\ StrandedOK => StrandedOK')

LEMMA QuietIsOK ==
  ASSUME IInv, AInv, Quiet
  PROVE  StepOK
  <1>1. StartOK'
    <2>1. ~up' => pass' = "start"
      BY DEF AInv, StartOK, Quiet, PassGoesOn
    <2>2. phase' \in {"reclaimAuto", "reclaimActions"} => pass' = "start"
      BY DEF Quiet, PassGoesOn
    <2>3. ASSUME pass' = "start"
          PROVE  /\ phase' \in StartPhases
                 /\ \A a \in Agents : wpc'[a] = "idle"
                 /\ needsFinalize' = {} /\ needsRevert' = {}
                 /\ \A r \in Rows : typedAuto'[r] <= crashes'
      BY <2>3 DEF AInv, StartOK, Quiet, PassGoesOn, HandsAlike
    <2> QED BY <2>1, <2>2, <2>3 DEF StartOK
  <1>2. WritersOK'
    BY DEF AInv, WritersOK, OneAutomaticWriterPerPane, Quiet, HandsAlike, Workers
  <1>3. \A w \in Workers : wpc'[w] \in HoldPcs \cup {"claim"} => wpc'[w] = wpc[w]
    BY DEF Quiet, HandsAlike, Workers, HoldPcs, AutoPcs
  <1>4. \A w \in Workers : wpc[w] \in HoldPcs => wrow[w] \in Rows
    BY DEF IInv, HandsOK, HoldPcs, AutoPcs
  <1>5. ClaimOK'
    BY <1>3, <1>4 DEF AInv, ClaimOK, Quiet, HandsAlike, RowsMove, IInv, TypeOK, WorkerTypeOK
  <1>6. TypedOK'
    BY <1>3 DEF AInv, TypedOK, Quiet, HandsAlike, RowsMove, HoldPcs
  <1>7. LateOK'
    BY <1>3 DEF AInv, LateOK, Quiet
  <1>8. ASSUME StrandedOK PROVE StrandedOK'
    <2>1. \A w \in Workers : wpc[w] \in HoldPcs => wpc'[w] = wpc[w]
      BY DEF Quiet, HandsAlike, Workers, HoldPcs, AutoPcs
    <2>2. NoStrandedClaim'
      BY <1>8, <2>1 DEF NoStrandedClaim, StrandedOK, Quiet, RowsMove, HandsAlike, PassGoesOn,
         HoldPcs
    <2>3. pass' = "start" /\ phase' \in {"reclaimActions", "actions"} =>
            \A r \in Rows : status'[r] # "auto_accepting"
      BY <1>8 DEF StrandedOK, Quiet, RowsMove, PassGoesOn
    <2> QED BY <2>2, <2>3 DEF StrandedOK
  <1> QED BY <1>1, <1>2, <1>5, <1>6, <1>7, <1>8 DEF AInv, StepOK, Quiet, RowsMove

-----------------------------------------------------------------------------
(* Steps that leave the automatic path alone.                              *)

\* An agent shows a question.
LEMMA QuietAsk ==
  ASSUME IInv, AInv, NEW r \in Rows, Ask(r)
  PROVE  Quiet
  <1>1. RowsMove
    BY DEF RowsMove, ClosedStay, Ask
  <1>2. HandsAlike
    BY DEF HandsAlike, Ask
  <1>3. PassGoesOn
    BY DEF PassGoesOn, AInv, StartOK, StartPhases, Ask
  <1> QED
    BY <1>1, <1>2, <1>3 DEF Quiet, Ask

\* An agent resumes, stops or repaints.
LEMMA QuietAgentMoves ==
  ASSUME IInv, AInv, NEW a \in Agents, AgentMoves(a)
  PROVE  Quiet
  <1>1. RowsMove
    BY DEF RowsMove, ClosedStay, AgentMoves
  <1>2. HandsAlike
    BY DEF HandsAlike, AgentMoves
  <1>3. PassGoesOn
    BY DEF PassGoesOn, AInv, StartOK, StartPhases, AgentMoves
  <1> QED
    BY <1>1, <1>2, <1>3 DEF Quiet, AgentMoves

\* A confirmed reply enters both queues.
LEMMA QuietConfirmAndSend ==
  ASSUME IInv, AInv, NEW c \in Replies, NEW r \in Rows, ConfirmAndSend(c, r)
  PROVE  Quiet
  <1>1. RowsMove
    BY DEF RowsMove, ClosedStay, ConfirmAndSend
  <1>2. HandsAlike
    BY DEF HandsAlike, ConfirmAndSend
  <1>3. PassGoesOn
    BY DEF PassGoesOn, AInv, StartOK, StartPhases, ConfirmAndSend
  <1> QED
    BY <1>1, <1>2, <1>3 DEF Quiet, ConfirmAndSend

\* A correction without a delivery.
LEMMA QuietConfirmOnly ==
  ASSUME IInv, AInv, NEW c \in Replies, NEW r \in Rows, ConfirmOnly(c, r)
  PROVE  Quiet
  <1>1. RowsMove
    BY DEF RowsMove, ClosedStay, ConfirmOnly
  <1>2. HandsAlike
    BY DEF HandsAlike, ConfirmOnly
  <1>3. PassGoesOn
    BY DEF PassGoesOn, AInv, StartOK, StartPhases, ConfirmOnly
  <1> QED
    BY <1>1, <1>2, <1>3 DEF Quiet, ConfirmOnly

\* The operator dismisses a row.
LEMMA QuietDismissEscalation ==
  ASSUME IInv, AInv, NEW r \in Rows, DismissEscalation(r)
  PROVE  Quiet
  <1>1. RowsMove
    BY DEF RowsMove, ClosedStay, NeverTaken, IInv, TypeOK, StoreTypeOK,
       DismissEscalation, SetStatus
  <1>2. HandsAlike
    BY DEF HandsAlike, DismissEscalation
  <1>3. PassGoesOn
    BY DEF PassGoesOn, AInv, StartOK, StartPhases, DismissEscalation, SetStatus
  <1> QED
    BY <1>1, <1>2, <1>3 DEF Quiet, DismissEscalation, SetStatus

\* The front-end prune.
LEMMA QuietPruneEscalations ==
  ASSUME IInv, AInv, PruneEscalations
  PROVE  Quiet
  <1>1. RowsMove
    BY DEF RowsMove, ClosedStay, NeverTaken, IInv, TypeOK, StoreTypeOK,
       PruneEscalations
  <1>2. HandsAlike
    BY DEF HandsAlike, PruneEscalations
  <1>3. PassGoesOn
    BY DEF PassGoesOn, AInv, StartOK, StartPhases, PruneEscalations
  <1> QED
    BY <1>1, <1>2, <1>3 DEF Quiet, PruneEscalations

\* A retry is requested.
LEMMA QuietRetryLLM ==
  ASSUME IInv, AInv, NEW r \in Rows, RetryLLM(r)
  PROVE  Quiet
  <1>1. RowsMove
    BY DEF RowsMove, ClosedStay, RetryLLM
  <1>2. HandsAlike
    BY DEF HandsAlike, RetryLLM
  <1>3. PassGoesOn
    BY DEF PassGoesOn, AInv, StartOK, StartPhases, RetryLLM
  <1> QED
    BY <1>1, <1>2, <1>3 DEF Quiet, RetryLLM

\* An agent is switched on or off.
LEMMA QuietSetAgentEnabled ==
  ASSUME IInv, AInv, NEW a \in Agents, SetAgentEnabled(a)
  PROVE  Quiet
  <1>1. RowsMove
    BY DEF RowsMove, ClosedStay, SetAgentEnabled
  <1>2. HandsAlike
    BY DEF HandsAlike, SetAgentEnabled
  <1>3. PassGoesOn
    BY DEF PassGoesOn, AInv, StartOK, StartPhases, SetAgentEnabled
  <1> QED
    BY <1>1, <1>2, <1>3 DEF Quiet, SetAgentEnabled

\* FSP is switched.
LEMMA QuietSetFullSelfPrompting ==
  ASSUME IInv, AInv, SetFullSelfPrompting
  PROVE  Quiet
  <1>1. RowsMove
    BY DEF RowsMove, ClosedStay, SetFullSelfPrompting
  <1>2. HandsAlike
    BY DEF HandsAlike, SetFullSelfPrompting
  <1>3. PassGoesOn
    BY DEF PassGoesOn, AInv, StartOK, StartPhases, SetFullSelfPrompting
  <1> QED
    BY <1>1, <1>2, <1>3 DEF Quiet, SetFullSelfPrompting

\* A queued delivery grows stale.
LEMMA QuietActionAges ==
  ASSUME IInv, AInv, NEW c \in Replies, ActionAges(c)
  PROVE  Quiet
  <1>1. RowsMove
    BY DEF RowsMove, ClosedStay, ActionAges
  <1>2. HandsAlike
    BY DEF HandsAlike, ActionAges
  <1>3. PassGoesOn
    BY DEF PassGoesOn, AInv, StartOK, StartPhases, ActionAges
  <1> QED
    BY <1>1, <1>2, <1>3 DEF Quiet, ActionAges

\* A pass starts.
LEMMA QuietBeginPass ==
  ASSUME IInv, AInv, NEW kind \in {"nudge", "tick"}, BeginPass(kind)
  PROVE  Quiet
  <1>1. RowsMove
    BY DEF RowsMove, ClosedStay, BeginPass, LoopFree
  <1>2. HandsAlike
    BY DEF HandsAlike, BeginPass, LoopFree
  <1>3. PassGoesOn
    BY DEF PassGoesOn, AInv, StartOK, StartPhases, IInv, HandsOK, ReplyPcs, BeginPass,
       LoopFree
  <1> QED
    BY <1>1, <1>2, <1>3 DEF Quiet, BeginPass, LoopFree

\* The action phase ends.
LEMMA QuietActionsDrained ==
  ASSUME IInv, AInv, ActionsDrained
  PROVE  Quiet
  <1>1. RowsMove
    BY DEF RowsMove, ClosedStay, ActionsDrained, EndPhase
  <1>2. HandsAlike
    BY DEF HandsAlike, ActionsDrained, EndPhase
  <1>3. PassGoesOn
    BY DEF PassGoesOn, AInv, StartOK, StartPhases, IInv, HandsOK, ReplyPcs,
       ActionsDrained, EndPhase
  <1> QED
    BY <1>1, <1>2, <1>3 DEF Quiet, ActionsDrained, EndPhase

\* The corrections phase ends.
LEMMA QuietCorrectionsDrained ==
  ASSUME IInv, AInv, CorrectionsDrained
  PROVE  Quiet
  <1>1. RowsMove
    BY DEF RowsMove, ClosedStay, CorrectionsDrained, EndPhase
  <1>2. HandsAlike
    BY DEF HandsAlike, CorrectionsDrained, EndPhase
  <1>3. PassGoesOn
    BY DEF PassGoesOn, AInv, StartOK, StartPhases, IInv, HandsOK, ReplyPcs,
       CorrectionsDrained, EndPhase
  <1> QED
    BY <1>1, <1>2, <1>3 DEF Quiet, CorrectionsDrained, EndPhase

\* The retries phase ends: in a startup the claims are next.
LEMMA QuietRetriesDrained ==
  ASSUME IInv, AInv, RetriesDrained
  PROVE  Quiet
  <1>1. RowsMove
    BY DEF RowsMove, ClosedStay, RetriesDrained, EndPhase
  <1>2. HandsAlike
    BY DEF HandsAlike, RetriesDrained, EndPhase
  <1>3. PassGoesOn
    BY DEF PassGoesOn, AInv, StartOK, StartPhases, IInv, HandsOK, ReplyPcs,
       RetriesDrained, EndPhase
  <1> QED
    BY <1>1, <1>2, <1>3 DEF Quiet, RetriesDrained, EndPhase

\* An action is claimed.
LEMMA QuietActClaim ==
  ASSUME IInv, AInv, ActClaim
  PROVE  Quiet
  <1>1. RowsMove
    BY DEF RowsMove, ClosedStay, ActClaim, WorkerTo
  <1>2. HandsAlike
    BY DEF HandsAlike, IInv, TypeOK, WorkerTypeOK, HandsOK, Workers, AutoPcs,
       ReplyPcs, ActClaim, WorkerTo
  <1>3. PassGoesOn
    BY DEF PassGoesOn, AInv, StartOK, StartPhases, IInv, HandsOK, ReplyPcs, ActClaim,
       WorkerTo
  <1> QED
    BY <1>1, <1>2, <1>3 DEF Quiet, ActClaim, WorkerTo

\* The checks before the mark.
LEMMA QuietActScreen ==
  ASSUME IInv, AInv, ActScreen
  PROVE  Quiet
  <1>1. RowsMove
    BY DEF RowsMove, ClosedStay, ActScreen, WorkerTo
  <1>2. HandsAlike
    BY DEF HandsAlike, IInv, TypeOK, WorkerTypeOK, HandsOK, Workers, AutoPcs,
       ReplyPcs, ActScreen, WorkerTo
  <1>3. PassGoesOn
    BY DEF PassGoesOn, AInv, StartOK, StartPhases, IInv, HandsOK, ReplyPcs, ActScreen,
       WorkerTo
  <1> QED
    BY <1>1, <1>2, <1>3 DEF Quiet, ActScreen, WorkerTo

\* The mark.
LEMMA QuietActMark ==
  ASSUME IInv, AInv, ActMark
  PROVE  Quiet
  <1>1. RowsMove
    BY DEF RowsMove, ClosedStay, ActMark, WorkerTo
  <1>2. HandsAlike
    BY DEF HandsAlike, IInv, TypeOK, WorkerTypeOK, HandsOK, Workers, AutoPcs,
       ReplyPcs, ActMark, WorkerTo
  <1>3. PassGoesOn
    BY DEF PassGoesOn, AInv, StartOK, StartPhases, IInv, HandsOK, ReplyPcs, ActMark,
       WorkerTo
  <1> QED
    BY <1>1, <1>2, <1>3 DEF Quiet, ActMark, WorkerTo

\* The reply is typed.
LEMMA QuietActType ==
  ASSUME IInv, AInv, ActType
  PROVE  Quiet
  <1>1. RowsMove
    BY DEF RowsMove, ClosedStay, ActType, WorkerTo
  <1>2. HandsAlike
    BY DEF HandsAlike, IInv, TypeOK, WorkerTypeOK, HandsOK, Workers, AutoPcs,
       ReplyPcs, ActType, WorkerTo
  <1>3. PassGoesOn
    BY DEF PassGoesOn, AInv, StartOK, StartPhases, IInv, HandsOK, ReplyPcs, ActType,
       WorkerTo
  <1> QED
    BY <1>1, <1>2, <1>3 DEF Quiet, ActType, WorkerTo

\* The correction is marked sent.
LEMMA QuietActSent ==
  ASSUME IInv, AInv, ActSent
  PROVE  Quiet
  <1>1. RowsMove
    BY DEF RowsMove, ClosedStay, ActSent, WorkerTo
  <1>2. HandsAlike
    BY DEF HandsAlike, IInv, TypeOK, WorkerTypeOK, HandsOK, Workers, AutoPcs,
       ReplyPcs, ActSent, WorkerTo
  <1>3. PassGoesOn
    BY DEF PassGoesOn, AInv, StartOK, StartPhases, IInv, HandsOK, ReplyPcs, ActSent,
       WorkerTo
  <1> QED
    BY <1>1, <1>2, <1>3 DEF Quiet, ActSent, WorkerTo

\* The action's outcome.
LEMMA QuietActFinish ==
  ASSUME IInv, AInv, ActFinish
  PROVE  Quiet
  <1>1. RowsMove
    BY DEF RowsMove, ClosedStay, ActFinish, WorkerTo
  <1>2. HandsAlike
    BY DEF HandsAlike, IInv, TypeOK, WorkerTypeOK, HandsOK, Workers, AutoPcs,
       ReplyPcs, ActFinish, WorkerTo
  <1>3. PassGoesOn
    BY DEF PassGoesOn, AInv, StartOK, StartPhases, IInv, HandsOK, ReplyPcs, ActFinish,
       WorkerTo
  <1> QED
    BY <1>1, <1>2, <1>3 DEF Quiet, ActFinish, WorkerTo

\* A correction resolves its row.
LEMMA QuietApplyCorrection ==
  ASSUME IInv, AInv, ApplyCorrection
  PROVE  Quiet
  <1>1. RowsMove
    BY DEF RowsMove, ClosedStay, NeverTaken, IInv, TypeOK, StoreTypeOK, QueueOK,
       ApplyCorrection, SetStatus
  <1>2. HandsAlike
    BY DEF HandsAlike, ApplyCorrection, SetStatus
  <1>3. PassGoesOn
    BY DEF PassGoesOn, AInv, StartOK, StartPhases, IInv, HandsOK, ReplyPcs,
       ApplyCorrection, SetStatus
  <1> QED
    BY <1>1, <1>2, <1>3 DEF Quiet, ApplyCorrection, SetStatus

\* A correction is consumed.
LEMMA QuietMarkCorrectionProcessed ==
  ASSUME IInv, AInv, MarkCorrectionProcessed
  PROVE  Quiet
  <1>1. RowsMove
    BY DEF RowsMove, ClosedStay, MarkCorrectionProcessed
  <1>2. HandsAlike
    BY DEF HandsAlike, MarkCorrectionProcessed
  <1>3. PassGoesOn
    BY DEF PassGoesOn, AInv, StartOK, StartPhases, IInv, HandsOK, ReplyPcs,
       MarkCorrectionProcessed
  <1> QED
    BY <1>1, <1>2, <1>3 DEF Quiet, MarkCorrectionProcessed

\* A retry retires its row, if it is still pending.
LEMMA QuietApplyLLMRetry ==
  ASSUME IInv, AInv, ApplyLLMRetry
  PROVE  Quiet
  <1>1. RowsMove
    BY DEF RowsMove, ClosedStay, NeverTaken, IInv, TypeOK, StoreTypeOK, ApplyLLMRetry,
       GuardedStatus
  <1>2. HandsAlike
    BY DEF HandsAlike, ApplyLLMRetry, GuardedStatus
  <1>3. PassGoesOn
    BY DEF PassGoesOn, AInv, StartOK, StartPhases, IInv, HandsOK, ReplyPcs,
       ApplyLLMRetry, GuardedStatus
  <1> QED
    BY <1>1, <1>2, <1>3 DEF Quiet, ApplyLLMRetry, GuardedStatus

\* The abandoned actions of the last life.
LEMMA QuietReclaimRunningAgentActions ==
  ASSUME IInv, AInv, ReclaimRunningAgentActions
  PROVE  Quiet
  <1>1. RowsMove
    BY DEF RowsMove, ClosedStay, ReclaimRunningAgentActions
  <1>2. HandsAlike
    BY DEF HandsAlike, ReclaimRunningAgentActions
  <1>3. PassGoesOn
    BY DEF PassGoesOn, AInv, StartOK, StartPhases, IInv, HandsOK, ReplyPcs,
       ReclaimRunningAgentActions
  <1> QED
    BY <1>1, <1>2, <1>3 DEF Quiet, ReclaimRunningAgentActions

\* The listing of the sweep.
LEMMA QuietListAgents ==
  ASSUME IInv, AInv, ListAgents
  PROVE  Quiet
  <1>1. RowsMove
    BY DEF RowsMove, ClosedStay, ListAgents
  <1>2. HandsAlike
    BY DEF HandsAlike, ListAgents
  <1>3. PassGoesOn
    BY DEF PassGoesOn, AInv, StartOK, StartPhases, IInv, HandsOK, ReplyPcs, ListAgents
  <1> QED
    BY <1>1, <1>2, <1>3 DEF Quiet, ListAgents

\* The sweep takes its candidates.
LEMMA QuietBeginSweep ==
  ASSUME IInv, AInv, BeginSweep
  PROVE  Quiet
  <1>1. RowsMove
    BY DEF RowsMove, ClosedStay, BeginSweep
  <1>2. HandsAlike
    BY DEF HandsAlike, BeginSweep
  <1>3. PassGoesOn
    BY DEF PassGoesOn, AInv, StartOK, StartPhases, IInv, HandsOK, ReplyPcs, BeginSweep
  <1> QED
    BY <1>1, <1>2, <1>3 DEF Quiet, BeginSweep

\* A candidate is passed over.
LEMMA QuietSweepSkip ==
  ASSUME IInv, AInv, SweepSkip
  PROVE  Quiet
  <1>1. RowsMove
    BY DEF RowsMove, ClosedStay, SweepSkip
  <1>2. HandsAlike
    BY DEF HandsAlike, SweepSkip
  <1>3. PassGoesOn
    BY DEF PassGoesOn, AInv, StartOK, StartPhases, IInv, HandsOK, ReplyPcs, SweepSkip
  <1> QED
    BY <1>1, <1>2, <1>3 DEF Quiet, SweepSkip

\* A noop row is retired.
LEMMA QuietSweepNoop ==
  ASSUME IInv, AInv, SweepNoop
  PROVE  Quiet
  <1>1. RowsMove
    BY DEF RowsMove, ClosedStay, NeverTaken, IInv, TypeOK, StoreTypeOK, SweepNoop,
       Dismiss, GuardedStatus
  <1>2. HandsAlike
    BY DEF HandsAlike, SweepNoop, Dismiss, GuardedStatus
  <1>3. PassGoesOn
    BY DEF PassGoesOn, AInv, StartOK, StartPhases, IInv, HandsOK, ReplyPcs, SweepNoop,
       Dismiss, GuardedStatus
  <1> QED
    BY <1>1, <1>2, <1>3 DEF Quiet, SweepNoop, Dismiss, GuardedStatus

\* A row of a missing agent is noted or retired.
LEMMA QuietSweepAbsent ==
  ASSUME IInv, AInv, SweepAbsent
  PROVE  Quiet
  <1>1. RowsMove
    BY DEF RowsMove, ClosedStay, NeverTaken, IInv, TypeOK, StoreTypeOK, SweepAbsent,
       Dismiss, GuardedStatus
  <1>2. HandsAlike
    BY DEF HandsAlike, SweepAbsent, Dismiss, GuardedStatus
  <1>3. PassGoesOn
    BY DEF PassGoesOn, AInv, StartOK, StartPhases, IInv, HandsOK, ReplyPcs,
       SweepAbsent, Dismiss, GuardedStatus
  <1> QED
    BY <1>1, <1>2, <1>3 DEF Quiet, SweepAbsent, Dismiss, GuardedStatus

\* The sweep ends.
LEMMA QuietEndSweep ==
  ASSUME IInv, AInv, EndSweep
  PROVE  Quiet
  <1>1. RowsMove
    BY DEF RowsMove, ClosedStay, EndSweep
  <1>2. HandsAlike
    BY DEF HandsAlike, EndSweep
  <1>3. PassGoesOn
    BY DEF PassGoesOn, AInv, StartOK, StartPhases, IInv, HandsOK, ReplyPcs, EndSweep
  <1> QED
    BY <1>1, <1>2, <1>3 DEF Quiet, EndSweep

-----------------------------------------------------------------------------
(* Facts about one state.                                                  *)

\* No two workers are in the guard chain for one row.
LEMMA OneHand ==
  ASSUME IInv, AInv, NEW v \in Workers, NEW w \in Workers,
         wpc[v] \in AutoPcs, wpc[w] \in AutoPcs, wrow[v] = wrow[w]
  PROVE  v = w
  <1>1. ASSUME NEW a \in Agents, wpc[a] \in AutoPcs PROVE AgentOf[wrow[a]] = a
    BY <1>1 DEF AInv, WritersOK, AutoPcs
  <1>2. ASSUME NEW a \in Agents, wpc[a] \in AutoPcs, wpc[Loop] \in AutoPcs
        PROVE  wrow[a] # wrow[Loop]
    BY <1>1, <1>2 DEF AInv, WritersOK, OneAutomaticWriterPerPane, AutoPcs, Workers
  <1> QED BY <1>1, <1>2 DEF Workers

\* A worker in the guard chain has a row, and the daemon it belongs to is past its startup.
LEMMA WorkerRuns ==
  ASSUME IInv, AInv, NEW w \in Workers, wpc[w] \in AutoPcs
  PROVE  wrow[w] \in Rows /\ up /\ pass # "start"
  <1>1. wrow[w] \in Rows
    BY DEF IInv, HandsOK
  <1>2. pass # "start"
    BY DEF AInv, StartOK, StartPhases, IInv, HandsOK, AutoPcs, Workers
  <1>3. up
    BY <1>2 DEF AInv, StartOK
  <1> QED BY <1>1, <1>2, <1>3

-----------------------------------------------------------------------------
(* The kill switch, a raised row, and the sweep's own steps.               *)

\* The kill switch clears what was counted since the last one.
LEMMA AutoKeepsPauseOrResume ==
  ASSUME IInv, AInv, PauseOrResume
  PROVE  StepOK
  <1>1. StartOK' /\ WritersOK' /\ ClaimOK' /\ TypedOK'
    BY DEF AInv, StartOK, WritersOK, OneAutomaticWriterPerPane, ClaimOK, TypedOK,
       PauseOrResume
  <1>2. LateOK'
    BY DEF LateOK, PauseOrResume
  <1>3. ClosedStay /\ (StrandedOK => StrandedOK')
    BY DEF ClosedStay, StrandedOK, NoStrandedClaim, PauseOrResume
  <1> QED BY <1>1, <1>2, <1>3 DEF StepOK, AInv

\* A raised row was never answered; its goroutine starts while the pane is free.
LEMMA AutoKeepsRaise ==
  ASSUME IInv, AInv, NEW r \in Rows, Raise(r)
  PROVE  StepOK
  <1> DEFINE a == AgentOf[r]
  <1>1. wpc[Loop] = "idle" /\ up /\ pass # "start" /\ wrow[Loop] = 0
    BY DEF Raise, LoopFree, AInv, StartOK, StartPhases, WritersOK, AutoPcs, Workers
  <1>2. /\ \A w \in Workers :
             \/ wpc'[w] = wpc[w] /\ wrow'[w] = wrow[w]
             \/ w = a /\ wpc[w] = "idle" /\ wpc'[w] = "check" /\ wrow'[w] = r
        /\ wpc'[Loop] = "idle" /\ wrow'[Loop] = 0
    BY <1>1 DEF Raise, paneBusy, IInv, TypeOK, WorkerTypeOK, Workers
  <1>3. StartOK'
    BY <1>1 DEF StartOK, Raise, LoopFree
  <1>4. WritersOK'
    BY <1>1, <1>2 DEF AInv, WritersOK, OneAutomaticWriterPerPane, AutoPcs, Workers
  <1>5. ClaimOK' /\ TypedOK' /\ ClosedStay
    BY <1>2 DEF AInv, ClaimOK, TypedOK, ClosedStay, HoldPcs, NeverTaken, Raise, SetStatus,
       IInv, TypeOK, StoreTypeOK, WorkerTypeOK
  <1>6. LateOK'
    BY <1>2 DEF AInv, LateOK, Raise
  <1>7. StrandedOK => StrandedOK'
    BY <1>1, <1>2 DEF StrandedOK, NoStrandedClaim, Raise, LoopFree, SetStatus, IInv, TypeOK,
       StoreTypeOK
  <1> QED BY <1>3, <1>4, <1>5, <1>6, <1>7 DEF StepOK, AInv

\* The obligations of earlier sweeps: each releases a claim nobody holds.
LEMMA AutoKeepsSettleObligations ==
  ASSUME IInv, AInv, SettleObligations
  PROVE  StepOK
  <1>1. pass # "start"
    BY DEF SettleObligations, AInv, StartOK, StartPhases
  <1>2. PICK finalized \in SUBSET needsFinalize, reverted \in SUBSET needsRevert :
          /\ needsFinalize' = needsFinalize \ finalized
          /\ needsRevert' = needsRevert \ reverted
          /\ status' = [r \in Rows |->
               IF status[r] # "auto_accepting" THEN status[r]
               ELSE IF r \in finalized THEN "auto_accepted"
               ELSE IF r \in reverted THEN "escalated" ELSE status[r]]
    BY DEF SettleObligations
  <1>3. UNCHANGED <<up, pass, wpc, wrow, typedAuto, crashes, late, killed>> /\ phase' = "begin"
    BY DEF SettleObligations
  <1>4. StartOK' /\ WritersOK' /\ LateOK'
    BY <1>1, <1>3 DEF AInv, StartOK, WritersOK, OneAutomaticWriterPerPane, LateOK
  <1>5. ClaimOK'
    <2>1. \A r \in Rows : status'[r] \in NeverTaken =>
            \/ status[r] \in NeverTaken
            \/ r \in needsRevert /\ r \in reverted /\ status[r] = "auto_accepting"
      BY <1>2 DEF NeverTaken
    <2>2. \A w \in Workers : wpc[w] \in HoldPcs => wrow[w] \in Rows
      BY DEF IInv, HandsOK, HoldPcs, AutoPcs
    <2> QED BY <1>2, <1>3, <2>1, <2>2 DEF AInv, ClaimOK, IInv, TypeOK, WorkerTypeOK
  <1>6. TypedOK' /\ ClosedStay
    BY <1>2, <1>3 DEF AInv, TypedOK, ClosedStay, NeverTaken
  <1>7. StrandedOK => StrandedOK'
    BY <1>1, <1>2, <1>3 DEF StrandedOK, NoStrandedClaim
  <1> QED BY <1>4, <1>5, <1>6, <1>7 DEF StepOK, AInv

\* The loop takes a row whose agent's pane is free.
LEMMA AutoKeepsSweepTake ==
  ASSUME IInv, AInv, SweepTake
  PROVE  StepOK
  <1>1. pass # "start" /\ wpc[Loop] = "idle" /\ up
    BY DEF SweepTake, AInv, StartOK, StartPhases
  <1>2. UNCHANGED <<up, pass, phase, status, needsFinalize, needsRevert, typedAuto, crashes, late, killed>>
    BY DEF SweepTake
  <1>3. CASE UNCHANGED workers
    BY <1>1, <1>2, <1>3 DEF AInv, StepOK, StartOK, WritersOK, OneAutomaticWriterPerPane, ClaimOK, TypedOK,
       LateOK, StrandedOK, NoStrandedClaim, ClosedStay
  <1>4. ASSUME NEW r \in Rows, ~paneBusy(AgentOf[r]),
               wpc' = [wpc EXCEPT ![Loop] = "check"], wrow' = [wrow EXCEPT ![Loop] = r]
        PROVE  StepOK
    <2>1. /\ wpc'[Loop] = "check" /\ wrow'[Loop] = r
          /\ \A a \in Agents : wpc'[a] = wpc[a] /\ wrow'[a] = wrow[a]
      BY <1>4 DEF IInv, TypeOK, WorkerTypeOK, Workers
    <2>2. StartOK' /\ LateOK'
      BY <1>1, <1>2, <2>1 DEF AInv, StartOK, LateOK, Workers
    <2>3. WritersOK'
      BY <1>4, <2>1 DEF AInv, WritersOK, OneAutomaticWriterPerPane, paneBusy, AutoPcs, Workers
    <2>4. ClaimOK' /\ TypedOK'
      BY <1>2, <2>1 DEF AInv, ClaimOK, TypedOK, HoldPcs, Workers
    <2>5. ClosedStay
      BY <1>2 DEF ClosedStay
    <2>6. ASSUME StrandedOK PROVE StrandedOK'
      <3>1. ASSUME NEW w \in Workers PROVE w = Loop \/ (w \in Agents /\ wpc'[w] = wpc[w] /\ wrow'[w] = wrow[w])
        BY <2>1 DEF Workers
      <3>2. ASSUME NEW w \in Workers, wpc[w] # "idle" PROVE wpc'[w] = wpc[w] /\ wrow'[w] = wrow[w]
        BY <1>1, <3>1, <3>2
      <3>3. ASSUME NEW x \in Rows, status[x] = "auto_accepting"
            PROVE  \/ x \in needsFinalize \cup needsRevert
                   \/ \E w \in Workers : wrow'[w] = x /\ wpc'[w] \in HoldPcs
        <4>1. \/ x \in needsFinalize \cup needsRevert
              \/ \E w \in Workers : wrow[w] = x /\ wpc[w] \in HoldPcs
          BY <1>1, <2>6, <3>3 DEF StrandedOK, NoStrandedClaim, HoldPcs
        <4>2. ASSUME NEW w \in Workers, wpc[w] \in HoldPcs PROVE wpc'[w] = wpc[w] /\ wrow'[w] = wrow[w]
          BY <3>2, <4>2 DEF HoldPcs
        <4> QED BY <4>1, <4>2
      <3>4. NoStrandedClaim'
        BY <1>2, <3>3 DEF NoStrandedClaim, HoldPcs
      <3> QED BY <1>1, <1>2, <3>4 DEF StrandedOK
    <2> QED BY <2>2, <2>3, <2>4, <2>5, <2>6 DEF StepOK, AInv
  <1> QED BY <1>3, <1>4 DEF SweepTake, IInv, TypeOK, LoopTypeOK

-----------------------------------------------------------------------------
(* Crash and startup recovery.                                             *)

\* A crash empties the hands and the books and begins a life.
LEMMA AutoKeepsCrash ==
  ASSUME IInv, AInv, Crash
  PROVE  StepOK
  <1>1. \A w \in Workers : wpc'[w] = "idle" /\ wrow'[w] = 0
    BY DEF Crash
  <1>2. StartOK'
    BY <1>1 DEF Crash, AInv, StartOK, StartPhases, TypedOK, Workers
  <1>3. WritersOK' /\ ClaimOK'
    BY <1>1 DEF Crash, WritersOK, OneAutomaticWriterPerPane, ClaimOK, AutoPcs, HoldPcs, Workers
  <1>4. TypedOK'
    BY <1>1 DEF Crash, AInv, TypedOK, IInv, TypeOK, WorldTypeOK
  <1>5. LateOK'
    <2>1. \A w \in Workers : wpc'[w] # "claim" BY <1>1
    <2>2. \A w \in Workers : late'[w] <= 1 /\ (~killed' => late'[w] = 0)
      BY DEF Crash, AInv, LateOK
    <2> QED BY <2>1, <2>2 DEF LateOK
  <1>6. ClosedStay /\ StrandedOK'
    BY DEF Crash, ClosedStay, StrandedOK, NoStrandedClaim
  <1> QED BY <1>2, <1>3, <1>4, <1>5, <1>6 DEF StepOK, AInv

\* A start drains the corrections of the last life first.
LEMMA AutoKeepsStart ==
  ASSUME IInv, AInv, Start
  PROVE  StepOK
  <1>1. StartOK'
    BY DEF Start, AInv, StartOK, StartPhases
  <1>2. WritersOK' /\ ClaimOK' /\ TypedOK' /\ LateOK'
    BY DEF Start, AInv, WritersOK, OneAutomaticWriterPerPane, ClaimOK, TypedOK, LateOK
  <1>3. ClosedStay /\ StrandedOK'
    BY DEF Start, ClosedStay, StrandedOK, NoStrandedClaim
  <1> QED BY <1>1, <1>2, <1>3 DEF StepOK, AInv

\* Startup returns every claim of the last life to the queue.
LEMMA AutoKeepsReclaimAbandonedAutoAccepts ==
  ASSUME IInv, AInv, ReclaimAbandonedAutoAccepts
  PROVE  StepOK
  <1>1. pass = "start"
    BY DEF ReclaimAbandonedAutoAccepts, AInv, StartOK
  <1>2. phase # "sweep" /\ phase # "actions"
    BY DEF ReclaimAbandonedAutoAccepts
  <1>3. \A w \in Workers : wpc[w] \notin AutoPcs
    BY <1>1, <1>2 DEF AInv, StartOK, IInv, HandsOK, AutoPcs, Workers
  <1>4. StartOK'
    BY <1>1 DEF ReclaimAbandonedAutoAccepts, AInv, StartOK, StartPhases
  <1>5. WritersOK'
    BY DEF ReclaimAbandonedAutoAccepts, AInv, WritersOK, OneAutomaticWriterPerPane
  <1>6. ClaimOK' /\ LateOK'
    BY <1>1, <1>3 DEF ReclaimAbandonedAutoAccepts, AInv, StartOK, ClaimOK, LateOK, HoldPcs, AutoPcs
  <1>7. TypedOK'
    BY <1>1, <1>3 DEF ReclaimAbandonedAutoAccepts, AInv, StartOK, TypedOK, AutoPcs
  <1>8. ClosedStay
    BY DEF ReclaimAbandonedAutoAccepts, ClosedStay
  <1>9. SureWrites => StrandedOK'
    BY <1>1 DEF ReclaimAbandonedAutoAccepts, SureWrites, Fails, StrandedOK, NoStrandedClaim
  <1> QED BY <1>4, <1>5, <1>6, <1>7, <1>8, <1>9 DEF StepOK, AInv

-----------------------------------------------------------------------------
(* The guard chain of one worker.                                          *)

\* What a worker's step leaves alone.
Others(w) ==
  /\ \A v \in Workers \ {w} : wpc'[v] = wpc[v] /\ wrow'[v] = wrow[v]
  /\ UNCHANGED <<up, phase, pass, crashes, killed>>

\* A worker that goes on keeps its row; one that ends lets go of it.
LEMMA WorkerMoves ==
  ASSUME IInv, NEW w \in Workers
  PROVE  /\ \A pc : WorkerTo(w, pc) =>
              /\ wpc'[w] = pc /\ wrow' = wrow
              /\ \A v \in Workers \ {w} : wpc'[v] = wpc[v] /\ wrow'[v] = wrow[v]
         /\ WorkerDone(w) =>
              /\ wpc'[w] = "idle" /\ wrow'[w] = 0
              /\ \A v \in Workers \ {w} : wpc'[v] = wpc[v] /\ wrow'[v] = wrow[v]
  BY DEF WorkerTo, WorkerDone, IInv, TypeOK, WorkerTypeOK

\* A held row is a row.
LEMMA HeldRows ==
  ASSUME IInv, NEW w \in Workers, wpc[w] \in HoldPcs
  PROVE  wrow[w] \in Rows
  BY DEF IInv, HandsOK, HoldPcs, AutoPcs

\* The startup facts and the ownership of panes survive any step of a worker.
LEMMA WorkerStep ==
  ASSUME IInv, AInv, NEW w \in Workers, wpc[w] \in AutoPcs, Others(w),
         \/ wpc'[w] \in AutoPcs /\ wrow'[w] = wrow[w]
         \/ wpc'[w] = "idle" /\ wrow'[w] = 0
  PROVE  StartOK' /\ WritersOK'
  <1>1. wrow[w] \in Rows /\ up /\ pass # "start"
    BY WorkerRuns
  <1>2. StartOK'
    BY <1>1 DEF StartOK, Others, AInv
  <1>3. WritersOK'
    BY <1>1 DEF AInv, WritersOK, OneAutomaticWriterPerPane, Others, AutoPcs, Workers
  <1> QED BY <1>2, <1>3

\* The guards: the row stays, or is retired.
LEMMA AutoKeepsCheck ==
  ASSUME IInv, AInv, NEW w \in Workers, AutoCheck(w)
  PROVE  StepOK
  <1> DEFINE r == wrow[w]
  <1>1. wpc[w] = "check" /\ r \in Rows /\ up /\ pass # "start"
    BY WorkerRuns DEF AutoCheck, AutoPcs
  <1>2. /\ Others(w)
        /\ UNCHANGED <<typedAuto, late, needsFinalize, needsRevert>>
        /\ \/ wpc'[w] = "lastlook" /\ wrow'[w] = wrow[w]
           \/ wpc'[w] = "idle" /\ wrow'[w] = 0
    BY WorkerMoves DEF AutoCheck, Others
  <1>3. \/ status' = status
        \/ /\ status' = [status EXCEPT ![r] = "dismissed"]
           /\ status[r] \in {"escalated", "auto_accepting"}
    BY DEF AutoCheck, Dismiss, GuardedStatus
  <1>4. StartOK' /\ WritersOK'
    BY <1>1, <1>2, WorkerStep DEF AutoPcs
  <1>5. ClaimOK' /\ TypedOK' /\ ClosedStay
    <2>1. \A q \in Rows : status'[q] \in NeverTaken => status[q] \in NeverTaken
      BY <1>1, <1>3 DEF NeverTaken, IInv, TypeOK, StoreTypeOK
    <2>2. \A v \in Workers : wpc'[v] \in HoldPcs => 
             wpc'[v] = wpc[v] /\ wrow'[v] = wrow[v] /\ wrow[v] \in Rows
      BY <1>1, <1>2, HeldRows DEF Others, HoldPcs
    <2>3. ClaimOK'
      BY <1>2, <2>1, <2>2 DEF AInv, ClaimOK, IInv, TypeOK, WorkerTypeOK
    <2>4. TypedOK'
      BY <1>2, <2>1, <2>2 DEF AInv, TypedOK, Others, HoldPcs
    <2>5. ClosedStay
      BY <1>1, <1>3 DEF ClosedStay, IInv, TypeOK, StoreTypeOK
    <2> QED BY <2>3, <2>4, <2>5
  <1>6. LateOK'
    BY <1>1, <1>2 DEF AInv, LateOK, Others
  <1>7. StrandedOK => StrandedOK'
    BY <1>1, <1>2, <1>3 DEF StrandedOK, NoStrandedClaim, Others, IInv, TypeOK, StoreTypeOK
  <1> QED BY <1>4, <1>5, <1>6, <1>7 DEF StepOK, AInv

\* The last look: only a worker that saw no pause goes on to claim.
LEMMA AutoKeepsLastLook ==
  ASSUME IInv, AInv, NEW w \in Workers, AutoLastLook(w)
  PROVE  StepOK
  <1>1. wpc[w] = "lastlook" /\ wrow[w] \in Rows /\ up /\ pass # "start"
    BY WorkerRuns DEF AutoLastLook, AutoPcs
  <1>2. /\ Others(w)
        /\ UNCHANGED <<status, typedAuto, late, needsFinalize, needsRevert>>
        /\ \/ wpc'[w] = "claim" /\ wrow'[w] = wrow[w] /\ ~killed
           \/ wpc'[w] = "idle" /\ wrow'[w] = 0
    BY WorkerMoves DEF AutoLastLook, Others
  <1>3. StartOK' /\ WritersOK'
    BY <1>1, <1>2, WorkerStep DEF AutoPcs
  <1>4. ClaimOK' /\ TypedOK' /\ ClosedStay
    BY <1>1, <1>2 DEF AInv, ClaimOK, TypedOK, ClosedStay, Others, HoldPcs
  <1>5. LateOK'
    BY <1>1, <1>2 DEF AInv, LateOK, Others
  <1>6. ASSUME StrandedOK PROVE StrandedOK'
    <2>1. \A v \in Workers : wpc[v] \in HoldPcs => wpc'[v] = wpc[v] /\ wrow'[v] = wrow[v]
      BY <1>1, <1>2 DEF Others, HoldPcs
    <2> QED BY <1>1, <1>2, <1>6, <2>1 DEF StrandedOK, NoStrandedClaim, HoldPcs, Others
  <1> QED BY <1>3, <1>4, <1>5, <1>6 DEF StepOK, AInv

\* The claim: the row leaves the queue with one worker, the first since a pause.
LEMMA AutoKeepsClaim ==
  ASSUME IInv, AInv, NEW w \in Workers, AutoClaim(w)
  PROVE  StepOK
  <1> DEFINE r == wrow[w]
  <1>1. wpc[w] = "claim" /\ r \in Rows /\ up /\ pass # "start"
    BY WorkerRuns DEF AutoClaim, AutoPcs
  <1>2. Others(w) /\ UNCHANGED <<typedAuto, needsFinalize, needsRevert>>
    BY WorkerMoves DEF AutoClaim, Others
  <1>3. \/ /\ wpc'[w] = "deliver" /\ wrow'[w] = wrow[w] /\ status[r] = "escalated"
           /\ status' = [status EXCEPT ![r] = "auto_accepting"]
           /\ late' = IF killed THEN [late EXCEPT ![w] = @ + 1] ELSE late
        \/ wpc'[w] = "idle" /\ wrow'[w] = 0 /\ status' = status /\ late' = late
    BY WorkerMoves DEF AutoClaim, GuardedStatus
  <1>4. StartOK' /\ WritersOK'
    BY <1>1, <1>2, <1>3, WorkerStep DEF AutoPcs
  <1>5. ClaimOK'
    <2>1. \A q \in Rows : status'[q] \in NeverTaken => status[q] \in NeverTaken
      BY <1>1, <1>3 DEF NeverTaken, IInv, TypeOK, StoreTypeOK
    <2>2. \A v \in Workers \ {w} : wpc'[v] \in HoldPcs =>
            wpc[v] \in HoldPcs /\ wrow'[v] = wrow[v] /\ wrow[v] \in Rows
      BY <1>2, HeldRows DEF Others
    <2>3. wpc'[w] \in HoldPcs =>
            /\ status'[wrow'[w]] \notin NeverTaken /\ wrow'[w] = r
            /\ r \notin needsFinalize \cup needsRevert
      BY <1>1, <1>3 DEF AInv, ClaimOK, HoldPcs, NeverTaken, IInv, TypeOK, StoreTypeOK
    <2>4. \A v \in Workers \ {w} : wpc'[v] \in HoldPcs =>
            /\ status'[wrow'[v]] \notin NeverTaken
            /\ wrow'[v] \notin needsFinalize \cup needsRevert
      BY <2>1, <2>2 DEF AInv, ClaimOK
    <2>5. \A q \in needsFinalize \cup needsRevert : status'[q] \notin NeverTaken
      BY <2>1 DEF AInv, ClaimOK, IInv, TypeOK, WorkerTypeOK
    <2>6. needsFinalize \cap needsRevert = {}
      BY DEF AInv, ClaimOK
    <2> QED BY <1>2, <2>3, <2>4, <2>5, <2>6 DEF ClaimOK
  <1>6. TypedOK' /\ ClosedStay
    BY <1>1, <1>2, <1>3 DEF AInv, TypedOK, ClosedStay, Others, NeverTaken, IInv, TypeOK,
       StoreTypeOK
  <1>7. LateOK'
    BY <1>1, <1>2, <1>3 DEF AInv, LateOK, Others, IInv, TypeOK, WorldTypeOK
  <1>8. StrandedOK => StrandedOK'
    BY <1>1, <1>2, <1>3 DEF StrandedOK, NoStrandedClaim, Others, IInv, TypeOK, StoreTypeOK
  <1> QED BY <1>4, <1>5, <1>6, <1>7, <1>8 DEF StepOK, AInv

\* The delivery: what is typed is typed for a row nobody else holds.
LEMMA AutoKeepsDeliver ==
  ASSUME IInv, AInv, NEW w \in Workers, AutoDeliver(w)
  PROVE  StepOK
  <1> DEFINE r == wrow[w]
  <1>1. wpc[w] = "deliver" /\ r \in Rows /\ up /\ pass # "start"
    BY WorkerRuns DEF AutoDeliver, AutoPcs
  <1>2. Others(w) /\ UNCHANGED <<status, late, needsFinalize, needsRevert>> /\ wrow' = wrow
    BY WorkerMoves DEF AutoDeliver, Others
  <1>3. \/ wpc'[w] = "finalize" /\ typedAuto' = [typedAuto EXCEPT ![r] = @ + 1]
        \/ wpc'[w] \in {"revert", "giveup"} /\ typedAuto' = typedAuto
    BY WorkerMoves DEF AutoDeliver
  <1>4. StartOK' /\ WritersOK'
    BY <1>1, <1>2, <1>3, WorkerStep DEF AutoPcs
  <1>5. ClaimOK' /\ ClosedStay
    BY <1>1, <1>2, <1>3 DEF AInv, ClaimOK, ClosedStay, Others, HoldPcs
  <1>6. TypedOK'
    <2>1. \A v \in Workers \ {w} : wpc[v] \in {"deliver", "revert"} => wrow[v] # r
      BY <1>1, OneHand DEF AutoPcs
    <2>2. status[r] \notin NeverTaken /\ r \notin needsRevert /\ typedAuto[r] <= crashes
      BY <1>1 DEF AInv, ClaimOK, TypedOK, HoldPcs
    <2>3. /\ \A q \in Rows : q # r => typedAuto'[q] = typedAuto[q]
          /\ typedAuto'[r] <= crashes + 1
          /\ wpc'[w] \in {"deliver", "revert"} => typedAuto'[r] <= crashes
      <3>1. typedAuto \in [Rows -> Nat] /\ crashes \in Nat /\ r \in Rows
        BY <1>1 DEF IInv, TypeOK, WorldTypeOK
      <3>2. CASE wpc'[w] = "finalize" /\ typedAuto' = [typedAuto EXCEPT ![r] = @ + 1]
        <4>1. typedAuto'[r] = typedAuto[r] + 1 BY <3>1, <3>2
        <4>2. \A q \in Rows : q # r => typedAuto'[q] = typedAuto[q] BY <3>1, <3>2
        <4> HIDE DEF r
        <4>3. typedAuto[r] \in Nat BY <3>1
        <4> QED BY <2>2, <3>1, <3>2, <4>1, <4>2, <4>3
      <3>3. CASE wpc'[w] \in {"revert", "giveup"} /\ typedAuto' = typedAuto
        <4> HIDE DEF r
        <4> QED BY <2>2, <3>1, <3>3
      <3> QED BY <1>3, <3>2, <3>3
    <2>4. \A q \in Rows : typedAuto'[q] <= crashes + 1
      BY <2>3 DEF AInv, TypedOK
    <2>5. \A v \in Workers \ {w} : wpc'[v] \in {"deliver", "revert"} =>
            typedAuto'[wrow'[v]] <= crashes
      BY <1>2, <2>1, <2>3, HeldRows DEF AInv, TypedOK, Others, HoldPcs
    <2>6. \A q \in needsRevert : typedAuto'[q] <= crashes
      BY <2>2, <2>3 DEF AInv, TypedOK, IInv, TypeOK, WorkerTypeOK
    <2>7. \A q \in Rows : status[q] \in NeverTaken => typedAuto'[q] <= crashes
      BY <2>2, <2>3 DEF AInv, TypedOK
    <2> QED BY <1>2, <2>3, <2>4, <2>5, <2>6, <2>7 DEF TypedOK, Others
  <1>7. LateOK'
    BY <1>1, <1>2, <1>3 DEF AInv, LateOK, Others
  <1>8. StrandedOK => StrandedOK'
    BY <1>1, <1>2, <1>3 DEF StrandedOK, NoStrandedClaim, Others
  <1> QED BY <1>4, <1>5, <1>6, <1>7, <1>8 DEF StepOK, AInv

\* The answer is recorded, or owed.
LEMMA AutoKeepsFinalize ==
  ASSUME IInv, AInv, NEW w \in Workers, AutoFinalize(w)
  PROVE  StepOK
  <1> DEFINE r == wrow[w]
  <1>1. wpc[w] = "finalize" /\ r \in Rows /\ up /\ pass # "start"
    BY WorkerRuns DEF AutoFinalize, AutoPcs
  <1>2. /\ Others(w) /\ UNCHANGED <<typedAuto, late, needsRevert>>
        /\ wpc'[w] = "idle" /\ wrow'[w] = 0
    BY WorkerMoves DEF AutoFinalize, Others
  <1>3. \/ /\ status' = IF status[r] = "auto_accepting"
                          THEN [status EXCEPT ![r] = "auto_accepted"] ELSE status
           /\ needsFinalize' = needsFinalize
        \/ status' = status /\ needsFinalize' = needsFinalize \cup {r}
    BY DEF AutoFinalize, GuardedStatus
  <1>4. \A v \in Workers \ {w} : wpc[v] \in AutoPcs => wrow[v] # r
    BY <1>1, OneHand DEF AutoPcs
  <1>5. StartOK' /\ WritersOK'
    BY <1>1, <1>2, WorkerStep DEF AutoPcs
  <1>6. ClaimOK'
    <2>1. \A q \in Rows : q # r => status'[q] = status[q]
      BY <1>3 DEF IInv, TypeOK, StoreTypeOK
    <2>2. \A v \in Workers : wpc'[v] \in HoldPcs =>
            /\ wpc'[v] = wpc[v] /\ wrow'[v] = wrow[v] /\ wrow[v] \in Rows
            /\ wrow[v] # r
      BY <1>1, <1>2, <1>4, HeldRows DEF Others, HoldPcs, AutoPcs
    <2>3. status[r] \notin NeverTaken /\ r \notin needsFinalize \cup needsRevert
      BY <1>1 DEF AInv, ClaimOK, HoldPcs
    <2>4. \A v \in Workers : wpc'[v] \in HoldPcs =>
            status'[wrow'[v]] \notin NeverTaken /\ wrow'[v] \notin (needsFinalize \cup needsRevert)'
      BY <1>2, <1>3, <2>1, <2>2 DEF AInv, ClaimOK
    <2>5. \A q \in (needsFinalize \cup needsRevert)' : status'[q] \notin NeverTaken
      BY <1>2, <1>3, <2>1, <2>3 DEF AInv, ClaimOK, NeverTaken, IInv, TypeOK, WorkerTypeOK,
         StoreTypeOK
    <2>6. (needsFinalize \cap needsRevert)' = {}
      BY <1>2, <1>3, <2>3 DEF AInv, ClaimOK
    <2> QED BY <2>4, <2>5, <2>6 DEF ClaimOK
  <1>7. TypedOK' /\ ClosedStay
    BY <1>1, <1>2, <1>3 DEF AInv, TypedOK, ClosedStay, Others, NeverTaken, IInv, TypeOK,
       StoreTypeOK
  <1>8. LateOK'
    BY <1>1, <1>2 DEF AInv, LateOK, Others
  <1>9. StrandedOK => StrandedOK'
    BY <1>1, <1>2, <1>3 DEF StrandedOK, NoStrandedClaim, Others, IInv, TypeOK, StoreTypeOK
  <1> QED BY <1>5, <1>6, <1>7, <1>8, <1>9 DEF StepOK, AInv

\* A claim that did not deliver goes back to the queue, or its return is owed.
LEMMA AutoKeepsRevert ==
  ASSUME IInv, AInv, NEW w \in Workers, AutoRevert(w)
  PROVE  StepOK
  <1> DEFINE r == wrow[w]
  <1>1. wpc[w] = "revert" /\ r \in Rows /\ up /\ pass # "start"
    BY WorkerRuns DEF AutoRevert, AutoPcs
  <1>2. /\ Others(w) /\ UNCHANGED <<typedAuto, late, needsFinalize>>
        /\ wpc'[w] = "idle" /\ wrow'[w] = 0
    BY WorkerMoves DEF AutoRevert, Others
  <1>3. \/ /\ status' = IF status[r] = "auto_accepting"
                          THEN [status EXCEPT ![r] = "escalated"] ELSE status
           /\ needsRevert' = needsRevert \ {r}
        \/ status' = status /\ needsRevert' = needsRevert \cup {r}
    BY DEF AutoRevert, GuardedStatus
  <1>4. \A v \in Workers \ {w} : wpc[v] \in AutoPcs => wrow[v] # r
    BY <1>1, OneHand DEF AutoPcs
  <1>5. StartOK' /\ WritersOK'
    BY <1>1, <1>2, WorkerStep DEF AutoPcs
  <1>6. ClaimOK'
    <2>1. \A q \in Rows : q # r => status'[q] = status[q]
      BY <1>3 DEF IInv, TypeOK, StoreTypeOK
    <2>2. \A v \in Workers : wpc'[v] \in HoldPcs =>
            /\ wpc'[v] = wpc[v] /\ wrow'[v] = wrow[v] /\ wrow[v] \in Rows
            /\ wrow[v] # r
      BY <1>1, <1>2, <1>4, HeldRows DEF Others, HoldPcs, AutoPcs
    <2>3. status[r] \notin NeverTaken /\ r \notin needsFinalize \cup needsRevert
      BY <1>1 DEF AInv, ClaimOK, HoldPcs
    <2>4. \A v \in Workers : wpc'[v] \in HoldPcs =>
            status'[wrow'[v]] \notin NeverTaken /\ wrow'[v] \notin (needsFinalize \cup needsRevert)'
      BY <1>2, <1>3, <2>1, <2>2 DEF AInv, ClaimOK
    <2>5. \A q \in (needsFinalize \cup needsRevert)' : status'[q] \notin NeverTaken
      BY <1>2, <1>3, <2>1, <2>3 DEF AInv, ClaimOK, NeverTaken, IInv, TypeOK, WorkerTypeOK,
         StoreTypeOK
    <2>6. (needsFinalize \cap needsRevert)' = {}
      BY <1>2, <1>3, <2>3 DEF AInv, ClaimOK
    <2> QED BY <2>4, <2>5, <2>6 DEF ClaimOK
  <1>7. TypedOK' /\ ClosedStay
    BY <1>1, <1>2, <1>3 DEF AInv, TypedOK, ClosedStay, Others, NeverTaken, IInv, TypeOK,
       StoreTypeOK
  <1>8. LateOK'
    BY <1>1, <1>2 DEF AInv, LateOK, Others
  <1>9. StrandedOK => StrandedOK'
    BY <1>1, <1>2, <1>3 DEF StrandedOK, NoStrandedClaim, Others, IInv, TypeOK, StoreTypeOK
  <1> QED BY <1>5, <1>6, <1>7, <1>8, <1>9 DEF StepOK, AInv

\* Giving up retires the row, unless that write fails.
LEMMA AutoKeepsGiveUp ==
  ASSUME IInv, AInv, NEW w \in Workers, AutoGiveUp(w)
  PROVE  StepOK
  <1> DEFINE r == wrow[w]
  <1>1. wpc[w] = "giveup" /\ r \in Rows /\ up /\ pass # "start"
    BY WorkerRuns DEF AutoGiveUp, AutoPcs
  <1>2. /\ Others(w) /\ UNCHANGED <<typedAuto, late, needsFinalize, needsRevert>>
        /\ wpc'[w] = "idle" /\ wrow'[w] = 0
    BY WorkerMoves DEF AutoGiveUp, Others
  <1>3. \/ status' = IF status[r] \in {"escalated", "auto_accepting"}
                       THEN [status EXCEPT ![r] = "dismissed"] ELSE status
        \/ status' = status /\ "dismiss" \in Faults
    BY DEF AutoGiveUp, Dismiss, GuardedStatus, Fails
  <1>4. StartOK' /\ WritersOK'
    BY <1>1, <1>2, WorkerStep DEF AutoPcs
  <1>5. ClaimOK' /\ TypedOK' /\ ClosedStay
    <2>1. \A q \in Rows : status'[q] \in NeverTaken => status[q] \in NeverTaken
      BY <1>1, <1>3 DEF NeverTaken, IInv, TypeOK, StoreTypeOK
    <2>2. \A v \in Workers : wpc'[v] \in HoldPcs => 
             wpc'[v] = wpc[v] /\ wrow'[v] = wrow[v] /\ wrow[v] \in Rows
      BY <1>1, <1>2, HeldRows DEF Others, HoldPcs
    <2>3. ClaimOK'
      BY <1>2, <2>1, <2>2 DEF AInv, ClaimOK, IInv, TypeOK, WorkerTypeOK
    <2>4. TypedOK'
      BY <1>2, <2>1, <2>2 DEF AInv, TypedOK, Others, HoldPcs
    <2>5. ClosedStay
      BY <1>1, <1>3 DEF ClosedStay, IInv, TypeOK, StoreTypeOK
    <2> QED BY <2>3, <2>4, <2>5
  <1>6. LateOK'
    BY <1>1, <1>2 DEF AInv, LateOK, Others
  <1>7. SureWrites /\ StrandedOK => StrandedOK'
    BY <1>1, <1>2, <1>3 DEF StrandedOK, NoStrandedClaim, SureWrites, Others, IInv, TypeOK,
       StoreTypeOK
  <1> QED BY <1>4, <1>5, <1>6, <1>7 DEF StepOK, AInv

-----------------------------------------------------------------------------
(* The theorems.                                                           *)

LEMMA InitAuto == Init => AInv /\ StrandedOK
  <1> SUFFICES ASSUME Init PROVE AInv /\ StrandedOK OBVIOUS
  <1>1. StartOK /\ ClaimOK /\ LateOK
    BY DEF Init, StartOK, ClaimOK, LateOK, HoldPcs
  <1>2. WritersOK /\ TypedOK
    BY DEF Init, WritersOK, OneAutomaticWriterPerPane, TypedOK, AutoPcs, Workers
  <1>3. StrandedOK
    BY DEF Init, StrandedOK, NoStrandedClaim
  <1> QED BY <1>1, <1>2, <1>3 DEF AInv

\* Every step keeps the automatic path sound.
LEMMA AutoStepIsOK ==
  ASSUME IInv, AInv, [Next]_vars
  PROVE  StepOK
  <1>1. CASE Environment
    BY <1>1, QuietIsOK, QuietAsk, QuietAgentMoves, QuietConfirmAndSend, QuietConfirmOnly,
       QuietDismissEscalation, QuietPruneEscalations, QuietRetryLLM, QuietSetAgentEnabled,
       QuietSetFullSelfPrompting, QuietActionAges, AutoKeepsPauseOrResume, AutoKeepsCrash
       DEF Environment
  <1>2. CASE \E r \in Rows : Raise(r)
    BY <1>2, AutoKeepsRaise
  <1>3. CASE BeginPass("nudge") \/ BeginPass("tick")
    BY <1>3, QuietIsOK, QuietBeginPass
  <1>4. CASE QueueStep
    BY <1>4, QuietIsOK, QuietActClaim, QuietActScreen, QuietActMark, QuietActType,
       QuietActSent, QuietActFinish, QuietApplyCorrection, QuietMarkCorrectionProcessed,
       QuietApplyLLMRetry, QuietActionsDrained, QuietCorrectionsDrained, QuietRetriesDrained
       DEF QueueStep
  <1>5. CASE RecoveryStep
    BY <1>5, QuietIsOK, QuietReclaimRunningAgentActions, AutoKeepsStart,
       AutoKeepsReclaimAbandonedAutoAccepts DEF RecoveryStep
  <1>6. CASE SweepStep
    BY <1>6, QuietIsOK, QuietListAgents, QuietBeginSweep, QuietSweepSkip, QuietSweepNoop,
       QuietSweepAbsent, QuietEndSweep, AutoKeepsSettleObligations, AutoKeepsSweepTake
       DEF SweepStep
  <1>7. CASE \E w \in Workers : AutoStep(w)
    BY <1>7, AutoKeepsCheck, AutoKeepsLastLook, AutoKeepsClaim, AutoKeepsDeliver,
       AutoKeepsFinalize, AutoKeepsRevert, AutoKeepsGiveUp DEF AutoStep
  <1>8. CASE UNCHANGED vars
    <2>1. AInv'
      BY <1>8 DEF vars, AInv, StartOK, WritersOK, OneAutomaticWriterPerPane, ClaimOK, TypedOK,
         LateOK
    <2>2. ClosedStay /\ (StrandedOK => StrandedOK')
      BY <1>8 DEF vars, ClosedStay, StrandedOK, NoStrandedClaim
    <2> QED BY <2>1, <2>2 DEF StepOK
  <1> QED BY <1>1, <1>2, <1>3, <1>4, <1>5, <1>6, <1>7, <1>8 DEF Next

\* The inductive invariant of the automatic path.
THEOREM AutoInvariance == Spec => []AInv
  <1>1. Init => AInv BY InitAuto
  <1>2. IInv /\ AInv /\ [Next]_vars => AInv' BY AutoStepIsOK DEF StepOK
  <1> QED BY <1>1, <1>2, Invariance, PTL DEF Spec

\* The sweep and an agent's goroutine never drive one pane together (sweepInFlight).
THEOREM OneWriter == Spec => []OneAutomaticWriterPerPane
  <1>1. AInv => OneAutomaticWriterPerPane BY DEF AInv, WritersOK
  <1> QED BY <1>1, AutoInvariance, PTL

\* A row is answered at most once per life of the daemon (ClaimForAutoAccept).
THEOREM OncePerLife == Spec => []AutoAnswersOncePerLife
  <1>1. AInv => AutoAnswersOncePerLife BY DEF AInv, TypedOK, AutoAnswersOncePerLife
  <1> QED BY <1>1, AutoInvariance, PTL

\* A pause stops the automatic path: no worker wins a second claim after it
\* (claimBlockedBy).
THEOREM PauseStops == Spec => []PauseStopsClaims
  <1>1. AInv => PauseStopsClaims BY DEF AInv, LateOK, PauseStopsClaims
  <1> QED BY <1>1, AutoInvariance, PTL

\* Closed escalations stay closed: every write of the automatic path, of a retry and of
\* a dismissal is guarded by the status it expects.
THEOREM ClosedAlwaysStays == Spec => ClosedStaysClosed
  <1>1. IInv /\ AInv /\ [Next]_vars =>
          [\A r \in Rows : status[r] \in {"auto_accepted", "resolved", "dismissed", "retried"} =>
             status'[r] \in {status[r], "resolved"}]_vars
    BY AutoStepIsOK DEF StepOK, ClosedStay
  <1> QED BY <1>1, Invariance, AutoInvariance, PTL DEF Spec, ClosedStaysClosed

\* No claim is stranded out of sight, as long as the two writes nothing retries do not
\* fail: the give-up's dismissal and the startup's reclaim (revertClaim,
\* reclaimAbandonedAutoAccepts).
THEOREM NothingStranded ==
  ASSUME SureWrites
  PROVE  Spec => []NoStrandedClaim
  <1>1. Init => StrandedOK BY InitAuto
  <1>2. IInv /\ AInv /\ StrandedOK /\ [Next]_vars => StrandedOK'
    BY AutoStepIsOK DEF StepOK
  <1>3. StrandedOK => NoStrandedClaim BY DEF StrandedOK
  <1> QED BY <1>1, <1>2, <1>3, Invariance, AutoInvariance, PTL DEF Spec

\* The automatic path keeps all its promises, under the same two writes.
THEOREM AutomaticIsSound ==
  ASSUME SureWrites
  PROVE  Spec => []AutomaticAnswersAreSound
  <1>1. NoStrandedClaim /\ OneAutomaticWriterPerPane /\ AutoAnswersOncePerLife /\ PauseStopsClaims
          => AutomaticAnswersAreSound
    BY DEF AutomaticAnswersAreSound
  <1> QED BY <1>1, NothingStranded, OneWriter, OncePerLife, PauseStops, PTL
=============================================================================
