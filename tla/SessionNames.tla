---------------------------- MODULE SessionNames ----------------------------
(* One name for an agent in hap and in its Claude session: a session that was *)
(* named is adopted, and one that was not, or whose name could not be used as *)
(* it is, is renamed by typing /rename at its pane (daemon/sessionname.go).   *)
EXTENDS Integers

CONSTANTS
  SessionNameSet, \* what an operator may call a session
  Fold,           \* NormalizeAgentName: the agent name of a session name, or Unusable
  Taken,          \* agent names other agents hold
  SuffixOf,       \* the name AdoptAgentName gives when the name is taken
  Unusable, UnnamedSession, OwnName,
  MaxPushes, MaxDeferrals, MaxHumanMoves, MaxTerminals

ASSUME SessionNamesAssumption ==
  /\ MaxPushes \in Nat /\ MaxDeferrals \in Nat /\ MaxHumanMoves \in Nat /\ MaxTerminals \in Nat

AgentNames == {OwnName} \cup {Fold[n] : n \in SessionNameSet} \cup {SuffixOf[n] : n \in Taken}

VARIABLES
  session,   \* the Claude session: its name, whether it is parked, settled, drafting, and takes /rename
  hapName,   \* agents.name
  deferred,  \* sessionSyncDeferred: attempts so far, 0 when not armed
  pushes,    \* sessionRenamePushes of the terminal, by the name wanted
  push,      \* the rename goroutine: where it is, the name, the terminal
  syncOn,    \* agents.sync_claude_session_name
  syncPass,  \* sessionSyncPassRunning: "off", or which pass runs
  flip,      \* sessionSyncFlipPending
  typedIn,   \* history: renames typed at this terminal since the name was last forgotten
  owedFlip,  \* history: the switch went on and no full pass began since
  terminal, humanMoves

sessionVars == <<session, hapName, deferred, pushes, push, syncOn, syncPass, flip, typedIn, owedFlip,
                 terminal, humanMoves>>

NoPush == [at |-> "none"]
NoPushes == [n \in AgentNames |-> 0]
Quiet == session.parked /\ session.settled /\ ~session.draft

\* EnsureAgentName: an agent has a generated name of its own from first sight.
InitSession ==
  /\ session \in [name : {UnnamedSession}, parked : {TRUE}, settled : {FALSE}, draft : {FALSE}, takes : BOOLEAN]
  /\ hapName = OwnName /\ deferred = 0 /\ pushes = NoPushes /\ push = NoPush
  /\ syncOn = FALSE /\ syncPass = "off" /\ flip = FALSE
  /\ typedIn = NoPushes /\ owedFlip = FALSE /\ terminal = 1 /\ humanMoves = 0

-----------------------------------------------------------------------------
(* The session and the people at it *)

HumanActs ==
  /\ humanMoves < MaxHumanMoves /\ humanMoves' = humanMoves + 1
  /\ \/ \E n \in SessionNameSet : session' = [session EXCEPT !.name = n]
     \/ session' = [session EXCEPT !.draft = ~@]
     \/ session' = [session EXCEPT !.parked = ~@, !.settled = FALSE]
  /\ deferred' = IF session'.parked THEN deferred ELSE 0
  /\ UNCHANGED <<hapName, pushes, push, syncOn, syncPass, flip, typedIn, owedFlip, terminal>>

\* sessionRenameSettle has passed since the agent parked.
Settles ==
  /\ session.parked /\ ~session.settled /\ session' = [session EXCEPT !.settled = TRUE]
  /\ UNCHANGED <<hapName, deferred, pushes, push, syncOn, syncPass, flip, typedIn, owedFlip, terminal, humanMoves>>

\* The pane gets another tenant: resetRecycledPaneState forgets what was typed.
Recycles ==
  /\ terminal < MaxTerminals /\ terminal' = terminal + 1
  /\ session' = [session EXCEPT !.name = UnnamedSession, !.settled = FALSE, !.draft = FALSE]
  /\ pushes' = NoPushes /\ typedIn' = NoPushes /\ deferred' = 0
  /\ UNCHANGED <<hapName, push, syncOn, syncPass, flip, owedFlip, humanMoves>>

-----------------------------------------------------------------------------
(* Keeping at it, but not for ever *)

\* deferSessionSync: the sweep tries again later; past the bound it gives up.
DeferSessionSync == deferred' = IF deferred + 1 > MaxDeferrals THEN 0 ELSE deferred + 1
ClearSessionSyncDefer == deferred' = 0

\* AdoptAgentName: the folded name, or one with a suffix when it is taken.
AdoptAgentName(base) == IF base \in Taken THEN SuffixOf[base] ELSE base

\* startSessionRename: charges the budget, takes the pane and starts typing in
\* the background; a pane that is busy gives the charge back.
StartSessionRename(want) ==
  \/ /\ pushes[want] >= MaxPushes /\ ClearSessionSyncDefer /\ UNCHANGED <<pushes, push>>
  \/ /\ pushes[want] < MaxPushes /\ push # NoPush
     /\ DeferSessionSync /\ UNCHANGED <<pushes, push>>
  \/ /\ pushes[want] < MaxPushes /\ push = NoPush
     /\ pushes' = [pushes EXCEPT ![want] = @ + 1]
     /\ push' = [at |-> "start", want |-> want, term |-> terminal] /\ UNCHANGED deferred

\* applyClaudeSession: nothing to do, not now, adopt, or rename.
ApplyClaudeSession ==
  \/ /\ session.name = hapName /\ ClearSessionSyncDefer /\ UNCHANGED <<hapName, pushes, push>>
  \/ /\ session.name # hapName /\ ~Quiet /\ DeferSessionSync /\ UNCHANGED <<hapName, pushes, push>>
  \/ /\ session.name \notin {hapName, UnnamedSession} /\ Quiet /\ session.name \in SessionNameSet
     /\ Fold[session.name] = Unusable
     /\ ClearSessionSyncDefer /\ UNCHANGED <<hapName, pushes, push>>
  \/ /\ session.name \notin {hapName, UnnamedSession} /\ Quiet
     /\ LET base == IF session.name \in SessionNameSet THEN Fold[session.name] ELSE session.name
            assigned == AdoptAgentName(base) IN
        /\ base # Unusable /\ hapName' = assigned
        /\ IF assigned = session.name THEN ClearSessionSyncDefer /\ UNCHANGED <<pushes, push>>
           ELSE StartSessionRename(assigned)
  \/ /\ session.name = UnnamedSession /\ Quiet /\ UNCHANGED hapName /\ StartSessionRename(hapName)

\* syncClaudeSessionName, for a capture the loop made.
SyncClaudeSessionName ==
  /\ syncOn /\ ApplyClaudeSession
  /\ UNCHANGED <<session, syncOn, syncPass, flip, typedIn, owedFlip, terminal, humanMoves>>

-----------------------------------------------------------------------------
(* Typing the rename *)

\* Mutant: an attempt that typed nothing keeps its charge.
ReleaseSessionRenamePushNever(p) == pushes

\* releaseSessionRenamePush: an attempt that typed nothing is not counted. The
\* key holds the terminal, so a charge a recycled pane forgot stays forgotten.
ReleaseSessionRenamePush(p) ==
  IF p.term = terminal /\ pushes[p.want] > 0 THEN [pushes EXCEPT ![p.want] = @ - 1] ELSE pushes

\* pushSessionRename refuses: paused, disabled, a never-auto pattern, the agent
\* gone, busy, unsettled or recycled, no composer, a draft in it.
PushRefused ==
  /\ push.at = "start"
  /\ pushes' = ReleaseSessionRenamePush(push) /\ push' = NoPush
  /\ \/ DeferSessionSync
     \/ ClearSessionSyncDefer
     \/ UNCHANGED deferred
  /\ UNCHANGED <<session, hapName, syncOn, syncPass, flip, typedIn, owedFlip, terminal, humanMoves>>

\* The session has the name already: its budget starts anew.
PushFindsItDone ==
  /\ push.at = "start" /\ session.name = push.want /\ push.term = terminal
  /\ pushes' = [pushes EXCEPT ![push.want] = 0] /\ typedIn' = [typedIn EXCEPT ![push.want] = 0]
  /\ push' = NoPush /\ ClearSessionSyncDefer
  /\ UNCHANGED <<session, hapName, syncOn, syncPass, flip, owedFlip, terminal, humanMoves>>

PushChecks ==
  /\ push.at = "start" /\ Quiet /\ push.term = terminal /\ session.name # push.want
  /\ push' = [push EXCEPT !.at = "checked"]
  /\ UNCHANGED <<session, hapName, deferred, pushes, syncOn, syncPass, flip, typedIn, owedFlip, terminal, humanMoves>>

\* The keystrokes, whatever happened at the pane since the check.
PushTypes ==
  /\ push.at = "checked" /\ push' = [push EXCEPT !.at = "typed"]
  /\ session' = IF session.takes THEN [session EXCEPT !.name = push.want] ELSE session
  /\ typedIn' = IF push.term = terminal THEN [typedIn EXCEPT ![push.want] = @ + 1] ELSE typedIn
  /\ UNCHANGED <<hapName, deferred, pushes, syncOn, syncPass, flip, owedFlip, terminal, humanMoves>>

\* The session is read once more: only a name that took clears the budget.
PushVerifies ==
  /\ push.at = "typed" /\ push' = NoPush
  /\ \/ session.name = push.want /\ ClearSessionSyncDefer
        /\ IF push.term = terminal
           THEN pushes' = [pushes EXCEPT ![push.want] = 0] /\ typedIn' = [typedIn EXCEPT ![push.want] = 0]
           ELSE UNCHANGED <<pushes, typedIn>>
     \/ UNCHANGED <<deferred, pushes, typedIn>>
  /\ UNCHANGED <<session, hapName, syncOn, syncPass, flip, owedFlip, terminal, humanMoves>>

-----------------------------------------------------------------------------
(* The passes over the herd *)

\* A reload turns the switch on or off; on starts a full pass, or leaves word
\* for the pass that runs.
SwitchFlips ==
  /\ humanMoves < MaxHumanMoves /\ humanMoves' = humanMoves + 1
  /\ syncOn' = ~syncOn
  /\ owedFlip' = (~syncOn /\ syncPass # "off")
  /\ IF syncOn THEN UNCHANGED <<syncPass, flip>>
     ELSE IF syncPass # "off" THEN flip' = TRUE /\ UNCHANGED syncPass
     ELSE syncPass' = "full" /\ UNCHANGED flip
  /\ UNCHANGED <<session, hapName, deferred, pushes, push, typedIn, terminal>>

\* startSessionSyncRetryPass, from the sweep.
RetryPassStarts ==
  /\ deferred > 0
  /\ IF ~syncOn THEN deferred' = 0 /\ UNCHANGED syncPass
     ELSE syncPass = "off" /\ syncPass' = "retry" /\ UNCHANGED deferred
  /\ UNCHANGED <<session, hapName, pushes, push, syncOn, flip, typedIn, owedFlip, terminal, humanMoves>>

\* Mutant: the pass ends without looking for word left.
PassEndsDeaf ==
  /\ syncPass \in {"full", "retry"} /\ syncPass' = "off"
  /\ UNCHANGED <<session, hapName, deferred, pushes, push, syncOn, flip, typedIn, owedFlip, terminal, humanMoves>>

\* The pass reaches the agent and ends: releaseSessionSyncPass starts the full
\* pass a flip asked for meanwhile.
PassEnds ==
  /\ syncPass \in {"full", "retry"}
  /\ syncPass' = IF flip THEN "full" ELSE "off"
  /\ flip' = FALSE /\ owedFlip' = (owedFlip /\ ~flip)
  /\ IF syncOn /\ (syncPass = "full" \/ deferred > 0) THEN ApplyClaudeSession
     ELSE UNCHANGED <<hapName, deferred, pushes, push>>
  /\ UNCHANGED <<session, syncOn, typedIn, terminal, humanMoves>>

PushStep == PushRefused \/ PushFindsItDone \/ PushChecks \/ PushTypes \/ PushVerifies

NextSession ==
  \/ HumanActs \/ Settles \/ Recycles \/ SyncClaudeSessionName \/ PushStep
  \/ SwitchFlips \/ RetryPassStarts \/ PassEnds

SpecSession == InitSession /\ [][NextSession]_sessionVars

\* Goroutines run and the passes end; nothing else is promised.
FairSession ==
  WF_sessionVars((PushRefused \/ PushFindsItDone \/ PushTypes \/ PushVerifies)) /\ WF_sessionVars(PassEnds)

FairSpecSession == SpecSession /\ FairSession

-----------------------------------------------------------------------------
(* Properties *)

\* The budget counts keystrokes, not tries: what was charged for a name is what
\* was typed, and one more while an attempt is on its way, so an operator's
\* drafts never use it up and typing never outruns it (startSessionRename).
BudgetIsKeystrokes ==
  \A n \in AgentNames :
    /\ pushes[n] = typedIn[n] + IF push.at \in {"start", "checked"} /\ push.want = n /\ push.term = terminal
                                THEN 1 ELSE 0
    /\ typedIn[n] <= MaxPushes

\* Turning the switch on while a pass runs is not forgotten: a full pass of the
\* herd begins after it (releaseSessionSyncPass).
FlipIsHeard == owedFlip ~> ~owedFlip

\* What the renames of sessions promise: tries are charged as they are typed, and a switch
\* that is turned on is followed by a pass (sessionname.go).
RenamesAreAccounted == []BudgetIsKeystrokes /\ FlipIsHeard
=============================================================================
