---------------------------- MODULE Orchestrator ----------------------------
(***************************************************************************)
(* The session the daemon keeps alive under full self-prompting            *)
(* (internal/daemon/orchestrator.go): found by its herdr name or started,  *)
(* briefed once, told to go dormant when the mode goes off and to wake     *)
(* when it comes back, and never answered or handed work like an agent of  *)
(* the herd.  Its identity (pane and terminal) is held in memory and in    *)
(* orchestrator.json; the pane's hap name and disable are rows of the      *)
(* store.  herdr may recycle a pane id for another session, move the       *)
(* session to another pane, and report a send that landed as failed.       *)
(*                                                                         *)
(* A terminal is a number, never reused; the sets `own' and `landed' are   *)
(* history: the terminals hap started, and what each terminal last heard.  *)
(***************************************************************************)
EXTENDS Naturals, FiniteSets

CONSTANTS
    OrchPanes,          \* herdr's pane ids, numbers above 0
    MaxSpawnsPerHour,   \* orchestratorMaxSpawnsPerHour
    MaxOrchTerminals,       \* bound on the sessions ever started
    MaxFlips,           \* bound on the operator's mode changes
    MaxMishaps          \* bound on sends reported failed, restarts and moved panes together

ASSUME OrchAssumption == OrchPanes \subseteq Nat \ {0} /\ MaxOrchTerminals \in Nat

BriefAttempts == 3
NudgeAttempts == 3

Terminals == 1..MaxOrchTerminals

VARIABLES
    id,         \* d.orch.id: the session the daemon takes for the orchestrator
    saved,      \* orchestrator.json
    held,       \* the select loop is about to hand this pane back, 0 for none
    orchPass,       \* the one ensure pass that may run
    spawns,     \* creations within the last hour
    waiting,    \* now < retryAt
    modeOn,     \* the live config wants the orchestrator
    herdPaused, \* the kill switch
    paneTenant,     \* herdr: the terminal in each pane, 0 for an empty pane
    holder,     \* herdr: the terminal called "orchestrator", 0 for none
    terminals,  \* how many terminals were ever started
    own,        \* those hap started
    landed,     \* what each terminal last heard from hap
    orchName,    \* the store: the pane named "orchestrator", 0 for none
    hapDisabled,\* the store: the panes whose automation is disabled
    strayNudges,    \* history: terminals whose record a misrouted send or a crash after
                \* the send put wrong; 0 when what to hand back was forgotten
    flips, mishaps

orchVars == << id, saved, held, orchPass, spawns, waiting, modeOn, herdPaused, paneTenant, holder,
               terminals, own, landed, orchName, hapDisabled, strayNudges, flips, mishaps >>
daemonVars == << id, saved, held, orchPass, spawns, waiting >>
herdrVars == << paneTenant, holder, terminals, own, landed >>
nameVars == << orchName, hapDisabled >>
orchBudgetVars == << strayNudges, flips, mishaps >>

UnknownId == [pane |-> 0, term |-> 0, briefed |-> FALSE, briefs |-> 0, dormant |-> FALSE,
              unconfirmed |-> FALSE, target |-> FALSE, nudges |-> 0, reclaimed |-> FALSE]
Known(i) == i.pane # 0

\* Briefed by hap, not merely adopted.
HapBriefed(i) == i.briefed /\ (i.briefs > 0 \/ i.reclaimed)

\* Matches, on a listing (which carries terminal ids).
SessionAlive(i, listing) ==
    /\ Known(i)
    /\ listing[i.pane] # 0
    /\ i.term = 0 \/ listing[i.pane] = i.term

RecycledByEmpty(i, listing) == Known(i) /\ i.term # 0 /\ listing[i.pane] = 0
RecycledBy(i, listing) ==
    /\ Known(i) /\ i.term # 0
    /\ listing[i.pane] \notin {0, i.term}

NudgeOwedConfirmed(i, wantDormant) ==
    /\ HapBriefed(i)
    /\ i.dormant # wantDormant
    /\ i.target # wantDormant \/ i.nudges < NudgeAttempts
NudgeOwed(i, wantDormant) ==
    /\ HapBriefed(i)
    /\ i.dormant # wantDormant \/ i.unconfirmed
    /\ i.target # wantDormant \/ i.nudges < NudgeAttempts

\* orchestratorPermitted and orchestratorDormancyPermitted.
OrchPermitted(wantDormant) == modeOn = ~wantDormant /\ ~herdPaused

\* The pass: what it does, where it stands, its listing and the identity it works on.
NoPass == [at |-> "idle", dormancy |-> FALSE, listing |-> [p \in OrchPanes |-> 0],
           mine |-> UnknownId, pane |-> 0]

Mishap == mishaps < MaxMishaps /\ mishaps' = mishaps + 1

InitOrch ==
    /\ id = UnknownId /\ saved = UnknownId /\ held = 0 /\ orchPass = NoPass
    /\ spawns = 0 /\ waiting = FALSE
    /\ modeOn = TRUE /\ herdPaused = FALSE
    /\ paneTenant = [p \in OrchPanes |-> 0] /\ holder = 0
    /\ terminals = 0 /\ own = {} /\ landed = [t \in Terminals |-> "nothing"]
    /\ orchName = 0 /\ hapDisabled = {}
    /\ strayNudges = {} /\ flips = 0 /\ mishaps = 0

-----------------------------------------------------------------------------
(* The select loop.  A sweep lists the herd, drops an identity whose pane  *)
(* shows another terminal, and starts a pass when one has work.            *)

\* settleOrchestratorNudges: a change of target starts a fresh count.
Settled(i) == IF i.target = modeOn /\ i.nudges > 0
              THEN [i EXCEPT !.target = ~modeOn, !.nudges = 0]
              ELSE i

\* What startOrchestratorPass and startOrchestratorDormancyPass ask of identity i.
PassHasWork(i) ==
    IF modeOn
    THEN /\ ~(SessionAlive(i, paneTenant) /\ (i.briefed \/ i.briefs >= BriefAttempts) /\ ~NudgeOwed(i, FALSE))
         /\ ~waiting
    ELSE NudgeOwed(i, TRUE) /\ SessionAlive(i, paneTenant)

\* observeOrchestrator: the identity goes first, and the pane is handed back by the
\* same handler before it goes on to the pass; a crash may fall between the two.
SweepObserves ==
    /\ held = 0 /\ RecycledBy(id, paneTenant)
    /\ id' = UnknownId /\ saved' = UnknownId /\ held' = id.pane
    /\ UNCHANGED << orchPass, spawns, waiting, modeOn, herdPaused >>
    /\ UNCHANGED << herdrVars, nameVars, orchBudgetVars >>

Sweep ==
    /\ held = 0 /\ ~RecycledBy(id, paneTenant)
    /\ LET kept == Settled(id)
       IN /\ id' = kept
          /\ saved' = IF kept # id THEN kept ELSE saved
          /\ orchPass' = IF orchPass.at = "idle" /\ PassHasWork(kept)
                     THEN [at |-> "listed", dormancy |-> ~modeOn, listing |-> paneTenant,
                           mine |-> kept, pane |-> 0]
                     ELSE orchPass
    /\ UNCHANGED << held, spawns, waiting, modeOn, herdPaused >>
    /\ UNCHANGED << herdrVars, nameVars, orchBudgetVars >>

\* releaseOrchestratorName: a pane no longer the orchestrator's is an agent's again.
ReleaseOrchestratorName ==
    /\ held # 0
    /\ held' = 0
    /\ orchName' = IF orchName = held THEN 0 ELSE orchName
    /\ hapDisabled' = IF orchName = held THEN hapDisabled \ {held} ELSE hapDisabled
    /\ UNCHANGED << id, saved, orchPass, spawns, waiting, modeOn, herdPaused >>
    /\ UNCHANGED << herdrVars, orchBudgetVars >>

-----------------------------------------------------------------------------
(* ensureOrchestrator and ensureOrchestratorDormant, a step per answer     *)
(* the pass waits for.                                                     *)

EndPass == orchPass' = NoPass
Working(at, i) == [NoPass EXCEPT !.at = at, !.mine = i, !.dormancy = orchPass.dormancy]

\* From the listing: nothing to do, a session to find or start, or messages to send.
EnsureListed ==
    /\ orchPass.at = "listed"
    /\ IF orchPass.dormancy
       THEN IF SessionAlive(id, orchPass.listing) /\ NudgeOwed(id, TRUE)
            THEN orchPass' = Working("nudge", id)
            ELSE EndPass
       ELSE IF ~OrchPermitted(FALSE) THEN EndPass
            ELSE IF SessionAlive(id, orchPass.listing)
            THEN orchPass' = Working("brief", id)
            ELSE orchPass' = [orchPass EXCEPT !.at = "lookup", !.mine = id]
    /\ UNCHANGED << id, saved, held, spawns, waiting, modeOn, herdPaused >>
    /\ UNCHANGED << herdrVars, nameVars, orchBudgetVars >>

PaneOf(t) == CHOOSE p \in OrchPanes : paneTenant[p] = t

ReclaimedUnbriefed(t, prev, read) ==
    IF HapBriefed(prev) /\ prev.term = t
    THEN [prev EXCEPT !.pane = PaneOf(t)]
    ELSE [UnknownId EXCEPT !.pane = PaneOf(t), !.term = t]
\* The last thing on the session's screen is hap's dormant message.
DormantOnScreen(t) == landed[t] = "dormant"

\* reclaimOrchestrator: the session is hap's own when its terminal is the recorded
\* one, or when its screen can be read and still shows hap's dormant message as the last.
Reclaimed(t, prev, read) ==
    LET found == [UnknownId EXCEPT !.pane = PaneOf(t), !.term = t, !.briefed = TRUE]
    IN IF HapBriefed(prev) /\ prev.term = t
       THEN [prev EXCEPT !.pane = PaneOf(t)]
       ELSE IF read /\ DormantOnScreen(t)
       THEN [found EXCEPT !.reclaimed = TRUE, !.dormant = TRUE, !.target = TRUE]
       ELSE found

\* claimOrchestratorName: the pane takes the name unless a live agent holds it, a
\* dead holder is released, and the pane is disabled whatever happened to the name.
ClaimOrchestratorName(p) ==
    LET heldByLive == orchName \notin {0, p} /\ orchPass.listing[orchName] # 0
        dead == IF orchName \notin {0, p} /\ ~heldByLive THEN {orchName} ELSE {}
    IN /\ orchName' = IF heldByLive THEN orchName ELSE p
       /\ hapDisabled' = (hapDisabled \ dead) \cup {p}

Install(i) ==
    /\ id' = i /\ saved' = i /\ waiting' = FALSE
    /\ ClaimOrchestratorName(i.pane)
    /\ orchPass' = Working("brief", i)

\* AgentByName answers, or fails and backs the next pass off.
LookupFound ==
    /\ orchPass.at = "lookup" /\ holder # 0
    /\ \E read \in BOOLEAN : Install(Reclaimed(holder, orchPass.mine, read))
    /\ UNCHANGED << held, spawns, modeOn, herdPaused >>
    /\ UNCHANGED << herdrVars, orchBudgetVars >>

LookupFails ==
    /\ orchPass.at = "lookup"
    /\ waiting' = TRUE /\ EndPass
    /\ UNCHANGED << id, saved, held, spawns, modeOn, herdPaused >>
    /\ UNCHANGED << herdrVars, nameVars, orchBudgetVars >>

SpawnAllowed == spawns < MaxSpawnsPerHour

\* No such agent: under the hourly cap a pane is opened and held provisionally,
\* in memory only.
OpenPane ==
    /\ orchPass.at = "lookup" /\ holder = 0
    /\ IF ~SpawnAllowed
       THEN waiting' = TRUE /\ EndPass /\ UNCHANGED << id, spawns >>
       ELSE /\ \E p \in OrchPanes :
                 /\ paneTenant[p] = 0
                 /\ id' = [UnknownId EXCEPT !.pane = p]
                 /\ orchPass' = [orchPass EXCEPT !.at = "opened", !.pane = p, !.mine = UnknownId]
            /\ spawns' = spawns + 1
            /\ UNCHANGED waiting
    /\ UNCHANGED << saved, held, modeOn, herdPaused >>
    /\ UNCHANGED << herdrVars, nameVars, orchBudgetVars >>

\* abandon: the provisional identity goes, and the pane is closed with whatever
\* the start left in it.
Abandon(failed) ==
    /\ id' = IF id.pane = orchPass.pane /\ id.term = 0 THEN UnknownId ELSE id
    /\ saved' = IF id.pane = orchPass.pane /\ id.term = 0 THEN UnknownId ELSE saved
    /\ paneTenant' = [paneTenant EXCEPT ![orchPass.pane] = 0]
    /\ holder' = IF holder # 0 /\ holder = paneTenant[orchPass.pane] THEN 0 ELSE holder
    /\ strayNudges' = IF id.pane = orchPass.pane /\ Known(saved) THEN strayNudges \cup {0} ELSE strayNudges
    /\ UNCHANGED << flips, mishaps >>
    /\ waiting' = (failed \/ waiting)
    /\ EndPass

AbandonUnpermitted ==
    /\ orchPass.at = "opened" /\ ~OrchPermitted(FALSE)
    /\ Abandon(FALSE)
    /\ UNCHANGED << held, spawns, modeOn, herdPaused, terminals, own, landed >>
    /\ UNCHANGED nameVars

\* agent start: the session comes up in the pane under the name, unless herdr
\* cannot start it or another session took the name meanwhile.
StartAgent ==
    /\ orchPass.at = "opened" /\ OrchPermitted(FALSE)
    /\ \/ /\ holder = 0 /\ terminals < MaxOrchTerminals
          /\ terminals' = terminals + 1
          /\ paneTenant' = [paneTenant EXCEPT ![orchPass.pane] = terminals + 1]
          /\ holder' = terminals + 1
          /\ own' = own \cup {terminals + 1}
       \/ UNCHANGED << terminals, paneTenant, holder, own >>
    /\ orchPass' = [orchPass EXCEPT !.at = "started"]
    /\ UNCHANGED << id, saved, held, spawns, waiting, modeOn, herdPaused, landed >>
    /\ UNCHANGED << nameVars, orchBudgetVars >>

\* The answer after the start: the identity is the pane's own session, or the
\* attempt is abandoned.
Started ==
    /\ orchPass.at = "started"
    /\ IF holder # 0 /\ paneTenant[orchPass.pane] = holder
       THEN /\ Install([UnknownId EXCEPT !.pane = orchPass.pane, !.term = holder])
            /\ UNCHANGED << paneTenant, holder, orchBudgetVars >>
       ELSE Abandon(TRUE) /\ UNCHANGED nameVars
    /\ UNCHANGED << held, spawns, modeOn, herdPaused, terminals, own, landed >>

\* What a send does to pane p: the text lands in whatever session is there, or
\* herdr reports a failure, whether it landed or not.
Sends(p, text, ok) ==
    /\ IF ok THEN UNCHANGED mishaps ELSE Mishap
    /\ paneTenant[p] # 0
    /\ \/ landed' = [landed EXCEPT ![paneTenant[p]] = text]
       \/ ~ok /\ landed' = landed
    /\ strayNudges' = IF paneTenant[p] = orchPass.mine.term THEN strayNudges ELSE strayNudges \cup {orchPass.mine.term}

\* briefOrchestrator waits for an empty composer, which some later sweep finds.
\* After the brief the pass still holds the identity it had before: no nudge is
\* owed by it, so the pass ends.
BriefSend ==
    /\ orchPass.at = "brief" /\ ~orchPass.mine.briefed /\ orchPass.mine.briefs < BriefAttempts
    /\ OrchPermitted(FALSE)
    /\ \E ok \in BOOLEAN :
         /\ Sends(orchPass.mine.pane, "awake", ok)
         /\ orchPass' = [orchPass EXCEPT !.at = "briefSent",
                                 !.mine = [@ EXCEPT !.briefs = orchPass.mine.briefs + 1, !.briefed = ok]]
    /\ UNCHANGED << id, saved, held, spawns, waiting, modeOn, herdPaused >>
    /\ UNCHANGED << paneTenant, holder, terminals, own, flips >>
    /\ UNCHANGED nameVars

CurrentInstall(i) == id.pane = i.pane /\ id.term = i.term

\* updateOrchestratorIfCurrent.
BriefRecorded ==
    /\ orchPass.at = "briefSent"
    /\ IF CurrentInstall(orchPass.mine) THEN id' = orchPass.mine /\ saved' = orchPass.mine
                             ELSE UNCHANGED << id, saved >>
    /\ EndPass
    /\ UNCHANGED << held, spawns, waiting, modeOn, herdPaused >>
    /\ UNCHANGED << herdrVars, nameVars, orchBudgetVars >>

\* Nothing to brief, the composer busy, or the pass no longer permitted.
BriefSkipped ==
    /\ orchPass.at = "brief"
    /\ IF orchPass.mine.briefed /\ NudgeOwed(orchPass.mine, FALSE)
       THEN orchPass' = [orchPass EXCEPT !.at = "nudge"]
       ELSE EndPass
    /\ UNCHANGED << id, saved, held, spawns, waiting, modeOn, herdPaused >>
    /\ UNCHANGED << herdrVars, nameVars, orchBudgetVars >>

\* nudgeOrchestrator: permitted, the composer read, permitted again, sent.
NudgeSend ==
    /\ orchPass.at = "nudge" /\ OrchPermitted(orchPass.dormancy)
    /\ \E ok \in BOOLEAN :
         /\ Sends(orchPass.mine.pane, IF orchPass.dormancy THEN "dormant" ELSE "awake", ok)
         /\ orchPass' = [orchPass EXCEPT !.at = IF ok THEN "nudgeSent" ELSE "nudgeFailed"]
    /\ UNCHANGED << id, saved, held, spawns, waiting, modeOn, herdPaused >>
    /\ UNCHANGED << paneTenant, holder, terminals, own, flips >>
    /\ UNCHANGED nameVars

NudgeSkipped ==
    /\ orchPass.at = "nudge" /\ EndPass
    /\ UNCHANGED << id, saved, held, spawns, waiting, modeOn, herdPaused >>
    /\ UNCHANGED << herdrVars, nameVars, orchBudgetVars >>

\* recordOrchestratorNudge, on the live identity and only its dormancy fields.
NudgeOutcomeCertain(i, ok, dormancy) ==
    [i EXCEPT !.target = dormancy, !.dormant = IF ok THEN dormancy ELSE @,
              !.nudges = IF ok THEN 0 ELSE IF i.target = dormancy THEN i.nudges + 1 ELSE 1]
NudgeOutcome(i, ok, dormancy) ==
    IF ok THEN [i EXCEPT !.dormant = dormancy, !.unconfirmed = FALSE,
                         !.target = dormancy, !.nudges = 0]
    ELSE [i EXCEPT !.target = dormancy, !.unconfirmed = TRUE,
                   !.nudges = IF i.target = dormancy THEN i.nudges + 1 ELSE 1]

NudgeRecorded ==
    /\ orchPass.at \in {"nudgeSent", "nudgeFailed"}
    /\ LET new == NudgeOutcome(id, orchPass.at = "nudgeSent", orchPass.dormancy)
       IN IF CurrentInstall(orchPass.mine) THEN id' = new /\ saved' = new
                                ELSE UNCHANGED << id, saved >>
    /\ EndPass
    /\ UNCHANGED << held, spawns, waiting, modeOn, herdPaused >>
    /\ UNCHANGED << herdrVars, nameVars, orchBudgetVars >>

-----------------------------------------------------------------------------
(* The operator, herdr and the clock.                                      *)

FlipMode ==
    /\ flips < MaxFlips /\ flips' = flips + 1
    /\ modeOn' = ~modeOn
    /\ UNCHANGED << daemonVars, herdPaused, herdrVars, nameVars, strayNudges, mishaps >>

FlipPause ==
    /\ herdPaused \/ flips < MaxFlips
    /\ flips' = IF herdPaused THEN flips ELSE flips + 1
    /\ herdPaused' = ~herdPaused
    /\ UNCHANGED << daemonVars, modeOn, herdrVars, nameVars, strayNudges, mishaps >>

\* retryAt passes; the hour passes.
OrchTick ==
    /\ waiting \/ spawns > 0
    /\ waiting' = FALSE
    /\ spawns' \in {0, spawns}
    /\ UNCHANGED << id, saved, held, orchPass, modeOn, herdPaused, herdrVars, nameVars, orchBudgetVars >>

\* The pane a pass has just opened is in use: herdr gives its id to nobody else.
Opening == IF orchPass.at \in {"opened", "started"} THEN {orchPass.pane} ELSE {}

SessionEnds(p) ==
    /\ paneTenant[p] # 0
    /\ paneTenant' = [paneTenant EXCEPT ![p] = 0]
    /\ holder' = IF holder = paneTenant[p] THEN 0 ELSE holder
    /\ UNCHANGED << daemonVars, modeOn, herdPaused, terminals, own, landed, nameVars, orchBudgetVars >>

\* The operator starts a session of their own in a free pane id, perhaps under the
\* orchestrator's herdr name.
StrangerStarts(p) ==
    /\ paneTenant[p] = 0 /\ terminals < MaxOrchTerminals /\ p \notin Opening
    /\ terminals' = terminals + 1
    /\ paneTenant' = [paneTenant EXCEPT ![p] = terminals + 1]
    /\ holder' \in {holder} \cup (IF holder = 0 THEN {terminals + 1} ELSE {})
    /\ UNCHANGED << daemonVars, modeOn, herdPaused, own, landed, nameVars, orchBudgetVars >>

\* A session keeps its terminal and takes another pane id.
OrchPaneMoves(p, q) ==
    /\ paneTenant[p] # 0 /\ paneTenant[q] = 0 /\ q \notin Opening
    /\ Mishap
    /\ paneTenant' = [paneTenant EXCEPT ![p] = 0, ![q] = paneTenant[p]]
    /\ UNCHANGED << daemonVars, modeOn, herdPaused, holder, terminals, own, landed, nameVars, strayNudges, flips >>

\* A message is out and its outcome is not on record yet.
Sent == orchPass.at \in {"briefSent", "nudgeSent", "nudgeFailed"}

\* The daemon dies anywhere and loadOrchestrator reads the file, or finds none.
DaemonRestarts ==
    /\ Mishap
    /\ saved' \in {saved, UnknownId}
    /\ id' = saved'
    /\ strayNudges' = strayNudges \cup (IF Sent THEN {orchPass.mine.term} ELSE {})
                          \cup (IF held # 0 \/ saved' # id THEN {0} ELSE {})
    /\ orchPass' = NoPass /\ held' = 0 /\ spawns' = 0 /\ waiting' = FALSE
    /\ UNCHANGED << modeOn, herdPaused, herdrVars, nameVars, flips >>

-----------------------------------------------------------------------------
NextOrch ==
    \/ SweepObserves \/ Sweep \/ ReleaseOrchestratorName
    \/ EnsureListed \/ LookupFound \/ LookupFails \/ OpenPane \/ AbandonUnpermitted
    \/ StartAgent \/ Started \/ BriefSend \/ BriefRecorded \/ BriefSkipped
    \/ NudgeSend \/ NudgeSkipped \/ NudgeRecorded
    \/ FlipMode \/ FlipPause \/ OrchTick \/ DaemonRestarts
    \/ \E p \in OrchPanes : SessionEnds(p) \/ StrangerStarts(p)
    \/ \E p, q \in OrchPanes : OrchPaneMoves(p, q)

SpecOrch == InitOrch /\ [][NextOrch]_orchVars

\* The sweep comes round, and a pass that started runs on: herdr's calls time out.
PassStep ==
    \/ EnsureListed \/ LookupFound \/ LookupFails \/ OpenPane \/ AbandonUnpermitted
    \/ StartAgent \/ Started \/ BriefSend \/ BriefRecorded \/ BriefSkipped
    \/ NudgeSend \/ NudgeSkipped \/ NudgeRecorded
FairOrch ==
    /\ WF_orchVars(SweepObserves) /\ WF_orchVars(Sweep)
    /\ WF_orchVars(ReleaseOrchestratorName) /\ WF_orchVars(PassStep)
FairSpecOrch == SpecOrch /\ FairOrch

-----------------------------------------------------------------------------
(* Properties.                                                             *)

\* hap types its brief and its messages only at a session it started, or one whose
\* screen proved, when hap found it, that hap had put it to sleep; never at one it
\* adopted: a stranger is typed at only when it took the pane id of the session the pass
\* was working on (launchOrchestrator, reclaimOrchestrator).
StrangerIsNotTypedAt ==
    [][\A t \in Terminals \ own :
          landed'[t] # landed[t] /\ t = orchPass.mine.term =>
            landed[t] = "dormant" \/ (landed[t] = "awake" /\ orchPass.mine.reclaimed)]_orchVars

\* What hap has on record about the session it drives is what that session last heard:
\* a session told to sleep is never taken for an awake one, also after a send reported
\* failed that landed, a moved pane, or an identity file that is gone.  Only a crash
\* between the send and its record, or a pane that changed hands between the listing
\* and the send, may part them.
RecordIsWhatItHeard ==
    id.term \notin strayNudges \cup {0} /\ HapBriefed(id) /\ ~id.unconfirmed /\ ~Sent
        => landed[id.term] = IF id.dormant THEN "dormant" ELSE "awake"

\* With the mode on, no session hap drives is left asleep with nothing owed to it: the
\* wake is due until it is confirmed or its sends are spent (orchestratorNudgeOwed).
NoneLeftAsleep ==
    /\ modeOn /\ ~Sent
    /\ id.term \notin strayNudges \cup {0} /\ HapBriefed(id)
    /\ landed[id.term] = "dormant"
    => NudgeOwed(Settled(id), FALSE) \/ Settled(id).nudges >= NudgeAttempts

\* A live session hap does not take for the orchestrator, in a pane that carries the
\* orchestrator's name and disable.
Ignored(p) ==
    /\ p = orchName /\ p \in hapDisabled
    /\ paneTenant[p] \notin own \cup {0, id.term, holder}

\* A stranger that took the orchestrator's pane id is not ignored forever: the pane is
\* handed back, unless the record of what to hand back is gone: a crash lost the file or
\* fell before the release, or an abandoned start overwrote the record.
RecycledPaneIsFreed ==
    \A p \in OrchPanes : Ignored(p) /\ 0 \notin strayNudges ~> ~Ignored(p) \/ 0 \in strayNudges

\* What the daemon promises of the orchestrator's session (orchestrator.go): it knows what
\* that session last heard, wakes it, types at no stranger and gives its pane back.
OrchestratorIsKnown ==
  [](RecordIsWhatItHeard /\ NoneLeftAsleep) /\ StrangerIsNotTypedAt /\ RecycledPaneIsFreed
=============================================================================
