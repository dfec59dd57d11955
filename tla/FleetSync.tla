------------------------------ MODULE FleetSync ------------------------------
(***************************************************************************)
(* internal/daemon/fleetsync.go: the one goroutine that syncs a node with  *)
(* its fleet.  A local write arms a debounce timer, a front end may ask    *)
(* for a push at once, a ticker pulls; database.sync_paused is read again  *)
(* before each of them.  What a push sends is FleetReplica's business: a   *)
(* push here succeeds or fails as a whole.                                 *)
(***************************************************************************)
EXTENDS Naturals

CONSTANTS MaxWrites, MaxToggles, MaxRestarts  \* bounds on the environment

ASSUME SyncAssumption == {MaxWrites, MaxToggles, MaxRestarts} \subseteq Nat

VARIABLES
    unpushed,   \* local writes the server does not have (the replica's outbox)
    known,      \* fleet.pendingOps: the outbox as Stats last counted it
    pausedCfg,  \* database.sync_paused
    reachable,  \* the server answers
    wrote,      \* a token waits in opt.FleetWrites (capacity 1)
    pushNow,    \* a token waits in fleetPushNow (capacity 1)
    timer,      \* the debounce timer is armed
    syncAnnounced,  \* the loop has met the current pause
    owed,       \* a push is owed: none succeeded since the start, or the last failed
    running,    \* the loop has started
    writes, syncToggles, restarts

syncVars == <<unpushed, known, pausedCfg, reachable, wrote, pushNow, timer, syncAnnounced, owed,
              running, writes, syncToggles, restarts>>

envVars == <<pausedCfg, reachable, running, writes, syncToggles, restarts>>

InitSync ==
    /\ unpushed = 0 /\ known = 0 /\ pausedCfg \in BOOLEAN /\ reachable \in BOOLEAN
    /\ wrote = FALSE /\ pushNow = FALSE /\ timer = FALSE /\ syncAnnounced = FALSE /\ owed = TRUE
    /\ running = FALSE /\ writes = 0 /\ syncToggles = 0 /\ restarts = 0

----------------------------------------------------------------------------
(* The operations of the loop.                                             *)

\* push: fleetPush and what it leaves owed
PushOp ==
    /\ owed' = ~reachable
    /\ unpushed' = IF reachable THEN 0 ELSE unpushed
    /\ known' = IF reachable THEN 0 ELSE known

NoPush == UNCHANGED <<owed, unpushed>>

\* payOwed, with the outbox as counted a moment ago
PayOwed(counted) ==
    IF owed /\ counted > 0
    THEN /\ owed' = ~reachable
         /\ unpushed' = IF reachable THEN 0 ELSE unpushed
         /\ known' = IF reachable THEN 0 ELSE counted
    ELSE NoPush /\ known' = counted

\* paused(op) for the two push cases: a pause is announced and the operation
\* skipped; after one the push that is about to run carries everything
GatedPush ==
    IF pausedCfg THEN syncAnnounced' = TRUE /\ NoPush /\ UNCHANGED known
    ELSE syncAnnounced' = FALSE /\ PushOp

\* runFleetSync before its loop
StartLoop ==
    /\ ~running /\ running' = TRUE
    /\ IF pausedCfg THEN NoPush /\ UNCHANGED known ELSE PayOwed(unpushed)
    /\ UNCHANGED <<pausedCfg, reachable, wrote, pushNow, timer, syncAnnounced, writes, syncToggles, restarts>>

\* case <-FleetWrites: the debounce timer is armed, or started over
OnWrites ==
    /\ running /\ wrote
    /\ wrote' = FALSE /\ timer' = TRUE
    /\ UNCHANGED <<unpushed, known, pushNow, syncAnnounced, owed>> /\ UNCHANGED envVars

\* case <-fleetPushNow: the timer is stopped, its push is this one
OnPushNow ==
    /\ running /\ pushNow
    /\ pushNow' = FALSE /\ timer' = FALSE
    /\ GatedPush
    /\ UNCHANGED wrote /\ UNCHANGED envVars

\* case <-pushC: the timer is not armed again when the push is skipped
OnPushTimer ==
    /\ running /\ timer
    /\ timer' = FALSE
    /\ GatedPush
    /\ UNCHANGED <<wrote, pushNow>> /\ UNCHANGED envVars

\* (a resume met by a pull asks for no push)
OnPullForgets ==
    /\ running
    /\ syncAnnounced' = pausedCfg
    /\ IF pausedCfg THEN known' = unpushed /\ NoPush
       ELSE PayOwed(IF reachable THEN unpushed ELSE known)
    /\ UNCHANGED <<wrote, pushNow, timer>> /\ UNCHANGED envVars

\* case <-pull.C: fleetPausedTick counts the outbox; a resume met here asks for
\* a push at once; fleetPull counts the outbox when it succeeds, and an owed
\* push is paid
OnPull ==
    /\ running
    /\ syncAnnounced' = pausedCfg
    /\ pushNow' = (pushNow \/ (~pausedCfg /\ syncAnnounced))
    /\ IF pausedCfg THEN known' = unpushed /\ NoPush
       ELSE PayOwed(IF reachable THEN unpushed ELSE known)
    /\ UNCHANGED <<wrote, timer>> /\ UNCHANGED envVars

----------------------------------------------------------------------------
(* The rest of the machine.                                                *)

\* a local write: the executor's OnWrite (engine.go), which never blocks
LocalWrite ==
    /\ writes < MaxWrites
    /\ writes' = writes + 1 /\ unpushed' = unpushed + 1 /\ wrote' = TRUE
    /\ UNCHANGED <<known, pausedCfg, reachable, pushNow, timer, syncAnnounced, owed, running, syncToggles, restarts>>

\* a front end's fleet-push nudge, which never blocks either
FleetPushNudge ==
    /\ running /\ ~pushNow /\ syncToggles < MaxToggles
    /\ pushNow' = TRUE /\ syncToggles' = syncToggles + 1
    /\ UNCHANGED <<unpushed, known, pausedCfg, reachable, wrote, timer, syncAnnounced, owed, running, writes, restarts>>

TogglePause ==
    /\ syncToggles < MaxToggles /\ syncToggles' = syncToggles + 1
    /\ pausedCfg' = ~pausedCfg
    /\ UNCHANGED <<unpushed, known, reachable, wrote, pushNow, timer, syncAnnounced, owed, running, writes, restarts>>

ToggleServer ==
    /\ syncToggles < MaxToggles /\ syncToggles' = syncToggles + 1
    /\ reachable' = ~reachable
    /\ UNCHANGED <<unpushed, known, pausedCfg, wrote, pushNow, timer, syncAnnounced, owed, running, writes, restarts>>

\* the daemon ends, by a signal (with fleetFinalPush, unless paused) or by a
\* crash, and its successor starts with nothing in memory
Restart ==
    /\ running /\ restarts < MaxRestarts
    /\ restarts' = restarts + 1
    /\ \/ unpushed' = unpushed
       \/ ~pausedCfg /\ reachable /\ unpushed' = 0
    /\ running' = FALSE /\ known' = 0 /\ wrote' = FALSE /\ pushNow' = FALSE /\ timer' = FALSE
    /\ syncAnnounced' = FALSE /\ owed' = TRUE
    /\ UNCHANGED <<pausedCfg, reachable, writes, syncToggles>>

LoopStep == StartLoop \/ OnWrites \/ OnPushNow \/ OnPushTimer \/ OnPull

NextSync ==
    \/ LoopStep
    \/ LocalWrite \/ FleetPushNudge \/ TogglePause \/ ToggleServer \/ Restart

\* Go's select takes each ready case with some probability, the ticker and the
\* timer fire, and the supervisor starts the daemon again.
FairSync ==
    /\ WF_syncVars(StartLoop) /\ SF_syncVars(OnWrites) /\ SF_syncVars(OnPushNow)
    /\ SF_syncVars(OnPushTimer) /\ WF_syncVars(OnPull)

SpecSync == InitSync /\ [][NextSync]_syncVars /\ FairSync

----------------------------------------------------------------------------
\* fleetsync.go 232-262: a write never waits for a later one.  Once the server
\* answers and sync is not paused for good, everything written gets there:
\* after a pause that ate the debounce, a failed push, a restart.
WritesArePushed == <>[](reachable /\ ~pausedCfg) => <>[](unpushed = 0)
==============================================================================
