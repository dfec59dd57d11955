---------------------------- MODULE Supervision ----------------------------
(***************************************************************************)
(* One monitoring daemon per machine: the flock on daemon.lock and what it *)
(* records, `hap daemon --ensure` and `--restart`, the crash-loop breaker's*)
(* file, the heartbeat file, the upgrade hand-over and the restart a wedged*)
(* fleet sync orders.  Daemon slots are process ids: one is reused only    *)
(* when no file and no command still names it.  Time is abstract: boots    *)
(* leave the breaker's window, heartbeats age and waits end when they will.*)
(***************************************************************************)
EXTENDS Integers, FiniteSets, FiniteSetsExt

CONSTANTS
  Daemons,     \* process slots for daemons
  Commands,    \* process slots for --ensure and --restart
  NoPid,       \* the pid 0 of an unreadable lock file, a missing heartbeat
  LoopThreshold,   \* crashguard.Threshold
  Shared,      \* the store engine is shared: opening it may wait for the remote
  Incidents,   \* what happens in this instance
  MaxSectionEdits,    \* bound: changes of the [embedding] section
  MaxIncidents \* bound: incidents in a behaviour

IncidentKinds == {"crash", "edit", "restart", "probe", "upgrade", "wedge", "unopened"}

ASSUME SupervisionBounds ==
  /\ LoopThreshold \in Nat \ {0} /\ Shared \in BOOLEAN /\ NoPid \notin Daemons
  /\ {MaxSectionEdits, MaxIncidents} \subseteq Nat /\ Incidents \subseteq IncidentKinds

VARIABLES
  daemon,    \* the daemon processes
  command,   \* the commands
  lock,      \* daemon.lock: who holds the flock, and what the file says
  probing,   \* another process is inside info() and holds the flock
  guard,     \* daemon.crashguard.json
  digest,    \* the digest of the [embedding] section on disk
  health,    \* daemon.health.json
  installed, \* the binary the plugin directory holds
  marker,    \* fleet-sync-recovery.json: "none", "new", "old"
  incidents, \* how many incidents happened
  orders     \* history: sync recoveries ordered since the last evidence or cooldown

files == <<lock, probing, guard, digest, health, installed, marker>>
supVars == <<daemon, command, files, incidents, orders>>

Binaries == {1, 2}
Digests == 0..MaxSectionEdits
NoDigest == -1

Guard(starts, off, gaveUp, d) == [starts |-> starts, off |-> off, gaveUp |-> gaveUp, digest |-> d]
Guards == [starts : 0..LoopThreshold, off : BOOLEAN, gaveUp : BOOLEAN, digest : Digests \cup {NoDigest}]
NoGuard == Guard(0, FALSE, FALSE, NoDigest)
NoDaemon == [pc |-> "none", bin |-> 1, term |-> FALSE, off |-> FALSE, copy |-> NoGuard, handed |-> FALSE,
             ordered |-> FALSE, latched |-> FALSE, wedged |-> FALSE, replaced |-> FALSE]
NoCommand == [pc |-> "idle", kind |-> "ensure", bin |-> 1, seen |-> NoPid, beat |-> FALSE, copy |-> NoGuard]
NoHealth == [pid |-> NoPid, booted |-> FALSE, replaced |-> FALSE]

\* One of the incidents of this instance happens.
Happens(k) == k \in Incidents /\ incidents < MaxIncidents /\ incidents' = incidents + 1

Booting == {"boot", "locked", "truncated", "guard", "judge", "opening"}
Alive == Booting \cup {"run", "tidy", "drain", "release"}

TypeOKSupervision ==
  /\ daemon \in [Daemons -> [pc : Alive \cup {"none"}, bin : Binaries, term : BOOLEAN, off : BOOLEAN,
                             copy : Guards, handed : BOOLEAN, ordered : BOOLEAN, latched : BOOLEAN,
                             wedged : BOOLEAN, replaced : BOOLEAN]]
  /\ command \in [Commands -> [pc : {"idle", "check", "lift", "forget", "forgot", "look", "relook", "stop",
                                      "wait", "start", "confirm"},
                               kind : {"ensure", "replace", "restart"}, bin : Binaries,
                               seen : Daemons \cup {NoPid}, beat : BOOLEAN, copy : Guards]]
  /\ lock \in [owner : Daemons \cup {NoPid}, pid : Daemons \cup {NoPid}, bin : Binaries]
  /\ probing \in BOOLEAN /\ guard \in Guards /\ digest \in Digests /\ installed \in Binaries
  /\ health \in [pid : Daemons \cup {NoPid}, booted : BOOLEAN, replaced : BOOLEAN]
  /\ incidents \in 0..MaxIncidents /\ marker \in {"none", "new", "old"} /\ orders \in Nat
  /\ lock.owner # NoPid => daemon[lock.owner].pc \in Alive \ {"boot"}

----------------------------------------------------------------------------
(* crashguard: pure functions of the file's state.                         *)

\* The boots still inside the window after one more; the count saturates.
Appended(st) == Min({st.starts + 1, LoopThreshold})

\* Mutant: a boot after the breaker gave up starts over.
EvaluateForgives(st0, d) ==
  LET n == Appended(st0)
  IN [st |-> Guard(n, TRUE, ~st0.gaveUp /\ st0.off /\ n >= LoopThreshold, d), off |-> TRUE, giveUp |-> FALSE]

\* The verdict of a boot: [st, off, giveUp].
Evaluate(st0, d) ==
  LET changed == st0.digest # NoDigest /\ d # st0.digest
      st == IF changed THEN NoGuard ELSE st0
      n == Appended(st)
      looping == n >= LoopThreshold
      new == [st EXCEPT !.starts = n, !.digest = d]
  IN CASE st.gaveUp -> [st |-> new, off |-> FALSE, giveUp |-> TRUE]
       [] ~st.gaveUp /\ st.off /\ looping -> [st |-> [new EXCEPT !.gaveUp = TRUE], off |-> FALSE, giveUp |-> TRUE]
       [] ~st.gaveUp /\ st.off /\ ~looping -> [st |-> new, off |-> TRUE, giveUp |-> FALSE]
       [] ~st.gaveUp /\ ~st.off /\ looping -> [st |-> [new EXCEPT !.off = TRUE, !.starts = 1], off |-> TRUE, giveUp |-> FALSE]
       [] OTHER -> [st |-> new, off |-> FALSE, giveUp |-> FALSE]

Survived(st) == [st EXCEPT !.starts = 0]

EmbeddingSuppressed(st, d) == st.off /\ (st.digest = NoDigest \/ st.digest = d)

SpawnBlocked(st, d) == st.gaveUp /\ (st.digest = NoDigest \/ st.digest = d)

\* What a reader writes back once the section changed under a latch.
Cleared(d) == [NoGuard EXCEPT !.digest = d]

----------------------------------------------------------------------------
(* daemonlock.                                                             *)

\* info() finds the flock taken, by the daemon or by another probe; what it
\* returns of the content is whatever the file says.
Running == lock.owner # NoPid \/ probing

\* The holder runs the binary this command would start.
Current(c) == lock.bin = command[c].bin

\* Mutant: the flock is not asked for.
AcquireUnlocked(d) ==
  /\ daemon[d].pc = "boot"
  /\ lock' = [lock EXCEPT !.owner = d] /\ daemon' = [daemon EXCEPT ![d].pc = "locked"]
  /\ UNCHANGED <<command, probing, guard, digest, health, installed, marker, incidents, orders>>

\* Acquire takes the flock or the process ends: a probe in info() is enough to end it.
Acquire(d) ==
  /\ daemon[d].pc = "boot"
  /\ \/ /\ ~Running
        /\ lock' = [lock EXCEPT !.owner = d] /\ daemon' = [daemon EXCEPT ![d].pc = "locked"]
     \/ /\ Running
        /\ daemon' = [daemon EXCEPT ![d] = NoDaemon] /\ UNCHANGED lock
  /\ UNCHANGED <<command, probing, guard, digest, health, installed, marker, incidents, orders>>

\* The file is truncated, and then rewritten with pid, version and binary.
AcquireRecords(d) ==
  /\ \/ /\ daemon[d].pc = "locked" /\ lock' = [lock EXCEPT !.pid = NoPid]
        /\ daemon' = [daemon EXCEPT ![d].pc = "truncated"]
     \/ /\ daemon[d].pc = "truncated" /\ lock' = [lock EXCEPT !.pid = d, !.bin = daemon[d].bin]
        /\ daemon' = [daemon EXCEPT ![d].pc = "guard"]
  /\ UNCHANGED <<command, probing, guard, digest, health, installed, marker, incidents, orders>>

\* A status read of another front end takes the flock when it is free, for a moment.
Probe ==
  /\ \/ /\ ~Running
        /\ probing' = TRUE /\ Happens("probe")
     \/ probing /\ probing' = FALSE /\ UNCHANGED incidents
  /\ UNCHANGED <<daemon, command, lock, guard, digest, health, installed, marker, orders>>

\* Mutant: a lock file that outlives the process that made it.
EndsLocked(d) == daemon' = [daemon EXCEPT ![d] = NoDaemon] /\ UNCHANGED lock

\* The process ends and the kernel drops its flock.
DaemonEnds(d) ==
  /\ daemon' = [daemon EXCEPT ![d] = NoDaemon]
  /\ lock' = [lock EXCEPT !.owner = IF @ = d THEN NoPid ELSE @]

----------------------------------------------------------------------------
(* hap daemon: the boot.                                                   *)

\* The breaker's file and the config are read, and the boot judged.
ReadGuard(d) ==
  /\ daemon[d].pc = "guard"
  /\ LET v == Evaluate(guard, digest)
     IN daemon' = [daemon EXCEPT ![d].pc = "judge", ![d].copy = v.st, ![d].off = v.off]
  /\ UNCHANGED <<command, files, incidents, orders>>

\* The state is written back, and a breaker that gave up ends the boot.
WriteGuard(d) ==
  /\ daemon[d].pc = "judge" /\ guard' = daemon[d].copy
  /\ IF daemon[d].copy.gaveUp THEN DaemonEnds(d)
     ELSE daemon' = [daemon EXCEPT ![d].pc = "opening", ![d].copy = NoGuard] /\ UNCHANGED lock
  /\ UNCHANGED <<command, probing, digest, health, installed, marker, incidents, orders>>

\* A heartbeat is written: later than the moment any waiting restart started from.
Beats(d, booted) ==
  /\ health' = [pid |-> d, booted |-> booted, replaced |-> daemon[d].replaced]
  /\ command' = [c \in Commands |->
       IF command[c].kind = "restart" /\ command[c].pc \in {"relook", "stop", "wait", "start", "confirm"}
       THEN [command[c] EXCEPT !.beat = TRUE] ELSE command[c]]

\* A shared engine waits for its remote, reporting that it does, until it answers
\* or the process is told to stop.
OpenShared(d) ==
  /\ Shared /\ daemon[d].pc = "opening"
  /\ \/ ~daemon[d].term /\ Beats(d, FALSE) /\ UNCHANGED <<daemon, lock>>
     \/ daemon[d].term /\ DaemonEnds(d) /\ UNCHANGED <<health, command>>
  /\ UNCHANGED <<probing, guard, digest, installed, marker, incidents, orders>>

\* Mutant: the successor does not learn that a recovery started it.
RunStartsUnaware(d) ==
  /\ daemon[d].pc = "opening" /\ daemon' = [daemon EXCEPT ![d].pc = "run"]
  /\ Beats(d, TRUE)
  /\ UNCHANGED <<lock, probing, guard, digest, installed, marker, incidents, orders>>

\* The store is open: Run adopts the recovery marker and beats first of all.
RunStarts(d) ==
  /\ daemon[d].pc = "opening"
  /\ daemon' = [daemon EXCEPT ![d].pc = "run", ![d].latched = Shared /\ marker = "new"]
  /\ Beats(d, TRUE)
  /\ marker' = IF marker = "old" /\ Shared THEN "none" ELSE marker
  /\ UNCHANGED <<lock, probing, guard, digest, installed, incidents, orders>>

\* A store that cannot be opened, a bad [database] section, colliding node bits.
OpenFails(d) ==
  /\ daemon[d].pc = "opening" /\ Happens("unopened") /\ DaemonEnds(d)
  /\ UNCHANGED <<command, probing, guard, digest, health, installed, marker, orders>>

----------------------------------------------------------------------------
(* hap daemon: the running process.                                        *)

Heartbeat(d) ==
  /\ daemon[d].pc = "run" /\ Beats(d, TRUE)
  /\ UNCHANGED <<daemon, lock, probing, guard, digest, installed, marker, incidents, orders>>

\* The window after the boot: the file is read, and written back without the boots.
SurviveRead(d) ==
  /\ daemon[d].pc = "run" /\ daemon[d].copy = NoGuard /\ guard.starts > 0
  /\ daemon' = [daemon EXCEPT ![d].copy = Survived(guard)]
  /\ UNCHANGED <<command, files, incidents, orders>>

\* A reload rebuilds the embedder: suppressed under the latch, and a changed
\* section clears the file.
EmbedderFactory(d) ==
  /\ daemon[d].pc = "run" /\ daemon[d].copy = NoGuard
  /\ LET suppressed == EmbeddingSuppressed(guard, digest)
         clears == guard.off /\ ~suppressed
     IN /\ suppressed # daemon[d].off \/ clears
        /\ daemon' = [daemon EXCEPT ![d].off = suppressed,
                                    ![d].copy = IF clears THEN Cleared(digest) ELSE @]
  /\ UNCHANGED <<command, files, incidents, orders>>

\* The write that follows either read; a shutdown in between stops the timer.
GuardCopyLands(d) ==
  /\ daemon[d].pc = "run" /\ daemon[d].copy # NoGuard
  /\ guard' = daemon[d].copy /\ daemon' = [daemon EXCEPT ![d].copy = NoGuard]
  /\ UNCHANGED <<command, lock, probing, digest, health, installed, marker, incidents, orders>>

Spawns(c, kind, bin) == command' = [command EXCEPT ![c] = [NoCommand EXCEPT !.pc = "check", !.kind = kind, !.bin = bin]]

\* HandOff refuses when the breaker would suppress the successor.
HandOff(d) == ~SpawnBlocked(guard, digest)

\* The daemon's own binary is gone: step aside for the successor, or say so and stay.
CheckOwnBinary(d) ==
  /\ daemon[d].pc = "run" /\ daemon[d].bin # installed /\ ~daemon[d].handed
  /\ \/ /\ HandOff(d)
        /\ \E c \in Commands : command[c].pc = "idle" /\ Spawns(c, "ensure", installed)
        /\ daemon' = [daemon EXCEPT ![d].handed = TRUE, ![d].pc = "tidy"]
     \/ \* no successor resolves, the breaker refuses, or the spawn fails
        /\ ~daemon[d].replaced
        /\ daemon' = [daemon EXCEPT ![d].replaced = TRUE] /\ UNCHANGED command
  /\ UNCHANGED <<files, incidents, orders>>

\* A wedged sync: the marker is written first, then a restart ordered; the daemon
\* stays until that command's signal.  A refused order takes the marker back.
CheckFleetSyncWedged(d) ==
  /\ Shared /\ daemon[d].pc = "run" /\ daemon[d].wedged
  /\ ~daemon[d].handed /\ ~daemon[d].ordered /\ ~daemon[d].latched
  /\ \/ /\ ~SpawnBlocked(guard, digest)
        /\ \E c \in Commands : command[c].pc = "idle" /\ Spawns(c, "restart", installed)
        /\ daemon' = [daemon EXCEPT ![d].ordered = TRUE]
        /\ marker' = "new" /\ orders' = orders + 1
     \/ marker' = "none" /\ marker # "none" /\ UNCHANGED <<daemon, command, orders>>
  /\ UNCHANGED <<lock, probing, guard, digest, health, installed, incidents>>

\* The sync engine fails in the way a restart may clear, or succeeds: evidence.
FleetSync(d) ==
  /\ Shared /\ daemon[d].pc = "run"
  /\ \/ /\ ~daemon[d].wedged /\ Happens("wedge") /\ daemon' = [daemon EXCEPT ![d].wedged = TRUE]
        /\ UNCHANGED <<marker, orders>>
     \/ /\ daemon[d].wedged \/ marker # "none"
        /\ daemon' = [daemon EXCEPT ![d].wedged = FALSE, ![d].latched = FALSE]
        /\ marker' = "none" /\ orders' = 0 /\ UNCHANGED incidents
  /\ UNCHANGED <<command, lock, probing, guard, digest, health, installed>>

\* SIGTERM cancels the run context.
Terminated(d) ==
  /\ daemon[d].pc = "run" /\ daemon[d].term
  /\ daemon' = [daemon EXCEPT ![d].pc = "tidy"]
  /\ UNCHANGED <<command, files, incidents, orders>>

\* Mutant: the lock is released before Run's own cleanup.
ShutdownUnlocksFirst(d) ==
  /\ \/ /\ daemon[d].pc \in {"tidy", "drain"} /\ daemon' = [daemon EXCEPT ![d].pc = "release"]
        /\ lock' = [lock EXCEPT !.owner = NoPid] /\ UNCHANGED health
     \/ /\ daemon[d].pc = "release" /\ health' = NoHealth
        /\ daemon' = [daemon EXCEPT ![d] = NoDaemon] /\ UNCHANGED lock
  /\ UNCHANGED <<command, probing, guard, digest, installed, marker, incidents, orders>>

\* Run's deferred calls: drain the background, remove the heartbeat file; then
\* runDaemon's: close the store, release the lock.
Shutdown(d) ==
  /\ \/ daemon[d].pc = "tidy" /\ daemon' = [daemon EXCEPT ![d].pc = "drain"] /\ UNCHANGED <<lock, health>>
     \/ /\ daemon[d].pc = "drain" /\ daemon' = [daemon EXCEPT ![d].pc = "release"]
        /\ health' = NoHealth /\ UNCHANGED lock
     \/ daemon[d].pc = "release" /\ DaemonEnds(d) /\ UNCHANGED health
  /\ UNCHANGED <<command, probing, guard, digest, installed, marker, incidents, orders>>

\* A native abort, a kill, a power loss.
Crash(d) ==
  /\ daemon[d].pc \in Alive /\ Happens("crash") /\ DaemonEnds(d)
  /\ UNCHANGED <<command, probing, guard, digest, health, installed, marker, orders>>

----------------------------------------------------------------------------
(* hap daemon --ensure, --ensure --replace-only and --restart.             *)

To(c, pc) == command' = [command EXCEPT ![c].pc = pc]
Quit(c) == command' = [command EXCEPT ![c] = NoCommand]

\* herdr's hook: an agent appeared.
HookEnsures(c) ==
  /\ command[c].pc = "idle" /\ Spawns(c, "ensure", installed)
  /\ UNCHANGED <<daemon, files, incidents, orders>>

\* An operator restarts the daemon, an installer replaces one that runs.
OperatorCommands(c) ==
  /\ command[c].pc = "idle" /\ Happens("restart")
  /\ \E kind \in {"restart", "replace"} : Spawns(c, kind, installed)
  /\ UNCHANGED <<daemon, files, orders>>

\* The breaker is asked first; a latch whose section changed is lifted.
SpawnBlockedCheck(c) ==
  /\ command[c].pc = "check"
  /\ \/ SpawnBlocked(guard, digest) /\ Quit(c)
     \/ /\ ~SpawnBlocked(guard, digest)
        /\ command' = [command EXCEPT ![c].pc = IF guard.gaveUp THEN "lift"
                                                ELSE IF command[c].kind = "restart" THEN "forget" ELSE "look",
                                      ![c].copy = IF guard.gaveUp THEN Cleared(digest) ELSE @]
  /\ UNCHANGED <<daemon, files, incidents, orders>>

\* The cleared state is written.
LatchLifts(c) ==
  /\ command[c].pc = "lift" /\ guard' = command[c].copy
  /\ To(c, IF command[c].kind = "restart" THEN "forget" ELSE "look")
  /\ UNCHANGED <<daemon, lock, probing, digest, health, installed, marker, incidents, orders>>

\* A deliberate restart does not count towards a crash loop: read, then write.
ForgetRestartBoots(c) ==
  \/ /\ command[c].pc = "forget"
     /\ IF guard.starts = 0 THEN To(c, "look")
        ELSE command' = [command EXCEPT ![c].pc = "forgot", ![c].copy = Survived(guard)]
     /\ UNCHANGED <<daemon, files, incidents, orders>>
  \/ /\ command[c].pc = "forgot" /\ guard' = command[c].copy /\ To(c, "look")
     /\ UNCHANGED <<daemon, lock, probing, digest, health, installed, marker, incidents, orders>>

\* replaceHolder's reads of the lock: nobody, the binary we would start, a pid
\* to stop, or an unreadable one that is read again once.
ReplaceHolder(c) ==
  /\ command[c].pc \in {"look", "relook"}
  /\ LET force == command[c].kind = "restart"
     IN \/ ~Running /\ command[c].kind = "replace" /\ Quit(c)
        \/ ~Running /\ command[c].kind # "replace" /\ To(c, "start")
        \/ Running /\ ~force /\ lock.pid # NoPid /\ Current(c) /\ Quit(c)
        \/ Running /\ lock.pid = NoPid /\ (IF command[c].pc = "look" THEN To(c, "relook") ELSE Quit(c))
        \/ /\ Running /\ lock.pid # NoPid /\ (force \/ ~Current(c))
           /\ command' = [command EXCEPT ![c].pc = "stop", ![c].seen = lock.pid]
  /\ UNCHANGED <<daemon, files, incidents, orders>>

\* SIGTERM to the recorded pid; a process that is gone is no error.
Stop(c) ==
  /\ command[c].pc = "stop" /\ To(c, "wait")
  /\ daemon' = [daemon EXCEPT ![command[c].seen].term = daemon[command[c].seen].pc \in Alive]
  /\ UNCHANGED <<files, incidents, orders>>

\* The lock is released, or the wait ends first and the command fails.
WaitReleased(c) ==
  /\ command[c].pc = "wait"
  /\ (~Running /\ To(c, "start")) \/ (Running /\ Quit(c))
  /\ UNCHANGED <<daemon, files, incidents, orders>>

Unnamed(d) == lock.pid # d /\ health.pid # d /\ \A c \in Commands : command[c].seen # d

\* The daemon is spawned from the resolved binary, if that still exists; a restart
\* then waits for a heartbeat.
SpawnDaemon(c) ==
  /\ command[c].pc = "start"
  /\ LET free == {d \in Daemons : daemon[d].pc = "none" /\ Unnamed(d)}
     IN \/ /\ command[c].bin = installed
           /\ \E d \in free : daemon' = [daemon EXCEPT ![d] = [NoDaemon EXCEPT !.pc = "boot", !.bin = command[c].bin]]
           /\ IF command[c].kind = "restart" THEN To(c, "confirm") ELSE Quit(c)
        \/ \* the binary is gone or the fork fails
           /\ command[c].bin # installed \/ free = {}
           /\ Quit(c) /\ UNCHANGED daemon
  /\ UNCHANGED <<files, incidents, orders>>

\* A heartbeat of another process than the one stopped, written since, by the
\* process the lock names.
ReportsHealthy(c) ==
  /\ health.pid # NoPid /\ health.pid # command[c].seen /\ command[c].beat
  /\ Running /\ lock.pid = health.pid

\* The restart reports what it saw: a healthy daemon, or that it saw none in time.
AwaitDaemonHealth(c) ==
  /\ command[c].pc = "confirm" /\ Quit(c)
  /\ UNCHANGED <<daemon, files, incidents, orders>>

----------------------------------------------------------------------------
(* The surroundings.                                                       *)

EditConfig ==
  /\ "edit" \in Incidents /\ digest < MaxSectionEdits /\ digest' = digest + 1
  /\ UNCHANGED <<daemon, command, lock, probing, guard, health, installed, marker, incidents, orders>>

Upgrade ==
  /\ installed = 1 /\ installed' = 2 /\ Happens("upgrade")
  /\ UNCHANGED <<daemon, command, lock, probing, guard, digest, health, marker, orders>>

\* Time passes: a boot leaves the window, a marker cools.
TimePasses ==
  /\ \/ /\ guard.starts > 0 /\ guard' = [guard EXCEPT !.starts = @ - 1] /\ UNCHANGED <<marker, orders>>
     \/ /\ marker = "new" /\ marker' = "old" /\ orders' = 0 /\ UNCHANGED guard
  /\ UNCHANGED <<daemon, command, lock, probing, digest, health, installed, incidents>>

InitSup ==
  /\ daemon = [d \in Daemons |-> NoDaemon] /\ command = [c \in Commands |-> NoCommand]
  /\ lock = [owner |-> NoPid, pid |-> NoPid, bin |-> 1] /\ probing = FALSE
  /\ guard = NoGuard /\ digest = 0 /\ health = NoHealth /\ installed = 1 /\ marker = "none"
  /\ incidents = 0 /\ orders = 0

DaemonStep(d) ==
  \/ Acquire(d) \/ AcquireRecords(d) \/ ReadGuard(d) \/ WriteGuard(d) \/ RunStarts(d)
  \/ GuardCopyLands(d) \/ Terminated(d) \/ Shutdown(d)

CommandStep(c) ==
  \/ SpawnBlockedCheck(c) \/ LatchLifts(c) \/ ForgetRestartBoots(c) \/ ReplaceHolder(c) \/ Stop(c)
  \/ WaitReleased(c) \/ SpawnDaemon(c) \/ AwaitDaemonHealth(c)

NextSup ==
  \/ \E d \in Daemons : \/ DaemonStep(d) \/ OpenShared(d) \/ OpenFails(d) \/ Heartbeat(d) \/ SurviveRead(d)
                        \/ EmbedderFactory(d) \/ CheckOwnBinary(d) \/ CheckFleetSyncWedged(d)
                        \/ FleetSync(d) \/ Crash(d)
  \/ \E c \in Commands : HookEnsures(c) \/ OperatorCommands(c) \/ CommandStep(c)
  \/ Probe \/ EditConfig \/ Upgrade \/ TimePasses

SpecSup == InitSup /\ [][NextSup]_supVars

\* Processes that can step do, the hook keeps being fired, and probes end.
FairSup ==
  /\ \A d \in Daemons : WF_supVars(DaemonStep(d))
  /\ \A c \in Commands : SF_supVars(HookEnsures(c)) /\ WF_supVars(CommandStep(c))
  /\ WF_supVars(probing /\ Probe)
FairSpecSup == SpecSup /\ FairSup

----------------------------------------------------------------------------
(* frontend.AssessDaemonHealth.                                            *)

\* Mutant: the record's pid is not compared with the lock's.
AssessAnyRecord(stale) ==
  [running |-> Running, hung |-> Running /\ stale, replaced |-> Running /\ health.replaced,
   bootstrapping |-> FALSE, off |-> guard.off, gaveUp |-> guard.gaveUp /\ ~Running,
   looping |-> ~Running /\ ~guard.gaveUp /\ guard.starts >= 2]

\* stale: the heartbeat is older than StaleAfter.
Assess(stale) ==
  LET own == Running /\ health.pid # NoPid /\ health.pid = lock.pid
  IN [running |-> Running, hung |-> own /\ stale, replaced |-> own /\ health.replaced,
      bootstrapping |-> own /\ ~health.booted, off |-> guard.off,
      gaveUp |-> guard.gaveUp /\ ~Running,
      looping |-> ~Running /\ ~guard.gaveUp /\ guard.starts >= 2]

Severity(h) ==
  CASE h.hung \/ h.gaveUp \/ h.looping \/ h.replaced -> "error"
    [] ~(h.hung \/ h.gaveUp \/ h.looping \/ h.replaced) /\ (h.off \/ h.bootstrapping) -> "warn"
    [] OTHER -> "ok"

----------------------------------------------------------------------------
(* Properties.                                                             *)

\* At most one process is past Acquire and not yet done with Run's shutdown: two
\* daemons never monitor one herd, whatever commands, hand-overs and crashes do.
OneMonitor ==
  LET Monitors == {d \in Daemons : daemon[d].pc \in Alive \ {"boot", "release"}}
  IN Cardinality(Monitors) <= 1

\* A running daemon's heartbeat file is there and is its own: a predecessor that is
\* still shutting down never removes or overwrites it.
HeartbeatIsItsOwn == \A d \in Daemons : daemon[d].pc = "run" => health.pid = d

\* The status calls a daemon unresponsive or replaced only for what the lock's holder
\* itself wrote, never for a heartbeat a dead predecessor left behind.
StatusIsOfTheHolder ==
  lock.owner # NoPid /\ daemon[lock.owner].pc \in {"guard", "judge"} =>
    \A stale \in BOOLEAN : ~Assess(stale).hung /\ ~Assess(stale).replaced

\* Between two successful syncs, and within one cooldown, a fault a restart does not
\* cure makes the daemons restart themselves at most once.
OneRecoveryPerOutage == orders <= 1

\* The breaker's latch is lifted only by a changed [embedding] section; the one
\* exception is a restart writing back the copy it read before the latch was set.  (For
\* one command at a time: of two restarts at once, the later write may put a latch back
\* that a boot, which read the file in between, then undoes.)
LatchStands ==
  [][guard.gaveUp /\ ~guard'.gaveUp =>
       digest # guard.digest \/ \E c \in Commands : command[c].pc = "forgot" /\ command'[c].pc # "forgot"]_supVars

\* A restart that reports a healthy daemon has seen one that opened its store, as the
\* comment on restartWith says of the heartbeat it waits for.
ReportedHasItsStore ==
  [][\A c \in Commands : command[c].pc = "confirm" /\ command'[c].pc = "idle" /\ ReportsHealthy(c) =>
       daemon[health.pid].pc # "opening"]_supVars

\* However daemons crash, are upgraded, restarted or probed away, the herd is monitored
\* again and again, unless the breaker gave up or a file it cannot open keeps it out.
HerdIsMonitored == []<>((\E d \in Daemons : daemon[d].pc = "run") \/ guard.gaveUp)

\* What the processes around the daemon promise: one daemon at a time, known by what it
\* wrote itself, and restarted once for an outage.
OneDaemonIsKept ==
  /\ TypeOKSupervision /\ OneMonitor /\ HeartbeatIsItsOwn
  /\ StatusIsOfTheHolder /\ OneRecoveryPerOutage
=============================================================================
