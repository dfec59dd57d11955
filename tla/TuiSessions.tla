---------------------------- MODULE TuiSessions ----------------------------
(***************************************************************************)
(* The registry of running `hap tui` processes (internal/tuisession): each *)
(* holds a flock on a file of its own, and the newest closes the oldest    *)
(* until at most MaxInstances remain.  A session is its pid; its start time*)
(* is read from a coarse clock, so two may share one.                      *)
(***************************************************************************)
EXTENDS Integers, FiniteSets

CONSTANTS
  Sessions,      \* pids of the TUIs that may be started
  ClaimAttempts, \* claimAttempts
  MaxInstances,  \* [tui] max_instances; 0 disables the limit
  MaxTime,       \* bound: distinct readings of the clock
  MaxQuits       \* bound: TUIs an operator closes

ASSUME SessionBounds ==
  /\ Sessions \subseteq Nat \ {0, 1} /\ {ClaimAttempts, MaxInstances, MaxTime, MaxQuits} \subseteq Nat /\ MaxTime > 0

VARIABLES
  tui,       \* the processes: where each is, when it started, whether it was told to stop
  linked,    \* the files present in the registry directory
  sweep,     \* what each process's sweep listed, and the files it found unlocked
  signalled, \* the peers each process asked to exit, within the grace period
  now,       \* the clock
  quits      \* how many an operator closed

tuiVars == <<tui, linked, sweep, signalled, now, quits>>

NoSweep == [on |-> FALSE, live |-> {}, free |-> {}]
NotStarted == [pc |-> "none", started |-> 0, term |-> FALSE, tries |-> 0]

TypeOKTui ==
  /\ tui \in [Sessions -> [pc : {"none", "opened", "locked", "written", "live", "leaving", "gone", "unlisted"},
                           started : 0..MaxTime, term : BOOLEAN, tries : 0..ClaimAttempts]]
  /\ linked \subseteq Sessions
  /\ sweep \in [Sessions -> [on : BOOLEAN, live : SUBSET Sessions, free : SUBSET Sessions]]
  /\ signalled \in [Sessions -> SUBSET Sessions]
  /\ now \in 1..MaxTime /\ quits \in 0..MaxQuits
  /\ \A p \in Sessions : p \notin signalled[p]

\* The order of ages is total: the pid breaks a tie.
Older(a, b) == tui[a].started < tui[b].started \/ (tui[a].started = tui[b].started /\ a < b)

\* A process holds its flock from the claim until the release.
Holds(p) == tui[p].pc \in {"locked", "written", "live"}

----------------------------------------------------------------------------
\* Register opens (and creates) the file, then locks it, or tries again.
Claim(p) ==
  /\ \/ tui[p].pc = "none" /\ tui' = [tui EXCEPT ![p].pc = "opened"] /\ linked' = linked \cup {p}
     \/ tui[p].pc = "opened" /\ tui' = [tui EXCEPT ![p].pc = "locked"] /\ UNCHANGED linked
  /\ UNCHANGED <<sweep, signalled, now, quits>>

\* The start time is read and the record written.
WriteRecord(p) ==
  /\ tui[p].pc = "locked" /\ tui' = [tui EXCEPT ![p].pc = "written", ![p].started = now]
  /\ UNCHANGED <<linked, sweep, signalled, now, quits>>

\* The path must still name the locked file; a pruned one is claimed again, and
\* after the last attempt the TUI runs without a place in the registry.
StillLinked(p) ==
  /\ tui[p].pc = "written"
  /\ tui' = [tui EXCEPT ![p] = 
       CASE p \in linked -> [@ EXCEPT !.pc = "live"]
         [] p \notin linked /\ tui[p].tries + 1 < ClaimAttempts -> [@ EXCEPT !.pc = "none", !.tries = tui[p].tries + 1]
         [] OTHER -> [@ EXCEPT !.pc = "unlisted"]]
  /\ UNCHANGED <<linked, sweep, signalled, now, quits>>

\* Live: the records readable now, and the files no process holds.
Live ==  {p \in linked : tui[p].pc \in {"written", "live"}}
Free == {p \in linked : ~Holds(p)}

\* Enforce lists the registry; one sweep at a time per process, and none is started
\* once the run context is cancelled.
EnforceLists(s) ==
  /\ tui[s].pc = "live" /\ ~sweep[s].on /\ ~tui[s].term
  /\ sweep' = [sweep EXCEPT ![s] = [on |-> TRUE, live |-> Live, free |-> Free]]
  /\ UNCHANGED <<tui, linked, signalled, now, quits>>

\* Mutant: the limit is one too many.
SurplusShort(live, self) ==
  LET ordered == live \cup {self}
  IN {c \in ordered : /\ c # self /\ Older(c, self)
                      /\ Cardinality({q \in ordered : Older(q, c)}) + 1 < Cardinality(ordered) - MaxInstances}

\* Mutant: a session counts itself among the surplus.
SurplusWithSelf(live, self) == {c \in live \cup {self} : Cardinality(live \cup {self}) > MaxInstances}

\* The oldest of the listed sessions and this one beyond the limit, never itself
\* and never one that is newer.
Surplus(live, self) ==
  LET ordered == live \cup {self}
  IN {c \in ordered : /\ c # self /\ Older(c, self)
                      /\ Cardinality({q \in ordered : Older(q, c)}) < Cardinality(ordered) - MaxInstances}

\* Mutant: whoever sweeps closes the others.
DoomedByAnyone(s) == {p \in sweep[s].live \ {s} : Cardinality(sweep[s].live) > MaxInstances} \ signalled[s]

\* Only the newest signals, and a peer still within its grace period is left alone.
Doomed(s) ==
  IF MaxInstances = 0 \/ \E p \in sweep[s].live : Older(s, p) THEN {}
  ELSE Surplus(sweep[s].live, s) \ signalled[s]

\* The sweep prunes what it found free and signals the doomed, unless this TUI is
\* itself unwinding.
EnforceActs(s) ==
  /\ sweep[s].on /\ sweep' = [sweep EXCEPT ![s] = NoSweep]
  /\ linked' = linked \ sweep[s].free
  /\ LET doomed == IF tui[s].pc = "live" THEN Doomed(s) ELSE {}
     IN /\ tui' = [p \in Sessions |-> IF p \in doomed THEN [tui[p] EXCEPT !.term = TRUE] ELSE tui[p]]
        /\ signalled' = [signalled EXCEPT ![s] = @ \cup doomed]
  /\ UNCHANGED <<now, quits>>

\* A peer that is gone past its grace period is forgotten.  One that is still there
\* would be signalled again, which tells it nothing new.
ForgetDeparted(s, p) ==
  /\ p \in signalled[s] \ Live /\ signalled' = [signalled EXCEPT ![s] = @ \ {p}]
  /\ UNCHANGED <<tui, linked, sweep, now, quits>>

\* A told TUI, or one its operator closes, flags itself released, then drops its
\* lock, then its file.
Release(p) ==
  /\ \/ /\ tui[p].pc = "live"
        /\ IF tui[p].term THEN UNCHANGED quits ELSE quits < MaxQuits /\ quits' = quits + 1
        /\ tui' = [tui EXCEPT ![p].pc = "leaving"] /\ UNCHANGED linked
     \/ /\ tui[p].pc = "leaving" /\ tui' = [tui EXCEPT ![p].pc = "gone"]
        /\ linked' = linked \ {p} /\ UNCHANGED quits
  /\ UNCHANGED <<sweep, signalled, now>>

ClockTicks ==
  /\ now < MaxTime /\ now' = now + 1
  /\ UNCHANGED <<tui, linked, sweep, signalled, quits>>

InitTui ==
  /\ tui = [p \in Sessions |-> NotStarted] /\ linked = {}
  /\ sweep = [p \in Sessions |-> NoSweep] /\ signalled = [p \in Sessions |-> {}]
  /\ now = 1 /\ quits = 0

TuiStep(p) ==
  \/ Claim(p) \/ WriteRecord(p) \/ StillLinked(p) \/ EnforceLists(p) \/ EnforceActs(p)
  \/ tui[p].term /\ Release(p)

NextTui ==
  \/ \E p \in Sessions : TuiStep(p) \/ Release(p) \/ \E q \in Sessions : ForgetDeparted(p, q)
  \/ ClockTicks

SpecTui == InitTui /\ [][NextTui]_tuiVars

\* A started TUI registers, sweeps on its tick and leaves when it is told to.
FairTui == \A p \in Sessions :
  /\ WF_tuiVars((((tui[p].pc # "none" \/ tui[p].tries > 0) /\ (Claim(p) \/ WriteRecord(p) \/ StillLinked(p))) \/ (tui[p].term /\ Release(p))))
  /\ WF_tuiVars(EnforceLists(p)) /\ WF_tuiVars(EnforceActs(p))

FairSpecTui == SpecTui /\ FairTui

----------------------------------------------------------------------------
\* The limit never closes the last TUI: while no operator closed one, a session that
\* registered and was not told to stop is there whenever one was told to.
SomeTuiStays ==
  quits = 0 /\ (\E p \in Sessions : tui[p].term) =>
    \E p \in Sessions : tui[p].pc \in {"locked", "written", "live"} /\ ~tui[p].term

\* In the end no more TUIs than the limit are listed by the registry.
LimitIsReached ==
  MaxInstances > 0 => <>[](Cardinality({p \in linked : tui[p].pc = "live"}) <= MaxInstances)

\* What the limit on TUIs promises: it is reached, and never by closing all of them
\* (tuisession).
LimitLeavesOne == [](TypeOKTui /\ SomeTuiStays) /\ LimitIsReached
=============================================================================
