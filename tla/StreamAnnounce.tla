--------------------------- MODULE StreamAnnounce ---------------------------
(***************************************************************************)
(* How the daemon puts the escalations it leaves to a human on the         *)
(* orchestrator's event stream (internal/daemon/stream.go): each sweep's   *)
(* auto-accept pass reports what it looked at, and a walk over every       *)
(* pending row, off the select loop and a page at a time, announces those  *)
(* left for a human, once.  "Once" is a dedupe mark in the log, which      *)
(* outlives the event and is forgotten, daily, after a complete walk that  *)
(* no longer saw its row pending.                                          *)
(***************************************************************************)
EXTENDS Naturals, FiniteSets

CONSTANTS
    StreamRows,     \* ids of the escalations, numbers
    Suggested,      \* those auto-accept can take
    MaxStops,       \* bound on restarts of the daemon
    MaxWithdrawn,   \* bound on answers withdrawn
    MaxWalkFaults   \* bound on failed reads and appends

ASSUME StreamAssumption ==
    /\ StreamRows \subseteq Nat \ {0} /\ Suggested \subseteq StreamRows
    /\ {MaxStops, MaxWithdrawn, MaxWalkFaults} \subseteq Nat

VARIABLES
    seenMarks,      \* the log's dedupe marks
    rows,       \* the store: the status of each escalation
    everLeft,   \* history: the rows some pass looked at and left
    raised,     \* history: events logged for each row since it became pending
    announced,  \* d.stream.announced
    walk,       \* the announce pass: its report, cursor and the pending rows it saw
    forgotten,  \* lastForget: the marks were forgotten within the day
    stops, withdrawn, walkFaults

announceVars == << seenMarks, rows, everLeft, raised, announced, walk, forgotten, stops, withdrawn, walkFaults >>
boundVars == << stops, withdrawn, walkFaults >>

NoWalk == [on |-> FALSE, report |-> {}, since |-> {}, after |-> 0, saw |-> {}]

InitAnnounce ==
    /\ seenMarks = {} /\ rows = [r \in StreamRows |-> "none"]
    /\ everLeft = {} /\ raised = [r \in StreamRows |-> 0]
    /\ announced = {} /\ walk = NoWalk /\ forgotten = FALSE
    /\ stops = 0 /\ withdrawn = 0 /\ walkFaults = 0

Awaiting == {r \in StreamRows : rows[r] \in {"escalated", "auto_accepting"}}

Escalate(r) ==
    /\ rows[r] = "none" /\ \A q \in StreamRows : q < r => rows[q] # "none"
    /\ rows' = [rows EXCEPT ![r] = "escalated"]
    /\ UNCHANGED << seenMarks, everLeft, raised, announced, walk, forgotten, boundVars >>

\* Answered, dismissed or retired, from either status.
CloseRow(r) ==
    /\ r \in Awaiting
    /\ rows' = [rows EXCEPT ![r] = "closed"]
    /\ UNCHANGED << seenMarks, everLeft, raised, announced, walk, forgotten, boundVars >>

\* A withdrawn answer puts the row back.
ReopenRow(r) ==
    /\ rows[r] = "closed" /\ withdrawn < MaxWithdrawn /\ withdrawn' = withdrawn + 1
    /\ rows' = [rows EXCEPT ![r] = "escalated"]
    /\ raised' = [raised EXCEPT ![r] = 0]
    /\ UNCHANGED << seenMarks, everLeft, announced, walk, forgotten, stops, walkFaults >>

Takeable == {r \in Suggested : rows[r] = "escalated"}

\* The auto-accept pass takes a row it can, looks at others and leaves them, and puts
\* the rest off; the announce pass starts on what it reports, unless one runs.
AutoAcceptPass ==
    \E takes \in SUBSET Takeable : \E leaves \in SUBSET (Takeable \ takes) :
        /\ Cardinality(takes) <= 1
        /\ rows' = [r \in StreamRows |-> IF r \in takes THEN "auto_accepting" ELSE rows[r]]
        /\ everLeft' = everLeft \cup leaves
        /\ walk' = IF walk.on THEN walk
                   ELSE [on |-> TRUE, report |-> leaves, since |-> Awaiting, after |-> 0, saw |-> {}]
        /\ UNCHANGED << seenMarks, raised, announced, forgotten, boundVars >>

AutoAcceptEnds(r) ==
    /\ rows[r] = "auto_accepting"
    /\ rows' = [rows EXCEPT ![r] = "escalated"]
    /\ UNCHANGED << seenMarks, everLeft, raised, announced, walk, forgotten, boundVars >>

\* A row auto-accept can never take only has to predate the pass; one it can take
\* waits until the pass has looked at it and left it.
LeftForAHumanOnceOld(r) == r \in walk.since
LeftForAHuman(r) == IF r \in Suggested THEN r \in walk.report ELSE r \in walk.since

\* The next row of the walk, by id; the store's statuses are those of its page.
NextRow(r) == r \in Awaiting /\ r > walk.after /\ \A q \in Awaiting : q > walk.after => q >= r
Walked(r) == walk' = [walk EXCEPT !.after = r, !.saw = @ \cup {r}]

\* Seen and Append: a row whose mark is there has been announced, by this daemon or
\* an earlier one; mark and event are written in one transaction.
AnnounceUnmarked(r) ==
    /\ raised' = [raised EXCEPT ![r] = @ + 1]
    /\ seenMarks' = seenMarks \cup {r}
    /\ announced' = announced \cup {r}
Seen(r) == r \in seenMarks
AnnounceEscalation(r) ==
    /\ raised' = IF Seen(r) THEN raised ELSE [raised EXCEPT ![r] = @ + 1]
    /\ seenMarks' = seenMarks \cup {r}
    /\ announced' = announced \cup {r}

AnnouncesNew(r) == rows[r] = "escalated" /\ r \notin announced /\ LeftForAHuman(r) /\ r \notin walk.since
Announces(r) == rows[r] = "escalated" /\ r \notin announced /\ LeftForAHuman(r)

WalkRow(r) ==
    /\ walk.on /\ NextRow(r) /\ Walked(r)
    /\ IF Announces(r) THEN AnnounceEscalation(r) ELSE UNCHANGED << seenMarks, raised, announced >>
    /\ UNCHANGED << rows, everLeft, forgotten, boundVars >>

\* A failed append is logged and swallowed: the next pass meets the row again.
AppendFails(r) ==
    /\ walk.on /\ NextRow(r) /\ Walked(r) /\ Announces(r)
    /\ walkFaults < MaxWalkFaults /\ walkFaults' = walkFaults + 1
    /\ UNCHANGED << seenMarks, rows, everLeft, raised, announced, forgotten, stops, withdrawn >>

\* The marks kept are those of the rows the whole walk saw pending, taken or not.
KeptMarksEscalated == {r \in seenMarks \cap walk.saw : rows[r] = "escalated"}
KeptMarks == seenMarks \cap walk.saw

\* maybeForgetEscalationMarks, once a day.
WalkEnds ==
    /\ walk.on /\ \A q \in Awaiting : q <= walk.after
    /\ announced' = announced \cap walk.saw
    /\ forgotten' = TRUE
    /\ seenMarks' = IF forgotten THEN seenMarks ELSE KeptMarks
    /\ walk' = NoWalk
    /\ UNCHANGED << rows, everLeft, raised, boundVars >>

\* The store did not answer: the pass ends without forgetting anything.
WalkFails ==
    /\ walk.on /\ walkFaults < MaxWalkFaults /\ walkFaults' = walkFaults + 1
    /\ walk' = NoWalk
    /\ UNCHANGED << seenMarks, rows, everLeft, raised, announced, forgotten, stops, withdrawn >>

StreamDayPasses ==
    /\ forgotten /\ forgotten' = FALSE
    /\ UNCHANGED << seenMarks, rows, everLeft, raised, announced, walk, boundVars >>

DaemonStops ==
    /\ stops < MaxStops /\ stops' = stops + 1
    /\ announced' = {} /\ walk' = NoWalk /\ forgotten' = FALSE
    /\ UNCHANGED << seenMarks, rows, everLeft, raised, withdrawn, walkFaults >>

-----------------------------------------------------------------------------
NextAnnounce ==
    \/ \E r \in StreamRows : \/ Escalate(r) \/ CloseRow(r) \/ ReopenRow(r) \/ AutoAcceptEnds(r)
                             \/ WalkRow(r) \/ AppendFails(r)
    \/ AutoAcceptPass \/ WalkEnds \/ WalkFails \/ StreamDayPasses \/ DaemonStops

\* The sweep comes round, a walk goes on, and auto-accept gives a row back or closes it.
FairAnnounce ==
    /\ WF_announceVars(AutoAcceptPass) /\ WF_announceVars(WalkEnds)
    /\ \A r \in StreamRows : WF_announceVars(WalkRow(r))

SpecAnnounce == InitAnnounce /\ [][NextAnnounce]_announceVars
FairSpecAnnounce == SpecAnnounce /\ FairAnnounce

-----------------------------------------------------------------------------
(* Properties.                                                             *)

\* An escalation is announced once while it stays pending, across walks, failed appends,
\* forgotten marks and restarts of the daemon.
AnnouncedOnce == \A r \in StreamRows : rows[r] # "closed" => raised[r] <= 1

\* An escalation auto-accept can take is announced only after a pass has looked at it and
\* left it: the orchestrator does not race the daemon for the pane.
LeftBeforeAnnounced == \A r \in Suggested : raised[r] > 0 => r \in everLeft

\* An escalation no auto-accept will ever take is put on the stream, however many rows
\* and walks come between, or it stops being pending.
HumanIsCalled ==
    \A r \in StreamRows \ Suggested : rows[r] = "escalated" ~> r \in seenMarks \/ rows[r] = "closed"

\* What the daemon promises the orchestrator of escalations: each is announced once, after
\* auto-accept had its turn, and none that a human has to answer is kept back.
EscalationsAreAnnounced == [](AnnouncedOnce /\ LeftBeforeAnnounced) /\ HumanIsCalled
=============================================================================
