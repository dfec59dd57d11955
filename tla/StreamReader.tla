---------------------------- MODULE StreamReader ----------------------------
(***************************************************************************)
(* The orchestrator's event stream as its reader meets it: the log         *)
(* (internal/streamlog/streamlog.go), a SQLite table whose sequence        *)
(* numbers are never reused, that every hap process appends to and the     *)
(* daemon prunes; and `hap stream orchestrator' (internal/cli/stream.go),  *)
(* which asks for what follows its cursor, and then for the head and the   *)
(* floor, to tell what was pruned under it.  Every call is a transaction   *)
(* of its own.  Events age with their sequence numbers, so a prune drops   *)
(* a prefix.                                                               *)
(***************************************************************************)
EXTENDS Integers

CONSTANTS
    MaxEvents,      \* bound on the events appended
    MaxPrunes,      \* bound on the prunes
    MaxReadFaults   \* bound on reads of the log that fail

ASSUME StreamReaderAssumption ==
    MaxEvents \in Nat /\ MaxPrunes \in Nat /\ MaxReadFaults \in Nat

VARIABLES
    seqs,       \* the AUTOINCREMENT counter
    pruned,     \* the events up to this one are gone
    reader,     \* hap stream orchestrator
    printed,    \* history: what the reader printed
    missed,     \* history: what it reported as missed
    skipped,    \* history: what it stepped over because its floor check failed
    prunes, readFaults

readerVars == << seqs, pruned, reader, printed, missed, skipped, prunes, readFaults >>
logVars == << seqs, pruned >>

\* Floor: MIN(seq), or 0 on an empty table.  Since: in order, after the cursor.
Floor == IF pruned = seqs THEN 0 ELSE pruned + 1
Since(c) == {s \in (pruned + 1)..seqs : s > c}

NoReader == [at |-> "off", cursor |-> 0, from |-> 0, batch |-> {}, head |-> 0, settled |-> FALSE]

InitReader ==
    /\ seqs = 0 /\ pruned = 0
    /\ reader = NoReader /\ printed = {} /\ missed = {} /\ skipped = {}
    /\ prunes = 0 /\ readFaults = 0

\* emit, emitStream: any process appends a change it has committed.
AppendEvent ==
    /\ seqs < MaxEvents /\ seqs' = seqs + 1
    /\ UNCHANGED << pruned, reader, printed, missed, skipped, prunes, readFaults >>

\* maybePruneStream, Prune: events past the retention go.
PruneEvents(n) ==
    /\ prunes < MaxPrunes /\ prunes' = prunes + 1
    /\ n \in (pruned + 1)..seqs /\ pruned' = n
    /\ UNCHANGED << seqs, reader, printed, missed, skipped, readFaults >>

-----------------------------------------------------------------------------
(* The reader.                                                             *)

ReaderIs(at, changes) == reader' = changes /\ reader.at = at

\* Without --resume the reader follows from the head; with it, from the cursor it
\* names: past the head is a log that restarted, below the floor is a gap.
StartReader ==
    /\ \E resuming \in BOOLEAN, n \in 0..MaxEvents :
         LET oldest == IF Floor = 0 THEN seqs + 1 ELSE Floor
             from == IF ~resuming \/ n > seqs THEN seqs
                     ELSE IF n + 1 < oldest THEN oldest - 1 ELSE n
         IN /\ ReaderIs("off", [NoReader EXCEPT !.at = "read", !.cursor = from, !.from = from])
            /\ missed' = IF resuming /\ n + 1 < oldest THEN (n + 1)..from ELSE {}
    /\ UNCHANGED << logVars, printed, skipped, prunes, readFaults >>

ReadSince ==
    /\ ReaderIs("read", [reader EXCEPT !.batch = Since(reader.cursor),
                         !.at = IF reader.settled /\ Since(reader.cursor) = {} THEN @ ELSE "check"])
    /\ UNCHANGED << logVars, printed, missed, skipped, prunes, readFaults >>

\* A read that failed is not evidence of anything: the next one is checked again.
SinceFails ==
    /\ ReaderIs("read", [reader EXCEPT !.settled = FALSE])
    /\ readFaults < MaxReadFaults /\ readFaults' = readFaults + 1
    /\ UNCHANGED << logVars, printed, missed, skipped, prunes >>

\* After a minute a settled reader asks for the floor all the same.
GapRecheck ==
    /\ ReaderIs("read", [reader EXCEPT !.settled = FALSE])
    /\ reader.settled
    /\ UNCHANGED << logVars, printed, missed, skipped, prunes, readFaults >>

\* prunedUnder reads the head before the floor.
ReadHead ==
    /\ ReaderIs("check", [reader EXCEPT !.at = "floor", !.head = seqs])
    /\ UNCHANGED << logVars, printed, missed, skipped, prunes, readFaults >>

\* The last sequence number pruned under the cursor, never past the batch's first.
PrunedUnderNow == (IF Floor = 0 THEN reader.head + 1 ELSE Floor) - 1
PrunedUnder ==
    LET last == (IF Floor = 0 THEN reader.head + 1 ELSE Floor) - 1
    IN IF \E s \in reader.batch : s - 1 < last
       THEN (CHOOSE s \in reader.batch : \A q \in reader.batch : s <= q) - 1
       ELSE last

LastOf(batch, c) == IF batch = {} THEN c ELSE CHOOSE s \in batch : \A q \in batch : q <= s

PrintedQuiet(last) ==
    /\ printed' = printed \cup reader.batch
    /\ missed' = missed \cup (IF reader.batch = {} THEN (reader.cursor + 1)..last ELSE {})
    /\ reader' = [reader EXCEPT !.at = "read", !.batch = {}, !.head = 0,
                                !.cursor = LastOf(reader.batch, IF last > @ THEN last ELSE @),
                                !.settled = reader.batch = {}]
\* The gap is reported, then the batch is printed, and the cursor is past both.
Printed(last) ==
    LET gap == last > reader.cursor
        from == IF gap THEN last ELSE reader.cursor
    IN /\ printed' = printed \cup reader.batch
       /\ missed' = missed \cup (IF gap THEN (reader.cursor + 1)..last ELSE {})
       /\ reader' = [reader EXCEPT !.at = "read", !.batch = {}, !.head = 0,
                                   !.cursor = LastOf(reader.batch, from),
                                   !.settled = ~gap /\ reader.batch = {}]

ReadFloor ==
    /\ reader.at = "floor"
    /\ Printed(PrunedUnder)
    /\ UNCHANGED << logVars, skipped, prunes, readFaults >>

\* The head or the floor could not be read: no gap is reported, and the batch is
\* printed all the same.
FloorFails ==
    /\ reader.at \in {"check", "floor"} /\ readFaults < MaxReadFaults /\ readFaults' = readFaults + 1
    /\ printed' = printed \cup reader.batch
    /\ skipped' = skipped \cup (((reader.cursor + 1)..LastOf(reader.batch, reader.cursor)) \ reader.batch)
    /\ reader' = [reader EXCEPT !.at = "read", !.batch = {}, !.head = 0, !.settled = FALSE,
                                !.cursor = LastOf(reader.batch, reader.cursor)]
    /\ UNCHANGED << logVars, missed, prunes >>

-----------------------------------------------------------------------------
NextReader ==
    \/ AppendEvent \/ \E n \in 1..MaxEvents : PruneEvents(n)
    \/ StartReader \/ ReadSince \/ SinceFails \/ GapRecheck \/ ReadHead \/ ReadFloor \/ FloorFails

SpecReader == InitReader /\ [][NextReader]_readerVars

-----------------------------------------------------------------------------
(* Properties.                                                             *)

\* Every event the reader's cursor is past was printed, or reported missed: whatever
\* a prune removes between its reads, between the head and the floor it asks for, or
\* before a resume.  Only a floor check that failed may hide a gap.
PrunedIsToldOrUnread ==
    (reader.from + 1)..reader.cursor \subseteq printed \cup missed \cup skipped

\* What a comment in streamOrchestrator says: events pruned under the cursor "must be
\* reported, never skipped".
PrunedIsReported ==
    (reader.from + 1)..reader.cursor \subseteq printed \cup missed

\* What is reported missed is gone and was not printed: the reader re-surveys the herd
\* for a gap, and a gap that is none would cost it an event or a survey.
OnlyTheLostIsReported == missed \subseteq 1..pruned /\ printed \cap missed = {}

\* What a stream's reader is told of pruned events is exact: all that is lost, and nothing
\* that is not (streamOrchestrator).
MissedIsExact == PrunedIsToldOrUnread /\ OnlyTheLostIsReported
=============================================================================
