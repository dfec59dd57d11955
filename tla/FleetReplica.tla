---------------------------- MODULE FleetReplica ----------------------------
(***************************************************************************)
(* internal/store/libsqlreplica: every node of a fleet writes a local      *)
(* SQLite replica, and merges it with one libSQL server.  Triggers stamp   *)
(* each edit with a hybrid logical clock (per row, and per column) and     *)
(* queue its key in an outbox; Push replays the outbox in one server       *)
(* transaction and merges what it reads back; Pull reads the server's      *)
(* change log from a cursor; a node the log was pruned under re-seeds.     *)
(*                                                                         *)
(* A table here has no UNIQUE index besides its key, so parking and the    *)
(* forced merge of a refused key (sync.go 950-1104) do not occur.  A row   *)
(* has columns that resolve by the latest edit and columns (pushWins) that *)
(* resolve by the last push: the outcome of an escalation.                 *)
(***************************************************************************)
EXTENDS Integers, FiniteSets, Sequences

CONSTANTS
    Nodes,       \* the replicas' node ids, naturals above 0 (0 is the server)
    Keys,        \* primary keys
    LatestCols,  \* columns that resolve by the latest edit
    PushCols,    \* pushWins columns
    Vals,        \* column values
    NoRow,       \* no such row
    Grain,       \* HLC values per tick of the wall clock (65536 per ms)
    Lead,        \* MaxClockLead, in ticks
    Deadband,    \* clockDeadbandMs, in ticks: a smaller offset counts as none
    Retention,   \* ChangelogRetention, in ticks
    MaxWall, MaxEdits, MaxFaults, \* bounds on time, on edits and on failures
    Skews,       \* how far one node's wall clock may be ahead; its replica
                 \* learns of it at its next pull
    Seeded,      \* the replicas that were seeded before
    Faults       \* what happens besides edits and syncs: "interrupt",
                 \* "triggers", "online" (a node that works online shares the
                 \* server), "prune" (while another node is in a pull),
                 \* "tie" (two nodes edit in the same millisecond), "torn" (a
                 \* commit falls between a batch's rows and its clocks)

ASSUME ReplicaAssumption ==
    /\ Nodes \subseteq Nat \ {0} /\ LatestCols \cap PushCols = {} /\ "row" \notin LatestCols \cup PushCols
    /\ {Grain, Lead, Deadband, Retention, MaxWall, MaxEdits, MaxFaults} \subseteq Nat
    /\ Skews \subseteq Nat /\ 0 \in Skews /\ Grain > MaxEdits /\ Faults \subseteq {"interrupt", "triggers", "online", "prune", "tie", "torn"}
    /\ Seeded \subseteq Nodes
    /\ IsFiniteSet(Keys) /\ IsFiniteSet(LatestCols) /\ IsFiniteSet(PushCols)

VARIABLES
    wall,     \* the server's wall clock, in ticks
    skew,     \* how far a node's wall clock is ahead of it (constant)
    rep,      \* each node's replica (durable)
    job,      \* the sync operation a node is in (memory; syncMu: one at a time)
    srv,      \* the server's tables
    edits, faults \* how many there have been

replicaVars == <<wall, skew, rep, job, srv, edits, faults>>

Cols == LatestCols \cup PushCols
Rows == [Cols -> Vals] \cup {NoRow}

----------------------------------------------------------------------------
(* Stamps and clock sets (clock.go).  A missing clock is Zero.             *)

Zero == [hlc |-> 0, node |-> 0]

After(s, o) == s.hlc > o.hlc \/ (s.hlc = o.hlc /\ s.node > o.node)

MaxStamp(a, b) == IF After(b, a) THEN b ELSE a

NoClocks == [row |-> Zero, has |-> FALSE, alive |-> TRUE, cols |-> [c \in Cols |-> Zero], dirty |-> {}]

ChangedHere(cl, c) == ("row" \in cl.dirty /\ cl.alive) \/ c \in cl.dirty

Eff(cl, c) == MaxStamp(cl.row, cl.cols[c])

Latest(cl) ==
    CHOOSE s \in {cl.row} \cup {cl.cols[c] : c \in Cols} :
        \A o \in {cl.row} \cup {cl.cols[c] : c \in Cols} : ~After(o, s)

OrFloor(s, floor) == IF s.hlc < floor THEN [hlc |-> floor, node |-> 0] ELSE s

MaxOf(a, b) == IF a > b THEN a ELSE b
MinOf(a, b) == IF a < b THEN a ELSE b

\* wallMsExpr + off: a node's wall clock corrected to the server's
Corrected(n) == wall + skew[n] + rep[n].off

\* clockTick; each edit is some milliseconds into the tick, after the ones before
Ticked(hlc, now) == MaxOf(hlc + 1, now * Grain + (IF "tie" \in Faults THEN 0 ELSE edits))

\* ceilExpr
Ceiling(now) == (now + Lead) * Grain

\* The stamping triggers of one side: an INSERT or a DELETE stamps the row, an
\* UPDATE the columns it changed.  A replica's own edit is marked unsent.
Stamped(cl, s, was, is, unsent) ==
    IF was = NoRow \/ is = NoRow
    THEN [cl EXCEPT !.row = s, !.has = TRUE, !.alive = (is # NoRow),
                    !.dirty = IF unsent THEN @ \cup {"row"} ELSE @ \ {"row"}]
    ELSE LET changed == {c \in Cols : was[c] # is[c]}
         IN [cl EXCEPT !.cols = [c \in Cols |-> IF c \in changed THEN s ELSE @[c]],
                       !.dirty = IF unsent THEN @ \cup changed ELSE @ \ changed]

\* Clocks recorded over others, each where it is the later one; pushed is kept.
Laid(cl, over) ==
    LET rowWins == over.has /\ After(over.row, cl.row)
    IN [cl EXCEPT !.row = IF rowWins THEN over.row ELSE @,
                  !.has = @ \/ over.has,
                  !.alive = IF rowWins \/ (over.has /\ ~cl.has) THEN over.alive ELSE @,
                  !.cols = [c \in Cols |-> MaxStamp(cl.cols[c], over.cols[c])]]

----------------------------------------------------------------------------
(* Merging the server's row into the replica (merge.go).                   *)

\* planMerge: what of the server's row the replica takes
PlanMerge(row, cl, srow, scl, floor) ==
    LET later(a, b) == After(OrFloor(a, floor), OrFloor(b, floor))
        takes(c) == IF c \in PushCols THEN ~ChangedHere(cl, c)
                    ELSE ~later(Eff(cl, c), Eff(scl, c))
        dead == IF scl.has /\ ~scl.alive THEN scl.row ELSE Zero
    IN CASE srow # NoRow /\ row = NoRow ->
              IF ~cl.has \/ cl.alive \/ ~later(cl.row, Latest(scl)) THEN srow ELSE NoRow
         [] srow # NoRow /\ row # NoRow ->
              [c \in Cols |-> IF takes(c) THEN srow[c] ELSE row[c]]
         [] srow = NoRow /\ row # NoRow ->
              IF later(Latest(cl), dead) THEN row ELSE NoRow
         [] OTHER -> NoRow

\* (a pull that leaves the replica's own clock where it was)
MergedUnlifted(r, n, ks, srows, sclocks, floor) ==
    [r EXCEPT !.row = [k \in Keys |-> IF k \in ks THEN PlanMerge(r.row[k], r.clocks[k], srows[k], sclocks[k], floor)
                                      ELSE @[k]],
              !.clocks = [k \in Keys |-> IF k \in ks THEN Laid(@[k], sclocks[k]) ELSE @[k]]]

\* applyMerges and copyClocks, for the keys whose server rows and clocks are given
Merged(r, n, ks, srows, sclocks, floor) ==
    LET latest == {Latest(sclocks[k]).hlc : k \in ks}
        top == CHOOSE h \in latest \cup {0} : \A o \in latest : o <= h
    IN [r EXCEPT !.row = [k \in Keys |-> IF k \in ks THEN PlanMerge(r.row[k], r.clocks[k], srows[k], sclocks[k], floor)
                                         ELSE @[k]],
                 !.clocks = [k \in Keys |-> IF k \in ks THEN Laid(@[k], sclocks[k]) ELSE @[k]],
                 !.hlc = MaxOf(@, MinOf(top, Ceiling(Corrected(n))))]

\* pushStmts on one key: the row the server then has
Pushed(s, k, row, cl) ==
    LET srow == s.row[k]
        scl == s.clocks[k]
        beats(e, c) == e.hlc > s.floor /\ After(e, scl.row) /\ After(e, scl.cols[c])
        tombstone == IF scl.has /\ ~scl.alive THEN scl.row ELSE Zero
        rest == IF scl.has /\ scl.alive THEN {scl.row} ELSE {}
        m == Latest(cl)
    IN IF row = NoRow
       THEN IF /\ cl.row.hlc > s.floor
               /\ \A o \in rest \cup {scl.cols[c] : c \in Cols} : After(cl.row, o)
            THEN NoRow ELSE srow
       ELSE IF srow = NoRow
       THEN IF m.hlc > s.floor /\ After(m, tombstone) THEN row ELSE NoRow
       ELSE [c \in Cols |-> IF c \in PushCols
                            THEN IF ChangedHere(cl, c) THEN row[c] ELSE srow[c]
                            ELSE IF beats(Eff(cl, c), c) THEN row[c] ELSE srow[c]]

\* clockUpsert: a pushed clock is stored no later than the server's ceiling
Capped(cl) ==
    LET cut(s) == [s EXCEPT !.hlc = MinOf(@, Ceiling(wall))]
    IN [cl EXCEPT !.row = cut(@), !.cols = [c \in Cols |-> cut(@[c])]]

\* (a push marks whatever the key's clocks now are as sent)
AcknowledgedAll(cl, sent, scl, n) == [cl EXCEPT !.dirty = {}]

\* mergeBack's first two passes: what was sent is marked so, and a clock of
\* this node that the server cut down is taken as the server stored it
Acknowledged(cl, sent, scl, n) ==
    LET cut(s, o) == IF o.node = n /\ s.node = n /\ s.hlc > o.hlc THEN o ELSE s
        same == {c \in Cols : sent.cols[c] = cl.cols[c]}
                    \cup (IF sent.has /\ sent.row = cl.row THEN {"row"} ELSE {})
    IN [cl EXCEPT !.dirty = @ \ same,
                  !.row = cut(@, scl.row),
                  !.cols = [c \in Cols |-> cut(@[c], scl.cols[c])]]

----------------------------------------------------------------------------
(* Edits, the clocks of the machines, and failures.                        *)

\* what an INSERT, a DELETE or an UPDATE of one column makes of a row
Edited(row) ==
    IF row = NoRow THEN {[c \in Cols |-> CHOOSE v \in Vals : TRUE]}
    ELSE ({NoRow} \cup {[row EXCEPT ![c] = v] : c \in Cols, v \in Vals}) \ {row}

\* a front end or the daemon writes the replica; the capture triggers fire
LocalEdit(n, k, new) ==
    LET r == rep[n]
        v == Ticked(r.hlc, Corrected(n))
    IN /\ edits < MaxEdits
       /\ rep' = [rep EXCEPT ![n].row[k] = new,
                             ![n].clocks[k] = Stamped(@, [hlc |-> v, node |-> n], r.row[k], new, TRUE),
                             ![n].hlc = v,
                             ![n].outbox = Append(@, k)]
       /\ edits' = edits + 1
       /\ UNCHANGED <<wall, skew, job, srv, faults>>

\* the server's own triggers: a change-log entry while they are installed
Logged(s, k, origin) ==
    IF s.triggers THEN [s EXCEPT !.seq = @ + 1,
                                 !.log = @ \cup {[seq |-> s.seq + 1, key |-> k, origin |-> origin, at |-> wall]}]
    ELSE s

\* a node that works online writes the server directly; its triggers stamp it
OnlineEdit(k, new) ==
    LET v == Ticked(srv.hlc, wall)
        s == Logged([srv EXCEPT !.row[k] = new], k, 0)
    IN /\ "online" \in Faults /\ edits < MaxEdits
       /\ srv' = IF srv.triggers
                 THEN [s EXCEPT !.clocks[k] = Stamped(@, [hlc |-> v, node |-> 0], srv.row[k], new, FALSE), !.hlc = v]
                 ELSE s
       /\ edits' = edits + 1
       /\ UNCHANGED <<wall, skew, rep, job, faults>>

\* a tick is longer than any operation: its requests time out after seconds
Tick ==
    /\ \A n \in Nodes : job[n].at = "idle"
    /\ wall < MaxWall /\ wall' = wall + 1
    /\ UNCHANGED <<skew, rep, job, srv, edits, faults>>

Idle == [at |-> "idle"]

\* The process dies within a push: what it had in memory is gone, and what either
\* side committed stays.  A request that fails, or whose reply is lost, ends the
\* operation in the same way, but for a re-seed's push, whose error it only logs.
\* (Elsewhere nothing is committed before the last step: an operation that dies
\* there, or before its push commits, has done nothing.)
Interrupted(n) ==
    /\ "interrupt" \in Faults /\ job[n].at \in {"sending", "merging", "clearing"}
    /\ job[n].at = "sending" => job[n].seeding
    /\ faults < MaxFaults /\ faults' = faults + 1
    /\ \E next \in {Idle} \cup (IF job[n].at \in {"sending", "merging"} /\ job[n].seeding
                                THEN {[at |-> "head"]} ELSE {}) :
            job' = [job EXCEPT ![n] = next]
    /\ UNCHANGED <<wall, skew, rep, srv, edits>>

----------------------------------------------------------------------------
(* Push (sync.go Push, pushAll, pushOnce; merge.go pushItems, mergeBack).  *)

\* pushOnce's read transaction: the outbox, and each key's row and clocks
ReadOutbox(n, seeding) ==
    [at |-> "sending", seeding |-> seeding, n |-> Len(rep[n].outbox),
     keys |-> {rep[n].outbox[i] : i \in 1..Len(rep[n].outbox)},
     rows |-> rep[n].row, clocks |-> rep[n].clocks, floor |-> rep[n].floor]

\* an unseeded replica seeds first, which begins by pushing as well
Push(n) ==
    /\ job[n] = Idle
    /\ rep[n].outbox # <<>>
    /\ job' = [job EXCEPT ![n] = ReadOutbox(n, ~rep[n].seeded)]
    /\ UNCHANGED <<wall, skew, rep, srv, edits, faults>>

\* the server transaction: the statements, the tagged change log, the read back
PushCommits(n) ==
    LET j == job[n]
        row == [k \in Keys |-> IF k \in j.keys THEN Pushed(srv, k, j.rows[k], j.clocks[k]) ELSE srv.row[k]]
        cl == [k \in Keys |-> IF k \in j.keys THEN Laid(srv.clocks[k], Capped([j.clocks[k] EXCEPT !.dirty = {}]))
                              ELSE srv.clocks[k]]
        touched == {k \in j.keys : ~(srv.row[k] = NoRow /\ row[k] = NoRow)}
        entries == [k \in touched |-> [seq |-> srv.seq + Cardinality({o \in touched : o <= k}),
                                       key |-> k, origin |-> n, at |-> wall]]
    IN /\ j.at = "sending"
       /\ srv' = [srv EXCEPT !.row = row, !.clocks = cl,
                             !.seq = IF srv.triggers THEN @ + Cardinality(touched) ELSE @,
                             !.log = IF srv.triggers THEN @ \cup {entries[k] : k \in touched} ELSE @]
       /\ job' = [job EXCEPT ![n] = [at |-> "merging", seeding |-> j.seeding, n |-> j.n, keys |-> j.keys,
                                     sent |-> j.clocks, rows |-> row, clocks |-> cl, floor |-> j.floor]]
       /\ UNCHANGED <<wall, skew, rep, edits, faults>>

\* mergeBack, in one local transaction
MergeBack(n) ==
    LET j == job[n]
        acked == [rep[n] EXCEPT !.clocks = [k \in Keys |->
                     IF k \in j.keys THEN Acknowledged(@[k], j.sent[k], j.clocks[k], n) ELSE @[k]]]
    IN /\ j.at = "merging"
       /\ rep' = [rep EXCEPT ![n] = Merged(acked, n, j.keys, j.rows, j.clocks, j.floor)]
       /\ job' = [job EXCEPT ![n] = [at |-> "clearing", seeding |-> j.seeding, n |-> j.n]]
       /\ UNCHANGED <<wall, skew, srv, edits, faults>>

\* (the outbox is emptied, whatever came after the read)
EmptyOutbox(n) ==
    /\ job[n].at = "clearing"
    /\ rep' = [rep EXCEPT ![n].outbox = <<>>]
    /\ job' = [job EXCEPT ![n] = IF job[n].seeding THEN [at |-> "head"] ELSE Idle]
    /\ UNCHANGED <<wall, skew, srv, edits, faults>>

\* the pushed prefix of the outbox goes; a re-seed continues with its copy
ClearOutbox(n) ==
    /\ job[n].at = "clearing"
    /\ rep' = [rep EXCEPT ![n].outbox = SubSeq(@, job[n].n + 1, Len(@))]
    /\ job' = [job EXCEPT ![n] = IF job[n].seeding THEN [at |-> "head"] ELSE Idle]
    /\ UNCHANGED <<wall, skew, srv, edits, faults>>

----------------------------------------------------------------------------
(* Pull (sync.go Pull, pullOnce, noteServerClock, reseed, housekeep).      *)

\* noteServerClock: the offset to the server's clock, and the HLC held below
\* the ceiling it gives
Measured(n) ==
    LET off == IF skew[n] < Deadband THEN 0 ELSE -skew[n]
    IN [rep[n] EXCEPT !.off = off, !.hlc = MinOf(@, Ceiling(wall + skew[n] + off))]

\* ensureChangelog: triggers that were missing left writes unlogged, so a
\* sequence number of the log becomes the floor every replica re-seeds from
Reinstalled(s) == [s EXCEPT !.triggers = TRUE, !.seq = @ + 1, !.pruned = s.seq + 1]

\* An unseeded replica re-seeds.  Otherwise one batch reads the log, how far it
\* was pruned, the triggers, the floor and the clock.
Pull(n) ==
    LET r == rep[n]
        entries == {e \in srv.log : e.seq > r.cursor}
        maxSeq == CHOOSE s \in {e.seq : e \in entries} : \A e \in entries : e.seq <= s
    IN /\ job[n] = Idle
       /\ \/ /\ ~r.seeded
             /\ job' = [job EXCEPT ![n] = ReadOutbox(n, TRUE)]
             /\ UNCHANGED <<rep, srv>>
          \/ /\ r.seeded /\ ~srv.triggers
             /\ srv' = Reinstalled(srv)
             /\ rep' = [rep EXCEPT ![n] = Measured(n)]
             /\ UNCHANGED job
          \/ /\ r.seeded /\ srv.triggers /\ srv.pruned > r.cursor
             /\ rep' = [rep EXCEPT ![n] = Measured(n)]
             /\ job' = [job EXCEPT ![n] = ReadOutbox(n, TRUE)]
             /\ UNCHANGED srv
          \/ /\ r.seeded /\ srv.triggers /\ srv.pruned <= r.cursor /\ entries = {}
             /\ rep' = [rep EXCEPT ![n] = [Measured(n) EXCEPT !.floor = srv.floor]]
             /\ job' = [job EXCEPT ![n] = [at |-> "keep"]]
             /\ UNCHANGED srv
          \/ /\ r.seeded /\ srv.triggers /\ srv.pruned <= r.cursor /\ entries # {}
             /\ rep' = [rep EXCEPT ![n] = Measured(n)]
             /\ job' = [job EXCEPT ![n] = [at |-> "rows", cursor |-> maxSeq, floor |-> srv.floor,
                                           keys |-> {e.key : e \in {x \in entries : x.origin # n}}]]
             /\ UNCHANGED srv
       /\ UNCHANGED <<wall, skew, edits, faults>>

\* fetchStmts of every key: rows and clocks, in a batch that is no transaction
FetchRows(n) ==
    /\ job[n].at = "rows"
    /\ job' = [job EXCEPT ![n] = [at |-> "clocks", cursor |-> @.cursor, floor |-> @.floor,
                                  keys |-> @.keys, rows |-> srv.row, clocks |-> srv.clocks]]
    /\ UNCHANGED <<wall, skew, rep, srv, edits, faults>>

\* the clocks that came with the rows
ReadWith(j) == IF "torn" \in Faults THEN srv.clocks ELSE j.clocks

\* applyTx: the merge, the floor and the cursor
ApplyPull(n) ==
    LET j == job[n]
    IN /\ j.at = "clocks"
       /\ rep' = [rep EXCEPT ![n] = [Merged(rep[n], n, j.keys, j.rows, ReadWith(j), j.floor)
                                        EXCEPT !.floor = j.floor, !.cursor = j.cursor]]
       /\ job' = [job EXCEPT ![n] = [at |-> "keep"]]
       /\ UNCHANGED <<wall, skew, srv, edits, faults>>

\* reseed's head: the cursor to go on from, never below what was pruned
ReseedHead(n) ==
    LET head == CHOOSE s \in {e.seq : e \in srv.log} \cup {srv.pruned} :
                    \A o \in {e.seq : e \in srv.log} \cup {srv.pruned} : o <= s
    IN /\ job[n].at = "head"
       /\ rep' = [rep EXCEPT ![n] = Measured(n)]
       /\ job' = [job EXCEPT ![n] = [at |-> "pages", cursor |-> head, floor |-> srv.floor]]
       /\ UNCHANGED <<wall, skew, srv, edits, faults>>

\* reseed's copy of the tables and of the clocks, page by page
ReseedPages(n) ==
    /\ job[n].at = "pages"
    /\ job' = [job EXCEPT ![n] = [at |-> "seeding", cursor |-> @.cursor, floor |-> @.floor, rows |-> srv.row,
                                  clocks |-> srv.clocks]]
    /\ UNCHANGED <<wall, skew, rep, srv, edits, faults>>

\* reseed's transaction over every key; then publishCursor
ApplySeed(n) ==
    LET j == job[n]
    IN /\ j.at = "seeding"
       /\ rep' = [rep EXCEPT ![n] = [Merged(rep[n], n, Keys, j.rows, ReadWith(j), j.floor)
                                        EXCEPT !.floor = j.floor, !.cursor = j.cursor, !.seeded = TRUE]]
       /\ srv' = [srv EXCEPT !.cursors[n] = [seq |-> j.cursor, at |-> wall]]
       /\ job' = [job EXCEPT ![n] = Idle]
       /\ UNCHANGED <<wall, skew, edits, faults>>

\* PruneChangelog: the entries every live replica has read and the ones past
\* the retention; the clocks past it, the newest of which is the new floor
Pruned(s) ==
    LET horizon == wall - Retention
        live == {n \in Nodes : s.cursors[n].at >= horizon /\ s.cursors[n].seq >= 0}
        read == IF live = {} THEN 0 ELSE CHOOSE m \in {s.cursors[n].seq : n \in live} :
                                             \A n \in live : m <= s.cursors[n].seq
        gone == {e \in s.log : e.seq <= read \/ e.at < horizon}
        old(st) == st.hlc < horizon * Grain
        stamps == UNION {{s.clocks[k].row} \cup {s.clocks[k].cols[c] : c \in Cols} : k \in Keys}
        floors == {st.hlc : st \in {x \in stamps : old(x)}} \cup {s.floor}
        drop(cl) == [cl EXCEPT !.row = IF old(@) THEN Zero ELSE @,
                               !.has = @ /\ ~old(cl.row),
                               !.alive = IF old(cl.row) THEN TRUE ELSE @,
                               !.cols = [c \in Cols |-> IF old(@[c]) THEN Zero ELSE @[c]]]
    IN [s EXCEPT !.pruned = CHOOSE p \in {e.seq : e \in gone} \cup {@} :
                                \A o \in {e.seq : e \in gone} \cup {@} : o <= p,
                 !.log = @ \ gone,
                 !.floor = CHOOSE f \in floors : \A o \in floors : o <= f,
                 !.clocks = [k \in Keys |-> drop(@[k])]]

\* pruneLocalClocks: below the floor, for keys that wait for no push
LocalPruned(r) ==
    LET old(st) == st.hlc < r.floor
        waits == {r.outbox[i] : i \in 1..Len(r.outbox)}
        drop(cl) == [cl EXCEPT !.row = IF old(@) THEN Zero ELSE @,
                               !.has = @ /\ ~old(cl.row),
                               !.alive = IF old(cl.row) THEN TRUE ELSE @,
                               !.cols = [c \in Cols |-> IF old(@[c]) THEN Zero ELSE @[c]],
                               !.dirty = (IF old(cl.row) THEN @ \ {"row"} ELSE @) \ {c \in Cols : old(cl.cols[c])}]
    IN [r EXCEPT !.clocks = [k \in Keys |-> IF k \in waits THEN @[k] ELSE drop(@[k])]]

\* housekeep: the cursor is published and, as its throttle allows, the log pruned
\* (a pull whose publish is throttled leaves an older cursor, for which the next
\* prune only keeps more)
Housekeep(n, prune) ==
    LET published == [srv EXCEPT !.cursors[n] = [seq |-> rep[n].cursor, at |-> wall]]
    IN /\ job[n].at = "keep"
       /\ prune /\ "prune" \notin Faults =>
             \A o \in Nodes \ {n} : job[o].at \notin {"rows", "clocks", "pages", "seeding"}
       /\ srv' = IF prune THEN Pruned(published) ELSE published
       /\ rep' = IF prune THEN [rep EXCEPT ![n] = LocalPruned(rep[n])] ELSE rep
       /\ job' = [job EXCEPT ![n] = Idle]
       /\ UNCHANGED <<wall, skew, edits, faults>>

----------------------------------------------------------------------------
\* A machine's clock may be ahead of the server's, and the server may have lost
\* its triggers (an older binary, a restored backup): each is a fault.
InitReplica ==
    \E ahead \in {f \in [Nodes -> Skews] : Cardinality({n \in Nodes : f[n] > 0}) <= 1},
       lost \in (IF "triggers" \in Faults THEN BOOLEAN ELSE {FALSE}) :
        /\ wall = Retention + 1
        /\ skew = ahead
        /\ srv = [row |-> [k \in Keys |-> NoRow], clocks |-> [k \in Keys |-> NoClocks], hlc |-> 0,
                  seq |-> 0, log |-> {}, pruned |-> 0, floor |-> 0, triggers |-> ~lost,
                  cursors |-> [n \in Nodes |-> IF n \in Seeded THEN [seq |-> 0, at |-> Retention + 1]
                                               ELSE [seq |-> -1, at |-> 0]]]
        /\ rep = [n \in Nodes |->
                    [row |-> [k \in Keys |-> NoRow], clocks |-> [k \in Keys |-> NoClocks], hlc |-> 0, off |-> 0,
                     outbox |-> <<>>, cursor |-> 0, floor |-> 0, seeded |-> n \in Seeded]]
        /\ job = [n \in Nodes |-> Idle]
        /\ edits = 0
        /\ faults = Cardinality({n \in Nodes : ahead[n] > 0}) + (IF lost THEN 1 ELSE 0)
        /\ faults <= MaxFaults

SyncStep(n) ==
    \/ Push(n) \/ PushCommits(n) \/ MergeBack(n) \/ ClearOutbox(n)
    \/ Pull(n) \/ FetchRows(n) \/ ApplyPull(n)
    \/ ReseedHead(n) \/ ReseedPages(n) \/ ApplySeed(n)
    \/ \E prune \in BOOLEAN : Housekeep(n, prune)

NextReplica ==
    \/ \E n \in Nodes : SyncStep(n) \/ Interrupted(n)
    \/ \E n \in Nodes, k \in Keys : \E new \in Edited(rep[n].row[k]) : LocalEdit(n, k, new)
    \/ \E k \in Keys : \E new \in Edited(srv.row[k]) : OnlineEdit(k, new)
    \/ Tick

SpecReplica == InitReplica /\ [][NextReplica]_replicaVars

----------------------------------------------------------------------------
\* Nothing of a fleet's sync is in progress and every replica has read the log.
SyncSettled ==
    \A n \in Nodes : /\ job[n] = Idle /\ rep[n].outbox = <<>> /\ rep[n].seeded
                     /\ srv.triggers /\ rep[n].cursor >= srv.pruned
                     /\ \A e \in srv.log : e.seq <= rep[n].cursor

\* Replicas that have pushed what they had and read the whole change log hold
\* the server's rows, whatever was edited where, in which order the pushes and
\* the pulls came, what was interrupted, and how far a clock was wrong.
Converged == SyncSettled => \A n \in Nodes : rep[n].row = srv.row

\* The stamp `self' puts on a row is later than every stamp of another node
\* that it replaces.
LaterStamps(self, row, new, cl, then) ==
    IF row = NoRow \/ new = NoRow
    THEN LET l == Latest(cl) IN l.node = self \/ After(then.row, l)
    ELSE \A c \in Cols : row[c] # new[c] => Eff(cl, c).node = self \/ After(then.cols[c], Eff(cl, c))

\* clock.go 12-15: a clock is never less than any this side has seen, so an
\* edit made after someone else's is later than it, whatever the machines'
\* clocks say: else the edit would lose to the value it replaced.
EditsAreLaterThanSeen ==
    [][edits' # edits =>
         /\ \A n \in Nodes, k \in Keys : rep'[n].row[k] # rep[n].row[k] =>
                LaterStamps(n, rep[n].row[k], rep'[n].row[k], rep[n].clocks[k], rep'[n].clocks[k])
         /\ \A k \in Keys : srv'.row[k] # srv.row[k] =>
                LaterStamps(0, srv.row[k], srv'.row[k], srv.clocks[k], srv'.clocks[k])]_replicaVars

\* merge.go 20-22: an outcome decided here and not yet pushed is not undone by
\* what a pull, or the read back of a push that was sent before it, brings.
UnsentOutcomeStands ==
    [][edits' = edits =>
         \A n \in Nodes, k \in Keys : \A c \in PushCols :
            /\ c \in rep[n].clocks[k].dirty
            /\ rep[n].row[k] # NoRow /\ rep'[n].row[k] # NoRow
            => rep'[n].row[k][c] = rep[n].row[k][c]]_replicaVars

\* What the merge promises a fleet: replicas converge, an edit is later than what it
\* replaces, and an outcome that was not pushed yet is not undone (merge.go, clock.go).
FleetAgrees == []Converged /\ EditsAreLaterThanSeen /\ UnsentOutcomeStands
============================================================================
