---------------------------- MODULE StoreImport ----------------------------
(***************************************************************************)
(* A machine's history moved between its own sqlite file and the fleet's   *)
(* shared database (internal/store/importer.go, internal/store/migrate.go, *)
(* cmd/hap/import.go, cmd/hap/migrate.go).  The daemon that starts on the  *)
(* shared engine folds the local file in once; `hap migrate' copies either *)
(* way, with the daemon stopped.  A copy writes every row under a new id   *)
(* and remaps what refers to it, in one transaction.  Three tables stand   *)
(* for the copied ones: decisions (knowledge: every node's), rules (the    *)
(* signature rows, by content: the destination's row wins) and the audit   *)
(* log (a node's own).  `of' is the row's origin, a number no copy changes *)
(***************************************************************************)
EXTENDS Integers, FiniteSets, FiniteSetsExt

CONSTANTS
    Sigs,           \* signatures
    MaxRows,        \* bound on the decisions made by this node and the others
    MaxMoves,       \* bound on the manual copies
    MaxStoreEdits,  \* bound on resets and deletions of a signature
    MaxDeaths       \* bound on daemons that die in the middle of a start

VARIABLES
    store,          \* the two databases
    localFile,      \* the sqlite file exists
    importMarker,         \* the file that caches "already imported" exists
    engine,         \* database.engine: "local" or "shared"
    hapDaemon,         \* "off", "imported" (committed, marker not yet written), "on"
    minted,         \* the last id of the shared database's allocators
    made,           \* the last origin
    met,            \* history: << store, signature >> a copy found already there, here or where it came from
    broughtHome,    \* history: the shared database was copied into the local file
    copiesMade, ruleEdits, deaths

importVars == << store, localFile, importMarker, engine, hapDaemon, minted, made, met, broughtHome,
                 copiesMade, ruleEdits, deaths >>

NoRule == -1
EmptyStore == [decisions |-> {}, audits |-> {}, floor |-> [s \in Sigs |-> NoRule],
               imported |-> FALSE, nextLocal |-> 1]

InitImport ==
    /\ store = [d \in {"local", "shared"} |-> EmptyStore]
    /\ localFile = FALSE /\ importMarker = FALSE /\ hapDaemon = "off"
    /\ engine \in {"local", "shared"}
    /\ minted = 0 /\ made = 0 /\ met = {} /\ broughtHome = FALSE
    /\ copiesMade = 0 /\ ruleEdits = 0 /\ deaths = 0

-----------------------------------------------------------------------------
(* The copier.  Both databases' ids grow; a copy takes the ids after the   *)
(* last one, in the order of the old ones.                                 *)

Ids(rows) == {r.id : r \in rows}
NewIds(ids, after) == [i \in ids |-> after + Cardinality({j \in ids : j <= i})]

RemapUntouched(map, old) == old
Remap(map, old) == IF old \in DOMAIN map THEN map[old] ELSE 0

RemapFloorKept(map, floor) == floor

\* remapFloor: the floor's own decision, or the nearest one below that is left.
RemapFloor(map, floor) ==
    LET below == {i \in DOMAIN map : i <= floor}
    IN  IF below = {} THEN 0 ELSE map[Max(below)]

\* copySteps, copyTable: the decisions of every node, the audit rows of "us" (or of
\* all), all of them ours from now on; INSERT OR IGNORE keeps the signature rows the
\* destination has.
Copied(src, dst, allNodes, lastDecision, lastAudit) ==
    LET taken == {a \in src.audits : allNodes \/ a.node = "us"}
        dmap  == NewIds(Ids(src.decisions), lastDecision)
        amap  == NewIds(Ids(taken), lastAudit)
    IN  [dst EXCEPT
           !.decisions = @ \cup {[d EXCEPT !.id = dmap[d.id]] : d \in src.decisions},
           !.audits = @ \cup {[a EXCEPT !.id = amap[a.id], !.node = "us",
                                        !.decision = Remap(dmap, a.decision),
                                        !.corrects = Remap(amap, a.corrects)] : a \in taken},
           !.floor = [s \in Sigs |-> IF @[s] # NoRule \/ src.floor[s] = NoRule THEN @[s]
                                     ELSE RemapFloor(dmap, src.floor[s])],
           !.imported = TRUE]

Already(src, dst) == {s \in Sigs : store[src].floor[s] # NoRule /\ store[dst].floor[s] # NoRule}

\* The shared database's allocator hands out n ids; a local table mints its own.
Minted(db, n) == IF db = "shared" THEN minted + n ELSE minted

\* nextID: the shared allocator, or the local table's maximum (MaxRows bounds the
\* rows, so audit ids are kept apart from decision ids by an offset).
CopyInto(dst, allNodes) ==
    LET src  == IF dst = "local" THEN "shared" ELSE "local"
        rows == store[src]
        used == Cardinality(rows.decisions) + Cardinality(rows.audits)
        last == IF dst = "local" THEN store.local.nextLocal - 1 ELSE minted
    IN  /\ store' = [store EXCEPT ![dst] =
              [Copied(rows, store[dst], allNodes, last, last + Cardinality(rows.decisions))
                 EXCEPT !.nextLocal = IF dst = "local" THEN @ + used ELSE @]]
        /\ minted' = Minted(dst, used)
        /\ met' = met \cup ({dst} \X (Already(src, dst) \cup {s \in Sigs : << src, s >> \in met}))

-----------------------------------------------------------------------------
(* The daemon, which boots on the configured engine.                       *)

\* store.Open creates and migrates the local file.
StartLocal ==
    /\ hapDaemon = "off" /\ engine = "local"
    /\ hapDaemon' = "on" /\ localFile' = TRUE
    /\ UNCHANGED << store, importMarker, engine, minted, made, met, broughtHome, copiesMade, ruleEdits, deaths >>

\* ImportLegacy: the marker spares the open; without it the destination's own row
\* decides, inside the transaction.
ImportOwedByMarker == localFile /\ ~importMarker
ImportOwed == localFile /\ ~importMarker /\ ~store.shared.imported

StartShared ==
    /\ hapDaemon = "off" /\ engine = "shared"
    /\ \/ /\ ImportOwed
          /\ CopyInto("shared", FALSE) /\ hapDaemon' = "imported"
       \/ /\ ~ImportOwed
          /\ hapDaemon' = (IF localFile /\ ~importMarker THEN "imported" ELSE "on")
          /\ UNCHANGED << store, minted, met >>
    /\ UNCHANGED << localFile, importMarker, engine, made, broughtHome, copiesMade, ruleEdits, deaths >>

WriteMarker ==
    /\ hapDaemon = "imported"
    /\ hapDaemon' = "on" /\ importMarker' = TRUE
    /\ UNCHANGED << store, localFile, engine, minted, made, met, broughtHome, copiesMade, ruleEdits, deaths >>

\* The process dies after the commit, or cannot write the marker.
DieBeforeMarker ==
    /\ hapDaemon = "imported" /\ deaths < MaxDeaths
    /\ deaths' = deaths + 1 /\ hapDaemon' = "off"
    /\ UNCHANGED << store, localFile, importMarker, engine, minted, made, met, broughtHome, copiesMade, ruleEdits >>

StopDaemon ==
    /\ hapDaemon = "on" /\ hapDaemon' = "off"
    /\ UNCHANGED << store, localFile, importMarker, engine, minted, made, met, broughtHome, copiesMade, ruleEdits, deaths >>

\* hap config set database.engine, read at the next start.
SwitchEngine ==
    /\ hapDaemon = "off" /\ engine' = (IF engine = "local" THEN "shared" ELSE "local")
    /\ UNCHANGED << store, localFile, importMarker, hapDaemon, minted, made, met, broughtHome, copiesMade, ruleEdits, deaths >>

\* The replica's directory, with the marker in it, is rebuilt from the remote.
RebuildReplica ==
    /\ hapDaemon = "off" /\ importMarker /\ importMarker' = FALSE
    /\ UNCHANGED << store, localFile, engine, hapDaemon, minted, made, met, broughtHome, copiesMade, ruleEdits, deaths >>

-----------------------------------------------------------------------------
(* What is written between the moves.                                      *)

\* A decision, its audit row, and the signature row it is counted under.
Record(db, node, sig, corrected) ==
    LET id == IF db = "local" THEN store.local.nextLocal ELSE minted + 1
    IN  /\ made < MaxRows /\ made' = made + 1
        /\ store' = [store EXCEPT ![db].decisions = @ \cup {[id |-> id, sig |-> sig, of |-> made + 1, spent |-> FALSE]},
                                  ![db].audits = @ \cup {[id |-> id + 1, node |-> node, of |-> made + 1,
                                      decision |-> id, corrects |-> corrected.id, was |-> corrected.of]},
                                  ![db].floor[sig] = IF @ = NoRule THEN 0 ELSE @,
                                  ![db].nextLocal = IF db = "local" THEN @ + 2 ELSE @]
        /\ minted' = Minted(db, 2)
        /\ UNCHANGED << localFile, importMarker, engine, hapDaemon, met, broughtHome, copiesMade, ruleEdits, deaths >>

Nothing == [id |-> 0, of |-> 0]
Corrigible(db, node) == {Nothing} \cup {[id |-> a.id, of |-> a.of] : a \in {b \in store[db].audits : b.node = node}}

DecideRow(sig) ==
    /\ hapDaemon = "on"
    /\ \E c \in Corrigible(engine, "us") : Record(engine, "us", sig, c)

OtherNodeDecides(sig) == Record("shared", "them", sig, Nothing)

\* ResetSignature: the floor rises to the newest decision, which no longer counts.
ResetSignature(sig) ==
    LET mine == {d \in store[engine].decisions : d.sig = sig}
    IN  /\ hapDaemon = "on" /\ ruleEdits < MaxStoreEdits /\ ruleEdits' = ruleEdits + 1
        /\ store[engine].floor[sig] # NoRule /\ mine # {}
        /\ store' = [store EXCEPT ![engine].floor[sig] = Max(Ids(mine)),
                                  ![engine].decisions = (@ \ mine) \cup {[d EXCEPT !.spent = TRUE] : d \in mine}]
        /\ UNCHANGED << localFile, importMarker, engine, hapDaemon, minted, made, met, broughtHome, copiesMade, deaths >>

DeleteSignature(sig) ==
    /\ hapDaemon = "on" /\ ruleEdits < MaxStoreEdits /\ ruleEdits' = ruleEdits + 1
    /\ store[engine].floor[sig] # NoRule
    /\ store' = [store EXCEPT ![engine].floor[sig] = NoRule,
                              ![engine].decisions = {d \in @ : d.sig # sig}]
    /\ UNCHANGED << localFile, importMarker, engine, hapDaemon, minted, made, met, broughtHome, copiesMade, deaths >>

-----------------------------------------------------------------------------
(* hap migrate: refused while a daemon runs, and into a destination that   *)
(* holds history: any audit row of a local file, our own of the fleet's.   *)

DestinationHistoryUnread(dst) == {a \in store[dst].audits : dst = "local" /\ a.node = "us"}
DestinationHistory(dst) == {a \in store[dst].audits : dst = "local" \/ a.node = "us"}

Copies(dst, allNodes) ==
    \/ DestinationHistory(dst) = {} /\ CopyInto(dst, allNodes)
    \/ DestinationHistory(dst) # {} /\ UNCHANGED << store, minted, met >>

Migrate(dst, allNodes) ==
    /\ hapDaemon = "off" /\ copiesMade < MaxMoves /\ copiesMade' = copiesMade + 1
    /\ allNodes => dst = "local"
    /\ localFile' = TRUE                        \* copyBetween opens it
    /\ broughtHome' = (broughtHome \/ (dst = "local" /\ DestinationHistory(dst) = {}))
    /\ Copies(dst, allNodes)
    /\ UNCHANGED << importMarker, engine, hapDaemon, made, ruleEdits, deaths >>

NextImport ==
    \/ StartLocal \/ StartShared \/ WriteMarker \/ DieBeforeMarker \/ StopDaemon
    \/ SwitchEngine \/ RebuildReplica
    \/ \E sig \in Sigs : DecideRow(sig) \/ OtherNodeDecides(sig) \/ ResetSignature(sig) \/ DeleteSignature(sig)
    \/ \E dst \in {"local", "shared"}, allNodes \in BOOLEAN : Migrate(dst, allNodes)

SpecImport == InitImport /\ [][NextImport]_importVars

-----------------------------------------------------------------------------
Twice(rows) == \E r, q \in rows : r # q /\ r.of = q.of

\* importer.go, "Once": a crash between the commit and the marker, a marker that was
\* lost, a manual copy followed by an automatic one or by itself: no decision and no
\* audit row is in one database twice - as long as the fleet's rows were never copied
\* into the local file the next start may import.
NothingTwiceOneWay ==
    ~broughtHome => \A d \in DOMAIN store : ~Twice(store[d].decisions) /\ ~Twice(store[d].audits)

\* The same, of every copy: what importer.go:20-23 says the row in the shared store
\* rules out.
NothingTwice == \A d \in DOMAIN store : ~Twice(store[d].decisions) /\ ~Twice(store[d].audits)

\* importer.go, "every cross reference is remapped": wherever an audit row ends up, what
\* it calls its decision is its own decision, and what it corrects is the row it
\* corrected, or nothing.
RefersToItsOwn ==
    \A d \in DOMAIN store : \A a \in store[d].audits :
        /\ \A c \in store[d].decisions : c.id = a.decision => c.of = a.of
        /\ \A b \in store[d].audits : (a.corrects # 0 /\ b.id = a.corrects) => b.of = a.was

\* remapFloor: a rule the operator reset stays reset when it moves: a decision counts
\* where it was copied to exactly if it counted where it came from, unless the
\* destination, or one it came through, kept a row of its own for the signature.
ResetSurvivesTheMove ==
    \A d \in DOMAIN store : \A c \in store[d].decisions :
        << d, c.sig >> \notin met => (c.spent <=> c.id <= store[d].floor[c.sig])

\* What a move between the local file and the shared store promises: nothing arrives
\* twice, every reference arrives at its own row, and resets stand (importer.go).
ImportIsFaithful == NothingTwiceOneWay /\ RefersToItsOwn /\ ResetSurvivesTheMove
=============================================================================
