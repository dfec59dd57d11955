----------------------------- MODULE PartsProofs -----------------------------
(***************************************************************************)
(* Theorems about six of the smaller components: what each one answers is *)
(* true, for every value of its constants.                                 *)
(*                                                                         *)
(* Each section has the inductive invariant of its component first, then   *)
(* a lemma for every action or group of actions, then the theorem.         *)
(***************************************************************************)
EXTENDS StreamReader, TuiQueue, TaskReview, AgentMode, RuleMatching, ConfigFile,
        FiniteSetTheorems, SequenceTheorems, TLAPS

-----------------------------------------------------------------------------
(* The reader of the event stream *)

\* The log only grows, and what was pruned is a prefix of it.
LogOK == seqs \in Nat /\ pruned \in 0..seqs

\* A batch is a piece of the log that starts at the cursor, or after what was pruned, and the head
\* is read after it.
BatchIs(lo, hi) ==
  /\ lo \in Nat /\ hi \in Nat /\ reader.batch = (lo + 1)..hi
  /\ reader.cursor <= lo /\ (reader.cursor < lo => lo <= pruned) /\ hi <= seqs
  /\ reader.at = "floor" => hi <= reader.head /\ reader.head <= seqs

ReaderOK ==
  /\ reader \in [at : {"off", "read", "check", "floor"}, cursor : Nat, from : Nat, batch : SUBSET Nat,
                 head : Nat, settled : BOOLEAN]
  /\ reader.at = "off" => printed = {} /\ missed = {} /\ reader.cursor = 0 /\ reader.from = 0
  /\ reader.cursor <= seqs
  /\ reader.at \in {"check", "floor"} => \E lo, hi : BatchIs(lo, hi)

\* What was told lies behind the cursor, so nothing is told twice.
ToldOK ==
  /\ printed \subseteq 1..reader.cursor /\ missed \subseteq 1..reader.cursor
  /\ missed \subseteq 1..pruned /\ printed \cap missed = {}
  /\ PrunedIsToldOrUnread

RInv == LogOK /\ ReaderOK /\ ToldOK

\* The ends of a piece of the log.
LEMMA PieceEnds ==
  ASSUME NEW lo \in Nat, NEW hi \in Nat
  PROVE  /\ lo < hi => /\ (CHOOSE s \in (lo + 1)..hi : \A q \in (lo + 1)..hi : s <= q) = lo + 1
                       /\ \A c : LastOf((lo + 1)..hi, c) = hi
         /\ ~(lo < hi) => (lo + 1)..hi = {} /\ \A c : LastOf((lo + 1)..hi, c) = c
<1>1. ASSUME lo < hi
      PROVE  (CHOOSE s \in (lo + 1)..hi : \A q \in (lo + 1)..hi : s <= q) = lo + 1
  <2>1. lo + 1 \in (lo + 1)..hi /\ \A q \in (lo + 1)..hi : lo + 1 <= q
    BY <1>1
  <2>2. \A s \in (lo + 1)..hi : (\A q \in (lo + 1)..hi : s <= q) => s = lo + 1
    BY <1>1
  <2> QED
    BY <2>1, <2>2
<1>2. ASSUME lo < hi, NEW c PROVE LastOf((lo + 1)..hi, c) = hi
  <2>1. hi \in (lo + 1)..hi /\ \A q \in (lo + 1)..hi : q <= hi
    BY <1>2
  <2>2. \A s \in (lo + 1)..hi : (\A q \in (lo + 1)..hi : q <= s) => s = hi
    BY <1>2
  <2>3. (CHOOSE s \in (lo + 1)..hi : \A q \in (lo + 1)..hi : q <= s) = hi
    BY <2>1, <2>2
  <2> QED
    BY <2>1, <2>3 DEF LastOf
<1>3. ASSUME ~(lo < hi) PROVE (lo + 1)..hi = {} /\ \A c : LastOf((lo + 1)..hi, c) = c
  BY <1>3 DEF LastOf
<1> QED
  BY <1>1, <1>2, <1>3

\* Appends and prunes leave what was told as it is.
LEMMA LogMoves ==
  ASSUME RInv, LogOK', seqs <= seqs', pruned <= pruned', UNCHANGED <<reader, printed, missed, skipped>>
  PROVE  RInv'
<1>1. \A lo, hi : BatchIs(lo, hi) => BatchIs(lo, hi)'
  BY DEF BatchIs, RInv, LogOK, ReaderOK
<1>2. ReaderOK'
  BY <1>1 DEF ReaderOK, RInv, LogOK
<1>3. ToldOK'
  BY DEF ToldOK, RInv, LogOK, PrunedIsToldOrUnread
<1> QED
  BY <1>2, <1>3 DEF RInv

LEMMA StartReaderKeeps == ASSUME RInv, StartReader PROVE RInv'
<1>0. PICK resuming \in BOOLEAN, n \in 0..MaxEvents : \E oldest, from :
        /\ oldest = IF Floor = 0 THEN seqs + 1 ELSE Floor
        /\ from = IF ~resuming \/ n > seqs THEN seqs
                  ELSE IF n + 1 < oldest THEN oldest - 1 ELSE n
        /\ ReaderIs("off", [NoReader EXCEPT !.at = "read", !.cursor = from, !.from = from])
        /\ missed' = IF resuming /\ n + 1 < oldest THEN (n + 1)..from ELSE {}
  BY DEF StartReader
<1>1. PICK oldest, from :
        /\ oldest = IF Floor = 0 THEN seqs + 1 ELSE Floor
        /\ from = IF ~resuming \/ n > seqs THEN seqs
                  ELSE IF n + 1 < oldest THEN oldest - 1 ELSE n
        /\ ReaderIs("off", [NoReader EXCEPT !.at = "read", !.cursor = from, !.from = from])
        /\ missed' = IF resuming /\ n + 1 < oldest THEN (n + 1)..from ELSE {}
  BY <1>0
<1>2. oldest = pruned + 1 /\ pruned \in Nat /\ seqs \in Nat /\ pruned <= seqs /\ n \in Nat
  BY <1>1, StreamReaderAssumption DEF RInv, LogOK, Floor
<1>3. from \in Nat /\ from <= seqs
  BY <1>1, <1>2
<1>4. missed' = {} \/ (missed' = (n + 1)..from /\ from = pruned)
  BY <1>1, <1>2
<1>5. /\ reader' = [at |-> "read", cursor |-> from, from |-> from, batch |-> {}, head |-> 0,
                    settled |-> FALSE]
      /\ printed = {} /\ UNCHANGED <<seqs, pruned, printed, skipped>>
  BY <1>1 DEF StartReader, ReaderIs, NoReader, RInv, ReaderOK, logVars
<1>6. ReaderOK' /\ LogOK'
  BY <1>3, <1>5 DEF ReaderOK, RInv, LogOK
<1>7. ToldOK'
  BY <1>2, <1>3, <1>4, <1>5 DEF ToldOK, PrunedIsToldOrUnread
<1> QED
  BY <1>6, <1>7 DEF RInv

LEMMA ReadKeeps ==
  ASSUME RInv, ReadSince \/ SinceFails \/ GapRecheck \/ ReadHead
  PROVE  RInv'
<1>1. /\ UNCHANGED <<seqs, pruned, printed, missed, skipped>>
      /\ reader'.cursor = reader.cursor /\ reader'.from = reader.from
  BY DEF ReadSince, SinceFails, GapRecheck, ReadHead, ReaderIs, logVars, RInv, ReaderOK
<1>2. LogOK' /\ ToldOK'
  BY <1>1 DEF RInv, LogOK, ToldOK, PrunedIsToldOrUnread
<1>3. CASE ReadSince
  <2>1. PICK lo \in Nat : lo = IF reader.cursor > pruned THEN reader.cursor ELSE pruned
    BY DEF RInv, LogOK, ReaderOK
  <2>2. Since(reader.cursor) = (lo + 1)..seqs
    BY <2>1 DEF Since, RInv, LogOK, ReaderOK
  <2>3. /\ reader'.batch = (lo + 1)..seqs /\ reader'.at \in {"read", "check"}
        /\ reader' \in [at : {"off", "read", "check", "floor"}, cursor : Nat, from : Nat,
                        batch : SUBSET Nat, head : Nat, settled : BOOLEAN]
    <3>1. /\ reader' = [reader EXCEPT !.batch = (lo + 1)..seqs,
                           !.at = IF reader.settled /\ Since(reader.cursor) = {} THEN @ ELSE "check"]
          /\ reader.at = "read"
      BY <1>3, <2>2 DEF ReadSince, ReaderIs
    <3>2. PICK at \in {"read", "check"} :
             at = IF reader.settled /\ Since(reader.cursor) = {} THEN reader.at ELSE "check"
      BY <3>1
    <3>3. reader' = [reader EXCEPT !.batch = (lo + 1)..seqs, !.at = at]
      BY <3>1, <3>2 DEF RInv, ReaderOK
    <3>4. (lo + 1)..seqs \in SUBSET Nat
      BY DEF RInv, LogOK
    <3> QED
      BY <3>2, <3>3, <3>4 DEF RInv, ReaderOK
  <2>4. BatchIs(lo, seqs)'
    BY <1>1, <2>1, <2>3 DEF BatchIs, RInv, ReaderOK, LogOK
  <2>5. ReaderOK'
    BY <1>1, <2>3, <2>4 DEF ReaderOK, RInv
  <2> QED
    BY <1>2, <2>5 DEF RInv
<1>4. CASE SinceFails \/ GapRecheck
  <2>1. reader' = [reader EXCEPT !.settled = FALSE] /\ reader.at = "read"
    BY <1>4 DEF SinceFails, GapRecheck, ReaderIs
  <2>2. ReaderOK'
    BY <1>1, <2>1 DEF ReaderOK, RInv
  <2> QED
    BY <1>2, <2>2 DEF RInv
<1>5. CASE ReadHead
  <2>1. reader' = [reader EXCEPT !.at = "floor", !.head = seqs] /\ reader.at = "check"
    BY <1>5 DEF ReadHead, ReaderIs
  <2>2. PICK lo, hi : BatchIs(lo, hi)
    BY <2>1 DEF RInv, ReaderOK
  <2>3. BatchIs(lo, hi)'
    BY <1>1, <2>1, <2>2 DEF BatchIs, RInv, ReaderOK, LogOK
  <2>4. ReaderOK'
    BY <1>1, <2>1, <2>3 DEF ReaderOK, RInv, LogOK
  <2> QED
    BY <1>2, <2>4 DEF RInv
<1> QED
  BY <1>3, <1>4, <1>5

LEMMA ReadFloorKeeps == ASSUME RInv, ReadFloor PROVE RInv'
<1>1. PICK lo, hi : BatchIs(lo, hi)
  BY DEF ReadFloor, RInv, ReaderOK
<1> DEFINE c == reader.cursor
           last == PrunedUnder
           from == IF last > c THEN last ELSE c
<1>2. /\ lo \in Nat /\ hi \in Nat /\ reader.batch = (lo + 1)..hi /\ c \in Nat /\ c <= lo
      /\ (c < lo => lo <= pruned) /\ hi <= seqs /\ hi <= reader.head /\ reader.head <= seqs
      /\ reader.head \in Nat /\ seqs \in Nat /\ pruned \in Nat /\ pruned <= seqs /\ c <= seqs
  BY <1>1 DEF BatchIs, ReadFloor, RInv, ReaderOK, LogOK
<1>3. PICK floor \in Nat : floor = (IF Floor = 0 THEN reader.head + 1 ELSE Floor) - 1
  BY <1>2 DEF Floor
<1>4. floor <= pruned /\ (c < lo /\ lo < hi => lo <= floor)
  BY <1>2, <1>3 DEF Floor
<1>5. last = IF \E s \in (lo + 1)..hi : s - 1 < floor THEN lo ELSE floor
  <2>1. CASE \E s \in (lo + 1)..hi : s - 1 < floor
    <3>1. lo < hi
      BY <1>2, <2>1
    <3>2. last = (CHOOSE s \in (lo + 1)..hi : \A q \in (lo + 1)..hi : s <= q) - 1
      BY <1>2, <1>3, <2>1 DEF PrunedUnder
    <3>3. (CHOOSE s \in (lo + 1)..hi : \A q \in (lo + 1)..hi : s <= q) = lo + 1
      BY <1>2, <3>1, PieceEnds
    <3>4. last = (lo + 1) - 1
      BY <3>2, <3>3
    <3>5. (lo + 1) - 1 = lo
      BY <1>2
    <3> QED
      BY <2>1, <3>4, <3>5
  <2>2. CASE ~(\E s \in (lo + 1)..hi : s - 1 < floor)
    BY <1>2, <1>3, <2>2 DEF PrunedUnder
  <2> QED
    BY <2>1, <2>2
<1>6. /\ last \in Nat /\ last <= pruned
      /\ lo < hi => last <= lo /\ (c < lo => last = lo)
  <2>1. CASE \E s \in (lo + 1)..hi : s - 1 < floor
    <3>1. lo < floor
      BY <1>2, <1>3, <2>1
    <3> QED
      BY <1>2, <1>3, <1>4, <1>5, <2>1, <3>1
  <2>2. CASE ~(\E s \in (lo + 1)..hi : s - 1 < floor)
    <3>1. lo < hi => lo >= floor
      <4> SUFFICES ASSUME lo < hi, lo < floor PROVE FALSE
        BY <1>2, <1>3
      <4>1. lo + 1 \in (lo + 1)..hi /\ (lo + 1) - 1 < floor
        BY <1>2, <1>3
      <4> QED
        BY <2>2, <4>1
    <3>2. last = floor
      BY <1>5, <2>2
    <3>3. floor \in Nat /\ floor <= pruned /\ (lo < hi => floor <= lo /\ (c < lo => floor = lo))
      BY <1>2, <1>3, <1>4, <3>1
    <3> QED
      BY <3>2, <3>3
  <2> QED
    BY <2>1, <2>2
<1> HIDE DEF last
<1>7. /\ printed' = printed \cup (lo + 1)..hi
      /\ missed' = missed \cup (IF last > c THEN (c + 1)..last ELSE {})
      /\ reader' = [reader EXCEPT !.at = "read", !.batch = {}, !.head = 0,
                                  !.cursor = LastOf((lo + 1)..hi, from),
                                  !.settled = ~(last > c) /\ (lo + 1)..hi = {}]
      /\ UNCHANGED <<seqs, pruned, skipped>>
  BY <1>2 DEF ReadFloor, Printed, last, logVars
<1>8. PICK c2 \in Nat : c2 = IF lo < hi THEN hi ELSE from
  BY <1>2, <1>6
<1>9. /\ reader'.cursor = c2 /\ reader'.from = reader.from /\ reader'.at = "read"
      /\ reader' \in [at : {"off", "read", "check", "floor"}, cursor : Nat, from : Nat,
                      batch : SUBSET Nat, head : Nat, settled : BOOLEAN]
  <2>1. LastOf((lo + 1)..hi, from) = c2
    <3>1. CASE lo < hi
      BY <1>2, <1>8, <3>1, PieceEnds
    <3>2. CASE ~(lo < hi)
      BY <1>2, <1>8, <3>2, PieceEnds
    <3> QED
      BY <3>1, <3>2
  <2> QED
    BY <1>7, <2>1 DEF RInv, ReaderOK
<1>10. c <= c2 /\ c2 <= seqs /\ last <= c2 /\ (lo < hi => hi <= c2)
  BY <1>2, <1>6, <1>8
<1>11. ReaderOK' /\ LogOK'
  BY <1>7, <1>9, <1>10 DEF ReaderOK, RInv, LogOK
<1>12. printed' \subseteq 1..c2 /\ missed' \subseteq 1..c2 /\ missed' \subseteq 1..pruned
  BY <1>2, <1>6, <1>7, <1>10 DEF RInv, ToldOK
<1>13. printed' \cap missed' = {}
  BY <1>2, <1>6, <1>7 DEF RInv, ToldOK
<1>14. (reader.from + 1)..c2 \subseteq printed' \cup missed' \cup skipped
  <2> SUFFICES ASSUME NEW s \in (reader.from + 1)..c2 PROVE s \in printed' \cup missed' \cup skipped
    OBVIOUS
  <2>0. s \in Nat /\ reader.from \in Nat
    BY DEF RInv, ReaderOK
  <2>1. CASE s <= c
    BY <1>2, <1>7, <2>0, <2>1 DEF RInv, ToldOK, PrunedIsToldOrUnread
  <2>2. CASE c < s /\ s <= last
    BY <1>2, <1>6, <1>7, <2>0, <2>2
  <2>3. CASE c < s /\ last < s
    <3>1. lo < hi /\ s <= hi
      BY <1>2, <1>6, <1>8, <2>0, <2>3
    <3>2. lo < s
      BY <1>2, <1>6, <2>0, <2>3, <3>1
    <3> QED
      BY <1>2, <1>7, <2>0, <3>1, <3>2
  <2> QED
    BY <1>2, <1>6, <2>0, <2>1, <2>2, <2>3
<1>15. ToldOK'
  BY <1>7, <1>9, <1>12, <1>13, <1>14 DEF ToldOK, PrunedIsToldOrUnread
<1> QED
  BY <1>11, <1>15 DEF RInv

LEMMA FloorFailsKeeps == ASSUME RInv, FloorFails PROVE RInv'
<1>1. PICK lo, hi : BatchIs(lo, hi)
  BY DEF FloorFails, RInv, ReaderOK
<1> DEFINE c == reader.cursor
<1>2. /\ lo \in Nat /\ hi \in Nat /\ reader.batch = (lo + 1)..hi /\ c \in Nat /\ c <= lo /\ hi <= seqs
      /\ seqs \in Nat /\ pruned \in Nat /\ c <= seqs
  BY <1>1 DEF BatchIs, RInv, ReaderOK, LogOK
<1>3. PICK c2 \in Nat : c2 = IF lo < hi THEN hi ELSE c
  BY <1>2
<1>4. LastOf(reader.batch, reader.cursor) = c2
  <2>1. reader.batch = (lo + 1)..hi /\ lo \in Nat /\ hi \in Nat
    BY <1>2
  <2>2. CASE lo < hi
    <3>1. LastOf((lo + 1)..hi, reader.cursor) = hi
      BY <2>1, <2>2, PieceEnds
    <3> QED
      BY <1>3, <2>1, <2>2, <3>1
  <2>3. CASE ~(lo < hi)
    <3>1. LastOf((lo + 1)..hi, reader.cursor) = reader.cursor
      BY <2>1, <2>3, PieceEnds
    <3> QED
      BY <1>3, <2>1, <2>3, <3>1
  <2> QED
    BY <2>2, <2>3
<1>5. /\ printed' = printed \cup (lo + 1)..hi /\ skipped' = skipped \cup (((c + 1)..c2) \ ((lo + 1)..hi))
      /\ UNCHANGED <<seqs, pruned, missed>>
  BY <1>2, <1>4 DEF FloorFails, logVars
<1>6. /\ reader'.cursor = c2 /\ reader'.from = reader.from /\ reader'.at = "read"
      /\ reader' \in [at : {"off", "read", "check", "floor"}, cursor : Nat, from : Nat,
                      batch : SUBSET Nat, head : Nat, settled : BOOLEAN]
  BY <1>4 DEF FloorFails, RInv, ReaderOK
<1>7. ReaderOK' /\ LogOK'
  BY <1>2, <1>3, <1>5, <1>6 DEF ReaderOK, RInv, LogOK
<1>8. c <= c2 /\ (lo < hi => hi <= c2)
  BY <1>2, <1>3
<1>9. printed' \subseteq 1..c2 /\ missed' \subseteq 1..c2 /\ missed' \subseteq 1..pruned
  <2>1. /\ printed \subseteq 1..c /\ missed \subseteq 1..c /\ missed \subseteq 1..pruned
    BY DEF RInv, ToldOK
  <2>2. 1..c \subseteq 1..c2
    BY <1>2, <1>8
  <2>3. (lo + 1)..hi \subseteq 1..c2
    BY <1>2, <1>8
  <2> QED
    BY <1>5, <2>1, <2>2, <2>3
<1>10. printed' \cap missed' = {}
  <2>1. printed \cap missed = {} /\ missed \subseteq 1..c
    BY DEF RInv, ToldOK
  <2>2. (1..c) \cap ((lo + 1)..hi) = {}
    BY <1>2
  <2> QED
    BY <1>5, <2>1, <2>2
<1>11. (reader.from + 1)..c2 \subseteq printed' \cup missed' \cup skipped'
  <2> SUFFICES ASSUME NEW s \in (reader.from + 1)..c2 PROVE s \in printed' \cup missed' \cup skipped'
    OBVIOUS
  <2>0. s \in Nat /\ reader.from \in Nat
    BY DEF RInv, ReaderOK
  <2>1. CASE s <= c
    <3>1. s \in (reader.from + 1)..c
      BY <1>2, <2>0, <2>1
    <3>2. s \in printed \cup missed \cup skipped
      BY <3>1 DEF RInv, ToldOK, PrunedIsToldOrUnread
    <3> QED
      BY <1>5, <3>2
  <2>2. CASE c < s
    <3>1. s \in (c + 1)..c2
      BY <1>2, <2>0, <2>2
    <3> QED
      BY <1>5, <3>1
  <2> QED
    BY <1>2, <2>0, <2>1, <2>2
<1>12. ToldOK'
  BY <1>5, <1>6, <1>9, <1>10, <1>11 DEF ToldOK, PrunedIsToldOrUnread
<1> QED
  BY <1>7, <1>12 DEF RInv

\* The reader of the event stream tells of every event after the cursor it started from or of
\* its loss, and reports none lost that it printed or that is still in the log, however
\* appends and prunes fall between its three reads (cli/stream.go, store/events.go).
THEOREM MissedAlwaysExact == SpecReader => []MissedIsExact
<1>1. InitReader => RInv
  <2> SUFFICES ASSUME InitReader PROVE RInv
    OBVIOUS
  <2>1. LogOK
    BY DEF InitReader, LogOK
  <2>2. ReaderOK
    BY DEF InitReader, ReaderOK, NoReader
  <2>3. ToldOK
    BY DEF InitReader, ToldOK, NoReader, PrunedIsToldOrUnread
  <2> QED
    BY <2>1, <2>2, <2>3 DEF RInv
<1>2. RInv /\ [NextReader]_readerVars => RInv'
  <2> SUFFICES ASSUME RInv, [NextReader]_readerVars PROVE RInv'
    OBVIOUS
  <2>1. CASE AppendEvent \/ (\E n \in 1..MaxEvents : PruneEvents(n)) \/ UNCHANGED readerVars
    <3>1. LogOK' /\ seqs <= seqs' /\ pruned <= pruned' /\ UNCHANGED <<reader, printed, missed, skipped>>
      BY <2>1 DEF AppendEvent, PruneEvents, readerVars, RInv, LogOK
    <3> QED
      BY <3>1, LogMoves
  <2> QED
    BY <2>1, StartReaderKeeps, ReadKeeps, ReadFloorKeeps, FloorFailsKeeps DEF NextReader
<1>3. RInv => MissedIsExact
  BY DEF RInv, ToldOK, MissedIsExact, OnlyTheLostIsReported
<1> QED
  BY <1>1, <1>2, <1>3, PTL DEF SpecReader

-----------------------------------------------------------------------------
(* The queue view *)

QueueRead == [poll : BOOLEAN, key : Nat, rows : SUBSET Int]
Answer == [ids : SUBSET Int, how : {"send", "record", "dismiss", "retry", "add"}, n : Int]

\* A key is not newer than the store, and rows that came with the newest key are the store's.
KeysOK ==
  /\ lastKey <= version /\ (lastKey = version => shownRows = pendingRows)
  /\ \A r \in reads : /\ r.key <= version
                      /\ r.key = version /\ r.rows \notin {Unread, {-1}} => r.rows = pendingRows

Claims(a, id) == a.how # "add" /\ id \in a.ids

\* An answer on its way holds its rows' claims, or a refresh dropped them; a correction is
\* asked for an unclaimed row.
ClaimsOK ==
  /\ \A a \in answers : \A id : Claims(a, id) => id \in sending \cup droppedClaims
  /\ \A a, b \in answers : \A id : Claims(a, id) /\ Claims(b, id) => a = b \/ id \in droppedClaims
  /\ ask.on = "correct" => ask.id \notin sending

\* What moves the keys, and what moves the claims.
keyVars == <<pendingRows, created, version, reads, shownRows, lastKey>>
claimVars == <<sending, answers, ask, droppedClaims>>

KInv == /\ pendingRows \subseteq Nat /\ created \in Nat /\ version \in Nat \ {0}
        /\ reads \subseteq QueueRead /\ shownRows \subseteq Int /\ lastKey \in Nat
        /\ KeysOK
CInv == /\ answers \subseteq Answer /\ ask \in [on : {"none", "correct", "add"}, id : Int]
        /\ ClaimsOK

LEMMA KeySame == ASSUME KInv, UNCHANGED keyVars PROVE KInv'
  BY DEF KInv, KeysOK, keyVars

LEMMA ClaimSame == ASSUME CInv, UNCHANGED claimVars PROVE CInv'
  BY DEF CInv, ClaimsOK, claimVars

\* The store changes: every key it gave out is old.
LEMMA StoreMoves ==
  ASSUME KInv, version' = version + 1, pendingRows' \subseteq Nat, created' \in Nat,
         UNCHANGED <<reads, shownRows, lastKey>>
  PROVE  KInv'
  BY DEF KInv, KeysOK, QueueRead

\* A read that has sampled no key is no risk.
LEMMA NewRead ==
  ASSUME KInv, NEW p \in BOOLEAN, NEW S, S \subseteq reads,
         reads' = S \cup {[poll |-> p, key |-> 0, rows |-> Unread]},
         UNCHANGED <<pendingRows, created, version, shownRows, lastKey>>
  PROVE  KInv'
<1> DEFINE new == [poll |-> p, key |-> 0, rows |-> Unread]
<1>1. new \in QueueRead /\ new.key = 0
  BY DEF QueueRead, Unread
<1> HIDE DEF new
<1>2. reads' = S \cup {new}
  BY DEF new
<1> QED
  BY <1>1, <1>2 DEF KInv, KeysOK, QueueRead

LEMMA ReadSamplesKeyKeeps == ASSUME KInv, ReadSamplesKey PROVE KInv'
<1>1. PICK r \in reads :
        reads' = reads \ {r} \/ reads' = (reads \ {r}) \cup {[r EXCEPT !.key = version, !.rows = {-1}]}
  BY DEF ReadSamplesKey
<1> DEFINE new == [r EXCEPT !.key = version, !.rows = {-1}]
<1>2. new \in QueueRead /\ new.key = version /\ new.rows = {-1}
  <2>1. {-1} \in SUBSET Int /\ version \in Nat /\ r \in QueueRead
    BY DEF KInv
  <2> QED
    BY <2>1 DEF QueueRead
<1>3. UNCHANGED <<pendingRows, created, version, shownRows, lastKey>>
  BY DEF ReadSamplesKey, storeRows, viewVars
<1>4. reads' \subseteq reads \cup {new}
  BY <1>1
<1> HIDE DEF new
<1> QED
  BY <1>2, <1>3, <1>4 DEF KInv, KeysOK, QueueRead

LEMMA ReadRowsKeeps == ASSUME KInv, ReadRows PROVE KInv'
<1>1. PICK r \in reads : reads' = (reads \ {r}) \cup {[r EXCEPT !.rows = pendingRows]}
  BY DEF ReadRows
<1> DEFINE new == [r EXCEPT !.rows = pendingRows]
<1>2. new \in QueueRead /\ new.key = r.key /\ new.rows = pendingRows
  BY DEF QueueRead, KInv
<1>3. UNCHANGED <<pendingRows, created, version, shownRows, lastKey>>
  BY DEF ReadRows, storeRows, viewVars
<1>4. reads' \subseteq reads \cup {new}
  BY <1>1
<1> HIDE DEF new
<1> QED
  BY <1>2, <1>3, <1>4 DEF KInv, KeysOK, QueueRead

LEMMA RefreshLandsKeeps == ASSUME KInv, CInv, RefreshLands PROVE KInv' /\ CInv'
<1>1. PICK r \in {x \in reads : x.rows \notin {Unread, {-1}}} :
        /\ reads' = reads \ {r} /\ shownRows' = r.rows /\ lastKey' = r.key
        /\ sending' = sending \cap r.rows
        /\ droppedClaims' = droppedClaims \cup (sending \ r.rows)
  BY DEF RefreshLands, KeyOf, PruneSending
<1>2. UNCHANGED <<pendingRows, created, version, answers, ask>>
  BY DEF RefreshLands, storeRows
<1>3. KInv'
  BY <1>1, <1>2 DEF KInv, KeysOK, QueueRead
<1>4. CInv'
  BY <1>1, <1>2 DEF CInv, ClaimsOK
<1> QED
  BY <1>3, <1>4

LEMMA QueueRefreshFailsKeeps == ASSUME KInv, CInv, QueueRefreshFails PROVE KInv' /\ CInv'
<1>1. /\ reads' \subseteq reads /\ shownRows' = {} /\ lastKey' = 0
      /\ UNCHANGED <<pendingRows, created, version>> /\ UNCHANGED claimVars
  BY DEF QueueRefreshFails, PruneSending, storeRows, claimVars
<1>2. KInv'
  BY <1>1 DEF KInv, KeysOK, QueueRead
<1> QED
  BY <1>1, <1>2, ClaimSame

\* A new answer for rows that nothing claims.
LEMMA AnswerBegins ==
  ASSUME CInv, NEW ids \in SUBSET Int, NEW how \in {"send", "record", "dismiss", "retry"},
         ids \cap sending = {}, BeginAnswer(ids, how), UNCHANGED droppedClaims,
         ask' \in [on : {"none", "correct", "add"}, id : Int], ask'.on # "correct"
  PROVE  CInv'
<1>1. PICK n \in Int : answers' = answers \cup {[ids |-> ids, how |-> how, n |-> n]}
  BY DEF BeginAnswer, FreeSlots
<1> DEFINE new == [ids |-> ids, how |-> how, n |-> n]
<1>2. new \in Answer /\ new.ids = ids /\ new.how # "add"
  BY DEF Answer
<1> HIDE DEF new
<1>3. answers' = answers \cup {new}
  BY <1>1 DEF new
<1>4. sending' = sending \cup ids
  BY DEF BeginAnswer
<1>5. \A a \in answers' : \A id : Claims(a, id) => id \in sending' \cup droppedClaims
  BY <1>2, <1>3, <1>4 DEF CInv, ClaimsOK, Claims
<1>6. \A a, b \in answers' : \A id : Claims(a, id) /\ Claims(b, id) => a = b \/ id \in droppedClaims
  BY <1>2, <1>3 DEF CInv, ClaimsOK, Claims
<1>7. answers' \subseteq Answer
  BY <1>2, <1>3 DEF CInv
<1> QED
  BY <1>5, <1>6, <1>7 DEF CInv, ClaimsOK

LEMMA QueueAnswersKeeps ==
  ASSUME CInv, NEW ids \in SUBSET Int, NEW how \in {"send", "record", "dismiss", "retry"},
         QueueAnswers(ids, how)
  PROVE  CInv'
<1>1. ids \cap sending = {} /\ BeginAnswer(ids, how) /\ ask' = NoAsk /\ UNCHANGED droppedClaims
  BY DEF QueueAnswers, SendingBlocked, viewVars
<1>2. ask' \in [on : {"none", "correct", "add"}, id : Int] /\ ask'.on # "correct"
  BY <1>1 DEF NoAsk
<1> QED
  BY <1>1, <1>2, AnswerBegins

\* An answer that is over releases its claims; what another answer of the same row held was
\* dropped before.
LEMMA AnswerEnds ==
  ASSUME CInv, NEW a \in answers, answers' = Drop(a),
         sending' = IF a.how = "add" THEN sending ELSE sending \ a.ids,
         UNCHANGED droppedClaims,
         ask' \in [on : {"none", "correct", "add"}, id : Int],
         ask' = ask \/ ask'.on # "correct"
  PROVE  CInv'
<1>1. \A y \in answers' : \E x \in answers \ {a} : y \in Answer /\ y = [x EXCEPT !.n = y.n]
  <2> SUFFICES ASSUME NEW y \in answers'
               PROVE  \E x \in answers \ {a} : y \in Answer /\ y = [x EXCEPT !.n = y.n]
    OBVIOUS
  <2>1. PICK x \in answers \ {a} : y = [x EXCEPT !.n = IF x.n > a.n THEN @ - 1 ELSE @]
    BY DEF Drop
  <2>2. x \in Answer
    BY DEF CInv
  <2>3. PICK m \in Int : m = IF x.n > a.n THEN x.n - 1 ELSE x.n
    BY <2>2 DEF Answer
  <2>4. y = [x EXCEPT !.n = m]
    BY <2>1, <2>3
  <2> QED
    BY <2>2, <2>3, <2>4 DEF Answer
<1>2. \A y \in answers' : \E x \in answers \ {a} : y \in Answer /\ x.ids = y.ids /\ x.how = y.how /\ y = [x EXCEPT !.n = y.n]
  BY <1>1 DEF CInv, Answer
<1>3. \A y \in answers' : \A id : Claims(y, id) => id \in sending' \cup droppedClaims
  <2> SUFFICES ASSUME NEW y \in answers', NEW id, Claims(y, id), id \notin droppedClaims
               PROVE  id \in sending'
    OBVIOUS
  <2>1. PICK x \in answers \ {a} : x.ids = y.ids /\ x.how = y.how
    BY <1>2
  <2>2. Claims(x, id)
    BY <2>1 DEF Claims
  <2>3. id \in sending /\ ~Claims(a, id)
    BY <2>1, <2>2 DEF CInv, ClaimsOK
  <2> QED
    BY <2>3 DEF Claims
<1>4. \A y, z \in answers' : \A id : Claims(y, id) /\ Claims(z, id) => y = z \/ id \in droppedClaims
  <2> SUFFICES ASSUME NEW y \in answers', NEW z \in answers', NEW id, Claims(y, id), Claims(z, id),
                      id \notin droppedClaims
               PROVE  y = z
    OBVIOUS
  <2>1. PICK x \in answers \ {a} : y = [x EXCEPT !.n = IF x.n > a.n THEN @ - 1 ELSE @]
    BY DEF Drop
  <2>2. PICK w \in answers \ {a} : z = [w EXCEPT !.n = IF w.n > a.n THEN @ - 1 ELSE @]
    BY DEF Drop
  <2>3. x.ids = y.ids /\ x.how = y.how /\ w.ids = z.ids /\ w.how = z.how
    BY <2>1, <2>2 DEF CInv, Answer
  <2>4. Claims(x, id) /\ Claims(w, id)
    BY <2>3 DEF Claims
  <2>5. x = w
    BY <2>4 DEF CInv, ClaimsOK
  <2> QED
    BY <2>1, <2>2, <2>5
<1>5. ask'.on = "correct" => ask'.id \notin sending'
  BY DEF CInv, ClaimsOK
<1>6. answers' \subseteq Answer
  BY <1>2
<1> QED
  BY <1>3, <1>4, <1>5, <1>6 DEF CInv, ClaimsOK

LEMMA AnswerLandsKeeps == ASSUME KInv, CInv, AnswerLands PROVE KInv' /\ CInv'
<1>1. PICK a \in answers :
        /\ answers' = Drop(a) /\ sending' = IF a.how = "add" THEN sending ELSE sending \ a.ids
        /\ \E done \in SUBSET a.ids :
             /\ pendingRows' = pendingRows \ done
             /\ version' = IF pendingRows' # pendingRows THEN version + 1 ELSE version
  BY DEF AnswerLands
<1>2. UNCHANGED <<created, ask, shownRows, lastKey, droppedClaims>>
  BY DEF AnswerLands, viewVars
<1>3. CInv'
  BY <1>1, <1>2, AnswerEnds DEF CInv
<1>4. reads' = reads \cup {[poll |-> FALSE, key |-> 0, rows |-> Unread]}
  BY DEF AnswerLands, Refresh
<1> DEFINE new == [poll |-> FALSE, key |-> 0, rows |-> Unread]
<1>5. new \in QueueRead /\ new.key = 0
  BY DEF QueueRead, Unread
<1> HIDE DEF new
<1>6. reads' = reads \cup {new}
  BY <1>4 DEF new
<1>7. \/ version' = version + 1 /\ pendingRows' \subseteq pendingRows
      \/ UNCHANGED <<version, pendingRows>>
  BY <1>1
<1>8. KInv'
  <2>1. CASE version' = version + 1 /\ pendingRows' \subseteq pendingRows
    BY <1>2, <1>5, <1>6, <2>1 DEF KInv, KeysOK, QueueRead
  <2>2. CASE UNCHANGED <<version, pendingRows>>
    BY <1>2, <1>5, <1>6, <2>2 DEF KInv, KeysOK, QueueRead
  <2> QED
    BY <1>7, <2>1, <2>2
<1> QED
  BY <1>3, <1>8

LEMMA AgentIsBusyKeeps == ASSUME CInv, AgentIsBusy PROVE CInv'
<1>1. PICK a \in answers : /\ a.how = "send" /\ answers' = Drop(a) /\ sending' = sending \ a.ids
                           /\ \E id \in a.ids : ask' = [on |-> "add", id |-> id]
  BY DEF AgentIsBusy
<1>2. UNCHANGED droppedClaims
  BY DEF AgentIsBusy, viewVars
<1>3. ask' \in [on : {"none", "correct", "add"}, id : Int] /\ ask'.on # "correct"
  BY <1>1 DEF CInv, Answer
<1> QED
  BY <1>1, <1>2, <1>3, AnswerEnds

LEMMA AddSubmitsKeeps == ASSUME CInv, AddSubmits PROVE CInv'
<1>1. PICK n \in Int : answers' = answers \cup {[ids |-> {ask.id}, how |-> "add", n |-> n]}
  BY DEF AddSubmits, FreeSlots
<1> DEFINE new == [ids |-> {ask.id}, how |-> "add", n |-> n]
<1>2. new \in Answer /\ new.how = "add"
  BY DEF Answer, CInv
<1> HIDE DEF new
<1>3. answers' = answers \cup {new} /\ ask' = NoAsk /\ UNCHANGED <<sending, droppedClaims>>
  BY <1>1 DEF new, AddSubmits, viewVars
<1> QED
  BY <1>2, <1>3 DEF CInv, ClaimsOK, Claims, NoAsk

LEMMA QueueStep == ASSUME KInv, CInv, [NextQueue]_queueVars PROVE KInv' /\ CInv'
<1>1. CASE Escalates \/ SettledElsewhere
  <2>1. /\ version' = version + 1 /\ pendingRows' \subseteq Nat /\ created' \in Nat
        /\ UNCHANGED <<reads, shownRows, lastKey>> /\ UNCHANGED claimVars
    <3>1. CASE Escalates
      <4>1. created + 1 \in Nat
        BY DEF KInv
      <4> QED
        BY <3>1, <4>1 DEF Escalates, viewVars, claimVars, KInv
    <3>2. CASE SettledElsewhere
      BY <3>2 DEF SettledElsewhere, viewVars, claimVars, KInv
    <3> QED
      BY <1>1, <3>1, <3>2
  <2> QED
    BY <2>1, StoreMoves, ClaimSame
<1>2. CASE QueueTick
  <2>1. /\ reads' = {r \in reads : ~r.poll} \cup {[poll |-> TRUE, key |-> 0, rows |-> Unread]}
        /\ UNCHANGED <<pendingRows, created, version, shownRows, lastKey>> /\ UNCHANGED claimVars
    BY <1>2 DEF QueueTick, storeRows, viewVars, claimVars
  <2>2. {r \in reads : ~r.poll} \subseteq reads
    OBVIOUS
  <2> QED
    BY <2>1, <2>2, NewRead, ClaimSame
<1>3. CASE ReadSamplesKey \/ ReadRows
  <2>1. UNCHANGED claimVars
    BY <1>3 DEF ReadSamplesKey, ReadRows, viewVars, claimVars
  <2> QED
    BY <1>3, <2>1, ReadSamplesKeyKeeps, ReadRowsKeeps, ClaimSame
<1>4. CASE ConfirmAuditID \/ ConfirmWithoutSend \/ DeleteEscalations \/ RetryByID
  <2>1. PICK ids \in SUBSET Int, how \in {"send", "record", "dismiss", "retry"} : QueueAnswers(ids, how)
    <3>1. shownRows \subseteq Int /\ TargetEscalationIDs \subseteq SUBSET Int
      BY DEF KInv, TargetEscalationIDs
    <3> QED
      BY <1>4, <3>1 DEF ConfirmAuditID, ConfirmWithoutSend, DeleteEscalations, RetryByID
  <2>2. UNCHANGED keyVars
    BY <2>1 DEF QueueAnswers, keyVars, storeRows, viewVars
  <2> QED
    BY <2>1, <2>2, QueueAnswersKeeps, KeySame
<1>5. CASE CorrectAsks
  <2>1. PICK id \in shownRows : id \notin sending /\ ask' = [on |-> "correct", id |-> id]
    BY <1>5 DEF CorrectAsks, SendingBlocked
  <2>2. UNCHANGED keyVars /\ UNCHANGED <<sending, answers, droppedClaims>>
    BY <1>5 DEF CorrectAsks, keyVars, storeRows, viewVars
  <2>3. id \in Int
    BY DEF KInv
  <2>4. CInv'
    BY <2>1, <2>2, <2>3 DEF CInv, ClaimsOK
  <2> QED
    BY <2>2, <2>4, KeySame
<1>6. CASE CorrectSubmits
  <2>1. /\ BeginAnswer({ask.id}, "record") /\ ask' = NoAsk /\ ask.on = "correct"
        /\ UNCHANGED keyVars /\ UNCHANGED droppedClaims
    BY <1>6 DEF CorrectSubmits, keyVars, storeRows, viewVars
  <2>2. {ask.id} \in SUBSET Int /\ {ask.id} \cap sending = {}
    BY <2>1 DEF CInv, ClaimsOK
  <2>3. ask' \in [on : {"none", "correct", "add"}, id : Int] /\ ask'.on # "correct"
    BY <2>1 DEF NoAsk
  <2> QED
    BY <2>1, <2>2, <2>3, AnswerBegins, KeySame
<1>7. CASE AskCancelled
  <2>1. UNCHANGED keyVars /\ UNCHANGED <<sending, answers, droppedClaims>> /\ ask' = NoAsk
    BY <1>7 DEF AskCancelled, keyVars, storeRows, viewVars
  <2>2. CInv'
    BY <2>1 DEF CInv, ClaimsOK, NoAsk
  <2> QED
    BY <2>1, <2>2, KeySame
<1>8. CASE AgentIsBusy \/ AddSubmits
  <2>1. UNCHANGED keyVars
    BY <1>8 DEF AgentIsBusy, AddSubmits, keyVars, storeRows, viewVars
  <2> QED
    BY <1>8, <2>1, AgentIsBusyKeeps, AddSubmitsKeeps, KeySame
<1>9. CASE UNCHANGED queueVars
  <2>1. UNCHANGED keyVars /\ UNCHANGED claimVars
    BY <1>9 DEF queueVars, keyVars, claimVars
  <2> QED
    BY <2>1, KeySame, ClaimSame
<1> QED
  BY <1>1, <1>2, <1>3, <1>4, <1>5, <1>6, <1>7, <1>8, <1>9, RefreshLandsKeeps, QueueRefreshFailsKeeps,
     AnswerLandsKeeps DEF NextQueue

LEMMA ClaimedOnceHolds == ASSUME CInv PROVE ClaimedOnce
<1> SUFFICES ASSUME NEW id \in QueueIds \ droppedClaims
             PROVE  Cardinality({a \in InFlight(id) : a.how # "add"}) <= 1
  BY DEF ClaimedOnce
<1> DEFINE S == {a \in InFlight(id) : a.how # "add"}
<1>1. \A a, b \in S : a = b
  BY DEF CInv, ClaimsOK, Claims, InFlight
<1>2. CASE S = {}
  BY <1>2, FS_EmptySet
<1>3. CASE S # {}
  <2>1. PICK a : a \in S
    BY <1>3
  <2>2. S = {a}
    BY <1>1, <2>1
  <2>3. Cardinality(S) = 1
    BY <2>2, FS_Singleton
  <2> QED
    BY <2>3
<1> QED
  BY <1>2, <1>3

\* The queue view's key vouches for the rows it shows, whatever the order in which reads land
\* and rows are settled, and a row whose claim was not dropped by a refresh has at most one
\* answer on its way (tui/tui.go: refresh, pruneSending, beginAnswer).
THEOREM QueueAlwaysTrue == SpecQueue => []QueueIsTrue
<1>1. InitQueue => KInv /\ CInv
  <2> SUFFICES ASSUME InitQueue PROVE KInv /\ CInv
    OBVIOUS
  <2> DEFINE new == [poll |-> FALSE, key |-> 0, rows |-> Unread]
  <2>1. new \in QueueRead /\ new.key = 0
    BY DEF QueueRead, Unread
  <2>2. reads = {new}
    BY DEF InitQueue
  <2> HIDE DEF new
  <2>3. KInv
    BY <2>1, <2>2 DEF InitQueue, KInv, KeysOK
  <2>4. CInv
    BY DEF InitQueue, CInv, ClaimsOK, NoAsk
  <2> QED
    BY <2>3, <2>4
<1>2. (KInv /\ CInv) /\ [NextQueue]_queueVars => (KInv /\ CInv)'
  BY QueueStep
<1>3. KInv /\ CInv => QueueIsTrue
  BY ClaimedOnceHolds DEF KInv, KeysOK, QueueIsTrue, KeyVouchesForRows
<1> QED
  BY <1>1, <1>2, <1>3, PTL DEF SpecQueue

-----------------------------------------------------------------------------
(* The review of a task before it is handed out *)

Singles == {{t} : t \in ReviewTasks}

Handling ==
  [step : {"none", "judge", "check", "write", "deliver", "send"}, token : Nat, task : SUBSET ReviewTasks,
   verdict : Verdicts \cup {"none"}, send : SUBSET ReviewTasks, drop : SUBSET ReviewTasks,
   ours : BOOLEAN, killed : BOOLEAN]

ReviewTypes ==
  /\ killSwitch \in BOOLEAN /\ reviews \in Nat
  /\ handling \in Handling
  /\ running \subseteq [token : Nat, task : Singles]
  /\ outcomes \subseteq [token : Nat, task : Singles, verdict : Verdicts, send : SUBSET ReviewTasks,
                         drop : SUBSET ReviewTasks]
  /\ pairing \in Singles \cup {{}}

\* One hand-out is current, the last one: either its review runs or the main loop is at it.
HandOutTokens ==
  /\ review \subseteq {reviews} /\ overtaken \subseteq 0..reviews /\ review \cap overtaken = {}
  /\ \A h \in handed : h.token \in 0..reviews /\ h.token \notin review \cup overtaken
  /\ handling.step # "none" => review = {} /\ handling.token = reviews /\ reviews \notin overtaken

\* A reservation is made when the outcome is written, or when it is delivered.
ReservationsOK ==
  /\ handling.ours => handling.step \in {"deliver", "send"}
  /\ NoStrandedReservation

RevInv == ReviewTypes /\ HandOutTokens /\ ReservationsOK /\ PairingEnds

\* Nothing a hand-out depends on changes outside it.
LEMMA OutsideKeeps ==
  ASSUME RevInv, KillFlips \/ AgentDisabled \/ (\E t \in ReviewTasks : ListMoves(t)) \/ UNCHANGED reviewVars
  PROVE  RevInv'
<1>1. /\ UNCHANGED <<pairing, review, running, outcomes, handed, held, overtaken, reviews>>
      /\ byUs' \subseteq byUs
      /\ killSwitch' \in BOOLEAN
  BY DEF KillFlips, AgentDisabled, ListMoves, listVarsR, reviewVars, RevInv, ReviewTypes, Handling
<1>2. PICK k \in BOOLEAN : handling' = [handling EXCEPT !.killed = k]
  <2>1. CASE KillFlips
    <3>1. handling' = [handling EXCEPT !.killed = handling.killed /\ ~killSwitch]
      BY <2>1 DEF KillFlips
    <3>2. (handling.killed /\ ~killSwitch) \in BOOLEAN
      OBVIOUS
    <3> QED
      BY <3>1, <3>2
  <2>2. CASE ~KillFlips
    <3>1. handling' = handling
      BY <2>2 DEF AgentDisabled, ListMoves, reviewVars
    <3>2. handling = [handling EXCEPT !.killed = handling.killed] /\ handling.killed \in BOOLEAN
      BY DEF RevInv, ReviewTypes, Handling
    <3> QED
      BY <3>1, <3>2
  <2> QED
    BY <2>1, <2>2
<1>3. /\ handling'.step = handling.step /\ handling'.token = handling.token
      /\ handling'.ours = handling.ours /\ handling'.send = handling.send
  BY <1>2 DEF RevInv, ReviewTypes, Handling
<1>4. ReviewTypes'
  BY <1>1, <1>2 DEF RevInv, ReviewTypes, Handling
<1>5. HandOutTokens'
  BY <1>1, <1>3 DEF RevInv, HandOutTokens
<1>6. ReservationsOK'
  BY <1>1, <1>3 DEF RevInv, ReservationsOK, NoStrandedReservation
<1>7. PairingEnds'
  BY <1>1, <1>3 DEF RevInv, PairingEnds, ReviewIdle
<1> QED
  BY <1>4, <1>5, <1>6, <1>7 DEF RevInv

LEMMA StartKeeps == ASSUME RevInv, NEW t \in ReviewTasks, StartTaskListReview(t) PROVE RevInv'
<1>1. /\ reviews' = reviews + 1 /\ pairing' = {t} /\ review' = {reviews'}
      /\ running' = running \cup {[token |-> reviews', task |-> {t}]}
      /\ UNCHANGED <<byUs, held, outcomes, handling, killSwitch, handed, overtaken>>
      /\ handling.step = "none"
  BY DEF StartTaskListReview, listVarsR, outsideVars, ReviewIdle
<1>2. ReviewTypes'
  <2>1. [token |-> reviews', task |-> {t}] \in [token : Nat, task : Singles]
    BY <1>1 DEF RevInv, ReviewTypes, Handling, Singles
  <2>2. {t} \in Singles
    BY DEF Singles
  <2> QED
    BY <1>1, <2>1, <2>2 DEF RevInv, ReviewTypes, Handling
<1>3. HandOutTokens'
  BY <1>1 DEF RevInv, ReviewTypes, Handling, HandOutTokens
<1>4. ReservationsOK'
  BY <1>1 DEF RevInv, ReservationsOK, NoStrandedReservation
<1>5. PairingEnds'
  <2> DEFINE new == [token |-> reviews', task |-> {t}]
  <2>1. new.task = {t}
    OBVIOUS
  <2> HIDE DEF new
  <2>2. running' = running \cup {new}
    BY <1>1 DEF new
  <2> QED
    BY <1>1, <2>1, <2>2 DEF PairingEnds
<1> QED
  BY <1>2, <1>3, <1>4, <1>5 DEF RevInv

LEMMA UnstartableKeeps == ASSUME RevInv, NEW t \in ReviewTasks, ReviewUnstartable(t) PROVE RevInv'
<1>1. /\ reviews' = reviews + 1 /\ pairing' = {t} /\ review = {}
      /\ handling' = [step |-> "deliver", token |-> reviews', task |-> {t}, verdict |-> "none",
                      send |-> {t}, drop |-> {}, ours |-> FALSE, killed |-> FALSE]
      /\ UNCHANGED <<byUs, held, review, running, outcomes, killSwitch, handed, overtaken>>
      /\ handling.step = "none"
  BY DEF ReviewUnstartable, listVarsR, outsideVars, ReviewIdle, Deliver, HandlingNone
<1>2. ReviewTypes'
  BY <1>1 DEF RevInv, ReviewTypes, Handling, Singles
<1>3. HandOutTokens'
  BY <1>1 DEF RevInv, ReviewTypes, Handling, HandOutTokens
<1>4. ReservationsOK'
  BY <1>1 DEF RevInv, ReservationsOK, NoStrandedReservation
<1>5. PairingEnds'
  BY <1>1 DEF PairingEnds, ReviewIdle
<1> QED
  BY <1>2, <1>3, <1>4, <1>5 DEF RevInv

LEMMA OvertakingKeeps == ASSUME RevInv, NewerSituation \/ AgentWorks PROVE RevInv'
<1>1. /\ review' = {} /\ overtaken' = overtaken \cup review /\ (pairing' = pairing \/ pairing' = {})
      /\ UNCHANGED <<byUs, held, running, outcomes, handling, killSwitch, handed, reviews>>
      /\ handling.step = "none"
  BY DEF NewerSituation, AgentWorks, listVarsR, outsideVars, ReviewIdle
<1>2. ReviewTypes'
  BY <1>1 DEF RevInv, ReviewTypes, Handling
<1>3. HandOutTokens'
  BY <1>1 DEF RevInv, ReviewTypes, Handling, HandOutTokens
<1>4. ReservationsOK'
  BY <1>1 DEF RevInv, ReservationsOK, NoStrandedReservation
<1>5. PairingEnds'
  BY <1>1 DEF RevInv, PairingEnds, ReviewIdle
<1> QED
  BY <1>2, <1>3, <1>4, <1>5 DEF RevInv

LEMMA ReturnsKeeps == ASSUME RevInv, NEW r \in running, ReviewReturns(r) PROVE RevInv'
<1>1. PICK v \in Verdicts, s \in ReviewTasks, drop \in {{}} \cup {{x} : x \in ReviewTasks} :
        outcomes' = outcomes \cup {[token |-> r.token, task |-> r.task, verdict |-> v,
                                    send |-> {s}, drop |-> drop]}
  BY DEF ReviewReturns
<1>2. /\ running' = running \ {r}
      /\ UNCHANGED <<byUs, held, pairing, review, handling, killSwitch, handed, overtaken, reviews>>
  BY DEF ReviewReturns, listVarsR, outsideVars
<1> DEFINE new == [token |-> r.token, task |-> r.task, verdict |-> v, send |-> {s}, drop |-> drop]
<1>3. new.task = r.task
      /\ new \in [token : Nat, task : Singles, verdict : Verdicts, send : SUBSET ReviewTasks,
                  drop : SUBSET ReviewTasks]
  BY DEF RevInv, ReviewTypes, Handling
<1> HIDE DEF new
<1>4. outcomes' = outcomes \cup {new}
  BY <1>1 DEF new
<1>5. ReviewTypes'
  BY <1>2, <1>3, <1>4 DEF RevInv, ReviewTypes, Handling
<1>6. HandOutTokens'
  BY <1>2 DEF RevInv, HandOutTokens
<1>7. ReservationsOK'
  BY <1>2 DEF RevInv, ReservationsOK, NoStrandedReservation
<1>8. PairingEnds'
  BY <1>2, <1>3, <1>4 DEF RevInv, PairingEnds, ReviewIdle
<1> QED
  BY <1>5, <1>6, <1>7, <1>8 DEF RevInv

LEMMA TakeKeeps == ASSUME RevInv, NEW o \in outcomes, TakeOutcome(o) PROVE RevInv'
<1>1. /\ outcomes' = outcomes \ {o} /\ handling.step = "none"
      /\ UNCHANGED <<byUs, held, running, killSwitch, handed, overtaken, reviews>>
  BY DEF TakeOutcome, listVarsR, outsideVars, ReviewIdle
<1>2. CASE o.token \in review
  <2>1. /\ review' = {} /\ pairing' = pairing
        /\ handling' = [step |-> "judge", token |-> o.token, task |-> o.task,
                        verdict |-> o.verdict, send |-> o.send, drop |-> o.drop,
                        ours |-> FALSE, killed |-> killSwitch]
    BY <1>2 DEF TakeOutcome, LiveReview
  <2>2. \A t \in Singles : t \subseteq ReviewTasks
    BY DEF Singles
  <2>3. ReviewTypes'
    BY <1>1, <2>1, <2>2 DEF RevInv, ReviewTypes, Handling
  <2>4. HandOutTokens'
    BY <1>1, <1>2, <2>1 DEF RevInv, ReviewTypes, Handling, HandOutTokens
  <2>5. ReservationsOK'
    BY <1>1, <2>1 DEF RevInv, ReservationsOK, NoStrandedReservation
  <2>6. PairingEnds'
    BY <2>1 DEF PairingEnds, ReviewIdle
  <2> QED
    BY <2>3, <2>4, <2>5, <2>6 DEF RevInv
<1>3. CASE o.token \notin review
  <2>1. /\ pairing' = IF pairing = o.task THEN {} ELSE pairing
        /\ UNCHANGED <<review, handling>>
    BY <1>3 DEF TakeOutcome, LiveReview, DropsPairing
  <2>2. ReviewTypes'
    BY <1>1, <2>1 DEF RevInv, ReviewTypes, Handling
  <2>3. HandOutTokens'
    BY <1>1, <2>1 DEF RevInv, HandOutTokens
  <2>4. ReservationsOK'
    BY <1>1, <2>1 DEF RevInv, ReservationsOK, NoStrandedReservation
  <2>5. PairingEnds'
    <3>1. \A t \in pairing' : t \in pairing /\ t \notin o.task
      BY <2>1 DEF RevInv, ReviewTypes, Handling, Singles
    <3> QED
      BY <1>1, <2>1, <3>1 DEF RevInv, PairingEnds, ReviewIdle
  <2> QED
    BY <2>2, <2>3, <2>4, <2>5 DEF RevInv
<1> QED
  BY <1>2, <1>3

\* The main loop goes on with the hand-out it is at.
LEMMA GoesOn ==
  ASSUME RevInv, handling.step # "none", handling'.step # "none",
         handling'.token = handling.token,
         handling' \in Handling,
         handling'.ours => handling'.step \in {"deliver", "send"},
         handling.ours => handling'.ours /\ handling'.send = handling.send,
         \A t \in byUs' \ byUs : handling'.ours /\ t \in handling'.send,
         UNCHANGED <<held, pairing, review, running, outcomes, killSwitch, handed, overtaken, reviews>>
  PROVE  RevInv'
<1>1. ReviewTypes'
  BY DEF RevInv, ReviewTypes, Handling
<1>2. HandOutTokens'
  BY DEF RevInv, HandOutTokens
<1>3. ReservationsOK'
  BY DEF RevInv, ReservationsOK, NoStrandedReservation
<1>4. PairingEnds'
  BY DEF PairingEnds, ReviewIdle
<1> QED
  BY <1>1, <1>2, <1>3, <1>4 DEF RevInv

\* The main loop is done with a hand-out: the pairing is over, or it reached the pane.
LEMMA HandOutEnds ==
  ASSUME RevInv, handling' = HandlingNone,
         pairing' = {} \/ (pairing' = pairing /\ \E h \in handed' : h.token = reviews),
         handling.step # "none",
         handed \subseteq handed', \A h \in handed' \ handed : h.token = handling.token,
         held \subseteq held',
         \A t \in byUs' : /\ t \in byUs
                          /\ handling.ours /\ t \in handling.send =>
                                 t \in held' \/ \E h \in handed' : t \in h.task,
         UNCHANGED <<review, running, outcomes, killSwitch, overtaken, reviews>>
  PROVE  RevInv'
<1>1. ReviewTypes'
  BY DEF RevInv, ReviewTypes, Handling, HandlingNone
<1>2. HandOutTokens'
  BY DEF RevInv, ReviewTypes, Handling, HandOutTokens, HandlingNone
<1>3. ReservationsOK'
  BY DEF RevInv, ReservationsOK, NoStrandedReservation, HandlingNone
<1>4. PairingEnds'
  BY DEF PairingEnds
<1> QED
  BY <1>1, <1>2, <1>3, <1>4 DEF RevInv

LEMMA AbandonEnds ==
  ASSUME RevInv, Abandon, handling.step # "none",
         UNCHANGED <<held, review, running, outcomes, killSwitch, handed, overtaken, reviews>>
  PROVE  RevInv'
<1>1. handling' = HandlingNone /\ pairing' = {}
  BY DEF Abandon
<1>2. \A t \in byUs' : t \in byUs /\ ~(handling.ours /\ t \in handling.send)
  BY DEF Abandon
<1> QED
  BY <1>1, <1>2, HandOutEnds

LEMMA StandDownEnds ==
  ASSUME RevInv, StandDown, handling.step # "none", ~handling.ours,
         UNCHANGED <<byUs, held, review, running, outcomes, killSwitch, handed, overtaken, reviews>>
  PROVE  RevInv'
<1>1. handling' = HandlingNone /\ pairing' = {}
  BY DEF StandDown
<1> QED
  BY <1>1, HandOutEnds

LEMMA FallbackGoesOn ==
  ASSUME RevInv, handling' = Fallback, handling.step # "none", ~handling.ours,
         UNCHANGED <<byUs, held, pairing, review, running, outcomes, killSwitch, handed, overtaken, reviews>>
  PROVE  RevInv'
<1>1. /\ handling' \in Handling
      /\ handling'.step = "deliver" /\ handling'.token = handling.token
  BY DEF Fallback, RevInv, ReviewTypes, Handling
<1> QED
  BY <1>1, GoesOn

LEMMA JudgeKeeps == ASSUME RevInv, JudgeOutcome \/ CheckOutcome \/ WriteReview PROVE RevInv'
<1>1. /\ handling.step \in {"judge", "check", "write"} /\ ~handling.ours
      /\ UNCHANGED <<review, running, outcomes, killSwitch, handed, overtaken, reviews>>
  BY DEF JudgeOutcome, CheckOutcome, WriteReview, RevInv, ReservationsOK, outsideVars
<1>2. CASE JudgeOutcome
  <2>1. UNCHANGED <<byUs, held, pairing>>
    BY <1>2 DEF JudgeOutcome, listVarsR
  <2>2. CASE handling' = Fallback
    BY <1>1, <2>1, <2>2, FallbackGoesOn
  <2>3. CASE handling' = [handling EXCEPT !.step = "check"]
    <3>1. /\ handling' \in Handling
          /\ handling'.step = "check" /\ handling'.token = handling.token /\ handling'.ours = handling.ours
      BY <2>3 DEF RevInv, ReviewTypes, Handling
    <3> QED
      BY <1>1, <2>1, <3>1, GoesOn
  <2> QED
    BY <1>2, <2>2, <2>3 DEF JudgeOutcome
<1>3. CASE CheckOutcome
  <2>1. UNCHANGED <<byUs, held>>
    BY <1>3 DEF CheckOutcome, listVarsR
  <2>2. CASE StandDown
    BY <1>1, <2>1, <2>2, StandDownEnds
  <2>3. CASE handling' = [handling EXCEPT !.step = "write"] /\ pairing' = pairing
    <3>1. /\ handling' \in Handling
          /\ handling'.step = "write" /\ handling'.token = handling.token /\ handling'.ours = handling.ours
      BY <2>3 DEF RevInv, ReviewTypes, Handling
    <3> QED
      BY <1>1, <2>1, <2>3, <3>1, GoesOn
  <2> QED
    BY <1>3, <2>2, <2>3 DEF CheckOutcome
<1>4. CASE WriteReview
  <2>1. CASE UNCHANGED listVarsR /\ handling' = HandlingNone /\ pairing' = {}
    BY <1>1, <2>1, StandDownEnds DEF StandDown, listVarsR
  <2>2. CASE UNCHANGED <<listVarsR, pairing>> /\ handling' = Fallback
    BY <1>1, <2>2, FallbackGoesOn DEF listVarsR
  <2>3. CASE /\ byUs' = (byUs \ handling.drop) \cup handling.send
             /\ handling' = [handling EXCEPT !.step = "deliver", !.ours = TRUE]
             /\ UNCHANGED <<pairing, held>>
    <3>1. /\ handling' \in Handling
          /\ handling'.step = "deliver" /\ handling'.token = handling.token /\ handling'.ours
          /\ handling'.send = handling.send
      BY <2>3 DEF RevInv, ReviewTypes, Handling
    <3>2. \A t \in byUs' \ byUs : handling'.ours /\ t \in handling'.send
      BY <2>3, <3>1
    <3> QED
      BY <1>1, <2>3, <3>1, <3>2, GoesOn
  <2> QED
    BY <1>4, <2>1, <2>2, <2>3 DEF WriteReview, StandDown
<1> QED
  BY <1>2, <1>3, <1>4

LEMMA DeliveryKeeps ==
  ASSUME RevInv, BarrierRefuses \/ DeliveryRefused \/ ReserveTask \/ SendReviewed \/ SendFailsReviewed
  PROVE  RevInv'
<1>1. /\ handling.step \in {"deliver", "send"}
      /\ UNCHANGED <<review, running, outcomes, killSwitch, overtaken, reviews>>
  BY DEF BarrierRefuses, DeliveryRefused, ReserveTask, SendReviewed, SendFailsReviewed, outsideVars
<1>2. CASE Abandon /\ UNCHANGED <<held, handed>>
  BY <1>1, <1>2, AbandonEnds
<1>3. CASE ReserveTask
  <2>1. UNCHANGED handed
    BY <1>3 DEF ReserveTask
  <2>2. CASE /\ handling.ours /\ handling' = [handling EXCEPT !.step = "send"]
             /\ UNCHANGED <<listVarsR, pairing>>
    <3>1. /\ handling' \in Handling
          /\ handling'.step = "send" /\ handling'.token = handling.token /\ handling'.ours = handling.ours
          /\ handling'.send = handling.send
      BY <2>2 DEF RevInv, ReviewTypes, Handling
    <3> QED
      BY <1>1, <2>1, <2>2, <3>1, GoesOn DEF listVarsR
  <2>3. CASE /\ ~handling.ours /\ byUs' = byUs \cup handling.send
             /\ handling' = [handling EXCEPT !.step = "send", !.ours = TRUE]
             /\ UNCHANGED <<held, pairing>>
    <3>1. /\ handling' \in Handling
          /\ handling'.step = "send" /\ handling'.token = handling.token /\ handling'.ours
          /\ handling'.send = handling.send
      BY <2>3 DEF RevInv, ReviewTypes, Handling
    <3>2. \A t \in byUs' \ byUs : handling'.ours /\ t \in handling'.send
      BY <2>3, <3>1
    <3> QED
      BY <1>1, <2>1, <2>3, <3>1, <3>2, GoesOn
  <2>4. CASE ~handling.ours /\ handling' = HandlingNone /\ pairing' = {} /\ UNCHANGED listVarsR
    BY <1>1, <2>1, <2>4, StandDownEnds DEF StandDown, listVarsR
  <2> QED
    BY <1>3, <2>2, <2>3, <2>4 DEF ReserveTask
<1>4. CASE SendReviewed
  <2> DEFINE new == [token |-> handling.token, task |-> handling.send]
  <2>1. new.token = handling.token /\ new.task = handling.send
    OBVIOUS
  <2>2. /\ handed' = handed \cup {new} /\ handling' = HandlingNone
        /\ UNCHANGED <<byUs, held, pairing>>
    BY <1>4 DEF SendReviewed, listVarsR
  <2> HIDE DEF new
  <2>3. handling.token = reviews
    BY <1>1 DEF RevInv, HandOutTokens
  <2> QED
    BY <1>1, <2>1, <2>2, <2>3, HandOutEnds
<1>5. CASE /\ handling' = HandlingNone /\ pairing' = {} /\ held' = held \cup handling.send
           /\ UNCHANGED <<byUs, handed>>
  BY <1>1, <1>5, HandOutEnds
<1> QED
  BY <1>2, <1>3, <1>4, <1>5 DEF BarrierRefuses, DeliveryRefused, SendFailsReviewed

LEMMA ReviewStep == ASSUME RevInv, [NextReview]_reviewVars PROVE RevInv'
  BY OutsideKeeps, StartKeeps, UnstartableKeeps, OvertakingKeeps, ReturnsKeeps, TakeKeeps, JudgeKeeps,
     DeliveryKeeps DEF NextReview

\* Only a locked write that found the item pending reserves it.
LEMMA ReservesFree ==
  ASSUME RevInv, [NextReview]_reviewVars
  PROVE  \A t \in ReviewTasks : t \in byUs' \ byUs => item[t] = "pending"
<1>1. CASE WriteReview
  BY <1>1 DEF WriteReview, Applicable, listVarsR
<1>2. CASE ReserveTask
  BY <1>2 DEF ReserveTask, Reservable, listVarsR
<1>3. CASE ~WriteReview /\ ~ReserveTask
  <2>1. byUs' \subseteq byUs
    BY <1>3 DEF NextReview, reviewVars, listVarsR, KillFlips, AgentDisabled, NewerSituation, AgentWorks,
       ListMoves, StartTaskListReview, ReviewUnstartable, ReviewReturns, TakeOutcome, JudgeOutcome,
       CheckOutcome, BarrierRefuses, DeliveryRefused, SendReviewed, SendFailsReviewed, Abandon
  <2> QED
    BY <2>1
<1> QED
  BY <1>1, <1>2, <1>3

\* A review that was overtaken hands nothing over, a reservation of a review is handed over,
\* held or taken back, a pairing ends with the hand-out it was made for, and only a locked
\* write that found the item pending reserves it (daemon/tasklistreview.go).
THEOREM ReviewsLeaveNoTrace == SpecReview => ReviewLeavesNoTrace
<1>1. InitReview => RevInv
  <2> SUFFICES ASSUME InitReview PROVE RevInv
    OBVIOUS
  <2>1. ReviewTypes
    BY DEF InitReview, ReviewTypes, Handling, HandlingNone
  <2>2. HandOutTokens
    BY DEF InitReview, HandOutTokens, HandlingNone
  <2>3. ReservationsOK
    BY DEF InitReview, ReservationsOK, NoStrandedReservation, HandlingNone
  <2>4. PairingEnds
    BY DEF InitReview, PairingEnds
  <2> QED
    BY <2>1, <2>2, <2>3, <2>4 DEF RevInv
<1>2. RevInv /\ [NextReview]_reviewVars => RevInv'
  BY ReviewStep
<1>3. RevInv => OvertakenIsSilent /\ NoStrandedReservation /\ PairingEnds
  BY DEF RevInv, HandOutTokens, ReservationsOK, OvertakenIsSilent
<1>4. RevInv /\ [NextReview]_reviewVars =>
        [\A t \in ReviewTasks : t \in byUs' \ byUs => item[t] = "pending"]_reviewVars
  BY ReservesFree
<1> QED
  BY <1>1, <1>2, <1>3, <1>4, PTL DEF SpecReview, ReviewLeavesNoTrace, HandedWasFree

-----------------------------------------------------------------------------
(* Setting the mode of an agent *)

RotationAssumed ==
  /\ \A i, j \in 1..Len(Cycle) : Cycle[i] = Cycle[j] => i = j
  /\ SettleReads > ScreenLag
  /\ MaxPresses >= Len(Cycle) - 1 + MaxSwallowed

\* The position n turns on from f, for fewer turns than a round.
Onward(f, n) == IF f + n <= Len(Cycle) THEN f + n ELSE f + n - Len(Cycle)

Searching == {"press", "await"}
Restoring == {"back", "backPress", "backAwait"}

NoText == ""

Names == {NoText} \cup Wanted \cup {Cycle[i] : i \in 1..Len(Cycle)}

Command == [at : {"off", "first", "done"} \cup Searching \cup Restoring, want : Names, from : Names,
            mode : Names, seen : SUBSET Names, presses : Nat, back : Nat, reads : Nat, ready : BOOLEAN,
            unverified : BOOLEAN, result : {NoText, "set", "unreadable", "failed", "refused"}]

ModeTypes ==
  /\ actual \in 1..Len(Cycle) /\ shown \in 1..Len(Cycle)
  /\ behind \in 0..ScreenLag /\ (behind = 0 => shown = actual)
  /\ dialog \in BOOLEAN /\ swallowed \in 0..MaxSwallowed /\ dialogs \in Nat
  /\ dialogs = 0 => ~dialog
  /\ cmd \in Command

NotOffered == \A i \in 1..Len(Cycle) : Cycle[i] # cmd.want

\* What the command has read is the agent's mode, or a chord is on its way and the pane shows
\* the mode before it or the one after.
EvidenceOK ==
  /\ cmd.at # "done" => recorded = {} /\ cmd.result = NoText
  /\ cmd.at \in {"off", "first"} => behind = 0 /\ cmd.presses = 0 /\ cmd.back = 0
  /\ cmd.at \in {"press", "back", "backPress"} => shown = actual /\ cmd.mode = Mode(actual)
  /\ cmd.at \in {"await", "backAwait"} => /\ cmd.unverified /\ Mode(shown) \in {cmd.mode, Mode(actual)}
                                          /\ behind = 0 \/ behind + cmd.reads <= ScreenLag
  /\ cmd.at \in Searching => cmd.back = 0
  /\ cmd.at = "done" => recorded \subseteq {Mode(actual)} /\ (cmd.result = "set" => Mode(actual) = cmd.want)

\* The search has gone n turns on from where it began, and seen the modes on its way.
Walked(c, f, n, p) ==
  /\ p = Onward(f, n)
  /\ c.from = Cycle[f] /\ c.mode = Cycle[p]
  /\ c.seen = {Cycle[Onward(f, j)] : j \in 0..n}
  /\ \A j \in 0..n : Cycle[Onward(f, j)] # c.want

\* Presses are turns, but for the chords that were lost.
SearchOK ==
  /\ cmd.at = "press" =>
       \E f \in 1..Len(Cycle), n \in 0..(Len(Cycle) - 1) : Walked(cmd, f, n, actual) /\ (cmd.presses <= n + swallowed \/ n = Len(Cycle) - 1)
  /\ cmd.at = "await" =>
       \E f, p \in 1..Len(Cycle), n \in 0..(Len(Cycle) - 1) :
         /\ Walked(cmd, f, n, p)
         /\ \/ actual = p /\ (cmd.presses <= n + swallowed \/ n = Len(Cycle) - 1)
            \/ actual = Turn(p) /\ (cmd.presses <= n + 1 + swallowed \/ n = Len(Cycle) - 1)

\* k turns from where the search began, and presses left for them.
ToGo(a, from, back, sw) ==
  \E k \in 0..(Len(Cycle) - 1) : /\ Cycle[Onward(a, k)] = from
                                 /\ k + back <= Len(Cycle) - 1 + sw
RestoreOK ==
  /\ cmd.at \in Restoring => NotOffered /\ ToGo(actual, cmd.from, cmd.back, swallowed)
  /\ cmd.at = "backPress" => cmd.mode # cmd.from
  /\ cmd.at = "done" /\ cmd.result = "refused" => NotOffered /\ Mode(actual) = cmd.from

ModeInv == ModeTypes /\ EvidenceOK /\ (dialogs = 0 => SearchOK /\ RestoreOK)

LEMMA CycleFacts ==
  /\ Len(Cycle) \in Nat \ {0}
  /\ SettleReads \in Nat /\ ScreenLag \in Nat /\ MaxPresses \in Nat /\ MaxSwallowed \in Nat
  BY AgentModeAssumption

LEMMA ModesAreNames == \A i \in 1..Len(Cycle) : Mode(i) \in Names
  BY DEF Names, Mode

LEMMA NumbersOf ==
  ASSUME ModeTypes
  PROVE  /\ cmd \in Command /\ cmd.presses \in Nat /\ cmd.back \in Nat /\ cmd.reads \in Nat
         /\ swallowed \in Nat /\ swallowed <= MaxSwallowed /\ behind \in Nat /\ behind <= ScreenLag
         /\ actual \in 1..Len(Cycle) /\ shown \in 1..Len(Cycle) /\ (behind = 0 => shown = actual)
<1>1. cmd \in Command /\ cmd.presses \in Nat /\ cmd.back \in Nat /\ cmd.reads \in Nat
  BY DEF ModeTypes, Command
<1>2. /\ swallowed \in Nat /\ swallowed <= MaxSwallowed /\ behind \in Nat /\ behind <= ScreenLag
      /\ actual \in 1..Len(Cycle) /\ shown \in 1..Len(Cycle) /\ (behind = 0 => shown = actual)
  BY CycleFacts DEF ModeTypes
<1> QED
  BY <1>1, <1>2

LEMMA TurnIs ==
  ASSUME NEW i \in 1..Len(Cycle)
  PROVE  Turn(i) = (IF i = Len(Cycle) THEN 1 ELSE i + 1) /\ Turn(i) \in 1..Len(Cycle)
<1>1. Len(Cycle) \in Nat \ {0}
  BY CycleFacts
<1>2. CASE i = Len(Cycle)
  <2>1. i % Len(Cycle) = 0
    BY <1>1, <1>2
  <2> QED
    BY <1>1, <1>2, <2>1 DEF Turn
<1>3. CASE i # Len(Cycle)
  <2>1. i % Len(Cycle) = i
    BY <1>1, <1>3
  <2> QED
    BY <1>1, <1>3, <2>1 DEF Turn
<1> QED
  BY <1>2, <1>3

LEMMA OnwardFacts ==
  ASSUME NEW f \in 1..Len(Cycle)
  PROVE  /\ \A n \in 0..(Len(Cycle) - 1) : Onward(f, n) \in 1..Len(Cycle)
         /\ Onward(f, 0) = f
         /\ \A n, m \in 0..(Len(Cycle) - 1) : Onward(f, n) = Onward(f, m) => n = m
         /\ \A i \in 1..Len(Cycle) : \E n \in 0..(Len(Cycle) - 1) : Onward(f, n) = i
         /\ \A n \in 0..(Len(Cycle) - 1) : n + 1 <= Len(Cycle) - 1 => Turn(Onward(f, n)) = Onward(f, n + 1)
         /\ Turn(Onward(f, Len(Cycle) - 1)) = f
         /\ \A n \in 1..(Len(Cycle) - 1) : Onward(Turn(f), n - 1) = Onward(f, n)
<1>1. Len(Cycle) \in Nat \ {0}
  BY CycleFacts
<1>2. \A n \in 0..(Len(Cycle) - 1) : Onward(f, n) \in 1..Len(Cycle)
  BY <1>1 DEF Onward
<1>3. Onward(f, 0) = f
  BY <1>1 DEF Onward
<1>4. \A n, m \in 0..(Len(Cycle) - 1) : Onward(f, n) = Onward(f, m) => n = m
  BY <1>1 DEF Onward
<1>5. \A i \in 1..Len(Cycle) : \E n \in 0..(Len(Cycle) - 1) : Onward(f, n) = i
  <2> SUFFICES ASSUME NEW i \in 1..Len(Cycle) PROVE \E n \in 0..(Len(Cycle) - 1) : Onward(f, n) = i
    OBVIOUS
  <2>1. CASE i >= f
    <3>1. i - f \in 0..(Len(Cycle) - 1) /\ Onward(f, i - f) = i
      BY <1>1, <2>1 DEF Onward
    <3> QED
      BY <3>1
  <2>2. CASE i < f
    <3>1. i - f + Len(Cycle) \in 0..(Len(Cycle) - 1) /\ Onward(f, i - f + Len(Cycle)) = i
      BY <1>1, <2>2 DEF Onward
    <3> QED
      BY <3>1
  <2> QED
    BY <1>1, <2>1, <2>2
<1>6. \A n \in 0..(Len(Cycle) - 1) : n + 1 <= Len(Cycle) - 1 => Turn(Onward(f, n)) = Onward(f, n + 1)
  <2> SUFFICES ASSUME NEW n \in 0..(Len(Cycle) - 1), n + 1 <= Len(Cycle) - 1
               PROVE  Turn(Onward(f, n)) = Onward(f, n + 1)
    OBVIOUS
  <2>1. Turn(Onward(f, n)) = (IF Onward(f, n) = Len(Cycle) THEN 1 ELSE Onward(f, n) + 1)
    BY <1>2, TurnIs
  <2> QED
    BY <1>1, <2>1 DEF Onward
<1>7. Turn(Onward(f, Len(Cycle) - 1)) = f
  <2>0. Len(Cycle) - 1 \in 0..(Len(Cycle) - 1)
    BY <1>1
  <2>1. Turn(Onward(f, Len(Cycle) - 1))
          = (IF Onward(f, Len(Cycle) - 1) = Len(Cycle) THEN 1 ELSE Onward(f, Len(Cycle) - 1) + 1)
    BY <1>2, <2>0, TurnIs
  <2> QED
    BY <1>1, <2>1 DEF Onward
<1>8. \A n \in 1..(Len(Cycle) - 1) : Onward(Turn(f), n - 1) = Onward(f, n)
  <2>1. Turn(f) = (IF f = Len(Cycle) THEN 1 ELSE f + 1)
    BY TurnIs
  <2> QED
    BY <1>1, <2>1 DEF Onward
<1> QED
  BY <1>2, <1>3, <1>4, <1>5, <1>6, <1>7, <1>8

\* Moves of the pane that the command does not see yet.

LEMMA RepaintsFacts ==
  ASSUME ModeTypes, Repaints
  PROVE  /\ behind' \in 0..ScreenLag
         /\ shown' \in 1..Len(Cycle) /\ shown' \in {shown, actual}
         /\ (behind' = 0 => shown' = actual)
         /\ behind = 0 => behind' = 0
         /\ behind > 0 => behind' = behind - 1
  BY CycleFacts DEF ModeTypes, Repaints

LEMMA ChordFacts ==
  ASSUME ModeTypes, Chord
  PROVE  /\ behind' \in 0..ScreenLag /\ shown' \in 1..Len(Cycle) /\ actual' \in 1..Len(Cycle)
         /\ (behind' = 0 => shown' = actual')
         /\ dialog' \in BOOLEAN /\ swallowed' \in 0..MaxSwallowed
         /\ dialog' => dialog
         /\ shown' \in {shown, actual'}
         /\ \/ actual' = actual /\ shown' = shown /\ swallowed' = swallowed /\ dialog
            \/ actual' = actual /\ shown' = shown /\ swallowed' = swallowed + 1
            \/ actual' = Turn(actual) /\ swallowed' = swallowed
<1>1. Turn(actual) \in 1..Len(Cycle)
  BY TurnIs DEF ModeTypes
<1>2. /\ actual \in 1..Len(Cycle) /\ shown \in 1..Len(Cycle) /\ behind \in 0..ScreenLag
      /\ (behind = 0 => shown = actual) /\ dialog \in BOOLEAN /\ swallowed \in 0..MaxSwallowed
      /\ MaxSwallowed \in Nat
  BY CycleFacts DEF ModeTypes
<1>3. CASE ~dialog /\ actual' = Turn(actual) /\ UNCHANGED <<dialog, swallowed>>
  <2>1. PICK n \in 0..ScreenLag : behind' = n /\ shown' = IF n = 0 THEN Turn(actual) ELSE shown
    BY <1>3, <1>2 DEF Chord
  <2> QED
    BY <1>1, <1>2, <1>3, <2>1
<1>4. CASE dialog /\ dialog' = FALSE /\ UNCHANGED <<actual, shown, behind, swallowed>>
  BY <1>2, <1>4
<1>5. CASE /\ swallowed < MaxSwallowed /\ swallowed' = swallowed + 1
           /\ UNCHANGED <<actual, shown, behind, dialog>>
  BY <1>2, <1>5
<1> QED
  BY <1>3, <1>4, <1>5 DEF Chord

LEMMA AgentKeeps ==
  ASSUME ModeInv, DialogOpens \/ DialogCloses \/ UNCHANGED modeVars
  PROVE  ModeInv'
<1>1. /\ UNCHANGED <<actual, shown, behind, cmd, recorded, swallowed>>
      /\ dialogs' \in Nat /\ dialog' \in BOOLEAN /\ (dialogs' = 0 => dialogs = 0 /\ ~dialog')
  <2>1. dialogs \in Nat /\ dialog \in BOOLEAN /\ (dialogs = 0 => ~dialog)
    BY DEF ModeInv, ModeTypes
  <2>2. CASE DialogOpens
    BY <2>1, <2>2 DEF DialogOpens
  <2>3. CASE DialogCloses
    BY <2>1, <2>3 DEF DialogCloses
  <2>4. CASE UNCHANGED modeVars
    BY <2>1, <2>4 DEF modeVars
  <2> QED
    BY <2>2, <2>3, <2>4
<1>2. ModeTypes'
  BY <1>1 DEF ModeInv, ModeTypes
<1>3. EvidenceOK'
  BY <1>1 DEF ModeInv, EvidenceOK, Mode
<1>4. dialogs' = 0 => SearchOK' /\ RestoreOK'
  <2> SUFFICES ASSUME dialogs' = 0 PROVE SearchOK' /\ RestoreOK'
    OBVIOUS
  <2>1. SearchOK /\ RestoreOK
    BY <1>1 DEF ModeInv
  <2>2. SearchOK'
    BY <1>1, <2>1 DEF SearchOK, NotOffered, Walked, Mode
  <2>3. RestoreOK'
    BY <1>1, <2>1 DEF RestoreOK, NotOffered, ToGo, Mode
  <2> QED BY <2>2, <2>3
<1> QED
  BY <1>2, <1>3, <1>4 DEF ModeInv

LEMMA SetKeeps == ASSUME ModeInv, NEW w \in Wanted, SetAgentMode(w) PROVE ModeInv'
<1>1. /\ UNCHANGED <<actual, shown, behind, dialog, recorded, swallowed, dialogs>>
      /\ cmd.at = "off"
      /\ cmd' = [at |-> "first", want |-> w, from |-> "", mode |-> "", seen |-> {}, presses |-> 0,
                 back |-> 0, reads |-> 0, ready |-> FALSE, unverified |-> FALSE, result |-> ""]
  BY DEF SetAgentMode, IdleCmd
<1>2. ModeTypes'
  <2>1. w \in Names /\ "" \in Names /\ NoText = ""
    BY DEF Names, NoText
  <2>2. cmd' \in Command
    BY <1>1, <2>1 DEF Command
  <2> QED
    BY <1>1, <2>2 DEF ModeInv, ModeTypes
<1>3. EvidenceOK'
  BY <1>1 DEF ModeInv, EvidenceOK, Searching, NoText
<1>4. SearchOK' /\ RestoreOK'
  BY <1>1 DEF SearchOK, RestoreOK, Restoring
<1> QED
  BY <1>2, <1>3, <1>4 DEF ModeInv

\* A command that ends with what it has confirmed.
LEMMA EndsKeeps ==
  ASSUME ModeInv, NEW c \in Command, NEW result \in {"set", "unreadable", "failed", "refused"}, Ends(c, result),
         UNCHANGED <<actual, dialog, swallowed, dialogs>>,
         behind' \in 0..ScreenLag, shown' \in 1..Len(Cycle), behind' = 0 => shown' = actual,
         c.unverified \/ c.mode = Mode(actual),
         result = "set" => Mode(actual) = c.want,
         result = "refused" /\ dialogs = 0 =>
            Mode(actual) = c.from /\ \A i \in 1..Len(Cycle) : Cycle[i] # c.want
  PROVE  ModeInv'
<1>1. /\ cmd' = [c EXCEPT !.at = "done", !.result = result]
      /\ recorded' = IF c.unverified THEN {} ELSE {c.mode}
  BY DEF Ends, Records
<1>2. /\ cmd' \in Command /\ cmd'.at = "done" /\ cmd'.result = result
      /\ cmd'.want = c.want /\ cmd'.from = c.from
  BY <1>1 DEF Command
<1>3. ModeTypes'
  BY <1>2 DEF ModeInv, ModeTypes
<1>4. EvidenceOK'
  BY <1>1, <1>2 DEF EvidenceOK, Searching, Mode
<1>5. dialogs' = 0 => SearchOK' /\ RestoreOK'
  BY <1>2 DEF SearchOK, RestoreOK, Restoring, NotOffered, Mode
<1> QED
  BY <1>3, <1>4, <1>5 DEF ModeInv

LEMMA FirstReadKeeps == ASSUME ModeInv, FirstRead PROVE ModeInv'
<1>1. /\ cmd.at = "first" /\ Repaints /\ UNCHANGED <<actual, dialog, swallowed, dialogs>>
      /\ behind = 0 /\ shown = actual /\ cmd.presses = 0 /\ cmd.back = 0 /\ recorded = {} /\ cmd \in Command
      /\ cmd.result = NoText
  BY DEF FirstRead, ModeInv, EvidenceOK, ModeTypes
<1>2. behind' = 0 /\ shown' = actual
  BY <1>1, RepaintsFacts DEF ModeInv
<1>3. CASE Reads = {} /\ UNCHANGED recorded /\ cmd' = [cmd EXCEPT !.at = "done", !.result = "unreadable"]
  <2>1. cmd' \in Command /\ cmd'.at = "done" /\ cmd'.result = "unreadable"
    BY <1>1, <1>3 DEF Command
  <2>2. ModeTypes'
    BY <1>1, <1>2, <2>1, CycleFacts DEF ModeInv, ModeTypes
  <2>3. EvidenceOK'
    BY <1>1, <1>3, <2>1 DEF EvidenceOK, Searching
  <2>4. SearchOK' /\ RestoreOK'
    BY <2>1 DEF SearchOK, RestoreOK, Restoring
  <2> QED
    BY <2>2, <2>3, <2>4 DEF ModeInv
<1>4. CASE ~(Reads = {} /\ UNCHANGED recorded /\ cmd' = [cmd EXCEPT !.at = "done", !.result = "unreadable"])
  <2> DEFINE now == Mode(actual)
             c == [cmd EXCEPT !.from = now, !.mode = now, !.seen = {now}, !.ready = TRUE]
  <2>1. IF now = cmd.want THEN Ends(c, "set") ELSE cmd' = [c EXCEPT !.at = "press"] /\ UNCHANGED recorded
    BY <1>1, <1>4 DEF FirstRead, Reads
  <2>2. now \in Names /\ actual \in 1..Len(Cycle) /\ shown' \in 1..Len(Cycle)
    BY <1>2, ModesAreNames DEF ModeInv, ModeTypes
  <2>3. /\ c \in Command /\ c.from = now /\ c.mode = now /\ c.seen = {now} /\ c.want = cmd.want
        /\ c.presses = 0 /\ c.back = 0 /\ c.result = NoText
    <3> HIDE DEF now
    <3> QED
      BY <1>1, <2>2 DEF Command
  <2> HIDE DEF c
  <2>4. CASE now = cmd.want
    <3>1. Ends(c, "set") /\ c.mode = Mode(actual) /\ Mode(actual) = c.want
      BY <2>1, <2>3, <2>4
    <3>2. behind' \in 0..ScreenLag
      BY <1>2, CycleFacts
    <3> QED
      BY <1>1, <1>2, <2>2, <2>3, <3>1, <3>2, EndsKeeps
  <2>5. CASE now # cmd.want
    <3>1. /\ cmd' \in Command /\ cmd'.at = "press" /\ cmd'.from = now /\ cmd'.mode = now
          /\ cmd'.seen = {now} /\ cmd'.want = cmd.want /\ cmd'.presses = 0 /\ cmd'.back = 0
          /\ cmd'.result = NoText /\ recorded' = {}
      <4>1. cmd' = [c EXCEPT !.at = "press"] /\ recorded' = recorded
        BY <2>1, <2>5
      <4> QED
        BY <1>1, <2>3, <4>1 DEF Command, Searching
    <3>2. ModeTypes'
      BY <1>1, <1>2, <2>2, <3>1, CycleFacts DEF ModeInv, ModeTypes
    <3>3. EvidenceOK'
      BY <1>1, <1>2, <3>1 DEF EvidenceOK, Searching, Mode
    <3>4. Onward(actual, 0) = actual /\ 0 \in 0..(Len(Cycle) - 1)
      BY <2>2, OnwardFacts, CycleFacts
    <3>5. {Cycle[Onward(actual, j)] : j \in 0..0} = {now} /\ \A j \in 0..0 : Cycle[Onward(actual, j)] # cmd.want
      BY <2>5, <3>4 DEF Mode
    <3>6. Walked(cmd', actual, 0, actual)
      BY <3>1, <3>4, <3>5 DEF Walked, Mode
    <3>7. SearchOK'
      <4>1. cmd'.presses <= 0 + swallowed'
        <5>1. swallowed \in Nat
          BY CycleFacts DEF ModeInv, ModeTypes
        <5>2. cmd'.presses = 0 /\ swallowed' = swallowed
          BY <1>1, <3>1
        <5> QED
          BY <5>1, <5>2
      <4> QED
        BY <1>1, <2>2, <3>1, <3>4, <3>6, <4>1 DEF SearchOK
    <3>8. RestoreOK'
      BY <3>1 DEF RestoreOK, Restoring
    <3> QED
      BY <3>2, <3>3, <3>7, <3>8 DEF ModeInv
  <2> QED
    BY <2>4, <2>5
<1> QED
  BY <1>3, <1>4

\* A chord is pressed: the pane shows the mode before it, or the one after.
LEMMA ChordEvidence ==
  ASSUME ModeInv, Chord, cmd.at \in {"press", "backPress"}, cmd'.at \in {"await", "backAwait"},
         cmd' \in Command, cmd'.unverified, cmd'.reads = 0, cmd'.result = NoText,
         cmd'.mode = cmd.mode, cmd'.at = "await" => cmd'.back = 0,
         UNCHANGED <<recorded, dialogs>>
  PROVE  ModeTypes' /\ EvidenceOK'
<1>1. ModeTypes /\ shown = actual /\ cmd.mode = Mode(actual) /\ recorded = {}
  BY DEF ModeInv, EvidenceOK
<1>2. ModeTypes'
  BY <1>1, ChordFacts DEF ModeTypes
<1>3. Mode(shown') \in {cmd.mode, Mode(actual')}
  BY <1>1, ChordFacts
<1>4. behind' + cmd'.reads <= ScreenLag
  <2>1. behind' \in 0..ScreenLag
    BY <1>1, ChordFacts
  <2>2. \A b \in 0..ScreenLag : b + 0 <= ScreenLag
    BY CycleFacts
  <2>3. cmd'.reads = 0
    OBVIOUS
  <2> QED
    BY <2>1, <2>2, <2>3, Zenon
<1>5. EvidenceOK'
  BY <1>1, <1>3, <1>4 DEF EvidenceOK, Searching, Mode
<1> QED
  BY <1>2, <1>5

LEMMA PressKeeps == ASSUME ModeInv, Press PROVE ModeInv'
<1>1. /\ cmd.at = "press" /\ Chord /\ UNCHANGED <<recorded, dialogs>> /\ cmd \in Command
      /\ cmd.back = 0 /\ cmd.result = NoText /\ actual \in 1..Len(Cycle)
      /\ cmd' = [cmd EXCEPT !.at = "await", !.presses = cmd.presses + 1, !.unverified = TRUE, !.reads = 0]
  BY DEF Press, ModeInv, EvidenceOK, ModeTypes, Searching
<1>0. PICK m \in Nat : m = cmd.presses + 1
  BY NumbersOf DEF ModeInv
<1>2. /\ cmd' \in Command /\ cmd'.at = "await" /\ cmd'.unverified /\ cmd'.reads = 0 /\ cmd'.result = NoText
      /\ cmd'.mode = cmd.mode /\ cmd'.back = 0 /\ cmd'.presses = cmd.presses + 1
      /\ cmd'.from = cmd.from /\ cmd'.want = cmd.want /\ cmd'.seen = cmd.seen
  <2>1. cmd' = [cmd EXCEPT !.at = "await", !.presses = m, !.unverified = TRUE, !.reads = 0]
    BY <1>0, <1>1
  <2>2. /\ cmd' \in Command /\ cmd'.at = "await" /\ cmd'.unverified /\ cmd'.reads = 0 /\ cmd'.result = NoText
        /\ cmd'.mode = cmd.mode /\ cmd'.back = 0 /\ cmd'.presses = m
        /\ cmd'.from = cmd.from /\ cmd'.want = cmd.want /\ cmd'.seen = cmd.seen
    BY <1>1, <2>1 DEF Command, Searching
  <2> QED
    BY <1>0, <2>2
<1>3. ModeTypes' /\ EvidenceOK'
  BY <1>1, <1>2, ChordEvidence
<1>4. ASSUME dialogs' = 0 PROVE SearchOK'
  <2>1. PICK f \in 1..Len(Cycle), n \in 0..(Len(Cycle) - 1) :
          Walked(cmd, f, n, actual) /\ (cmd.presses <= n + swallowed \/ n = Len(Cycle) - 1)
    BY <1>1, <1>4 DEF ModeInv, SearchOK
  <2>2. Walked(cmd', f, n, actual)
    BY <1>2, <2>1 DEF Walked
  <2>3. \/ actual' = actual /\ swallowed' = swallowed + 1
        \/ actual' = Turn(actual) /\ swallowed' = swallowed
    BY <1>1, <1>4, ChordFacts DEF ModeInv, ModeTypes
  <2>4. cmd.presses \in Nat /\ swallowed \in Nat /\ Len(Cycle) \in Nat
    BY CycleFacts, NumbersOf DEF ModeInv
  <2>5. \/ actual' = actual /\ (cmd'.presses <= n + swallowed' \/ n = Len(Cycle) - 1)
        \/ actual' = Turn(actual) /\ (cmd'.presses <= n + 1 + swallowed' \/ n = Len(Cycle) - 1)
    BY <1>2, <2>1, <2>3, <2>4
  <2> QED
    BY <1>1, <1>2, <2>2, <2>5 DEF SearchOK
<1>5. RestoreOK'
  BY <1>2 DEF RestoreOK, Restoring
<1> QED
  BY <1>3, <1>4, <1>5 DEF ModeInv

LEMMA SendFailsKeeps == ASSUME ModeInv, SendFails PROVE ModeInv'
<1> DEFINE c == [cmd EXCEPT !.unverified = TRUE]
<1>1. Ends(c, "failed") /\ UNCHANGED <<actual, shown, behind, dialog, swallowed, dialogs>>
  BY DEF SendFails
<1>2. c \in Command /\ c.unverified
  BY DEF ModeInv, ModeTypes, Command
<1>3. behind \in 0..ScreenLag /\ shown \in 1..Len(Cycle) /\ (behind = 0 => shown = actual)
  BY DEF ModeInv, ModeTypes
<1> HIDE DEF c
<1> QED
  BY <1>1, <1>2, <1>3, EndsKeeps

LEMMA RestorePressKeeps == ASSUME ModeInv, RestorePress PROVE ModeInv'
<1>1. /\ cmd.at = "backPress" /\ Chord /\ UNCHANGED <<recorded, dialogs>> /\ cmd \in Command
      /\ cmd.result = NoText /\ actual \in 1..Len(Cycle) /\ cmd.mode = Mode(actual)
      /\ cmd' = [cmd EXCEPT !.at = "backAwait", !.back = cmd.back + 1, !.unverified = TRUE, !.reads = 0]
  BY DEF RestorePress, ModeInv, EvidenceOK, ModeTypes
<1>0. PICK n \in Nat : n = cmd.back + 1
  BY NumbersOf DEF ModeInv
<1>2. /\ cmd' \in Command /\ cmd'.at = "backAwait" /\ cmd'.unverified /\ cmd'.reads = 0 /\ cmd'.result = NoText
      /\ cmd'.mode = cmd.mode /\ cmd'.back = cmd.back + 1
      /\ cmd'.from = cmd.from /\ cmd'.want = cmd.want
  <2>1. cmd' = [cmd EXCEPT !.at = "backAwait", !.back = n, !.unverified = TRUE, !.reads = 0]
    BY <1>0, <1>1
  <2>2. /\ cmd' \in Command /\ cmd'.at = "backAwait" /\ cmd'.unverified /\ cmd'.reads = 0 /\ cmd'.result = NoText
        /\ cmd'.mode = cmd.mode /\ cmd'.back = n /\ cmd'.from = cmd.from /\ cmd'.want = cmd.want
    <3>1. cmd.at = "backPress" /\ cmd \in Command /\ cmd.result = NoText
      BY <1>1
    <3> QED
      BY <2>1, <3>1 DEF Command, Restoring
  <2> QED
    BY <1>0, <2>2
<1>3. ModeTypes' /\ EvidenceOK'
  BY <1>1, <1>2, ChordEvidence
<1>4. SearchOK'
  BY <1>2 DEF SearchOK
<1>5. ASSUME dialogs' = 0 PROVE RestoreOK'
  <2>1. NotOffered /\ cmd.mode # cmd.from
    BY <1>1, <1>5 DEF ModeInv, RestoreOK, Restoring
  <2>2. PICK k \in 0..(Len(Cycle) - 1) : /\ Cycle[Onward(actual, k)] = cmd.from
                                         /\ k + cmd.back <= Len(Cycle) - 1 + swallowed
    BY <1>1, <1>5 DEF ModeInv, RestoreOK, Restoring, ToGo
  <2>3. k # 0
    BY <1>1, <2>1, <2>2, OnwardFacts DEF Mode
  <2>4. \/ actual' = actual /\ swallowed' = swallowed + 1
        \/ actual' = Turn(actual) /\ swallowed' = swallowed
    BY <1>1, <1>5, ChordFacts DEF ModeInv, ModeTypes
  <2>5. cmd.back \in Nat /\ swallowed \in Nat /\ Len(Cycle) \in Nat
    BY CycleFacts, NumbersOf DEF ModeInv
  <2>6. ToGo(actual', cmd'.from, cmd'.back, swallowed')
    <3>1. CASE actual' = actual /\ swallowed' = swallowed + 1
      <4>1. k + cmd'.back <= Len(Cycle) - 1 + swallowed'
        BY <1>2, <2>2, <2>5, <3>1
      <4> QED
        BY <1>2, <2>2, <3>1, <4>1 DEF ToGo
    <3>2. CASE actual' = Turn(actual) /\ swallowed' = swallowed
      <4>1. (k - 1) + cmd'.back <= Len(Cycle) - 1 + swallowed' /\ k - 1 \in 0..(Len(Cycle) - 1)
            /\ k \in 1..(Len(Cycle) - 1)
        BY <1>2, <2>2, <2>3, <2>5, <3>2
      <4>2. Onward(actual', k - 1) = Onward(actual, k)
        BY <1>1, <3>2, <4>1, OnwardFacts
      <4> QED
        BY <1>2, <2>2, <4>1, <4>2 DEF ToGo
    <3> QED
      BY <2>4, <3>1, <3>2
  <2> QED
    BY <1>2, <2>1, <2>6 DEF RestoreOK, Restoring, NotOffered
<1> QED
  BY <1>3, <1>4, <1>5 DEF ModeInv

LEMMA RestoreReadKeeps == ASSUME RotationAssumed, ModeInv, RestoreRead PROVE ModeInv'
<1>1. /\ cmd.at = "back" /\ Repaints /\ UNCHANGED <<actual, dialog, swallowed, dialogs>>
      /\ shown = actual /\ cmd.mode = Mode(actual) /\ cmd \in Command /\ actual \in 1..Len(Cycle)
      /\ recorded = {} /\ cmd.result = NoText
  BY DEF RestoreRead, ModeInv, EvidenceOK, ModeTypes
<1>2. behind' \in 0..ScreenLag /\ shown' = actual
  BY <1>1, RepaintsFacts DEF ModeInv
<1>3. CASE Restored(cmd) \/ Reads = {}
  <2>1. Ends(cmd, "refused")
    BY <1>3 DEF RestoreRead
  <2>2. ASSUME dialogs = 0 PROVE Mode(actual) = cmd.from /\ NotOffered
    <3>1. RestoreOK /\ Restored(cmd)
      BY <1>3, <2>2 DEF ModeInv, ModeTypes, Reads, ComposerReadyForMode
    <3>2. PICK k \in 0..(Len(Cycle) - 1) : /\ Cycle[Onward(actual, k)] = cmd.from
                                           /\ k + cmd.back <= Len(Cycle) - 1 + swallowed
      BY <1>1, <3>1 DEF RestoreOK, Restoring, ToGo
    <3>3. CASE cmd.back >= MaxPresses
      <4>1. /\ cmd.back \in Nat /\ swallowed \in Nat /\ swallowed <= MaxSwallowed /\ MaxSwallowed \in Nat
            /\ Len(Cycle) \in Nat
        BY CycleFacts, NumbersOf DEF ModeInv
      <4>2. k = 0
        BY <3>2, <3>3, <4>1, CycleFacts DEF RotationAssumed
      <4>3. Onward(actual, 0) = actual
        BY <1>1, OnwardFacts
      <4> QED
        BY <1>1, <3>1, <3>2, <4>2, <4>3 DEF RestoreOK, Restoring, Mode
    <3> QED
      BY <1>1, <3>1, <3>3 DEF Restored, RestoreOK, Restoring
  <2> QED
    BY <1>1, <1>2, <2>1, <2>2, EndsKeeps DEF NotOffered
<1>4. CASE ~(Restored(cmd) \/ Reads = {})
  <2>1. cmd' = [cmd EXCEPT !.at = "backPress"] /\ UNCHANGED recorded /\ cmd.mode # cmd.from
    BY <1>4 DEF RestoreRead, Restored
  <2>2. /\ cmd' \in Command /\ cmd'.at = "backPress" /\ cmd'.result = NoText /\ cmd'.mode = cmd.mode
        /\ cmd'.back = cmd.back /\ cmd'.from = cmd.from /\ cmd'.want = cmd.want
    BY <1>1, <2>1 DEF Command, Restoring
  <2>3. ModeTypes'
    BY <1>1, <1>2, <2>2 DEF ModeInv, ModeTypes
  <2>4. EvidenceOK'
    BY <1>1, <1>2, <2>1, <2>2 DEF EvidenceOK, Searching, Mode
  <2>5. dialogs' = 0 => SearchOK' /\ RestoreOK'
    BY <1>1, <2>1, <2>2 DEF ModeInv, SearchOK, RestoreOK, Restoring, NotOffered, ToGo
  <2> QED
    BY <2>3, <2>4, <2>5 DEF ModeInv
<1> QED
  BY <1>3, <1>4

\* A settled read that shows a mode shows the agent's: the one after the chord, or, when the
\* timeout is up, the screen has caught up.
LEMMA SettledReadIsTrue ==
  ASSUME RotationAssumed, ModeInv, cmd.at \in {"await", "backAwait"}, ModeSettled(Reads), Reads # {}
  PROVE  Reads = {Mode(actual)} /\ shown = actual
<1>1. /\ Mode(shown) \in {cmd.mode, Mode(actual)} /\ (behind = 0 \/ behind + cmd.reads <= ScreenLag)
      /\ actual \in 1..Len(Cycle) /\ shown \in 1..Len(Cycle) /\ behind \in 0..ScreenLag
      /\ (behind = 0 => shown = actual) /\ cmd.reads \in Nat
  BY CycleFacts, NumbersOf DEF ModeInv, EvidenceOK, ModeTypes
<1>2. Reads = {Mode(shown)}
  BY DEF Reads
<1>3. CASE {Mode(shown)} # {cmd.mode}
  <2>1. Mode(shown) = Mode(actual)
    BY <1>1, <1>3
  <2> QED
    BY <1>1, <1>2, <2>1 DEF RotationAssumed, Mode
<1>4. CASE cmd.reads + 1 >= SettleReads
  <2>1. behind = 0
    BY <1>1, <1>4, CycleFacts DEF RotationAssumed
  <2> QED
    BY <1>1, <1>2, <2>1
<1> QED
  BY <1>2, <1>3, <1>4 DEF ModeSettled

\* A read that has not settled is one of the reads the screen may be behind.
LEMMA UnsettledKeeps ==
  ASSUME ModeInv, cmd.at \in {"await", "backAwait"}, Repaints,
         cmd' = [cmd EXCEPT !.reads = cmd.reads + 1],
         UNCHANGED <<recorded, actual, dialog, swallowed, dialogs>>
  PROVE  ModeInv'
<1>1. /\ Mode(shown) \in {cmd.mode, Mode(actual)} /\ (behind = 0 \/ behind + cmd.reads <= ScreenLag)
      /\ cmd \in Command /\ cmd.unverified
      /\ recorded = {} /\ cmd.result = NoText /\ (cmd.at = "await" => cmd.back = 0)
  BY DEF ModeInv, EvidenceOK, ModeTypes, Searching
<1>0. PICK n \in Nat : n = cmd.reads + 1
  BY NumbersOf DEF ModeInv
<1>2. /\ cmd' \in Command /\ cmd'.at = cmd.at /\ cmd'.mode = cmd.mode /\ cmd'.reads = cmd.reads + 1
      /\ cmd'.unverified = cmd.unverified /\ cmd'.result = cmd.result /\ cmd'.back = cmd.back
      /\ cmd'.presses = cmd.presses /\ cmd'.seen = cmd.seen /\ cmd'.from = cmd.from /\ cmd'.want = cmd.want
  <2>1. cmd' = [cmd EXCEPT !.reads = n]
    BY <1>0
  <2>2. /\ cmd' \in Command /\ cmd'.at = cmd.at /\ cmd'.mode = cmd.mode /\ cmd'.reads = n
        /\ cmd'.unverified = cmd.unverified /\ cmd'.result = cmd.result /\ cmd'.back = cmd.back
        /\ cmd'.presses = cmd.presses /\ cmd'.seen = cmd.seen /\ cmd'.from = cmd.from /\ cmd'.want = cmd.want
    BY <1>1, <2>1 DEF Command
  <2> QED
    BY <1>0, <2>2
<1>3. /\ behind' \in 0..ScreenLag /\ shown' \in 1..Len(Cycle) /\ shown' \in {shown, actual}
      /\ (behind' = 0 => shown' = actual)
      /\ behind' = 0 \/ behind' + cmd'.reads <= ScreenLag
  <2>1. /\ behind' \in 0..ScreenLag /\ shown' \in 1..Len(Cycle) /\ shown' \in {shown, actual}
        /\ (behind' = 0 => shown' = actual)
        /\ behind = 0 => behind' = 0
        /\ behind > 0 => behind' = behind - 1
    BY RepaintsFacts DEF ModeInv
  <2>2. cmd.reads \in Nat /\ behind \in Nat /\ ScreenLag \in Nat /\ cmd'.reads = cmd.reads + 1
    BY <1>2, NumbersOf, CycleFacts DEF ModeInv
  <2> QED
    BY <1>1, <2>1, <2>2
<1>4. ModeTypes'
  BY <1>2, <1>3 DEF ModeInv, ModeTypes
<1>5. EvidenceOK'
  BY <1>1, <1>2, <1>3 DEF EvidenceOK, Searching, Mode
<1>6. dialogs' = 0 => SearchOK' /\ RestoreOK'
  BY <1>2 DEF ModeInv, SearchOK, RestoreOK, Restoring, NotOffered, ToGo, Walked
<1> QED
  BY <1>4, <1>5, <1>6 DEF ModeInv

LEMMA RestoreAwaitKeeps == ASSUME RotationAssumed, ModeInv, RestoreAwait PROVE ModeInv'
<1>1. /\ cmd.at = "backAwait" /\ Repaints /\ UNCHANGED <<actual, dialog, swallowed, dialogs>>
      /\ cmd \in Command /\ actual \in 1..Len(Cycle) /\ cmd.unverified
      /\ recorded = {} /\ cmd.result = NoText
  BY DEF RestoreAwait, ModeInv, EvidenceOK, ModeTypes
<1>2. /\ behind' \in 0..ScreenLag /\ shown' \in {shown, actual} /\ shown' \in 1..Len(Cycle)
      /\ (behind' = 0 => shown' = actual)
  BY <1>1, RepaintsFacts DEF ModeInv
<1>3. CASE ~ModeSettled(Reads)
  BY <1>1, <1>3, UnsettledKeeps DEF RestoreAwait
<1>4. CASE ModeSettled(Reads) /\ Reads = {}
  <2>1. Ends(cmd, "refused") /\ dialogs # 0
    BY <1>4 DEF RestoreAwait, Reads, ComposerReadyForMode, ModeInv, ModeTypes
  <2> QED
    BY <1>1, <1>2, <2>1, EndsKeeps
<1>5. CASE ModeSettled(Reads) /\ Reads # {}
  <2>1. Reads = {Mode(actual)} /\ shown = actual
    BY <1>1, <1>5, SettledReadIsTrue
  <2> DEFINE now == Mode(actual)
  <2>2. now \in Names
    BY <1>1, ModesAreNames
  <2>3. cmd' = [cmd EXCEPT !.at = "back", !.mode = now, !.unverified = FALSE] /\ UNCHANGED recorded
    BY <1>5, <2>1 DEF RestoreAwait
  <2>4. /\ cmd' \in Command /\ cmd'.at = "back" /\ cmd'.mode = now /\ cmd'.result = NoText
        /\ cmd'.back = cmd.back /\ cmd'.from = cmd.from /\ cmd'.want = cmd.want
    <3> HIDE DEF now
    <3> QED
      BY <1>1, <2>2, <2>3 DEF Command, Restoring
  <2>5. ModeTypes'
    BY <1>1, <1>2, <2>4 DEF ModeInv, ModeTypes
  <2>6. EvidenceOK'
    BY <1>1, <1>2, <2>1, <2>3, <2>4 DEF EvidenceOK, Searching, Mode
  <2>7. dialogs' = 0 => SearchOK' /\ RestoreOK'
    BY <1>1, <2>4 DEF ModeInv, SearchOK, RestoreOK, Restoring, NotOffered, ToGo
  <2> QED
    BY <2>5, <2>6, <2>7 DEF ModeInv
<1> QED
  BY <1>3, <1>4, <1>5

\* What a settled read of the search leaves: further on the way, or all the way round.
LEMMA SearchMoves ==
  ASSUME RotationAssumed, ModeInv, cmd.at = "await", dialogs = 0, Mode(actual) # cmd.want
  PROVE  LET now == Mode(actual)
         IN \E f \in 1..Len(Cycle), n \in 0..(Len(Cycle) - 1) :
              /\ cmd.from = Cycle[f]
              /\ n = Len(Cycle) - 1 \/ (cmd.presses <= n + swallowed /\ ~Closed(now))
              /\ \A j \in 0..n : Cycle[Onward(f, j)] # cmd.want
              /\ ~Closed(now) => /\ actual = Onward(f, n)
                                 /\ cmd.seen \cup {now} = {Cycle[Onward(f, j)] : j \in 0..n}
<1>1. PICK f \in 1..Len(Cycle), p \in 1..Len(Cycle), n \in 0..(Len(Cycle) - 1) :
        /\ Walked(cmd, f, n, p)
        /\ \/ actual = p /\ (cmd.presses <= n + swallowed \/ n = Len(Cycle) - 1)
           \/ actual = Turn(p) /\ (cmd.presses <= n + 1 + swallowed \/ n = Len(Cycle) - 1)
  BY DEF ModeInv, SearchOK
<1>2. /\ p = Onward(f, n) /\ cmd.from = Cycle[f] /\ cmd.mode = Cycle[p]
      /\ cmd.seen = {Cycle[Onward(f, j)] : j \in 0..n}
      /\ \A j \in 0..n : Cycle[Onward(f, j)] # cmd.want
      /\ Len(Cycle) \in Nat \ {0} /\ cmd.presses \in Nat /\ swallowed \in Nat
  BY <1>1, CycleFacts, NumbersOf DEF Walked, ModeInv
<1>3. CASE actual = p /\ (cmd.presses <= n + swallowed \/ n = Len(Cycle) - 1)
  <2>1. Mode(actual) \in cmd.seen /\ Mode(actual) = cmd.mode
    BY <1>2, <1>3 DEF Mode
  <2>2. ~Closed(Mode(actual))
    BY <2>1 DEF Closed
  <2>3. cmd.seen \cup {Mode(actual)} = {Cycle[Onward(f, j)] : j \in 0..n}
    BY <1>2, <2>1
  <2> QED
    BY <1>2, <1>3, <2>2, <2>3
<1>4. CASE actual = Turn(p) /\ n = Len(Cycle) - 1
  <2>1. actual = f
    BY <1>2, <1>4, OnwardFacts
  <2>2. Mode(actual) \in cmd.seen
    <3>1. 0 \in 0..n /\ Onward(f, 0) = f
      BY <1>2, OnwardFacts
    <3> QED
      BY <1>2, <2>1, <3>1 DEF Mode
  <2>3. ASSUME ~Closed(Mode(actual)) PROVE actual = Onward(f, n)
    <3>1. Cycle[actual] = Cycle[p]
      BY <1>2, <2>2, <2>3 DEF Closed, Mode
    <3> QED
      BY <1>2, <2>1, <3>1 DEF RotationAssumed
  <2>4. cmd.seen \cup {Mode(actual)} = {Cycle[Onward(f, j)] : j \in 0..n}
    BY <1>2, <2>2
  <2>5. n = Len(Cycle) - 1
    BY <1>4
  <2>6. /\ cmd.from = Cycle[f]
        /\ n = Len(Cycle) - 1 \/ (cmd.presses <= n + swallowed /\ ~Closed(Mode(actual)))
        /\ \A j \in 0..n : Cycle[Onward(f, j)] # cmd.want
        /\ ~Closed(Mode(actual)) => /\ actual = Onward(f, n)
                                    /\ cmd.seen \cup {Mode(actual)} = {Cycle[Onward(f, j)] : j \in 0..n}
    <3>1. cmd.from = Cycle[f] /\ \A j \in 0..n : Cycle[Onward(f, j)] # cmd.want
      BY <1>2
    <3> QED
      BY <2>3, <2>4, <2>5, <3>1, Zenon
  <2> QED
    BY <2>6, Zenon
<1>5. CASE actual = Turn(p) /\ n # Len(Cycle) - 1 /\ cmd.presses <= n + 1 + swallowed
  <2>1. n + 1 \in 0..(Len(Cycle) - 1)
    <3>1. Len(Cycle) \in Nat \ {0} /\ n # Len(Cycle) - 1
      BY <1>2, <1>5
    <3> QED
      BY <3>1
  <2>2. actual = Onward(f, n + 1)
    BY <1>2, <1>5, <2>1, OnwardFacts
  <2>3. Mode(actual) \notin cmd.seen
    <3> SUFFICES ASSUME NEW j \in 0..n, Cycle[Onward(f, j)] = Cycle[actual] PROVE FALSE
      BY <1>2 DEF Mode
    <3>1. j \in 0..(Len(Cycle) - 1) /\ j # n + 1
      BY <1>2, <2>1
    <3>2. Onward(f, j) \in 1..Len(Cycle) /\ Onward(f, n + 1) \in 1..Len(Cycle)
      BY <2>1, <3>1, OnwardFacts
    <3>3. Onward(f, j) = Onward(f, n + 1)
      BY <2>2, <3>2 DEF RotationAssumed
    <3> QED
      BY <2>1, <3>1, <3>3, OnwardFacts
  <2>4. ~Closed(Mode(actual))
    BY <2>3 DEF Closed
  <2>5. \A j \in 0..(n + 1) : j \in 0..n \/ j = n + 1
    <3>1. n \in Nat
      BY <1>2
    <3> QED
      BY <3>1
  <2>6. 0..n \subseteq 0..(n + 1) /\ n + 1 \in 0..(n + 1)
    BY <1>2
  <2>7. cmd.seen \cup {Mode(actual)} = {Cycle[Onward(f, j)] : j \in 0..(n + 1)}
    BY <1>2, <2>2, <2>5, <2>6 DEF Mode
  <2>8. \A j \in 0..(n + 1) : Cycle[Onward(f, j)] # cmd.want
    BY <1>2, <2>2, <2>5 DEF Mode
  <2> QED
    BY <1>2, <1>5, <2>1, <2>2, <2>4, <2>7, <2>8
<1> QED
  BY <1>1, <1>3, <1>4, <1>5

LEMMA AwaitKeeps == ASSUME RotationAssumed, ModeInv, Await PROVE ModeInv'
<1>1. /\ cmd.at = "await" /\ Repaints /\ UNCHANGED <<actual, dialog, swallowed, dialogs>>
      /\ cmd \in Command /\ actual \in 1..Len(Cycle) /\ cmd.unverified
      /\ recorded = {} /\ cmd.result = NoText /\ cmd.back = 0
  BY DEF Await, ModeInv, EvidenceOK, ModeTypes, Searching
<1>2. /\ behind' \in 0..ScreenLag /\ shown' \in {shown, actual} /\ shown' \in 1..Len(Cycle)
      /\ (behind' = 0 => shown' = actual)
  BY <1>1, RepaintsFacts DEF ModeInv
<1>3. CASE ~ModeSettled(Reads)
  BY <1>1, <1>3, UnsettledKeeps DEF Await
<1>4. CASE ModeSettled(Reads) /\ Reads = {}
  <2>1. Ends(cmd, "unreadable")
    BY <1>4 DEF Await
  <2> QED
    BY <1>1, <1>2, <2>1, EndsKeeps
<1>5. CASE ModeSettled(Reads) /\ Reads # {}
  <2>1. Reads = {Mode(actual)} /\ shown = actual
    BY <1>1, <1>5, SettledReadIsTrue
  <2> DEFINE now == Mode(actual)
             c == [cmd EXCEPT !.mode = now, !.unverified = FALSE, !.ready = TRUE, !.reads = 0,
                              !.seen = cmd.seen \cup {now}]
             next == IF Closed(now) \/ cmd.presses >= MaxPresses THEN "back" ELSE "press"
  <2>2. now \in Names
    BY <1>1, ModesAreNames
  <2>3. IF now = cmd.want THEN Ends(c, "set")
        ELSE cmd' = [c EXCEPT !.at = next] /\ UNCHANGED recorded
    BY <1>5, <2>1 DEF Await, Judge
  <2>4. /\ c \in Command /\ c.mode = now /\ c.seen = cmd.seen \cup {now} /\ c.want = cmd.want
        /\ c.from = cmd.from /\ c.presses = cmd.presses /\ c.back = 0 /\ c.result = NoText
    <3> HIDE DEF now
    <3>1. (cmd.seen \cup {now}) \in SUBSET Names
      BY <1>1, <2>2 DEF Command
    <3> QED
      BY <1>1, <2>2, <3>1 DEF Command
  <2> HIDE DEF c
  <2>5. CASE now = cmd.want
    <3>1. Ends(c, "set") /\ c.mode = Mode(actual) /\ Mode(actual) = c.want
      BY <2>3, <2>4, <2>5
    <3> QED
      BY <1>1, <1>2, <2>4, <3>1, EndsKeeps
  <2>6. CASE now # cmd.want
    <3>0. next \in {"back", "press"}
      OBVIOUS
    <3>1. /\ cmd' \in Command /\ cmd'.at = next /\ cmd'.mode = now /\ cmd'.seen = cmd.seen \cup {now}
          /\ cmd'.want = cmd.want /\ cmd'.from = cmd.from /\ cmd'.presses = cmd.presses /\ cmd'.back = 0
          /\ cmd'.result = NoText /\ recorded' = {}
      <4> HIDE DEF next, now
      <4> QED
        BY <1>1, <2>3, <2>4, <2>6, <3>0 DEF Command, Searching, Restoring
    <3>2. ModeTypes'
      BY <1>1, <1>2, <3>1 DEF ModeInv, ModeTypes
    <3>3. EvidenceOK'
      <4> HIDE DEF next
      <4> QED
        BY <1>1, <1>2, <2>1, <3>0, <3>1 DEF EvidenceOK, Searching, Mode
    <3>4. ASSUME dialogs = 0 PROVE SearchOK' /\ RestoreOK'
      <4>1. PICK f \in 1..Len(Cycle), n \in 0..(Len(Cycle) - 1) :
              /\ cmd.from = Cycle[f]
              /\ n = Len(Cycle) - 1 \/ (cmd.presses <= n + swallowed /\ ~Closed(now))
              /\ \A j \in 0..n : Cycle[Onward(f, j)] # cmd.want
              /\ ~Closed(now) => /\ actual = Onward(f, n)
                                 /\ cmd.seen \cup {now} = {Cycle[Onward(f, j)] : j \in 0..n}
        BY <1>1, <2>6, <3>4, SearchMoves
      <4>2. CASE next = "press"
        <5>1. ~Closed(now)
          BY <4>2
        <5>2. Walked(cmd', f, n, actual)
          BY <3>1, <4>1, <5>1 DEF Walked, Mode
        <5>3. SearchOK'
          BY <1>1, <3>1, <4>1, <4>2, <5>2 DEF SearchOK
        <5>4. RestoreOK'
          BY <3>1, <4>2 DEF RestoreOK, Restoring
        <5> QED
          BY <5>3, <5>4
      <4>3. CASE next = "back"
        <5>1. /\ cmd.presses \in Nat /\ swallowed \in Nat /\ swallowed <= MaxSwallowed
              /\ Len(Cycle) \in Nat \ {0} /\ MaxSwallowed \in Nat
          BY CycleFacts, NumbersOf DEF ModeInv
        <5>2. n = Len(Cycle) - 1
          <6>1. CASE Closed(now)
            BY <4>1, <6>1
          <6>2. CASE cmd.presses >= MaxPresses
            BY <4>1, <5>1, <6>2, CycleFacts DEF RotationAssumed
          <6> QED
            BY <4>3, <6>1, <6>2
        <5>3. \A i \in 1..Len(Cycle) : Cycle[i] # cmd.want
          <6> SUFFICES ASSUME NEW i \in 1..Len(Cycle) PROVE Cycle[i] # cmd.want
            OBVIOUS
          <6>1. PICK j \in 0..(Len(Cycle) - 1) : Onward(f, j) = i
            BY OnwardFacts
          <6> QED
            BY <4>1, <5>2, <6>1
        <5>4. ToGo(actual, cmd.from, 0, swallowed)
          <6>1. PICK k \in 0..(Len(Cycle) - 1) : Onward(actual, k) = f
            BY <1>1, OnwardFacts
          <6>2. k + 0 <= Len(Cycle) - 1 + swallowed
            BY <5>1
          <6> QED
            BY <4>1, <6>1, <6>2 DEF ToGo
        <5>5. SearchOK'
          BY <3>1, <4>3 DEF SearchOK
        <5>6. RestoreOK'
          BY <1>1, <3>1, <4>3, <5>3, <5>4 DEF RestoreOK, Restoring, NotOffered
        <5> QED
          BY <5>5, <5>6
      <4> QED
        BY <3>0, <4>2, <4>3
    <3> QED
      BY <1>1, <3>2, <3>3, <3>4 DEF ModeInv
  <2> QED
    BY <2>5, <2>6
<1> QED
  BY <1>3, <1>4, <1>5

\* A command that says the mode is set, offered or as it was says so of the agent, also when
\* the screen lags behind the chords, chords are lost or a dialog takes them
\* (daemon/agentmode.go).
THEOREM ModeAnswersAlwaysTrue == RotationAssumed => (SpecMode => []ModeAnswersAreTrue)
<1> SUFFICES ASSUME RotationAssumed PROVE SpecMode => []ModeAnswersAreTrue
  OBVIOUS
<1>1. InitMode => ModeInv
  <2> SUFFICES ASSUME InitMode PROVE ModeInv
    OBVIOUS
  <2>1. cmd \in Command /\ cmd.at = "off" /\ cmd.result = NoText /\ cmd.presses = 0 /\ cmd.back = 0
    BY DEF InitMode, IdleCmd, Command, Names, NoText
  <2>2. ModeTypes
    <3>1. /\ actual \in 1..Len(Cycle) /\ shown = actual /\ behind = 0 /\ dialog = FALSE
          /\ swallowed = 0 /\ dialogs = 0
      BY DEF InitMode
    <3>2. 0 \in 0..ScreenLag /\ 0 \in 0..MaxSwallowed
      BY CycleFacts
    <3> QED
      BY <2>1, <3>1, <3>2 DEF ModeTypes
  <2>3. EvidenceOK
    BY <2>1 DEF InitMode, EvidenceOK, Searching
  <2>4. SearchOK /\ RestoreOK
    BY <2>1 DEF SearchOK, RestoreOK, Restoring
  <2> QED
    BY <2>2, <2>3, <2>4 DEF ModeInv
<1>2. ModeInv /\ [NextMode]_modeVars => ModeInv'
  BY AgentKeeps, SetKeeps, FirstReadKeeps, PressKeeps, SendFailsKeeps, AwaitKeeps, RestoreReadKeeps,
     RestorePressKeeps, RestoreAwaitKeeps DEF NextMode
<1>3. ModeInv => ModeAnswersAreTrue
  <2> SUFFICES ASSUME ModeInv PROVE ModeAnswersAreTrue
    OBVIOUS
  <2>1. cmd.result # NoText => cmd.at = "done"
    BY DEF ModeInv, EvidenceOK
  <2> QED
    BY <2>1 DEF ModeInv, EvidenceOK, RestoreOK, NotOffered, ModeAnswersAreTrue, SetIsTrue, RecordedIsTrue,
       RefusalLeavesTheMode, OfferedIsReached, NoText
<1> QED
  BY <1>1, <1>2, <1>3, PTL DEF SpecMode

-----------------------------------------------------------------------------
(* Matching a screen to a learned rule *)

ScreensAssumed == NothingYet \notin Screens

\* Rows are not taken away, and a build lists them after it read their fingerprint: what it
\* claims, it has.
BuildOK(b) ==
  /\ b.gen \in 1..semGen /\ b.gen # by.built
  /\ b.at = "fp" => b.fp \subseteq ruleRows
  /\ b.at \in {"listed", "building"} => b.fp = UnknownSig \/ b.fp \subseteq b.has
  /\ b.at = "done" /\ by.index = b.gen => b.fp = UnknownSig \/ b.fp \subseteq index

IndexOK ==
  /\ shownScreen \in Screens /\ ruleRows \subseteq Screens /\ semGen \in Nat
  /\ by \in [index : Nat, built : 0..semGen]
  /\ \A b \in builds : BuildOK(b)
  /\ \A a, b \in builds : a.gen = b.gen => a = b
  /\ by.index = by.built => built = UnknownSig \/ built \subseteq index

\* A verdict of the judge's generation of now was asked for under the configuration of now.
CacheOK ==
  /\ judgeGen \in Nat
  /\ \A c \in cache : c.regime = regime
  /\ \A r \in runs : r = [token |-> r.token, raw |-> r.raw, gen |-> r.gen, key |-> r.key,
                          regime |-> r.regime, verdict |-> r.verdict]
  /\ \A r \in runs \cup ({taken} \ {NoOutcome}) :
       r.gen \in 0..judgeGen /\ (r.gen = judgeGen => r.regime = regime)

\* The runs that are over are numbered without a gap, and the one that is not comes next.
Over == ended.dropped \cup ended.resumed
RunTokensAre(n) ==
  /\ ended \in [dropped : SUBSET (1..n), resumed : SUBSET (1..n)] /\ Over = 1..n
  /\ ended.dropped \cap ended.resumed = {}
  /\ matchFlight # NoFlight => matchFlight.token = n + 1 /\ taken = NoOutcome
  /\ taken # NoOutcome => taken.token = n + 1
RunTokens ==
  /\ \A r \in runs : r.token \in Nat \ {0}
  /\ matchFlight = NoFlight \/ matchFlight.token # 0
  /\ \E n \in Nat : RunTokensAre(n)

MatchInv == IndexOK /\ CacheOK /\ RunTokens

indexSide == <<shownScreen, ruleRows, index, built, semGen, builds, by>>
cacheSide == <<judgeGen, cache, regime, runs, taken>>
tokenSide == <<ended, matchFlight, taken, runs>>

LEMMA IndexStays == ASSUME IndexOK, UNCHANGED indexSide PROVE IndexOK'
  BY DEF IndexOK, BuildOK, indexSide

LEMMA CacheStays == ASSUME CacheOK, UNCHANGED cacheSide PROVE CacheOK'
  BY DEF CacheOK, cacheSide

LEMMA RunTokensStay == ASSUME RunTokens, UNCHANGED tokenSide PROVE RunTokens'
  BY DEF RunTokens, RunTokensAre, Over, tokenSide

\* The index.

\* A build goes a step on.
LEMMA BuildMoves ==
  ASSUME IndexOK, NEW b \in builds, NEW c, c.gen = b.gen,
         builds' = builds \ {b} \/ builds' = (builds \ {b}) \cup {c},
         UNCHANGED <<shownScreen, ruleRows, index, built, semGen, by>>,
         c.at = "fp" => c.fp \subseteq ruleRows,
         c.at \in {"listed", "building"} => c.fp = UnknownSig \/ c.fp \subseteq c.has,
         c.at = "done" /\ by.index = c.gen => c.fp = UnknownSig \/ c.fp \subseteq index
  PROVE  IndexOK'
<1>1. \A a \in builds' : a \in builds \/ a = c
  OBVIOUS
<1>2. \A a \in builds' : a \in builds /\ a.gen = b.gen => a = b /\ b \notin builds \ {b}
  BY DEF IndexOK
<1>3. \A a \in builds' : BuildOK(a)'
  BY <1>1 DEF IndexOK, BuildOK
<1>4. \A x, y \in builds' : x.gen = y.gen => x = y
  BY DEF IndexOK
<1> QED
  BY <1>3, <1>4 DEF IndexOK

LEMMA BuildStepKeeps == ASSUME IndexOK, BuildStep PROVE IndexOK'
<1>1. PICK b \in builds : \/ BuildReadsFingerprint(b) \/ Reconcile(b) \/ RebuildStarts(b)
                          \/ RebuildPublished(b) \/ PublishKnowledge(b)
  BY DEF BuildStep
<1>2. UNCHANGED shownScreen
  BY DEF BuildStep
<1>3. CASE BuildReadsFingerprint(b)
  <2> DEFINE c == [gen |-> b.gen, at |-> "fp", fp |-> ruleRows]
  <2>1. c.gen = b.gen /\ c.at = "fp" /\ c.fp = ruleRows
    OBVIOUS
  <2>2. builds' = (builds \ {b}) \cup {c} /\ UNCHANGED <<ruleRows, index, built, semGen, by>>
    BY <1>3 DEF BuildReadsFingerprint
  <2> HIDE DEF c
  <2> QED
    BY <1>2, <2>1, <2>2, BuildMoves
<1>4. CASE Reconcile(b)
  <2>1. PICK claim \in {UnknownSig, b.fp} :
          builds' = (builds \ {b}) \cup
            (IF semGen # b.gen THEN {} ELSE {[gen |-> b.gen, at |-> "listed", fp |-> claim, has |-> ruleRows]})
    BY <1>4 DEF Reconcile
  <2> DEFINE c == [gen |-> b.gen, at |-> "listed", fp |-> claim, has |-> ruleRows]
  <2>2. c.gen = b.gen /\ c.at = "listed" /\ c.fp = claim /\ c.has = ruleRows
    OBVIOUS
  <2>3. builds' = builds \ {b} \/ builds' = (builds \ {b}) \cup {c}
    BY <2>1
  <2>4. UNCHANGED <<ruleRows, index, built, semGen, by>> /\ b.at = "fp"
    BY <1>4 DEF Reconcile
  <2> HIDE DEF c
  <2>5. c.fp = UnknownSig \/ c.fp \subseteq c.has
    BY <2>2, <2>4 DEF IndexOK, BuildOK
  <2> QED
    BY <1>2, <2>2, <2>3, <2>4, <2>5, BuildMoves
<1>5. CASE RebuildStarts(b)
  <2> DEFINE c == [gen |-> b.gen, at |-> "building", fp |-> b.fp, has |-> b.has, mgen |-> matcherGen + 1]
  <2>1. c.gen = b.gen /\ c.at = "building" /\ c.fp = b.fp /\ c.has = b.has
    OBVIOUS
  <2>2. builds' = (builds \ {b}) \cup {c} /\ UNCHANGED <<ruleRows, index, built, semGen, by>> /\ b.at = "listed"
    BY <1>5 DEF RebuildStarts
  <2> HIDE DEF c
  <2>3. c.fp = UnknownSig \/ c.fp \subseteq c.has
    BY <2>1, <2>2 DEF IndexOK, BuildOK
  <2> QED
    BY <1>2, <2>1, <2>2, <2>3, BuildMoves
<1>6. CASE RebuildPublished(b)
  <2>1. CASE matcherGen # b.mgen
    <3> DEFINE c == [gen |-> b.gen, at |-> "done", fp |-> UnknownSig]
    <3>1. c.gen = b.gen /\ c.at = "done" /\ c.fp = UnknownSig
      OBVIOUS
    <3>2. builds' = (builds \ {b}) \cup {c} /\ UNCHANGED <<ruleRows, index, built, semGen, by>>
      BY <1>6, <2>1 DEF RebuildPublished
    <3> HIDE DEF c
    <3> QED
      BY <1>2, <3>1, <3>2, BuildMoves
  <2>2. CASE matcherGen = b.mgen
    <3> DEFINE c == [gen |-> b.gen, at |-> "done", fp |-> b.fp]
    <3>1. c.gen = b.gen /\ c.at = "done" /\ c.fp = b.fp
      OBVIOUS
    <3>2. /\ builds' = (builds \ {b}) \cup {c} /\ UNCHANGED <<ruleRows, built, semGen>>
          /\ index' = b.has /\ by' = [by EXCEPT !.index = b.gen] /\ b.at = "building"
      BY <1>6, <2>2 DEF RebuildPublished
    <3> HIDE DEF c
    <3>3. BuildOK(b) /\ b.gen \in Nat
      BY DEF IndexOK, BuildOK
    <3>4. /\ by' \in [index : Nat, built : 0..semGen] /\ by'.index = b.gen /\ by'.built = by.built
      BY <3>2, <3>3 DEF IndexOK
    <3>5. c.fp = UnknownSig \/ c.fp \subseteq index'
      BY <3>1, <3>2, <3>3 DEF BuildOK
    <3>6. \A a \in builds' : a = c \/ (a \in builds /\ a.gen # b.gen)
      BY <3>2 DEF IndexOK
    <3>7. \A a \in builds' : BuildOK(a)'
      BY <3>1, <3>2, <3>3, <3>4, <3>5, <3>6 DEF IndexOK, BuildOK
    <3>8. \A x, y \in builds' : x.gen = y.gen => x = y
      BY <3>1, <3>6 DEF IndexOK
    <3>9. by'.index # by'.built
      BY <3>3, <3>4 DEF BuildOK
    <3> QED
      BY <1>2, <3>2, <3>4, <3>7, <3>8, <3>9 DEF IndexOK
  <2> QED
    BY <2>1, <2>2
<1>7. CASE PublishKnowledge(b)
  <2>1. builds' = builds \ {b} /\ UNCHANGED <<ruleRows, index, semGen>> /\ b.at = "done"
    BY <1>7 DEF PublishKnowledge
  <2>2. CASE semGen # b.gen
    <3>1. UNCHANGED <<built, by>>
      BY <1>7, <2>2 DEF PublishKnowledge
    <3> QED
      BY <1>2, <2>1, <3>1 DEF IndexOK, BuildOK
  <2>3. CASE semGen = b.gen
    <3>1. built' = b.fp /\ by' = [by EXCEPT !.built = b.gen]
      BY <1>7, <2>3 DEF PublishKnowledge
    <3>2. BuildOK(b)
      BY DEF IndexOK
    <3>3. b.gen \in 0..semGen
      BY <3>2 DEF BuildOK, IndexOK
    <3>4. by' \in [index : Nat, built : 0..semGen] /\ by'.index = by.index /\ by'.built = b.gen
      BY <3>1, <3>3 DEF IndexOK
    <3>5. \A a \in builds' : a \in builds /\ a.gen # b.gen
      BY <2>1 DEF IndexOK
    <3>6. \A a \in builds' : BuildOK(a)'
      BY <2>1, <3>4, <3>5 DEF IndexOK, BuildOK
    <3>7. by'.index = by'.built => built' = UnknownSig \/ built' \subseteq index'
      BY <2>1, <3>1, <3>2, <3>4 DEF BuildOK
    <3> QED
      BY <1>2, <2>1, <3>4, <3>5, <3>6, <3>7 DEF IndexOK
  <2> QED
    BY <2>2, <2>3
<1> QED
  BY <1>1, <1>3, <1>4, <1>5, <1>6, <1>7

\* A rule is minted, or pulled.
LEMMA RowsGrow ==
  ASSUME IndexOK, ruleRows \subseteq ruleRows', ruleRows' \subseteq Screens, index \subseteq index',
         UNCHANGED <<shownScreen, built, semGen, builds, by>>
  PROVE  IndexOK'
<1>1. \A b \in builds : BuildOK(b)'
  BY DEF IndexOK, BuildOK
<1> QED
  BY <1>1 DEF IndexOK

\* Another build is asked for.
LEMMA BuildAsked ==
  ASSUME IndexOK, semGen' = semGen + 1, builds' = StartsBuild(builds, semGen + 1),
         built' \in {built, UnknownSig}, UNCHANGED <<shownScreen, ruleRows, index, by>>
  PROVE  IndexOK'
<1>1. PICK c : c = [gen |-> semGen + 1, at |-> "new"]
  OBVIOUS
<1>2. c.gen = semGen + 1 /\ c.at = "new" /\ builds' = builds \cup {c}
  BY <1>1 DEF StartsBuild
<1>3. semGen \in Nat /\ by \in [index : Nat, built : 0..semGen]
  BY DEF IndexOK
<1>4. \A b \in builds : b.gen \in 1..semGen
  BY DEF IndexOK, BuildOK
<1>5. \A b \in builds : BuildOK(b)'
  BY <1>3, <1>4 DEF IndexOK, BuildOK
<1>6. c.gen \in 1..semGen' /\ c.gen # by'.built
  BY <1>2, <1>3
<1>7. BuildOK(c)'
  BY <1>2, <1>6 DEF BuildOK
<1>8. \A x, y \in builds' : x.gen = y.gen => x = y
  BY <1>2, <1>3, <1>4 DEF IndexOK
<1>9. by' \in [index : Nat, built : 0..semGen'] /\ semGen' \in Nat
  BY <1>3
<1>10. by'.index = by'.built => built' = UnknownSig \/ built' \subseteq index'
  BY DEF IndexOK
<1>11. \A b \in builds' : BuildOK(b)'
  BY <1>2, <1>5, <1>7
<1> QED
  BY <1>8, <1>9, <1>10, <1>11 DEF IndexOK

LEMMA MintGrows ==
  ASSUME IndexOK, NEW raw \in Screens, Mint(raw) \/ KeepIndex
  PROVE  ruleRows \subseteq ruleRows' /\ ruleRows' \subseteq Screens /\ index \subseteq index'
  BY DEF Mint, KeepIndex, IndexOK

\* The judge.

LEMMA StartRerankKeeps == ASSUME MatchInv, StartRerank, taken = NoOutcome, UNCHANGED <<taken, judgeGen, regime>>
                          PROVE  CacheOK' /\ RunTokens'
<1>1. CASE UNCHANGED <<cache, matchFlight, runs, ended>>
  BY <1>1, CacheStays, RunTokensStay DEF MatchInv, cacheSide, tokenSide
<1>2. CASE ~UNCHANGED <<cache, matchFlight, runs, ended>>
  <2>1. PICK n \in Nat : RunTokensAre(n)
    BY DEF MatchInv, RunTokens
  <2>2. Cardinality(ended.dropped \cup ended.resumed) = n
    <3>1. Cardinality(1..n) = n
      BY FS_Interval
    <3> QED
      BY <2>1, <3>1 DEF RunTokensAre, Over
  <2>3. PICK token \in Nat : token = 1 + n + IF matchFlight = NoFlight THEN 0 ELSE 1
    OBVIOUS
  <2> DEFINE flight == [token |-> token, raw |-> shownScreen, gen |-> judgeGen]
             run == [token |-> token, raw |-> shownScreen, gen |-> judgeGen, key |-> Key(shownScreen),
                     regime |-> regime, verdict |-> "none"]
  <2>4. /\ matchFlight' = flight /\ runs' = runs \cup {run} /\ UNCHANGED cache
        /\ ended' = IF matchFlight = NoFlight THEN ended
                    ELSE [ended EXCEPT !.dropped = @ \cup {matchFlight.token}]
    BY <1>2, <2>2, <2>3 DEF StartRerank
  <2>5. /\ run = [token |-> run.token, raw |-> run.raw, gen |-> run.gen, key |-> run.key,
                  regime |-> run.regime, verdict |-> run.verdict]
        /\ run.gen = judgeGen /\ run.regime = regime /\ run.token = token /\ flight.token = token
    OBVIOUS
  <2> HIDE DEF run, flight
  <2>6. CacheOK'
    <3>1. judgeGen \in Nat
      BY DEF MatchInv, CacheOK
    <3>2. judgeGen \in 0..judgeGen
      BY <3>1
    <3> QED
      BY <2>4, <2>5, <3>1, <3>2 DEF MatchInv, CacheOK
  <2>7. token \in Nat \ {0}
    BY <2>3
  <2>8. RunTokens'
    <3>1. \A r \in runs' : r.token \in Nat \ {0}
      BY <2>4, <2>5, <2>7 DEF MatchInv, RunTokens
    <3>2. CASE matchFlight = NoFlight
      <4>1. token = n + 1 /\ ended' = ended
        BY <2>3, <2>4, <3>2
      <4>2. RunTokensAre(n)'
        BY <2>1, <2>4, <2>5, <4>1 DEF RunTokensAre, Over
      <4> QED
        BY <2>4, <2>5, <2>7, <3>1, <4>2 DEF RunTokens
    <3>3. CASE matchFlight # NoFlight
      <4>1. token = (n + 1) + 1 /\ matchFlight.token = n + 1
        BY <2>1, <2>3, <3>3 DEF RunTokensAre
      <4>2. 1..n \cup {n + 1} = 1..(n + 1) /\ n + 1 \notin 1..n
        OBVIOUS
      <4>3. ended' = [ended EXCEPT !.dropped = ended.dropped \cup {n + 1}]
        BY <2>4, <3>3, <4>1
      <4>4. /\ ended' \in [dropped : SUBSET (1..(n + 1)), resumed : SUBSET (1..(n + 1))]
            /\ ended'.dropped = ended.dropped \cup {n + 1} /\ ended'.resumed = ended.resumed
        BY <2>1, <4>2, <4>3 DEF RunTokensAre
      <4>5. RunTokensAre(n + 1)'
        BY <2>1, <2>4, <2>5, <4>1, <4>2, <4>4 DEF RunTokensAre, Over
      <4> QED
        BY <2>4, <2>5, <2>7, <3>1, <4>5 DEF RunTokens
    <3> QED
      BY <3>2, <3>3
  <2> QED
    BY <2>6, <2>8
<1> QED
  BY <1>1, <1>2

LEMMA DecideKeeps == ASSUME MatchInv, DecideAndAct PROVE MatchInv'
<1>1. /\ UNCHANGED <<shownScreen, built, semGen, builds, by, regime, judgeGen, taken>>
      /\ taken = NoOutcome /\ shownScreen \in Screens
  BY DEF DecideAndAct, MatchInv, IndexOK
<1>2. Mint(shownScreen) \/ KeepIndex
  BY DEF DecideAndAct, ResolvesExactly, ResolvesByText, ResolvesAsNew, ResolvesFromCache, ResolvesUnjudged,
     StartRerank, FinishRerank
<1>3. IndexOK'
  BY <1>1, <1>2, MintGrows, RowsGrow DEF MatchInv
<1>4. KeepJudge \/ StartRerank
  BY DEF DecideAndAct, ResolvesExactly, ResolvesByText, ResolvesAsNew, ResolvesFromCache, ResolvesUnjudged
<1>5. CacheOK' /\ RunTokens'
  BY <1>1, <1>4, StartRerankKeeps, CacheStays, RunTokensStay DEF MatchInv, KeepJudge, cacheSide, tokenSide
<1> QED
  BY <1>3, <1>5 DEF MatchInv

LEMMA JudgeAnswersKeeps == ASSUME MatchInv, JudgeAnswers PROVE MatchInv'
<1>1. PICK r \in runs, v \in JudgeVerdicts : runs' = (runs \ {r}) \cup {[r EXCEPT !.verdict = v]}
  BY DEF JudgeAnswers
<1> DEFINE q == [r EXCEPT !.verdict = v]
<1>2. /\ q = [token |-> r.token, raw |-> r.raw, gen |-> r.gen, key |-> r.key,
              regime |-> r.regime, verdict |-> v]
  BY DEF MatchInv, CacheOK
<1>3. /\ q = [token |-> q.token, raw |-> q.raw, gen |-> q.gen, key |-> q.key,
              regime |-> q.regime, verdict |-> q.verdict]
      /\ q.token = r.token /\ q.gen = r.gen /\ q.regime = r.regime
  BY <1>2
<1> HIDE DEF q
<1>4. runs' \subseteq runs \cup {q}
  BY <1>1 DEF q
<1>5. /\ UNCHANGED <<shownScreen, judgeGen, regime, cache, taken, ended, matchFlight>>
      /\ UNCHANGED indexSide
  BY DEF JudgeAnswers, indexVars, indexSide
<1>6. CacheOK'
  BY <1>3, <1>4, <1>5 DEF MatchInv, CacheOK
<1>7. RunTokens'
  BY <1>3, <1>4, <1>5 DEF MatchInv, RunTokens, RunTokensAre, Over
<1> QED
  BY <1>5, <1>6, <1>7, IndexStays DEF MatchInv

LEMMA TakeJudgementKeeps == ASSUME MatchInv, TakeJudgement PROVE MatchInv'
<1>1. PICK r \in runs :
        /\ runs' = runs \ {r}
        /\ IF OwnsFlight(r) THEN taken' = r /\ matchFlight' = NoFlight ELSE UNCHANGED <<taken, matchFlight>>
  BY DEF TakeJudgement
<1>2. UNCHANGED <<judgeGen, regime, cache, ended>> /\ UNCHANGED indexSide /\ taken = NoOutcome
  BY DEF TakeJudgement, indexVars, indexSide
<1>3. CacheOK'
  BY <1>1, <1>2 DEF MatchInv, CacheOK
<1>4. RunTokens'
  <2>1. PICK n \in Nat : RunTokensAre(n)
    BY DEF MatchInv, RunTokens
  <2>2. r.token \in Nat \ {0}
    BY DEF MatchInv, RunTokens
  <2>3. CASE OwnsFlight(r)
    <3>1. matchFlight # NoFlight
      BY <2>2, <2>3 DEF OwnsFlight, NoFlight
    <3>2. taken' = r /\ matchFlight' = NoFlight /\ r.token = n + 1
      BY <1>1, <2>1, <2>3, <3>1 DEF OwnsFlight, RunTokensAre
    <3>3. RunTokensAre(n)'
      BY <1>2, <2>1, <3>2 DEF RunTokensAre, Over
    <3> QED
      BY <1>1, <3>2, <3>3 DEF MatchInv, RunTokens
  <2>4. CASE ~OwnsFlight(r)
    BY <1>1, <1>2, <2>1, <2>4 DEF MatchInv, RunTokens, RunTokensAre, Over
  <2> QED
    BY <2>3, <2>4
<1> QED
  BY <1>2, <1>3, <1>4, IndexStays DEF MatchInv

\* One more run is over: it was dropped, or it resumed its decision.
LEMMA OneMoreOver ==
  ASSUME RunTokens, NEW t,
         \/ matchFlight # NoFlight /\ t = matchFlight.token
         \/ taken # NoOutcome /\ t = taken.token,
         matchFlight' = NoFlight, taken' = NoOutcome, UNCHANGED runs,
         \/ ended' = [ended EXCEPT !.dropped = @ \cup {t}]
         \/ ended' = [ended EXCEPT !.resumed = @ \cup {t}]
  PROVE  RunTokens'
<1>1. PICK n \in Nat : RunTokensAre(n)
  BY DEF RunTokens
<1>2. t = n + 1
  BY <1>1 DEF RunTokensAre
<1>3. 1..n \cup {n + 1} = 1..(n + 1) /\ n + 1 \notin 1..n
  OBVIOUS
<1>4. /\ ended' \in [dropped : SUBSET (1..(n + 1)), resumed : SUBSET (1..(n + 1))]
      /\ \/ ended'.dropped = ended.dropped \cup {n + 1} /\ ended'.resumed = ended.resumed
         \/ ended'.resumed = ended.resumed \cup {n + 1} /\ ended'.dropped = ended.dropped
  BY <1>1, <1>2, <1>3 DEF RunTokensAre
<1>5. RunTokensAre(n + 1)'
  BY <1>1, <1>3, <1>4 DEF RunTokensAre, Over
<1> QED
  BY <1>5 DEF RunTokens

LEMMA CancelRerankKeeps == ASSUME MatchInv, CancelRerank PROVE MatchInv'
<1>1. /\ UNCHANGED <<judgeGen, regime, cache, runs, taken>> /\ UNCHANGED indexSide
      /\ taken = NoOutcome /\ matchFlight' = NoFlight
      /\ ended' = IF matchFlight = NoFlight THEN ended ELSE [ended EXCEPT !.dropped = @ \cup {matchFlight.token}]
  BY DEF CancelRerank, indexVars, indexSide
<1>2. RunTokens'
  BY <1>1, OneMoreOver, RunTokensStay DEF MatchInv, tokenSide
<1> QED
  BY <1>1, <1>2, IndexStays, CacheStays DEF MatchInv, cacheSide

LEMMA FinishOutcomeKeeps == ASSUME MatchInv, FinishOutcome PROVE MatchInv'
<1>1. /\ taken # NoOutcome /\ taken' = NoOutcome
      /\ UNCHANGED <<shownScreen, built, semGen, builds, by, regime, judgeGen, matchFlight, runs>>
      /\ \/ ended' = [ended EXCEPT !.dropped = @ \cup {taken.token}]
         \/ ended' = [ended EXCEPT !.resumed = @ \cup {taken.token}]
      /\ shownScreen \in Screens
  BY DEF FinishOutcome, MatchInv, IndexOK
<1>2. Mint(shownScreen) \/ KeepIndex
  BY DEF FinishOutcome, FinishRerank
<1>3. IndexOK'
  BY <1>1, <1>2, MintGrows, RowsGrow DEF MatchInv
<1>4. \A c \in cache' : c.regime = regime
  <2>1. CASE UNCHANGED cache
    BY <2>1 DEF MatchInv, CacheOK
  <2>2. CASE /\ taken.gen = judgeGen
             /\ cache' = {c \in cache : c.key # taken.key} \cup
                           {[key |-> taken.key, verdict |-> taken.verdict, regime |-> taken.regime]}
    <3>1. taken.regime = regime
      BY <1>1, <2>2 DEF MatchInv, CacheOK
    <3> QED
      BY <2>2, <3>1 DEF MatchInv, CacheOK
  <2> QED
    BY <2>1, <2>2 DEF FinishOutcome
<1>5. CacheOK'
  BY <1>1, <1>4 DEF MatchInv, CacheOK
<1>6. matchFlight = NoFlight
  BY <1>1 DEF MatchInv, RunTokens, RunTokensAre
<1>7. RunTokens'
  BY <1>1, <1>6, OneMoreOver DEF MatchInv
<1> QED
  BY <1>3, <1>5, <1>7 DEF MatchInv

LEMMA KnowledgeKeeps == ASSUME MatchInv, PullLands \/ RefreshKnowledge \/ Reload \/ ScreenMoves PROVE MatchInv'
<1>1. RunTokens'
  BY RunTokensStay DEF MatchInv, PullLands, RefreshKnowledge, Reload, ScreenMoves, judgeVars, tokenSide
<1>2. CASE PullLands
  <2>1. UNCHANGED <<shownScreen, index, built, semGen, builds, by>> /\ ruleRows \subseteq ruleRows' /\ ruleRows' \subseteq Screens
    BY <1>2 DEF PullLands, MatchInv, IndexOK
  <2>2. UNCHANGED cacheSide
    BY <1>2 DEF PullLands, judgeVars, cacheSide
  <2> QED
    BY <1>1, <2>1, <2>2, RowsGrow, CacheStays DEF MatchInv
<1>3. CASE RefreshKnowledge
  <2>1. IndexOK'
    BY <1>3, BuildAsked, IndexStays DEF RefreshKnowledge, MatchInv, indexSide
  <2>2. CacheOK'
    <3>1. /\ UNCHANGED <<regime, runs, taken>> /\ cache' \subseteq cache
          /\ judgeGen' \in {judgeGen, judgeGen + 1}
      BY <1>3 DEF RefreshKnowledge
    <3> QED
      BY <3>1 DEF MatchInv, CacheOK
  <2> QED
    BY <1>1, <2>1, <2>2 DEF MatchInv
<1>4. CASE Reload
  <2>1. IndexOK'
    BY <1>4, BuildAsked DEF Reload, MatchInv
  <2>2. CacheOK'
    <3>1. UNCHANGED <<runs, taken>> /\ cache' = {} /\ judgeGen' = judgeGen + 1
      BY <1>4 DEF Reload, InvalidateRerank
    <3> QED
      BY <3>1 DEF MatchInv, CacheOK
  <2> QED
    BY <1>1, <2>1, <2>2 DEF MatchInv
<1>5. CASE ScreenMoves
  <2>1. UNCHANGED <<ruleRows, index, built, semGen, builds, by>> /\ shownScreen' \in Screens
    BY <1>5 DEF ScreenMoves, indexVars
  <2>2. UNCHANGED cacheSide
    BY <1>5 DEF ScreenMoves, judgeVars, cacheSide
  <2>3. IndexOK'
    BY <2>1 DEF MatchInv, IndexOK, BuildOK
  <2> QED
    BY <1>1, <2>2, <2>3, CacheStays DEF MatchInv
<1> QED
  BY <1>2, <1>3, <1>4, <1>5

\* A cached verdict was asked for under the configuration of now, a run that was given up
\* resumes nothing, and a published index holds the rows its own build claims
\* (daemon/semantic.go, daemon/rerank.go).
THEOREM MatchingAlwaysCurrent == ScreensAssumed => (SpecMatching => []MatchingIsCurrent)
<1> SUFFICES ASSUME ScreensAssumed PROVE SpecMatching => []MatchingIsCurrent
  OBVIOUS
<1>1. InitMatching => MatchInv
  <2> SUFFICES ASSUME InitMatching PROVE MatchInv
    OBVIOUS
  <2>1. IndexOK
    <3> DEFINE b == [gen |-> 1, at |-> "new"]
    <3>1. b.gen = 1 /\ b.at = "new"
      OBVIOUS
    <3>2. /\ builds = {b} /\ by = [index |-> 0, built |-> 0] /\ semGen = 1 /\ shownScreen \in Screens
          /\ ruleRows \subseteq Screens /\ built = UnknownSig
      BY DEF InitMatching
    <3> HIDE DEF b
    <3> QED
      BY <3>1, <3>2 DEF IndexOK, BuildOK
  <2>2. CacheOK
    BY DEF InitMatching, CacheOK
  <2>3. RunTokens
    <3>1. 1..0 = {}
      OBVIOUS
    <3>2. RunTokensAre(0)
      BY <3>1 DEF InitMatching, RunTokensAre, Over
    <3> QED
      BY <3>2 DEF InitMatching, RunTokens
  <2> QED
    BY <2>1, <2>2, <2>3 DEF MatchInv
<1>2. MatchInv /\ [NextMatching]_matchVars => MatchInv'
  <2> SUFFICES ASSUME MatchInv, [NextMatching]_matchVars PROVE MatchInv'
    OBVIOUS
  <2>1. CASE BuildStep
    <3>1. UNCHANGED cacheSide /\ UNCHANGED tokenSide
      BY <2>1 DEF BuildStep, cacheSide, tokenSide
    <3> QED
      BY <2>1, <3>1, BuildStepKeeps, CacheStays, RunTokensStay DEF MatchInv
  <2>2. CASE UNCHANGED matchVars
    <3>1. UNCHANGED cacheSide /\ UNCHANGED tokenSide /\ UNCHANGED indexSide
      BY <2>2 DEF matchVars, cacheSide, tokenSide, indexSide
    <3> QED
      BY <3>1, IndexStays, CacheStays, RunTokensStay DEF MatchInv
  <2> QED
    BY <2>1, <2>2, DecideKeeps, JudgeAnswersKeeps, TakeJudgementKeeps, FinishOutcomeKeeps, CancelRerankKeeps,
       KnowledgeKeeps DEF NextMatching
<1>3. MatchInv => MatchingIsCurrent
  <2> SUFFICES ASSUME MatchInv PROVE MatchingIsCurrent
    OBVIOUS
  <2>1. CacheIsOfThisRegime
    BY DEF MatchInv, CacheOK, CacheIsOfThisRegime
  <2>2. GivenUpStaysSilent
    BY DEF MatchInv, RunTokens, RunTokensAre, GivenUpStaysSilent
  <2>3. OwnClaimIsIndexed
    BY DEF MatchInv, IndexOK, OwnClaimIsIndexed, ScreensAssumed, UnknownSig
  <2> QED
    BY <2>1, <2>2, <2>3 DEF MatchingIsCurrent
<1> QED
  BY <1>1, <1>2, <1>3, PTL DEF SpecMatching

-----------------------------------------------------------------------------
(* The configuration file *)

\* A set of naturals has a least one: inclusion of finite sets is well founded.
LEMMA LeastNatural ==
  ASSUME NEW T \in SUBSET Nat, T # {}
  PROVE  \E m \in T : \A n \in T : m <= n
<1> DEFINE R == StrictSubsetOrdering(Nat)
           F == FiniteSubsetsOf(Nat)
           P == {1..t : t \in T}
<1>1. IsWellFoundedOn(R, F)
  BY FS_StrictSubsetOrderingWellFounded
<1>2. P \subseteq F /\ P # {}
  <2>1. ASSUME NEW t \in T PROVE 1..t \in F
    <3>1. t \in Int /\ 1 \in Int /\ 1..t \subseteq Nat
      OBVIOUS
    <3>2. IsFiniteSet(1..t)
      BY <3>1, FS_Interval
    <3> QED BY <3>1, <3>2 DEF FiniteSubsetsOf
  <2>2. P # {}
    OBVIOUS
  <2> QED BY <2>1, <2>2
<1>3. PICK x \in P : \A y \in P : ~(<<y, x>> \in R)
  <2> HIDE DEF R, F, P
  <2> QED BY <1>1, <1>2, WFMin
<1>4. PICK m \in T : x = 1..m
  OBVIOUS
<1>5. ASSUME NEW n \in T, ~(m <= n) PROVE FALSE
  <2>1. 1..n \in P /\ 1..n \subseteq 1..m /\ 1..n # 1..m
    <3>1. m \in 1..m /\ m \notin 1..n
      BY <1>5
    <3> QED BY <3>1, <1>5
  <2>2. <<1..n, x>> \in R
    BY <2>1, <1>4 DEF StrictSubsetOrdering
  <2> QED BY <2>1, <2>2, <1>3
<1> QED BY <1>5

\* Induction, about a set instead of a predicate.
LEMMA SetInduction ==
  ASSUME NEW S, 0 \in S, \A n \in Nat : n \in S => n + 1 \in S
  PROVE  Nat \subseteq S
<1> DEFINE T == Nat \ S
<1>1. SUFFICES ASSUME T # {} PROVE FALSE
  OBVIOUS
<1>2. PICK m \in T : \A n \in T : m <= n
  <2> HIDE DEF T
  <2>1. T \in SUBSET Nat BY DEF T
  <2> QED BY <1>1, <2>1, LeastNatural
<1>3. m # 0 /\ m - 1 \in Nat /\ m - 1 \notin T
  BY <1>2
<1> QED BY <1>3

\* The recursion of Lacking, one step and as a whole.
NextKept(list, out, i, s) == IF i \in out THEN s ELSE Append(s, list[i])
KeptUpTo(g, n, list, out) == g = [i \in 0..n |-> IF i = 0 THEN <<>> ELSE NextKept(list, out, i, g[i - 1])]

\* The recursion has a solution, so the function Lacking chooses is one.
LEMMA KeptExists ==
  ASSUME NEW list, NEW out, NEW n \in Nat
  PROVE  \E g : KeptUpTo(g, n, list, out)
<1> DEFINE S == {m \in Nat : \E g : KeptUpTo(g, m, list, out)}
<1>1. 0 \in S
  <2>1. KeptUpTo([i \in 0..0 |-> <<>>], 0, list, out)
    BY DEF KeptUpTo
  <2> QED BY <2>1
<1>2. ASSUME NEW m \in Nat, m \in S PROVE m + 1 \in S
  <2>1. PICK g : KeptUpTo(g, m, list, out)
    BY <1>2
  <2> DEFINE h == [i \in 0..(m + 1) |-> IF i = m + 1 THEN NextKept(list, out, i, g[m]) ELSE g[i]]
  <2>2. KeptUpTo(h, m + 1, list, out)
    <3>1. \A i \in 0..m : g[i] = IF i = 0 THEN <<>> ELSE NextKept(list, out, i, g[i - 1])
      BY <2>1 DEF KeptUpTo
    <3>2. \A i \in 0..(m + 1) : h[i] = IF i = 0 THEN <<>> ELSE NextKept(list, out, i, h[i - 1])
      BY <3>1
    <3> HIDE DEF NextKept
    <3> QED BY <3>2 DEF KeptUpTo
  <2> QED BY <2>2
<1>3. Nat \subseteq S
  <2> HIDE DEF S
  <2> QED BY <1>1, <1>2, SetInduction
<1> QED BY <1>3

\* What Lacking computes (the loops of config.Load and RemoveCaptureDelay).
LEMMA LackingIs ==
  ASSUME NEW list, NEW out, Len(list) \in Nat
  PROVE  \E g : KeptUpTo(g, Len(list), list, out) /\ Lacking(list, out) = g[Len(list)]
<1> DEFINE kept == CHOOSE g : KeptUpTo(g, Len(list), list, out)
<1>1. KeptUpTo(kept, Len(list), list, out)
  BY KeptExists
<1>2. Lacking(list, out) = kept[Len(list)]
  BY DEF Lacking, KeptUpTo, NextKept
<1> QED BY <1>1, <1>2

\* A recursion over a list keeps the type of the list.
LEMMA LackingType ==
  ASSUME NEW S, NEW list \in Seq(S), NEW out
  PROVE  Lacking(list, out) \in Seq(S)
<1> DEFINE n == Len(list)
<1>1. n \in Nat /\ \A i \in 1..n : list[i] \in S
  OBVIOUS
<1>2. PICK g : KeptUpTo(g, n, list, out) /\ Lacking(list, out) = g[n]
  BY <1>1, LackingIs
<1> DEFINE T == {i \in Nat : i <= n => g[i] \in Seq(S)}
<1> HIDE DEF n
<1>3. 0 \in T
  BY <1>1, <1>2 DEF KeptUpTo
<1>4. ASSUME NEW i \in Nat, i \in T PROVE i + 1 \in T
  <2>1. SUFFICES ASSUME i + 1 <= n PROVE g[i + 1] \in Seq(S)
    OBVIOUS
  <2>2. g[i + 1] = NextKept(list, out, i + 1, g[i])
    BY <1>1, <1>2, <2>1 DEF KeptUpTo
  <2>3. g[i] \in Seq(S) /\ list[i + 1] \in S
    BY <1>1, <1>4, <2>1
  <2> QED BY <2>2, <2>3 DEF NextKept
<1>5. Nat \subseteq T
  <2> HIDE DEF T
  <2> QED BY <1>3, <1>4, SetInduction
<1> QED BY <1>1, <1>2, <1>5

LEMMA LackingOfNone ==
  ASSUME NEW out PROVE Lacking(<<>>, out) = <<>>
<1>1. Len(<<>>) = 0
  OBVIOUS
<1>2. PICK g : KeptUpTo(g, 0, <<>>, out) /\ Lacking(<<>>, out) = g[0]
  BY <1>1, LackingIs
<1> QED BY <1>2 DEF KeptUpTo

\* What is loaded is within its ranges: saved and loaded again, it is the same.
TheKeys(c) ==
  [threshold |-> c.threshold, seed |-> c.seed, rules |-> c.rules, accept |-> c.accept, provider |-> c.provider,
   command |-> c.command, fsp |-> c.fsp, delays |-> c.delays]
IsConfig(c) ==
  /\ c = TheKeys(c)
  /\ c.threshold \in Int /\ c.seed \in BOOLEAN /\ c.rules \in Seq(STRING) /\ c.fsp \in BOOLEAN /\ c.delays \in DelayRules
IsLoaded(c) ==
  IsConfig(c) /\ FillZeroes(c.threshold) = c.threshold /\ c.provider \notin {"", "sqlite"} /\ ValidAccept(c.accept)

\* An edit under way holds the lock, and was permitted on what its writer loaded.
EditJobOK(j) ==
  \/ j = NoConfigEdit
  \/ /\ j = [pc |-> j.pc, of |-> j.of, was |-> j.was, shown |-> j.shown]
     /\ j.pc \in {"save", "record", "tell"} /\ j.of \in Edits /\ IsLoaded(j.was) /\ IsLoaded(j.shown)
     /\ Permitted(j.of, j.was, j.shown)

EditsOK ==
  /\ edit = [w \in Editors |-> edit[w]]
  /\ \A w \in Editors : EditJobOK(edit[w]) /\ (edit[w].pc # "none" => configLock = w)

FilesOK == handEdits \in Nat /\ IsLoaded(seen) /\ (Loads(file) => IsLoaded(Load(file)))

\* The history follows the switch, and is one entry behind while a writer is about to record it.
SwitchOK ==
  handEdits = 0 =>
    /\ \A w \in Editors : edit[w].pc = "save" => edit[w].was.fsp = Load(file).fsp
    /\ \A w \in Editors : edit[w].pc = "record" =>
         toggles = edit[w].was.fsp /\ Load(file).fsp = Applied(edit[w].of, edit[w].was).fsp
    /\ (\A w \in Editors : edit[w].pc # "record") => toggles = Load(file).fsp

EditInv == EditsOK /\ FilesOK /\ SwitchOK

LEMMA StatedIsStated ==
  ASSUME NEW S, NEW key \in SUBSET S, NEW default \in S
  PROVE  Stated(key, default) \in S
BY DEF Stated

LEMMA FilledIsFilled ==
  ASSUME NEW v \in Int
  PROVE  FillZeroes(v) \in Int /\ FillZeroes(FillZeroes(v)) = FillZeroes(v)
<1>1. Default.threshold = 70
  BY DEF Default
<1>2. FillZeroes(v) = v \/ FillZeroes(v) = 70
  BY <1>1 DEF FillZeroes
<1>3. FillZeroes(70) = 70
  BY <1>1 DEF FillZeroes, NaN
<1>4. CASE FillZeroes(v) = v
  BY <1>4
<1>5. CASE FillZeroes(v) = 70
  BY <1>5, <1>3
<1> QED BY <1>2, <1>4, <1>5

LEMMA ProviderIsNamed ==
  ASSUME NEW stated
  PROVE  ProviderOf(stated) \notin {"", "sqlite"}
<1>1. "database" \notin {"", "sqlite"}
  OBVIOUS
<1> QED BY <1>1, Zenon DEF ProviderOf

LEMMA MergedType ==
  ASSUME NEW new \in Seq(STRING), NEW old \in Seq(STRING)
  PROVE  MergedRules(new, old) \in Seq(STRING)
<1> DEFINE twice == {i \in DOMAIN old : \/ \E j \in DOMAIN new : new[j] = old[i]
                                     \/ \E j \in 1..(i - 1) : old[j] = old[i]}
<1>1. Lacking(old, twice) \in Seq(STRING)
  BY LackingType
<1>2. MergedRules(new, old) = new \o Lacking(old, twice)
  BY DEF MergedRules
<1> QED
  <2> HIDE DEF twice
  <2> QED BY <1>1, <1>2

LEMMA MergedWithNone ==
  ASSUME NEW new \in Seq(STRING) PROVE MergedRules(new, <<>>) = new
<1> DEFINE old == <<>>
          twice == {i \in DOMAIN old : \/ \E j \in DOMAIN new : new[j] = old[i]
                                     \/ \E j \in 1..(i - 1) : old[j] = old[i]}
<1>1. Lacking(<<>>, twice) = <<>>
  BY LackingOfNone
<1>2. new \o <<>> = new
  BY ConcatEmptySeq
<1>3. MergedRules(new, old) = new \o Lacking(old, twice)
  BY DEF MergedRules
<1> QED
  <2> HIDE DEF twice
  <2> QED BY <1>1, <1>2, <1>3

\* Whatever loads is within its ranges.
LEMMA LoadedIsOK ==
  ASSUME NEW f, HandFileOK(f), Loads(f)
  PROVE  IsLoaded(Load(f))
<1>1. CASE f.kind = "none"
  <2>1. Load(f) = Default
    BY <1>1 DEF Load
  <2>2. <<>> \in Seq(STRING) /\ <<>> \in DelayRules
    BY DEF DelayRules
  <2>3. /\ Default = TheKeys(Default) /\ Default.threshold = 70 /\ Default.seed = FALSE /\ Default.rules = <<>>
        /\ Default.provider = "database" /\ Default.accept = "" /\ Default.fsp = FALSE /\ Default.delays = <<>>
    BY Zenon DEF Default, TheKeys
  <2>4. FillZeroes(70) = 70
    BY <2>3 DEF FillZeroes, NaN
  <2>5. ValidAccept("") /\ "database" \notin {"", "sqlite"}
    BY DEF ValidAccept
  <2>6. Default.threshold \in Int /\ Default.seed \in BOOLEAN /\ Default.fsp \in BOOLEAN
    <3>1. 70 \in Int /\ FALSE \in BOOLEAN
      OBVIOUS
    <3> QED BY <2>3, <3>1, Zenon
  <2>7. IsConfig(Default)
    BY <2>2, <2>3, <2>6, Zenon DEF IsConfig
  <2> QED BY <2>1, <2>3, <2>4, <2>5, <2>7, Zenon DEF IsLoaded
<1>2. CASE f.kind # "none"
  <2>1. f.kind = "text" /\ ValidAccept(f.accept)
    BY <1>2 DEF Loads
  <2> DEFINE c == [threshold |-> FillZeroes(Renamed(f.threshold, f.oldThreshold, 0)),
                   seed |-> Renamed(f.seed, f.oldSeed, FALSE),
                   rules |-> MergedRules(f.rules, f.oldRules),
                   accept |-> f.accept, provider |-> ProviderOf(f.provider),
                   command |-> f.command, fsp |-> f.fsp, delays |-> f.delays]
  <2>2. Load(f) = c
    BY <1>2 DEF Load
  <2>3. /\ f.threshold \in SUBSET Int /\ f.oldThreshold \in SUBSET Int
        /\ f.seed \in SUBSET BOOLEAN /\ f.oldSeed \in SUBSET BOOLEAN /\ f.fsp \in BOOLEAN
        /\ f.rules \in Seq(STRING) /\ f.oldRules \in Seq(STRING) /\ f.delays \in DelayRules
    BY <2>1 DEF HandFileOK
  <2>4. Renamed(f.threshold, f.oldThreshold, 0) \in Int
    <3>1. Stated(f.oldThreshold, 0) \in Int
      BY <2>3, StatedIsStated
    <3> QED BY <2>3, <3>1, StatedIsStated DEF Renamed
  <2>5. c.threshold \in Int /\ FillZeroes(c.threshold) = c.threshold
    BY <2>4, FilledIsFilled
  <2>6. c.seed \in BOOLEAN
    <3>1. Stated(f.oldSeed, FALSE) \in BOOLEAN
      BY <2>3, StatedIsStated
    <3>2. Stated(f.seed, Stated(f.oldSeed, FALSE)) \in BOOLEAN
      BY <2>3, <3>1, StatedIsStated
    <3> QED BY <3>2 DEF Renamed
  <2>7. c.rules \in Seq(STRING)
    BY <2>3, MergedType
  <2>8. c.provider \notin {"", "sqlite"}
    BY ProviderIsNamed
  <2>9. c = TheKeys(c)
    BY DEF TheKeys
  <2>10. ValidAccept(c.accept) /\ c.fsp \in BOOLEAN /\ c.delays \in DelayRules
    BY <2>1, <2>3
  <2> HIDE DEF c
  <2> QED BY <2>2, <2>5, <2>6, <2>7, <2>8, <2>9, <2>10 DEF IsLoaded, IsConfig
<1> QED BY <1>1, <1>2

ProviderSaved(p) == IF p = "" THEN {} ELSE {p}
Reloaded(c) ==
  [threshold |-> FillZeroes(c.threshold), seed |-> c.seed, rules |-> c.rules, accept |-> c.accept,
   provider |-> ProviderOf(ProviderSaved(c.provider)), command |-> c.command, fsp |-> c.fsp, delays |-> c.delays]

\* Load after Save.
LEMMA LoadAfterSave ==
  ASSUME NEW c, IsConfig(c), NEW f
  PROVE  /\ Loads(Save(c, f)) <=> ValidAccept(c.accept)
         /\ Load(Save(c, f)) = Reloaded(c)
         /\ ValidAccept(c.accept) => IsLoaded(Load(Save(c, f)))
<1> DEFINE s == Save(c, f)
<1>1. /\ s.kind = "text" /\ s.threshold = {c.threshold} /\ s.oldThreshold = {} /\ s.seed = {c.seed} /\ s.oldSeed = {}
      /\ s.rules = c.rules /\ s.oldRules = <<>> /\ s.accept = c.accept /\ s.provider = ProviderSaved(c.provider)
      /\ s.command = c.command /\ s.fsp = c.fsp /\ s.delays = c.delays
  BY DEF Save, ProviderSaved
<1>2. Loads(s) <=> ValidAccept(c.accept)
  BY <1>1 DEF Loads
<1>3. Renamed(s.threshold, s.oldThreshold, 0) = c.threshold /\ Renamed(s.seed, s.oldSeed, FALSE) = c.seed
  BY <1>1 DEF Renamed, Stated
<1>4. MergedRules(s.rules, s.oldRules) = c.rules
  BY <1>1, MergedWithNone DEF IsConfig
<1>5. Load(s) = Reloaded(c)
  <2>1. s.kind # "none"
    BY <1>1
  <2> HIDE DEF s
  <2> QED BY <1>1, <1>3, <1>4, <2>1 DEF Load, Reloaded
<1>6. FillZeroes(c.threshold) \in Int /\ FillZeroes(FillZeroes(c.threshold)) = FillZeroes(c.threshold)
  BY FilledIsFilled DEF IsConfig
<1>7. ProviderOf(ProviderSaved(c.provider)) \notin {"", "sqlite"}
  BY ProviderIsNamed
<1> HIDE DEF s
<1> DEFINE r == Reloaded(c)
<1>8. /\ r = TheKeys(r) /\ r.threshold = FillZeroes(c.threshold) /\ r.seed = c.seed /\ r.rules = c.rules /\ r.fsp = c.fsp
      /\ r.delays = c.delays /\ r.provider = ProviderOf(ProviderSaved(c.provider)) /\ r.accept = c.accept
  BY DEF Reloaded, TheKeys
<1>9. ValidAccept(c.accept) => IsLoaded(r)
  <2> HIDE DEF r
  <2> QED BY <1>6, <1>7, <1>8 DEF IsLoaded, IsConfig
<1> QED BY <1>2, <1>5, <1>9 DEF s

Keys == {"threshold", "seed", "rules", "accept", "provider", "command", "fsp", "delays"}

LEMMA KeysOfDefault == DOMAIN Default = Keys
BY DEF Default, Keys

\* The first of some positions of a list.
LEMMA FirstIs ==
  ASSUME NEW S \in SUBSET Nat, S # {}
  PROVE  LET f == CHOOSE i \in S : \A j \in S : i <= j IN f \in S /\ \A j \in S : f <= j
<1>1. \E i \in S : \A j \in S : i <= j
  BY LeastNatural
<1> QED BY <1>1

DelaysOf(delays, type) == {i \in DOMAIN delays : delays[i].type = type}
FirstOf(s) == CHOOSE i \in s : \A j \in s : i <= j

LEMMA PlacedDelay ==
  ASSUME NEW delays, NEW type, NEW ms, DelaysOf(delays, type) = {}
  PROVE  WithDelay(delays, type, ms) =
           IF DelaysOf(delays, "*") # {}
           THEN SubSeq(delays, 1, FirstOf(DelaysOf(delays, "*")) - 1) \o <<[type |-> type, ms |-> ms]>>
                  \o SubSeq(delays, FirstOf(DelaysOf(delays, "*")), Len(delays))
           ELSE Append(delays, [type |-> type, ms |-> ms])
<1>1. CASE DelaysOf(delays, "*") # {}
  <2>1. WithDelay(delays, type, ms)
          = SubSeq(delays, 1, FirstOf(DelaysOf(delays, "*")) - 1) \o <<[type |-> type, ms |-> ms]>>
              \o SubSeq(delays, FirstOf(DelaysOf(delays, "*")), Len(delays))
    BY <1>1, Zenon DEF WithDelay, DelaysOf, FirstOf
  <2> QED BY <1>1, <2>1
<1>2. CASE DelaysOf(delays, "*") = {}
  BY <1>2, Zenon DEF WithDelay, DelaysOf, FirstOf
<1> QED BY <1>1, <1>2

LEMMA FirstDelay ==
  ASSUME NEW delays \in DelayRules, NEW type, DelaysOf(delays, type) # {}
  PROVE  \E f \in 1..Len(delays) :
           /\ f = FirstOf(DelaysOf(delays, type)) /\ delays[f].type = type
           /\ \A j \in 1..Len(delays) : delays[j].type = type => f <= j
<1> DEFINE S == DelaysOf(delays, type)
<1>1. S \in SUBSET Nat /\ S # {}
  BY DEF DelaysOf, DelayRules
<1>2. FirstOf(S) \in S /\ \A j \in S : FirstOf(S) <= j
  <2> HIDE DEF S
  <2> QED BY <1>1, FirstIs DEF FirstOf
<1>3. DOMAIN delays = 1..Len(delays)
  BY DEF DelayRules
<1> DEFINE f == FirstOf(S)
<1>4. f \in 1..Len(delays) /\ delays[f].type = type /\ \A j \in 1..Len(delays) : delays[j].type = type => f <= j
  BY <1>2, <1>3 DEF DelaysOf
<1> HIDE DEF f
<1> QED BY <1>4 DEF f

LEMMA ReplacedDelay ==
  ASSUME NEW delays \in DelayRules, NEW type \in STRING, NEW ms \in Int, DelaysOf(delays, type) # {}
  PROVE  WithDelay(delays, type, ms)
           = [delays EXCEPT ![FirstOf(DelaysOf(delays, type))] = [type |-> type, ms |-> ms]]
<1>1. PICK f \in 1..Len(delays) : f = FirstOf(DelaysOf(delays, type)) /\ delays[f].type = type
  BY FirstDelay
<1>2. WithDelay(delays, type, ms) = [delays EXCEPT ![FirstOf(DelaysOf(delays, type))].ms = ms]
  BY Zenon DEF WithDelay, DelaysOf, FirstOf
<1>3. WithDelay(delays, type, ms) = [delays EXCEPT ![f].ms = ms]
  BY <1>1, <1>2, Zenon
<1>4. delays[f] \in [type : STRING, ms : Int]
  <2> DEFINE R == [type : STRING, ms : Int]
  <2>1. delays \in Seq(R)
    BY DEF DelayRules
  <2> HIDE DEF R
  <2>2. delays[f] \in R
    BY <1>1, <2>1
  <2> QED BY <2>2 DEF R
<1> DEFINE r == delays[f]
           v == [r EXCEPT !.ms = ms]
<1>5. v = [type |-> type, ms |-> ms]
  <2>1. r = [type |-> r.type, ms |-> r.ms] /\ r.type = type
    BY <1>1, <1>4
  <2> HIDE DEF r
  <2> QED BY <2>1
<1>6. [delays EXCEPT ![f].ms = ms] = [delays EXCEPT ![f] = v]
  BY Zenon
<1> QED BY <1>1, <1>3, <1>5, <1>6, Zenon

LEMMA WithDelayType ==
  ASSUME NEW delays \in DelayRules, NEW type \in STRING, NEW ms \in Int
  PROVE  WithDelay(delays, type, ms) \in DelayRules
<1> DEFINE new == [type |-> type, ms |-> ms]
           R == [type : STRING, ms : Int]
<1>1. new \in R /\ delays \in Seq(R) /\ DelayRules = Seq(R)
  BY DEF DelayRules
<1>2. CASE DelaysOf(delays, type) # {}
  <2>1. PICK f \in 1..Len(delays) : f = FirstOf(DelaysOf(delays, type))
    BY <1>2, FirstDelay
  <2>2. WithDelay(delays, type, ms) = [delays EXCEPT ![f] = new]
    BY <1>2, <2>1, ReplacedDelay
  <2> HIDE DEF new, R
  <2>3. [delays EXCEPT ![f] = new] \in Seq(R)
    BY <1>1, ExceptSeq
  <2> QED BY <1>1, <2>2, <2>3
<1>3. CASE DelaysOf(delays, type) = {} /\ DelaysOf(delays, "*") # {}
  <2>1. PICK f \in 1..Len(delays) : f = FirstOf(DelaysOf(delays, "*"))
    BY <1>3, FirstDelay
  <2>2. WithDelay(delays, type, ms) = SubSeq(delays, 1, f - 1) \o <<new>> \o SubSeq(delays, f, Len(delays))
    BY <1>3, <2>1, PlacedDelay
  <2> HIDE DEF new, R
  <2>3. SubSeq(delays, 1, f - 1) \in Seq(R) /\ SubSeq(delays, f, Len(delays)) \in Seq(R) /\ <<new>> \in Seq(R)
    BY <1>1
  <2> QED BY <1>1, <2>2, <2>3
<1>4. CASE DelaysOf(delays, type) = {} /\ DelaysOf(delays, "*") = {}
  <2>1. WithDelay(delays, type, ms) = Append(delays, new)
    BY <1>4, PlacedDelay
  <2> HIDE DEF new, R
  <2> QED BY <1>1, <2>1
<1> QED BY <1>2, <1>3, <1>4

\* What is read is the first rule that matches.
LEMMA ReadsFirst ==
  ASSUME NEW d, NEW type, NEW ms, NEW f \in DOMAIN d, DOMAIN d \in SUBSET Nat, d[f].type = type, d[f].ms = ms,
         \A i \in DOMAIN d : i < f => d[i].type # type /\ d[i].type # "*"
  PROVE  ReadDelay(d, type) = ms
<1> DEFINE hits == {i \in DOMAIN d : Matches(d[i], type)}
<1>1. f \in hits /\ hits \in SUBSET Nat
  BY DEF Matches
<1>2. \A i \in hits : f <= i
  <2>1. \A i \in hits : d[i].type = type \/ d[i].type = "*"
    BY DEF Matches
  <2> QED BY <1>1, <2>1
<1>3. \A i \in hits : (\A j \in hits : i <= j) => i = f
  BY <1>1, <1>2
<1>4. (CHOOSE i \in hits : \A j \in hits : i <= j) = f
  <2> HIDE DEF hits
  <2> QED BY <1>1, <1>2, <1>3
<1>5. ReadDelay(d, type) = d[CHOOSE i \in hits : \A j \in hits : i <= j].ms
  BY <1>1, Zenon DEF ReadDelay
<1> QED BY <1>4, <1>5, Zenon

\* The delay that was set is read, as long as a catch-all comes last.
LEMMA WithDelayIsRead ==
  ASSUME NEW delays \in DelayRules, NEW type \in STRING, NEW ms \in Int,
         \A i, j \in DOMAIN delays : delays[i].type = "*" => j <= i
  PROVE  ReadDelay(WithDelay(delays, type, ms), type) = ms
<1> DEFINE new == [type |-> type, ms |-> ms]
           R == [type : STRING, ms : Int]
           n == Len(delays)
<1>1. new \in R /\ delays \in Seq(R) /\ new.type = type /\ new.ms = ms /\ DOMAIN delays = 1..n /\ n \in Nat
  BY DEF DelayRules
<1>2. CASE DelaysOf(delays, type) # {}
  <2>1. PICK f \in 1..n : f = FirstOf(DelaysOf(delays, type)) /\ delays[f].type = type
                          /\ \A j \in 1..n : delays[j].type = type => f <= j
    BY <1>2, FirstDelay
  <2> DEFINE d == [delays EXCEPT ![f] = new]
  <2>2. WithDelay(delays, type, ms) = d
    BY <1>2, <2>1, ReplacedDelay
  <2>3. DOMAIN d = 1..n /\ d[f] = new /\ \A i \in 1..n : i # f => d[i] = delays[i]
    BY <1>1
  <2>4. \A i \in 1..n : i < f => delays[i].type # type /\ delays[i].type # "*"
    BY <1>1, <2>1
  <2> HIDE DEF d, new
  <2>5. \A i \in DOMAIN d : i < f => d[i].type # type /\ d[i].type # "*"
    BY <2>3, <2>4
  <2>6. f \in DOMAIN d /\ DOMAIN d \in SUBSET Nat /\ d[f].type = type /\ d[f].ms = ms
    BY <1>1, <2>3
  <2>7. ReadDelay(d, type) = ms
    BY <2>5, <2>6, ReadsFirst
  <2> QED BY <2>2, <2>7
<1>3. CASE DelaysOf(delays, type) = {} /\ DelaysOf(delays, "*") # {}
  <2>1. PICK f \in 1..n : f = FirstOf(DelaysOf(delays, "*")) /\ delays[f].type = "*"
                          /\ \A j \in 1..n : delays[j].type = "*" => f <= j
    BY <1>3, FirstDelay
  <2> DEFINE a == SubSeq(delays, 1, f - 1)
             b == SubSeq(delays, f, n)
             d == a \o <<new>> \o b
  <2>2. WithDelay(delays, type, ms) = d
    BY <1>3, <2>1, PlacedDelay
  <2> HIDE DEF new, R, n
  <2>3. /\ a \in Seq(R) /\ b \in Seq(R) /\ Len(a) = f - 1 /\ f \in Nat /\ f >= 1 /\ <<new>> \in Seq(R) /\ Len(<<new>>) = 1
        /\ \A i \in 1..(f - 1) : a[i] = delays[i]
    BY <1>1 DEF n
  <2> HIDE DEF a, b
  <2>4. DOMAIN d \in SUBSET (Nat \ {0}) /\ f \in DOMAIN d /\ d[f] = new /\ \A i \in 1..(f - 1) : d[i] = a[i]
    <3> DEFINE c == a \o <<new>>
    <3>1. c \in Seq(R) /\ Len(c) = f /\ c[f] = new /\ \A i \in 1..(f - 1) : c[i] = a[i]
      <4>1. Len(c) = Len(a) + Len(<<new>>)
        BY <2>3, ConcatProperties
      <4>2. \A i \in 1..Len(c) : c[i] = IF i <= Len(a) THEN a[i] ELSE <<new>>[i - Len(a)]
        BY <2>3, ConcatProperties
      <4>3. <<new>>[1] = new
        OBVIOUS
      <4>4. c \in Seq(R)
        BY <2>3, ConcatProperties
      <4>5. f \in Nat /\ f >= 1
        BY <1>1
      <4> HIDE DEF c
      <4>6. Len(c) = f
        BY <2>3, <4>1
      <4>7. c[f] = <<new>>[1]
        <5>1. f \in 1..Len(c) /\ ~(f <= Len(a)) /\ f - Len(a) = 1
          BY <2>3, <4>6
        <5> QED BY <4>2, <5>1
      <4>8. \A i \in 1..(f - 1) : i \in 1..Len(c) /\ i <= Len(a)
        BY <2>3, <4>6
      <4> QED BY <4>2, <4>3, <4>4, <4>6, <4>7, <4>8
    <3> HIDE DEF c
    <3>2. d = c \o b /\ c \o b \in Seq(R) /\ Len(c \o b) = Len(c) + Len(b)
      BY <2>3, <3>1, ConcatProperties DEF c
    <3>3. \A i \in 1..Len(c) : (c \o b)[i] = c[i]
      BY <2>3, <3>1, ConcatProperties
    <3>4. Len(b) \in Nat
      BY <2>3
    <3>5. f \in Nat /\ f >= 1 /\ DOMAIN d = 1..(f + Len(b))
      BY <1>1, <3>1, <3>2
    <3> HIDE DEF d
    <3> QED BY <3>1, <3>2, <3>3, <3>4, <3>5
  <2>5. \A i \in 1..(f - 1) : delays[i].type # type /\ delays[i].type # "*"
    BY <1>1, <1>3, <2>1 DEF DelaysOf
  <2> HIDE DEF d
  <2>6. \A i \in DOMAIN d : i < f => d[i].type # type /\ d[i].type # "*"
    <3> QED BY <1>1, <2>3, <2>4, <2>5
  <2>7. ReadDelay(d, type) = ms
    BY <1>1, <2>4, <2>6, ReadsFirst
  <2> QED BY <2>2, <2>7
<1>4. CASE DelaysOf(delays, type) = {} /\ DelaysOf(delays, "*") = {}
  <2> DEFINE d == Append(delays, new)
  <2>1. WithDelay(delays, type, ms) = d
    BY <1>4, PlacedDelay
  <2> HIDE DEF new, R, n
  <2>2. DOMAIN d = 1..(n + 1) /\ d[n + 1] = new /\ \A i \in 1..n : d[i] = delays[i]
    BY <1>1 DEF n
  <2>3. \A i \in 1..n : delays[i].type # type /\ delays[i].type # "*"
    BY <1>1, <1>4 DEF DelaysOf
  <2> HIDE DEF d
  <2>4. \A i \in DOMAIN d : i < n + 1 => d[i].type # type /\ d[i].type # "*"
    BY <1>1, <2>2, <2>3
  <2>5. n + 1 \in DOMAIN d /\ DOMAIN d \in SUBSET Nat
    BY <1>1, <2>2
  <2>6. ReadDelay(d, type) = ms
    BY <1>1, <2>2, <2>4, <2>5, ReadsFirst
  <2> QED BY <2>1, <2>6
<1> QED BY <1>2, <1>3, <1>4

\* The rules stay a list of rules.
LEMMA RulesStay ==
  ASSUME NEW e, EditOK(e), NEW rules \in Seq(STRING), e.op \in {"add", "remove"},
         e.op = "remove" => e.value \in DOMAIN rules
  PROVE  RulesAfter(e, rules) \in Seq(STRING)
<1>1. CASE e.op = "add"
  BY <1>1 DEF EditOK, RulesAfter
<1>2. CASE e.op = "remove"
  <2>1. RulesAfter(e, rules) = WithoutAt(rules, e.value)
    BY <1>2 DEF RulesAfter
  <2>2. PICK i \in 1..Len(rules) : i = e.value
    BY <1>2
  <2>3. SubSeq(rules, 1, i - 1) \in Seq(STRING) /\ SubSeq(rules, i + 1, Len(rules)) \in Seq(STRING)
    BY <2>2
  <2> QED BY <2>1, <2>2, <2>3 DEF WithoutAt
<1> QED BY <1>1, <1>2

\* What an edit writes is a configuration that loads, and has every other key as it was.
LEMMA AppliedIs ==
  ASSUME NEW e, EditOK(e), NEW c, IsLoaded(c), NEW s, Permitted(e, c, s)
  PROVE  /\ IsConfig(Applied(e, c)) /\ ValidAccept(Applied(e, c).accept)
         /\ \A k \in Keys : k # FieldOf(e) => Applied(e, c)[k] = c[k]
         /\ e.op = "fsp" => Applied(e, c).fsp = e.value
         /\ e.op = "delay" => Applied(e, c).delays = WithDelay(c.delays, e.type, e.value)
<1> DEFINE d == Applied(e, c)
<1>0. c = TheKeys(c) /\ IsConfig(c) /\ ValidAccept(c.accept)
  BY DEF IsLoaded, IsConfig
<1> SUFFICES /\ IsConfig(d) /\ ValidAccept(d.accept)
             /\ \A k \in Keys : k # FieldOf(e) => d[k] = c[k]
             /\ e.op = "fsp" => d.fsp = e.value
             /\ e.op = "delay" => d.delays = WithDelay(c.delays, e.type, e.value)
  OBVIOUS
<1> HIDE DEF d
\* One key of the configuration is written.
<1>1. ASSUME NEW K \in Keys, NEW v, d = [c EXCEPT ![K] = v]
      PROVE  d = TheKeys(d) /\ d[K] = v /\ \A k \in Keys : k # K => d[k] = c[k]
  <2>1. DOMAIN c = Keys
    <3>1. DOMAIN TheKeys(c) = Keys
      BY DEF TheKeys, Keys
    <3> QED BY <1>0, <3>1
  <2>2. d[K] = v /\ (\A k \in Keys : k # K => d[k] = c[k]) /\ DOMAIN d = Keys /\ d = [k \in Keys |-> d[k]]
    BY <1>1, <2>1
  <2>3. TheKeys(d) = [k \in Keys |-> d[k]]
    BY DEF TheKeys, Keys
  <2> QED BY <2>2, <2>3
<1>2. CASE e.op = "threshold"
  <2>1. d = [c EXCEPT !["threshold"] = e.value] /\ FieldOf(e) = "threshold" /\ e.value \in Int
    BY <1>2, Zenon DEF Applied, FieldOf, d, EditOK
  <2>2. "threshold" \in Keys
    BY DEF Keys
  <2>8. d = TheKeys(d) /\ d["threshold"] = e.value /\ \A k \in Keys : k # "threshold" => d[k] = c[k]
    BY <1>1, <2>1, <2>2
  <2>9. /\ d.threshold = e.value /\ d.seed = c.seed /\ d.rules = c.rules /\ d.accept = c.accept
        /\ d.provider = c.provider /\ d.command = c.command /\ d.fsp = c.fsp /\ d.delays = c.delays
    BY <2>8 DEF Keys
  <2> QED BY <1>0, <1>2, <2>1, <2>2, <2>8, <2>9 DEF IsConfig
<1>3. CASE e.op = "accept"
  <2>1. d = [c EXCEPT !["accept"] = e.value] /\ FieldOf(e) = "accept"
    BY <1>3, Zenon DEF Applied, FieldOf, d
  <2>2. ValidAccept(e.value)
    BY <1>3, Zenon DEF Permitted, AcceptsDuration, ValidAccept
  <2>3. "accept" \in Keys
    BY DEF Keys
  <2>8. d = TheKeys(d) /\ d["accept"] = e.value /\ \A k \in Keys : k # "accept" => d[k] = c[k]
    BY <1>1, <2>1, <2>3
  <2>9. /\ d.accept = e.value /\ d.threshold = c.threshold /\ d.seed = c.seed /\ d.rules = c.rules
        /\ d.provider = c.provider /\ d.command = c.command /\ d.fsp = c.fsp /\ d.delays = c.delays
    BY <2>8 DEF Keys
  <2> QED BY <1>0, <1>3, <2>1, <2>2, <2>3, <2>8, <2>9 DEF IsConfig
<1>4. CASE e.op = "provider"
  <2>1. d = [c EXCEPT !["provider"] = e.value] /\ FieldOf(e) = "provider"
    BY <1>4, Zenon DEF Applied, FieldOf, d
  <2>2. "provider" \in Keys
    BY DEF Keys
  <2>8. d = TheKeys(d) /\ d["provider"] = e.value /\ \A k \in Keys : k # "provider" => d[k] = c[k]
    BY <1>1, <2>1, <2>2
  <2>9. /\ d.provider = e.value /\ d.threshold = c.threshold /\ d.seed = c.seed /\ d.rules = c.rules
        /\ d.accept = c.accept /\ d.command = c.command /\ d.fsp = c.fsp /\ d.delays = c.delays
    BY <2>8 DEF Keys
  <2> QED BY <1>0, <1>4, <2>1, <2>2, <2>8, <2>9 DEF IsConfig
<1>5. CASE e.op = "fsp"
  <2>1. d = [c EXCEPT !["fsp"] = e.value] /\ FieldOf(e) = "fsp" /\ e.value \in BOOLEAN
    BY <1>5, Zenon DEF Applied, FieldOf, d, EditOK
  <2>2. "fsp" \in Keys
    BY DEF Keys
  <2>8. d = TheKeys(d) /\ d["fsp"] = e.value /\ \A k \in Keys : k # "fsp" => d[k] = c[k]
    BY <1>1, <2>1, <2>2
  <2>9. /\ d.fsp = e.value /\ d.threshold = c.threshold /\ d.seed = c.seed /\ d.rules = c.rules
        /\ d.accept = c.accept /\ d.provider = c.provider /\ d.command = c.command /\ d.delays = c.delays
    BY <2>8 DEF Keys
  <2> QED BY <1>0, <1>5, <2>1, <2>2, <2>8, <2>9 DEF IsConfig
<1>6. CASE e.op \in {"preset", "clear"}
  <2>1. PICK v : d = [c EXCEPT !["command"] = v]
    BY <1>6, Zenon DEF Applied, d
  <2>2. FieldOf(e) = "command" /\ "command" \in Keys
    BY <1>6 DEF FieldOf, Keys
  <2>8. d = TheKeys(d) /\ d["command"] = v /\ \A k \in Keys : k # "command" => d[k] = c[k]
    BY <1>1, <2>1, <2>2
  <2>9. /\ d.command = v /\ d.threshold = c.threshold /\ d.seed = c.seed /\ d.rules = c.rules
        /\ d.accept = c.accept /\ d.provider = c.provider /\ d.fsp = c.fsp /\ d.delays = c.delays
    BY <2>8 DEF Keys
  <2> QED BY <1>0, <1>6, <2>1, <2>2, <2>8, <2>9 DEF IsConfig
<1>7. CASE e.op \in {"add", "remove"}
  <2>1. d = [c EXCEPT !["rules"] = RulesAfter(e, c.rules)]
    BY <1>7, Zenon DEF Applied, d
  <2>2. FieldOf(e) = "rules" /\ "rules" \in Keys
    BY <1>7 DEF FieldOf, Keys
  <2>3. e.op = "remove" => e.value \in DOMAIN c.rules
    BY <1>7, Zenon DEF Permitted, RemovesTheShown, StillListed
  <2>4. RulesAfter(e, c.rules) \in Seq(STRING)
    BY <1>0, <1>7, <2>3, RulesStay DEF IsConfig
  <2>8. d = TheKeys(d) /\ d["rules"] = RulesAfter(e, c.rules) /\ \A k \in Keys : k # "rules" => d[k] = c[k]
    BY <1>1, <2>1, <2>2
  <2>9. /\ d.rules = RulesAfter(e, c.rules) /\ d.threshold = c.threshold /\ d.seed = c.seed
        /\ d.accept = c.accept /\ d.provider = c.provider /\ d.command = c.command /\ d.fsp = c.fsp
        /\ d.delays = c.delays
    BY <2>8 DEF Keys
  <2> QED BY <1>0, <1>7, <2>1, <2>2, <2>4, <2>8, <2>9 DEF IsConfig
<1>8. CASE e.op = "delay"
  <2>1. d = [c EXCEPT !["delays"] = WithDelay(c.delays, e.type, e.value)]
    BY <1>8, Zenon DEF Applied, d
  <2>2. FieldOf(e) = "delays" /\ "delays" \in Keys
    BY <1>8 DEF FieldOf, Keys
  <2>3. WithDelay(c.delays, e.type, e.value) \in DelayRules
    BY <1>0, <1>8, WithDelayType DEF IsConfig, EditOK
  <2>8. d = TheKeys(d) /\ d["delays"] = WithDelay(c.delays, e.type, e.value) /\ \A k \in Keys : k # "delays" => d[k] = c[k]
    BY <1>1, <2>1, <2>2
  <2>9. /\ d.delays = WithDelay(c.delays, e.type, e.value) /\ d.threshold = c.threshold /\ d.seed = c.seed
        /\ d.rules = c.rules /\ d.accept = c.accept /\ d.provider = c.provider /\ d.command = c.command
        /\ d.fsp = c.fsp
    BY <2>8 DEF Keys
  <2> QED BY <1>0, <1>8, <2>1, <2>2, <2>3, <2>8, <2>9 DEF IsConfig
<1>9. CASE e.op = "undelay"
  <2>1. d = [c EXCEPT !["delays"] = WithoutDelays(c.delays, e.type)]
    BY <1>9, Zenon DEF Applied, d
  <2>2. FieldOf(e) = "delays" /\ "delays" \in Keys
    BY <1>9 DEF FieldOf, Keys
  <2>3. WithoutDelays(c.delays, e.type) \in DelayRules
    BY <1>0, LackingType DEF IsConfig, WithoutDelays, DelayRules
  <2>8. d = TheKeys(d) /\ d["delays"] = WithoutDelays(c.delays, e.type) /\ \A k \in Keys : k # "delays" => d[k] = c[k]
    BY <1>1, <2>1, <2>2
  <2>9. /\ d.delays = WithoutDelays(c.delays, e.type) /\ d.threshold = c.threshold /\ d.seed = c.seed
        /\ d.rules = c.rules /\ d.accept = c.accept /\ d.provider = c.provider /\ d.command = c.command
        /\ d.fsp = c.fsp
    BY <2>8 DEF Keys
  <2> QED BY <1>0, <1>9, <2>1, <2>2, <2>3, <2>8, <2>9 DEF IsConfig
<1>10. e.op \in {"threshold", "accept", "provider", "fsp", "preset", "clear", "add", "remove", "delay", "undelay"}
  BY DEF EditOK, ValueOps
<1> QED BY <1>2, <1>3, <1>4, <1>5, <1>6, <1>7, <1>8, <1>9, <1>10 DEF d

\* What Save leaves loads, and has the keys the edit is not about.
LEMMA SaveIs ==
  ASSUME NEW e, EditOK(e), NEW c, IsLoaded(c), NEW s, Permitted(e, c, s), NEW f, NEW g, g = Save(Applied(e, c), f)
  PROVE  /\ Loads(g) /\ IsLoaded(Load(g))
         /\ \A k \in Keys : k # FieldOf(e) => Load(g)[k] = c[k]
         /\ Load(g).fsp = Applied(e, c).fsp /\ Load(g).delays = Applied(e, c).delays
<1> DEFINE d == Applied(e, c)
<1>1. /\ IsConfig(d) /\ ValidAccept(d.accept)
      /\ \A k \in Keys : k # FieldOf(e) => d[k] = c[k]
  BY AppliedIs
<1> HIDE DEF d
<1>2. Loads(g) /\ Load(g) = Reloaded(d) /\ IsLoaded(Load(g))
  BY <1>1, LoadAfterSave DEF d
<1>3. FillZeroes(c.threshold) = c.threshold /\ c.provider \notin {"", "sqlite"}
  BY DEF IsLoaded
<1>4. ProviderOf(ProviderSaved(c.provider)) = c.provider
  <2>1. ProviderSaved(c.provider) = {c.provider}
    BY <1>3 DEF ProviderSaved
  <2>2. Stated({c.provider}, "localfs") = c.provider
    BY DEF Stated
  <2> QED BY <1>3, <2>1, <2>2, Zenon DEF ProviderOf
<1>5. ASSUME NEW k \in Keys, k # FieldOf(e) PROVE Load(g)[k] = c[k]
  <2>1. d[k] = c[k]
    BY <1>1, <1>5
  <2>2. CASE k = "threshold"
    <3>1. Load(g).threshold = FillZeroes(d.threshold)
      BY <1>2 DEF Reloaded
    <3>2. d.threshold = c.threshold
      BY <2>1, <2>2
    <3> QED BY <1>3, <2>2, <3>1, <3>2
  <2>3. CASE k = "provider"
    BY <1>2, <1>4, <2>1, <2>3 DEF Reloaded
  <2>4. CASE k \notin {"threshold", "provider"}
    <3>1. Reloaded(d)[k] = d[k]
      BY <2>4 DEF Reloaded, Keys
    <3> QED BY <1>2, <2>1, <3>1
  <2> QED BY <2>2, <2>3, <2>4
<1>6. Load(g).fsp = d.fsp /\ Load(g).delays = d.delays
  BY <1>2 DEF Reloaded
<1> QED BY <1>2, <1>5, <1>6 DEF d

LEMMA FspApplied ==
  ASSUME NEW e, EditOK(e), NEW c, IsLoaded(c), NEW s, Permitted(e, c, s)
  PROVE  /\ e.op = "fsp" => Applied(e, c).fsp = e.value
         /\ e.op # "fsp" => Applied(e, c).fsp = c.fsp
<1>1. e.op = "fsp" => Applied(e, c).fsp = e.value
  BY AppliedIs
<1>2. ASSUME e.op # "fsp" PROVE Applied(e, c).fsp = c.fsp
  <2>1. FieldOf(e) # "fsp" /\ "fsp" \in Keys
    BY <1>2, Zenon DEF FieldOf, Keys, EditOK, ValueOps
  <2>2. \A k \in Keys : k # FieldOf(e) => Applied(e, c)[k] = c[k]
    BY AppliedIs
  <2> QED BY <2>1, <2>2
<1> QED BY <1>1, <1>2

LEMMA EditJobIs ==
  ASSUME EditsOK, NEW w \in Editors
  PROVE  /\ edit[w].pc \in {"none", "save", "record", "tell"}
         /\ edit[w].pc # "none" =>
              /\ edit[w] = [pc |-> edit[w].pc, of |-> edit[w].of, was |-> edit[w].was, shown |-> edit[w].shown]
              /\ edit[w].of \in Edits /\ EditOK(edit[w].of) /\ IsLoaded(edit[w].was) /\ IsLoaded(edit[w].shown)
              /\ Permitted(edit[w].of, edit[w].was, edit[w].shown)
              /\ configLock = w /\ \A v \in Editors \ {w} : edit[v].pc = "none"
BY ConfigAssumed DEF EditsOK, EditJobOK, NoConfigEdit

\* A writer's next step, with the rest of its edit as it is.
LEMMA EditAdvances ==
  ASSUME EditsOK, NEW w \in Editors, edit[w].pc # "none", NEW p \in {"save", "record", "tell"}, edit' = [edit EXCEPT ![w].pc = p],
         configLock' = w
  PROVE  /\ EditsOK'
         /\ edit'[w] = [pc |-> p, of |-> edit[w].of, was |-> edit[w].was, shown |-> edit[w].shown]
         /\ \A v \in Editors \ {w} : edit'[v] = edit[v]
<1> DEFINE j == edit[w]
           k == [j EXCEPT !.pc = p]
<1>1. j = [pc |-> j.pc, of |-> j.of, was |-> j.was, shown |-> j.shown]
  BY EditJobIs
<1>2. k = [pc |-> p, of |-> j.of, was |-> j.was, shown |-> j.shown]
  <2> HIDE DEF j
  <2> QED BY <1>1
<1>3. edit' = [edit EXCEPT ![w] = k]
  BY Zenon
<1> HIDE DEF k
<1>4. edit'[w] = k /\ (\A v \in Editors \ {w} : edit'[v] = edit[v]) /\ edit' = [v \in Editors |-> edit'[v]]
  BY <1>3 DEF EditsOK
<1>5. EditJobOK(edit'[w])
  <2>1. EditJobOK(k)
    BY <1>2, EditJobIs DEF EditJobOK
  <2> QED BY <1>4, <2>1
<1>6. ASSUME NEW v \in Editors \ {w} PROVE EditJobOK(edit'[v]) /\ edit'[v].pc = "none"
  BY <1>4, EditJobIs DEF EditsOK
<1>7. EditsOK'
  BY <1>4, <1>5, <1>6 DEF EditsOK
<1> QED BY <1>2, <1>4, <1>7

LEMMA InitEditInv == ASSUME InitConfig PROVE EditInv
<1>1. IsLoaded(Load(file)) /\ seen = Load(file) /\ toggles = Load(file).fsp /\ handEdits = 0
  BY LoadedIsOK, ConfigAssumed DEF InitConfig
<1>2. edit = [w \in Editors |-> edit[w]] /\ \A w \in Editors : edit[w] = NoConfigEdit /\ edit[w].pc = "none"
  BY DEF InitConfig, NoConfigEdit
<1> QED BY <1>1, <1>2 DEF EditInv, EditsOK, FilesOK, SwitchOK, EditJobOK

LEMMA BeginEditKeeps ==
  ASSUME EditInv, NEW w \in Editors, BeginEdit(w) PROVE EditInv'
<1>1. PICK e \in Edits :
        LET goes == Loads(file) /\ Permitted(e, Load(file), seen)
        IN  \/ /\ goes /\ configLock' = w
               /\ edit' = [edit EXCEPT ![w] = [pc |-> "save", of |-> e, was |-> Load(file), shown |-> seen]]
            \/ ~goes /\ UNCHANGED <<configLock, edit>>
  BY DEF BeginEdit
<1>2. configLock = "none" /\ UNCHANGED <<file, seen, toggles, handEdits>>
  BY DEF BeginEdit
<1>3. \A v \in Editors : edit[v].pc = "none"
  BY <1>2, EditJobIs, ConfigAssumed DEF EditInv
<1>4. CASE UNCHANGED <<configLock, edit>>
  BY <1>2, <1>4 DEF EditInv, EditsOK, FilesOK, SwitchOK
<1>5. CASE /\ Loads(file) /\ Permitted(e, Load(file), seen) /\ configLock' = w
           /\ edit' = [edit EXCEPT ![w] = [pc |-> "save", of |-> e, was |-> Load(file), shown |-> seen]]
  <2> DEFINE j == [pc |-> "save", of |-> e, was |-> Load(file), shown |-> seen]
  <2>1. IsLoaded(Load(file)) /\ IsLoaded(seen)
    BY <1>5 DEF EditInv, FilesOK
  <2>2. EditJobOK(j) /\ j.pc = "save" /\ j.was = Load(file)
    BY <1>5, <2>1 DEF EditJobOK
  <2> HIDE DEF j
  <2>3. edit' = [edit EXCEPT ![w] = j]
    BY <1>5 DEF j
  <2>4. edit'[w] = j /\ (\A v \in Editors \ {w} : edit'[v] = edit[v]) /\ edit' = [v \in Editors |-> edit'[v]]
    BY <2>3 DEF EditInv, EditsOK
  <2>5. EditsOK'
    BY <1>3, <1>5, <2>2, <2>4 DEF EditInv, EditsOK
  <2>6. FilesOK'
    BY <1>2 DEF EditInv, FilesOK
  <2>7. SwitchOK'
    <3>1. handEdits = 0 => toggles = Load(file).fsp
      BY <1>3 DEF EditInv, SwitchOK
    <3>2. \A v \in Editors : edit'[v].pc \in {"none", "save"} /\ (edit'[v].pc = "save" => edit'[v].was = Load(file))
      BY <1>3, <2>2, <2>4
    <3> QED BY <1>2, <3>1, <3>2 DEF SwitchOK
  <2> QED BY <2>5, <2>6, <2>7 DEF EditInv
<1> QED BY <1>1, <1>4, <1>5

LEMMA SaveEditKeeps ==
  ASSUME EditInv, NEW w \in Editors, SaveEdit(w) PROVE EditInv'
<1> DEFINE j == edit[w]
<1>1. /\ j.pc = "save" /\ file' = Save(Applied(j.of, j.was), file) /\ edit' = [edit EXCEPT ![w].pc = "record"]
      /\ configLock' = w /\ UNCHANGED <<seen, toggles, handEdits>>
  BY DEF SaveEdit, HeldForHistory
<1>2. EditOK(j.of) /\ IsLoaded(j.was) /\ Permitted(j.of, j.was, j.shown) /\ \A v \in Editors \ {w} : edit[v].pc = "none"
  BY <1>1, EditJobIs DEF EditInv
<1>3. Loads(file') /\ IsLoaded(Load(file')) /\ Load(file').fsp = Applied(j.of, j.was).fsp
  BY <1>1, <1>2, SaveIs
<1>4. /\ EditsOK' /\ edit'[w] = [pc |-> "record", of |-> j.of, was |-> j.was, shown |-> j.shown]
      /\ \A v \in Editors \ {w} : edit'[v] = edit[v]
  BY <1>1, EditAdvances DEF EditInv
<1>5. FilesOK'
  BY <1>1, <1>3 DEF EditInv, FilesOK
<1>6. SwitchOK'
  <2>1. handEdits = 0 => toggles = j.was.fsp
    <3>1. \A v \in Editors : edit[v].pc # "record"
      BY <1>1, <1>2
    <3> QED BY <1>1, <3>1 DEF EditInv, SwitchOK
  <2>2. edit'[w].pc = "record" /\ edit'[w].of = j.of /\ edit'[w].was = j.was /\ \A v \in Editors \ {w} : edit'[v].pc = "none"
    BY <1>2, <1>4
  <2> HIDE DEF j
  <2> QED BY <1>1, <1>3, <2>1, <2>2 DEF SwitchOK
<1> QED BY <1>4, <1>5, <1>6 DEF EditInv

LEMMA RecordEditKeeps ==
  ASSUME EditInv, NEW w \in Editors, RecordEdit(w) PROVE EditInv'
<1> DEFINE j == edit[w]
<1>1. /\ j.pc = "record" /\ toggles' = (IF SwitchMoved(w) THEN j.of.value ELSE toggles)
      /\ edit' = [edit EXCEPT ![w].pc = "tell"] /\ UNCHANGED <<file, configLock, seen, handEdits>>
  BY DEF RecordEdit
<1>2. /\ EditOK(j.of) /\ IsLoaded(j.was) /\ Permitted(j.of, j.was, j.shown) /\ configLock = w
      /\ \A v \in Editors \ {w} : edit[v].pc = "none"
  BY <1>1, EditJobIs DEF EditInv
<1>3. /\ EditsOK' /\ edit'[w] = [pc |-> "tell", of |-> j.of, was |-> j.was, shown |-> j.shown]
      /\ \A v \in Editors \ {w} : edit'[v] = edit[v]
  BY <1>1, <1>2, EditAdvances DEF EditInv
<1>4. FilesOK'
  BY <1>1 DEF EditInv, FilesOK
<1>5. SwitchOK'
  <2>1. ASSUME handEdits = 0 PROVE toggles' = Load(file).fsp
    <3>1. toggles = j.was.fsp /\ Load(file).fsp = Applied(j.of, j.was).fsp
      BY <1>1, <2>1 DEF EditInv, SwitchOK
    <3>2. /\ j.of.op = "fsp" => Applied(j.of, j.was).fsp = j.of.value
          /\ j.of.op # "fsp" => Applied(j.of, j.was).fsp = j.was.fsp
      BY <1>2, FspApplied
    <3> QED BY <1>1, <3>1, <3>2 DEF SwitchMoved
  <2>2. \A v \in Editors : edit'[v].pc \in {"none", "tell"}
    BY <1>2, <1>3
  <2> QED BY <1>1, <2>1, <2>2 DEF SwitchOK
<1> QED BY <1>3, <1>4, <1>5 DEF EditInv

LEMMA TellDaemonKeeps ==
  ASSUME EditInv, NEW w \in Editors, TellDaemon(w) PROVE EditInv'
<1>1. /\ edit[w].pc = "tell" /\ edit' = [edit EXCEPT ![w] = NoConfigEdit]
      /\ UNCHANGED <<file, seen, toggles, handEdits>>
  BY DEF TellDaemon
<1>2. \A v \in Editors \ {w} : edit[v].pc = "none"
  BY <1>1, EditJobIs DEF EditInv
<1>3. edit'[w] = NoConfigEdit /\ (\A v \in Editors \ {w} : edit'[v] = edit[v]) /\ edit' = [v \in Editors |-> edit'[v]]
  BY <1>1 DEF EditInv, EditsOK
<1>4. \A v \in Editors : edit'[v].pc = "none" /\ EditJobOK(edit'[v])
  BY <1>2, <1>3 DEF NoConfigEdit, EditJobOK, EditInv, EditsOK
<1>5. EditsOK'
  BY <1>3, <1>4 DEF EditsOK
<1>6. handEdits = 0 => toggles = Load(file).fsp
  <2>1. \A v \in Editors : edit[v].pc # "record"
    BY <1>1, <1>2
  <2> QED BY <2>1 DEF EditInv, SwitchOK
<1>7. SwitchOK'
  BY <1>1, <1>4, <1>6 DEF SwitchOK
<1>8. FilesOK'
  BY <1>1 DEF EditInv, FilesOK
<1> QED BY <1>5, <1>7, <1>8 DEF EditInv

LEMMA OthersKeep ==
  ASSUME EditInv, HandEdit \/ TuiReadsConfig \/ Wake \/ TakeNudge \/ UNCHANGED configVars PROVE EditInv'
<1>1. CASE HandEdit
  <2>1. handEdits \in Nat /\ handEdits' = handEdits + 1 /\ file' \in HandFiles /\ UNCHANGED <<configLock, edit, seen, toggles>>
    BY <1>1 DEF HandEdit, EditInv, FilesOK
  <2>2. Loads(file') => IsLoaded(Load(file'))
    BY <2>1, LoadedIsOK, ConfigAssumed
  <2>3. handEdits' \in Nat /\ handEdits' # 0
    BY <2>1
  <2> QED BY <2>1, <2>2, <2>3 DEF EditInv, EditsOK, FilesOK, SwitchOK
<1>2. CASE TuiReadsConfig
  BY <1>2 DEF TuiReadsConfig, EditInv, EditsOK, FilesOK, SwitchOK
<1>3. CASE Wake \/ TakeNudge \/ UNCHANGED configVars
  <2>1. UNCHANGED <<file, configLock, edit, seen, toggles, handEdits>>
    BY <1>3 DEF Wake, TakeNudge, configVars
  <2> QED BY <2>1 DEF EditInv, EditsOK, FilesOK, SwitchOK
<1> QED BY <1>1, <1>2, <1>3

LEMMA EditInvKept == ASSUME EditInv, [NextConfig]_configVars PROVE EditInv'
<1>1. \/ \E w \in Editors : BeginEdit(w) \/ SaveEdit(w) \/ RecordEdit(w) \/ TellDaemon(w)
      \/ HandEdit \/ TuiReadsConfig \/ Wake \/ TakeNudge \/ UNCHANGED configVars
  BY DEF NextConfig
<1> QED BY <1>1, BeginEditKeeps, SaveEditKeeps, RecordEditKeeps, TellDaemonKeeps, OthersKeep

LEMMA SavesAreExact ==
  ASSUME EditInv, NEW w \in Editors, SaveEdit(w)
  PROVE  /\ \A k \in DOMAIN Default : k # FieldOf(edit[w].of) => Load(file')[k] = edit[w].was[k]
         /\ Loads(file')
         /\ edit[w].of.op = "remove" => edit[w].was.rules[edit[w].of.value] = edit[w].shown.rules[edit[w].of.value]
         /\ edit[w].of.op = "delay" /\ (\A i, j \in DOMAIN edit[w].was.delays : edit[w].was.delays[i].type = "*" => j <= i) =>
              ReadDelay(Load(file').delays, edit[w].of.type) = edit[w].of.value
<1> DEFINE j == edit[w]
<1>1. j.pc = "save" /\ file' = Save(Applied(j.of, j.was), file)
  BY DEF SaveEdit
<1>2. EditOK(j.of) /\ IsLoaded(j.was) /\ Permitted(j.of, j.was, j.shown)
  BY <1>1, EditJobIs DEF EditInv
<1> HIDE DEF j
<1>3. /\ Loads(file') /\ \A k \in Keys : k # FieldOf(j.of) => Load(file')[k] = j.was[k]
      /\ Load(file').delays = Applied(j.of, j.was).delays
  BY <1>1, <1>2, SaveIs
<1>4. ASSUME j.of.op = "remove" PROVE j.was.rules[j.of.value] = j.shown.rules[j.of.value]
  BY <1>2, <1>4, Zenon DEF Permitted, RemovesTheShown, StillListed
<1>5. ASSUME j.of.op = "delay", \A i, n \in DOMAIN j.was.delays : j.was.delays[i].type = "*" => n <= i
      PROVE  ReadDelay(Load(file').delays, j.of.type) = j.of.value
  <2>1. Load(file').delays = WithDelay(j.was.delays, j.of.type, j.of.value)
    BY <1>2, <1>3, <1>5, AppliedIs
  <2>2. j.was.delays \in DelayRules /\ j.of.type \in STRING /\ j.of.value \in Int
    BY <1>2, <1>5 DEF IsLoaded, IsConfig, EditOK
  <2> QED BY <1>5, <2>1, <2>2, WithDelayIsRead
<1> QED BY <1>3, <1>4, <1>5, KeysOfDefault DEF j

\* A saved edit changes its own setting and no other, leaves a file that loads, removes the
\* entry its operator was shown and never a neighbour, and a delay that is set is the one read
\* back; the self-prompting history ends on the switch (config.Load, config.Save,
\* frontend.UpdateConfig, SetField, SetCaptureDelay).
THEOREM EditsAlwaysExact == SpecConfig => ConfigEditsAreExact
<1>1. InitConfig => EditInv
  BY InitEditInv
<1>2. EditInv /\ [NextConfig]_configVars => EditInv'
  BY EditInvKept
<1>3. EditInv => HistoryIsTheSwitch
  BY DEF EditInv, SwitchOK, HistoryIsTheSwitch
<1>4. EditInv => [\A w \in Editors : SaveEdit(w) =>
                 \A k \in DOMAIN Default : k # FieldOf(edit[w].of) => Load(file')[k] = edit[w].was[k]]_configVars
  BY SavesAreExact
<1>5. EditInv => [\A w \in Editors : SaveEdit(w) => Loads(file')]_configVars
  BY SavesAreExact
<1>6. EditInv => [\A w \in Editors : SaveEdit(w) /\ edit[w].of.op = "remove" =>
                 edit[w].was.rules[edit[w].of.value] = edit[w].shown.rules[edit[w].of.value]]_configVars
  BY SavesAreExact
<1>7. EditInv => [\A w \in Editors : SaveEdit(w) /\ edit[w].of.op = "delay"
                   /\ (\A i, j \in DOMAIN edit[w].was.delays : edit[w].was.delays[i].type = "*" => j <= i) =>
                 ReadDelay(Load(file').delays, edit[w].of.type) = edit[w].of.value]_configVars
  BY SavesAreExact
<1> QED BY <1>1, <1>2, <1>3, <1>4, <1>5, <1>6, <1>7, PTL
        DEF SpecConfig, ConfigEditsAreExact, OtherSettingsStand, OwnFileLoads, OnlyTheSeenIsRemoved, OwnDelayIsRead
=============================================================================
