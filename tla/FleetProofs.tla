---------------------------- MODULE FleetProofs ------------------------------
(***************************************************************************)
(* Theorems about FleetReplica, for any number of nodes, rows and columns, *)
(* every order of edits, pushes, pulls and re-seeds, and every selection   *)
(* of what goes wrong between them.                                        *)
(*                                                                         *)
(* An edit is stamped later than what it replaces because a replica's      *)
(* clock knows of every stamp another node made (ClocksInv), which a pull  *)
(* that holds the clock down keeps, as no such stamp is past the server's  *)
(* ceiling.  An outcome that was not pushed yet stands because no two      *)
(* edits of a column have one stamp (OutcomeInv): then an answer           *)
(* acknowledges the edit it is for.  That needs machines whose clocks are  *)
(* ahead by less than MaxClockLead: else a pull lowers a clock, and a      *)
(* stamp is given twice.                                                   *)
(***************************************************************************)
EXTENDS FleetReplica, FiniteSetsExt, FiniteSetTheorems, SequenceTheorems, WellFoundedInduction, TLAPS

-----------------------------------------------------------------------------
(* Finite sets of numbers *)

LEMMA ImageIsFinite ==
  ASSUME NEW S, IsFiniteSet(S), NEW f, DOMAIN f = S
  PROVE  /\ IsFiniteSet({f[x] : x \in S}) /\ Cardinality({f[x] : x \in S}) <= Cardinality(S)
<1> DEFINE T == {f[x] : x \in S}
           g == [x \in S |-> f[x]]
<1>1. g \in Surjection(S, T)
  BY DEF Surjection
<1> HIDE DEF g, T
<1>2. IsFiniteSet(T) /\ Cardinality(T) <= Cardinality(S)
  BY <1>1, FS_Surjection
<1> QED BY <1>2 DEF T

\* A finite set of numbers has a largest one: the numbers of it that are not below x get fewer.
LEMMA LargestIs ==
  ASSUME NEW S \in SUBSET Nat, IsFiniteSet(S), S # {}
  PROVE  Max(S) \in S /\ \A x \in S : x <= Max(S)
<1> DEFINE From(x) == {y \in S : x <= y}
           P == {From(x) : x \in S}
           R == StrictSubsetOrdering(S)
           F == FiniteSubsetsOf(S)
<1>1. IsWellFoundedOn(R, F)
  BY FS_StrictSubsetOrderingWellFounded
<1>2. P \subseteq F /\ P # {}
  <2>1. ASSUME NEW x \in S PROVE From(x) \in F
    BY FS_Subset DEF FiniteSubsetsOf
  <2> QED BY <2>1
<1>3. PICK p \in P : \A q \in P : ~(<< q, p >> \in R)
  <2> HIDE DEF R, F, P
  <2> QED BY <1>1, <1>2, WFMin
<1>4. PICK m \in S : p = From(m)
  OBVIOUS
<1>5. ASSUME NEW x \in S, ~(x <= m) PROVE FALSE
  <2>0. x \in Nat /\ m \in Nat /\ m < x
    BY <1>5
  <2>1. From(x) \in P /\ From(x) \subseteq From(m) /\ m \in From(m) /\ m \notin From(x)
    <3>1. \A y \in S : x <= y => m <= y
      BY <2>0
    <3>2. From(x) \subseteq From(m)
      BY <3>1
    <3>3. m <= m /\ ~(x <= m)
      BY <2>0
    <3>4. m \in From(m) /\ m \notin From(x)
      BY <3>3
    <3>5. From(x) \in P
      OBVIOUS
    <3> QED BY <3>2, <3>4, <3>5
  <2>2. << From(x), p >> \in R
    BY <1>4, <2>1 DEF StrictSubsetOrdering
  <2> QED BY <1>3, <2>1, <2>2
<1>6. \E x \in S : \A y \in S : x >= y
  BY <1>5
<1> HIDE DEF P, R, F
<1>7. Max(S) \in S /\ \A y \in S : Max(S) >= y
  <2> DEFINE mx == CHOOSE x \in S : \A y \in S : x >= y
  <2>1. mx \in S /\ \A y \in S : mx >= y
    BY <1>6
  <2>2. Max(S) = mx
    BY DEF Max
  <2> QED BY <2>1, <2>2
<1> QED BY <1>7

-----------------------------------------------------------------------------
(* The clocks of a fleet *)

\* What a clock set is made of, as far as its stamps go.
ClockFields == {"row", "has", "alive", "cols", "dirty"}
Stamps == [hlc : Nat, node : Nat]
StampsOf(cl) == {cl.row} \cup {cl.cols[c] : c \in Cols}
IsClock(cl) == DOMAIN cl = ClockFields /\ cl.row \in Stamps /\ cl.cols \in [Cols -> Stamps]

\* No stamp of it is later than a clock value.
NoneAfter(cl, h) == \A s \in StampsOf(cl) : s.hlc <= h

\* A replica's clock knows of every stamp that another node made.
KnownTo(n, cl, h, top) == \A s \in StampsOf(cl) : s.node = n \/ (s.hlc <= h /\ s.hlc <= top)

\* The clocks of a replica
RepFields == {"row", "clocks", "hlc", "off", "outbox", "cursor", "floor", "seeded"}
ReplicaSees(n, r) ==
    /\ DOMAIN r = RepFields
    /\ DOMAIN r.row = Keys /\ DOMAIN r.clocks = Keys
    /\ r.hlc \in Nat
    /\ r.off \in {0, -skew[n]}
    /\ r.outbox \in Seq(Keys)
    /\ \A k \in Keys : IsClock(r.clocks[k]) /\ KnownTo(n, r.clocks[k], r.hlc, Ceiling(wall))

\* Clocks the server holds, or held when they were read
ServerClocks(cls) == \A k \in Keys : IsClock(cls[k]) /\ NoneAfter(cls[k], Ceiling(wall))

\* What the server holds.  Only edits made online advance its own clock.
ServerFields == {"row", "clocks", "hlc", "seq", "log", "pruned", "floor", "triggers", "cursors"}
ServerHolds(s) ==
    /\ DOMAIN s = ServerFields
    /\ ServerClocks(s.clocks)
    /\ s.hlc \in Nat /\ s.hlc <= wall * Grain + edits
    /\ \A e \in s.log : e.key \in Keys

\* What a sync operation carries
JobCarries(j) ==
    /\ j.at \in {"sending", "merging", "clearing"} => j.n \in Nat
    /\ j.at \in {"sending", "merging", "rows", "clocks"} => j.keys \subseteq Keys
    /\ j.at = "sending" => \A k \in Keys : IsClock(j.clocks[k])
    /\ j.at \in {"merging", "clocks", "seeding"} => ServerClocks(j.clocks)

\* The inductive invariant: every stamp in a replica that another node made is one its
\* own clock knows of, and the server's ceiling too.
ClocksInv ==
    /\ wall \in Nat /\ edits \in 0..MaxEdits /\ skew \in [Nodes -> Nat]
    /\ DOMAIN rep = Nodes /\ DOMAIN job = Nodes
    /\ \A n \in Nodes : ReplicaSees(n, rep[n]) /\ JobCarries(job[n])
    /\ ServerHolds(srv)

\* There are finitely many columns.
LEMMA ColsAreFinite == IsFiniteSet(Cols)
<1>1. IsFiniteSet(LatestCols) /\ IsFiniteSet(PushCols)
  BY ReplicaAssumption
<1> QED BY <1>1, FS_Union DEF Cols

\* The stamps of a clock set are finitely many, and its row's is one.
LEMMA StampsAreFinite ==
  ASSUME NEW cl, IsClock(cl)
  PROVE  /\ IsFiniteSet(StampsOf(cl)) /\ StampsOf(cl) # {}
         /\ \A s \in StampsOf(cl) : s \in Stamps /\ s.hlc \in Nat /\ s.node \in Nat
<1>1. IsFiniteSet({cl.cols[c] : c \in Cols})
  BY ColsAreFinite, ImageIsFinite DEF IsClock
<1>2. IsFiniteSet(StampsOf(cl))
  BY <1>1, FS_AddElement, FS_Union, FS_Singleton DEF StampsOf
<1>3. \A s \in StampsOf(cl) : s \in Stamps
  BY DEF StampsOf, IsClock
<1>4. \A s \in Stamps : s.hlc \in Nat /\ s.node \in Nat
  BY DEF Stamps
<1>5. cl.row \in StampsOf(cl)
  BY DEF StampsOf
<1> QED BY <1>2, <1>3, <1>4, <1>5

\* A clock set has a latest stamp.
LEMMA LatestIs ==
  ASSUME NEW cl, IsClock(cl)
  PROVE  Latest(cl) \in StampsOf(cl) /\ \A o \in StampsOf(cl) : ~After(o, Latest(cl))
<1> DEFINE S == StampsOf(cl)
<1>1. IsFiniteSet(S) /\ S # {} /\ \A s \in S : s.hlc \in Nat /\ s.node \in Nat
  BY StampsAreFinite
<1>2. Latest(cl) = CHOOSE s \in S : \A o \in S : ~After(o, s)
  BY DEF Latest, StampsOf
<1> HIDE DEF S
<1> DEFINE H == {s.hlc : s \in S}
<1>3. IsFiniteSet(H)
  <2> DEFINE f == [s \in S |-> s.hlc]
  <2>1. IsFiniteSet({f[s] : s \in S})
    <3>1. DOMAIN f = S
      OBVIOUS
    <3> HIDE DEF f
    <3> QED BY <1>1, <3>1, ImageIsFinite
  <2> QED BY <2>1
<1>4. PICK h \in H : \A x \in H : x <= h
  <2>1. H \in SUBSET Nat /\ H # {}
    BY <1>1
  <2> HIDE DEF H
  <2> QED BY <2>1, <1>3, LargestIs
<1> DEFINE T == {s \in S : s.hlc = h}
           M == {s.node : s \in T}
<1>5. IsFiniteSet(M)
  <2>1. IsFiniteSet(T)
    BY <1>1, FS_Subset
  <2> HIDE DEF T
  <2> DEFINE f == [s \in T |-> s.node]
  <2>2. IsFiniteSet({f[s] : s \in T})
    <3>1. DOMAIN f = T
      OBVIOUS
    <3> HIDE DEF f
    <3> QED BY <2>1, <3>1, ImageIsFinite
  <2> QED BY <2>2
<1>6. PICK m \in M : \A x \in M : x <= m
  <2>1. M \in SUBSET Nat /\ M # {}
    BY <1>1, <1>4
  <2> HIDE DEF M
  <2> QED BY <2>1, <1>5, LargestIs
<1>7. PICK s \in S : s.hlc = h /\ s.node = m
  BY <1>6
<1>8. \A o \in S : ~After(o, s)
  <2> SUFFICES ASSUME NEW o \in S, After(o, s) PROVE FALSE
    OBVIOUS
  <2>1. o.hlc <= s.hlc
    BY <1>4, <1>7
  <2>2. o.hlc = h => o.node <= s.node
    BY <1>6, <1>7
  <2>3. o.hlc \in Nat /\ o.node \in Nat /\ s.hlc \in Nat /\ s.node \in Nat
    BY <1>1
  <2> QED BY <1>7, <2>1, <2>2, <2>3 DEF After
<1>9. Latest(cl) \in S /\ \A o \in S : ~After(o, Latest(cl))
  BY <1>2, <1>8
<1> QED BY <1>9 DEF S

\* So none of its stamps has a later clock value than the latest one.
LEMMA LatestBounds ==
  ASSUME NEW cl, IsClock(cl)
  PROVE  Latest(cl).hlc \in Nat /\ NoneAfter(cl, Latest(cl).hlc)
<1>1. Latest(cl) \in StampsOf(cl) /\ \A o \in StampsOf(cl) : ~After(o, Latest(cl))
  BY LatestIs
<1>2. \A s \in StampsOf(cl) : s.hlc \in Nat
  BY StampsAreFinite
<1> QED BY <1>1, <1>2 DEF NoneAfter, After

\* The later of two stamps is one of them, and no earlier than either.
LEMMA MaxStampIs ==
  ASSUME NEW a \in Stamps, NEW b \in Stamps
  PROVE  MaxStamp(a, b) \in {a, b} /\ a.hlc <= MaxStamp(a, b).hlc /\ b.hlc <= MaxStamp(a, b).hlc
<1>1. a.hlc \in Nat /\ b.hlc \in Nat
  BY DEF Stamps
<1> QED BY <1>1 DEF MaxStamp, After

\* The ceiling is a clock value, and it rises with the time it is for.
LEMMA CeilingRises ==
  ASSUME NEW a \in Nat, NEW b \in Nat, a <= b
  PROVE  Ceiling(a) \in Nat /\ Ceiling(b) \in Nat /\ Ceiling(a) <= Ceiling(b)
<1>1. Lead \in Nat /\ Grain \in Nat
  BY ReplicaAssumption
<1>2. \A x, y, g \in Nat : x <= y => x * g \in Nat /\ y * g \in Nat /\ x * g <= y * g
  OBVIOUS
<1> HIDE DEF Ceiling
<1>3. a + Lead \in Nat /\ b + Lead \in Nat /\ a + Lead <= b + Lead
  BY <1>1
<1> QED BY <1>1, <1>2, <1>3 DEF Ceiling

\* A clock set whose stamps are among another's, and some more, holds no others.
LEMMA StampsAmong ==
  ASSUME NEW d, DOMAIN d = ClockFields, NEW S \in SUBSET Stamps, d.row \in S,
         NEW f, d.cols = [c \in Cols |-> f[c]], \A c \in Cols : f[c] \in S
  PROVE  IsClock(d) /\ StampsOf(d) \subseteq S
BY DEF IsClock, StampsOf

\* Clocks recorded over others: each stamp is one of the two sides'.
LEMMA LaidIs ==
  ASSUME NEW cl, NEW over, IsClock(cl), IsClock(over)
  PROVE  IsClock(Laid(cl, over)) /\ StampsOf(Laid(cl, over)) \subseteq StampsOf(cl) \cup StampsOf(over)
<1> DEFINE f == [c \in Cols |-> MaxStamp(cl.cols[c], over.cols[c])]
           S == StampsOf(cl) \cup StampsOf(over)
           d == Laid(cl, over)
<1>1. S \in SUBSET Stamps
  BY StampsAreFinite
<1>2. DOMAIN d = ClockFields /\ d.row \in S /\ d.cols = f
  BY DEF Laid, IsClock, ClockFields, StampsOf
<1>3. \A c \in Cols : f[c] \in S
  <2> SUFFICES ASSUME NEW c \in Cols PROVE f[c] \in S
    OBVIOUS
  <2>1. cl.cols[c] \in S /\ over.cols[c] \in S
    BY DEF StampsOf
  <2> QED BY <2>1, <1>1, MaxStampIs
<1>4. f = [c \in Cols |-> f[c]]
  OBVIOUS
<1> HIDE DEF f, S, d
<1>5. IsClock(d) /\ StampsOf(d) \subseteq S
  BY <1>1, <1>2, <1>3, <1>4, StampsAmong
<1> QED BY <1>5 DEF d, S

\* A clock set capped for the server has no stamp past its ceiling.
LEMMA CappedIs ==
  ASSUME NEW cl, IsClock(cl), wall \in Nat
  PROVE  /\ IsClock(Capped(cl)) /\ NoneAfter(Capped(cl), Ceiling(wall))
         /\ \A h \in Nat : NoneAfter(cl, h) => NoneAfter(Capped(cl), h)
<1> DEFINE cut(s) == [s EXCEPT !.hlc = MinOf(@, Ceiling(wall))]
           f == [c \in Cols |-> cut(cl.cols[c])]
           S == {s \in Stamps : s.hlc <= Ceiling(wall)}
           d == Capped(cl)
<1>1. Ceiling(wall) \in Nat
  BY CeilingRises
<1>2. \A s \in Stamps : cut(s) \in S
  <2> SUFFICES ASSUME NEW s \in Stamps PROVE cut(s) \in S
    OBVIOUS
  <2>1. s.hlc \in Nat
    BY DEF Stamps
  <2>2. MinOf(s.hlc, Ceiling(wall)) \in Nat /\ MinOf(s.hlc, Ceiling(wall)) <= Ceiling(wall)
    BY <1>1, <2>1 DEF MinOf
  <2>3. cut(s) \in Stamps /\ cut(s).hlc = MinOf(s.hlc, Ceiling(wall))
    BY <2>2 DEF Stamps
  <2> QED BY <2>2, <2>3
<1>3. cl.row \in Stamps /\ \A c \in Cols : cl.cols[c] \in Stamps
  BY DEF IsClock
<1>4. DOMAIN d = ClockFields /\ d.row = cut(cl.row) /\ d.cols = f
  BY DEF Capped, IsClock, ClockFields
<1>5. d.row \in S /\ \A c \in Cols : f[c] \in S
  BY <1>2, <1>3, <1>4
<1>6. f = [c \in Cols |-> f[c]] /\ S \in SUBSET Stamps
  OBVIOUS
<1>7. \A s \in S : s.hlc <= Ceiling(wall)
  OBVIOUS
<1>8. ASSUME NEW h \in Nat, NoneAfter(cl, h) PROVE NoneAfter(d, h)
  <2>1. cl.row.hlc <= h /\ \A c \in Cols : cl.cols[c].hlc <= h
    BY <1>8 DEF NoneAfter, StampsOf
  <2>2. ASSUME NEW s \in Stamps, s.hlc <= h PROVE cut(s).hlc <= h
    <3>1. s.hlc \in Nat /\ cut(s).hlc = MinOf(s.hlc, Ceiling(wall))
      BY DEF Stamps
    <3> HIDE DEF cut
    <3> QED BY <1>1, <2>2, <3>1 DEF MinOf
  <2> HIDE DEF cut, d
  <2>3. d.row.hlc <= h /\ \A c \in Cols : d.cols[c].hlc <= h
    BY <1>3, <1>4, <2>1, <2>2
  <2> QED BY <2>3 DEF NoneAfter, StampsOf
<1> HIDE DEF f, S, d
<1>9. IsClock(d) /\ StampsOf(d) \subseteq S
  BY <1>4, <1>5, <1>6, StampsAmong
<1> QED BY <1>7, <1>8, <1>9 DEF d, NoneAfter

\* What mergeBack leaves of a replica's clocks is theirs, or this node's as the server has it.
LEMMA AcknowledgedIs ==
  ASSUME NEW n, NEW cl, NEW sent, NEW scl, IsClock(cl), IsClock(scl)
  PROVE  LET a == Acknowledged(cl, sent, scl, n)
         IN /\ IsClock(a) /\ \A s \in StampsOf(a) : s \in StampsOf(cl) \/ s.node = n
            /\ \A h \in Nat : NoneAfter(cl, h) => NoneAfter(a, h)
<1> DEFINE cut(s, o) == IF o.node = n /\ s.node = n /\ s.hlc > o.hlc THEN o ELSE s
           f == [c \in Cols |-> cut(cl.cols[c], scl.cols[c])]
           S == StampsOf(cl) \cup {s \in StampsOf(scl) : s.node = n}
           d == Acknowledged(cl, sent, scl, n)
<1>1. S \in SUBSET Stamps
  BY StampsAreFinite
<1>2. DOMAIN d = ClockFields /\ d.row = cut(cl.row, scl.row) /\ d.cols = f
  BY DEF Acknowledged, IsClock, ClockFields
<1>3. d.row \in S /\ \A c \in Cols : f[c] \in S
  BY <1>2 DEF StampsOf
<1>4. f = [c \in Cols |-> f[c]] /\ \A s \in S : s \in StampsOf(cl) \/ s.node = n
  OBVIOUS
<1>5. ASSUME NEW h \in Nat, NoneAfter(cl, h) PROVE NoneAfter(d, h)
  <2>1. /\ cl.row \in Stamps /\ scl.row \in Stamps /\ cl.row.hlc <= h
        /\ \A c \in Cols : cl.cols[c] \in Stamps /\ scl.cols[c] \in Stamps /\ cl.cols[c].hlc <= h
    BY <1>5 DEF NoneAfter, StampsOf, IsClock
  <2>2. ASSUME NEW s \in Stamps, NEW o \in Stamps, s.hlc <= h PROVE cut(s, o).hlc <= h
    <3>1. s.hlc \in Nat /\ o.hlc \in Nat
      BY DEF Stamps
    <3> QED BY <2>2, <3>1
  <2> HIDE DEF cut, d
  <2>3. d.row.hlc <= h /\ \A c \in Cols : d.cols[c].hlc <= h
    BY <1>2, <2>1, <2>2
  <2> QED BY <2>3 DEF NoneAfter, StampsOf
<1> HIDE DEF f, S, d
<1>6. IsClock(d) /\ StampsOf(d) \subseteq S
  BY <1>1, <1>2, <1>3, <1>4, StampsAmong
<1>7. IsClock(d) /\ \A s \in StampsOf(d) : s \in StampsOf(cl) \/ s.node = n
  BY <1>4, <1>6
<1> QED BY <1>5, <1>7 DEF d

\* The stamp of an edit is on what it replaces.
StampIsOn(d, s, was, is) ==
    /\ (was = NoRow \/ is = NoRow) => d.row = s
    /\ ~(was = NoRow \/ is = NoRow) => \A c \in Cols : was[c] # is[c] => d.cols[c] = s

\* An edit's stamp is the one it adds, on the row or on the columns that changed.
LEMMA StampedIs ==
  ASSUME NEW cl, IsClock(cl), NEW s \in Stamps, NEW was, NEW is, NEW unsent
  PROVE  LET d == Stamped(cl, s, was, is, unsent)
         IN /\ IsClock(d) /\ StampsOf(d) \subseteq StampsOf(cl) \cup {s}
            /\ StampIsOn(d, s, was, is)
<1> DEFINE S == StampsOf(cl) \cup {s}
           d == Stamped(cl, s, was, is, unsent)
<1>1. S \in SUBSET Stamps
  BY StampsAreFinite
<1>2. CASE was = NoRow \/ is = NoRow
  <2>1. DOMAIN d = ClockFields /\ d.row = s /\ d.cols = cl.cols
    BY <1>2 DEF Stamped, IsClock, ClockFields
  <2>2. cl.cols = [c \in Cols |-> cl.cols[c]] /\ \A c \in Cols : cl.cols[c] \in S
    BY DEF IsClock, StampsOf
  <2>3. d.row \in S
    BY <2>1
  <2> HIDE DEF S, d
  <2>4. IsClock(d) /\ StampsOf(d) \subseteq S
    BY <1>1, <2>1, <2>2, <2>3, StampsAmong
  <2> QED BY <1>2, <2>1, <2>4 DEF d, S, StampIsOn
<1>3. CASE ~(was = NoRow \/ is = NoRow)
  <2> DEFINE f == [c \in Cols |-> IF was[c] # is[c] THEN s ELSE cl.cols[c]]
  <2>1. DOMAIN d = ClockFields /\ d.row = cl.row /\ d.cols = f
    BY <1>3 DEF Stamped, IsClock, ClockFields
  <2>2. f = [c \in Cols |-> f[c]] /\ d.row \in S /\ \A c \in Cols : f[c] \in S
    BY <2>1 DEF StampsOf
  <2>3. \A c \in Cols : was[c] # is[c] => d.cols[c] = s
    BY <2>1
  <2> HIDE DEF f, S, d
  <2>4. IsClock(d) /\ StampsOf(d) \subseteq S
    BY <1>1, <2>1, <2>2, StampsAmong
  <2> QED BY <1>3, <2>3, <2>4 DEF d, S, StampIsOn
<1> QED BY <1>2, <1>3

\* A clock set some of whose stamps were dropped for their age
LEMMA DroppedIs ==
  ASSUME NEW cl, IsClock(cl), NEW d, DOMAIN d = ClockFields, d.row \in {cl.row, Zero},
         NEW f, d.cols = [c \in Cols |-> f[c]], \A c \in Cols : f[c] \in {cl.cols[c], Zero}
  PROVE  IsClock(d) /\ StampsOf(d) \subseteq StampsOf(cl) \cup {Zero}
<1> DEFINE S == StampsOf(cl) \cup {Zero}
<1>1. Zero \in Stamps
  BY DEF Zero, Stamps
<1>2. S \in SUBSET Stamps
  BY <1>1, StampsAreFinite
<1>3. d.row \in S /\ \A c \in Cols : f[c] \in S
  BY DEF StampsOf
<1> HIDE DEF S
<1> QED BY <1>2, <1>3, StampsAmong DEF S

\* What a replica knows of stays known as its clock and the server's rise.
LEMMA KnownAmong ==
  ASSUME NEW n, NEW cl, NEW h \in Nat, NEW top \in Nat, KnownTo(n, cl, h, top), IsClock(cl),
         NEW h2 \in Nat, NEW top2 \in Nat, h <= h2, top <= top2,
         NEW d, \A s \in StampsOf(d) :
                    s \in StampsOf(cl) \/ s.node = n \/ s = Zero \/ (s.hlc <= h2 /\ s.hlc <= top2)
  PROVE  KnownTo(n, d, h2, top2)
<1> SUFFICES ASSUME NEW s \in StampsOf(d) PROVE s.node = n \/ (s.hlc <= h2 /\ s.hlc <= top2)
  BY DEF KnownTo
<1>1. CASE s \in StampsOf(cl)
  <2>1. s.hlc \in Nat
    BY <1>1, StampsAreFinite
  <2>2. s.node = n \/ (s.hlc <= h /\ s.hlc <= top)
    BY <1>1 DEF KnownTo
  <2> QED BY <2>1, <2>2
<1>2. CASE s = Zero
  BY <1>2 DEF Zero
<1> QED BY <1>1, <1>2

\* The latest stamps of some keys' clocks are finitely many numbers.
LEMMA LatestsAre ==
  ASSUME NEW ks \in SUBSET Keys, NEW cls, \A k \in ks : IsClock(cls[k])
  PROVE  IsFiniteSet({Latest(cls[k]).hlc : k \in ks}) /\ {Latest(cls[k]).hlc : k \in ks} \in SUBSET Nat
<1> DEFINE f == [k \in ks |-> Latest(cls[k]).hlc]
<1>1. IsFiniteSet(ks) /\ DOMAIN f = ks
  BY ReplicaAssumption, FS_Subset
<1>2. {Latest(cls[k]).hlc : k \in ks} = {f[k] : k \in ks}
  OBVIOUS
<1>3. \A k \in ks : Latest(cls[k]).hlc \in Nat
  BY LatestBounds
<1>4. {Latest(cls[k]).hlc : k \in ks} \in SUBSET Nat
  BY <1>3
<1> HIDE DEF f
<1>5. IsFiniteSet({f[k] : k \in ks})
  BY <1>1, ImageIsFinite
<1> QED BY <1>2, <1>4, <1>5

\* The value a merge lifts to is no less than any of them.
LEMMA TopIs ==
  ASSUME NEW L \in SUBSET Nat, IsFiniteSet(L)
  PROVE  LET top == CHOOSE h \in L \cup {0} : \A o \in L : o <= h
         IN  top \in Nat /\ \A o \in L : o <= top
<1>1. \E h \in L \cup {0} : \A o \in L : o <= h
  <2>1. CASE L = {}
    BY <2>1
  <2>2. CASE L # {}
    BY <2>2, LargestIs
  <2> QED BY <2>1, <2>2
<1> DEFINE top == CHOOSE h \in L \cup {0} : \A o \in L : o <= h
<1>2. top \in L \cup {0} /\ \A o \in L : o <= top
  BY <1>1
<1> HIDE DEF top
<1>3. top \in Nat /\ \A o \in L : o <= top
  BY <1>2
<1> QED BY <1>3 DEF top

\* A node's corrected clock is never behind the server's.
LEMMA CorrectedIs ==
  ASSUME NEW n \in Nodes, wall \in Nat, skew \in [Nodes -> Nat], rep[n].off \in {0, -skew[n]}
  PROVE  Corrected(n) \in Nat /\ wall <= Corrected(n)
BY DEF Corrected

\* A merge lifts the replica's clock over every stamp it takes from the server.
LEMMA MergedSees ==
  ASSUME NEW n \in Nodes, wall \in Nat, skew \in [Nodes -> Nat], rep[n].off \in {0, -skew[n]},
         NEW r, ReplicaSees(n, r), NEW ks \in SUBSET Keys, NEW rows, NEW cls, ServerClocks(cls), NEW floor
  PROVE  ReplicaSees(n, Merged(r, n, ks, rows, cls, floor))
<1> DEFINE L == {Latest(cls[k]).hlc : k \in ks}
           top == CHOOSE h \in L \cup {0} : \A o \in L : o <= h
           m == Merged(r, n, ks, rows, cls, floor)
           h2 == MaxOf(r.hlc, MinOf(top, Ceiling(Corrected(n))))
           C == Ceiling(wall)
<1>1. r.hlc \in Nat /\ DOMAIN r = RepFields
  BY DEF ReplicaSees
<1>2. \A k \in Keys : /\ IsClock(r.clocks[k]) /\ KnownTo(n, r.clocks[k], r.hlc, C)
                      /\ IsClock(cls[k]) /\ NoneAfter(cls[k], C)
  BY DEF ReplicaSees, ServerClocks
<1>3. top \in Nat /\ \A k \in ks : NoneAfter(cls[k], top)
  <2>1. \A k \in ks : IsClock(cls[k])
    BY <1>2
  <2>2. IsFiniteSet(L) /\ L \in SUBSET Nat
    BY <2>1, LatestsAre
  <2>3. top \in Nat /\ \A o \in L : o <= top
    <3> HIDE DEF L
    <3> QED BY <2>2, TopIs
  <2>4. ASSUME NEW k \in ks PROVE NoneAfter(cls[k], top)
    <3>1. Latest(cls[k]).hlc \in L
      OBVIOUS
    <3> HIDE DEF top, L
    <3>2. Latest(cls[k]).hlc <= top
      BY <2>3, <3>1
    <3>3. Latest(cls[k]).hlc \in Nat /\ NoneAfter(cls[k], Latest(cls[k]).hlc)
      BY <2>1, LatestBounds
    <3>4. \A s \in StampsOf(cls[k]) : s.hlc \in Nat
      BY <2>1, StampsAreFinite
    <3> QED BY <2>3, <3>2, <3>3, <3>4 DEF NoneAfter
  <2> HIDE DEF top
  <2> QED BY <2>3, <2>4
<1>4. C \in Nat /\ Ceiling(Corrected(n)) \in Nat /\ C <= Ceiling(Corrected(n))
  BY CorrectedIs, CeilingRises
<1>5. m = [r EXCEPT !.row = [k \in Keys |-> IF k \in ks THEN PlanMerge(r.row[k], r.clocks[k], rows[k], cls[k], floor)
                                            ELSE @[k]],
                    !.clocks = [k \in Keys |-> IF k \in ks THEN Laid(@[k], cls[k]) ELSE @[k]],
                    !.hlc = h2]
  BY DEF Merged
<1> HIDE DEF top, L, m, C
<1>6. h2 \in Nat /\ r.hlc <= h2 /\ \A x \in Nat : x <= top /\ x <= C => x <= h2
  BY <1>1, <1>3, <1>4 DEF MaxOf, MinOf
<1> HIDE DEF h2
<1>7. /\ DOMAIN m = RepFields /\ DOMAIN m.row = Keys /\ DOMAIN m.clocks = Keys /\ m.hlc = h2 /\ m.off = r.off /\ m.outbox = r.outbox
      /\ \A k \in Keys : m.clocks[k] = IF k \in ks THEN Laid(r.clocks[k], cls[k]) ELSE r.clocks[k]
  BY <1>1, <1>5 DEF RepFields
<1>8. ASSUME NEW k \in Keys PROVE IsClock(m.clocks[k]) /\ KnownTo(n, m.clocks[k], h2, C)
  <2>1. CASE k \in ks
    <3> DEFINE d == Laid(r.clocks[k], cls[k])
    <3>1. m.clocks[k] = d
      BY <1>7, <2>1
    <3>2. IsClock(d) /\ StampsOf(d) \subseteq StampsOf(r.clocks[k]) \cup StampsOf(cls[k])
      BY <1>2, LaidIs
    <3>3. \A s \in StampsOf(cls[k]) : s.hlc <= h2 /\ s.hlc <= C
      <4>1. \A s \in StampsOf(cls[k]) : s.hlc \in Nat /\ s.hlc <= top /\ s.hlc <= C
        BY <1>2, <1>3, <2>1, StampsAreFinite DEF NoneAfter
      <4> QED BY <4>1, <1>6
    <3> HIDE DEF d
    <3>4. KnownTo(n, d, h2, C)
      <4>1. \A s \in StampsOf(d) : s \in StampsOf(r.clocks[k]) \/ s.node = n \/ s = Zero \/ (s.hlc <= h2 /\ s.hlc <= C)
        BY <3>2, <3>3
      <4>2. C <= C
        BY <1>4
      <4> QED BY <4>1, <4>2, <1>1, <1>2, <1>4, <1>6, KnownAmong
    <3> QED BY <3>1, <3>2, <3>4
  <2>2. CASE k \notin ks
    <3>1. m.clocks[k] = r.clocks[k]
      BY <1>7, <2>2
    <3>2. KnownTo(n, r.clocks[k], h2, C)
      <4>1. C <= C /\ \A s \in StampsOf(r.clocks[k]) : s \in StampsOf(r.clocks[k])
        BY <1>4
      <4> QED BY <4>1, <1>1, <1>2, <1>4, <1>6, KnownAmong
    <3> QED BY <3>1, <3>2, <1>2
  <2> QED BY <2>1, <2>2
<1>9. m.off \in {0, -skew[n]} /\ m.outbox \in Seq(Keys)
  BY <1>7 DEF ReplicaSees
<1> QED BY <1>6, <1>7, <1>8, <1>9 DEF ReplicaSees, m, C

\* The invariant holds before anything was edited.
LEMMA ClocksInvInit == InitReplica => ClocksInv
<1> SUFFICES ASSUME InitReplica PROVE ClocksInv
  OBVIOUS
<1> PICK ahead \in [Nodes -> Skews], lost \in BOOLEAN :
      /\ wall = Retention + 1 /\ skew = ahead /\ edits = 0
      /\ srv = [row |-> [k \in Keys |-> NoRow], clocks |-> [k \in Keys |-> NoClocks], hlc |-> 0,
                seq |-> 0, log |-> {}, pruned |-> 0, floor |-> 0, triggers |-> ~lost,
                cursors |-> [n \in Nodes |-> IF n \in Seeded THEN [seq |-> 0, at |-> Retention + 1]
                                             ELSE [seq |-> -1, at |-> 0]]]
      /\ rep = [n \in Nodes |->
                  [row |-> [k \in Keys |-> NoRow], clocks |-> [k \in Keys |-> NoClocks], hlc |-> 0, off |-> 0,
                   outbox |-> <<>>, cursor |-> 0, floor |-> 0, seeded |-> n \in Seeded]]
      /\ job = [n \in Nodes |-> Idle]
  BY DEF InitReplica
<1>1. wall \in Nat /\ edits \in 0..MaxEdits /\ skew \in [Nodes -> Nat]
  <2>1. Retention \in Nat /\ MaxEdits \in Nat /\ Skews \subseteq Nat
    BY ReplicaAssumption
  <2>2. wall \in Nat /\ edits \in 0..MaxEdits
    BY <2>1
  <2> QED BY <2>1, <2>2
<1>2. IsClock(NoClocks) /\ StampsOf(NoClocks) \subseteq {Zero}
  <2>1. DOMAIN NoClocks = ClockFields /\ NoClocks.row = Zero /\ NoClocks.cols = [c \in Cols |-> Zero]
    BY DEF NoClocks, ClockFields
  <2>2. Zero \in Stamps
    BY DEF Zero, Stamps
  <2> QED BY <2>1, <2>2 DEF IsClock, StampsOf
<1>3. Ceiling(wall) \in Nat
  BY <1>1, CeilingRises
<1>4. NoneAfter(NoClocks, Ceiling(wall)) /\ \A n : KnownTo(n, NoClocks, 0, Ceiling(wall))
  BY <1>2, <1>3 DEF NoneAfter, KnownTo, Zero
<1>5. ASSUME NEW n \in Nodes PROVE ReplicaSees(n, rep[n])
  <2>1. rep[n] = [row |-> [k \in Keys |-> NoRow], clocks |-> [k \in Keys |-> NoClocks], hlc |-> 0, off |-> 0,
                  outbox |-> <<>>, cursor |-> 0, floor |-> 0, seeded |-> n \in Seeded]
    OBVIOUS
  <2>2. DOMAIN rep[n] = RepFields
    BY <2>1 DEF RepFields
  <2>3. rep[n].hlc = 0 /\ rep[n].off = 0 /\ rep[n].outbox = <<>>
    BY <2>1
  <2>4. DOMAIN rep[n].row = Keys /\ DOMAIN rep[n].clocks = Keys /\ \A k \in Keys : rep[n].clocks[k] = NoClocks
    BY <2>1
  <2>5. rep[n].hlc \in Nat /\ rep[n].off \in {0, -skew[n]} /\ rep[n].outbox \in Seq(Keys)
    <3>1. <<>> \in Seq(Keys) /\ 0 \in Nat
      OBVIOUS
    <3>2. rep[n].off \in {0, -skew[n]}
      BY <2>3
    <3> QED BY <2>3, <3>1, <3>2
  <2>6. \A k \in Keys : IsClock(rep[n].clocks[k]) /\ KnownTo(n, rep[n].clocks[k], rep[n].hlc, Ceiling(wall))
    BY <1>2, <1>4, <2>3, <2>4
  <2> QED BY <2>2, <2>4, <2>5, <2>6 DEF ReplicaSees
<1>6. ASSUME NEW n \in Nodes PROVE JobCarries(job[n])
  BY DEF JobCarries, Idle
<1>7. ServerHolds(srv)
  <2>1. DOMAIN srv = ServerFields /\ srv.log = {} /\ srv.hlc = 0 /\ srv.clocks = [k \in Keys |-> NoClocks]
    BY DEF ServerFields
  <2>2. 0 <= wall * Grain + edits
    <3>1. Grain \in Nat /\ wall \in Nat /\ edits = 0
      BY <1>1, ReplicaAssumption
    <3>2. wall * Grain \in Nat
      BY <3>1
    <3> QED BY <3>1, <3>2
  <2> QED BY <1>2, <1>4, <2>1, <2>2 DEF ServerHolds, ServerClocks
<1>8. DOMAIN rep = Nodes /\ DOMAIN job = Nodes
  OBVIOUS
<1> QED BY <1>1, <1>5, <1>6, <1>7, <1>8 DEF ClocksInv

\* A step of one node, at which no time passes, is judged by what it does to its replica,
\* to its operation and to the server.
LEMMA ClocksStep ==
  ASSUME ClocksInv, NEW n \in Nodes, wall' = wall, skew' = skew,
         edits' = edits \/ (edits' = edits + 1 /\ edits < MaxEdits),
         DOMAIN rep' = Nodes, DOMAIN job' = Nodes,
         \A m \in Nodes \ {n} : rep'[m] = rep[m] /\ job'[m] = job[m],
         ReplicaSees(n, rep'[n]), JobCarries(job'[n]),
         ServerHolds(srv')
  PROVE  ClocksInv'
<1>1. ASSUME NEW m \in Nodes PROVE ReplicaSees(m, rep'[m]) /\ JobCarries(job'[m])
  BY <1>1 DEF ClocksInv
<1>2. ASSUME NEW m \in Nodes PROVE ReplicaSees(m, rep[m])' /\ JobCarries(job[m])'
  BY <1>1, <1>2 DEF ReplicaSees, JobCarries, ServerClocks
<1>3. wall' \in Nat /\ edits' \in 0..MaxEdits /\ edits <= edits' /\ skew' \in [Nodes -> Nat]
  <2>1. MaxEdits \in Nat
    BY ReplicaAssumption
  <2> QED BY <2>1 DEF ClocksInv
<1>4. ServerHolds(srv)'
  <2>1. srv'.hlc <= wall' * Grain + edits'
    <3>1. wall * Grain \in Nat /\ edits \in Nat /\ edits' \in Nat
      <4>1. Grain \in Nat /\ wall \in Nat /\ edits \in Nat
        BY ReplicaAssumption DEF ClocksInv
      <4> QED BY <1>3, <4>1
    <3> QED BY <1>3, <3>1 DEF ServerHolds
  <2> QED BY <2>1 DEF ServerHolds, ServerClocks
<1> QED BY <1>2, <1>3, <1>4 DEF ClocksInv

\* An edit's stamp is later than everything the replica's clock knows of.
LEMMA TickedIs ==
  ASSUME ClocksInv, NEW n \in Nodes
  PROVE  Ticked(rep[n].hlc, Corrected(n)) \in Nat /\ rep[n].hlc < Ticked(rep[n].hlc, Corrected(n))
<1>1. Corrected(n) \in Nat
  BY CorrectedIs DEF ClocksInv, ReplicaSees
<1>2. rep[n].hlc \in Nat /\ edits \in Nat /\ Grain \in Nat
  BY ReplicaAssumption DEF ClocksInv, ReplicaSees
<1>3. Corrected(n) * Grain \in Nat
  BY <1>1, <1>2
<1> DEFINE x == Corrected(n) * Grain + (IF "tie" \in Faults THEN 0 ELSE edits)
<1>4. x \in Nat
  <2> HIDE DEF Corrected
  <2>1. CASE "tie" \in Faults
    BY <1>3, <2>1
  <2>2. CASE "tie" \notin Faults
    BY <1>2, <1>3, <2>2
  <2> QED BY <2>1, <2>2
<1>5. Ticked(rep[n].hlc, Corrected(n)) = MaxOf(rep[n].hlc + 1, x)
  BY DEF Ticked
<1> HIDE DEF x
<1> QED BY <1>2, <1>4, <1>5 DEF MaxOf

\* What a local edit writes, stamped v
EditWrites(n, k, new, v) ==
    /\ DOMAIN rep' = Nodes /\ DOMAIN rep'[n] = RepFields
    /\ DOMAIN rep'[n].row = Keys /\ DOMAIN rep'[n].clocks = Keys
    /\ \A m \in Nodes \ {n} : rep'[m] = rep[m]
    /\ rep'[n].hlc = v /\ rep'[n].off = rep[n].off /\ rep'[n].outbox = Append(rep[n].outbox, k)
    /\ rep'[n].row[k] = new
    /\ rep'[n].clocks[k] = Stamped(rep[n].clocks[k], [hlc |-> v, node |-> n], rep[n].row[k], new, TRUE)
    /\ \A o \in Keys \ {k} : rep'[n].row[o] = rep[n].row[o] /\ rep'[n].clocks[o] = rep[n].clocks[o]

LEMMA LocalEditIs ==
  ASSUME ClocksInv, NEW n \in Nodes, NEW k \in Keys, NEW new, LocalEdit(n, k, new)
  PROVE  EditWrites(n, k, new, Ticked(rep[n].hlc, Corrected(n)))
<1> DEFINE v == Ticked(rep[n].hlc, Corrected(n))
<1>1. /\ DOMAIN rep = Nodes /\ DOMAIN rep[n] = RepFields
      /\ DOMAIN rep[n].row = Keys /\ DOMAIN rep[n].clocks = Keys
  BY DEF ClocksInv, ReplicaSees
<1>2. rep' = [rep EXCEPT ![n].row[k] = new,
                         ![n].clocks[k] = Stamped(@, [hlc |-> v, node |-> n], rep[n].row[k], new, TRUE),
                         ![n].hlc = v,
                         ![n].outbox = Append(@, k)]
  BY DEF LocalEdit
<1> HIDE DEF v
<1>3. EditWrites(n, k, new, v)
  BY <1>1, <1>2 DEF RepFields, EditWrites
<1> QED BY <1>3 DEF v

\* The invariant, of a node's replica and of what it carries
LEMMA ClocksOf ==
  ASSUME ClocksInv, NEW n \in Nodes
  PROVE  /\ wall \in Nat /\ edits \in Nat /\ edits <= MaxEdits /\ skew \in [Nodes -> Nat] /\ Ceiling(wall) \in Nat
         /\ DOMAIN rep = Nodes /\ DOMAIN job = Nodes
         /\ ReplicaSees(n, rep[n]) /\ JobCarries(job[n]) /\ rep[n].off \in {0, -skew[n]}
         /\ ServerHolds(srv)
BY CeilingRises DEF ClocksInv, ReplicaSees

LEMMA LocalEditKeeps ==
  ASSUME ClocksInv, NEW n \in Nodes, NEW k \in Keys, NEW new, LocalEdit(n, k, new)
  PROVE  ClocksInv'
<1>0. PICK v : v = Ticked(rep[n].hlc, Corrected(n))
  OBVIOUS
<1> DEFINE s == [hlc |-> v, node |-> n]
           r == rep'[n]
           d == Stamped(rep[n].clocks[k], s, rep[n].row[k], new, TRUE)
<1>1. v \in Nat /\ rep[n].hlc < v
  BY <1>0, TickedIs
<1>2. /\ DOMAIN rep' = Nodes /\ DOMAIN r = RepFields /\ DOMAIN r.row = Keys /\ DOMAIN r.clocks = Keys
      /\ \A m \in Nodes \ {n} : rep'[m] = rep[m]
      /\ r.hlc = v /\ r.off = rep[n].off /\ r.outbox = Append(rep[n].outbox, k)
      /\ \A o \in Keys \ {k} : r.clocks[o] = rep[n].clocks[o]
      /\ r.clocks[k] = d
  <2>1. EditWrites(n, k, new, v)
    BY <1>0, LocalEditIs
  <2> QED BY <2>1 DEF EditWrites
<1> HIDE DEF r, d
<1>3. UNCHANGED << wall, skew, job, srv >> /\ edits' = edits + 1 /\ edits < MaxEdits
  BY DEF LocalEdit
<1>4. /\ Ceiling(wall) \in Nat /\ DOMAIN job = Nodes /\ JobCarries(job[n])
      /\ ReplicaSees(n, rep[n]) /\ ServerHolds(srv)
  BY ClocksOf
<1>5. s \in Stamps
  <2>1. n \in Nat
    BY ReplicaAssumption
  <2> QED BY <1>1, <2>1 DEF Stamps
<1>6. \A o \in Keys : IsClock(rep[n].clocks[o]) /\ KnownTo(n, rep[n].clocks[o], rep[n].hlc, Ceiling(wall))
  BY <1>4 DEF ReplicaSees
<1>7. IsClock(d) /\ StampsOf(d) \subseteq StampsOf(rep[n].clocks[k]) \cup {s}
  BY <1>5, <1>6, StampedIs DEF d
<1>8. rep[n].hlc \in Nat /\ rep[n].hlc <= v /\ Ceiling(wall) <= Ceiling(wall)
  BY <1>1, <1>4 DEF ReplicaSees
<1>9. KnownTo(n, d, v, Ceiling(wall))
  <2>1. s.node = n
    OBVIOUS
  <2>2. \A x \in StampsOf(d) : x \in StampsOf(rep[n].clocks[k]) \/ x.node = n
    BY <1>7, <2>1
  <2> HIDE DEF s
  <2> QED BY <1>1, <1>4, <1>6, <1>8, <2>2, KnownAmong
<1>10. ASSUME NEW o \in Keys PROVE IsClock(r.clocks[o]) /\ KnownTo(n, r.clocks[o], v, Ceiling(wall))
  <2>1. CASE o = k
    BY <1>2, <1>7, <1>9, <2>1
  <2>2. CASE o # k
    <3>1. KnownTo(n, rep[n].clocks[o], v, Ceiling(wall))
      <4>1. \A x \in StampsOf(rep[n].clocks[o]) : x \in StampsOf(rep[n].clocks[o])
        OBVIOUS
      <4> QED BY <1>1, <1>4, <1>6, <1>8, <4>1, KnownAmong
    <3> QED BY <1>2, <1>6, <2>2, <3>1
  <2> QED BY <2>1, <2>2
<1>11. r.off \in {0, -skew[n]} /\ r.outbox \in Seq(Keys)
  BY <1>2, <1>4 DEF ReplicaSees
<1>12. ReplicaSees(n, r)
  BY <1>1, <1>2, <1>10, <1>11 DEF ReplicaSees
<1> QED BY <1>2, <1>3, <1>4, <1>12, ClocksStep DEF r

\* What a push reads is keys and their clocks.
LEMMA ReadOutboxCarries ==
  ASSUME ClocksInv, NEW n \in Nodes, NEW seeding
  PROVE  JobCarries(ReadOutbox(n, seeding))
<1>1. rep[n].outbox \in Seq(Keys) /\ \A k \in Keys : IsClock(rep[n].clocks[k])
  BY ClocksOf DEF ReplicaSees
<1>2. {rep[n].outbox[i] : i \in 1..Len(rep[n].outbox)} \subseteq Keys /\ Len(rep[n].outbox) \in Nat
  BY <1>1
<1> QED BY <1>1, <1>2 DEF ReadOutbox, JobCarries

LEMMA PushKeeps ==
  ASSUME ClocksInv, NEW n \in Nodes, Push(n)
  PROVE  ClocksInv'
<1>1. job' = [job EXCEPT ![n] = ReadOutbox(n, ~rep[n].seeded)] /\ UNCHANGED << wall, skew, rep, srv, edits >>
  BY DEF Push
<1>2. JobCarries(ReadOutbox(n, ~rep[n].seeded))
  BY ReadOutboxCarries
<1>3. /\ DOMAIN rep = Nodes /\ DOMAIN job = Nodes /\ ReplicaSees(n, rep[n])
      /\ ServerHolds(srv)
  BY ClocksOf
<1> QED BY <1>1, <1>2, <1>3, ClocksStep

LEMMA PushCommitsKeeps ==
  ASSUME ClocksInv, NEW n \in Nodes, PushCommits(n)
  PROVE  ClocksInv'
<1>1. /\ DOMAIN rep = Nodes /\ DOMAIN job = Nodes /\ ReplicaSees(n, rep[n])
      /\ ServerHolds(srv) /\ JobCarries(job[n]) /\ wall \in Nat
      /\ Ceiling(wall) \in Nat
  BY ClocksOf
<1> DEFINE cl == [k \in Keys |-> IF k \in job[n].keys
                                 THEN Laid(srv.clocks[k], Capped([job[n].clocks[k] EXCEPT !.dirty = {}]))
                                 ELSE srv.clocks[k]]
<1>2. ServerClocks(cl)
  <2> SUFFICES ASSUME NEW k \in Keys PROVE IsClock(cl[k]) /\ NoneAfter(cl[k], Ceiling(wall))
    BY DEF ServerClocks
  <2>1. IsClock(srv.clocks[k]) /\ NoneAfter(srv.clocks[k], Ceiling(wall))
    BY <1>1 DEF ServerHolds, ServerClocks
  <2>2. CASE k \in job[n].keys
    <3> DEFINE sent == [job[n].clocks[k] EXCEPT !.dirty = {}]
    <3>1. IsClock(job[n].clocks[k])
      BY <1>1 DEF JobCarries, PushCommits
    <3>2. IsClock(sent)
      BY <3>1 DEF IsClock, ClockFields
    <3> HIDE DEF sent
    <3>3. IsClock(Capped(sent)) /\ NoneAfter(Capped(sent), Ceiling(wall))
      BY <1>1, <3>2, CappedIs
    <3>4. /\ IsClock(Laid(srv.clocks[k], Capped(sent)))
          /\ StampsOf(Laid(srv.clocks[k], Capped(sent))) \subseteq StampsOf(srv.clocks[k]) \cup StampsOf(Capped(sent))
      BY <2>1, <3>3, LaidIs
    <3>5. NoneAfter(Laid(srv.clocks[k], Capped(sent)), Ceiling(wall))
      BY <2>1, <3>3, <3>4 DEF NoneAfter
    <3>6. cl[k] = Laid(srv.clocks[k], Capped(sent))
      BY <2>2 DEF sent
    <3> QED BY <3>4, <3>5, <3>6
  <2>3. CASE k \notin job[n].keys
    BY <2>1, <2>3
  <2> QED BY <2>2, <2>3
<1>3. PICK seq, log : /\ srv' = [srv EXCEPT !.row = job'[n].rows, !.clocks = cl, !.seq = seq, !.log = log]
                      /\ \A e \in log : e \in srv.log \/ e.key \in job[n].keys
  <2> DEFINE row == [k \in Keys |-> IF k \in job[n].keys THEN Pushed(srv, k, job[n].rows[k], job[n].clocks[k])
                                    ELSE srv.row[k]]
             touched == {k \in job[n].keys : ~(srv.row[k] = NoRow /\ row[k] = NoRow)}
             entries == [k \in touched |-> [seq |-> srv.seq + Cardinality({o \in touched : o <= k}),
                                            key |-> k, origin |-> n, at |-> wall]]
             seq == IF srv.triggers THEN srv.seq + Cardinality(touched) ELSE srv.seq
             log == IF srv.triggers THEN srv.log \cup {entries[k] : k \in touched} ELSE srv.log
  <2>1. /\ srv' = [srv EXCEPT !.row = row, !.clocks = cl, !.seq = seq, !.log = log]
        /\ job' = [job EXCEPT ![n] = [at |-> "merging", seeding |-> job[n].seeding, n |-> job[n].n, keys |-> job[n].keys,
                                      sent |-> job[n].clocks, rows |-> row, clocks |-> cl, floor |-> job[n].floor]]
    BY DEF PushCommits
  <2>2. \A k \in touched : entries[k].key = k /\ k \in job[n].keys
    OBVIOUS
  <2>3. \A e \in log : e \in srv.log \/ e.key \in job[n].keys
    <3> HIDE DEF entries, touched
    <3> QED BY <2>2
  <2> HIDE DEF row, cl, seq, log, touched, entries
  <2>4. job'[n].rows = row
    BY <1>1, <2>1
  <2> QED BY <2>1, <2>3, <2>4
<1> HIDE DEF cl
<1>4. /\ DOMAIN job' = Nodes /\ \A m \in Nodes \ {n} : job'[m] = job[m]
      /\ job'[n].at = "merging" /\ job'[n].n = job[n].n /\ job'[n].keys = job[n].keys /\ job'[n].clocks = cl
  BY <1>1 DEF PushCommits, cl
<1>5. job[n].keys \subseteq Keys /\ job[n].n \in Nat
  BY <1>1 DEF JobCarries, PushCommits
<1>6. JobCarries(job'[n])
  BY <1>2, <1>4, <1>5 DEF JobCarries
<1>7. UNCHANGED << wall, skew, rep, edits >>
  BY DEF PushCommits
<1>8. ServerHolds(srv')
  <2>1. DOMAIN srv' = ServerFields /\ srv'.clocks = cl /\ srv'.log = log /\ srv'.hlc = srv.hlc
    BY <1>1, <1>3 DEF ServerHolds, ServerFields
  <2> QED BY <1>1, <1>2, <1>3, <1>5, <2>1 DEF ServerHolds
<1> QED BY <1>1, <1>4, <1>6, <1>7, <1>8, ClocksStep

\* A replica whose row, cursor, floor or outbox changed sees what it saw.
LEMMA SeesAsBefore ==
  ASSUME NEW n, NEW r, ReplicaSees(n, r), NEW q, DOMAIN q = RepFields, q.row = r.row, q.clocks = r.clocks,
         q.hlc = r.hlc, q.off = r.off, q.outbox \in Seq(Keys)
  PROVE  ReplicaSees(n, q)
BY DEF ReplicaSees

\* A replica whose sent edits were acknowledged
Acked(n) ==
    [rep[n] EXCEPT !.clocks = [k \in Keys |->
       IF k \in job[n].keys THEN Acknowledged(@[k], job[n].sent[k], job[n].clocks[k], n) ELSE @[k]]]

LEMMA AckedSees ==
  ASSUME ClocksInv, NEW n \in Nodes, job[n].at = "merging"
  PROVE  /\ ReplicaSees(n, Acked(n)) /\ job[n].keys \subseteq Keys /\ ServerClocks(job[n].clocks)
         /\ Acked(n).row = rep[n].row /\ Acked(n).hlc = rep[n].hlc
         /\ \A k \in Keys : Acked(n).clocks[k] = IF k \in job[n].keys
                              THEN Acknowledged(rep[n].clocks[k], job[n].sent[k], job[n].clocks[k], n)
                              ELSE rep[n].clocks[k]
<1> DEFINE acked == Acked(n)
<1>1. ReplicaSees(n, rep[n]) /\ JobCarries(job[n]) /\ Ceiling(wall) \in Nat
  BY ClocksOf
<1>2. job[n].keys \subseteq Keys /\ ServerClocks(job[n].clocks)
  BY <1>1 DEF JobCarries
<1>3. /\ DOMAIN acked = RepFields /\ acked.row = rep[n].row /\ acked.hlc = rep[n].hlc
      /\ acked.off = rep[n].off /\ acked.outbox = rep[n].outbox /\ DOMAIN acked.clocks = Keys
      /\ \A k \in Keys : acked.clocks[k] = IF k \in job[n].keys
                           THEN Acknowledged(rep[n].clocks[k], job[n].sent[k], job[n].clocks[k], n)
                           ELSE rep[n].clocks[k]
  BY <1>1 DEF ReplicaSees, RepFields, Acked
<1> HIDE DEF acked
<1>4. rep[n].hlc \in Nat /\ \A k \in Keys : /\ IsClock(rep[n].clocks[k])
                                            /\ KnownTo(n, rep[n].clocks[k], rep[n].hlc, Ceiling(wall))
  BY <1>1 DEF ReplicaSees
<1>5. ASSUME NEW k \in Keys
      PROVE  IsClock(acked.clocks[k]) /\ KnownTo(n, acked.clocks[k], rep[n].hlc, Ceiling(wall))
  <2>1. CASE k \in job[n].keys
    <3> DEFINE a == Acknowledged(rep[n].clocks[k], job[n].sent[k], job[n].clocks[k], n)
    <3>1. IsClock(job[n].clocks[k])
      BY <1>2 DEF ServerClocks
    <3>2. IsClock(a) /\ \A s \in StampsOf(a) : s \in StampsOf(rep[n].clocks[k]) \/ s.node = n
      BY <1>4, <3>1, AcknowledgedIs
    <3>3. acked.clocks[k] = a
      BY <1>3, <2>1
    <3> HIDE DEF a
    <3>4. KnownTo(n, a, rep[n].hlc, Ceiling(wall))
      <4>1. rep[n].hlc <= rep[n].hlc /\ Ceiling(wall) <= Ceiling(wall)
        BY <1>1, <1>4
      <4> QED BY <1>1, <1>4, <3>2, <4>1, KnownAmong
    <3> QED BY <3>2, <3>3, <3>4
  <2>2. CASE k \notin job[n].keys
    BY <1>3, <1>4, <2>2
  <2> QED BY <2>1, <2>2
<1>6. ReplicaSees(n, acked)
  BY <1>1, <1>3, <1>4, <1>5 DEF ReplicaSees
<1> QED BY <1>2, <1>3, <1>6 DEF acked

\* mergeBack: what was sent is acknowledged, then the server's answer is merged.
LEMMA MergeBackKeeps ==
  ASSUME ClocksInv, NEW n \in Nodes, MergeBack(n)
  PROVE  ClocksInv'
<1>1. /\ DOMAIN rep = Nodes /\ DOMAIN job = Nodes /\ ServerHolds(srv) /\ JobCarries(job[n])
      /\ wall \in Nat /\ skew \in [Nodes -> Nat] /\ rep[n].off \in {0, -skew[n]}
  BY ClocksOf
<1>2. /\ rep' = [rep EXCEPT ![n] = Merged(Acked(n), n, job[n].keys, job[n].rows, job[n].clocks, job[n].floor)]
      /\ job' = [job EXCEPT ![n] = [at |-> "clearing", seeding |-> job[n].seeding, n |-> job[n].n]]
      /\ UNCHANGED << wall, skew, srv, edits >>
  BY DEF MergeBack, Acked
<1>3. ReplicaSees(n, Acked(n)) /\ job[n].keys \subseteq Keys /\ ServerClocks(job[n].clocks)
  BY AckedSees DEF MergeBack
<1>4. ReplicaSees(n, Merged(Acked(n), n, job[n].keys, job[n].rows, job[n].clocks, job[n].floor))
  BY <1>1, <1>3, MergedSees
<1>5. JobCarries(job'[n])
  <2>1. job[n].n \in Nat
    BY <1>1 DEF JobCarries, MergeBack
  <2> QED BY <1>1, <1>2, <2>1 DEF JobCarries
<1> QED BY <1>1, <1>2, <1>4, <1>5, ClocksStep

LEMMA ClearOutboxKeeps ==
  ASSUME ClocksInv, NEW n \in Nodes, ClearOutbox(n)
  PROVE  ClocksInv'
<1>1. /\ DOMAIN rep = Nodes /\ DOMAIN job = Nodes /\ ReplicaSees(n, rep[n]) /\ ServerHolds(srv)
  BY ClocksOf
<1> DEFINE ob == SubSeq(rep[n].outbox, job[n].n + 1, Len(rep[n].outbox))
<1>2. /\ rep' = [rep EXCEPT ![n].outbox = ob]
      /\ job' = [job EXCEPT ![n] = IF job[n].seeding THEN [at |-> "head"] ELSE Idle]
      /\ UNCHANGED << wall, skew, srv, edits >>
  BY DEF ClearOutbox
<1>3. ob \in Seq(Keys)
  <2>1. job[n].n \in Nat /\ rep[n].outbox \in Seq(Keys)
    BY ClocksOf DEF JobCarries, ClearOutbox, ReplicaSees
  <2>2. Len(rep[n].outbox) \in Nat /\ Len(rep[n].outbox) <= Len(rep[n].outbox) /\ 1 <= job[n].n + 1
    BY <2>1
  <2> QED BY <2>1, <2>2, SubSeqProperties
<1> HIDE DEF ob
<1>4. /\ DOMAIN rep'[n] = RepFields /\ rep'[n].row = rep[n].row /\ rep'[n].clocks = rep[n].clocks
      /\ rep'[n].hlc = rep[n].hlc /\ rep'[n].off = rep[n].off /\ rep'[n].outbox = ob
  BY <1>1, <1>2 DEF ReplicaSees, RepFields
<1>5. ReplicaSees(n, rep'[n])
  BY <1>1, <1>3, <1>4, SeesAsBefore
<1>6. JobCarries(job'[n])
  BY <1>1, <1>2 DEF JobCarries, Idle
<1> QED BY <1>1, <1>2, <1>5, <1>6, ClocksStep

\* The offset measured by a pull keeps the clock over what the replica knows of.
LEMMA MeasuredSees ==
  ASSUME ClocksInv, NEW n \in Nodes
  PROVE  ReplicaSees(n, Measured(n))
<1>1. /\ ReplicaSees(n, rep[n]) /\ wall \in Nat /\ skew \in [Nodes -> Nat] /\ Ceiling(wall) \in Nat
  BY ClocksOf
<1> DEFINE off == IF skew[n] < Deadband THEN 0 ELSE -skew[n]
           m == Measured(n)
           top == Ceiling(wall + skew[n] + off)
           h2 == MinOf(rep[n].hlc, top)
<1>2. off \in {0, -skew[n]}
  OBVIOUS
<1>3. m = [rep[n] EXCEPT !.off = off, !.hlc = h2]
  BY DEF Measured
<1> HIDE DEF off, m
<1>4. wall + skew[n] + off \in Nat /\ wall <= wall + skew[n] + off
  BY <1>1, <1>2
<1>5. top \in Nat /\ Ceiling(wall) <= top
  BY <1>1, <1>4, CeilingRises
<1> HIDE DEF top
<1>6. rep[n].hlc \in Nat /\ \A k \in Keys : /\ IsClock(rep[n].clocks[k])
                                            /\ KnownTo(n, rep[n].clocks[k], rep[n].hlc, Ceiling(wall))
  BY <1>1 DEF ReplicaSees
<1>7. h2 \in Nat /\ \A x \in Nat : x <= rep[n].hlc /\ x <= Ceiling(wall) => x <= h2
  BY <1>1, <1>5, <1>6 DEF MinOf
<1> HIDE DEF h2
<1>8. /\ DOMAIN m = RepFields /\ m.row = rep[n].row /\ m.clocks = rep[n].clocks /\ m.outbox = rep[n].outbox
      /\ m.hlc = h2 /\ m.off = off
  BY <1>1, <1>3 DEF ReplicaSees, RepFields
<1>9. ASSUME NEW k \in Keys PROVE KnownTo(n, rep[n].clocks[k], h2, Ceiling(wall))
  <2>1. \A s \in StampsOf(rep[n].clocks[k]) : s.hlc \in Nat
    BY <1>6, StampsAreFinite
  <2> QED BY <1>6, <1>7, <2>1 DEF KnownTo
<1>10. ReplicaSees(n, m)
  BY <1>1, <1>2, <1>6, <1>7, <1>8, <1>9 DEF ReplicaSees
<1> QED BY <1>10 DEF m

\* A server whose triggers were put back holds the same clocks.
LEMMA ReinstalledHolds ==
  ASSUME ServerHolds(srv)
  PROVE  ServerHolds(Reinstalled(srv))
<1> DEFINE s == Reinstalled(srv)
<1>1. DOMAIN s = ServerFields /\ s.clocks = srv.clocks /\ s.log = srv.log /\ s.hlc = srv.hlc
  BY DEF Reinstalled, ServerHolds, ServerFields
<1> HIDE DEF s
<1>2. ServerHolds(s)
  BY <1>1 DEF ServerHolds
<1> QED BY <1>2 DEF s

LEMMA PullKeeps ==
  ASSUME ClocksInv, NEW n \in Nodes, Pull(n)
  PROVE  ClocksInv'
<1>1. /\ DOMAIN rep = Nodes /\ DOMAIN job = Nodes /\ ReplicaSees(n, rep[n])
      /\ ServerHolds(srv) /\ JobCarries(job[n])
  BY ClocksOf
<1>2. UNCHANGED << wall, skew, edits >>
  BY DEF Pull
<1>3. ReplicaSees(n, Measured(n)) /\ ServerHolds(Reinstalled(srv)) /\ JobCarries(ReadOutbox(n, TRUE))
  BY <1>1, MeasuredSees, ReinstalledHolds, ReadOutboxCarries
<1>4. /\ job' = job \/ \E j : job' = [job EXCEPT ![n] = j] /\ JobCarries(j)
      /\ rep' = rep \/ \E r : rep' = [rep EXCEPT ![n] = r] /\ ReplicaSees(n, r)
      /\ ServerHolds(srv')
  <2> DEFINE r == rep[n]
             entries == {e \in srv.log : e.seq > r.cursor}
             maxSeq == CHOOSE s \in {e.seq : e \in entries} : \A e \in entries : e.seq <= s
             keys == {e.key : e \in {x \in entries : x.origin # n}}
             quiet == [Measured(n) EXCEPT !.floor = srv.floor]
             rows == [at |-> "rows", cursor |-> maxSeq, floor |-> srv.floor, keys |-> keys]
  <2>1. \/ job' = [job EXCEPT ![n] = ReadOutbox(n, TRUE)] /\ UNCHANGED << rep, srv >>
        \/ srv' = Reinstalled(srv) /\ rep' = [rep EXCEPT ![n] = Measured(n)] /\ UNCHANGED job
        \/ /\ rep' = [rep EXCEPT ![n] = Measured(n)] /\ job' = [job EXCEPT ![n] = ReadOutbox(n, TRUE)]
           /\ UNCHANGED srv
        \/ /\ rep' = [rep EXCEPT ![n] = quiet] /\ job' = [job EXCEPT ![n] = [at |-> "keep"]]
           /\ UNCHANGED srv
        \/ rep' = [rep EXCEPT ![n] = Measured(n)] /\ job' = [job EXCEPT ![n] = rows] /\ UNCHANGED srv
    BY DEF Pull
  <2>2. ReplicaSees(n, quiet)
    <3> DEFINE m == Measured(n)
    <3> HIDE DEF m
    <3>1. ReplicaSees(n, m)
      BY <1>3 DEF m
    <3> DEFINE q == [m EXCEPT !.floor = srv.floor]
    <3>2. /\ DOMAIN q = RepFields /\ q.row = m.row /\ q.clocks = m.clocks /\ q.hlc = m.hlc /\ q.off = m.off
          /\ q.outbox \in Seq(Keys)
      BY <3>1 DEF ReplicaSees, RepFields
    <3> HIDE DEF q
    <3>3. ReplicaSees(n, q)
      BY <3>1, <3>2, SeesAsBefore
    <3> QED BY <3>3 DEF q, m
  <2>3. JobCarries(rows)
    <3>1. keys \subseteq Keys
      BY <1>1 DEF ServerHolds
    <3> HIDE DEF keys, maxSeq
    <3> QED BY <3>1 DEF JobCarries
  <2>4. JobCarries([at |-> "keep"])
    BY DEF JobCarries
  <2> HIDE DEF quiet, rows
  <2> QED BY <1>1, <1>3, <2>1, <2>2, <2>3, <2>4
<1>5. DOMAIN rep' = Nodes /\ (\A m \in Nodes \ {n} : rep'[m] = rep[m]) /\ ReplicaSees(n, rep'[n])
  BY <1>1, <1>4
<1>6. DOMAIN job' = Nodes /\ (\A m \in Nodes \ {n} : job'[m] = job[m]) /\ JobCarries(job'[n])
  BY <1>1, <1>4
<1> QED BY <1>1, <1>2, <1>4, <1>5, <1>6, ClocksStep

LEMMA FetchRowsKeeps ==
  ASSUME ClocksInv, NEW n \in Nodes, FetchRows(n)
  PROVE  ClocksInv'
<1>1. /\ DOMAIN rep = Nodes /\ DOMAIN job = Nodes /\ ReplicaSees(n, rep[n])
      /\ ServerHolds(srv) /\ JobCarries(job[n])
  BY ClocksOf
<1>2. job[n].keys \subseteq Keys
  BY <1>1 DEF JobCarries, FetchRows
<1>3. /\ DOMAIN job' = Nodes /\ \A m \in Nodes \ {n} : job'[m] = job[m]
      /\ job'[n].at = "clocks" /\ job'[n].keys = job[n].keys /\ job'[n].clocks = srv.clocks
      /\ UNCHANGED << wall, skew, rep, srv, edits >>
  BY <1>1 DEF FetchRows
<1>4. JobCarries(job'[n])
  BY <1>1, <1>2, <1>3 DEF JobCarries, ServerHolds
<1> QED BY <1>1, <1>3, <1>4, ClocksStep

LEMMA ReseedPagesKeeps ==
  ASSUME ClocksInv, NEW n \in Nodes, ReseedPages(n)
  PROVE  ClocksInv'
<1>1. /\ DOMAIN rep = Nodes /\ DOMAIN job = Nodes /\ ReplicaSees(n, rep[n]) /\ ServerHolds(srv)
  BY ClocksOf
<1>2. /\ DOMAIN job' = Nodes /\ \A m \in Nodes \ {n} : job'[m] = job[m]
      /\ job'[n].at = "seeding" /\ job'[n].clocks = srv.clocks
      /\ UNCHANGED << wall, skew, rep, srv, edits >>
  BY <1>1 DEF ReseedPages
<1>3. JobCarries(job'[n])
  BY <1>1, <1>2 DEF JobCarries, ServerHolds
<1> QED BY <1>1, <1>2, <1>3, ClocksStep

LEMMA ReseedHeadKeeps ==
  ASSUME ClocksInv, NEW n \in Nodes, ReseedHead(n)
  PROVE  ClocksInv'
<1>1. /\ DOMAIN rep = Nodes /\ DOMAIN job = Nodes /\ ServerHolds(srv)
  BY ClocksOf
<1>2. PICK head : /\ rep' = [rep EXCEPT ![n] = Measured(n)]
                  /\ job' = [job EXCEPT ![n] = [at |-> "pages", cursor |-> head, floor |-> srv.floor]]
                  /\ UNCHANGED << wall, skew, srv, edits >>
  BY DEF ReseedHead
<1>3. ReplicaSees(n, Measured(n))
  BY MeasuredSees
<1>4. JobCarries(job'[n])
  BY <1>1, <1>2 DEF JobCarries
<1> QED BY <1>1, <1>2, <1>3, <1>4, ClocksStep

\* The clocks that came with the rows are the server's, whether torn or not.
LEMMA ReadWithHolds ==
  ASSUME ClocksInv, NEW j, ServerClocks(j.clocks)
  PROVE  ServerClocks(ReadWith(j))
BY DEF ReadWith, ClocksInv, ServerHolds

LEMMA ApplyPullKeeps ==
  ASSUME ClocksInv, NEW n \in Nodes, ApplyPull(n)
  PROVE  ClocksInv'
<1>1. /\ DOMAIN rep = Nodes /\ DOMAIN job = Nodes /\ ReplicaSees(n, rep[n])
      /\ ServerHolds(srv) /\ JobCarries(job[n]) /\ wall \in Nat /\ skew \in [Nodes -> Nat]
      /\ rep[n].off \in {0, -skew[n]}
  BY ClocksOf
<1>2. job[n].keys \subseteq Keys /\ ServerClocks(ReadWith(job[n]))
  BY <1>1, ReadWithHolds DEF JobCarries, ApplyPull
<1> DEFINE m == Merged(rep[n], n, job[n].keys, job[n].rows, ReadWith(job[n]), job[n].floor)
           q == [m EXCEPT !.floor = job[n].floor, !.cursor = job[n].cursor]
<1>3. ReplicaSees(n, m)
  BY <1>1, <1>2, MergedSees
<1>4. /\ rep' = [rep EXCEPT ![n] = q] /\ job' = [job EXCEPT ![n] = [at |-> "keep"]]
      /\ UNCHANGED << wall, skew, srv, edits >>
  BY DEF ApplyPull
<1> HIDE DEF m
<1>5. /\ DOMAIN q = RepFields /\ q.row = m.row /\ q.clocks = m.clocks /\ q.hlc = m.hlc /\ q.off = m.off
      /\ q.outbox \in Seq(Keys)
  BY <1>3 DEF ReplicaSees, RepFields
<1> HIDE DEF q
<1>6. ReplicaSees(n, q)
  BY <1>3, <1>5, SeesAsBefore
<1>7. JobCarries(job'[n])
  BY <1>1, <1>4 DEF JobCarries
<1> QED BY <1>1, <1>4, <1>6, <1>7, ClocksStep

LEMMA ApplySeedKeeps ==
  ASSUME ClocksInv, NEW n \in Nodes, ApplySeed(n)
  PROVE  ClocksInv'
<1>1. /\ DOMAIN rep = Nodes /\ DOMAIN job = Nodes /\ ReplicaSees(n, rep[n])
      /\ ServerHolds(srv) /\ JobCarries(job[n]) /\ wall \in Nat /\ skew \in [Nodes -> Nat]
      /\ rep[n].off \in {0, -skew[n]}
  BY ClocksOf
<1>2. ServerClocks(ReadWith(job[n]))
  BY <1>1, ReadWithHolds DEF JobCarries, ApplySeed
<1> DEFINE m == Merged(rep[n], n, Keys, job[n].rows, ReadWith(job[n]), job[n].floor)
           q == [m EXCEPT !.floor = job[n].floor, !.cursor = job[n].cursor, !.seeded = TRUE]
<1>3. ReplicaSees(n, m)
  BY <1>1, <1>2, MergedSees
<1>4. /\ rep' = [rep EXCEPT ![n] = q] /\ job' = [job EXCEPT ![n] = Idle]
      /\ srv' = [srv EXCEPT !.cursors[n] = [seq |-> job[n].cursor, at |-> wall]]
      /\ UNCHANGED << wall, skew, edits >>
  BY DEF ApplySeed
<1> HIDE DEF m
<1>5. /\ DOMAIN q = RepFields /\ q.row = m.row /\ q.clocks = m.clocks /\ q.hlc = m.hlc /\ q.off = m.off
      /\ q.outbox \in Seq(Keys)
  BY <1>3 DEF ReplicaSees, RepFields
<1> HIDE DEF q
<1>6. ReplicaSees(n, q)
  BY <1>3, <1>5, SeesAsBefore
<1>7. JobCarries(job'[n])
  BY <1>1, <1>4 DEF JobCarries, Idle
<1>8. ServerHolds(srv')
  <2>1. DOMAIN srv' = ServerFields /\ srv'.clocks = srv.clocks /\ srv'.log = srv.log /\ srv'.hlc = srv.hlc
    BY <1>1, <1>4 DEF ServerHolds, ServerFields
  <2> QED BY <1>1, <2>1 DEF ServerHolds
<1> QED BY <1>1, <1>4, <1>6, <1>7, <1>8, ClocksStep

\* Pruning the server's log drops clocks and entries, and adds none.
LEMMA PrunedHolds ==
  ASSUME NEW s, ServerHolds(s), Ceiling(wall) \in Nat
  PROVE  ServerHolds(Pruned(s))
<1> DEFINE horizon == wall - Retention
           old(st) == st.hlc < horizon * Grain
           drop(cl) == [cl EXCEPT !.row = IF old(@) THEN Zero ELSE @,
                                  !.has = @ /\ ~old(cl.row),
                                  !.alive = IF old(cl.row) THEN TRUE ELSE @,
                                  !.cols = [c \in Cols |-> IF old(@[c]) THEN Zero ELSE @[c]]]
           p == Pruned(s)
<1>1. ASSUME NEW cl, IsClock(cl), NoneAfter(cl, Ceiling(wall))
      PROVE  IsClock(drop(cl)) /\ NoneAfter(drop(cl), Ceiling(wall))
  <2> DEFINE d == drop(cl)
             f == [c \in Cols |-> IF old(cl.cols[c]) THEN Zero ELSE cl.cols[c]]
  <2> HIDE DEF old
  <2>1. DOMAIN d = ClockFields /\ d.row \in {cl.row, Zero} /\ d.cols = f
    BY <1>1 DEF IsClock, ClockFields
  <2>2. f = [c \in Cols |-> f[c]] /\ \A c \in Cols : f[c] \in {cl.cols[c], Zero}
    OBVIOUS
  <2> HIDE DEF d, f
  <2>3. IsClock(d) /\ StampsOf(d) \subseteq StampsOf(cl) \cup {Zero}
    BY <1>1, <2>1, <2>2, DroppedIs
  <2>4. NoneAfter(d, Ceiling(wall))
    BY <1>1, <2>3 DEF NoneAfter, Zero
  <2> QED BY <2>3, <2>4 DEF d
<1>2. PICK prn, gone, floor : p = [s EXCEPT !.pruned = prn, !.log = s.log \ gone, !.floor = floor,
                                            !.clocks = [k \in Keys |-> drop(s.clocks[k])]]
  BY DEF Pruned
<1> HIDE DEF drop, p
<1>3. DOMAIN p = ServerFields /\ p.log \subseteq s.log /\ p.hlc = s.hlc /\ p.clocks = [k \in Keys |-> drop(s.clocks[k])]
  BY <1>2 DEF ServerHolds, ServerFields
<1>4. ASSUME NEW k \in Keys PROVE IsClock(p.clocks[k]) /\ NoneAfter(p.clocks[k], Ceiling(wall))
  <2>1. IsClock(s.clocks[k]) /\ NoneAfter(s.clocks[k], Ceiling(wall))
    BY DEF ServerHolds, ServerClocks
  <2>2. p.clocks[k] = drop(s.clocks[k])
    BY <1>3
  <2> QED BY <1>1, <2>1, <2>2
<1>5. ServerHolds(p)
  BY <1>3, <1>4 DEF ServerHolds, ServerClocks
<1> QED BY <1>5 DEF p

\* Pruning a replica's clocks drops some of them, and adds none.
LEMMA LocalPrunedSees ==
  ASSUME NEW n, NEW r, ReplicaSees(n, r), Ceiling(wall) \in Nat
  PROVE  ReplicaSees(n, LocalPruned(r))
<1> DEFINE old(st) == st.hlc < r.floor
           drop(cl) == [cl EXCEPT !.row = IF old(@) THEN Zero ELSE @,
                                  !.has = @ /\ ~old(cl.row),
                                  !.alive = IF old(cl.row) THEN TRUE ELSE @,
                                  !.cols = [c \in Cols |-> IF old(@[c]) THEN Zero ELSE @[c]],
                                  !.dirty = (IF old(cl.row) THEN @ \ {"row"} ELSE @) \ {c \in Cols : old(cl.cols[c])}]
           waits == {r.outbox[i] : i \in 1..Len(r.outbox)}
           p == LocalPruned(r)
<1>1. ASSUME NEW cl, IsClock(cl), KnownTo(n, cl, r.hlc, Ceiling(wall))
      PROVE  IsClock(drop(cl)) /\ KnownTo(n, drop(cl), r.hlc, Ceiling(wall))
  <2> DEFINE d == drop(cl)
             f == [c \in Cols |-> IF old(cl.cols[c]) THEN Zero ELSE cl.cols[c]]
  <2> HIDE DEF old
  <2>1. DOMAIN d = ClockFields /\ d.row \in {cl.row, Zero} /\ d.cols = f
    BY <1>1 DEF IsClock, ClockFields
  <2>2. f = [c \in Cols |-> f[c]] /\ \A c \in Cols : f[c] \in {cl.cols[c], Zero}
    OBVIOUS
  <2> HIDE DEF d, f
  <2>3. IsClock(d) /\ StampsOf(d) \subseteq StampsOf(cl) \cup {Zero}
    BY <1>1, <2>1, <2>2, DroppedIs
  <2>4. KnownTo(n, d, r.hlc, Ceiling(wall))
    <3>1. r.hlc \in Nat /\ r.hlc <= r.hlc /\ Ceiling(wall) <= Ceiling(wall)
      BY DEF ReplicaSees
    <3>2. \A s \in StampsOf(d) : s \in StampsOf(cl) \/ s = Zero
      BY <2>3
    <3> QED BY <1>1, <3>1, <3>2, KnownAmong
  <2> QED BY <2>3, <2>4 DEF d
<1>2. p = [r EXCEPT !.clocks = [k \in Keys |-> IF k \in waits THEN r.clocks[k] ELSE drop(r.clocks[k])]]
  BY DEF LocalPruned
<1> HIDE DEF drop, p, waits
<1>3. /\ DOMAIN p = RepFields /\ p.row = r.row /\ p.hlc = r.hlc /\ p.off = r.off /\ p.outbox = r.outbox
      /\ p.clocks = [k \in Keys |-> IF k \in waits THEN r.clocks[k] ELSE drop(r.clocks[k])]
  BY <1>2 DEF ReplicaSees, RepFields
<1>4. ASSUME NEW k \in Keys
      PROVE  IsClock(p.clocks[k]) /\ KnownTo(n, p.clocks[k], r.hlc, Ceiling(wall))
  <2>1. IsClock(r.clocks[k]) /\ KnownTo(n, r.clocks[k], r.hlc, Ceiling(wall))
    BY DEF ReplicaSees
  <2>2. p.clocks[k] = r.clocks[k] \/ p.clocks[k] = drop(r.clocks[k])
    BY <1>3
  <2> QED BY <1>1, <2>1, <2>2
<1>5. DOMAIN p.clocks = Keys
  BY <1>3
<1>6. ReplicaSees(n, p)
  BY <1>3, <1>4, <1>5 DEF ReplicaSees
<1> QED BY <1>6 DEF p

LEMMA HousekeepKeeps ==
  ASSUME ClocksInv, NEW n \in Nodes, NEW prune \in BOOLEAN, Housekeep(n, prune)
  PROVE  ClocksInv'
<1>1. /\ DOMAIN rep = Nodes /\ DOMAIN job = Nodes /\ ReplicaSees(n, rep[n])
      /\ ServerHolds(srv) /\ Ceiling(wall) \in Nat
  BY ClocksOf
<1> DEFINE published == [srv EXCEPT !.cursors[n] = [seq |-> rep[n].cursor, at |-> wall]]
<1>2. /\ srv' = IF prune THEN Pruned(published) ELSE published
      /\ rep' = IF prune THEN [rep EXCEPT ![n] = LocalPruned(rep[n])] ELSE rep
      /\ job' = [job EXCEPT ![n] = Idle] /\ UNCHANGED << wall, skew, edits >>
  BY DEF Housekeep
<1>3. ServerHolds(published)
  <2>1. DOMAIN published = ServerFields /\ published.clocks = srv.clocks /\ published.log = srv.log /\ published.hlc = srv.hlc
    BY <1>1 DEF ServerHolds, ServerFields
  <2> HIDE DEF published
  <2> QED BY <1>1, <2>1 DEF ServerHolds
<1> HIDE DEF published
<1>4. ServerHolds(srv')
  BY <1>1, <1>2, <1>3, PrunedHolds
<1>5. ReplicaSees(n, LocalPruned(rep[n]))
  BY <1>1, LocalPrunedSees
<1>6. JobCarries(job'[n])
  BY <1>1, <1>2 DEF JobCarries, Idle
<1>7. DOMAIN rep' = Nodes /\ (\A m \in Nodes \ {n} : rep'[m] = rep[m]) /\ ReplicaSees(n, rep'[n])
  BY <1>1, <1>2, <1>5
<1> QED BY <1>1, <1>2, <1>4, <1>6, <1>7, ClocksStep

LEMMA InterruptedKeeps ==
  ASSUME ClocksInv, NEW n \in Nodes, Interrupted(n)
  PROVE  ClocksInv'
<1>1. /\ DOMAIN rep = Nodes /\ DOMAIN job = Nodes /\ ReplicaSees(n, rep[n]) /\ ServerHolds(srv)
  BY ClocksOf
<1>2. PICK next \in {Idle, [at |-> "head"]} : job' = [job EXCEPT ![n] = next]
  BY DEF Interrupted
<1>3. UNCHANGED << wall, skew, rep, srv, edits >>
  BY DEF Interrupted
<1>4. JobCarries(job'[n])
  BY <1>1, <1>2 DEF JobCarries, Idle
<1> QED BY <1>1, <1>2, <1>3, <1>4, ClocksStep

\* As time passes the server's ceiling rises over what it holds.
LEMMA TickKeeps ==
  ASSUME ClocksInv, Tick
  PROVE  ClocksInv'
<1>1. UNCHANGED << skew, rep, job, srv, edits >> /\ wall' = wall + 1
  BY DEF Tick
<1>2. wall \in Nat /\ wall' \in Nat
  BY <1>1 DEF ClocksInv
<1>3. Ceiling(wall) \in Nat /\ Ceiling(wall') \in Nat /\ Ceiling(wall) <= Ceiling(wall')
  BY <1>1, <1>2, CeilingRises
<1>4. \A cl, n, h : IsClock(cl) /\ KnownTo(n, cl, h, Ceiling(wall)) => KnownTo(n, cl, h, Ceiling(wall'))
  <2>1. ASSUME NEW cl, IsClock(cl), NEW s \in StampsOf(cl), s.hlc <= Ceiling(wall) PROVE s.hlc <= Ceiling(wall')
    BY <1>3, <2>1, StampsAreFinite
  <2> QED BY <2>1 DEF KnownTo
<1>5. \A cls : ServerClocks(cls) => \A k \in Keys : IsClock(cls[k]) /\ NoneAfter(cls[k], Ceiling(wall'))
  <2>1. ASSUME NEW cl, IsClock(cl), NEW s \in StampsOf(cl), s.hlc <= Ceiling(wall) PROVE s.hlc <= Ceiling(wall')
    BY <1>3, <2>1, StampsAreFinite
  <2> QED BY <2>1 DEF ServerClocks, NoneAfter
<1>6. ASSUME NEW n \in Nodes PROVE ReplicaSees(n, rep[n])' /\ JobCarries(job[n])'
  <2>1. ReplicaSees(n, rep[n]) /\ JobCarries(job[n])
    BY DEF ClocksInv
  <2>2. ReplicaSees(n, rep[n])'
    BY <1>1, <1>4, <2>1 DEF ReplicaSees
  <2>3. JobCarries(job[n])'
    BY <1>1, <1>5, <2>1 DEF JobCarries, ServerClocks
  <2> QED BY <2>2, <2>3
<1>7. ServerHolds(srv)'
  <2>1. srv.hlc \in Nat /\ srv.hlc <= wall' * Grain + edits
    <3>1. Grain \in Nat /\ edits \in Nat /\ srv.hlc \in Nat /\ srv.hlc <= wall * Grain + edits
      BY ReplicaAssumption DEF ClocksInv, ServerHolds
    <3>2. wall * Grain \in Nat /\ wall' * Grain = wall * Grain + Grain
      BY <1>1, <1>2, <3>1
    <3> QED BY <3>1, <3>2
  <2> QED BY <1>1, <1>5, <2>1 DEF ClocksInv, ServerHolds, ServerClocks
<1> QED BY <1>1, <1>2, <1>6, <1>7 DEF ClocksInv

\* A time before the ceiling's is a tick away from it.
LEMMA CeilingIsFar ==
  ASSUME NEW x \in Nat, wall \in Nat, x < wall + Lead
  PROVE  /\ x * Grain \in Nat /\ Grain \in Nat /\ Ceiling(wall) \in Nat
         /\ x * Grain + Grain <= Ceiling(wall)
<1>1. Lead \in Nat /\ Grain \in Nat
  BY ReplicaAssumption
<1>2. \A a, b, g \in Nat : a < b => a * g \in Nat /\ b * g \in Nat /\ a * g + g <= b * g
  <2> SUFFICES ASSUME NEW a \in Nat, NEW b \in Nat, NEW g \in Nat, a < b
               PROVE  a * g \in Nat /\ b * g \in Nat /\ a * g + g <= b * g
    OBVIOUS
  <2>1. a + 1 <= b /\ (a + 1) * g = a * g + g
    OBVIOUS
  <2>2. (a + 1) * g <= b * g
    <3>1. \A y, z \in Nat : y <= z => y * g <= z * g
      OBVIOUS
    <3> QED BY <2>1, <3>1
  <2> QED BY <2>1, <2>2
<1>3. wall + Lead \in Nat
  BY <1>1
<1> QED BY <1>1, <1>2, <1>3 DEF Ceiling

\* What an edit made online writes, stamped v
OnlineWrites(k, v) ==
    /\ DOMAIN srv' = ServerFields /\ srv'.hlc \in {v, srv.hlc}
    /\ \A e \in srv'.log : e \in srv.log \/ e.key = k
    /\ \A o \in Keys : /\ IsClock(srv'.clocks[o])
                       /\ StampsOf(srv'.clocks[o]) \subseteq StampsOf(srv.clocks[o]) \cup {[hlc |-> v, node |-> 0]}

\* A node that works online stamps with the server's clock, which is by the wall clock.
LEMMA OnlineEditIs ==
  ASSUME ClocksInv, NEW k \in Keys, NEW new, OnlineEdit(k, new)
  PROVE  \E v \in Nat : v <= wall * Grain + edits + 1 /\ OnlineWrites(k, v)
<1> DEFINE s == Logged([srv EXCEPT !.row[k] = new], k, 0)
           v == Ticked(srv.hlc, wall)
           stamp == [hlc |-> v, node |-> 0]
           d == Stamped(srv.clocks[k], stamp, srv.row[k], new, FALSE)
<1>1. /\ wall * Grain \in Nat /\ edits \in Nat
      /\ srv.hlc \in Nat /\ srv.hlc <= wall * Grain + edits /\ ServerHolds(srv)
  <2>1. wall \in Nat /\ Grain \in Nat /\ edits \in Nat
    BY ReplicaAssumption DEF ClocksInv
  <2> QED BY <2>1 DEF ClocksInv, ServerHolds
<1>2. v \in Nat /\ v <= wall * Grain + edits + 1
  <2>1. v = MaxOf(srv.hlc + 1, wall * Grain + (IF "tie" \in Faults THEN 0 ELSE edits))
    BY DEF Ticked
  <2> HIDE DEF v
  <2>2. CASE "tie" \in Faults
    BY <1>1, <2>1, <2>2 DEF MaxOf
  <2>3. CASE "tie" \notin Faults
    BY <1>1, <2>1, <2>3 DEF MaxOf
  <2> QED BY <2>2, <2>3
<1>3. srv' = IF srv.triggers
             THEN [s EXCEPT !.clocks[k] = Stamped(@, [hlc |-> v, node |-> 0], srv.row[k], new, FALSE), !.hlc = v]
             ELSE s
  BY DEF OnlineEdit
<1> HIDE DEF v
<1>4. stamp \in Stamps
  BY <1>2 DEF Stamps
<1>5. \A o \in Keys : IsClock(srv.clocks[o])
  BY <1>1 DEF ServerHolds, ServerClocks
<1>6. /\ DOMAIN s = ServerFields /\ s.clocks = srv.clocks /\ s.hlc = srv.hlc
      /\ \A e \in s.log : e \in srv.log \/ e.key = k
  BY <1>1 DEF Logged, ServerHolds, ServerFields
<1> HIDE DEF stamp
<1>7. IsClock(d) /\ StampsOf(d) \subseteq StampsOf(srv.clocks[k]) \cup {stamp}
  BY <1>4, <1>5, StampedIs
<1> HIDE DEF s, d
<1>8. /\ DOMAIN srv' = ServerFields /\ srv'.log = s.log /\ srv'.hlc \in {v, srv.hlc}
      /\ \A o \in Keys : srv'.clocks[o] = srv.clocks[o] \/ (o = k /\ srv'.clocks[o] = d)
  <2>1. CASE srv.triggers
    <3> DEFINE cls == [srv.clocks EXCEPT ![k] = d]
    <3>1. srv' = [s EXCEPT !.clocks = cls, !.hlc = v]
      BY <1>3, <1>6, <2>1 DEF d, stamp
    <3>2. \A o \in Keys : cls[o] = srv.clocks[o] \/ (o = k /\ cls[o] = d)
      OBVIOUS
    <3> HIDE DEF cls
    <3> QED BY <1>6, <3>1, <3>2 DEF ServerFields
  <2>2. CASE ~srv.triggers
    BY <1>3, <1>6, <2>2
  <2> QED BY <2>1, <2>2
<1>9. OnlineWrites(k, v)
  BY <1>5, <1>6, <1>7, <1>8 DEF OnlineWrites, stamp
<1> QED BY <1>2, <1>9

\* What it stamps is below the ceiling.
LEMMA OnlineEditKeeps ==
  ASSUME ClocksInv, 1 <= Lead, NEW k \in Keys, NEW new, OnlineEdit(k, new)
  PROVE  ClocksInv'
<1>1. UNCHANGED << wall, skew, rep, job >> /\ edits' = edits + 1 /\ edits < MaxEdits
  BY DEF OnlineEdit
<1>2. /\ wall \in Nat /\ edits \in Nat /\ MaxEdits \in Nat /\ MaxEdits < Grain /\ Lead \in Nat
      /\ srv.hlc \in Nat /\ srv.hlc <= wall * Grain + edits /\ ServerHolds(srv)
  BY ReplicaAssumption DEF ClocksInv, ServerHolds
<1>3. wall * Grain \in Nat /\ Grain \in Nat /\ Ceiling(wall) \in Nat /\ wall * Grain + Grain <= Ceiling(wall)
  BY <1>2, CeilingIsFar
<1>4. PICK v \in Nat : v <= wall * Grain + edits + 1 /\ OnlineWrites(k, v)
  BY OnlineEditIs
<1>5. v <= wall * Grain + edits' /\ v <= Ceiling(wall)
  BY <1>1, <1>2, <1>3, <1>4
<1>6. ASSUME NEW o \in Keys PROVE IsClock(srv'.clocks[o]) /\ NoneAfter(srv'.clocks[o], Ceiling(wall))
  <2>1. NoneAfter(srv.clocks[o], Ceiling(wall))
    BY <1>2 DEF ServerHolds, ServerClocks
  <2> QED BY <1>4, <1>5, <2>1 DEF OnlineWrites, NoneAfter
<1>7. srv'.hlc \in Nat /\ srv'.hlc <= wall * Grain + edits'
  <2>1. srv'.hlc \in {v, srv.hlc}
    BY <1>4 DEF OnlineWrites
  <2> QED BY <1>1, <1>2, <1>3, <1>5, <2>1
<1>8. ServerHolds(srv)'
  <2>1. DOMAIN srv' = ServerFields /\ \A e \in srv'.log : e.key \in Keys
    BY <1>2, <1>4 DEF OnlineWrites, ServerHolds
  <2> QED BY <1>1, <1>6, <1>7, <2>1 DEF ServerHolds, ServerClocks
<1>9. wall' \in Nat /\ edits' \in 0..MaxEdits /\ skew' \in [Nodes -> Nat]
  BY <1>1, <1>2 DEF ClocksInv
<1> QED BY <1>1, <1>8, <1>9 DEF ClocksInv, ReplicaSees, JobCarries, ServerClocks

\* No step of a fleet leaves the invariant.
LEMMA ClocksInvStep ==
  ASSUME "online" \notin Faults \/ 1 <= Lead
  PROVE  ClocksInv /\ [NextReplica]_replicaVars => ClocksInv'
<1> SUFFICES ASSUME ClocksInv, [NextReplica]_replicaVars PROVE ClocksInv'
  OBVIOUS
<1>1. CASE UNCHANGED replicaVars
  BY <1>1 DEF replicaVars, ClocksInv, ReplicaSees, JobCarries, ServerHolds, ServerClocks
<1>2. ASSUME NEW n \in Nodes, SyncStep(n) PROVE ClocksInv'
  BY <1>2, PushKeeps, PushCommitsKeeps, MergeBackKeeps, ClearOutboxKeeps, PullKeeps, FetchRowsKeeps,
     ApplyPullKeeps, ReseedHeadKeeps, ReseedPagesKeeps, ApplySeedKeeps, HousekeepKeeps DEF SyncStep
<1>3. ASSUME NEW n \in Nodes, Interrupted(n) PROVE ClocksInv'
  BY <1>3, InterruptedKeeps
<1>4. ASSUME NEW n \in Nodes, NEW k \in Keys, NEW new, LocalEdit(n, k, new) PROVE ClocksInv'
  BY <1>4, LocalEditKeeps
<1>5. ASSUME NEW k \in Keys, NEW new, OnlineEdit(k, new) PROVE ClocksInv'
  BY <1>5, OnlineEditKeeps DEF OnlineEdit
<1>6. CASE Tick
  BY <1>6, TickKeeps
<1> QED BY <1>1, <1>2, <1>3, <1>4, <1>5, <1>6 DEF NextReplica

\* A stamp later than all that is known is later than what it replaces.
LEMMA LaterThanKnown ==
  ASSUME NEW n, NEW cl, IsClock(cl), NEW h \in Nat, NEW top, KnownTo(n, cl, h, top),
         NEW s \in Stamps, h < s.hlc, NEW row, NEW new
  PROVE  LaterStamps(n, row, new, cl, Stamped(cl, s, row, new, TRUE))
<1> DEFINE d == Stamped(cl, s, row, new, TRUE)
<1>1. StampIsOn(d, s, row, new)
  BY StampedIs
<1> HIDE DEF d
<1>2. ASSUME NEW x \in StampsOf(cl) PROVE x.node = n \/ After(s, x)
  <2>1. x.hlc \in Nat /\ s.hlc \in Nat
    BY StampsAreFinite DEF Stamps
  <2> QED BY <2>1 DEF KnownTo, After
<1>3. CASE row = NoRow \/ new = NoRow
  <2>1. Latest(cl) \in StampsOf(cl)
    BY LatestIs
  <2>2. LaterStamps(n, row, new, cl, d)
    BY <1>1, <1>2, <1>3, <2>1 DEF LaterStamps, StampIsOn
  <2> QED BY <2>2 DEF d
<1>4. CASE ~(row = NoRow \/ new = NoRow)
  <2>1. \A c \in Cols : Eff(cl, c) \in StampsOf(cl)
    BY DEF Eff, MaxStamp, StampsOf
  <2>2. LaterStamps(n, row, new, cl, d)
    BY <1>1, <1>2, <1>4, <2>1 DEF LaterStamps, StampIsOn
  <2> QED BY <2>2 DEF d
<1> QED BY <1>3, <1>4

\* The step EditsAreLaterThanSeen asks for
EditIsLater ==
  edits' # edits =>
     /\ \A n \in Nodes, k \in Keys : rep'[n].row[k] # rep[n].row[k] =>
            LaterStamps(n, rep[n].row[k], rep'[n].row[k], rep[n].clocks[k], rep'[n].clocks[k])
     /\ \A k \in Keys : srv'.row[k] # srv.row[k] =>
            LaterStamps(0, srv.row[k], srv'.row[k], srv.clocks[k], srv'.clocks[k])

LEMMA EditIsLaterStep ==
  ASSUME "online" \notin Faults, ClocksInv, NextReplica
  PROVE  EditIsLater
<1> SUFFICES ASSUME edits' # edits PROVE EditIsLater
  BY DEF EditIsLater
<1>0. PICK n \in Nodes, k \in Keys : \E new : LocalEdit(n, k, new)
  <2>1. ASSUME NEW m \in Nodes, SyncStep(m) \/ Interrupted(m) PROVE FALSE
    BY <2>1 DEF SyncStep, Interrupted, Push, PushCommits, MergeBack, ClearOutbox, Pull, FetchRows, ApplyPull,
       ReseedHead, ReseedPages, ApplySeed, Housekeep
  <2>2. ASSUME Tick PROVE FALSE
    BY <2>2 DEF Tick
  <2>3. ASSUME NEW k, NEW new, OnlineEdit(k, new) PROVE FALSE
    BY <2>3 DEF OnlineEdit
  <2> QED BY <2>1, <2>2, <2>3 DEF NextReplica
<1>1. PICK new : LocalEdit(n, k, new)
  BY <1>0
<1>2. PICK v : v = Ticked(rep[n].hlc, Corrected(n))
  OBVIOUS
<1>3. v \in Nat /\ rep[n].hlc < v
  BY <1>2, TickedIs
<1>4. EditWrites(n, k, new, v)
  BY <1>1, <1>2, LocalEditIs
<1> DEFINE s == [hlc |-> v, node |-> n]
<1>5. s \in Stamps /\ s.hlc = v
  <2>1. n \in Nat
    BY ReplicaAssumption
  <2> QED BY <1>3, <2>1 DEF Stamps
<1>6. rep'[n].row[k] = new /\ rep'[n].clocks[k] = Stamped(rep[n].clocks[k], s, rep[n].row[k], new, TRUE)
  BY <1>4 DEF EditWrites
<1> HIDE DEF s
<1>7. LaterStamps(n, rep[n].row[k], rep'[n].row[k], rep[n].clocks[k], rep'[n].clocks[k])
  <2>1. /\ rep[n].hlc \in Nat /\ IsClock(rep[n].clocks[k])
        /\ KnownTo(n, rep[n].clocks[k], rep[n].hlc, Ceiling(wall))
    BY DEF ClocksInv, ReplicaSees
  <2>2. rep[n].hlc < s.hlc
    BY <1>3, <1>5
  <2>3. LaterStamps(n, rep[n].row[k], new, rep[n].clocks[k], Stamped(rep[n].clocks[k], s, rep[n].row[k], new, TRUE))
    BY <1>5, <2>1, <2>2, LaterThanKnown
  <2> QED BY <1>6, <2>3
<1>8. \A m \in Nodes, o \in Keys : rep'[m].row[o] # rep[m].row[o] => m = n /\ o = k
  BY <1>4 DEF EditWrites
<1>9. srv' = srv
  BY <1>1 DEF LocalEdit
<1> QED BY <1>7, <1>8, <1>9 DEF EditIsLater

\* clock.go 12-15: an edit made on a replica is stamped later than every stamp of another
\* node that it replaces, for any number of nodes, rows and columns, whatever order the
\* pushes, the pulls and the re-seeds come in, whatever is interrupted, lost, pruned, torn
\* or edited in the same millisecond, and however far the machines' clocks are ahead; as
\* long as no node works online (one that does is stamped by the server, whose clock no
\* push raises).
THEOREM EditsAlwaysLaterThanSeen ==
  ASSUME "online" \notin Faults
  PROVE  SpecReplica => EditsAreLaterThanSeen
<1>1. InitReplica => ClocksInv
  BY ClocksInvInit
<1>2. ClocksInv /\ [NextReplica]_replicaVars => ClocksInv'
  BY ClocksInvStep
<1>3. ClocksInv /\ [NextReplica]_replicaVars => [EditIsLater]_replicaVars
  BY EditIsLaterStep
<1> QED BY <1>1, <1>2, <1>3, PTL DEF SpecReplica, EditsAreLaterThanSeen, EditIsLater

-----------------------------------------------------------------------------
(* The outcome of an escalation that was not pushed yet *)

\* No machine's clock is ahead by as much as MaxClockLead.
ClocksAreNear == \A s \in Skews : s < Lead

\* Then no stamp and no node's clock is past this value, a tick before the ceiling.
Reach == Ceiling(wall) - Grain + edits

\* A push took this row and these clocks from the replica, whose own are row and cl now:
\* either the row was inserted or deleted since, or the columns not edited since are as sent.
SentStands(row, cl, sentRow, sent) ==
    /\ cl.row = sent.row =>
          /\ row = NoRow <=> sentRow = NoRow
          /\ \A c \in PushCols : cl.cols[c] = sent.cols[c] /\ c \in cl.dirty =>
                c \in sent.dirty /\ (row # NoRow => row[c] = sentRow[c])
    /\ cl.row # sent.row => "row" \in cl.dirty /\ (row # NoRow => cl.alive)

\* The same of what the server answered
AnswerStands(row, cl, srow, sent) ==
    /\ cl.row = sent.row =>
          \A c \in PushCols : cl.cols[c] = sent.cols[c] /\ c \in cl.dirty /\ row # NoRow /\ srow # NoRow =>
                srow[c] = row[c]
    /\ cl.row # sent.row => "row" \in cl.dirty /\ (row # NoRow => cl.alive)

\* Clocks none of which is past h
ClocksWithin(cls, h) == \A k \in Keys : NoneAfter(cls[k], h)

\* What an operation carries is within reach, and stands in the replica.
CarriesWithin(r, j, reach) ==
    /\ j.at \in {"sending", "merging", "clocks", "seeding"} => ClocksWithin(j.clocks, reach)
    /\ j.at = "sending" =>
          /\ ClocksWithin(j.clocks, r.hlc)
          /\ \A k \in Keys : SentStands(r.row[k], r.clocks[k], j.rows[k], j.clocks[k])
    /\ j.at = "merging" =>
          /\ ClocksWithin(j.sent, r.hlc)
          /\ \A k \in Keys : IsClock(j.sent[k])
          /\ \A k \in j.keys : AnswerStands(r.row[k], r.clocks[k], j.rows[k], j.sent[k])

\* A replica's clock is within reach and over every stamp the replica holds.
ReplicaWithin(r, reach) == r.hlc <= reach /\ ClocksWithin(r.clocks, r.hlc)

\* The inductive invariant, on top of ClocksInv
OutcomeInv ==
    /\ skew \in [Nodes -> Skews]
    /\ ClocksWithin(srv.clocks, Reach)
    /\ \A n \in Nodes : ReplicaWithin(rep[n], Reach) /\ CarriesWithin(rep[n], job[n], Reach)

LEMMA PushColsAre == PushCols \subseteq Cols /\ "row" \in {"row"}
BY DEF Cols

\* No later than a value, no later than a greater one.
LEMMA NoneAfterRises ==
  ASSUME NEW cl, IsClock(cl), NEW a \in Nat, NEW b \in Nat, a <= b, NoneAfter(cl, a)
  PROVE  NoneAfter(cl, b)
<1>1. \A s \in StampsOf(cl) : s.hlc \in Nat
  BY StampsAreFinite
<1> QED BY <1>1 DEF NoneAfter

\* The reach is a tick short of the ceiling, give or take the edits within a tick.
LEMMA ReachIs ==
  ASSUME ClocksInv, ClocksAreNear
  PROVE  /\ 1 <= Lead /\ Lead \in Nat /\ Ceiling(wall) \in Nat /\ Grain \in Nat /\ Grain <= Ceiling(wall)
         /\ edits \in Nat /\ wall \in Nat /\ Reach \in Nat /\ Reach <= Ceiling(wall)
<1>1. /\ Lead \in Nat /\ Grain \in Nat /\ wall \in Nat /\ edits \in Nat /\ MaxEdits \in Nat
      /\ edits <= MaxEdits /\ MaxEdits < Grain /\ 0 \in Skews /\ Skews \subseteq Nat
  BY ReplicaAssumption DEF ClocksInv
<1>2. 0 < Lead
  BY <1>1 DEF ClocksAreNear
<1>3. Ceiling(wall) \in Nat /\ 0 * Grain + Grain <= Ceiling(wall)
  BY <1>1, <1>2, CeilingIsFar
<1>4. 0 * Grain = 0
  BY <1>1
<1> QED BY <1>1, <1>2, <1>3, <1>4 DEF Reach

\* A merge leaves a replica's clock within reach, and over what it merged.
LEMMA MergedWithin ==
  ASSUME ClocksInv, ClocksAreNear, NEW n \in Nodes, NEW r, ReplicaSees(n, r), ReplicaWithin(r, Reach),
         NEW ks \in SUBSET Keys, NEW rows, NEW cls, ServerClocks(cls), ClocksWithin(cls, Reach), NEW floor
  PROVE  ReplicaWithin(Merged(r, n, ks, rows, cls, floor), Reach)
<1> DEFINE L == {Latest(cls[k]).hlc : k \in ks}
           top == CHOOSE h \in L \cup {0} : \A o \in L : o <= h
           m == Merged(r, n, ks, rows, cls, floor)
           h2 == MaxOf(r.hlc, MinOf(top, Ceiling(Corrected(n))))
<1>0. /\ wall \in Nat /\ skew \in [Nodes -> Nat] /\ rep[n].off \in {0, -skew[n]}
      /\ Reach \in Nat /\ Reach <= Ceiling(wall) /\ Ceiling(wall) \in Nat
  BY ClocksOf, ReachIs
<1>1. r.hlc \in Nat /\ r.hlc <= Reach /\ DOMAIN r = RepFields
  BY DEF ReplicaSees, ReplicaWithin
<1>2. \A k \in Keys : /\ IsClock(r.clocks[k]) /\ NoneAfter(r.clocks[k], r.hlc)
                      /\ IsClock(cls[k]) /\ NoneAfter(cls[k], Reach)
  BY DEF ReplicaSees, ReplicaWithin, ServerClocks, ClocksWithin
<1>3. top \in Nat /\ top <= Reach /\ \A k \in ks : NoneAfter(cls[k], top)
  <2>1. \A k \in ks : IsClock(cls[k])
    BY <1>2
  <2>2. IsFiniteSet(L) /\ L \in SUBSET Nat
    BY <2>1, LatestsAre
  <2>3. \A o \in L : o <= Reach
    <3>1. ASSUME NEW k \in ks PROVE Latest(cls[k]).hlc <= Reach
      BY <1>2, LatestIs DEF NoneAfter
    <3> QED BY <3>1
  <2>4. top \in Nat /\ \A o \in L : o <= top
    <3> HIDE DEF L
    <3> QED BY <2>2, TopIs
  <2>5. top <= Reach
    <3> HIDE DEF L
    <3>1. \E h \in L \cup {0} : \A o \in L : o <= h
      BY <2>2, TopIs
    <3>2. top \in L \cup {0}
      BY <3>1
    <3> HIDE DEF top
    <3> QED BY <1>0, <2>3, <3>2
  <2>6. ASSUME NEW k \in ks PROVE NoneAfter(cls[k], top)
    <3>1. Latest(cls[k]).hlc \in L
      OBVIOUS
    <3> HIDE DEF top, L
    <3>2. Latest(cls[k]).hlc <= top
      BY <2>4, <3>1
    <3>3. Latest(cls[k]).hlc \in Nat /\ NoneAfter(cls[k], Latest(cls[k]).hlc)
      BY <2>1, LatestBounds
    <3> QED BY <2>1, <2>4, <3>2, <3>3, NoneAfterRises
  <2> HIDE DEF top
  <2> QED BY <2>4, <2>5, <2>6
<1>4. Ceiling(Corrected(n)) \in Nat /\ Ceiling(wall) <= Ceiling(Corrected(n))
  BY <1>0, CorrectedIs, CeilingRises
<1>5. m = [r EXCEPT !.row = [k \in Keys |-> IF k \in ks THEN PlanMerge(r.row[k], r.clocks[k], rows[k], cls[k], floor)
                                            ELSE @[k]],
                    !.clocks = [k \in Keys |-> IF k \in ks THEN Laid(@[k], cls[k]) ELSE @[k]],
                    !.hlc = h2]
  BY DEF Merged
<1> HIDE DEF top, L, m
<1>6. h2 \in Nat /\ r.hlc <= h2 /\ top <= h2 /\ h2 <= Reach
  BY <1>0, <1>1, <1>3, <1>4 DEF MaxOf, MinOf
<1> HIDE DEF h2
<1>7. /\ m.hlc = h2
      /\ \A k \in Keys : m.clocks[k] = IF k \in ks THEN Laid(r.clocks[k], cls[k]) ELSE r.clocks[k]
  BY <1>1, <1>5 DEF RepFields
<1>8. ASSUME NEW k \in Keys PROVE NoneAfter(m.clocks[k], h2)
  <2>1. NoneAfter(r.clocks[k], h2)
    BY <1>1, <1>2, <1>6, NoneAfterRises
  <2>2. CASE k \in ks
    <3>1. NoneAfter(cls[k], h2)
      BY <1>2, <1>3, <1>6, <2>2, NoneAfterRises
    <3>2. StampsOf(Laid(r.clocks[k], cls[k])) \subseteq StampsOf(r.clocks[k]) \cup StampsOf(cls[k])
      BY <1>2, LaidIs
    <3> QED BY <1>7, <2>1, <2>2, <3>1, <3>2 DEF NoneAfter
  <2>3. CASE k \notin ks
    BY <1>7, <2>1, <2>3
  <2> QED BY <2>2, <2>3
<1>9. ReplicaWithin(m, Reach)
  BY <1>6, <1>7, <1>8 DEF ReplicaWithin, ClocksWithin
<1> QED BY <1>9 DEF m

\* What a merge makes of a row keeps a column whose edit was not sent yet, or which the
\* server has as it is.
LEMMA PlanKeeps ==
  ASSUME NEW row, row # NoRow, NEW cl, NEW srow, NEW scl, NEW floor, NEW c \in PushCols,
         ChangedHere(cl, c) \/ srow = NoRow \/ srow[c] = row[c],
         PlanMerge(row, cl, srow, scl, floor) # NoRow
  PROVE  PlanMerge(row, cl, srow, scl, floor)[c] = row[c]
<1>1. c \in Cols
  BY DEF Cols
<1>2. CASE srow = NoRow
  <2>1. PlanMerge(row, cl, srow, scl, floor) \in {row, NoRow}
    BY <1>2 DEF PlanMerge
  <2> QED BY <2>1
<1>3. CASE srow # NoRow
  <2> DEFINE later(a, b) == After(OrFloor(a, floor), OrFloor(b, floor))
             takes(d) == IF d \in PushCols THEN ~ChangedHere(cl, d) ELSE ~later(Eff(cl, d), Eff(scl, d))
  <2>1. PlanMerge(row, cl, srow, scl, floor) = [d \in Cols |-> IF takes(d) THEN srow[d] ELSE row[d]]
    BY <1>3 DEF PlanMerge
  <2>2. takes(c) => srow[c] = row[c]
    BY <1>3
  <2> HIDE DEF takes
  <2> QED BY <1>1, <2>1, <2>2
<1> QED BY <1>2, <1>3

\* A pushed row that the server takes has the outcome that was not sent yet.
LEMMA PushedKeeps ==
  ASSUME NEW s, NEW k, NEW row, row # NoRow, NEW cl, NEW c \in PushCols, c \in cl.dirty,
         Pushed(s, k, row, cl) # NoRow
  PROVE  Pushed(s, k, row, cl)[c] = row[c]
<1>1. c \in Cols /\ ChangedHere(cl, c)
  BY DEF Cols, ChangedHere
<1>2. CASE s.row[k] = NoRow
  <2>1. Pushed(s, k, row, cl) \in {row, NoRow}
    BY <1>2 DEF Pushed
  <2> QED BY <2>1
<1>3. CASE s.row[k] # NoRow
  <2>1. \A f : Pushed(s, k, row, cl) = f => f[c] = row[c]
    BY <1>1, <1>3 DEF Pushed
  <2> QED BY <2>1
<1> QED BY <1>2, <1>3

\* An edit is stamped later than what a push under way took from the replica.
LEMMA EditStands ==
  ASSUME NEW cl, NEW sent, IsClock(cl), IsClock(sent), NEW h \in Nat, NoneAfter(sent, h),
         NEW s \in Stamps, h < s.hlc, NEW row, NEW new, NEW then
  PROVE  LET d == Stamped(cl, s, row, new, TRUE)
         IN /\ SentStands(row, cl, then, sent) => SentStands(new, d, then, sent)
            /\ AnswerStands(row, cl, then, sent) => AnswerStands(new, d, then, sent)
<1> DEFINE d == Stamped(cl, s, row, new, TRUE)
<1>1. s # sent.row /\ \A c \in Cols : s # sent.cols[c]
  <2>1. \A x \in StampsOf(sent) : x.hlc \in Nat /\ x.hlc <= h
    BY StampsAreFinite DEF NoneAfter
  <2>2. s \notin StampsOf(sent)
    <3>1. s.hlc \in Nat
      BY DEF Stamps
    <3> QED BY <2>1, <3>1
  <2> QED BY <2>2 DEF StampsOf
<1>2. CASE row = NoRow \/ new = NoRow
  <2>1. d.row = s /\ d.alive = (new # NoRow) /\ "row" \in d.dirty
    BY <1>2 DEF Stamped, IsClock, ClockFields
  <2> HIDE DEF d
  <2>2. SentStands(new, d, then, sent) /\ AnswerStands(new, d, then, sent)
    BY <1>1, <2>1 DEF SentStands, AnswerStands
  <2> QED BY <2>2 DEF d
<1>3. CASE ~(row = NoRow \/ new = NoRow)
  <2> DEFINE changed == {c \in Cols : row[c] # new[c]}
  <2>1. /\ d.row = cl.row /\ d.alive = cl.alive /\ d.dirty = cl.dirty \cup changed
        /\ d.cols = [c \in Cols |-> IF c \in changed THEN s ELSE cl.cols[c]]
    BY <1>3 DEF Stamped, IsClock, ClockFields
  <2>2. \A c \in Cols : c \in changed <=> row[c] # new[c]
    OBVIOUS
  <2> HIDE DEF d, changed
  <2>3. \A c \in PushCols : d.cols[c] = sent.cols[c] /\ c \in d.dirty =>
           cl.cols[c] = sent.cols[c] /\ c \in cl.dirty /\ new[c] = row[c]
    <3>1. PushCols \subseteq Cols
      BY DEF Cols
    <3> QED BY <1>1, <2>1, <2>2, <3>1
  <2>4. SentStands(row, cl, then, sent) => SentStands(new, d, then, sent)
    BY <1>3, <2>1, <2>3 DEF SentStands
  <2>5. AnswerStands(row, cl, then, sent) => AnswerStands(new, d, then, sent)
    BY <1>3, <2>1, <2>3 DEF AnswerStands
  <2> QED BY <2>4, <2>5 DEF d
<1> QED BY <1>2, <1>3

\* The invariant holds before anything was edited.
LEMMA OutcomeInvInit ==
  ASSUME ClocksAreNear
  PROVE  InitReplica => OutcomeInv
<1> SUFFICES ASSUME InitReplica PROVE OutcomeInv
  OBVIOUS
<1>1. Reach \in Nat
  BY ClocksInvInit, ReachIs
<1>2. /\ skew \in [Nodes -> Skews] /\ srv.clocks = [k \in Keys |-> NoClocks]
      /\ \A n \in Nodes : rep[n].hlc = 0 /\ rep[n].clocks = [k \in Keys |-> NoClocks] /\ job[n].at = "idle"
  BY DEF InitReplica, Idle
<1>3. \A h \in Nat : NoneAfter(NoClocks, h)
  <2>1. StampsOf(NoClocks) \subseteq {Zero}
    BY DEF StampsOf, NoClocks
  <2> QED BY <2>1 DEF NoneAfter, Zero
<1>4. ClocksWithin(srv.clocks, Reach)
  BY <1>1, <1>2, <1>3 DEF ClocksWithin
<1>5. ASSUME NEW n \in Nodes PROVE ReplicaWithin(rep[n], Reach) /\ CarriesWithin(rep[n], job[n], Reach)
  BY <1>1, <1>2, <1>3 DEF ReplicaWithin, ClocksWithin, CarriesWithin
<1> QED BY <1>2, <1>4, <1>5 DEF OutcomeInv

\* A step of one node's sync, at which no time passes and nothing is edited
LEMMA OutcomeStep ==
  ASSUME OutcomeInv, NEW n \in Nodes, UNCHANGED << wall, skew, edits >>,
         \A m \in Nodes \ {n} : rep'[m] = rep[m] /\ job'[m] = job[m],
         ReplicaWithin(rep'[n], Reach), CarriesWithin(rep'[n], job'[n], Reach),
         ClocksWithin(srv'.clocks, Reach)
  PROVE  OutcomeInv'
<1>1. Reach' = Reach
  BY DEF Reach, Ceiling
<1>2. ASSUME NEW m \in Nodes PROVE ReplicaWithin(rep'[m], Reach') /\ CarriesWithin(rep'[m], job'[m], Reach')
  BY <1>1 DEF OutcomeInv
<1>3. skew' \in [Nodes -> Skews] /\ ClocksWithin(srv'.clocks, Reach')
  BY <1>1 DEF OutcomeInv
<1> HIDE DEF Reach
<1> QED BY <1>2, <1>3 DEF OutcomeInv, ClocksWithin, ReplicaWithin, CarriesWithin

\* As the reach rises, what was within it still is.
LEMMA OutcomeRises ==
  ASSUME ClocksInv, ClocksAreNear, OutcomeInv, NEW reach \in Nat, Reach <= reach
  PROVE  /\ ClocksWithin(srv.clocks, reach)
         /\ \A n \in Nodes : ReplicaWithin(rep[n], reach) /\ CarriesWithin(rep[n], job[n], reach)
<1>1. Reach \in Nat
  BY ReachIs
<1>2. ASSUME NEW cls, \A k \in Keys : IsClock(cls[k]), ClocksWithin(cls, Reach) PROVE ClocksWithin(cls, reach)
  BY <1>1, <1>2, NoneAfterRises DEF ClocksWithin
<1>3. ClocksWithin(srv.clocks, reach)
  BY <1>2 DEF OutcomeInv, ClocksInv, ServerHolds, ServerClocks
<1>4. ASSUME NEW n \in Nodes PROVE ReplicaWithin(rep[n], reach) /\ CarriesWithin(rep[n], job[n], reach)
  <2>1. /\ rep[n].hlc \in Nat /\ ReplicaWithin(rep[n], Reach) /\ CarriesWithin(rep[n], job[n], Reach)
        /\ JobCarries(job[n])
    BY DEF OutcomeInv, ClocksInv, ReplicaSees
  <2>2. ReplicaWithin(rep[n], reach)
    BY <1>1, <2>1 DEF ReplicaWithin
  <2>3. job[n].at \in {"sending", "merging", "clocks", "seeding"} => \A k \in Keys : IsClock(job[n].clocks[k])
    BY <2>1 DEF JobCarries, ServerClocks
  <2>4. CarriesWithin(rep[n], job[n], reach)
    BY <1>2, <2>1, <2>3 DEF CarriesWithin
  <2> QED BY <2>2, <2>4
<1> QED BY <1>3, <1>4

\* The row and clocks that a push reads stand.
LEMMA ReadOutboxWithin ==
  ASSUME ClocksInv, ClocksAreNear, OutcomeInv, NEW n \in Nodes, NEW seeding
  PROVE  CarriesWithin(rep[n], ReadOutbox(n, seeding), Reach)
<1>1. rep[n].hlc \in Nat /\ Reach \in Nat /\ ReplicaWithin(rep[n], Reach) /\ \A k \in Keys : IsClock(rep[n].clocks[k])
  BY ReachIs DEF ClocksInv, ReplicaSees, OutcomeInv
<1>2. ClocksWithin(rep[n].clocks, Reach) /\ ClocksWithin(rep[n].clocks, rep[n].hlc)
  BY <1>1, NoneAfterRises DEF ReplicaWithin, ClocksWithin
<1>3. \A k \in Keys : SentStands(rep[n].row[k], rep[n].clocks[k], rep[n].row[k], rep[n].clocks[k])
  BY DEF SentStands
<1> QED BY <1>2, <1>3 DEF ReadOutbox, CarriesWithin

\* A replica's operation may be replaced by one that carries nothing.
LEMMA CarriesNothing ==
  ASSUME NEW r, NEW j, NEW reach, j.at \in {"idle", "head", "clearing", "rows", "keep", "pages"}
  PROVE  CarriesWithin(r, j, reach)
BY DEF CarriesWithin

\* An edit adds one stamp.
LEMMA StampedAmong ==
  ASSUME NEW cl, IsClock(cl), NEW s \in Stamps, NEW was, NEW is, NEW unsent
  PROVE  StampsOf(Stamped(cl, s, was, is, unsent)) \subseteq StampsOf(cl) \cup {s}
BY StampedIs

\* An edit on a replica raises its clock within the reach.
LEMMA LocalEditOutcome ==
  ASSUME ClocksInv, ClocksAreNear, OutcomeInv, NEW n \in Nodes, NEW k \in Keys, NEW new, LocalEdit(n, k, new)
  PROVE  OutcomeInv'
<1>0. PICK v : v = Ticked(rep[n].hlc, Corrected(n))
  OBVIOUS
<1> DEFINE s == [hlc |-> v, node |-> n]
           r == rep'[n]
           d == Stamped(rep[n].clocks[k], s, rep[n].row[k], new, TRUE)
           reach == Reach + 1
<1>1. v \in Nat /\ rep[n].hlc < v
  BY <1>0, TickedIs
<1>2. UNCHANGED << wall, skew, job, srv >> /\ edits' = edits + 1
  BY DEF LocalEdit
<1>3. /\ Reach \in Nat /\ edits \in Nat /\ wall \in Nat /\ Grain \in Nat /\ Lead \in Nat /\ Ceiling(wall) \in Nat
      /\ rep[n].hlc \in Nat /\ rep[n].hlc <= Reach /\ ClocksWithin(rep[n].clocks, rep[n].hlc)
      /\ JobCarries(job[n])
  BY ReachIs DEF OutcomeInv, ReplicaWithin, ClocksInv, ReplicaSees
<1>4. Reach' = reach
  <2>1. Ceiling(wall') = Ceiling(wall)
    BY <1>2
  <2> QED BY <1>2, <1>3, <2>1 DEF Reach
<1>5. v <= reach
  <2> DEFINE x == Corrected(n) * Grain
  <2>1. Corrected(n) \in Nat /\ Corrected(n) < wall + Lead
    <3>1. skew[n] \in Nat /\ skew[n] < Lead /\ rep[n].off \in {0, -skew[n]}
      BY DEF ClocksAreNear, OutcomeInv, ClocksInv, ReplicaSees
    <3> QED BY <1>3, <3>1 DEF Corrected
  <2>2. x \in Nat /\ x + Grain <= Ceiling(wall)
    BY <1>3, <2>1, CeilingIsFar
  <2>3. v = MaxOf(rep[n].hlc + 1, x + (IF "tie" \in Faults THEN 0 ELSE edits))
    BY <1>0 DEF Ticked
  <2>4. Reach = Ceiling(wall) - Grain + edits
    BY DEF Reach
  <2> HIDE DEF x
  <2>5. CASE "tie" \in Faults
    BY <1>3, <2>2, <2>3, <2>4, <2>5 DEF MaxOf
  <2>6. CASE "tie" \notin Faults
    BY <1>3, <2>2, <2>3, <2>4, <2>6 DEF MaxOf
  <2> QED BY <2>5, <2>6
<1>6. EditWrites(n, k, new, v)
  BY <1>0, LocalEditIs
<1>7. s \in Stamps /\ s.hlc = v
  <2>1. n \in Nat
    BY ReplicaAssumption
  <2> QED BY <1>1, <2>1 DEF Stamps
<1>8. /\ \A m \in Nodes \ {n} : rep'[m] = rep[m]
      /\ r.hlc = v /\ r.row[k] = new /\ r.clocks[k] = d
      /\ \A o \in Keys \ {k} : r.row[o] = rep[n].row[o] /\ r.clocks[o] = rep[n].clocks[o]
  BY <1>6 DEF EditWrites
<1>9. \A o \in Keys : IsClock(rep[n].clocks[o])
  BY DEF ClocksInv, ReplicaSees
<1>90. StampsOf(d) \subseteq StampsOf(rep[n].clocks[k]) \cup {s}
  <2>1. PICK cl, was : cl = rep[n].clocks[k] /\ was = rep[n].row[k]
    OBVIOUS
  <2>2. s \in Stamps /\ IsClock(cl)
    BY <1>7, <1>9, <2>1
  <2> HIDE DEF s
  <2>3. StampsOf(Stamped(cl, s, was, new, TRUE)) \subseteq StampsOf(cl) \cup {s}
    BY <2>2, StampedAmong
  <2> QED BY <2>1, <2>3
<1> HIDE DEF s, r, d
<1>10. reach \in Nat /\ Reach <= reach
  BY <1>3
<1> HIDE DEF reach
<1>11. /\ ClocksWithin(srv.clocks, reach)
       /\ \A m \in Nodes : ReplicaWithin(rep[m], reach) /\ CarriesWithin(rep[m], job[m], reach)
  BY <1>10, OutcomeRises
<1>12. ReplicaWithin(r, reach)
  <2>1. ASSUME NEW o \in Keys PROVE NoneAfter(r.clocks[o], v)
    <3>1. NoneAfter(rep[n].clocks[o], v)
      BY <1>1, <1>3, <1>9, NoneAfterRises DEF ClocksWithin
    <3>2. CASE o = k
      BY <1>1, <1>7, <1>8, <1>90, <3>1, <3>2 DEF NoneAfter
    <3> QED BY <1>8, <3>1, <3>2
  <2> QED BY <1>5, <1>8, <2>1 DEF ReplicaWithin, ClocksWithin
<1>13. ASSUME NEW sent, IsClock(sent), NoneAfter(sent, rep[n].hlc), NEW o \in Keys, NEW then
       PROVE  /\ SentStands(rep[n].row[o], rep[n].clocks[o], then, sent) => SentStands(r.row[o], r.clocks[o], then, sent)
              /\ AnswerStands(rep[n].row[o], rep[n].clocks[o], then, sent) => AnswerStands(r.row[o], r.clocks[o], then, sent)
  <2>1. CASE o = k
    <3>1. rep[n].hlc < s.hlc
      BY <1>1, <1>7
    <3>2. /\ SentStands(rep[n].row[k], rep[n].clocks[k], then, sent) => SentStands(new, d, then, sent)
          /\ AnswerStands(rep[n].row[k], rep[n].clocks[k], then, sent) => AnswerStands(new, d, then, sent)
      BY <1>3, <1>7, <1>9, <1>13, <3>1, EditStands DEF d
    <3> QED BY <1>8, <2>1, <3>2
  <2>2. CASE o # k
    BY <1>8, <2>2
  <2> QED BY <2>1, <2>2
<1>14. ASSUME NEW cls, \A o \in Keys : IsClock(cls[o]), ClocksWithin(cls, rep[n].hlc) PROVE ClocksWithin(cls, v)
  BY <1>1, <1>3, <1>14, NoneAfterRises DEF ClocksWithin
<1>15. CarriesWithin(r, job[n], reach)
  <2>1. CarriesWithin(rep[n], job[n], reach)
    BY <1>11
  <2>2. CASE job[n].at = "sending"
    <3>1. \A o \in Keys : IsClock(job[n].clocks[o])
      BY <1>3, <2>2 DEF JobCarries
    <3>2. ClocksWithin(job[n].clocks, reach) /\ ClocksWithin(job[n].clocks, v)
      BY <1>14, <2>1, <2>2, <3>1 DEF CarriesWithin
    <3>3. \A o \in Keys : SentStands(r.row[o], r.clocks[o], job[n].rows[o], job[n].clocks[o])
      BY <1>13, <2>1, <2>2, <3>1 DEF CarriesWithin, ClocksWithin
    <3> QED BY <1>8, <2>2, <3>2, <3>3 DEF CarriesWithin
  <2>3. CASE job[n].at = "merging"
    <3>1. \A o \in Keys : IsClock(job[n].sent[o])
      BY <2>1, <2>3 DEF CarriesWithin
    <3>2. ClocksWithin(job[n].clocks, reach) /\ ClocksWithin(job[n].sent, v)
      BY <1>14, <2>1, <2>3, <3>1 DEF CarriesWithin
    <3>3. job[n].keys \subseteq Keys
      BY <1>3, <2>3 DEF JobCarries
    <3>4. \A o \in job[n].keys : AnswerStands(r.row[o], r.clocks[o], job[n].rows[o], job[n].sent[o])
      BY <1>13, <2>1, <2>3, <3>1, <3>3 DEF CarriesWithin, ClocksWithin
    <3> QED BY <1>8, <2>3, <3>1, <3>2, <3>4 DEF CarriesWithin
  <2>4. CASE job[n].at \notin {"sending", "merging"}
    BY <2>1, <2>4 DEF CarriesWithin
  <2> QED BY <2>2, <2>3, <2>4
<1>16. ASSUME NEW m \in Nodes PROVE ReplicaWithin(rep'[m], reach) /\ CarriesWithin(rep'[m], job'[m], reach)
  <2>1. CASE m = n
    BY <1>2, <1>12, <1>15, <2>1 DEF r
  <2>2. CASE m # n
    BY <1>2, <1>8, <1>11, <2>2
  <2> QED BY <2>1, <2>2
<1>17. skew' \in [Nodes -> Skews] /\ ClocksWithin(srv'.clocks, reach)
  BY <1>2, <1>11 DEF OutcomeInv
<1> HIDE DEF Reach
<1> QED BY <1>4, <1>16, <1>17 DEF OutcomeInv, ReplicaWithin, CarriesWithin, ClocksWithin

\* An edit made online is within the reach, too.
LEMMA OnlineEditOutcome ==
  ASSUME ClocksInv, ClocksAreNear, OutcomeInv, NEW k \in Keys, NEW new, OnlineEdit(k, new)
  PROVE  OutcomeInv'
<1> DEFINE reach == Reach + 1
<1>1. UNCHANGED << wall, skew, rep, job >> /\ edits' = edits + 1
  BY DEF OnlineEdit
<1>2. /\ Reach \in Nat /\ edits \in Nat /\ wall \in Nat /\ Grain \in Nat /\ Lead \in Nat /\ Ceiling(wall) \in Nat
      /\ 1 <= Lead
  BY ReachIs
<1>3. Reach' = reach
  <2>1. Ceiling(wall') = Ceiling(wall)
    BY <1>1
  <2> QED BY <1>1, <1>2, <2>1 DEF Reach
<1>4. PICK v \in Nat : v <= wall * Grain + edits + 1 /\ OnlineWrites(k, v)
  BY OnlineEditIs
<1>5. v <= reach
  <2>1. wall * Grain \in Nat /\ wall * Grain + Grain <= Ceiling(wall)
    BY <1>2, CeilingIsFar
  <2> QED BY <1>2, <1>4, <2>1 DEF Reach
<1>6. reach \in Nat /\ Reach <= reach
  BY <1>2
<1> HIDE DEF reach
<1>7. /\ ClocksWithin(srv.clocks, reach)
      /\ \A m \in Nodes : ReplicaWithin(rep[m], reach) /\ CarriesWithin(rep[m], job[m], reach)
  BY <1>6, OutcomeRises
<1>8. ClocksWithin(srv'.clocks, reach)
  <2>1. ASSUME NEW o \in Keys PROVE NoneAfter(srv'.clocks[o], reach)
    <3>1. NoneAfter(srv.clocks[o], reach)
      BY <1>7 DEF ClocksWithin
    <3> QED BY <1>4, <1>5, <3>1 DEF OnlineWrites, NoneAfter
  <2> QED BY <2>1 DEF ClocksWithin
<1>9. skew' \in [Nodes -> Skews]
  BY <1>1 DEF OutcomeInv
<1> HIDE DEF Reach
<1> QED BY <1>1, <1>3, <1>7, <1>8, <1>9 DEF OutcomeInv, ReplicaWithin, CarriesWithin, ClocksWithin

LEMMA TickOutcome ==
  ASSUME ClocksInv, ClocksAreNear, OutcomeInv, Tick
  PROVE  OutcomeInv'
<1>1. UNCHANGED << skew, rep, job, srv, edits >> /\ wall' = wall + 1
  BY DEF Tick
<1>2. wall \in Nat /\ wall' \in Nat /\ Grain \in Nat /\ edits \in Nat /\ Reach \in Nat
  BY <1>1, ReachIs
<1>3. Ceiling(wall) \in Nat /\ Ceiling(wall') \in Nat /\ Ceiling(wall) <= Ceiling(wall')
  BY <1>1, <1>2, CeilingRises
<1>4. Reach' \in Nat /\ Reach <= Reach'
  BY <1>1, <1>2, <1>3 DEF Reach
<1>5. PICK reach \in Nat : reach = Reach' /\ Reach <= reach
  BY <1>4
<1>6. /\ ClocksWithin(srv.clocks, reach)
      /\ \A m \in Nodes : ReplicaWithin(rep[m], reach) /\ CarriesWithin(rep[m], job[m], reach)
  BY <1>5, OutcomeRises
<1>7. skew' \in [Nodes -> Skews]
  BY <1>1 DEF OutcomeInv
<1> HIDE DEF Reach
<1> QED BY <1>1, <1>5, <1>6, <1>7 DEF OutcomeInv, ReplicaWithin, CarriesWithin, ClocksWithin

LEMMA PushOutcome ==
  ASSUME ClocksInv, ClocksAreNear, OutcomeInv, NEW n \in Nodes, Push(n)
  PROVE  OutcomeInv'
<1>1. job' = [job EXCEPT ![n] = ReadOutbox(n, ~rep[n].seeded)] /\ UNCHANGED << wall, skew, rep, srv, edits >>
  BY DEF Push
<1>2. CarriesWithin(rep[n], ReadOutbox(n, ~rep[n].seeded), Reach)
  BY ReadOutboxWithin
<1>3. DOMAIN job = Nodes /\ ReplicaWithin(rep[n], Reach) /\ ClocksWithin(srv.clocks, Reach)
  BY DEF ClocksInv, OutcomeInv
<1> QED BY <1>1, <1>2, <1>3, OutcomeStep

\* What the server makes of a push has the outcomes that were sent.
LEMMA PushCommitsOutcome ==
  ASSUME ClocksInv, ClocksAreNear, OutcomeInv, NEW n \in Nodes, PushCommits(n)
  PROVE  OutcomeInv'
<1> DEFINE j == job[n]
           row == [k \in Keys |-> IF k \in j.keys THEN Pushed(srv, k, j.rows[k], j.clocks[k]) ELSE srv.row[k]]
           cl == [k \in Keys |-> IF k \in j.keys THEN Laid(srv.clocks[k], Capped([j.clocks[k] EXCEPT !.dirty = {}]))
                                 ELSE srv.clocks[k]]
           next == [at |-> "merging", seeding |-> j.seeding, n |-> j.n, keys |-> j.keys,
                    sent |-> j.clocks, rows |-> row, clocks |-> cl, floor |-> j.floor]
<1>1. /\ j.at = "sending" /\ JobCarries(j) /\ CarriesWithin(rep[n], j, Reach) /\ ServerHolds(srv)
      /\ ReplicaWithin(rep[n], Reach) /\ ClocksWithin(srv.clocks, Reach) /\ DOMAIN job = Nodes
      /\ Reach \in Nat /\ Ceiling(wall) \in Nat
  BY ReachIs DEF ClocksInv, OutcomeInv, PushCommits
<1>2. job' = [job EXCEPT ![n] = next] /\ UNCHANGED << wall, skew, rep, edits >>
  BY DEF PushCommits
<1>3. srv'.clocks = cl
  <2>1. PICK seq, log : srv' = [srv EXCEPT !.row = row, !.clocks = cl, !.seq = seq, !.log = log]
    BY DEF PushCommits
  <2> HIDE DEF cl, row
  <2> QED BY <1>1, <2>1 DEF ServerHolds, ServerFields
<1>4. /\ \A k \in Keys : /\ IsClock(j.clocks[k]) /\ NoneAfter(j.clocks[k], Reach)
                         /\ IsClock(srv.clocks[k]) /\ NoneAfter(srv.clocks[k], Reach)
                         /\ SentStands(rep[n].row[k], rep[n].clocks[k], j.rows[k], j.clocks[k])
      /\ j.keys \subseteq Keys
  BY <1>1 DEF JobCarries, CarriesWithin, ClocksWithin, ServerHolds, ServerClocks
<1>5. ASSUME NEW k \in Keys PROVE NoneAfter(cl[k], Reach)
  <2>1. CASE k \in j.keys
    <3> DEFINE sent == [j.clocks[k] EXCEPT !.dirty = {}]
    <3>1. IsClock(sent) /\ StampsOf(sent) = StampsOf(j.clocks[k])
      BY <1>4 DEF IsClock, ClockFields, StampsOf
    <3>2. NoneAfter(sent, Reach)
      BY <1>4, <3>1 DEF NoneAfter
    <3> HIDE DEF sent
    <3>3. IsClock(Capped(sent)) /\ NoneAfter(Capped(sent), Reach)
      BY <1>1, <3>1, <3>2, CappedIs DEF ClocksInv
    <3>4. StampsOf(Laid(srv.clocks[k], Capped(sent))) \subseteq StampsOf(srv.clocks[k]) \cup StampsOf(Capped(sent))
      BY <1>4, <3>3, LaidIs
    <3>5. NoneAfter(Laid(srv.clocks[k], Capped(sent)), Reach)
      BY <1>4, <3>3, <3>4 DEF NoneAfter
    <3>6. cl[k] = Laid(srv.clocks[k], Capped(sent))
      BY <2>1 DEF sent
    <3> QED BY <3>5, <3>6
  <2>2. CASE k \notin j.keys
    BY <1>4, <2>2
  <2> QED BY <2>1, <2>2
<1>6. ASSUME NEW k \in j.keys PROVE AnswerStands(rep[n].row[k], rep[n].clocks[k], row[k], j.clocks[k])
  <2>1. SentStands(rep[n].row[k], rep[n].clocks[k], j.rows[k], j.clocks[k]) /\ k \in Keys
    BY <1>4
  <2>2. row[k] = Pushed(srv, k, j.rows[k], j.clocks[k])
    BY <2>1
  <2> HIDE DEF row
  <2>3. ASSUME rep[n].clocks[k].row = j.clocks[k].row, NEW c \in PushCols,
               rep[n].clocks[k].cols[c] = j.clocks[k].cols[c], c \in rep[n].clocks[k].dirty,
               rep[n].row[k] # NoRow, row[k] # NoRow
        PROVE  row[k][c] = rep[n].row[k][c]
    <3>1. c \in j.clocks[k].dirty /\ j.rows[k] # NoRow /\ rep[n].row[k][c] = j.rows[k][c]
      BY <2>1, <2>3 DEF SentStands
    <3> QED BY <2>2, <2>3, <3>1, PushedKeeps
  <2>4. rep[n].clocks[k].row # j.clocks[k].row =>
           "row" \in rep[n].clocks[k].dirty /\ (rep[n].row[k] # NoRow => rep[n].clocks[k].alive)
    BY <2>1 DEF SentStands
  <2> QED BY <2>3, <2>4 DEF AnswerStands
<1>7. next.at = "merging" /\ next.clocks = cl /\ next.sent = j.clocks /\ next.rows = row /\ next.keys = j.keys
  OBVIOUS
<1> HIDE DEF next, cl, row
<1>8. CarriesWithin(rep[n], next, Reach)
  BY <1>1, <1>4, <1>5, <1>6, <1>7 DEF CarriesWithin, ClocksWithin
<1>9. ClocksWithin(srv'.clocks, Reach)
  BY <1>3, <1>5 DEF ClocksWithin
<1> HIDE DEF Reach
<1> QED BY <1>1, <1>2, <1>8, <1>9, OutcomeStep

\* A replica whose row, cursor or floor changed is within what it was.
LEMMA WithinAsBefore ==
  ASSUME NEW r, NEW reach, ReplicaWithin(r, reach), NEW q, q.clocks = r.clocks, q.hlc = r.hlc
  PROVE  ReplicaWithin(q, reach)
BY DEF ReplicaWithin

\* The acknowledged replica is within the reach.
LEMMA AckedWithin ==
  ASSUME ClocksInv, OutcomeInv, NEW n \in Nodes, job[n].at = "merging"
  PROVE  ReplicaWithin(Acked(n), Reach)
<1> DEFINE acked == Acked(n)
<1>1. /\ ServerClocks(job[n].clocks) /\ acked.hlc = rep[n].hlc
      /\ \A k \in Keys : acked.clocks[k] = IF k \in job[n].keys
                           THEN Acknowledged(rep[n].clocks[k], job[n].sent[k], job[n].clocks[k], n)
                           ELSE rep[n].clocks[k]
  BY AckedSees
<1> HIDE DEF acked
<1>2. /\ rep[n].hlc \in Nat /\ rep[n].hlc <= Reach
      /\ \A k \in Keys : IsClock(rep[n].clocks[k]) /\ NoneAfter(rep[n].clocks[k], rep[n].hlc)
  BY DEF ClocksInv, OutcomeInv, ReplicaSees, ReplicaWithin, ClocksWithin
<1>3. ASSUME NEW k \in Keys PROVE NoneAfter(acked.clocks[k], rep[n].hlc)
  <2>1. PICK cl, scl, sent, h : cl = rep[n].clocks[k] /\ scl = job[n].clocks[k] /\ sent = job[n].sent[k] /\ h = rep[n].hlc
    OBVIOUS
  <2>2. IsClock(cl) /\ IsClock(scl) /\ NoneAfter(cl, h) /\ h \in Nat
    BY <1>1, <1>2, <2>1 DEF ServerClocks
  <2>3. NoneAfter(Acknowledged(cl, sent, scl, n), h)
    BY <2>2, AcknowledgedIs
  <2> QED BY <1>1, <1>2, <2>1, <2>2, <2>3
<1>4. ReplicaWithin(acked, Reach)
  BY <1>1, <1>2, <1>3 DEF ReplicaWithin, ClocksWithin
<1> QED BY <1>4 DEF acked

LEMMA MergeBackOutcome ==
  ASSUME ClocksInv, ClocksAreNear, OutcomeInv, NEW n \in Nodes, MergeBack(n)
  PROVE  OutcomeInv'
<1> DEFINE m == Merged(Acked(n), n, job[n].keys, job[n].rows, job[n].clocks, job[n].floor)
           next == [at |-> "clearing", seeding |-> job[n].seeding, n |-> job[n].n]
<1>1. /\ rep' = [rep EXCEPT ![n] = m] /\ job' = [job EXCEPT ![n] = next] /\ UNCHANGED << wall, skew, srv, edits >>
      /\ job[n].at = "merging"
  BY DEF MergeBack, Acked
<1>2. ReplicaSees(n, Acked(n)) /\ job[n].keys \subseteq Keys /\ ServerClocks(job[n].clocks)
  BY <1>1, AckedSees
<1>3. ReplicaWithin(Acked(n), Reach)
  BY <1>1, AckedWithin
<1>4. ClocksWithin(job[n].clocks, Reach) /\ ClocksWithin(srv.clocks, Reach) /\ DOMAIN rep = Nodes /\ DOMAIN job = Nodes
  BY <1>1 DEF OutcomeInv, CarriesWithin, ClocksInv
<1>5. ReplicaWithin(m, Reach)
  BY <1>2, <1>3, <1>4, MergedWithin
<1>6. CarriesWithin(m, next, Reach)
  BY CarriesNothing
<1> HIDE DEF m, next, Reach
<1> QED BY <1>1, <1>4, <1>5, <1>6, OutcomeStep

LEMMA ClearOutboxOutcome ==
  ASSUME ClocksInv, ClocksAreNear, OutcomeInv, NEW n \in Nodes, ClearOutbox(n)
  PROVE  OutcomeInv'
<1>1. PICK ob, next : /\ rep' = [rep EXCEPT ![n].outbox = ob] /\ job' = [job EXCEPT ![n] = next]
                      /\ next \in {[at |-> "head"], Idle} /\ UNCHANGED << wall, skew, srv, edits >>
  BY DEF ClearOutbox
<1>2. /\ DOMAIN rep = Nodes /\ DOMAIN job = Nodes /\ ReplicaWithin(rep[n], Reach) /\ ClocksWithin(srv.clocks, Reach)
      /\ DOMAIN rep[n] = RepFields
  BY DEF OutcomeInv, ClocksInv, ReplicaSees
<1>3. rep'[n].clocks = rep[n].clocks /\ rep'[n].hlc = rep[n].hlc
  BY <1>1, <1>2 DEF RepFields
<1>4. ReplicaWithin(rep'[n], Reach)
  BY <1>2, <1>3, WithinAsBefore
<1>5. CarriesWithin(rep'[n], job'[n], Reach)
  BY <1>1, <1>2, CarriesNothing DEF Idle
<1> HIDE DEF Reach
<1> QED BY <1>1, <1>2, <1>4, <1>5, OutcomeStep

\* The offset measured by a pull does not lower the clock, since it is within reach.
LEMMA MeasuredStays ==
  ASSUME ClocksInv, ClocksAreNear, OutcomeInv, NEW n \in Nodes
  PROVE  /\ Measured(n).hlc = rep[n].hlc /\ Measured(n).clocks = rep[n].clocks /\ Measured(n).row = rep[n].row
         /\ ReplicaWithin(Measured(n), Reach) /\ DOMAIN Measured(n) = RepFields
<1> DEFINE off == IF skew[n] < Deadband THEN 0 ELSE -skew[n]
           m == Measured(n)
           top == Ceiling(wall + skew[n] + off)
<1>1. /\ wall \in Nat /\ skew[n] \in Nat /\ rep[n].hlc \in Nat /\ rep[n].hlc <= Reach /\ Reach \in Nat
      /\ Reach <= Ceiling(wall) /\ Ceiling(wall) \in Nat /\ DOMAIN rep[n] = RepFields /\ ReplicaWithin(rep[n], Reach)
  BY ReachIs DEF ClocksInv, ReplicaSees, OutcomeInv, ReplicaWithin
<1>2. m = [rep[n] EXCEPT !.off = off, !.hlc = MinOf(rep[n].hlc, top)]
  BY DEF Measured
<1>3. wall + skew[n] + off \in Nat /\ wall <= wall + skew[n] + off
  BY <1>1
<1>4. top \in Nat /\ Ceiling(wall) <= top
  BY <1>1, <1>3, CeilingRises
<1> HIDE DEF top, off
<1>5. MinOf(rep[n].hlc, top) = rep[n].hlc
  BY <1>1, <1>4 DEF MinOf
<1> HIDE DEF m
<1>6. m.hlc = rep[n].hlc /\ m.clocks = rep[n].clocks /\ m.row = rep[n].row /\ DOMAIN m = RepFields
  BY <1>1, <1>2, <1>5 DEF RepFields
<1>7. ReplicaWithin(m, Reach)
  BY <1>1, <1>6, WithinAsBefore
<1> QED BY <1>6, <1>7 DEF m

\* Only the row, the clocks and the clock of a replica matter to what stands.
LEMMA CarriesAsBefore ==
  ASSUME NEW r, NEW j, NEW reach, CarriesWithin(r, j, reach), NEW q,
         q.clocks = r.clocks, q.hlc = r.hlc, q.row = r.row
  PROVE  CarriesWithin(q, j, reach)
BY DEF CarriesWithin

\* What a pull reads first changes no row, and the server's triggers at most.
LEMMA PullIs ==
  ASSUME NEW n \in Nodes, Pull(n)
  PROVE  /\ UNCHANGED << wall, skew, edits >>
         /\ \/ rep' = rep
            \/ rep' = [rep EXCEPT ![n] = Measured(n)]
            \/ rep' = [rep EXCEPT ![n] = [Measured(n) EXCEPT !.floor = srv.floor]]
         /\ \/ job' = job
            \/ job' = [job EXCEPT ![n] = ReadOutbox(n, TRUE)]
            \/ \E next : job' = [job EXCEPT ![n] = next] /\ next.at \in {"rows", "keep"}
         /\ srv' = srv \/ srv' = Reinstalled(srv)
<1> DEFINE r == rep[n]
           entries == {e \in srv.log : e.seq > r.cursor}
           maxSeq == CHOOSE s \in {e.seq : e \in entries} : \A e \in entries : e.seq <= s
           keys == {e.key : e \in {x \in entries : x.origin # n}}
           quiet == [Measured(n) EXCEPT !.floor = srv.floor]
           rows == [at |-> "rows", cursor |-> maxSeq, floor |-> srv.floor, keys |-> keys]
           keep == [at |-> "keep"]
<1>1. \/ job' = [job EXCEPT ![n] = ReadOutbox(n, TRUE)] /\ UNCHANGED << rep, srv >>
      \/ srv' = Reinstalled(srv) /\ rep' = [rep EXCEPT ![n] = Measured(n)] /\ UNCHANGED job
      \/ /\ rep' = [rep EXCEPT ![n] = Measured(n)] /\ job' = [job EXCEPT ![n] = ReadOutbox(n, TRUE)]
         /\ UNCHANGED srv
      \/ /\ rep' = [rep EXCEPT ![n] = quiet] /\ job' = [job EXCEPT ![n] = keep]
         /\ UNCHANGED srv
      \/ rep' = [rep EXCEPT ![n] = Measured(n)] /\ job' = [job EXCEPT ![n] = rows] /\ UNCHANGED srv
  BY DEF Pull
<1>2. rows.at = "rows" /\ keep.at = "keep"
  OBVIOUS
<1>3. UNCHANGED << wall, skew, edits >>
  BY DEF Pull
<1>4. rep' = [rep EXCEPT ![n] = quiet] => rep' = [rep EXCEPT ![n] = [Measured(n) EXCEPT !.floor = srv.floor]]
  OBVIOUS
<1> HIDE DEF quiet, rows, keep
<1> QED BY <1>1, <1>2, <1>3, <1>4

LEMMA PullOutcome ==
  ASSUME ClocksInv, ClocksAreNear, OutcomeInv, NEW n \in Nodes, Pull(n)
  PROVE  OutcomeInv'
<1>1. /\ DOMAIN rep = Nodes /\ DOMAIN job = Nodes /\ ReplicaWithin(rep[n], Reach) /\ ClocksWithin(srv.clocks, Reach)
      /\ CarriesWithin(rep[n], job[n], Reach)
  BY DEF OutcomeInv, ClocksInv
<1>2. /\ Measured(n).hlc = rep[n].hlc /\ Measured(n).clocks = rep[n].clocks /\ Measured(n).row = rep[n].row
      /\ DOMAIN Measured(n) = RepFields
  BY MeasuredStays
<1>3. CarriesWithin(rep[n], ReadOutbox(n, TRUE), Reach)
  BY ReadOutboxWithin
<1>4. /\ UNCHANGED << wall, skew, edits >>
      /\ \/ rep' = rep
         \/ rep' = [rep EXCEPT ![n] = Measured(n)]
         \/ rep' = [rep EXCEPT ![n] = [Measured(n) EXCEPT !.floor = srv.floor]]
      /\ \/ job' = job
         \/ job' = [job EXCEPT ![n] = ReadOutbox(n, TRUE)]
         \/ \E next : job' = [job EXCEPT ![n] = next] /\ next.at \in {"rows", "keep"}
      /\ srv' = srv \/ srv' = Reinstalled(srv)
  BY PullIs
<1>5. /\ rep'[n].hlc = rep[n].hlc /\ rep'[n].clocks = rep[n].clocks /\ rep'[n].row = rep[n].row
      /\ \A m \in Nodes \ {n} : rep'[m] = rep[m] /\ job'[m] = job[m]
  <2>1. CASE rep' = [rep EXCEPT ![n] = [Measured(n) EXCEPT !.floor = srv.floor]]
    BY <1>1, <1>2, <1>4, <2>1 DEF RepFields
  <2>2. CASE rep' = rep \/ rep' = [rep EXCEPT ![n] = Measured(n)]
    BY <1>1, <1>2, <1>4, <2>2
  <2> QED BY <1>4, <2>1, <2>2
<1>6. ReplicaWithin(rep'[n], Reach)
  BY <1>1, <1>5, WithinAsBefore
<1>7. CarriesWithin(rep[n], job'[n], Reach)
  <2>1. CASE job' = job
    BY <1>1, <2>1
  <2>2. CASE job' = [job EXCEPT ![n] = ReadOutbox(n, TRUE)]
    BY <1>1, <1>3, <2>2
  <2>3. ASSUME NEW next, job' = [job EXCEPT ![n] = next], next.at \in {"rows", "keep"}
        PROVE  CarriesWithin(rep[n], job'[n], Reach)
    <3>1. job'[n] = next
      BY <1>1, <2>3
    <3> QED BY <2>3, <3>1, CarriesNothing
  <2> QED BY <1>4, <2>1, <2>2, <2>3
<1>8. CarriesWithin(rep'[n], job'[n], Reach)
  BY <1>5, <1>7, CarriesAsBefore
<1>9. ClocksWithin(srv'.clocks, Reach)
  <2>1. Reinstalled(srv).clocks = srv.clocks
    BY DEF Reinstalled, ClocksInv, ServerHolds, ServerFields
  <2> QED BY <1>1, <1>4, <2>1
<1> HIDE DEF Reach
<1> QED BY <1>4, <1>5, <1>6, <1>8, <1>9, OutcomeStep

LEMMA FetchRowsOutcome ==
  ASSUME ClocksInv, ClocksAreNear, OutcomeInv, NEW n \in Nodes, FetchRows(n)
  PROVE  OutcomeInv'
<1>1. /\ DOMAIN rep = Nodes /\ DOMAIN job = Nodes /\ ReplicaWithin(rep[n], Reach) /\ ClocksWithin(srv.clocks, Reach)
  BY DEF OutcomeInv, ClocksInv
<1>2. /\ \A m \in Nodes \ {n} : job'[m] = job[m]
      /\ job'[n].at = "clocks" /\ job'[n].clocks = srv.clocks
      /\ UNCHANGED << wall, skew, rep, srv, edits >>
  BY <1>1 DEF FetchRows
<1>3. CarriesWithin(rep'[n], job'[n], Reach)
  BY <1>1, <1>2 DEF CarriesWithin
<1> HIDE DEF Reach
<1> QED BY <1>1, <1>2, <1>3, OutcomeStep

LEMMA ReseedPagesOutcome ==
  ASSUME ClocksInv, ClocksAreNear, OutcomeInv, NEW n \in Nodes, ReseedPages(n)
  PROVE  OutcomeInv'
<1>1. /\ DOMAIN rep = Nodes /\ DOMAIN job = Nodes /\ ReplicaWithin(rep[n], Reach) /\ ClocksWithin(srv.clocks, Reach)
  BY DEF OutcomeInv, ClocksInv
<1>2. /\ \A m \in Nodes \ {n} : job'[m] = job[m]
      /\ job'[n].at = "seeding" /\ job'[n].clocks = srv.clocks
      /\ UNCHANGED << wall, skew, rep, srv, edits >>
  BY <1>1 DEF ReseedPages
<1>3. CarriesWithin(rep'[n], job'[n], Reach)
  BY <1>1, <1>2 DEF CarriesWithin
<1> HIDE DEF Reach
<1> QED BY <1>1, <1>2, <1>3, OutcomeStep

LEMMA ReseedHeadOutcome ==
  ASSUME ClocksInv, ClocksAreNear, OutcomeInv, NEW n \in Nodes, ReseedHead(n)
  PROVE  OutcomeInv'
<1>1. /\ DOMAIN rep = Nodes /\ DOMAIN job = Nodes /\ ClocksWithin(srv.clocks, Reach)
  BY DEF OutcomeInv, ClocksInv
<1>2. PICK head : /\ rep' = [rep EXCEPT ![n] = Measured(n)]
                  /\ job' = [job EXCEPT ![n] = [at |-> "pages", cursor |-> head, floor |-> srv.floor]]
                  /\ UNCHANGED << wall, skew, srv, edits >>
  BY DEF ReseedHead
<1>3. ReplicaWithin(Measured(n), Reach)
  BY MeasuredStays
<1>4. job'[n].at = "pages"
  BY <1>1, <1>2
<1>5. ReplicaWithin(rep'[n], Reach)
  BY <1>1, <1>2, <1>3
<1>6. CarriesWithin(rep'[n], job'[n], Reach)
  BY <1>4, CarriesNothing
<1> HIDE DEF Reach
<1> QED BY <1>1, <1>2, <1>5, <1>6, OutcomeStep

LEMMA ReadWithWithin ==
  ASSUME OutcomeInv, NEW j, ClocksWithin(j.clocks, Reach)
  PROVE  ClocksWithin(ReadWith(j), Reach)
<1>1. ReadWith(j) \in {j.clocks, srv.clocks}
  BY DEF ReadWith
<1>2. ClocksWithin(srv.clocks, Reach)
  BY DEF OutcomeInv
<1> HIDE DEF Reach
<1> QED BY <1>1, <1>2

LEMMA ApplyPullOutcome ==
  ASSUME ClocksInv, ClocksAreNear, OutcomeInv, NEW n \in Nodes, ApplyPull(n)
  PROVE  OutcomeInv'
<1>1. /\ DOMAIN rep = Nodes /\ DOMAIN job = Nodes /\ ReplicaSees(n, rep[n]) /\ JobCarries(job[n])
      /\ ReplicaWithin(rep[n], Reach) /\ CarriesWithin(rep[n], job[n], Reach) /\ ClocksWithin(srv.clocks, Reach)
      /\ job[n].at = "clocks"
  BY DEF OutcomeInv, ClocksInv, ApplyPull
<1>2. /\ job[n].keys \in SUBSET Keys /\ ServerClocks(ReadWith(job[n])) /\ ClocksWithin(ReadWith(job[n]), Reach)
  BY <1>1, ReadWithHolds, ReadWithWithin DEF JobCarries, CarriesWithin
<1> DEFINE m == Merged(rep[n], n, job[n].keys, job[n].rows, ReadWith(job[n]), job[n].floor)
           q == [m EXCEPT !.floor = job[n].floor, !.cursor = job[n].cursor]
           keep == [at |-> "keep"]
<1>3. ReplicaWithin(m, Reach) /\ ReplicaSees(n, m)
  <2> HIDE DEF Reach
  <2> QED BY <1>1, <1>2, MergedWithin, MergedSees, ClocksOf
<1>4. /\ rep' = [rep EXCEPT ![n] = q] /\ job' = [job EXCEPT ![n] = keep]
      /\ UNCHANGED << wall, skew, srv, edits >>
  BY DEF ApplyPull
<1>5. keep.at = "keep"
  OBVIOUS
<1> HIDE DEF m, keep
<1>6. q.clocks = m.clocks /\ q.hlc = m.hlc
  BY <1>3 DEF ReplicaSees, RepFields
<1> HIDE DEF q
<1>7. ReplicaWithin(q, Reach) /\ CarriesWithin(q, keep, Reach)
  BY <1>3, <1>5, <1>6, WithinAsBefore, CarriesNothing
<1> HIDE DEF Reach
<1> QED BY <1>1, <1>4, <1>7, OutcomeStep

LEMMA ApplySeedOutcome ==
  ASSUME ClocksInv, ClocksAreNear, OutcomeInv, NEW n \in Nodes, ApplySeed(n)
  PROVE  OutcomeInv'
<1>1. /\ DOMAIN rep = Nodes /\ DOMAIN job = Nodes /\ ReplicaSees(n, rep[n]) /\ JobCarries(job[n])
      /\ ReplicaWithin(rep[n], Reach) /\ CarriesWithin(rep[n], job[n], Reach) /\ ClocksWithin(srv.clocks, Reach)
      /\ job[n].at = "seeding" /\ ServerHolds(srv)
  BY DEF OutcomeInv, ClocksInv, ApplySeed
<1>2. ServerClocks(ReadWith(job[n])) /\ ClocksWithin(ReadWith(job[n]), Reach)
  BY <1>1, ReadWithHolds, ReadWithWithin DEF JobCarries, CarriesWithin
<1> DEFINE m == Merged(rep[n], n, Keys, job[n].rows, ReadWith(job[n]), job[n].floor)
           q == [m EXCEPT !.floor = job[n].floor, !.cursor = job[n].cursor, !.seeded = TRUE]
<1>3. ReplicaWithin(m, Reach) /\ ReplicaSees(n, m)
  <2> HIDE DEF Reach
  <2> QED BY <1>1, <1>2, MergedWithin, MergedSees, ClocksOf
<1>4. /\ rep' = [rep EXCEPT ![n] = q] /\ job' = [job EXCEPT ![n] = Idle]
      /\ srv' = [srv EXCEPT !.cursors[n] = [seq |-> job[n].cursor, at |-> wall]]
      /\ UNCHANGED << wall, skew, edits >>
  BY DEF ApplySeed
<1>5. Idle.at = "idle" /\ srv'.clocks = srv.clocks
  BY <1>1, <1>4 DEF Idle, ServerHolds, ServerFields
<1> HIDE DEF m
<1>6. q.clocks = m.clocks /\ q.hlc = m.hlc
  BY <1>3 DEF ReplicaSees, RepFields
<1> HIDE DEF q
<1>7. ReplicaWithin(q, Reach) /\ CarriesWithin(q, Idle, Reach)
  BY <1>3, <1>5, <1>6, WithinAsBefore, CarriesNothing
<1> HIDE DEF Reach
<1> QED BY <1>1, <1>4, <1>5, <1>7, OutcomeStep

\* Clocks that were dropped, or kept as they were, are within what they were within.
LEMMA DroppedWithin ==
  ASSUME NEW cls, NEW reach \in Nat, ClocksWithin(cls, reach), NEW kept,
         \A k \in Keys : StampsOf(kept[k]) \subseteq StampsOf(cls[k]) \cup {Zero}
  PROVE  ClocksWithin(kept, reach)
BY DEF ClocksWithin, NoneAfter, Zero

\* Pruning the server's clocks leaves stamps it had.
LEMMA PrunedStamps ==
  ASSUME NEW s, ServerHolds(s), NEW k \in Keys
  PROVE  StampsOf(Pruned(s).clocks[k]) \subseteq StampsOf(s.clocks[k]) \cup {Zero}
<1> DEFINE horizon == wall - Retention
           old(st) == st.hlc < horizon * Grain
           drop(cl) == [cl EXCEPT !.row = IF old(@) THEN Zero ELSE @,
                                  !.has = @ /\ ~old(cl.row),
                                  !.alive = IF old(cl.row) THEN TRUE ELSE @,
                                  !.cols = [c \in Cols |-> IF old(@[c]) THEN Zero ELSE @[c]]]
           p == Pruned(s)
<1>1. ASSUME NEW cl, IsClock(cl)
      PROVE  StampsOf(drop(cl)) \subseteq StampsOf(cl) \cup {Zero}
  <2> DEFINE d == drop(cl)
             f == [c \in Cols |-> IF old(cl.cols[c]) THEN Zero ELSE cl.cols[c]]
  <2> HIDE DEF old
  <2>1. DOMAIN d = ClockFields /\ d.row \in {cl.row, Zero} /\ d.cols = f
    BY <1>1 DEF IsClock, ClockFields
  <2>2. f = [c \in Cols |-> f[c]] /\ \A c \in Cols : f[c] \in {cl.cols[c], Zero}
    OBVIOUS
  <2> HIDE DEF d, f
  <2>3. StampsOf(d) \subseteq StampsOf(cl) \cup {Zero}
    BY <1>1, <2>1, <2>2, DroppedIs
  <2> QED BY <2>3 DEF d
<1>2. PICK prn, gone, floor : p = [s EXCEPT !.pruned = prn, !.log = s.log \ gone, !.floor = floor,
                                            !.clocks = [o \in Keys |-> drop(s.clocks[o])]]
  BY DEF Pruned
<1> HIDE DEF drop, p
<1>3. p.clocks = [o \in Keys |-> drop(s.clocks[o])]
  BY <1>2 DEF ServerHolds, ServerFields
<1>4. IsClock(s.clocks[k])
  BY DEF ServerHolds, ServerClocks
<1>5. p.clocks[k] = drop(s.clocks[k])
  BY <1>3
<1>6. StampsOf(p.clocks[k]) \subseteq StampsOf(s.clocks[k]) \cup {Zero}
  BY <1>1, <1>4, <1>5
<1> QED BY <1>6 DEF p

\* So does pruning a replica's.
LEMMA LocalPrunedStamps ==
  ASSUME NEW n, NEW r, ReplicaSees(n, r), NEW k \in Keys
  PROVE  StampsOf(LocalPruned(r).clocks[k]) \subseteq StampsOf(r.clocks[k]) \cup {Zero}
<1> DEFINE old(st) == st.hlc < r.floor
           drop(cl) == [cl EXCEPT !.row = IF old(@) THEN Zero ELSE @,
                                  !.has = @ /\ ~old(cl.row),
                                  !.alive = IF old(cl.row) THEN TRUE ELSE @,
                                  !.cols = [c \in Cols |-> IF old(@[c]) THEN Zero ELSE @[c]],
                                  !.dirty = (IF old(cl.row) THEN @ \ {"row"} ELSE @) \ {c \in Cols : old(cl.cols[c])}]
           waits == {r.outbox[i] : i \in 1..Len(r.outbox)}
           p == LocalPruned(r)
<1>1. ASSUME NEW cl, IsClock(cl)
      PROVE  StampsOf(drop(cl)) \subseteq StampsOf(cl) \cup {Zero}
  <2> DEFINE d == drop(cl)
             f == [c \in Cols |-> IF old(cl.cols[c]) THEN Zero ELSE cl.cols[c]]
  <2> HIDE DEF old
  <2>1. DOMAIN d = ClockFields /\ d.row \in {cl.row, Zero} /\ d.cols = f
    BY <1>1 DEF IsClock, ClockFields
  <2>2. f = [c \in Cols |-> f[c]] /\ \A c \in Cols : f[c] \in {cl.cols[c], Zero}
    OBVIOUS
  <2> HIDE DEF d, f
  <2>3. StampsOf(d) \subseteq StampsOf(cl) \cup {Zero}
    BY <1>1, <2>1, <2>2, DroppedIs
  <2> QED BY <2>3 DEF d
<1>2. p = [r EXCEPT !.clocks = [o \in Keys |-> IF o \in waits THEN r.clocks[o] ELSE drop(r.clocks[o])]]
  BY DEF LocalPruned
<1> HIDE DEF drop, p, waits
<1>3. p.clocks = [o \in Keys |-> IF o \in waits THEN r.clocks[o] ELSE drop(r.clocks[o])]
  BY <1>2 DEF ReplicaSees, RepFields
<1>4. IsClock(r.clocks[k])
  BY DEF ReplicaSees
<1>5. p.clocks[k] = r.clocks[k] \/ p.clocks[k] = drop(r.clocks[k])
  BY <1>3
<1>6. StampsOf(p.clocks[k]) \subseteq StampsOf(r.clocks[k]) \cup {Zero}
  BY <1>1, <1>4, <1>5
<1> QED BY <1>6 DEF p

LEMMA HousekeepOutcome ==
  ASSUME ClocksInv, ClocksAreNear, OutcomeInv, NEW n \in Nodes, NEW prune \in BOOLEAN, Housekeep(n, prune)
  PROVE  OutcomeInv'
<1>1. /\ DOMAIN rep = Nodes /\ DOMAIN job = Nodes /\ ReplicaSees(n, rep[n]) /\ ServerHolds(srv)
      /\ ReplicaWithin(rep[n], Reach) /\ ClocksWithin(srv.clocks, Reach) /\ Reach \in Nat /\ rep[n].hlc \in Nat
  BY ReachIs DEF OutcomeInv, ClocksInv, ReplicaSees
<1> DEFINE published == [srv EXCEPT !.cursors[n] = [seq |-> rep[n].cursor, at |-> wall]]
<1>2. /\ srv' = IF prune THEN Pruned(published) ELSE published
      /\ rep' = IF prune THEN [rep EXCEPT ![n] = LocalPruned(rep[n])] ELSE rep
      /\ job' = [job EXCEPT ![n] = Idle] /\ UNCHANGED << wall, skew, edits >>
  BY DEF Housekeep
<1>3. ServerHolds(published) /\ published.clocks = srv.clocks
  <2>1. DOMAIN published = ServerFields /\ published.clocks = srv.clocks /\ published.log = srv.log /\ published.hlc = srv.hlc
    BY <1>1 DEF ServerHolds, ServerFields
  <2> HIDE DEF published
  <2> QED BY <1>1, <2>1 DEF ServerHolds
<1> HIDE DEF published, Reach
<1>4. ClocksWithin(srv'.clocks, Reach)
  <2>1. \A k \in Keys : StampsOf(Pruned(published).clocks[k]) \subseteq StampsOf(srv.clocks[k]) \cup {Zero}
    BY <1>3, PrunedStamps
  <2>2. ClocksWithin(Pruned(published).clocks, Reach)
    BY <1>1, <2>1, DroppedWithin
  <2> QED BY <1>1, <1>2, <1>3, <2>2
<1>5. ReplicaWithin(LocalPruned(rep[n]), Reach)
  <2> DEFINE r == rep[n]
             p == LocalPruned(r)
  <2>1. ReplicaSees(n, r) /\ ReplicaWithin(r, Reach) /\ r.hlc \in Nat
    BY <1>1
  <2> HIDE DEF r
  <2>2. \A k \in Keys : StampsOf(p.clocks[k]) \subseteq StampsOf(r.clocks[k]) \cup {Zero}
    BY <2>1, LocalPrunedStamps
  <2>3. p.hlc = r.hlc
    BY <2>1 DEF LocalPruned, ReplicaSees, RepFields
  <2> HIDE DEF p
  <2>4. ClocksWithin(p.clocks, r.hlc)
    BY <2>1, <2>2, DroppedWithin DEF ReplicaWithin
  <2>5. ReplicaWithin(p, Reach)
    BY <2>1, <2>3, <2>4 DEF ReplicaWithin
  <2> QED BY <2>5 DEF p, r
<1>6. ReplicaWithin(rep'[n], Reach) /\ \A m \in Nodes \ {n} : rep'[m] = rep[m] /\ job'[m] = job[m]
  BY <1>1, <1>2, <1>5
<1>7. CarriesWithin(rep'[n], job'[n], Reach)
  <2>1. job'[n].at = "idle"
    BY <1>1, <1>2 DEF Idle
  <2> QED BY <2>1, CarriesNothing
<1> QED BY <1>2, <1>4, <1>6, <1>7, OutcomeStep

LEMMA InterruptedOutcome ==
  ASSUME ClocksInv, ClocksAreNear, OutcomeInv, NEW n \in Nodes, Interrupted(n)
  PROVE  OutcomeInv'
<1>1. /\ DOMAIN rep = Nodes /\ DOMAIN job = Nodes /\ ReplicaWithin(rep[n], Reach) /\ ClocksWithin(srv.clocks, Reach)
  BY DEF OutcomeInv, ClocksInv
<1>2. PICK next \in {Idle, [at |-> "head"]} : job' = [job EXCEPT ![n] = next]
  BY DEF Interrupted
<1>3. UNCHANGED << wall, skew, rep, srv, edits >>
  BY DEF Interrupted
<1>4. job'[n].at \in {"idle", "head"}
  BY <1>1, <1>2 DEF Idle
<1>5. CarriesWithin(rep'[n], job'[n], Reach)
  BY <1>4, CarriesNothing
<1> HIDE DEF Reach
<1> QED BY <1>1, <1>2, <1>3, <1>5, OutcomeStep

\* No step of a fleet whose clocks are near leaves the invariant.
LEMMA OutcomeInvStep ==
  ASSUME ClocksAreNear
  PROVE  ClocksInv /\ OutcomeInv /\ [NextReplica]_replicaVars => OutcomeInv'
<1> SUFFICES ASSUME ClocksInv, OutcomeInv, [NextReplica]_replicaVars PROVE OutcomeInv'
  OBVIOUS
<1>1. CASE UNCHANGED replicaVars
  BY <1>1 DEF replicaVars, OutcomeInv, ReplicaWithin, CarriesWithin, ClocksWithin, Reach, Ceiling
<1>2. ASSUME NEW n \in Nodes, SyncStep(n) PROVE OutcomeInv'
  BY <1>2, PushOutcome, PushCommitsOutcome, MergeBackOutcome, ClearOutboxOutcome, PullOutcome, FetchRowsOutcome,
     ApplyPullOutcome, ReseedHeadOutcome, ReseedPagesOutcome, ApplySeedOutcome, HousekeepOutcome DEF SyncStep
<1>3. ASSUME NEW n \in Nodes, Interrupted(n) PROVE OutcomeInv'
  BY <1>3, InterruptedOutcome
<1>4. ASSUME NEW n \in Nodes, NEW k \in Keys, NEW new, LocalEdit(n, k, new) PROVE OutcomeInv'
  BY <1>4, LocalEditOutcome
<1>5. ASSUME NEW k \in Keys, NEW new, OnlineEdit(k, new) PROVE OutcomeInv'
  BY <1>5, OnlineEditOutcome
<1>6. CASE Tick
  BY <1>6, TickOutcome
<1> QED BY <1>1, <1>2, <1>3, <1>4, <1>5, <1>6 DEF NextReplica

\* The step UnsentOutcomeStands asks for
OutcomeKept ==
  edits' = edits =>
     \A n \in Nodes, k \in Keys : \A c \in PushCols :
        /\ c \in rep[n].clocks[k].dirty
        /\ rep[n].row[k] # NoRow /\ rep'[n].row[k] # NoRow
        => rep'[n].row[k][c] = rep[n].row[k][c]

\* The rows that a merge leaves.
LEMMA MergedRows ==
  ASSUME NEW n, NEW r, ReplicaSees(n, r), NEW ks, NEW rows, NEW cls, NEW floor, NEW k \in Keys
  PROVE  Merged(r, n, ks, rows, cls, floor).row[k] =
           IF k \in ks THEN PlanMerge(r.row[k], r.clocks[k], rows[k], cls[k], floor) ELSE r.row[k]
<1> DEFINE m == Merged(r, n, ks, rows, cls, floor)
           after == [o \in Keys |-> IF o \in ks THEN PlanMerge(r.row[o], r.clocks[o], rows[o], cls[o], floor) ELSE r.row[o]]
<1>1. PICK laid, h : m = [r EXCEPT !.row = after, !.clocks = laid, !.hlc = h]
  BY DEF Merged
<1> HIDE DEF m
<1>2. after[k] = IF k \in ks THEN PlanMerge(r.row[k], r.clocks[k], rows[k], cls[k], floor) ELSE r.row[k]
  OBVIOUS
<1> HIDE DEF after
<1>3. m.row[k] = IF k \in ks THEN PlanMerge(r.row[k], r.clocks[k], rows[k], cls[k], floor) ELSE r.row[k]
  BY <1>1, <1>2 DEF ReplicaSees, RepFields
<1> QED BY <1>3 DEF m

\* A merge into the replica as it is keeps what was not sent yet.
LEMMA MergeKeepsUnsent ==
  ASSUME NEW n, NEW r, ReplicaSees(n, r), NEW ks, NEW rows, NEW cls, NEW floor, NEW k \in Keys, NEW c \in PushCols,
         c \in r.clocks[k].dirty, r.row[k] # NoRow, Merged(r, n, ks, rows, cls, floor).row[k] # NoRow
  PROVE  Merged(r, n, ks, rows, cls, floor).row[k][c] = r.row[k][c]
<1>1. PICK row, cl, srow, scl, now : /\ row = r.row[k] /\ cl = r.clocks[k] /\ srow = rows[k] /\ scl = cls[k]
                                     /\ now = Merged(r, n, ks, rows, cls, floor).row[k]
  OBVIOUS
<1>2. now = IF k \in ks THEN PlanMerge(row, cl, srow, scl, floor) ELSE row
  BY <1>1, MergedRows
<1>3. ChangedHere(cl, c)
  BY <1>1 DEF ChangedHere
<1> QED BY <1>1, <1>2, <1>3, PlanKeeps

\* What the answer to a push acknowledges was not edited since it was sent.
LEMMA AcknowledgedLeaves ==
  ASSUME NEW row, row # NoRow, NEW cl, IsClock(cl), NEW sent, NEW srow, NEW scl, NEW n, NEW c \in PushCols, c \in cl.dirty,
         AnswerStands(row, cl, srow, sent)
  PROVE  LET acl == Acknowledged(cl, sent, scl, n)
         IN ChangedHere(acl, c) \/ srow = NoRow \/ srow[c] = row[c]
<1> DEFINE acl == Acknowledged(cl, sent, scl, n)
           same == {d \in Cols : sent.cols[d] = cl.cols[d]} \cup (IF sent.has /\ sent.row = cl.row THEN {"row"} ELSE {})
<1>1. c \in Cols /\ c # "row" /\ "row" \notin Cols
  BY ReplicaAssumption DEF Cols
<1>2. acl.dirty = cl.dirty \ same /\ acl.alive = cl.alive
  BY DEF Acknowledged, IsClock, ClockFields
<1>3. ("row" \in same => sent.row = cl.row) /\ (c \in same => sent.cols[c] = cl.cols[c])
  BY <1>1
<1> HIDE DEF acl, same
<1>4. CASE cl.row # sent.row
  <2>1. "row" \in cl.dirty /\ cl.alive
    BY <1>4 DEF AnswerStands
  <2> QED BY <1>2, <1>3, <1>4, <2>1 DEF ChangedHere, acl
<1>5. CASE cl.row = sent.row /\ cl.cols[c] # sent.cols[c]
  BY <1>2, <1>3, <1>5 DEF ChangedHere, acl
<1>6. CASE cl.row = sent.row /\ cl.cols[c] = sent.cols[c]
  BY <1>6 DEF AnswerStands
<1> QED BY <1>4, <1>5, <1>6

LEMMA MergeBackKept ==
  ASSUME ClocksInv, OutcomeInv, NEW n \in Nodes, MergeBack(n)
  PROVE  OutcomeKept
<1> DEFINE a == Acked(n)
           m == Merged(a, n, job[n].keys, job[n].rows, job[n].clocks, job[n].floor)
<1>1. rep' = [rep EXCEPT ![n] = m] /\ job[n].at = "merging" /\ DOMAIN rep = Nodes
  BY DEF MergeBack, Acked, ClocksInv
<1>2. /\ ReplicaSees(n, a) /\ ReplicaSees(n, rep[n])
      /\ \A k \in Keys : a.clocks[k] = IF k \in job[n].keys
                           THEN Acknowledged(rep[n].clocks[k], job[n].sent[k], job[n].clocks[k], n)
                           ELSE rep[n].clocks[k]
  BY <1>1, AckedSees DEF ClocksInv
<1>3. a.row = rep[n].row
  BY <1>2 DEF Acked, ReplicaSees, RepFields
<1>4. \A k \in job[n].keys : AnswerStands(rep[n].row[k], rep[n].clocks[k], job[n].rows[k], job[n].sent[k])
  BY <1>1 DEF OutcomeInv, CarriesWithin
<1> HIDE DEF a, m
<1>5. ASSUME NEW k \in Keys, NEW c \in PushCols, c \in rep[n].clocks[k].dirty, rep[n].row[k] # NoRow, m.row[k] # NoRow
      PROVE  m.row[k][c] = rep[n].row[k][c]
  <2>1. PICK row, cl, sent, srow, scl, floor, acl, now :
           /\ row = rep[n].row[k] /\ cl = rep[n].clocks[k] /\ sent = job[n].sent[k] /\ srow = job[n].rows[k]
           /\ scl = job[n].clocks[k] /\ floor = job[n].floor /\ acl = a.clocks[k] /\ now = m.row[k]
    OBVIOUS
  <2>2. now = IF k \in job[n].keys THEN PlanMerge(row, acl, srow, scl, floor) ELSE row
    BY <1>2, <1>3, <2>1, MergedRows DEF m
  <2>3. CASE k \notin job[n].keys
    BY <2>1, <2>2, <2>3
  <2>4. CASE k \in job[n].keys
    <3>1. IsClock(cl) /\ AnswerStands(row, cl, srow, sent) /\ c \in cl.dirty /\ row # NoRow /\ now # NoRow
      BY <1>2, <1>4, <1>5, <2>1, <2>4 DEF ReplicaSees
    <3>2. acl = Acknowledged(cl, sent, scl, n)
      BY <1>2, <2>1, <2>4
    <3>3. ChangedHere(acl, c) \/ srow = NoRow \/ srow[c] = row[c]
      BY <3>1, <3>2, AcknowledgedLeaves
    <3>4. now[c] = row[c]
      BY <2>2, <2>4, <3>1, <3>3, PlanKeeps
    <3> QED BY <2>1, <3>4
  <2> QED BY <2>3, <2>4
<1>6. rep'[n] = m /\ \A o \in Nodes \ {n} : rep'[o] = rep[o]
  BY <1>1
<1> QED BY <1>5, <1>6 DEF OutcomeKept

LEMMA ApplyPullKept ==
  ASSUME ClocksInv, NEW n \in Nodes, ApplyPull(n)
  PROVE  OutcomeKept
<1> DEFINE m == Merged(rep[n], n, job[n].keys, job[n].rows, ReadWith(job[n]), job[n].floor)
           q == [m EXCEPT !.floor = job[n].floor, !.cursor = job[n].cursor]
<1>1. rep' = [rep EXCEPT ![n] = q] /\ ReplicaSees(n, rep[n]) /\ DOMAIN rep = Nodes
  BY DEF ApplyPull, ClocksInv
<1>2. ReplicaSees(n, m)
  <2>1. job[n].keys \subseteq Keys /\ ServerClocks(ReadWith(job[n]))
    BY ReadWithHolds DEF ClocksInv, JobCarries, ApplyPull
  <2> QED BY <1>1, <2>1, MergedSees, ClocksOf
<1>3. ASSUME NEW k \in Keys, NEW c \in PushCols, c \in rep[n].clocks[k].dirty, rep[n].row[k] # NoRow, m.row[k] # NoRow
      PROVE  m.row[k][c] = rep[n].row[k][c]
  BY <1>1, <1>3, MergeKeepsUnsent
<1> HIDE DEF m
<1>4. q.row = m.row
  BY <1>2 DEF ReplicaSees, RepFields
<1> HIDE DEF q
<1>5. rep'[n] = q /\ \A o \in Nodes \ {n} : rep'[o] = rep[o]
  BY <1>1
<1> QED BY <1>3, <1>4, <1>5 DEF OutcomeKept

LEMMA ApplySeedKept ==
  ASSUME ClocksInv, NEW n \in Nodes, ApplySeed(n)
  PROVE  OutcomeKept
<1> DEFINE m == Merged(rep[n], n, Keys, job[n].rows, ReadWith(job[n]), job[n].floor)
           q == [m EXCEPT !.floor = job[n].floor, !.cursor = job[n].cursor, !.seeded = TRUE]
<1>1. rep' = [rep EXCEPT ![n] = q] /\ ReplicaSees(n, rep[n]) /\ DOMAIN rep = Nodes
  BY DEF ApplySeed, ClocksInv
<1>2. ReplicaSees(n, m)
  <2>1. ServerClocks(ReadWith(job[n]))
    BY ReadWithHolds DEF ClocksInv, JobCarries, ApplySeed
  <2> QED BY <1>1, <2>1, MergedSees, ClocksOf
<1>3. ASSUME NEW k \in Keys, NEW c \in PushCols, c \in rep[n].clocks[k].dirty, rep[n].row[k] # NoRow, m.row[k] # NoRow
      PROVE  m.row[k][c] = rep[n].row[k][c]
  BY <1>1, <1>3, MergeKeepsUnsent
<1> HIDE DEF m
<1>4. q.row = m.row
  BY <1>2 DEF ReplicaSees, RepFields
<1> HIDE DEF q
<1>5. rep'[n] = q /\ \A o \in Nodes \ {n} : rep'[o] = rep[o]
  BY <1>1
<1> QED BY <1>3, <1>4, <1>5 DEF OutcomeKept

\* The steps that merge nothing leave every row of every replica.
LEMMA RowsStayKept ==
  ASSUME \A n \in Nodes : rep'[n].row = rep[n].row
  PROVE  OutcomeKept
BY DEF OutcomeKept

LEMMA OutcomeKeptStep ==
  ASSUME ClocksInv, ClocksAreNear, OutcomeInv, NextReplica
  PROVE  OutcomeKept
<1>0. DOMAIN rep = Nodes /\ \A n \in Nodes : DOMAIN rep[n] = RepFields
  BY DEF ClocksInv, ReplicaSees
<1>1. ASSUME NEW n \in Nodes, Push(n) \/ PushCommits(n) \/ FetchRows(n) \/ ReseedPages(n) \/ Interrupted(n) PROVE OutcomeKept
  <2>1. rep' = rep
    BY <1>1 DEF Push, PushCommits, FetchRows, ReseedPages, Interrupted
  <2> QED BY <2>1 DEF OutcomeKept
<1>2. ASSUME NEW n \in Nodes, ClearOutbox(n) PROVE OutcomeKept
  <2>1. PICK ob : rep' = [rep EXCEPT ![n].outbox = ob]
    BY <1>2 DEF ClearOutbox
  <2>2. \A m \in Nodes : rep'[m].row = rep[m].row
    BY <1>0, <2>1 DEF RepFields
  <2> QED BY <2>2, RowsStayKept
<1>3. ASSUME NEW n \in Nodes, Pull(n) \/ ReseedHead(n) PROVE OutcomeKept
  <2>1. Measured(n).row = rep[n].row /\ DOMAIN Measured(n) = RepFields
    BY MeasuredStays
  <2>2. \/ rep' = rep
        \/ rep' = [rep EXCEPT ![n] = Measured(n)]
        \/ rep' = [rep EXCEPT ![n] = [Measured(n) EXCEPT !.floor = srv.floor]]
    BY <1>3, PullIs DEF ReseedHead
  <2>3. \A m \in Nodes : rep'[m].row = rep[m].row
    <3> DEFINE mr == Measured(n)
    <3> HIDE DEF mr
    <3>1. mr.row = rep[n].row /\ DOMAIN mr = RepFields
      BY <2>1 DEF mr
    <3>2. \/ rep' = rep
          \/ rep' = [rep EXCEPT ![n] = mr]
          \/ rep' = [rep EXCEPT ![n] = [mr EXCEPT !.floor = srv.floor]]
      BY <2>2 DEF mr
    <3> QED BY <1>0, <3>1, <3>2 DEF RepFields
  <2> QED BY <2>3, RowsStayKept
<1>4. ASSUME NEW n \in Nodes, NEW prune \in BOOLEAN, Housekeep(n, prune) PROVE OutcomeKept
  <2>1. LocalPruned(rep[n]).row = rep[n].row
    BY <1>0 DEF LocalPruned, RepFields
  <2>2. rep' = rep \/ rep' = [rep EXCEPT ![n] = LocalPruned(rep[n])]
    BY <1>4 DEF Housekeep
  <2>3. \A m \in Nodes : rep'[m].row = rep[m].row
    BY <1>0, <2>1, <2>2
  <2> QED BY <2>3, RowsStayKept
<1>5. ASSUME NEW n \in Nodes, SyncStep(n) PROVE OutcomeKept
  BY <1>1, <1>2, <1>3, <1>4, <1>5, MergeBackKept, ApplyPullKept, ApplySeedKept DEF SyncStep
<1>6. ASSUME NEW n \in Nodes, NEW k, NEW new, LocalEdit(n, k, new) PROVE OutcomeKept
  <2>1. edits' = edits + 1
    BY <1>6 DEF LocalEdit
  <2>2. edits \in Nat
    BY DEF ClocksInv
  <2> QED BY <2>1, <2>2 DEF OutcomeKept
<1>7. ASSUME NEW k, NEW new, OnlineEdit(k, new) PROVE OutcomeKept
  <2>1. edits' = edits + 1 /\ edits \in Nat
    BY <1>7 DEF OnlineEdit, ClocksInv
  <2> QED BY <2>1 DEF OutcomeKept
<1>8. CASE Tick
  BY <1>8, RowsStayKept DEF Tick
<1> QED BY <1>1, <1>5, <1>6, <1>7, <1>8 DEF NextReplica

\* merge.go 20-22: an outcome decided on a replica and not pushed yet is not undone by
\* what a pull, a re-seed, or the answer to a push that was sent before it brings; for
\* any number of nodes, rows and columns, in whatever order the syncs come, whatever is
\* interrupted, lost, pruned, torn or edited online or in the same millisecond: as long
\* as no machine's clock is ahead by MaxClockLead or more.
THEOREM UnsentOutcomeAlwaysStands ==
  ASSUME ClocksAreNear
  PROVE  SpecReplica => UnsentOutcomeStands
<1>1. InitReplica => ClocksInv
  BY ClocksInvInit
<1>2. InitReplica => OutcomeInv
  BY OutcomeInvInit
<1>3. ClocksInv /\ [NextReplica]_replicaVars => ClocksInv'
  <2>1. 1 <= Lead
    BY ReplicaAssumption DEF ClocksAreNear
  <2> QED BY <2>1, ClocksInvStep
<1>4. ClocksInv /\ OutcomeInv /\ [NextReplica]_replicaVars => OutcomeInv'
  BY OutcomeInvStep
<1>5. ClocksInv /\ OutcomeInv /\ [NextReplica]_replicaVars => [OutcomeKept]_replicaVars
  BY OutcomeKeptStep
<1> QED BY <1>1, <1>2, <1>3, <1>4, <1>5, PTL DEF SpecReplica, UnsentOutcomeStands, OutcomeKept
=============================================================================
