----------------------------- MODULE ListProofs -----------------------------
(***************************************************************************)
(* A task list as a file keeps what its edits promise, for documents of    *)
(* any length and depth, any texts, any number of edits and any review.    *)
(*                                                                         *)
(* First what the operators of Checklist mean line by line: what belongs   *)
(* to an item, its parent, its position, its siblings. Then each edit as a *)
(* rearrangement of lines and what it keeps: a move swaps two stretches    *)
(* (Swapped), a deletion and an addition shift the rest. Then the          *)
(* inductive invariant (ListInv), one lemma per action.                    *)
(***************************************************************************)
EXTENDS Checklist, FiniteSetTheorems, SequenceTheorems, TLAPS

-----------------------------------------------------------------------------
(* Numbers *)

\* A set of numbers has a least one: an induction without an operator parameter.
LEMMA LeastNatural ==
  ASSUME NEW T \in SUBSET Nat, T # {}
  PROVE  \E m \in T : \A n \in T : m <= n
<1> DEFINE R == StrictSubsetOrdering(Nat)
           F == FiniteSubsetsOf(Nat)
           P == {1..t : t \in T}
<1>1. IsWellFoundedOn(R, F)
  BY FS_StrictSubsetOrderingWellFounded
<1>2. P \subseteq F /\ P # {}
  <2>1. ASSUME NEW t \in T PROVE 1..t \in F
    <3>1. t \in Int /\ 1 \in Int /\ 1..t \subseteq Nat
      OBVIOUS
    <3>2. IsFiniteSet(1..t)
      BY <3>1, FS_Interval
    <3> QED BY <3>1, <3>2 DEF FiniteSubsetsOf
  <2>2. P # {}
    OBVIOUS
  <2> QED BY <2>1, <2>2
<1>3. PICK x \in P : \A y \in P : ~(<<y, x>> \in R)
  <2> HIDE DEF R, F, P
  <2> QED BY <1>1, <1>2, WFMin
<1>4. PICK m \in T : x = 1..m
  OBVIOUS
<1>5. ASSUME NEW n \in T, ~(m <= n) PROVE FALSE
  <2>1. 1..n \in P /\ 1..n \subseteq 1..m /\ 1..n # 1..m
    <3>1. m \in 1..m /\ m \notin 1..n
      BY <1>5
    <3> QED BY <3>1, <1>5
  <2>2. <<1..n, x>> \in R
    BY <2>1, <1>4 DEF StrictSubsetOrdering
  <2> QED BY <2>1, <2>2, <1>3
<1> QED BY <1>5
-----------------------------------------------------------------------------
(* A list as a file: lines, what is nested under a line, and its edits *)

ListTexts == Texts \cup {""}
ListMarks == {"", " ", "x", "-"}
ListLines == [kind : {"item", "prose", "blank"}, d : Nat, text : ListTexts, mark : ListMarks, id : Nat]

\* A line of a list has the fields of a line.
LEMMA LineIs ==
  ASSUME NEW ls \in Seq(ListLines), NEW i \in 1..Len(ls)
  PROVE  /\ ls[i] \in ListLines /\ ls[i].kind \in {"item", "prose", "blank"} /\ ls[i].d \in Nat /\ ls[i].id \in Nat
         /\ i \in Nat /\ Len(ls) \in Nat /\ DOMAIN ls = 1..Len(ls)
         /\ i \in Items(ls) <=> ls[i].kind = "item"
<1>1. ls[i] \in ListLines /\ Len(ls) \in Nat /\ DOMAIN ls = 1..Len(ls) /\ i \in Nat
  OBVIOUS
<1>2. ls[i].kind \in {"item", "prose", "blank"} /\ ls[i].d \in Nat /\ ls[i].id \in Nat
  BY <1>1 DEF ListLines
<1>3. i \in Items(ls) <=> ls[i].kind = "item"
  BY <1>1 DEF Items
<1> QED BY <1>1, <1>2, <1>3

\* A set of lines has a first and a last one.
LEMMA FirstLine ==
  ASSUME NEW S \in SUBSET Nat, S # {}
  PROVE  MinLine(S) \in S /\ \A y \in S : MinLine(S) <= y
<1>1. \E x \in S : \A y \in S : x <= y
  BY LeastNatural
<1> QED BY <1>1 DEF MinLine

LEMMA LastLine ==
  ASSUME NEW n \in Nat, NEW S \in SUBSET (0..n), S # {}
  PROVE  MaxLine(S) \in S /\ \A y \in S : y <= MaxLine(S)
<1> DEFINE U == {u \in Nat : \A x \in S : x <= u}
           m == MinLine(U)
<1>1. n \in U
  OBVIOUS
<1>2. m \in U /\ \A y \in U : m <= y
  BY <1>1, FirstLine
<1> HIDE DEF m
<1>3. m \in S
  <2> SUFFICES ASSUME m \notin S PROVE FALSE
    OBVIOUS
  <2>1. PICK x \in S : TRUE
    OBVIOUS
  <2>2. \A y \in S : y \in Nat /\ y <= m /\ y # m
    BY <1>2
  <2>3. \A y \in S : y <= m - 1
    BY <1>2, <2>2
  <2>4. m - 1 \in Nat
    BY <1>2, <2>1, <2>2
  <2>5. m - 1 \in U
    BY <2>3, <2>4
  <2> QED BY <1>2, <2>5
<1>4. \E x \in S : \A y \in S : y <= x
  BY <1>2, <1>3
<1> QED BY <1>4 DEF MaxLine

\* From line i on, past what belongs to it and past blanks, not counting the blanks at the end.
ReachIs(B, I, i, n, e) ==
  /\ e \in i..n /\ (e = i \/ e \in I)
  /\ \A k \in i+1..e : k \in B \cup I
  /\ \E s \in e+1..n+1 : (\A k \in e+1..s-1 : k \in B) /\ (s <= n => s \notin B \cup I)

\* The last line of the set that DetailEnd and SubtreeEnd choose from is where the reach ends.
LEMMA Reaches ==
  ASSUME NEW n \in Nat, NEW i \in 1..n, NEW B, NEW I, B \cap I = {}
  PROVE  LET S == {i} \cup {j \in i+1..n : j \in I /\ \A k \in i+1..j : k \in B \cup I}
         IN  ReachIs(B, I, i, n, MaxLine(S)) /\ \A e : ReachIs(B, I, i, n, e) => e = MaxLine(S)
<1> DEFINE T == {j \in i+1..n : j \in I /\ \A k \in i+1..j : k \in B \cup I}
           S == {i} \cup T
           m == MaxLine(S)
<1>0. i \in Nat /\ n \in Nat /\ i <= n
  OBVIOUS
<1>1. S \in SUBSET (0..n) /\ S # {}
  BY <1>0
<1>2. m \in S /\ \A y \in S : y <= m
  BY <1>1, LastLine
<1> HIDE DEF m
<1>3. m \in i..n /\ (m = i \/ m \in I) /\ \A k \in i+1..m : k \in B \cup I
  <2>1. CASE m = i
    BY <1>0, <2>1
  <2>2. CASE m \in T
    BY <1>0, <2>2
  <2> QED BY <1>2, <2>1, <2>2
<1>4. \E s \in m+1..n+1 : (\A k \in m+1..s-1 : k \in B) /\ (s <= n => s \notin B \cup I)
  <2> DEFINE N == {k \in m+1..n+1 : k \notin B \/ k = n + 1}
             s == MinLine(N)
  <2>1. n + 1 \in N /\ N \in SUBSET Nat
    BY <1>0, <1>3
  <2>2. s \in N /\ \A y \in N : s <= y
    BY <2>1, FirstLine
  <2> HIDE DEF s
  <2>3. s \in m+1..n+1
    BY <2>2
  <2>4. ASSUME NEW k \in m+1..s-1 PROVE k \in B
    BY <1>0, <1>3, <2>2, <2>3
  <2>5. ASSUME s <= n PROVE s \notin B \cup I
    <3>1. s \notin B
      BY <1>0, <2>2, <2>5
    <3>2. ASSUME s \in I PROVE FALSE
      <4>1. s \in i+1..n
        BY <1>0, <1>3, <2>3, <2>5
      <4>2. ASSUME NEW k \in i+1..s PROVE k \in B \cup I
        <5>1. k \in i+1..m \/ k \in m+1..s-1 \/ k = s
          BY <1>0, <1>3, <2>3
        <5> QED BY <1>3, <2>4, <3>2, <5>1
      <4>3. s \in T
        BY <3>2, <4>1, <4>2
      <4> QED BY <1>0, <1>2, <1>3, <2>3, <4>3
    <3> QED BY <3>1, <3>2
  <2> QED BY <2>3, <2>4, <2>5
<1>5. ReachIs(B, I, i, n, m)
  BY <1>3, <1>4 DEF ReachIs
<1>6. ASSUME NEW e, ReachIs(B, I, i, n, e) PROVE e = m
  <2>1. /\ e \in i..n /\ (e = i \/ e \in I) /\ \A k \in i+1..e : k \in B \cup I
    BY <1>6 DEF ReachIs
  <2>2. PICK s \in e+1..n+1 : (\A k \in e+1..s-1 : k \in B) /\ (s <= n => s \notin B \cup I)
    BY <1>6 DEF ReachIs
  <2>3. e \in S
    BY <1>0, <2>1
  <2>4. e <= m
    BY <1>2, <2>3
  <2>5. ASSUME e < m PROVE FALSE
    <3>1. m \in I /\ m \in i..n
      BY <1>0, <1>3, <2>1, <2>5
    <3>2. CASE m < s
      <4>1. m \in e+1..s-1
        BY <1>0, <2>1, <2>2, <2>5, <3>1, <3>2
      <4> QED BY <2>2, <3>1, <4>1
    <3>3. CASE s <= m
      <4>1. s \in i+1..m /\ s <= n
        BY <1>0, <2>1, <2>2, <3>1, <3>3
      <4> QED BY <1>3, <2>2, <4>1
    <3> QED BY <1>0, <2>1, <2>2, <3>1, <3>2, <3>3
  <2> QED BY <1>0, <1>3, <2>1, <2>4, <2>5
<1> QED BY <1>5, <1>6 DEF m

\* What a line is, to the lines above it.
Blanks(ls) == {k \in DOMAIN ls : ls[k].kind = "blank"}
Details(ls, d) == {k \in DOMAIN ls : ls[k].kind = "prose" /\ ls[k].d > d}
Deeper(ls, d) == {k \in DOMAIN ls : ls[k].kind # "blank" /\ ls[k].d > d}

DetailIs(ls, i, e) == ReachIs(Blanks(ls), Details(ls, ls[i].d), i, Len(ls), e)
SubtreeIs(ls, i, e) == ReachIs(Blanks(ls), Deeper(ls, ls[i].d), i, Len(ls), e)

\* DetailEnd is the one line at which an item's detail ends.
LEMMA DetailEndIs ==
  ASSUME NEW ls \in Seq(ListLines), NEW i \in 1..Len(ls)
  PROVE  DetailIs(ls, i, DetailEnd(ls, i)) /\ \A e : DetailIs(ls, i, e) => e = DetailEnd(ls, i)
<1> DEFINE n == Len(ls)
           B == Blanks(ls)
           I == Details(ls, ls[i].d)
           S == {i} \cup {j \in i+1..n : j \in I /\ \A k \in i+1..j : k \in B \cup I}
<1>1. n \in Nat /\ DOMAIN ls = 1..n
  OBVIOUS
<1>2. B \cap I = {}
  BY DEF Blanks, Details
<1>3. S = {i} \cup {j \in i+1..Len(ls) :
                      /\ ls[j].kind = "prose"
                      /\ \A k \in i+1..j : ls[k].kind = "blank" \/ (ls[k].kind = "prose" /\ ls[k].d > ls[i].d)}
  <2>1. \A k \in i+1..n : (k \in B <=> ls[k].kind = "blank") /\ (k \in I <=> ls[k].kind = "prose" /\ ls[k].d > ls[i].d)
    BY <1>1 DEF Blanks, Details
  <2>2. ASSUME NEW j \in i+1..n
        PROVE  (j \in I /\ \A k \in i+1..j : k \in B \cup I)
               <=> /\ ls[j].kind = "prose"
                   /\ \A k \in i+1..j : ls[k].kind = "blank" \/ (ls[k].kind = "prose" /\ ls[k].d > ls[i].d)
    <3>1. \A k \in i+1..j : k \in i+1..n
      BY <1>1
    <3>2. j \in i+1..j
      BY <1>1
    <3>3. "prose" # "blank"
      OBVIOUS
    <3> HIDE DEF B, I
    <3> QED BY <2>1, <3>1, <3>2, <3>3
  <2> HIDE DEF B, I
  <2> QED BY <2>2
<1>4. DetailEnd(ls, i) = MaxLine(S)
  BY <1>3 DEF DetailEnd
<1> HIDE DEF n, B, I
<1>5. i \in 1..n
  BY DEF n
<1>6. ReachIs(B, I, i, n, MaxLine(S)) /\ \A e : ReachIs(B, I, i, n, e) => e = MaxLine(S)
  BY <1>1, <1>2, <1>5, Reaches
<1> HIDE DEF S
<1> QED BY <1>4, <1>6 DEF DetailIs, n, B, I

\* SubtreeEnd is the one line at which what is nested under a line ends.
LEMMA SubtreeEndIs ==
  ASSUME NEW ls \in Seq(ListLines), NEW i \in 1..Len(ls)
  PROVE  SubtreeIs(ls, i, SubtreeEnd(ls, i)) /\ \A e : SubtreeIs(ls, i, e) => e = SubtreeEnd(ls, i)
<1> DEFINE n == Len(ls)
           B == Blanks(ls)
           I == Deeper(ls, ls[i].d)
           S == {i} \cup {j \in i+1..n : j \in I /\ \A k \in i+1..j : k \in B \cup I}
<1>1. n \in Nat /\ DOMAIN ls = 1..n
  OBVIOUS
<1>2. B \cap I = {}
  BY DEF Blanks, Deeper
<1>3. S = {i} \cup {j \in i+1..Len(ls) :
                      /\ ls[j].kind # "blank"
                      /\ \A k \in i+1..j : ls[k].kind # "blank" => ls[k].d > ls[i].d}
  <2>1. \A k \in i+1..n : (k \in B <=> ls[k].kind = "blank") /\ (k \in I <=> ls[k].kind # "blank" /\ ls[k].d > ls[i].d)
    BY <1>1 DEF Blanks, Deeper
  <2>2. ASSUME NEW j \in i+1..n
        PROVE  (j \in I /\ \A k \in i+1..j : k \in B \cup I)
               <=> /\ ls[j].kind # "blank"
                   /\ \A k \in i+1..j : ls[k].kind # "blank" => ls[k].d > ls[i].d
    <3>1. \A k \in i+1..j : k \in i+1..n
      BY <1>1
    <3>2. j \in i+1..j
      BY <1>1
    <3> HIDE DEF B, I
    <3> QED BY <2>1, <3>1, <3>2
  <2> HIDE DEF B, I
  <2> QED BY <2>2
<1>4. SubtreeEnd(ls, i) = MaxLine(S)
  BY <1>3 DEF SubtreeEnd
<1> HIDE DEF n, B, I
<1>5. i \in 1..n
  BY DEF n
<1>6. ReachIs(B, I, i, n, MaxLine(S)) /\ \A e : ReachIs(B, I, i, n, e) => e = MaxLine(S)
  BY <1>1, <1>2, <1>5, Reaches
<1> HIDE DEF S
<1> QED BY <1>4, <1>6 DEF SubtreeIs, n, B, I

\* What stops an item's detail after line e, and its subtree.
DetailStops(ls, e, d) ==
  \E s \in e+1..Len(ls)+1 :
     /\ \A k \in e+1..s-1 : ls[k].kind = "blank"
     /\ s <= Len(ls) => ls[s].kind # "blank" /\ (ls[s].kind = "item" \/ ls[s].d <= d)
SubtreeStops(ls, e, d) ==
  \E s \in e+1..Len(ls)+1 :
     /\ \A k \in e+1..s-1 : ls[k].kind = "blank"
     /\ s <= Len(ls) => ls[s].kind # "blank" /\ ls[s].d <= d

\* The end of a detail, line by line.
LEMMA DetailMeans ==
  ASSUME NEW ls \in Seq(ListLines), NEW i \in 1..Len(ls), NEW e
  PROVE  DetailIs(ls, i, e) <=>
           /\ e \in i..Len(ls) /\ (e = i \/ ls[e].kind = "prose")
           /\ \A k \in i+1..e : ls[k].kind = "blank" \/ (ls[k].kind = "prose" /\ ls[k].d > ls[i].d)
           /\ DetailStops(ls, e, ls[i].d)
<1> DEFINE n == Len(ls)
           B == Blanks(ls)
           I == Details(ls, ls[i].d)
<1>1. n \in Nat /\ DOMAIN ls = 1..n /\ i \in 1..n
  OBVIOUS
<1>2. \A k \in 1..n : /\ (k \in B <=> ls[k].kind = "blank") /\ (k \in I <=> ls[k].kind = "prose" /\ ls[k].d > ls[i].d)
                      /\ ls[k].kind \in {"item", "prose", "blank"} /\ ls[k].d \in Nat
  <2>1. \A k \in 1..n : ls[k].kind \in {"item", "prose", "blank"} /\ ls[k].d \in Nat
    BY LineIs
  <2>2. \A k \in 1..n : (k \in B <=> ls[k].kind = "blank") /\ (k \in I <=> ls[k].kind = "prose" /\ ls[k].d > ls[i].d)
    BY <1>1 DEF Blanks, Details
  <2> QED BY <2>1, <2>2
<1>3. "prose" # "blank" /\ "item" # "blank" /\ "item" # "prose"
  OBVIOUS
<1> HIDE DEF B, I
<1>4. \A k \in 1..n : k \notin B \cup I <=> ls[k].kind # "blank" /\ (ls[k].kind = "item" \/ ls[k].d <= ls[i].d)
  BY <1>1, <1>2, <1>3
<1>5. ASSUME e \in i..n
      PROVE  /\ (e = i \/ e \in I) /\ (\A k \in i+1..e : k \in B \cup I)
                <=> /\ (e = i \/ ls[e].kind = "prose")
                    /\ \A k \in i+1..e : ls[k].kind = "blank" \/ (ls[k].kind = "prose" /\ ls[k].d > ls[i].d)
             /\ (\E s \in e+1..n+1 : (\A k \in e+1..s-1 : k \in B) /\ (s <= n => s \notin B \cup I)) <=> DetailStops(ls, e, ls[i].d)
  <2>1. \A k \in i+1..e : k \in 1..n
    BY <1>1, <1>5
  <2>2. e = i \/ e \in i+1..e
    BY <1>1, <1>5
  <2>3. \A s \in e+1..n+1 : (\A k \in e+1..s-1 : k \in 1..n) /\ (s <= n => s \in 1..n)
    BY <1>1, <1>5
  <2>4. /\ (e = i \/ e \in I) /\ (\A k \in i+1..e : k \in B \cup I)
           <=> /\ (e = i \/ ls[e].kind = "prose")
               /\ \A k \in i+1..e : ls[k].kind = "blank" \/ (ls[k].kind = "prose" /\ ls[k].d > ls[i].d)
    BY <1>2, <1>3, <2>1, <2>2
  <2>5. \A s \in e+1..n+1 :
           ((\A k \in e+1..s-1 : k \in B) /\ (s <= n => s \notin B \cup I))
           <=> /\ \A k \in e+1..s-1 : ls[k].kind = "blank"
               /\ s <= n => ls[s].kind # "blank" /\ (ls[s].kind = "item" \/ ls[s].d <= ls[i].d)
    BY <1>2, <1>4, <2>3
  <2> QED BY <2>4, <2>5 DEF DetailStops
<1> QED BY <1>5 DEF DetailIs, ReachIs, n, B, I

\* The end of a subtree, line by line.
LEMMA SubtreeMeans ==
  ASSUME NEW ls \in Seq(ListLines), NEW i \in 1..Len(ls), NEW e
  PROVE  SubtreeIs(ls, i, e) <=>
           /\ e \in i..Len(ls) /\ (e = i \/ ls[e].kind # "blank")
           /\ \A k \in i+1..e : ls[k].kind = "blank" \/ ls[k].d > ls[i].d
           /\ SubtreeStops(ls, e, ls[i].d)
<1> DEFINE n == Len(ls)
           B == Blanks(ls)
           I == Deeper(ls, ls[i].d)
<1>1. n \in Nat /\ DOMAIN ls = 1..n /\ i \in 1..n
  OBVIOUS
<1>2. \A k \in 1..n : /\ (k \in B <=> ls[k].kind = "blank") /\ (k \in I <=> ls[k].kind # "blank" /\ ls[k].d > ls[i].d)
                      /\ ls[k].d \in Nat
  <2>1. \A k \in 1..n : ls[k].d \in Nat
    BY LineIs
  <2>2. \A k \in 1..n : (k \in B <=> ls[k].kind = "blank") /\ (k \in I <=> ls[k].kind # "blank" /\ ls[k].d > ls[i].d)
    BY <1>1 DEF Blanks, Deeper
  <2> QED BY <2>1, <2>2
<1> HIDE DEF B, I
<1>4. \A k \in 1..n : k \notin B \cup I <=> ls[k].kind # "blank" /\ ls[k].d <= ls[i].d
  BY <1>1, <1>2
<1>5. ASSUME e \in i..n
      PROVE  /\ (e = i \/ e \in I) /\ (\A k \in i+1..e : k \in B \cup I)
                <=> /\ (e = i \/ ls[e].kind # "blank")
                    /\ \A k \in i+1..e : ls[k].kind = "blank" \/ ls[k].d > ls[i].d
             /\ (\E s \in e+1..n+1 : (\A k \in e+1..s-1 : k \in B) /\ (s <= n => s \notin B \cup I)) <=> SubtreeStops(ls, e, ls[i].d)
  <2>1. \A k \in i+1..e : k \in 1..n
    BY <1>1, <1>5
  <2>2. e = i \/ e \in i+1..e
    BY <1>1, <1>5
  <2>3. \A s \in e+1..n+1 : (\A k \in e+1..s-1 : k \in 1..n) /\ (s <= n => s \in 1..n)
    BY <1>1, <1>5
  <2>4. /\ (e = i \/ e \in I) /\ (\A k \in i+1..e : k \in B \cup I)
           <=> /\ (e = i \/ ls[e].kind # "blank")
               /\ \A k \in i+1..e : ls[k].kind = "blank" \/ ls[k].d > ls[i].d
    BY <1>2, <2>1, <2>2
  <2>5. \A s \in e+1..n+1 :
           ((\A k \in e+1..s-1 : k \in B) /\ (s <= n => s \notin B \cup I))
           <=> /\ \A k \in e+1..s-1 : ls[k].kind = "blank"
               /\ s <= n => ls[s].kind # "blank" /\ ls[s].d <= ls[i].d
    BY <1>2, <1>4, <2>3
  <2> QED BY <2>4, <2>5 DEF SubtreeStops
<1> QED BY <1>5 DEF SubtreeIs, ReachIs, n, B, I

\* A piece of one list that stands somewhere in another: an item's detail comes with it when it
\* stops where it stopped.
LEMMA DetailComes ==
  ASSUME NEW ls \in Seq(ListLines), NEW ms \in Seq(ListLines), NEW i \in 1..Len(ls), NEW j \in 1..Len(ms), NEW e \in Int,
         DetailIs(ls, i, e), j + (e - i) <= Len(ms), \A k \in 0..(e - i) : ms[j + k] = ls[i + k],
         DetailStops(ms, j + (e - i), ls[i].d)
  PROVE  Folded(ms, j) = Folded(ls, i)
<1> DEFINE f == j + (e - i)
<1>0. Len(ls) \in Nat /\ Len(ms) \in Nat /\ i \in Nat /\ j \in Nat
  OBVIOUS
<1>1. /\ e \in i..Len(ls) /\ (e = i \/ ls[e].kind = "prose")
      /\ \A k \in i+1..e : ls[k].kind = "blank" \/ (ls[k].kind = "prose" /\ ls[k].d > ls[i].d)
  BY DetailMeans
<1>2. ms[j] = ls[i]
  <2>1. 0 \in 0..(e - i)
    BY <1>0, <1>1
  <2>2. ms[j + 0] = ls[i + 0]
    BY <2>1
  <2> QED BY <1>0, <2>2
<1>3. f \in j..Len(ms) /\ (f = j \/ ms[f].kind = "prose")
  <2>1. e - i \in 0..(e - i) /\ i + (e - i) = e
    BY <1>0, <1>1
  <2>2. ms[f] = ls[e]
    BY <2>1
  <2>3. f \in j..Len(ms)
    BY <1>0, <1>1
  <2> QED BY <1>0, <1>1, <2>2, <2>3
<1>4. ASSUME NEW k \in j+1..f PROVE ms[k].kind = "blank" \/ (ms[k].kind = "prose" /\ ms[k].d > ms[j].d)
  <2>0. k \in Int /\ j + 1 <= k /\ k <= j + (e - i)
    BY <1>0
  <2>1. k - j \in 0..(e - i) /\ j + (k - j) = k /\ i + (k - j) \in i+1..e
    BY <1>0, <2>0
  <2>2. ms[k] = ls[i + (k - j)]
    BY <2>1
  <2> QED BY <1>1, <1>2, <2>1, <2>2
<1>5. DetailStops(ms, f, ms[j].d)
  BY <1>2
<1> HIDE DEF f
<1>6. DetailIs(ms, j, f)
  BY <1>3, <1>4, <1>5, DetailMeans
<1>7. f = DetailEnd(ms, j) /\ e = DetailEnd(ls, i)
  BY <1>6, DetailEndIs
<1>8. f - j + 1 = e - i + 1
  BY <1>0, <1>1 DEF f
<1>9. Folded(ms, j) = [k \in 1..(e - i + 1) |-> ms[j + k - 1].id] /\ Folded(ls, i) = [k \in 1..(e - i + 1) |-> ls[i + k - 1].id]
  BY <1>7, <1>8 DEF Folded
<1>10. \A k \in 1..(e - i + 1) : ms[j + k - 1].id = ls[i + k - 1].id
  <2> SUFFICES ASSUME NEW k \in 1..(e - i + 1) PROVE ms[j + k - 1] = ls[i + k - 1]
    OBVIOUS
  <2>1. k - 1 \in 0..(e - i) /\ j + (k - 1) = j + k - 1 /\ i + (k - 1) = i + k - 1
    BY <1>0, <1>1
  <2>2. ms[j + (k - 1)] = ls[i + (k - 1)]
    BY <2>1
  <2> QED BY <2>1, <2>2
<1> QED BY <1>9, <1>10

-----------------------------------------------------------------------------
(* Parents, counts and positions *)

\* The line an item is nested under.
ParentIs(ls, i, p) ==
  \/ p = 0 /\ \A k \in Items(ls) : k < i => ls[k].d >= ls[i].d
  \/ /\ p \in Items(ls) /\ p < i /\ ls[p].d < ls[i].d
     /\ \A k \in Items(ls) : p < k /\ k < i => ls[k].d >= ls[i].d

\* Items are lines of the list.
LEMMA ItemsAre ==
  ASSUME NEW ls \in Seq(ListLines)
  PROVE  /\ Items(ls) \subseteq 1..Len(ls) /\ Len(ls) \in Nat
         /\ \A k \in Items(ls) : k \in Nat /\ k \in 1..Len(ls) /\ ls[k].kind = "item" /\ ls[k].d \in Nat /\ ls[k].id \in Nat
<1>1. Items(ls) \subseteq 1..Len(ls) /\ Len(ls) \in Nat
  BY DEF Items
<1>2. ASSUME NEW k \in Items(ls)
      PROVE  k \in Nat /\ k \in 1..Len(ls) /\ ls[k].kind = "item" /\ ls[k].d \in Nat /\ ls[k].id \in Nat
  <2>1. k \in 1..Len(ls)
    BY <1>1
  <2> QED BY <2>1, LineIs
<1> QED BY <1>1, <1>2

\* Parent is the nearest item above that is less indented, or 0.
LEMMA ParentMeans ==
  ASSUME NEW ls \in Seq(ListLines), NEW i \in Items(ls)
  PROVE  ParentIs(ls, i, Parent(ls, i)) /\ \A p : ParentIs(ls, i, p) => p = Parent(ls, i)
<1> DEFINE above == {j \in Items(ls) : j < i /\ ls[j].d < ls[i].d}
<1>0. /\ Items(ls) \subseteq 1..Len(ls) /\ Len(ls) \in Nat
      /\ \A k \in Items(ls) : k \in Nat /\ ls[k].d \in Nat
  BY ItemsAre
<1>1. Parent(ls, i) = IF above = {} THEN 0 ELSE MaxLine(above)
  BY DEF Parent
<1>2. CASE above = {}
  <2>1. Parent(ls, i) = 0
    BY <1>1, <1>2
  <2>2. \A k \in Items(ls) : k < i => ls[k].d >= ls[i].d
    BY <1>0, <1>2
  <2>3. ASSUME NEW p, ParentIs(ls, i, p) PROVE p = 0
    BY <1>2, <2>3 DEF ParentIs
  <2> QED BY <2>1, <2>2, <2>3 DEF ParentIs
<1>3. CASE above # {}
  <2> DEFINE m == MaxLine(above)
  <2>1. above \in SUBSET (0..Len(ls))
    BY <1>0
  <2>2. m \in above /\ \A y \in above : y <= m
    BY <1>0, <1>3, <2>1, LastLine
  <2>3. Parent(ls, i) = m
    BY <1>1, <1>3
  <2> HIDE DEF m
  <2>4. ParentIs(ls, i, m)
    <3>1. m \in Items(ls) /\ m < i /\ ls[m].d < ls[i].d
      BY <2>2
    <3>2. ASSUME NEW k \in Items(ls), m < k, k < i, ~(ls[k].d >= ls[i].d) PROVE FALSE
      <4>1. k \in above
        BY <1>0, <3>2
      <4> QED BY <1>0, <2>2, <3>1, <3>2, <4>1
    <3> QED BY <3>1, <3>2 DEF ParentIs
  <2>5. ASSUME NEW p, ParentIs(ls, i, p) PROVE p = m
    <3>0. m \in Items(ls) /\ m < i /\ ls[m].d < ls[i].d /\ m \in Nat /\ ls[m].d \in Nat /\ ls[i].d \in Nat
      BY <1>0, <2>2
    <3>1. p # 0
      <4> SUFFICES ASSUME p = 0 PROVE FALSE
        OBVIOUS
      <4>1. \A k \in Items(ls) : k < i => ls[k].d >= ls[i].d
        BY <1>0, <2>5 DEF ParentIs
      <4> QED BY <3>0, <4>1
    <3>2. /\ p \in Items(ls) /\ p < i /\ ls[p].d < ls[i].d
          /\ \A k \in Items(ls) : p < k /\ k < i => ls[k].d >= ls[i].d
      BY <2>5, <3>1 DEF ParentIs
    <3>3. p <= m
      BY <2>2, <3>2
    <3>4. ~(p < m)
      BY <3>0, <3>2
    <3> QED BY <1>0, <3>0, <3>2, <3>3, <3>4
  <2> QED BY <2>3, <2>4, <2>5
<1> QED BY <1>2, <1>3

\* The items from one line to another.
Between(ls, lo, hi) == {k \in Items(ls) : lo <= k /\ k <= hi}
Count(ls, lo, hi) == Cardinality(Between(ls, lo, hi))

\* Items of a stretch of lines, counted in pieces.
LEMMA CountIs ==
  ASSUME NEW ls \in Seq(ListLines), NEW lo \in Int, NEW hi \in Int
  PROVE  /\ IsFiniteSet(Between(ls, lo, hi)) /\ Count(ls, lo, hi) \in Nat
         /\ hi < lo => Count(ls, lo, hi) = 0
         /\ \A mid \in Int : lo <= mid + 1 /\ mid <= hi => Count(ls, lo, hi) = Count(ls, lo, mid) + Count(ls, mid + 1, hi)
         /\ lo = hi => Count(ls, lo, hi) = IF lo \in Items(ls) THEN 1 ELSE 0
<1>0. /\ Items(ls) \subseteq 1..Len(ls) /\ Len(ls) \in Nat /\ \A k \in Items(ls) : k \in Nat
  BY ItemsAre
<1>1. IsFiniteSet(Items(ls))
  <2>1. IsFiniteSet(1..Len(ls))
    BY <1>0, FS_Interval
  <2> QED BY <1>0, <2>1, FS_Subset
<1>2. ASSUME NEW a \in Int, NEW b \in Int PROVE IsFiniteSet(Between(ls, a, b)) /\ Count(ls, a, b) \in Nat
  <2>1. Between(ls, a, b) \in SUBSET Items(ls)
    BY DEF Between
  <2>2. IsFiniteSet(Between(ls, a, b))
    BY <1>1, <2>1, FS_Subset
  <2> QED BY <2>2, FS_CardinalityType DEF Count
<1>3. ASSUME hi < lo PROVE Count(ls, lo, hi) = 0
  <2>1. Between(ls, lo, hi) = {}
    BY <1>0, <1>3 DEF Between
  <2> QED BY <2>1, FS_EmptySet DEF Count
<1>4. ASSUME NEW mid \in Int, lo <= mid + 1, mid <= hi
      PROVE  Count(ls, lo, hi) = Count(ls, lo, mid) + Count(ls, mid + 1, hi)
  <2> DEFINE S == Between(ls, lo, mid)
             T == Between(ls, mid + 1, hi)
  <2>1. Between(ls, lo, hi) = S \cup T
    <3>1. \A k \in Items(ls) : (lo <= k /\ k <= hi) <=> ((lo <= k /\ k <= mid) \/ (mid + 1 <= k /\ k <= hi))
      BY <1>0, <1>4
    <3> QED BY <3>1 DEF Between
  <2>2. S \cap T = {}
    BY <1>0 DEF Between
  <2>3. IsFiniteSet(S) /\ IsFiniteSet(T) /\ Cardinality(S) \in Nat /\ Cardinality(T) \in Nat
    <3>1. mid + 1 \in Int
      OBVIOUS
    <3>2. IsFiniteSet(S) /\ Cardinality(S) \in Nat
      BY <1>2 DEF Count
    <3>3. IsFiniteSet(T) /\ Cardinality(T) \in Nat
      BY <1>2, <3>1 DEF Count
    <3> QED BY <3>2, <3>3
  <2> HIDE DEF S, T
  <2>4. Cardinality(S \cup T) = Cardinality(S) + Cardinality(T) - Cardinality(S \cap T)
    BY <2>3, FS_Union
  <2>5. Cardinality(S \cap T) = 0
    BY <2>2, FS_EmptySet
  <2>6. Cardinality(S \cup T) = Cardinality(S) + Cardinality(T)
    BY <2>3, <2>4, <2>5
  <2> QED BY <2>1, <2>6 DEF Count, S, T
<1>5. ASSUME lo = hi PROVE Count(ls, lo, hi) = IF lo \in Items(ls) THEN 1 ELSE 0
  <2>1. CASE lo \in Items(ls)
    <3>1. Between(ls, lo, hi) = {lo}
      BY <1>0, <1>5, <2>1 DEF Between
    <3> QED BY <2>1, <3>1, FS_Singleton DEF Count
  <2>2. CASE lo \notin Items(ls)
    <3>1. Between(ls, lo, hi) = {}
      BY <1>0, <1>5, <2>2 DEF Between
    <3> QED BY <2>2, <3>1, FS_EmptySet DEF Count
  <2> QED BY <2>1, <2>2
<1> QED BY <1>2, <1>3, <1>4, <1>5

\* Lines lo..hi of one list stand in another, from lo2 to hi2.
Carried(ls, ms, lo, hi, lo2, hi2) ==
  /\ lo \in Int /\ hi \in Int /\ lo2 \in Int /\ hi2 \in Int
  /\ hi2 - hi = lo2 - lo /\ 1 <= lo /\ hi <= Len(ls) /\ 1 <= lo2 /\ hi2 <= Len(ms)
  /\ \A k \in lo..hi : ms[k + (lo2 - lo)] = ls[k]

\* A stretch that stands somewhere else has as many items there.
LEMMA CountComes ==
  ASSUME NEW ls \in Seq(ListLines), NEW ms \in Seq(ListLines), NEW lo, NEW hi, NEW lo2, NEW hi2, Carried(ls, ms, lo, hi, lo2, hi2)
  PROVE  Count(ms, lo2, hi2) = Count(ls, lo, hi)
<1> DEFINE t == lo2 - lo
           S == Between(ls, lo, hi)
           T == Between(ms, lo2, hi2)
           f == [k \in S |-> k + t]
<1>0. /\ Len(ls) \in Nat /\ Len(ms) \in Nat
      /\ \A k \in Items(ls) : k \in Nat
      /\ \A k \in Items(ms) : k \in Nat
  BY ItemsAre
<1>c. /\ lo \in Int /\ hi \in Int /\ lo2 \in Int /\ hi2 \in Int
      /\ hi2 - hi = lo2 - lo /\ 1 <= lo /\ hi <= Len(ls) /\ 1 <= lo2 /\ hi2 <= Len(ms)
      /\ \A k \in lo..hi : ms[k + t] = ls[k]
  BY DEF Carried
<1>t. /\ t \in Int /\ lo2 = lo + t /\ hi2 = hi + t /\ \A k \in lo..hi : ms[k + t] = ls[k]
      /\ lo \in Int /\ hi \in Int /\ lo2 \in Int /\ hi2 \in Int
      /\ 1 <= lo /\ hi <= Len(ls) /\ 1 <= lo2 /\ hi2 <= Len(ms)
  BY <1>c
<1> HIDE DEF t
<1>1. \A k \in lo..hi : (k \in Items(ls) <=> ls[k].kind = "item") /\ (k + t \in Items(ms) <=> ms[k + t].kind = "item")
  <2> SUFFICES ASSUME NEW k \in lo..hi
               PROVE  (k \in Items(ls) <=> ls[k].kind = "item") /\ (k + t \in Items(ms) <=> ms[k + t].kind = "item")
    OBVIOUS
  <2>1. k \in 1..Len(ls) /\ k + t \in 1..Len(ms)
    BY <1>0, <1>t
  <2> QED BY <2>1, LineIs
<1>2. \A k \in lo..hi : k \in Items(ls) <=> k + t \in Items(ms)
  BY <1>1, <1>t
<1>3. \A k \in S : k \in lo..hi /\ k \in Items(ls)
  BY <1>0, <1>t DEF Between
<1>4. \A k \in S : k + t \in T
  BY <1>0, <1>t, <1>2, <1>3 DEF Between
<1>5. \A m \in T : m - t \in S /\ (m - t) + t = m
  <2> SUFFICES ASSUME NEW m \in T PROVE m - t \in S /\ (m - t) + t = m
    OBVIOUS
  <2>1. m \in Items(ms) /\ m \in Nat /\ m - t \in lo..hi /\ (m - t) + t = m
    BY <1>0, <1>t DEF Between
  <2>2. m - t \in Items(ls)
    BY <1>2, <2>1
  <2> QED BY <1>t, <2>1, <2>2 DEF Between
<1> HIDE DEF S, T
<1>6. f \in Bijection(S, T)
  <2>1. f \in [S -> T]
    BY <1>4
  <2>2. \A a, b \in S : f[a] = f[b] => a = b
    BY <1>3, <1>t
  <2>3. \A m \in T : \E a \in S : f[a] = m
    BY <1>5
  <2>4. f \in Injection(S, T)
    BY <2>1, <2>2 DEF Injection, IsInjective
  <2>5. f \in Surjection(S, T)
    BY <2>1, <2>3 DEF Surjection
  <2> QED BY <2>4, <2>5 DEF Bijection
<1> HIDE DEF f
<1>7. IsFiniteSet(S)
  BY <1>t, CountIs DEF S
<1>8. Cardinality(T) = Cardinality(S)
  BY <1>6, <1>7, FS_Bijection DEF ExistsBijection
<1> QED BY <1>8 DEF Count, S, T

\* An item's position counts the items down to it, and LineAt leads back.
LEMMA PositionIs ==
  ASSUME NEW ls \in Seq(ListLines), NEW i \in Items(ls)
  PROVE  /\ Position(ls, i) = Count(ls, 1, i) /\ Position(ls, i) = Count(ls, 1, i - 1) + 1
         /\ Position(ls, i) \in Nat
         /\ LineAt(ls, Position(ls, i)) = i
<1>0. \A k \in Items(ls) : k \in Nat /\ 1 <= k
  BY ItemsAre
<1>1. \A k \in Items(ls) : Position(ls, k) = Count(ls, 1, k)
  <2>1. \A k \in Items(ls) : {j \in Items(ls) : j <= k} = Between(ls, 1, k)
    BY <1>0 DEF Between
  <2> QED BY <2>1 DEF Position, Count
<1>2. ASSUME NEW k \in Items(ls) PROVE Count(ls, 1, k) = Count(ls, 1, k - 1) + 1 /\ Count(ls, 1, k - 1) \in Nat
  <2>1. k \in Int /\ k - 1 \in Int /\ 1 \in Int /\ 1 <= (k - 1) + 1 /\ k - 1 <= k /\ (k - 1) + 1 = k
    BY <1>0
  <2>2. Count(ls, 1, k) = Count(ls, 1, k - 1) + Count(ls, k, k)
    BY <2>1, CountIs
  <2>3. Count(ls, k, k) = 1
    BY <2>1, CountIs
  <2>4. Count(ls, 1, k - 1) \in Nat
    BY <2>1, CountIs
  <2> QED BY <2>2, <2>3, <2>4
<1>3. ASSUME NEW k \in Items(ls), NEW j \in Items(ls), j < k PROVE Count(ls, 1, j) < Count(ls, 1, k)
  <2>1. j \in Int /\ k - 1 \in Int /\ 1 \in Int /\ 1 <= j + 1 /\ j <= k - 1 /\ j + 1 \in Int
    BY <1>0, <1>3
  <2>2. Count(ls, 1, k - 1) = Count(ls, 1, j) + Count(ls, j + 1, k - 1)
    BY <2>1, CountIs
  <2>3. Count(ls, 1, j) \in Nat /\ Count(ls, j + 1, k - 1) \in Nat
    BY <2>1, CountIs
  <2> QED BY <1>2, <2>2, <2>3
<1>4. \A k \in Items(ls) : Position(ls, k) = Position(ls, i) => k = i
  <2> SUFFICES ASSUME NEW k \in Items(ls), Position(ls, k) = Position(ls, i), k # i PROVE FALSE
    OBVIOUS
  <2>1. Count(ls, 1, k) = Count(ls, 1, i) /\ Count(ls, 1, k) \in Nat
    BY <1>0, <1>1, CountIs
  <2>2. k < i \/ i < k
    BY <1>0
  <2>3. Count(ls, 1, k) < Count(ls, 1, i) \/ Count(ls, 1, i) < Count(ls, 1, k)
    BY <1>3, <2>2
  <2> QED BY <2>1, <2>3
<1>5. LineAt(ls, Position(ls, i)) = i
  <2> DEFINE n == Position(ls, i)
             x == CHOOSE y \in Items(ls) : Position(ls, y) = n
  <2>1. x \in Items(ls) /\ Position(ls, x) = n
    OBVIOUS
  <2>2. LineAt(ls, n) = x
    BY DEF LineAt
  <2> HIDE DEF x
  <2> QED BY <1>4, <2>1, <2>2
<1> QED BY <1>1, <1>2, <1>5

-----------------------------------------------------------------------------
(* Lists cut and put together *)

\* A piece of a list.
LEMMA PieceIs ==
  ASSUME NEW ls \in Seq(ListLines), NEW lo \in Int, NEW hi \in Int, 1 <= lo, lo <= hi + 1, hi <= Len(ls)
  PROVE  /\ SubSeq(ls, lo, hi) \in Seq(ListLines) /\ Len(SubSeq(ls, lo, hi)) = hi - lo + 1
         /\ \A k \in 1..(hi - lo + 1) : SubSeq(ls, lo, hi)[k] = ls[lo + k - 1]
<1>1. Len(ls) \in Nat
  OBVIOUS
<1>2. \A i \in lo..hi : ls[i] \in ListLines
  BY <1>1
<1>3. /\ SubSeq(ls, lo, hi) \in Seq(ListLines)
      /\ Len(SubSeq(ls, lo, hi)) = IF lo <= hi THEN hi - lo + 1 ELSE 0
      /\ \A i \in 1..(hi - lo + 1) : SubSeq(ls, lo, hi)[i] = ls[lo + i - 1]
  <2>1. lo \in 1..(Len(ls) + 1) /\ hi \in (lo - 1)..Len(ls)
    BY <1>1
  <2> QED BY <1>1, <2>1, SubSeqProperties
<1> QED BY <1>3

\* A list without some of its lines.
LEMMA WithoutIs ==
  ASSUME NEW ls \in Seq(ListLines), NEW from \in Int, NEW to \in Int, 1 <= from, from <= to + 1, to <= Len(ls)
  PROVE  LET r == Without(ls, from, to)
             t == to - from + 1
         IN  /\ r \in Seq(ListLines) /\ Len(r) = Len(ls) - t
             /\ \A k \in 1..from-1 : r[k] = ls[k]
             /\ \A k \in from..Len(ls)-t : r[k] = ls[k + t]
<1> DEFINE p == SubSeq(ls, 1, from - 1)
           q == SubSeq(ls, to + 1, Len(ls))
           t == to - from + 1
           r == p \o q
<1>0. Len(ls) \in Nat /\ t \in Nat /\ from - 1 \in Nat
  OBVIOUS
<1>1. /\ p \in Seq(ListLines) /\ Len(p) = from - 1 /\ \A k \in 1..from-1 : p[k] = ls[k]
  <2>1. 1 \in Int /\ from - 1 \in Int /\ 1 <= 1 /\ 1 <= (from - 1) + 1 /\ from - 1 <= Len(ls)
    BY <1>0
  <2>2. p \in Seq(ListLines) /\ Len(p) = (from - 1) - 1 + 1 /\ \A k \in 1..((from - 1) - 1 + 1) : p[k] = ls[1 + k - 1]
    BY <2>1, PieceIs
  <2> HIDE DEF p
  <2>3. (from - 1) - 1 + 1 = from - 1 /\ \A k \in 1..from-1 : 1 + k - 1 = k
    BY <1>0
  <2> QED BY <2>2, <2>3
<1>2. /\ q \in Seq(ListLines) /\ Len(q) = Len(ls) - to /\ \A k \in 1..(Len(ls) - to) : q[k] = ls[to + k]
  <2>1. to + 1 \in Int /\ Len(ls) \in Int /\ 1 <= to + 1 /\ to + 1 <= Len(ls) + 1 /\ Len(ls) <= Len(ls)
    BY <1>0
  <2>2. q \in Seq(ListLines) /\ Len(q) = Len(ls) - (to + 1) + 1 /\ \A k \in 1..(Len(ls) - (to + 1) + 1) : q[k] = ls[(to + 1) + k - 1]
    BY <2>1, PieceIs
  <2> HIDE DEF q
  <2>3. Len(ls) - (to + 1) + 1 = Len(ls) - to /\ \A k \in Nat : (to + 1) + k - 1 = to + k
    BY <1>0
  <2> QED BY <2>2, <2>3
<1> HIDE DEF p, q
<1>3. r \in Seq(ListLines) /\ Len(r) = Len(ls) - t
  BY <1>0, <1>1, <1>2
<1>4. \A k \in 1..from-1 : r[k] = ls[k]
  BY <1>0, <1>1, <1>2
<1>5. ASSUME NEW k \in from..Len(ls)-t PROVE r[k] = ls[k + t]
  <2>1. k - (from - 1) \in 1..(Len(ls) - to) /\ k > Len(p) /\ k <= Len(p) + Len(q) /\ to + (k - (from - 1)) = k + t
    BY <1>0, <1>1, <1>2
  <2>2. r[k] = q[k - Len(p)]
    BY <1>0, <1>1, <1>2, <2>1
  <2> QED BY <1>1, <1>2, <2>1, <2>2
<1>6. Without(ls, from, to) = r
  BY DEF Without, p, q
<1> HIDE DEF r
<1> QED BY <1>3, <1>4, <1>5, <1>6

\* A list with a block put in.
LEMMA InsertedIs ==
  ASSUME NEW ls \in Seq(ListLines), NEW at \in 0..Len(ls), NEW block \in Seq(ListLines)
  PROVE  LET r == InsertedAfter(ls, at, block)
             t == Len(block)
         IN  /\ r \in Seq(ListLines) /\ Len(r) = Len(ls) + t
             /\ \A k \in 1..at : r[k] = ls[k]
             /\ \A k \in at+1..at+t : r[k] = block[k - at]
             /\ \A k \in at+t+1..Len(ls)+t : r[k] = ls[k - t]
<1> DEFINE p == SubSeq(ls, 1, at)
           q == SubSeq(ls, at + 1, Len(ls))
           t == Len(block)
           r == p \o block \o q
<1>0. Len(ls) \in Nat /\ t \in Nat /\ at \in Nat /\ at <= Len(ls)
  OBVIOUS
<1>1. /\ p \in Seq(ListLines) /\ Len(p) = at /\ \A k \in 1..at : p[k] = ls[k]
  <2>1. 1 \in Int /\ at \in Int /\ 1 <= 1 /\ 1 <= at + 1
    BY <1>0
  <2>2. p \in Seq(ListLines) /\ Len(p) = at - 1 + 1 /\ \A k \in 1..(at - 1 + 1) : p[k] = ls[1 + k - 1]
    BY <1>0, <2>1, PieceIs
  <2> HIDE DEF p
  <2>3. at - 1 + 1 = at /\ \A k \in 1..at : 1 + k - 1 = k
    BY <1>0
  <2> QED BY <2>2, <2>3
<1>2. /\ q \in Seq(ListLines) /\ Len(q) = Len(ls) - at /\ \A k \in 1..(Len(ls) - at) : q[k] = ls[at + k]
  <2>1. at + 1 \in Int /\ Len(ls) \in Int /\ 1 <= at + 1 /\ at + 1 <= Len(ls) + 1 /\ Len(ls) <= Len(ls)
    BY <1>0
  <2>2. q \in Seq(ListLines) /\ Len(q) = Len(ls) - (at + 1) + 1 /\ \A k \in 1..(Len(ls) - (at + 1) + 1) : q[k] = ls[(at + 1) + k - 1]
    BY <2>1, PieceIs
  <2> HIDE DEF q
  <2>3. Len(ls) - (at + 1) + 1 = Len(ls) - at /\ \A k \in Nat : (at + 1) + k - 1 = at + k
    BY <1>0
  <2> QED BY <2>2, <2>3
<1> HIDE DEF p, q
<1> DEFINE pb == p \o block
<1>3. pb \in Seq(ListLines) /\ Len(pb) = at + t /\ (\A k \in 1..at : pb[k] = ls[k]) /\ \A k \in at+1..at+t : pb[k] = block[k - at]
  BY <1>0, <1>1
<1>4. r = pb \o q
  OBVIOUS
<1> HIDE DEF pb, t
<1>5. r \in Seq(ListLines) /\ Len(r) = Len(ls) + t
  <2>1. pb \o q \in Seq(ListLines) /\ Len(pb \o q) = Len(pb) + Len(q)
    BY <1>2, <1>3, ConcatProperties
  <2>2. Len(pb) + Len(q) = Len(ls) + t
    BY <1>0, <1>2, <1>3
  <2> QED BY <1>4, <2>1, <2>2
<1>6. \A k \in 1..at+t : r[k] = pb[k]
  BY <1>0, <1>2, <1>3, <1>4
<1>7. (\A k \in 1..at : r[k] = ls[k]) /\ \A k \in at+1..at+t : r[k] = block[k - at]
  <2>1. (\A k \in 1..at : k \in 1..at+t) /\ \A k \in at+1..at+t : k \in 1..at+t
    BY <1>0
  <2> QED BY <1>3, <1>6, <2>1
<1>8. ASSUME NEW k \in at+t+1..Len(ls)+t PROVE r[k] = ls[k - t]
  <2>1. k - (at + t) \in 1..(Len(ls) - at) /\ k > Len(pb) /\ k <= Len(pb) + Len(q) /\ at + (k - (at + t)) = k - t
    BY <1>0, <1>2, <1>3
  <2>2. r[k] = q[k - Len(pb)]
    BY <1>0, <1>2, <1>3, <1>4, <2>1
  <2> QED BY <1>2, <1>3, <2>1, <2>2
<1>9. InsertedAfter(ls, at, block) = r
  BY DEF InsertedAfter, p, q
<1> HIDE DEF r
<1> QED BY <1>5, <1>7, <1>8, <1>9 DEF t

\* Every line but a blank has an id of its own.
IdsOK(ls, n) ==
  /\ \A k \in 1..Len(ls) : ls[k].id < n
  /\ \A k \in Items(ls) : ls[k].id # 0
  /\ \A k, l \in 1..Len(ls) : ls[k].id = ls[l].id /\ ls[k].id # 0 => k = l

\* Where finds a line by its id.
LEMMA WhereIs ==
  ASSUME NEW ls \in Seq(ListLines), NEW n, IdsOK(ls, n)
  PROVE  /\ \A k \in 1..Len(ls) : ls[k].id # 0 => Where(ls, ls[k].id) = k
         /\ \A k \in Items(ls) : Where(ls, ls[k].id) = k
<1>0. DOMAIN ls = 1..Len(ls)
  OBVIOUS
<1>1. ASSUME NEW k \in 1..Len(ls), ls[k].id # 0 PROVE Where(ls, ls[k].id) = k
  <2>1. \A l \in DOMAIN ls : ls[l].id = ls[k].id => l = k
    BY <1>0, <1>1 DEF IdsOK
  <2> QED BY <1>0, <2>1 DEF Where
<1>2. \A k \in Items(ls) : k \in 1..Len(ls) /\ ls[k].id # 0
  BY ItemsAre DEF IdsOK
<1> QED BY <1>1, <1>2

-----------------------------------------------------------------------------
(* Siblings *)

\* One step among siblings is never refused.
LEMMA StepsAllowed ==
  ASSUME NEW ls \in Seq(ListLines), Tidy(ls), NEW i \in Items(ls), NEW delta \in {-1, 1}, SiblingPosition(ls, i, delta) # 0
  PROVE  MoveAllowed(ls, i, LineAt(ls, SiblingPosition(ls, i, delta)))
<1> DEFINE beyond == {j \in Items(ls) : IF delta > 0 THEN j > i ELSE j < i}
           between(j) == {k \in beyond : IF delta > 0 THEN k < j ELSE k > j}
           next == {j \in beyond : /\ Parent(ls, j) = Parent(ls, i)
                                   /\ \A k \in between(j) : Parent(ls, k) # Parent(ls, i) /\ ls[k].d >= ls[i].d}
           j == CHOOSE x \in next : TRUE
<1>1. SiblingPosition(ls, i, delta) = IF next = {} THEN 0 ELSE Position(ls, j)
  BY DEF SiblingPosition
<1>2. next # {} /\ SiblingPosition(ls, i, delta) = Position(ls, j)
  BY <1>1
<1>3. j \in next
  BY <1>2
<1>4. j \in Items(ls) /\ Parent(ls, j) = Parent(ls, i) /\ j # i
  <2>1. i \in Nat
    BY ItemsAre
  <2> HIDE DEF j
  <2>2. j \in Items(ls) /\ (IF delta > 0 THEN j > i ELSE j < i) /\ Parent(ls, j) = Parent(ls, i)
    BY <1>3
  <2> QED BY <2>1, <2>2
<1> HIDE DEF j
<1>5. LineAt(ls, Position(ls, j)) = j
  BY <1>4, PositionIs
<1> QED BY <1>2, <1>4, <1>5 DEF MoveAllowed, Tidy

-----------------------------------------------------------------------------
(* Moves, as swaps of two stretches of lines *)

\* Two pieces of a list that lie side by side change places: a..b and b+1..c.
Swapped(ls, ms, a, b, c) ==
  /\ a \in 1..Len(ls) /\ b \in a..Len(ls) /\ c \in b+1..Len(ls)
  /\ ms \in Seq(ListLines) /\ Len(ms) = Len(ls)
  /\ \A k \in 1..a-1 : ms[k] = ls[k]
  /\ \A k \in a..b : ms[k + (c - b)] = ls[k]
  /\ \A k \in b+1..c : ms[k - (b + 1 - a)] = ls[k]
  /\ \A k \in c+1..Len(ls) : ms[k] = ls[k]

\* The subtree of a line in the tail of a list that was shortened above it.
LEMMA SubtreeComes ==
  ASSUME NEW ls \in Seq(ListLines), NEW ms \in Seq(ListLines), NEW j \in 1..Len(ls), NEW g \in 1..Len(ms), NEW t \in Int,
         j = g + t, Len(ms) = Len(ls) - t, \A k \in g..Len(ms) : ms[k] = ls[k + t]
  PROVE  SubtreeEnd(ms, g) = SubtreeEnd(ls, j) - t
<1> DEFINE e == SubtreeEnd(ls, j)
           f == e - t
<1>0. Len(ls) \in Nat /\ Len(ms) \in Nat /\ j \in Nat /\ g \in Nat
  OBVIOUS
<1>1. /\ e \in j..Len(ls) /\ (e = j \/ ls[e].kind # "blank")
      /\ \A k \in j+1..e : ls[k].kind = "blank" \/ ls[k].d > ls[j].d
      /\ SubtreeStops(ls, e, ls[j].d)
  <2>1. SubtreeIs(ls, j, e)
    BY SubtreeEndIs
  <2> HIDE DEF e
  <2> QED BY <2>1, SubtreeMeans
<1> HIDE DEF e
<1>2. \A k \in j..Len(ls) : k - t \in g..Len(ms) /\ ms[k - t] = ls[k]
  <2> SUFFICES ASSUME NEW k \in j..Len(ls) PROVE k - t \in g..Len(ms) /\ ms[k - t] = ls[k]
    OBVIOUS
  <2>1. k - t \in g..Len(ms) /\ (k - t) + t = k
    BY <1>0
  <2> QED BY <2>1
<1>3. ms[g] = ls[j]
  BY <1>0
<1>4. f \in g..Len(ms) /\ (f = g \/ ms[f].kind # "blank")
  BY <1>0, <1>1, <1>2
<1>5. ASSUME NEW k \in g+1..f PROVE ms[k].kind = "blank" \/ ms[k].d > ms[g].d
  <2>1. k + t \in j+1..e /\ k \in g..Len(ms)
    BY <1>0, <1>1
  <2>2. ms[k] = ls[k + t]
    BY <2>1
  <2> QED BY <1>1, <1>3, <2>1, <2>2
<1>6. SubtreeStops(ms, f, ms[g].d)
  <2>1. PICK s \in e+1..Len(ls)+1 : /\ \A k \in e+1..s-1 : ls[k].kind = "blank"
                                    /\ s <= Len(ls) => ls[s].kind # "blank" /\ ls[s].d <= ls[j].d
    BY <1>1 DEF SubtreeStops
  <2>2. s - t \in f+1..Len(ms)+1
    BY <1>0, <1>1
  <2>3. ASSUME NEW k \in f+1..(s-t)-1 PROVE ms[k].kind = "blank"
    <3>0. k \in Int /\ f + 1 <= k /\ k <= (s - t) - 1 /\ s \in Int /\ s <= Len(ls) + 1 /\ f = e - t /\ e \in Int /\ e >= j
      BY <1>0, <1>1, <2>2
    <3>1. k + t \in e+1..s-1 /\ k \in g..Len(ms)
      BY <1>0, <3>0
    <3> QED BY <2>1, <3>1
  <2>4. ASSUME s - t <= Len(ms) PROVE ms[s - t].kind # "blank" /\ ms[s - t].d <= ls[j].d
    <3>1. s \in j..Len(ls)
      BY <1>0, <1>1, <2>4
    <3> QED BY <1>2, <2>1, <3>1
  <2> QED BY <1>3, <2>2, <2>3, <2>4 DEF SubtreeStops
<1> HIDE DEF f
<1>7. SubtreeIs(ms, g, f)
  BY <1>4, <1>5, <1>6, SubtreeMeans
<1>8. f = SubtreeEnd(ms, g)
  BY <1>7, SubtreeEndIs
<1> QED BY <1>8 DEF e, f

\* A sibling below is past what is nested under an item.
LEMMA SiblingIsPast ==
  ASSUME NEW ls \in Seq(ListLines), NEW i \in Items(ls), NEW j \in Items(ls), i < j, Parent(ls, i) = Parent(ls, j)
  PROVE  SubtreeEnd(ls, i) < j
<1>0. /\ Len(ls) \in Nat /\ \A k \in Items(ls) : k \in Nat /\ k \in 1..Len(ls) /\ ls[k].kind = "item" /\ ls[k].d \in Nat
  BY ItemsAre
<1>1. ParentIs(ls, i, Parent(ls, i)) /\ ParentIs(ls, j, Parent(ls, i))
  BY ParentMeans
<1>2. ~(ls[i].d < ls[j].d)
  BY <1>0, <1>1 DEF ParentIs
<1>3. /\ SubtreeEnd(ls, i) \in i..Len(ls)
      /\ \A k \in i+1..SubtreeEnd(ls, i) : ls[k].kind = "blank" \/ ls[k].d > ls[i].d
  <2>1. SubtreeIs(ls, i, SubtreeEnd(ls, i))
    BY <1>0, SubtreeEndIs
  <2> QED BY <1>0, <2>1, SubtreeMeans
<1> QED BY <1>0, <1>2, <1>3

\* Lists that begin alike have as many items there.
LEMMA CountSame ==
  ASSUME NEW ls \in Seq(ListLines), NEW ms \in Seq(ListLines), NEW n \in Int, n <= Len(ls), n <= Len(ms),
         \A k \in 1..n : ms[k] = ls[k]
  PROVE  Count(ms, 1, n) = Count(ls, 1, n)
<1>1. \A k \in 1..n : ms[k + (1 - 1)] = ls[k]
  <2>1. \A k \in 1..n : k + (1 - 1) = k
    OBVIOUS
  <2> QED BY <2>1
<1>2. 1 \in Int /\ 1 <= 1 /\ n - n = 1 - 1
  OBVIOUS
<1>3. Carried(ls, ms, 1, n, 1, n)
  BY <1>1, <1>2 DEF Carried
<1> QED BY <1>3, CountComes

\* What MoveChecklistItem cuts out, and what it leaves.
LEMMA MoveIsCut ==
  ASSUME NEW ls \in Seq(ListLines), NEW i \in Items(ls)
  PROVE  LET e == SubtreeEnd(ls, i)
             t == e - i + 1
             block == SubSeq(ls, i, e)
             rest == Without(ls, i, e)
         IN  /\ e \in i..Len(ls) /\ t \in Nat /\ t > 0
             /\ block \in Seq(ListLines) /\ Len(block) = t /\ \A k \in 1..t : block[k] = ls[i + k - 1]
             /\ rest \in Seq(ListLines) /\ Len(rest) = Len(ls) - t
             /\ \A k \in 1..i-1 : rest[k] = ls[k]
             /\ \A k \in i..Len(rest) : rest[k] = ls[k + t]
<1> DEFINE e == SubtreeEnd(ls, i)
<1>0. Len(ls) \in Nat /\ i \in Nat /\ i \in 1..Len(ls)
  BY ItemsAre
<1>1. e \in i..Len(ls)
  <2>1. SubtreeIs(ls, i, e)
    BY <1>0, SubtreeEndIs
  <2> QED BY <1>0, <2>1, SubtreeMeans
<1> HIDE DEF e
<1>2. e \in Int /\ e - i + 1 \in Nat /\ e - i + 1 > 0 /\ 1 <= i /\ i <= e + 1 /\ e <= Len(ls) /\ i \in Int
  BY <1>0, <1>1
<1>3. LET block == SubSeq(ls, i, e) IN block \in Seq(ListLines) /\ Len(block) = e - i + 1 /\ \A k \in 1..(e - i + 1) : block[k] = ls[i + k - 1]
  BY <1>2, PieceIs
<1>4. LET rest == Without(ls, i, e) IN
        /\ rest \in Seq(ListLines) /\ Len(rest) = Len(ls) - (e - i + 1)
        /\ \A k \in 1..i-1 : rest[k] = ls[k]
        /\ \A k \in i..Len(ls)-(e - i + 1) : rest[k] = ls[k + (e - i + 1)]
  BY <1>2, WithoutIs
<1> QED BY <1>1, <1>2, <1>3, <1>4 DEF e

\* A move up swaps the item's subtree with what stood between.
LEMMA MoveUp ==
  ASSUME NEW ls \in Seq(ListLines), NEW i \in Items(ls), NEW j \in Items(ls), MoveAllowed(ls, i, j), j < i
  PROVE  Swapped(ls, MoveChecklistItem(ls, i, j), j, i - 1, SubtreeEnd(ls, i))
<1> DEFINE e == SubtreeEnd(ls, i)
           t == e - i + 1
           block == SubSeq(ls, i, e)
           rest == Without(ls, i, e)
           ms == InsertedAfter(rest, j - 1, block)
<1>0. Len(ls) \in Nat /\ i \in Nat /\ i \in 1..Len(ls) /\ j \in Nat /\ 1 <= j /\ ls[j].kind = "item"
  BY ItemsAre
<1>1. /\ e \in i..Len(ls) /\ t \in Nat /\ t > 0
      /\ block \in Seq(ListLines) /\ Len(block) = t /\ \A k \in 1..t : block[k] = ls[i + k - 1]
      /\ rest \in Seq(ListLines) /\ Len(rest) = Len(ls) - t
      /\ \A k \in 1..i-1 : rest[k] = ls[k]
      /\ \A k \in i..Len(rest) : rest[k] = ls[k + t]
  BY MoveIsCut
<1> HIDE DEF rest, block, e
<1>a. /\ Len(ls) \in Int /\ i \in Int /\ j \in Int /\ e \in Int /\ 1 <= j /\ j <= i - 1 /\ i <= e /\ e <= Len(ls)
      /\ Len(rest) = Len(ls) - (e - i + 1) /\ Len(block) = e - i + 1 /\ Len(rest) \in Int
  BY <1>0, <1>1
<1>2. LineAt(rest, Position(ls, j)) = j
  <2>0. j \in 1..Len(rest) /\ j \in 1..i-1
    BY <1>a
  <2>1. j \in 1..Len(rest) /\ rest[j] = ls[j]
    BY <1>1, <2>0
  <2>2. j \in Items(rest)
    BY <1>0, <1>1, <2>1, LineIs
  <2>3. Count(rest, 1, j) = Count(ls, 1, j)
    <3>1. \A k \in 1..j : rest[k] = ls[k]
      <4>1. \A k \in 1..j : k \in 1..i-1
        BY <1>a
      <4> QED BY <1>1, <4>1
    <3>2. j \in Int /\ j <= Len(ls) /\ j <= Len(rest) /\ rest \in Seq(ListLines)
      BY <1>1, <1>a
    <3> HIDE DEF ms, t
    <3> QED BY <3>1, <3>2, CountSame
  <2>5. Position(rest, j) = Position(ls, j)
    BY <1>1, <2>2, <2>3, PositionIs
  <2> QED BY <1>1, <2>2, <2>5, PositionIs
<1>3. MoveChecklistItem(ls, i, j) = ms
  <2>1. ~(j > i)
    BY <1>0
  <2>2. Position(ls, j) - 0 = Position(ls, j)
    BY PositionIs
  <2> QED BY <1>2, <2>1, <2>2 DEF MoveChecklistItem, rest, block, e
<1>4. /\ ms \in Seq(ListLines) /\ Len(ms) = Len(rest) + t
      /\ \A k \in 1..j-1 : ms[k] = rest[k]
      /\ \A k \in j-1+1..j-1+t : ms[k] = block[k - (j - 1)]
      /\ \A k \in j-1+t+1..Len(rest)+t : ms[k] = rest[k - t]
  <2>1. j - 1 \in 0..Len(rest)
    BY <1>0, <1>1
  <2> HIDE DEF t
  <2> QED BY <1>1, <2>1, InsertedIs
<1> HIDE DEF ms
<1>5. \A k \in 1..j-1 : ms[k] = ls[k]
  BY <1>0, <1>1, <1>4
<1>6. ASSUME NEW k \in j..i-1 PROVE ms[k + (e - (i - 1))] = ls[k]
  <2>1. k + t \in j-1+t+1..Len(rest)+t /\ (k + t) - t = k /\ k + (e - (i - 1)) = k + t /\ k \in 1..i-1
    BY <1>a
  <2>2. ms[k + t] = rest[k]
    BY <1>4, <2>1
  <2> QED BY <1>1, <2>1, <2>2
<1>7. ASSUME NEW k \in i-1+1..e PROVE ms[k - (i - 1 + 1 - j)] = ls[k]
  <2>1. /\ k - (i - 1 + 1 - j) \in j-1+1..j-1+t
        /\ (k - (i - 1 + 1 - j)) - (j - 1) \in 1..t
        /\ i + ((k - (i - 1 + 1 - j)) - (j - 1)) - 1 = k
    BY <1>a
  <2> QED BY <1>1, <1>4, <2>1
<1>8. ASSUME NEW k \in e+1..Len(ls) PROVE ms[k] = ls[k]
  <2>1. k \in j-1+t+1..Len(rest)+t /\ k - t \in i..Len(rest) /\ (k - t) + t = k
    BY <1>a
  <2>2. ms[k] = rest[k - t] /\ rest[k - t] = ls[(k - t) + t]
    BY <1>1, <1>4, <2>1
  <2> QED BY <2>1, <2>2
<1>9. j \in 1..Len(ls) /\ i - 1 \in j..Len(ls) /\ e \in i-1+1..Len(ls) /\ Len(ms) = Len(ls)
  <2>1. Len(ms) = Len(rest) + t
    BY <1>4
  <2> QED BY <1>a, <2>1
<1>10. Swapped(ls, ms, j, i - 1, e)
  BY <1>4, <1>5, <1>6, <1>7, <1>8, <1>9 DEF Swapped
<1> QED BY <1>3, <1>10 DEF e

\* A move down swaps the item's subtree with all that follows down to the end of the other's.
LEMMA MoveDown ==
  ASSUME NEW ls \in Seq(ListLines), NEW i \in Items(ls), NEW j \in Items(ls), MoveAllowed(ls, i, j), i < j
  PROVE  Swapped(ls, MoveChecklistItem(ls, i, j), i, SubtreeEnd(ls, i), SubtreeEnd(ls, j))
<1> DEFINE e == SubtreeEnd(ls, i)
           f == SubtreeEnd(ls, j)
           t == e - i + 1
           g == j - t
           block == SubSeq(ls, i, e)
           rest == Without(ls, i, e)
           ms == InsertedAfter(rest, f - t, block)
<1>0. Len(ls) \in Nat /\ i \in Nat /\ i \in 1..Len(ls) /\ j \in Nat /\ j \in 1..Len(ls) /\ ls[j].kind = "item"
  BY ItemsAre
<1>1. /\ e \in i..Len(ls) /\ t \in Nat /\ t > 0
      /\ block \in Seq(ListLines) /\ Len(block) = t /\ \A k \in 1..t : block[k] = ls[i + k - 1]
      /\ rest \in Seq(ListLines) /\ Len(rest) = Len(ls) - t
      /\ \A k \in 1..i-1 : rest[k] = ls[k]
      /\ \A k \in i..Len(rest) : rest[k] = ls[k + t]
  BY MoveIsCut
<1>2. e < j
  BY SiblingIsPast DEF MoveAllowed
<1>3. f \in j..Len(ls)
  <2>1. SubtreeIs(ls, j, f)
    BY <1>0, SubtreeEndIs
  <2> HIDE DEF f
  <2> QED BY <1>0, <2>1, SubtreeMeans
<1>4. SubtreeSize(ls, i) = Count(ls, i, e)
  <2>1. {k \in Items(ls) : k >= i /\ k <= e} = Between(ls, i, e)
    BY <1>0, ItemsAre DEF Between
  <2> QED BY <2>1 DEF MoveAllowed, Count
<1> HIDE DEF rest, block, e, f
<1>a. /\ Len(ls) \in Int /\ i \in Int /\ j \in Int /\ e \in Int /\ f \in Int /\ 1 <= i /\ i <= e /\ e < j /\ j <= f /\ f <= Len(ls)
      /\ Len(rest) = Len(ls) - (e - i + 1) /\ Len(block) = e - i + 1 /\ Len(rest) \in Int
  BY <1>0, <1>1, <1>2, <1>3
<1>5. g \in i..Len(rest) /\ rest[g] = ls[j] /\ g + t = j
  <2>1. g \in i..Len(rest) /\ g + t = j
    BY <1>a
  <2> QED BY <1>1, <2>1
<1>6. g \in Items(rest)
  <2>1. g \in 1..Len(rest)
    BY <1>a
  <2>2. rest[g].kind = "item"
    BY <1>0, <1>5
  <2> QED BY <1>1, <2>1, <2>2, LineIs
<1>7. Position(rest, g) = Position(ls, j) - SubtreeSize(ls, i)
  <2>1. Position(rest, g) = Count(rest, 1, g) /\ Position(ls, j) = Count(ls, 1, j)
    BY <1>1, <1>6, PositionIs
  <2>2. /\ 1 \in Int /\ i - 1 \in Int /\ e \in Int /\ j \in Int /\ g \in Int
        /\ 1 <= (i - 1) + 1 /\ i - 1 <= j /\ i - 1 <= g /\ (i - 1) + 1 = i /\ i <= e + 1 /\ e <= j /\ e + 1 \in Int /\ i \in Int
    BY <1>0, <1>1, <1>2, <1>5
  <2>3. Count(ls, 1, j) = Count(ls, 1, i - 1) + Count(ls, i, j)
    BY <2>2, CountIs
  <2>4. Count(ls, i, j) = Count(ls, i, e) + Count(ls, e + 1, j)
    BY <2>2, CountIs
  <2>5. Count(rest, 1, g) = Count(rest, 1, i - 1) + Count(rest, i, g)
    BY <1>1, <2>2, CountIs
  <2>6. Count(rest, 1, i - 1) = Count(ls, 1, i - 1)
    <3>1. i - 1 \in Int /\ i - 1 <= Len(ls) /\ i - 1 <= Len(rest) /\ rest \in Seq(ListLines)
      BY <1>1, <1>a
    <3>2. \A k \in 1..i-1 : rest[k] = ls[k]
      BY <1>1
    <3> HIDE DEF ms, t, g
    <3> QED BY <3>1, <3>2, CountSame
  <2>7. Count(rest, i, g) = Count(ls, e + 1, j)
    <3> DEFINE u == i - (e + 1)
    <3>0. /\ 1 <= e + 1 /\ j <= Len(ls) /\ 1 <= i /\ g <= Len(rest) /\ g - j = i - (e + 1)
          /\ i \in Int /\ g \in Int /\ e + 1 \in Int /\ j \in Int
      BY <1>a
    <3>1. \A k \in e+1..j : rest[k + (i - (e + 1))] = ls[k]
      <4> SUFFICES ASSUME NEW k \in e+1..j PROVE rest[k + u] = ls[k]
        OBVIOUS
      <4>1. k + u \in i..Len(rest) /\ (k + u) + t = k
        BY <1>a
      <4> QED BY <1>1, <4>1
    <3>2. rest \in Seq(ListLines)
      BY <1>1
    <3> HIDE DEF ms, t, g, u
    <3>3. Carried(ls, rest, e + 1, j, i, g)
      BY <3>0, <3>1 DEF Carried
    <3> QED BY <3>2, <3>3, CountComes
  <2>8. Count(ls, 1, i - 1) \in Nat /\ Count(ls, i, e) \in Nat /\ Count(ls, e + 1, j) \in Nat
    BY <2>2, CountIs
  <2> QED BY <1>4, <2>1, <2>3, <2>4, <2>5, <2>6, <2>7, <2>8
<1>8. LineAt(rest, Position(ls, j) - SubtreeSize(ls, i)) = g
  <2>1. LineAt(rest, Position(rest, g)) = g
    BY <1>1, <1>6, PositionIs
  <2> QED BY <1>7, <2>1
<1>9. SubtreeEnd(rest, g) = f - t
  <2>1. g \in 1..Len(rest) /\ t \in Int /\ j = g + t /\ \A k \in g..Len(rest) : rest[k] = ls[k + t]
    BY <1>0, <1>1, <1>5
  <2> HIDE DEF t, g
  <2> QED BY <1>0, <1>1, <2>1, SubtreeComes DEF f
<1>10. MoveChecklistItem(ls, i, j) = ms
  <2>1. j > i
    BY <1>0
  <2> HIDE DEF g
  <2> QED BY <1>8, <1>9, <2>1 DEF MoveChecklistItem, rest, block, e
<1>11. /\ ms \in Seq(ListLines) /\ Len(ms) = Len(rest) + t
       /\ \A k \in 1..f-t : ms[k] = rest[k]
       /\ \A k \in f-t+1..f-t+t : ms[k] = block[k - (f - t)]
       /\ \A k \in f-t+t+1..Len(rest)+t : ms[k] = rest[k - t]
  <2>1. f - t \in 0..Len(rest)
    BY <1>0, <1>1, <1>2, <1>3
  <2> HIDE DEF t
  <2> QED BY <1>1, <2>1, InsertedIs
<1> HIDE DEF ms
<1>12. ASSUME NEW k \in 1..i-1 PROVE ms[k] = ls[k]
  <2>1. k \in 1..f-t
    BY <1>0, <1>1, <1>2, <1>3
  <2> QED BY <1>1, <1>11, <2>1
<1>13. ASSUME NEW k \in i..e PROVE ms[k + (f - e)] = ls[k]
  <2>1. k + (f - e) \in f-t+1..f-t+t /\ (k + (f - e)) - (f - t) \in 1..t /\ i + ((k + (f - e)) - (f - t)) - 1 = k
    BY <1>a
  <2>2. ms[k + (f - e)] = block[(k + (f - e)) - (f - t)]
    BY <1>11, <2>1
  <2> QED BY <1>1, <2>1, <2>2
<1>14. ASSUME NEW k \in e+1..f PROVE ms[k - (e + 1 - i)] = ls[k]
  <2>1. e + 1 - i = t /\ k - t \in 1..f-t /\ k - t \in i..Len(rest) /\ (k - t) + t = k
    BY <1>a
  <2>2. ms[k - t] = rest[k - t] /\ rest[k - t] = ls[(k - t) + t]
    BY <1>1, <1>11, <2>1
  <2> QED BY <2>1, <2>2
<1>15. ASSUME NEW k \in f+1..Len(ls) PROVE ms[k] = ls[k]
  <2>1. k \in f-t+t+1..Len(rest)+t /\ k - t \in i..Len(rest) /\ (k - t) + t = k
    BY <1>a
  <2>2. ms[k] = rest[k - t] /\ rest[k - t] = ls[(k - t) + t]
    BY <1>1, <1>11, <2>1
  <2> QED BY <2>1, <2>2
<1>16. i \in 1..Len(ls) /\ e \in i..Len(ls) /\ f \in e+1..Len(ls) /\ Len(ms) = Len(ls)
  <2>1. Len(ms) = Len(rest) + t
    BY <1>11
  <2> QED BY <1>a, <2>1
<1>17. Swapped(ls, ms, i, e, f)
  BY <1>11, <1>12, <1>13, <1>14, <1>15, <1>16 DEF Swapped
<1> QED BY <1>10, <1>17 DEF e, f

\* In a tidy list, what stands after an item's lines is not nested under it.
LEMMA PastSubtree ==
  ASSUME NEW ls \in Seq(ListLines), Tidy(ls), NEW x \in Items(ls)
  PROVE  /\ SubtreeSize(ls, x) = Count(ls, x, SubtreeEnd(ls, x))
         /\ \A k \in Items(ls) : SubtreeEnd(ls, x) < k =>
              \E w \in Items(ls) : SubtreeEnd(ls, x) < w /\ w <= k /\ ls[w].d <= ls[x].d
<1> DEFINE e == SubtreeEnd(ls, x)
           S == Between(ls, x, e)
           T == {j \in Items(ls) : j >= x /\ \A k \in Items(ls) : x < k /\ k <= j => ls[k].d > ls[x].d}
<1>0. /\ Items(ls) \subseteq 1..Len(ls) /\ Len(ls) \in Nat
      /\ \A k \in Items(ls) : k \in Nat /\ k \in 1..Len(ls) /\ ls[k].kind = "item" /\ ls[k].d \in Nat
  BY ItemsAre
<1>1. e \in x..Len(ls) /\ \A k \in x+1..e : ls[k].kind = "blank" \/ ls[k].d > ls[x].d
  <2>1. SubtreeIs(ls, x, e)
    BY <1>0, SubtreeEndIs
  <2> HIDE DEF e
  <2> QED BY <1>0, <2>1, SubtreeMeans
<1>2. Cardinality({k \in Items(ls) : k >= x /\ k <= e}) = SubtreeSize(ls, x)
  BY DEF Tidy
<1> HIDE DEF e
<1>3. \A q \in Items(ls) : x < q /\ q <= e => ls[q].d > ls[x].d
  <2> SUFFICES ASSUME NEW q \in Items(ls), x < q, q <= e PROVE ls[q].d > ls[x].d
    OBVIOUS
  <2>1. q \in x+1..e
    BY <1>0, <1>1
  <2>2. ls[q].kind # "blank"
    BY <1>0
  <2> QED BY <1>1, <2>1, <2>2
<1>4. {k \in Items(ls) : k >= x /\ k <= e} = S
  BY <1>0 DEF Between
<1>5. SubtreeSize(ls, x) = Cardinality(T)
  BY DEF SubtreeSize
<1>6. S \subseteq T
  <2> SUFFICES ASSUME NEW k \in S PROVE k \in T
    OBVIOUS
  <2>1. k \in Items(ls) /\ k >= x /\ k <= e
    BY <1>0 DEF Between
  <2>2. ASSUME NEW q \in Items(ls), x < q, q <= k PROVE ls[q].d > ls[x].d
    <3>1. q <= e
      BY <1>0, <1>1, <2>1, <2>2
    <3> QED BY <1>3, <2>2, <3>1
  <2> QED BY <2>1, <2>2
<1>7. IsFiniteSet(T)
  <2>1. IsFiniteSet(1..Len(ls))
    <3>1. 1 \in Int /\ Len(ls) \in Int
      BY <1>0
    <3> QED BY <3>1, FS_Interval
  <2>2. T \in SUBSET (1..Len(ls))
    BY <1>0
  <2> HIDE DEF T
  <2> QED BY <2>1, <2>2, FS_Subset
<1> HIDE DEF S
<1>8. S = T
  <2> HIDE DEF T
  <2>1. Cardinality(T) = Cardinality(S)
    BY <1>2, <1>4, <1>5
  <2> QED BY <1>6, <1>7, <2>1, FS_Subset
<1>9. ASSUME NEW k \in Items(ls), e < k PROVE \E w \in Items(ls) : e < w /\ w <= k /\ ls[w].d <= ls[x].d
  <2> DEFINE U == {w \in Items(ls) : e < w /\ w <= k}
             m == MinLine(U)
  <2>1. U \in SUBSET Nat /\ U # {}
    BY <1>0, <1>9
  <2>2. m \in U /\ \A y \in U : m <= y
    BY <2>1, FirstLine
  <2> HIDE DEF m
  <2>3. m \in Items(ls) /\ e < m /\ m <= k /\ m \in Nat /\ e \in Int /\ x \in Nat /\ x <= e
    BY <1>0, <1>1, <2>2
  <2>4. ASSUME ~(ls[m].d <= ls[x].d) PROVE FALSE
    <3>1. ls[m].d > ls[x].d
      BY <1>0, <2>3, <2>4
    <3>2. ASSUME NEW q \in Items(ls), x < q, q <= m PROVE ls[q].d > ls[x].d
      <4>1. CASE q <= e
        BY <1>3, <3>2, <4>1
      <4>2. CASE ~(q <= e)
        <5>1. q \in U
          BY <1>0, <2>3, <3>2, <4>2
        <5>2. q = m
          BY <1>0, <2>2, <2>3, <3>2, <5>1
        <5> QED BY <3>1, <5>2
      <4> QED BY <4>1, <4>2
    <3>3. m \in T
      BY <2>3, <3>2
    <3>4. m \in S
      BY <1>8, <3>3
    <3>5. m <= e
      BY <3>4 DEF S, Between
    <3> QED BY <2>3, <3>5
  <2> QED BY <2>3, <2>4
<1>10. SubtreeSize(ls, x) = Count(ls, x, e)
  BY <1>2, <1>4 DEF S, Count
<1> QED BY <1>9, <1>10 DEF e

\* Two pieces a..b and b+1..c of a list that may change places: both are tasks of one depth and
\* what is nested under them, and no prose at a seam is deep enough to change hands.
Calm(ls, a, b, c, d) ==
  /\ d \in Nat
  /\ ls[a].kind = "item" /\ ls[a].d = d /\ ls[c].kind # "blank"
  /\ \A k \in Items(ls) : a <= k /\ k <= c => ls[k].d >= d
  /\ SubtreeStops(ls, c, d)
  /\ \E y \in b+1..c :
       /\ \A k \in b+1..y-1 : ls[k].kind = "blank"
       /\ ls[y].kind # "blank"
       /\ ls[y].kind = "prose" =>
            /\ ls[y].d <= d
            /\ \A x \in Items(ls) : x < a /\ (\A k \in DetailEnd(ls, x)+1..a-1 : ls[k].kind = "blank") => ls[y].d <= ls[x].d
  /\ \A k \in Items(ls) : b < k /\ k <= c => \E w \in Items(ls) : b < w /\ w <= k /\ ls[w].d = d
  /\ \A k \in Items(ls) : c < k => \E v \in Items(ls) : c < v /\ v <= k /\ ls[v].d <= d

\* Siblings of a tidy list have one depth, and nothing between them is above it.
LEMMA SiblingsAre ==
  ASSUME NEW ls \in Seq(ListLines), Tidy(ls), NEW i \in Items(ls), NEW j \in Items(ls), i < j, Parent(ls, i) = Parent(ls, j)
  PROVE  /\ ls[i].d = ls[j].d /\ SubtreeEnd(ls, j) \in j..Len(ls)
         /\ \A k \in Items(ls) : i <= k /\ k <= SubtreeEnd(ls, j) => ls[k].d >= ls[i].d
         /\ ls[SubtreeEnd(ls, j)].kind # "blank" /\ SubtreeStops(ls, SubtreeEnd(ls, j), ls[i].d)
<1> DEFINE e == SubtreeEnd(ls, j)
<1>0. /\ Len(ls) \in Nat
      /\ \A k \in Items(ls) : k \in Nat /\ k \in 1..Len(ls) /\ ls[k].kind = "item" /\ ls[k].d \in Nat
  BY ItemsAre
<1>1. /\ e \in j..Len(ls) /\ (e = j \/ ls[e].kind # "blank")
      /\ \A k \in j+1..e : ls[k].kind = "blank" \/ ls[k].d > ls[j].d
      /\ SubtreeStops(ls, e, ls[j].d)
  <2>1. SubtreeIs(ls, j, e)
    BY <1>0, SubtreeEndIs
  <2> HIDE DEF e
  <2> QED BY <1>0, <2>1, SubtreeMeans
<1> HIDE DEF e
<1>2. ls[i].d = ls[j].d
  BY DEF Tidy
<1>3. ParentIs(ls, i, Parent(ls, i)) /\ ParentIs(ls, j, Parent(ls, i))
  BY ParentMeans
<1>4. ASSUME NEW k \in Items(ls), i <= k, k < j PROVE ls[k].d >= ls[i].d
  BY <1>0, <1>2, <1>3, <1>4 DEF ParentIs
<1>5. ASSUME NEW k \in Items(ls), j < k, k <= e PROVE ls[k].d >= ls[i].d
  <2>1. k \in j+1..e /\ ls[k].kind # "blank"
    BY <1>0, <1>1, <1>5
  <2>2. ls[k].d > ls[j].d
    BY <1>1, <2>1
  <2> QED BY <1>0, <1>2, <2>2
<1>6. \A k \in Items(ls) : i <= k /\ k <= e => ls[k].d >= ls[i].d
  <2> SUFFICES ASSUME NEW k \in Items(ls), i <= k, k <= e PROVE ls[k].d >= ls[i].d
    OBVIOUS
  <2>1. k < j \/ k = j \/ j < k
    BY <1>0
  <2> QED BY <1>0, <1>2, <1>4, <1>5, <2>1
<1>7. ls[e].kind # "blank"
  BY <1>0, <1>1
<1> QED BY <1>1, <1>2, <1>6, <1>7 DEF e

\* Prose that follows an item's lines and is not deeper than it is no detail of a task above the
\* item either: cutting the lines out, or moving them, hands it to nobody.
LEMMA SeamProse ==
  ASSUME NEW ls \in Seq(ListLines), Tidy(ls), NEW i \in Items(ls), NEW b \in i..Len(ls),
         \A k \in i+1..b : ls[k].kind = "blank" \/ ls[k].d > ls[i].d,
         NEW y \in b+1..Len(ls), \A k \in b+1..y-1 : ls[k].kind = "blank", ls[y].kind = "prose", ls[y].d <= ls[i].d,
         NEW x \in Items(ls), x < i, \A k \in DetailEnd(ls, x)+1..i-1 : ls[k].kind = "blank"
  PROVE  ls[y].d <= ls[x].d
<1> DEFINE d == ls[i].d
<1>0. /\ Len(ls) \in Nat /\ i \in Nat /\ ls[i].kind = "item" /\ d \in Nat
      /\ \A k \in Items(ls) : k \in Nat /\ k \in 1..Len(ls) /\ ls[k].kind = "item" /\ ls[k].d \in Nat
  BY ItemsAre
<1>1. /\ y \in 1..Len(ls) /\ y \in Int /\ b \in Int /\ i <= b /\ b < y /\ i < y /\ x \in Nat /\ x \in 1..Len(ls) /\ ls[x].d \in Nat
  <2>1. b \in Int /\ i <= b /\ b <= Len(ls)
    BY <1>0
  <2>2. y \in Int /\ b < y /\ y <= Len(ls)
    BY <1>0, <2>1
  <2>3. y \in 1..Len(ls) /\ i < y
    BY <1>0, <2>1, <2>2
  <2> QED BY <1>0, <2>1, <2>2, <2>3
<1>2. ls[y].d \in Nat
  BY <1>1, LineIs
<1> SUFFICES ASSUME ls[y].d > ls[x].d PROVE FALSE
  BY <1>1, <1>2
<1>3. \/ \E u \in Items(ls) : u < y /\ y <= DetailEnd(ls, u)
      \/ \A u \in Items(ls) : u < y => y > SubtreeEnd(ls, u)
  <2>1. y \in DOMAIN ls
    BY <1>1
  <2> QED BY <2>1 DEF Tidy
<1>4. ASSUME NEW u \in Items(ls), u < y, y <= DetailEnd(ls, u) PROVE FALSE
  <2>1. /\ DetailEnd(ls, u) \in u..Len(ls)
        /\ \A k \in u+1..DetailEnd(ls, u) : ls[k].kind = "blank" \/ (ls[k].kind = "prose" /\ ls[k].d > ls[u].d)
    <3>1. DetailIs(ls, u, DetailEnd(ls, u))
      BY <1>0, DetailEndIs
    <3> QED BY <1>0, <3>1, DetailMeans
  <2>2. u \in Int /\ DetailEnd(ls, u) \in Int /\ ls[u].d \in Nat /\ ls[u].kind = "item"
    BY <1>0, <2>1
  <2>3. y \in u+1..DetailEnd(ls, u)
    BY <1>1, <1>4, <2>2
  <2>4. ls[y].d > ls[u].d
    BY <2>1, <2>3
  <2>5. ~(u < i)
    <3> SUFFICES ASSUME u < i PROVE FALSE
      OBVIOUS
    <3>1. i \in u+1..DetailEnd(ls, u)
      BY <1>0, <1>1, <1>4, <2>2
    <3> QED BY <1>0, <2>1, <3>1
  <2>6. u <= b
    <3> SUFFICES ASSUME b < u PROVE FALSE
      BY <1>1, <2>2
    <3>1. u \in b+1..y-1
      BY <1>1, <1>4, <2>2
    <3> QED BY <2>2, <3>1
  <2>7. ls[u].d >= d
    <3>1. u = i \/ u \in i+1..b
      BY <1>0, <1>1, <2>2, <2>5, <2>6
    <3> QED BY <1>0, <2>2, <3>1
  <2> QED BY <1>0, <1>2, <2>2, <2>4, <2>7
<1>5. y > SubtreeEnd(ls, x)
  BY <1>0, <1>1, <1>3, <1>4
<1>6. /\ SubtreeEnd(ls, x) \in x..Len(ls) /\ SubtreeStops(ls, SubtreeEnd(ls, x), ls[x].d)
  <2>1. SubtreeIs(ls, x, SubtreeEnd(ls, x))
    BY <1>1, SubtreeEndIs
  <2> QED BY <1>1, <2>1, SubtreeMeans
<1>7. /\ DetailEnd(ls, x) \in x..Len(ls)
      /\ \A k \in x+1..DetailEnd(ls, x) : ls[k].kind = "blank" \/ (ls[k].kind = "prose" /\ ls[k].d > ls[x].d)
  <2>1. DetailIs(ls, x, DetailEnd(ls, x))
    BY <1>1, DetailEndIs
  <2> QED BY <1>1, <2>1, DetailMeans
<1>8. ASSUME NEW k \in x+1..y PROVE ls[k].kind = "blank" \/ ls[k].d > ls[x].d
  <2>0. k \in Int /\ k > x /\ k <= y /\ DetailEnd(ls, x) \in Int /\ DetailEnd(ls, x) >= x
    BY <1>1, <1>7
  <2>1. CASE k <= DetailEnd(ls, x)
    <3>1. k \in x+1..DetailEnd(ls, x)
      BY <1>1, <2>0, <2>1
    <3> QED BY <1>7, <3>1
  <2>2. CASE DetailEnd(ls, x) < k /\ k < i
    <3>1. k \in DetailEnd(ls, x)+1..i-1
      BY <1>0, <2>0, <2>2
    <3> QED BY <3>1
  <2>3. CASE k = i
    BY <1>0, <1>1, <1>2, <2>3
  <2>4. CASE i < k /\ k <= b
    <3>1. k \in i+1..b /\ k \in 1..Len(ls)
      BY <1>0, <1>1, <2>0, <2>4
    <3>2. ls[k].d \in Nat
      BY <3>1, LineIs
    <3>3. ls[k].kind = "blank" \/ ls[k].d > d
      BY <3>1
    <3> QED BY <1>0, <1>1, <1>2, <3>2, <3>3
  <2>5. CASE b < k /\ k < y
    <3>1. k \in b+1..y-1
      BY <1>1, <2>0, <2>5
    <3> QED BY <3>1
  <2>6. CASE k = y
    BY <2>6
  <2> QED BY <1>0, <1>1, <2>0, <2>1, <2>2, <2>3, <2>4, <2>5, <2>6
<1>9. PICK s \in SubtreeEnd(ls, x)+1..Len(ls)+1 : /\ \A k \in SubtreeEnd(ls, x)+1..s-1 : ls[k].kind = "blank"
                                                  /\ s <= Len(ls) => ls[s].kind # "blank" /\ ls[s].d <= ls[x].d
  BY <1>6 DEF SubtreeStops
<1>10. s \in Int /\ SubtreeEnd(ls, x) \in Int /\ x <= SubtreeEnd(ls, x) /\ SubtreeEnd(ls, x) < s
  BY <1>1, <1>6
<1>11. CASE s <= y
  <2>1. s \in x+1..y /\ s <= Len(ls) /\ s \in 1..Len(ls)
    BY <1>0, <1>1, <1>10, <1>11
  <2>2. ls[s].d \in Nat
    BY <2>1, LineIs
  <2>3. ls[s].kind # "blank" /\ ls[s].d <= ls[x].d
    BY <1>9, <2>1
  <2>4. ls[s].d > ls[x].d
    BY <1>8, <2>1, <2>3
  <2> QED BY <1>1, <2>2, <2>3, <2>4
<1>12. CASE y < s
  <2>1. y \in SubtreeEnd(ls, x)+1..s-1
    BY <1>1, <1>5, <1>10, <1>12
  <2> QED BY <1>9, <2>1
<1> QED BY <1>1, <1>10, <1>11, <1>12

\* The two stretches of a move up are calm.
LEMMA CalmUp ==
  ASSUME NEW ls \in Seq(ListLines), Tidy(ls), NEW i \in Items(ls), NEW j \in Items(ls), MoveAllowed(ls, i, j), j < i
  PROVE  Calm(ls, j, i - 1, SubtreeEnd(ls, i), ls[j].d)
<1> DEFINE c == SubtreeEnd(ls, i)
           d == ls[j].d
<1>0. /\ Len(ls) \in Nat /\ i \in Nat /\ j \in Nat
      /\ \A k \in Items(ls) : k \in Nat /\ k \in 1..Len(ls) /\ ls[k].kind = "item" /\ ls[k].d \in Nat
  BY ItemsAre
<1>1. /\ ls[j].d = ls[i].d /\ c \in i..Len(ls)
      /\ \A k \in Items(ls) : j <= k /\ k <= c => ls[k].d >= d
      /\ ls[c].kind # "blank" /\ SubtreeStops(ls, c, d)
  BY SiblingsAre DEF MoveAllowed
<1>2. \A k \in Items(ls) : c < k => \E v \in Items(ls) : c < v /\ v <= k /\ ls[v].d <= ls[i].d
  BY PastSubtree
<1> HIDE DEF c
<1>3. d \in Nat /\ ls[j].kind = "item" /\ ls[j].d = d
  BY <1>0
<1>4. \E y \in i-1+1..c :
       /\ \A k \in i-1+1..y-1 : ls[k].kind = "blank"
       /\ ls[y].kind # "blank"
       /\ ls[y].kind = "prose" =>
            /\ ls[y].d <= d
            /\ \A x \in Items(ls) : x < j /\ (\A k \in DetailEnd(ls, x)+1..j-1 : ls[k].kind = "blank") => ls[y].d <= ls[x].d
  <2>1. i \in i-1+1..c /\ \A k \in i-1+1..i-1 : FALSE
    BY <1>0, <1>1
  <2>2. ls[i].kind # "blank" /\ ls[i].kind # "prose"
    BY <1>0
  <2> QED BY <2>1, <2>2
<1>5. \A k \in Items(ls) : i - 1 < k /\ k <= c => \E w \in Items(ls) : i - 1 < w /\ w <= k /\ ls[w].d = d
  <2> SUFFICES ASSUME NEW k \in Items(ls), i - 1 < k, k <= c PROVE i - 1 < i /\ i <= k /\ ls[i].d = d
    OBVIOUS
  <2> QED BY <1>0, <1>1
<1>6. \A k \in Items(ls) : c < k => \E v \in Items(ls) : c < v /\ v <= k /\ ls[v].d <= d
  BY <1>1, <1>2
<1> HIDE DEF d
<1>7. Calm(ls, j, i - 1, c, d)
  BY <1>1, <1>3, <1>4, <1>5, <1>6 DEF Calm
<1> QED BY <1>7 DEF c, d

\* The two stretches of a move down are calm.
LEMMA CalmDown ==
  ASSUME NEW ls \in Seq(ListLines), Tidy(ls), NEW i \in Items(ls), NEW j \in Items(ls), MoveAllowed(ls, i, j), i < j
  PROVE  Calm(ls, i, SubtreeEnd(ls, i), SubtreeEnd(ls, j), ls[i].d)
<1> DEFINE b == SubtreeEnd(ls, i)
           c == SubtreeEnd(ls, j)
           d == ls[i].d
<1>0. /\ Len(ls) \in Nat /\ i \in Nat /\ j \in Nat
      /\ \A k \in Items(ls) : k \in Nat /\ k \in 1..Len(ls) /\ ls[k].kind = "item" /\ ls[k].d \in Nat
  BY ItemsAre
<1>1. /\ ls[i].d = ls[j].d /\ c \in j..Len(ls)
      /\ \A k \in Items(ls) : i <= k /\ k <= c => ls[k].d >= d
      /\ ls[c].kind # "blank" /\ SubtreeStops(ls, c, d)
  BY SiblingsAre DEF MoveAllowed
<1>2. /\ \A k \in Items(ls) : c < k => \E v \in Items(ls) : c < v /\ v <= k /\ ls[v].d <= ls[j].d
      /\ \A k \in Items(ls) : b < k => \E v \in Items(ls) : b < v /\ v <= k /\ ls[v].d <= d
  BY PastSubtree
<1>3. b < j
  BY SiblingIsPast DEF MoveAllowed
<1>4. /\ b \in i..Len(ls) /\ (b = i \/ ls[b].kind # "blank")
      /\ \A k \in i+1..b : ls[k].kind = "blank" \/ ls[k].d > d
      /\ SubtreeStops(ls, b, d)
  <2>1. SubtreeIs(ls, i, b)
    BY <1>0, SubtreeEndIs
  <2> HIDE DEF b
  <2> QED BY <1>0, <2>1, SubtreeMeans
<1> HIDE DEF b, c
<1>5. d \in Nat /\ ls[i].kind = "item" /\ ls[i].d = d
  BY <1>0
<1>6. PICK y \in b+1..Len(ls)+1 : /\ \A k \in b+1..y-1 : ls[k].kind = "blank"
                                  /\ y <= Len(ls) => ls[y].kind # "blank" /\ ls[y].d <= d
  BY <1>4 DEF SubtreeStops
<1>7. y <= j /\ y \in b+1..c /\ y \in 1..Len(ls) /\ y \in Int /\ b \in Int /\ i <= b /\ i < y
  <2>1. ASSUME ~(y <= j) PROVE FALSE
    <3>1. j \in b+1..y-1
      BY <1>0, <1>3, <1>4, <2>1
    <3>2. ls[j].kind = "blank" /\ ls[j].kind = "item"
      BY <1>0, <1>6, <3>1
    <3> QED BY <3>2
  <2> QED BY <1>0, <1>1, <1>3, <1>4, <2>1
<1>8. ls[y].kind # "blank" /\ ls[y].d <= d /\ ls[y].d \in Nat
  <2>1. y <= Len(ls)
    BY <1>7
  <2> QED BY <1>6, <1>7, <2>1, LineIs
<1>9. ASSUME ls[y].kind = "prose", NEW x \in Items(ls), x < i, \A k \in DetailEnd(ls, x)+1..i-1 : ls[k].kind = "blank"
      PROVE  ls[y].d <= ls[x].d
  <2>1. y \in b+1..Len(ls)
    BY <1>0, <1>1, <1>7
  <2> QED BY <1>4, <1>6, <1>8, <1>9, <2>1, SeamProse
<1>10. \E z \in b+1..c :
       /\ \A k \in b+1..z-1 : ls[k].kind = "blank"
       /\ ls[z].kind # "blank"
       /\ ls[z].kind = "prose" =>
            /\ ls[z].d <= d
            /\ \A x \in Items(ls) : x < i /\ (\A k \in DetailEnd(ls, x)+1..i-1 : ls[k].kind = "blank") => ls[z].d <= ls[x].d
  BY <1>6, <1>7, <1>8, <1>9
<1>11. \A k \in Items(ls) : b < k /\ k <= c => \E w \in Items(ls) : b < w /\ w <= k /\ ls[w].d = d
  <2> SUFFICES ASSUME NEW k \in Items(ls), b < k, k <= c PROVE \E w \in Items(ls) : b < w /\ w <= k /\ ls[w].d = d
    OBVIOUS
  <2>1. PICK w \in Items(ls) : b < w /\ w <= k /\ ls[w].d <= d
    BY <1>2
  <2>2. w \in Nat /\ k \in Nat /\ c \in Int /\ ls[w].d \in Nat
    BY <1>0, <1>1
  <2>3. i <= w /\ w <= c
    BY <1>0, <1>7, <2>1, <2>2
  <2>4. ls[w].d >= d
    BY <1>1, <2>3
  <2>5. ls[w].d = d
    BY <1>5, <2>1, <2>2, <2>4
  <2> QED BY <2>1, <2>5
<1>12. \A k \in Items(ls) : c < k => \E v \in Items(ls) : c < v /\ v <= k /\ ls[v].d <= d
  BY <1>1, <1>2
<1> HIDE DEF d
<1>13. Calm(ls, i, b, c, d)
  BY <1>1, <1>5, <1>10, <1>11, <1>12 DEF Calm
<1> QED BY <1>13 DEF b, c, d

\* Where a line goes when a..b and b+1..c change places.
GoesTo(a, b, c, k) == IF k < a \/ k > c THEN k ELSE IF k <= b THEN k + (c - b) ELSE k - (b + 1 - a)

\* Every line goes where GoesTo says.
LEMMA SwappedIs ==
  ASSUME NEW ls \in Seq(ListLines), NEW ms, NEW a, NEW b, NEW c, Swapped(ls, ms, a, b, c)
  PROVE  /\ a \in Int /\ b \in Int /\ c \in Int /\ Len(ls) \in Int /\ Len(ms) = Len(ls) /\ ms \in Seq(ListLines)
         /\ 1 <= a /\ a <= b /\ b < c /\ c <= Len(ls)
         /\ \A k \in 1..Len(ls) : ms[GoesTo(a, b, c, k)] = ls[k] /\ GoesTo(a, b, c, k) \in 1..Len(ls)
<1>1. /\ a \in 1..Len(ls) /\ b \in a..Len(ls) /\ c \in b+1..Len(ls)
      /\ ms \in Seq(ListLines) /\ Len(ms) = Len(ls)
      /\ \A k \in 1..a-1 : ms[k] = ls[k]
      /\ \A k \in a..b : ms[k + (c - b)] = ls[k]
      /\ \A k \in b+1..c : ms[k - (b + 1 - a)] = ls[k]
      /\ \A k \in c+1..Len(ls) : ms[k] = ls[k]
  BY DEF Swapped
<1>2. a \in Int /\ b \in Int /\ c \in Int /\ Len(ls) \in Int /\ 1 <= a /\ a <= b /\ b < c /\ c <= Len(ls)
  BY <1>1
<1>3. ASSUME NEW k \in 1..Len(ls)
      PROVE  ms[GoesTo(a, b, c, k)] = ls[k] /\ GoesTo(a, b, c, k) \in 1..Len(ls)
  <2>0. k \in Int /\ 1 <= k /\ k <= Len(ls)
    BY <1>2
  <2>1. CASE k < a
    <3>1. GoesTo(a, b, c, k) = k /\ k \in 1..a-1 /\ k \in 1..Len(ls)
      BY <1>2, <2>0, <2>1 DEF GoesTo
    <3> QED BY <1>1, <3>1
  <2>2. CASE c < k
    <3>1. GoesTo(a, b, c, k) = k /\ k \in c+1..Len(ls) /\ k \in 1..Len(ls)
      BY <1>2, <2>0, <2>2 DEF GoesTo
    <3> QED BY <1>1, <3>1
  <2>3. CASE a <= k /\ k <= b
    <3>1. GoesTo(a, b, c, k) = k + (c - b) /\ k \in a..b /\ k + (c - b) \in 1..Len(ls)
      BY <1>2, <2>0, <2>3 DEF GoesTo
    <3> QED BY <1>1, <3>1
  <2>4. CASE b < k /\ k <= c
    <3>1. GoesTo(a, b, c, k) = k - (b + 1 - a) /\ k \in b+1..c /\ k - (b + 1 - a) \in 1..Len(ls)
      BY <1>2, <2>0, <2>4 DEF GoesTo
    <3> QED BY <1>1, <3>1
  <2> QED BY <1>2, <2>0, <2>1, <2>2, <2>3, <2>4
<1> QED BY <1>1, <1>2, <1>3

\* What is delivered for a task stays what it was.
LEMMA SwapKeepsFold ==
  ASSUME NEW ls \in Seq(ListLines), NEW ms, NEW a, NEW b, NEW c, NEW d, Swapped(ls, ms, a, b, c), Calm(ls, a, b, c, d),
         NEW k \in Items(ls)
  PROVE  Folded(ms, GoesTo(a, b, c, k)) = Folded(ls, k)
<1> DEFINE n == Len(ls)
           e == DetailEnd(ls, k)
<1>0. /\ a \in Int /\ b \in Int /\ c \in Int /\ n \in Int /\ Len(ms) = n /\ ms \in Seq(ListLines)
      /\ 1 <= a /\ a <= b /\ b < c /\ c <= n
  BY SwappedIs
<1>1. /\ \A q \in 1..a-1 : ms[q] = ls[q]
      /\ \A q \in a..b : ms[q + (c - b)] = ls[q]
      /\ \A q \in b+1..c : ms[q - (b + 1 - a)] = ls[q]
      /\ \A q \in c+1..n : ms[q] = ls[q]
  BY DEF Swapped
<1>2. /\ d \in Nat /\ ls[a].kind = "item" /\ ls[a].d = d /\ ls[c].kind # "blank"
      /\ \A q \in Items(ls) : a <= q /\ q <= c => ls[q].d >= d
  BY DEF Calm
<1>3. PICK z \in c+1..n+1 : (\A q \in c+1..z-1 : ls[q].kind = "blank") /\ (z <= n => ls[z].kind # "blank" /\ ls[z].d <= d)
  <2>1. SubtreeStops(ls, c, d)
    BY DEF Calm
  <2> QED BY <2>1 DEF SubtreeStops
<1>4. PICK y \in b+1..c :
        /\ \A q \in b+1..y-1 : ls[q].kind = "blank"
        /\ ls[y].kind # "blank"
        /\ ls[y].kind = "prose" =>
             /\ ls[y].d <= d
             /\ \A x \in Items(ls) : x < a /\ (\A q \in DetailEnd(ls, x)+1..a-1 : ls[q].kind = "blank") => ls[y].d <= ls[x].d
  BY DEF Calm
<1>5. k \in Int /\ k \in 1..n /\ 1 <= k /\ k <= n /\ ls[k].kind = "item" /\ ls[k].d \in Nat
  <2>1. k \in 1..n /\ ls[k].kind = "item" /\ ls[k].d \in Nat
    BY ItemsAre
  <2> QED BY <1>0, <2>1
<1>6. DetailIs(ls, k, e)
  BY <1>5, DetailEndIs
<1> HIDE DEF e
<1>7. /\ e \in Int /\ k <= e /\ e <= n /\ (e = k \/ ls[e].kind = "prose")
      /\ \A q \in k+1..e : ls[q].kind = "blank" \/ (ls[q].kind = "prose" /\ ls[q].d > ls[k].d)
      /\ DetailStops(ls, e, ls[k].d)
  <2>1. /\ e \in k..n /\ (e = k \/ ls[e].kind = "prose")
        /\ \A q \in k+1..e : ls[q].kind = "blank" \/ (ls[q].kind = "prose" /\ ls[q].d > ls[k].d)
        /\ DetailStops(ls, e, ls[k].d)
    BY <1>5, <1>6, DetailMeans
  <2> QED BY <1>0, <1>5, <2>1
<1>8. PICK s \in e+1..n+1 : /\ \A q \in e+1..s-1 : ls[q].kind = "blank"
                            /\ s <= n => ls[s].kind # "blank" /\ (ls[s].kind = "item" \/ ls[s].d <= ls[k].d)
  BY <1>7 DEF DetailStops
<1>9. s \in Int /\ e < s /\ s <= n + 1 /\ y \in Int /\ b < y /\ y <= c /\ z \in Int /\ c < z /\ z <= n + 1
  BY <1>0, <1>3, <1>4, <1>7, <1>8
<1>10. \A q \in 1..n : ls[q].d \in Nat
  BY LineIs
<1> HIDE DEF n
<1>C. ASSUME NEW t \in Int, 1 <= k + t, e + t <= n, \A q \in k..e : ms[q + t] = ls[q], DetailStops(ms, e + t, ls[k].d)
      PROVE  Folded(ms, k + t) = Folded(ls, k)
  <2>1. k + t \in 1..Len(ms) /\ (k + t) + (e - k) = e + t /\ (k + t) + (e - k) <= Len(ms)
    <3>0. k + t \in Int /\ k + t <= n /\ (k + t) + (e - k) = e + t /\ Len(ms) = n
      BY <1>0, <1>5, <1>7, <1>C
    <3>1. k + t \in 1..n
      BY <1>0, <1>C, <3>0
    <3> QED BY <1>C, <3>0, <3>1
  <2>2. \A q \in 0..(e - k) : ms[(k + t) + q] = ls[k + q]
    <3> SUFFICES ASSUME NEW q \in 0..(e - k) PROVE ms[(k + t) + q] = ls[k + q]
      OBVIOUS
    <3>1. k + q \in k..e /\ (k + q) + t = (k + t) + q
      BY <1>5, <1>7
    <3>2. ms[(k + q) + t] = ls[k + q]
      BY <1>C, <3>1
    <3> QED BY <3>1, <3>2
  <2>3. \A j \in 1..Len(ms) : j = k + t => Folded(ms, j) = Folded(ls, k)
    <3> SUFFICES ASSUME NEW j \in 1..Len(ms), j = k + t PROVE Folded(ms, j) = Folded(ls, k)
      OBVIOUS
    <3>1. j + (e - k) <= Len(ms) /\ (\A q \in 0..(e - k) : ms[j + q] = ls[k + q]) /\ DetailStops(ms, j + (e - k), ls[k].d)
      BY <1>C, <2>1, <2>2
    <3>2. k \in 1..Len(ls)
      BY <1>5 DEF n
    <3> QED BY <1>0, <1>6, <1>7, <3>1, <3>2, DetailComes
  <2> QED BY <2>1, <2>3
<1>D. ASSUME NEW f \in Int, NEW u \in Int, f < u, u <= n + 1, \A q \in f+1..u-1 : ms[q].kind = "blank",
             u <= n => ms[u].kind # "blank" /\ (ms[u].kind = "item" \/ ms[u].d <= ls[k].d)
      PROVE  DetailStops(ms, f, ls[k].d)
  <2>1. u \in f+1..Len(ms)+1
    BY <1>0, <1>D
  <2> QED BY <1>0, <1>D, <2>1 DEF DetailStops
<1>11. CASE k < a
  <2>1. e < a
    <3> SUFFICES ASSUME a <= e PROVE FALSE
      BY <1>0, <1>7
    <3>1. a \in k+1..e
      BY <1>0, <1>5, <1>7, <1>11
    <3> QED BY <1>2, <1>7, <3>1
  <2>2. s <= a
    <3> SUFFICES ASSUME a < s PROVE FALSE
      BY <1>0, <1>9
    <3>1. a \in e+1..s-1
      BY <1>0, <1>7, <1>9, <2>1
    <3> QED BY <1>2, <1>8, <3>1
  <2>3. DetailStops(ms, e + 0, ls[k].d)
    <3>0. e + 0 = e
      BY <1>7
    <3>1. \A q \in e+1..s-1 : ms[q].kind = "blank"
      <4> SUFFICES ASSUME NEW q \in e+1..s-1 PROVE ms[q].kind = "blank"
        OBVIOUS
      <4>1. q \in 1..a-1
        BY <1>0, <1>5, <1>7, <1>9, <2>2
      <4> QED BY <1>1, <1>8, <4>1
    <3>2. CASE s < a
      <4>1. s \in 1..a-1 /\ s <= n
        BY <1>0, <1>5, <1>7, <1>9, <3>2
      <4>2. ms[s].kind # "blank" /\ (ms[s].kind = "item" \/ ms[s].d <= ls[k].d)
        BY <1>1, <1>8, <4>1
      <4> QED BY <1>7, <1>9, <1>D, <3>0, <3>1, <4>2
    <3>3. CASE s = a
      <4>1. \A q \in e+1..a-1 : ls[q].kind = "blank"
        BY <1>8, <3>3
      <4>2. ls[y].kind = "prose" => ls[y].d <= ls[k].d
        BY <1>4, <1>11, <4>1 DEF e
      <4> DEFINE u == y - (b + 1 - a)
      <4>3. u \in Int /\ e < u /\ u <= n + 1 /\ y \in b+1..c /\ y \in 1..Len(ls)
        <5>1. u \in Int /\ e < u /\ u <= n + 1
          BY <1>0, <1>7, <1>9, <2>1
        <5>2. y \in b+1..c /\ y \in 1..n
          BY <1>0, <1>9
        <5> QED BY <5>1, <5>2 DEF n
      <4>4. ms[u] = ls[y]
        BY <1>1, <4>3
      <4>5. ls[y].kind = "item" \/ ls[y].kind = "prose"
        <5>1. ls[y].kind \in {"item", "prose", "blank"}
          BY <4>3, LineIs
        <5> QED BY <1>4, <5>1
      <4>6. ms[u].kind # "blank" /\ (ms[u].kind = "item" \/ ms[u].d <= ls[k].d)
        BY <1>4, <4>2, <4>4, <4>5
      <4>7. \A q \in e+1..u-1 : ms[q].kind = "blank"
        <5> SUFFICES ASSUME NEW q \in e+1..u-1 PROVE ms[q].kind = "blank"
          OBVIOUS
        <5>1. CASE q < a
          <6>1. q \in e+1..s-1
            BY <1>0, <1>7, <3>3, <5>1
          <6> QED BY <3>1, <6>1
        <5>2. CASE a <= q
          <6>1. q + (b + 1 - a) \in b+1..y-1 /\ q + (b + 1 - a) \in b+1..c /\ (q + (b + 1 - a)) - (b + 1 - a) = q
            BY <1>0, <1>7, <1>9, <5>2
          <6>2. ms[(q + (b + 1 - a)) - (b + 1 - a)] = ls[q + (b + 1 - a)]
            BY <1>1, <6>1
          <6> QED BY <1>4, <6>1, <6>2
        <5> QED BY <1>0, <1>7, <5>1, <5>2
      <4> HIDE DEF u
      <4> QED BY <1>7, <1>D, <3>0, <4>3, <4>6, <4>7
    <3> QED BY <1>0, <1>9, <2>2, <3>2, <3>3
  <2>4. \A q \in k..e : ms[q + 0] = ls[q]
    <3> SUFFICES ASSUME NEW q \in k..e PROVE ms[q + 0] = ls[q]
      OBVIOUS
    <3>1. q \in 1..a-1 /\ q + 0 = q
      BY <1>0, <1>5, <1>7, <2>1
    <3> QED BY <1>1, <3>1
  <2>5. 0 \in Int /\ 1 <= k + 0 /\ e + 0 <= n /\ k + 0 = k
    BY <1>5, <1>7
  <2>6. Folded(ms, k + 0) = Folded(ls, k)
    <3>1. \A t \in Int : t = 0 => Folded(ms, k + t) = Folded(ls, k)
      <4> SUFFICES ASSUME NEW t \in Int, t = 0 PROVE Folded(ms, k + t) = Folded(ls, k)
        OBVIOUS
      <4>1. 1 <= k + t /\ e + t <= n /\ (\A q \in k..e : ms[q + t] = ls[q]) /\ DetailStops(ms, e + t, ls[k].d)
        BY <2>3, <2>4, <2>5
      <4> QED BY <1>C, <4>1
    <3> QED BY <2>5, <3>1
  <2>7. GoesTo(a, b, c, k) = k
    BY <1>0, <1>5, <1>11 DEF GoesTo
  <2> QED BY <2>5, <2>6, <2>7
<1>12. CASE a <= k /\ k <= b
  <2> DEFINE t == c - b
  <2>0. ls[k].d >= d
    BY <1>0, <1>2, <1>5, <1>12
  <2>1. e <= b
    <3> SUFFICES ASSUME b < e PROVE FALSE
      BY <1>0, <1>7
    <3>1. e # k /\ ls[e].kind = "prose"
      BY <1>0, <1>5, <1>7, <1>12
    <3>2. y <= e
      <4> SUFFICES ASSUME e < y PROVE FALSE
        BY <1>7, <1>9
      <4>1. e \in b+1..y-1
        BY <1>0, <1>7, <1>9
      <4> QED BY <1>4, <3>1, <4>1
    <3>3. y \in k+1..e /\ y \in 1..n
      BY <1>0, <1>5, <1>7, <1>9, <1>12, <3>2
    <3>4. ls[y].kind = "prose" /\ ls[y].d > ls[k].d
      BY <1>4, <1>7, <3>3
    <3>5. ls[y].d <= d /\ ls[y].d \in Nat
      BY <1>4, <1>10, <3>3, <3>4
    <3> QED BY <1>2, <1>5, <2>0, <3>4, <3>5
  <2>2. \A q \in k..e : ms[q + t] = ls[q]
    <3> SUFFICES ASSUME NEW q \in k..e PROVE ms[q + t] = ls[q]
      OBVIOUS
    <3>1. q \in a..b
      BY <1>0, <1>5, <1>7, <1>12, <2>1
    <3> QED BY <1>1, <3>1
  <2>3. DetailStops(ms, e + t, ls[k].d)
    <3>0. e + t \in Int /\ t \in Int /\ t > 0
      BY <1>0, <1>7
    <3>1. CASE s <= b
      <4>1. s + t \in Int /\ e + t < s + t /\ s + t <= n + 1 /\ s \in a..b /\ s <= n
        BY <1>0, <1>5, <1>7, <1>9, <1>12, <3>1
      <4>2. ms[s + t] = ls[s]
        BY <1>1, <4>1
      <4>3. \A q \in (e + t)+1..(s + t)-1 : ms[q].kind = "blank"
        <5> SUFFICES ASSUME NEW q \in (e + t)+1..(s + t)-1 PROVE ms[q].kind = "blank"
          OBVIOUS
        <5>1. q - t \in e+1..s-1 /\ q - t \in a..b /\ (q - t) + t = q
          BY <1>0, <1>5, <1>7, <1>9, <1>12, <3>1
        <5>2. ms[(q - t) + t] = ls[q - t]
          BY <1>1, <5>1
        <5> QED BY <1>8, <5>1, <5>2
      <4>4. ms[s + t].kind # "blank" /\ (ms[s + t].kind = "item" \/ ms[s + t].d <= ls[k].d)
        BY <1>8, <4>1, <4>2
      <4> HIDE DEF t
      <4> QED BY <1>D, <3>0, <4>1, <4>3, <4>4
    <3>2. CASE b < s
      <4>1. e + t < z
        BY <1>0, <1>7, <1>9, <2>1
      <4>2. \A q \in (e + t)+1..z-1 : ms[q].kind = "blank"
        <5> SUFFICES ASSUME NEW q \in (e + t)+1..z-1 PROVE ms[q].kind = "blank"
          OBVIOUS
        <5>1. CASE q <= c
          <6>1. q - t \in e+1..s-1 /\ q - t \in a..b /\ (q - t) + t = q
            BY <1>0, <1>5, <1>7, <1>9, <1>12, <3>2, <5>1
          <6>2. ms[(q - t) + t] = ls[q - t]
            BY <1>1, <6>1
          <6> QED BY <1>8, <6>1, <6>2
        <5>2. CASE c < q
          <6>1. q \in c+1..z-1 /\ q \in c+1..n
            BY <1>0, <1>7, <1>9, <5>2
          <6> QED BY <1>1, <1>3, <6>1
        <5> QED BY <1>0, <1>7, <1>9, <5>1, <5>2
      <4>3. z <= n => ms[z].kind # "blank" /\ (ms[z].kind = "item" \/ ms[z].d <= ls[k].d)
        <5> SUFFICES ASSUME z <= n PROVE ms[z].kind # "blank" /\ ms[z].d <= ls[k].d
          OBVIOUS
        <5>1. z \in c+1..n /\ z \in 1..n
          BY <1>0, <1>9
        <5>2. ms[z] = ls[z] /\ ls[z].d \in Nat
          BY <1>1, <1>10, <5>1
        <5> QED BY <1>2, <1>3, <1>5, <2>0, <5>2
      <4> HIDE DEF t
      <4> QED BY <1>9, <1>D, <3>0, <4>1, <4>2, <4>3
    <3> QED BY <1>0, <1>9, <3>1, <3>2
  <2>4. t \in Int /\ 1 <= k + t /\ e + t <= n /\ GoesTo(a, b, c, k) = k + t
    BY <1>0, <1>5, <1>7, <1>12, <2>1 DEF GoesTo
  <2> HIDE DEF t
  <2> QED BY <1>C, <2>2, <2>3, <2>4
<1>13. CASE b < k /\ k <= c
  <2> DEFINE t == a - (b + 1)
  <2>0. ls[k].d >= d
    BY <1>0, <1>2, <1>5, <1>13
  <2>1. e <= c
    <3> SUFFICES ASSUME c < e PROVE FALSE
      BY <1>0, <1>7
    <3>1. e # k /\ ls[e].kind = "prose"
      BY <1>0, <1>5, <1>7, <1>13
    <3>2. z <= e
      <4> SUFFICES ASSUME e < z PROVE FALSE
        BY <1>7, <1>9
      <4>1. e \in c+1..z-1
        BY <1>0, <1>7, <1>9
      <4> QED BY <1>3, <3>1, <4>1
    <3>3. z \in k+1..e /\ z \in 1..n /\ z <= n
      BY <1>0, <1>5, <1>7, <1>9, <1>13, <3>2
    <3>4. ls[z].kind = "prose" /\ ls[z].d > ls[k].d
      BY <1>3, <1>7, <3>3
    <3>5. ls[z].d <= d /\ ls[z].d \in Nat
      BY <1>3, <1>10, <3>3
    <3> QED BY <1>2, <1>5, <2>0, <3>4, <3>5
  <2>2. \A q \in b+1..c : ms[q + t] = ls[q]
    <3> SUFFICES ASSUME NEW q \in b+1..c PROVE ms[q + t] = ls[q]
      OBVIOUS
    <3>1. q - (b + 1 - a) = q + t
      BY <1>0
    <3> QED BY <1>1, <3>1
  <2>3. DetailStops(ms, e + t, ls[k].d)
    <3>0. e + t \in Int /\ t \in Int /\ t < 0
      BY <1>0, <1>7
    <3>1. CASE s <= c
      <4>1. s + t \in Int /\ e + t < s + t /\ s + t <= n + 1 /\ s \in b+1..c /\ s <= n
        BY <1>0, <1>5, <1>7, <1>9, <1>13, <3>1
      <4>2. ms[s + t] = ls[s]
        BY <2>2, <4>1
      <4>3. \A q \in (e + t)+1..(s + t)-1 : ms[q].kind = "blank"
        <5> SUFFICES ASSUME NEW q \in (e + t)+1..(s + t)-1 PROVE ms[q].kind = "blank"
          OBVIOUS
        <5>1. q - t \in e+1..s-1 /\ q - t \in b+1..c /\ (q - t) + t = q
          BY <1>0, <1>5, <1>7, <1>9, <1>13, <3>1
        <5>2. ms[(q - t) + t] = ls[q - t]
          BY <2>2, <5>1
        <5> QED BY <1>8, <5>1, <5>2
      <4>4. ms[s + t].kind # "blank" /\ (ms[s + t].kind = "item" \/ ms[s + t].d <= ls[k].d)
        BY <1>8, <4>1, <4>2
      <4> HIDE DEF t
      <4> QED BY <1>D, <3>0, <4>1, <4>3, <4>4
    <3>2. CASE c < s
      <4>1. e = c
        <5> SUFFICES ASSUME e < c PROVE FALSE
          BY <1>0, <1>7, <2>1
        <5>1. c \in e+1..s-1
          BY <1>0, <1>7, <1>9, <3>2
        <5> QED BY <1>2, <1>8, <5>1
      <4> DEFINE u == e + t + 1
      <4>2. u \in Int /\ e + t < u /\ u <= n + 1 /\ a + (c - b) = u /\ a \in a..b /\ \A q \in (e + t)+1..u-1 : FALSE
        BY <1>0, <1>7, <4>1
      <4>3. ms[u] = ls[a]
        BY <1>1, <4>2
      <4>4. ms[u].kind # "blank" /\ ms[u].kind = "item"
        BY <1>2, <4>3
      <4> HIDE DEF t, u
      <4> QED BY <1>D, <3>0, <4>2, <4>4
    <3> QED BY <1>0, <1>9, <3>1, <3>2
  <2>4. t \in Int /\ 1 <= k + t /\ e + t <= n /\ GoesTo(a, b, c, k) = k + t
    BY <1>0, <1>5, <1>7, <1>13, <2>1 DEF GoesTo
  <2>5. \A q \in k..e : q \in b+1..c
    BY <1>0, <1>5, <1>7, <1>13, <2>1
  <2>6. \A q \in k..e : ms[q + t] = ls[q]
    BY <2>2, <2>5
  <2> HIDE DEF t
  <2> QED BY <1>C, <2>3, <2>4, <2>6
<1>14. CASE c < k
  <2>1. \A q \in k..n : ms[q] = ls[q]
    <3>1. \A q \in k..n : q \in c+1..n
      BY <1>0, <1>5, <1>14
    <3> QED BY <1>1, <3>1
  <2>2. DetailStops(ms, e, ls[k].d)
    <3>1. \A q \in e+1..s-1 : q \in k..n
      BY <1>0, <1>5, <1>7, <1>9
    <3>2. \A q \in e+1..s-1 : ms[q].kind = "blank"
      BY <1>8, <2>1, <3>1
    <3>3. s <= n => ms[s].kind # "blank" /\ (ms[s].kind = "item" \/ ms[s].d <= ls[k].d)
      <4> SUFFICES ASSUME s <= n PROVE ms[s].kind # "blank" /\ (ms[s].kind = "item" \/ ms[s].d <= ls[k].d)
        OBVIOUS
      <4>1. s \in k..n
        BY <1>5, <1>7, <1>9
      <4> QED BY <1>8, <2>1, <4>1
    <3> QED BY <1>7, <1>9, <1>D, <3>2, <3>3
  <2>3. \A t \in Int : t = 0 => Folded(ms, k + t) = Folded(ls, k)
    <3> SUFFICES ASSUME NEW t \in Int, t = 0 PROVE Folded(ms, k + t) = Folded(ls, k)
      OBVIOUS
    <3>0. 1 <= k + t /\ e + t <= n /\ e + t = e
      BY <1>5, <1>7
    <3>1. \A q \in k..e : q \in k..n /\ q + t = q
      BY <1>0, <1>5, <1>7
    <3>2. \A q \in k..e : ms[q + t] = ls[q]
      BY <2>1, <3>1
    <3> QED BY <1>C, <2>2, <3>0, <3>2
  <2>4. 0 \in Int /\ k + 0 = k /\ GoesTo(a, b, c, k) = k
    BY <1>0, <1>5, <1>14 DEF GoesTo
  <2> QED BY <2>3, <2>4
<1> QED BY <1>0, <1>5, <1>11, <1>12, <1>13, <1>14

\* Items stay items, and nothing else becomes one.
LEMMA SwapItems ==
  ASSUME NEW ls \in Seq(ListLines), NEW ms, NEW a, NEW b, NEW c, Swapped(ls, ms, a, b, c)
  PROVE  /\ \A k \in Items(ls) : GoesTo(a, b, c, k) \in Items(ms) /\ ms[GoesTo(a, b, c, k)] = ls[k]
         /\ \A m \in 1..Len(ls) : \E k \in 1..Len(ls) : m = GoesTo(a, b, c, k)
         /\ \A m \in Items(ms) : \E k \in Items(ls) : m = GoesTo(a, b, c, k)
<1> DEFINE n == Len(ls)
           to(k) == GoesTo(a, b, c, k)
<1>0. /\ a \in Int /\ b \in Int /\ c \in Int /\ n \in Int /\ Len(ms) = n /\ ms \in Seq(ListLines)
      /\ 1 <= a /\ a <= b /\ b < c /\ c <= n
      /\ \A k \in 1..n : ms[to(k)] = ls[k] /\ to(k) \in 1..n
  BY SwappedIs
<1>1. /\ \A k \in 1..n : k \in Items(ls) <=> ls[k].kind = "item"
      /\ \A k \in 1..n : k \in Items(ms) <=> ms[k].kind = "item"
      /\ Items(ls) \subseteq 1..n /\ Items(ms) \subseteq 1..n
  <2>1. \A k \in 1..Len(ms) : k \in Items(ms) <=> ms[k].kind = "item"
    BY <1>0, LineIs
  <2>2. Items(ls) \subseteq 1..Len(ls) /\ Items(ms) \subseteq 1..Len(ms)
    BY <1>0, ItemsAre
  <2> QED BY <1>0, <2>1, <2>2, LineIs
<1>2. ASSUME NEW m \in 1..n PROVE \E k \in 1..n : m = to(k)
  <2>0. m \in Int /\ 1 <= m /\ m <= n
    BY <1>0
  <2>1. CASE m < a \/ m > c
    <3>1. m = to(m)
      BY <1>0, <2>0, <2>1 DEF GoesTo
    <3> QED BY <3>1
  <2>2. CASE a <= m /\ m <= a + (c - b) - 1
    <3>1. m + (b + 1 - a) \in 1..n /\ m = to(m + (b + 1 - a))
      BY <1>0, <2>0, <2>2 DEF GoesTo
    <3> QED BY <3>1
  <2>3. CASE a + (c - b) - 1 < m /\ m <= c
    <3>1. m - (c - b) \in 1..n /\ m = to(m - (c - b))
      BY <1>0, <2>0, <2>3 DEF GoesTo
    <3> QED BY <3>1
  <2> QED BY <1>0, <2>0, <2>1, <2>2, <2>3
<1> HIDE DEF n, to
<1>3. \A k \in Items(ls) : to(k) \in Items(ms) /\ ms[to(k)] = ls[k]
  BY <1>0, <1>1
<1>4. \A m \in Items(ms) : \E k \in Items(ls) : m = to(k)
  <2> SUFFICES ASSUME NEW m \in Items(ms) PROVE \E k \in Items(ls) : m = to(k)
    OBVIOUS
  <2>1. PICK k \in 1..n : m = to(k)
    BY <1>1, <1>2
  <2>2. k \in Items(ls)
    BY <1>0, <1>1, <2>1
  <2> QED BY <2>1, <2>2
<1> QED BY <1>2, <1>3, <1>4 DEF n, to

\* What a task is nested under comes with it, or stays with it.
LEMMA SwapKeepsParents ==
  ASSUME NEW ls \in Seq(ListLines), NEW ms, NEW a, NEW b, NEW c, NEW d, Swapped(ls, ms, a, b, c), Calm(ls, a, b, c, d),
         NEW k \in Items(ls)
  PROVE  LET p == Parent(ls, k)
         IN  /\ p = 0 => Parent(ms, GoesTo(a, b, c, k)) = 0
             /\ p # 0 => p \in Items(ls) /\ Parent(ms, GoesTo(a, b, c, k)) = GoesTo(a, b, c, p)
<1> DEFINE n == Len(ls)
           to(q) == GoesTo(a, b, c, q)
           p == Parent(ls, k)
<1>0. /\ a \in Int /\ b \in Int /\ c \in Int /\ n \in Int /\ Len(ms) = n /\ ms \in Seq(ListLines)
      /\ 1 <= a /\ a <= b /\ b < c /\ c <= n
  BY SwappedIs
<1>1. /\ \A q \in Items(ls) : to(q) \in Items(ms) /\ ms[to(q)] = ls[q]
      /\ \A m \in Items(ms) : \E q \in Items(ls) : m = to(q)
  BY SwapItems
<1>2. /\ \A q \in Items(ls) : q \in Int /\ 1 <= q /\ q <= n /\ ls[q].d \in Nat
      /\ k \in Int
  <2>1. \A q \in Items(ls) : q \in 1..n /\ ls[q].d \in Nat
    BY ItemsAre
  <2> QED BY <1>0, <2>1
<1>3. /\ d \in Nat /\ a \in Items(ls) /\ ls[a].d = d
      /\ \A q \in Items(ls) : a <= q /\ q <= c => ls[q].d >= d
      /\ \A q \in Items(ls) : b < q /\ q <= c => \E w \in Items(ls) : b < w /\ w <= q /\ ls[w].d = d
      /\ \A q \in Items(ls) : c < q => \E v \in Items(ls) : c < v /\ v <= q /\ ls[v].d <= d
  <2>1. a \in 1..n
    BY <1>0
  <2>2. a \in Items(ls)
    BY <2>1, LineIs DEF Calm
  <2> QED BY <2>2 DEF Calm
<1>4. \/ p = 0 /\ \A q \in Items(ls) : q < k => ls[q].d >= ls[k].d
      \/ /\ p \in Items(ls) /\ p < k /\ ls[p].d < ls[k].d
         /\ \A q \in Items(ls) : p < q /\ q < k => ls[q].d >= ls[k].d
  <2>1. ParentIs(ls, k, p)
    BY ParentMeans
  <2> HIDE DEF p
  <2> QED BY <2>1 DEF ParentIs
<1> HIDE DEF p, n
<1>5. p \in Int /\ p >= 0 /\ (p # 0 => p \in Items(ls) /\ p < k /\ ls[p].d < ls[k].d)
      /\ \A q \in Items(ls) : p < q /\ q < k => ls[q].d >= ls[k].d
  <2>1. CASE p = 0 /\ \A q \in Items(ls) : q < k => ls[q].d >= ls[k].d
    BY <2>1
  <2>2. CASE /\ p \in Items(ls) /\ p < k /\ ls[p].d < ls[k].d
             /\ \A q \in Items(ls) : p < q /\ q < k => ls[q].d >= ls[k].d
    BY <1>2, <2>2
  <2> QED BY <1>4, <2>1, <2>2
<1>6. ASSUME p # 0, a <= p, p <= c, k > c PROVE FALSE
  <2>1. ls[k].d > d /\ ls[k].d \in Nat
    <3>1. p \in Items(ls) /\ ls[p].d < ls[k].d
      BY <1>5, <1>6
    <3>2. ls[p].d >= d /\ ls[p].d \in Nat
      BY <1>2, <1>3, <1>6, <3>1
    <3>3. ls[k].d \in Nat
      BY <1>2
    <3> QED BY <1>3, <3>1, <3>2, <3>3
  <2>2. PICK v \in Items(ls) : c < v /\ v <= k /\ ls[v].d <= d
    BY <1>3, <1>6
  <2>3. v # k
    BY <1>2, <1>3, <2>1, <2>2
  <2>4. p < v /\ v < k
    BY <1>0, <1>2, <1>5, <1>6, <2>2, <2>3
  <2>5. ls[v].d >= ls[k].d
    BY <1>5, <2>4
  <2>6. ls[v].d \in Nat /\ d \in Nat
    BY <1>2, <1>3
  <2> QED BY <2>1, <2>2, <2>5, <2>6
<1>7. ASSUME p # 0, a <= p, p <= b, b < k, k <= c PROVE FALSE
  <2>1. ls[k].d > d /\ ls[k].d \in Nat
    <3>1. p \in Items(ls) /\ p <= c
      BY <1>0, <1>5, <1>7
    <3>2. ls[p].d >= d /\ ls[p].d \in Nat
      BY <1>2, <1>3, <1>7, <3>1
    <3> QED BY <1>2, <1>3, <1>5, <1>7, <3>2
  <2>2. PICK w \in Items(ls) : b < w /\ w <= k /\ ls[w].d = d
    BY <1>3, <1>7
  <2>3. w # k
    BY <1>3, <2>1, <2>2
  <2>4. p < w /\ w < k
    BY <1>0, <1>2, <1>5, <1>7, <2>2, <2>3
  <2>5. ls[w].d >= ls[k].d
    BY <1>5, <2>4
  <2> QED BY <1>2, <1>3, <2>1, <2>2, <2>5
<1>8. ASSUME p < a, a <= k, k <= c PROVE ls[k].d = d
  <2>1. ls[k].d >= d /\ ls[k].d \in Nat
    BY <1>2, <1>3, <1>8
  <2>2. CASE k = a
    BY <1>3, <2>2
  <2>3. CASE a < k
    <3>1. ls[a].d >= ls[k].d
      BY <1>3, <1>5, <1>8, <2>3
    <3> QED BY <1>3, <2>1, <3>1
  <2> QED BY <1>0, <1>2, <1>8, <2>2, <2>3
<1>9. ASSUME p # 0 PROVE to(p) < to(k)
  <2>1. p \in Int /\ k \in Int /\ p < k /\ ~(a <= p /\ p <= b /\ b < k /\ k <= c)
    BY <1>2, <1>5, <1>7, <1>9
  <2> QED BY <1>0, <2>1 DEF GoesTo
<1> DEFINE P == IF p = 0 THEN 0 ELSE to(p)
<1>10. ASSUME NEW q \in Items(ls), P < to(q), to(q) < to(k) PROVE ls[q].d >= ls[k].d
  <2>0. q \in Int /\ k \in Int /\ p \in Int /\ 1 <= q /\ ls[q].d \in Nat /\ ls[k].d \in Nat
    BY <1>2, <1>5
  <2>1. CASE p < q /\ q < k
    BY <1>5, <2>1
  <2>2. CASE k <= q
    <3>1. b < q /\ q <= c /\ a <= k /\ k <= b
      BY <1>0, <1>10, <2>0, <2>2 DEF GoesTo
    <3>2. p < a
      <4> SUFFICES ASSUME a <= p PROVE FALSE
        BY <1>0, <2>0
      <4>1. p # 0 /\ p <= b
        BY <1>0, <1>5, <2>0, <3>1
      <4>2. to(p) < to(q)
        BY <1>10, <4>1
      <4> QED BY <1>0, <2>0, <3>1, <4>1, <4>2 DEF GoesTo
    <3>3. ls[k].d = d
      <4>1. k <= c
        BY <1>0, <2>0, <3>1
      <4> QED BY <1>8, <3>1, <3>2, <4>1
    <3>4. ls[q].d >= d
      <4>1. a <= q /\ q <= c
        BY <1>0, <2>0, <3>1
      <4> QED BY <1>3, <4>1
    <3> QED BY <3>3, <3>4
  <2>3. CASE q <= p /\ q < k
    <3>1. p # 0
      BY <2>0, <2>3
    <3>2. to(p) < to(q)
      BY <1>10, <3>1
    <3>3. a <= q /\ q <= b /\ b < p /\ p <= c
      BY <1>0, <2>0, <2>3, <3>2 DEF GoesTo
    <3>4. k <= c
      <4>1. a <= p
        BY <1>0, <2>0, <3>3
      <4> QED BY <1>0, <1>6, <2>0, <3>1, <3>3, <4>1
    <3>5. b < k
      BY <1>0, <1>5, <2>0, <3>1, <3>3
    <3> QED BY <1>0, <1>10, <2>0, <3>3, <3>4, <3>5 DEF GoesTo
  <2> QED BY <2>0, <2>1, <2>2, <2>3
<1>11. ParentIs(ms, to(k), P)
  <2>1. ms[to(k)] = ls[k]
    BY <1>1
  <2>2. ASSUME NEW m \in Items(ms), P < m, m < to(k) PROVE ms[m].d >= ms[to(k)].d
    <3>1. PICK q \in Items(ls) : m = to(q)
      BY <1>1
    <3>2. ls[q].d >= ls[k].d
      BY <1>10, <2>2, <3>1
    <3> QED BY <1>1, <2>1, <3>1, <3>2
  <2>3. \A m \in Items(ms) : m > 0
    <3>1. \A m \in Items(ms) : m \in 1..Len(ms)
      BY <1>0, ItemsAre
    <3> QED BY <1>0, <3>1
  <2>4. CASE p = 0
    <3>1. P = 0 /\ \A m \in Items(ms) : m < to(k) => ms[m].d >= ms[to(k)].d
      BY <2>2, <2>3, <2>4
    <3> HIDE DEF P, to
    <3> QED BY <3>1 DEF ParentIs
  <2>5. CASE p # 0
    <3>1. P = to(p) /\ P \in Items(ms) /\ P < to(k) /\ ms[P].d < ms[to(k)].d
      <4>1. p \in Items(ls) /\ ls[p].d < ls[k].d
        BY <1>5, <2>5
      <4> HIDE DEF to
      <4> QED BY <1>1, <1>9, <2>1, <2>5, <4>1
    <3>2. \A m \in Items(ms) : P < m /\ m < to(k) => ms[m].d >= ms[to(k)].d
      BY <2>2
    <3> HIDE DEF P, to
    <3> QED BY <3>1, <3>2 DEF ParentIs
  <2> QED BY <2>4, <2>5
<1>12. P = Parent(ms, to(k))
  <2>1. to(k) \in Items(ms)
    BY <1>1
  <2> HIDE DEF P, to
  <2> QED BY <1>0, <1>11, <2>1, ParentMeans
<1>13. p = 0 => Parent(ms, to(k)) = 0
  BY <1>12
<1>14. p # 0 => p \in Items(ls) /\ Parent(ms, to(k)) = to(p)
  BY <1>5, <1>12
<1> HIDE DEF P
<1> QED BY <1>13, <1>14 DEF p

\* Where the pieces land: the second where the first was, the first past the items of the second.
LEMMA SwapLands ==
  ASSUME NEW ls \in Seq(ListLines), NEW ms, NEW a, NEW b, NEW c, Swapped(ls, ms, a, b, c), a \in Items(ls)
  PROVE  /\ Position(ms, GoesTo(a, b, c, a)) = Count(ls, 1, a - 1) + Count(ls, b + 1, c) + 1
         /\ b + 1 \in Items(ls) => GoesTo(a, b, c, b + 1) = a /\ Position(ms, a) = Position(ls, a)
<1> DEFINE n == Len(ls)
           g == a + (c - b)
<1>0. /\ a \in Int /\ b \in Int /\ c \in Int /\ n \in Int /\ Len(ms) = n /\ ms \in Seq(ListLines)
      /\ 1 <= a /\ a <= b /\ b < c /\ c <= n
  BY SwappedIs
<1>1. /\ \A q \in 1..a-1 : ms[q] = ls[q]
      /\ \A q \in b+1..c : ms[q - (b + 1 - a)] = ls[q]
  BY DEF Swapped
<1>2. \A k \in Items(ls) : GoesTo(a, b, c, k) \in Items(ms) /\ ms[GoesTo(a, b, c, k)] = ls[k]
  BY SwapItems
<1>3. Count(ms, 1, a - 1) = Count(ls, 1, a - 1)
  <2>1. a - 1 \in Int /\ a - 1 <= Len(ls) /\ a - 1 <= Len(ms)
    BY <1>0
  <2> QED BY <1>0, <1>1, <2>1, CountSame
<1>4. Count(ms, a, g - 1) = Count(ls, b + 1, c)
  <2>1. \A q \in b+1..c : ms[q + (a - (b + 1))] = ls[q]
    <3>1. \A q \in b+1..c : q - (b + 1 - a) = q + (a - (b + 1))
      BY <1>0
    <3> QED BY <1>1, <3>1
  <2>2. /\ b + 1 \in Int /\ c \in Int /\ a \in Int /\ g - 1 \in Int
        /\ (g - 1) - c = a - (b + 1) /\ 1 <= b + 1 /\ c <= Len(ls) /\ 1 <= a /\ g - 1 <= Len(ms)
    BY <1>0
  <2>3. ms \in Seq(ListLines)
    BY <1>0
  <2> HIDE DEF g, n
  <2>4. Carried(ls, ms, b + 1, c, a, g - 1)
    BY <2>1, <2>2 DEF Carried
  <2> QED BY <2>3, <2>4, CountComes
<1>5. Count(ms, 1, g - 1) = Count(ms, 1, a - 1) + Count(ms, a, g - 1)
  <2>1. 1 \in Int /\ g - 1 \in Int /\ a - 1 \in Int /\ 1 <= (a - 1) + 1 /\ a - 1 <= g - 1 /\ (a - 1) + 1 = a
    BY <1>0
  <2>2. \A mid \in Int : 1 <= mid + 1 /\ mid <= g - 1 => Count(ms, 1, g - 1) = Count(ms, 1, mid) + Count(ms, mid + 1, g - 1)
    BY <1>0, <2>1, CountIs
  <2> HIDE DEF g
  <2> QED BY <2>1, <2>2
<1>6. Position(ms, g) = Count(ms, 1, g - 1) + 1
  <2>1. GoesTo(a, b, c, a) = g
    BY <1>0 DEF GoesTo
  <2>2. g \in Items(ms)
    BY <1>2, <2>1
  <2> HIDE DEF g
  <2> QED BY <1>0, <2>2, PositionIs
<1>7. GoesTo(a, b, c, a) = g
  BY <1>0 DEF GoesTo
<1>8. Count(ls, 1, a - 1) \in Nat /\ Count(ls, b + 1, c) \in Nat
  <2>1. a - 1 \in Int /\ b + 1 \in Int /\ 1 \in Int
    BY <1>0
  <2> QED BY <1>0, <2>1, CountIs
<1>9. ASSUME b + 1 \in Items(ls) PROVE GoesTo(a, b, c, b + 1) = a /\ Position(ms, a) = Position(ls, a)
  <2>1. GoesTo(a, b, c, b + 1) = a
    BY <1>0 DEF GoesTo
  <2>2. a \in Items(ms)
    BY <1>2, <1>9, <2>1
  <2>3. Position(ms, a) = Count(ms, 1, a - 1) + 1 /\ Position(ls, a) = Count(ls, 1, a - 1) + 1
    BY <1>0, <2>2, PositionIs
  <2> QED BY <1>3, <2>1, <2>3
<1> HIDE DEF g
<1> QED BY <1>3, <1>4, <1>5, <1>6, <1>7, <1>8, <1>9

\* Ids go with their lines.
LEMMA SwapIds ==
  ASSUME NEW ls \in Seq(ListLines), NEW ms, NEW a, NEW b, NEW c, Swapped(ls, ms, a, b, c), NEW n, IdsOK(ls, n)
  PROVE  /\ IdsOK(ms, n)
         /\ \A k \in Items(ls) : Where(ms, ls[k].id) = GoesTo(a, b, c, k) /\ Where(ls, ls[k].id) = k
         /\ \A x \in IdsOf(ms) : \E k \in Items(ls) : x = ls[k].id
         /\ \A x \in IdsOf(ls) : \E k \in Items(ls) : x = ls[k].id
<1> DEFINE to(k) == GoesTo(a, b, c, k)
<1>0. /\ Len(ms) = Len(ls) /\ ms \in Seq(ListLines)
      /\ \A k \in 1..Len(ls) : ms[to(k)] = ls[k] /\ to(k) \in 1..Len(ls)
  BY SwappedIs
<1>1. /\ \A k \in Items(ls) : to(k) \in Items(ms) /\ ms[to(k)] = ls[k]
      /\ \A m \in 1..Len(ls) : \E k \in 1..Len(ls) : m = to(k)
      /\ \A m \in Items(ms) : \E k \in Items(ls) : m = to(k)
  BY SwapItems
<1> HIDE DEF to
<1>2. /\ \A k \in 1..Len(ls) : ls[k].id < n
      /\ \A k \in Items(ls) : ls[k].id # 0
      /\ \A k, l \in 1..Len(ls) : ls[k].id = ls[l].id /\ ls[k].id # 0 => k = l
  BY DEF IdsOK
<1>3. IdsOK(ms, n)
  <2>1. ASSUME NEW m \in 1..Len(ms) PROVE ms[m].id < n
    <3>1. PICK k \in 1..Len(ls) : m = to(k)
      BY <1>0, <1>1
    <3> QED BY <1>0, <1>2, <3>1
  <2>2. ASSUME NEW m \in Items(ms) PROVE ms[m].id # 0
    <3>1. PICK k \in Items(ls) : m = to(k)
      BY <1>1
    <3> QED BY <1>1, <1>2, <3>1
  <2>3. ASSUME NEW m \in 1..Len(ms), NEW l \in 1..Len(ms), ms[m].id = ms[l].id, ms[m].id # 0 PROVE m = l
    <3>1. PICK k \in 1..Len(ls) : m = to(k)
      BY <1>0, <1>1
    <3>2. PICK h \in 1..Len(ls) : l = to(h)
      BY <1>0, <1>1
    <3>3. ls[k].id = ls[h].id /\ ls[k].id # 0
      BY <1>0, <2>3, <3>1, <3>2
    <3> QED BY <1>2, <3>1, <3>2, <3>3
  <2> QED BY <2>1, <2>2, <2>3 DEF IdsOK
<1>4. \A m \in Items(ms) : Where(ms, ms[m].id) = m
  BY <1>0, <1>3, WhereIs
<1>5. \A k \in Items(ls) : Where(ms, ls[k].id) = to(k) /\ Where(ls, ls[k].id) = k
  <2>1. \A k \in Items(ls) : Where(ls, ls[k].id) = k
    BY WhereIs
  <2> QED BY <1>1, <1>4, <2>1
<1>6. \A x \in IdsOf(ms) : \E k \in Items(ls) : x = ls[k].id
  <2> SUFFICES ASSUME NEW x \in IdsOf(ms) PROVE \E k \in Items(ls) : x = ls[k].id
    OBVIOUS
  <2>1. PICK m \in Items(ms) : x = ms[m].id
    BY DEF IdsOf
  <2>2. PICK k \in Items(ls) : m = to(k)
    BY <1>1
  <2> QED BY <1>1, <2>1, <2>2
<1>7. \A x \in IdsOf(ls) : \E k \in Items(ls) : x = ls[k].id
  BY DEF IdsOf
<1> QED BY <1>3, <1>5, <1>6, <1>7 DEF to

\* What an edit from ls to ms must keep: the detail of the tasks that stay, and what each is nested under.
DetailKept(ls, ms) == \A x \in IdsOf(ls) \cap IdsOf(ms) : Folded(ms, Where(ms, x)) = Folded(ls, Where(ls, x))
ParentsKept(ls, ms) ==
  \A x \in IdsOf(ms) :
    LET p == Parent(ls, Where(ls, x)) q == Parent(ms, Where(ms, x))
    IN  IF p = 0 THEN q = 0 ELSE q # 0 /\ ms[q].id = ls[p].id

\* A calm swap keeps every task's detail and parent.
LEMMA SwapKeeps ==
  ASSUME NEW ls \in Seq(ListLines), NEW ms, NEW a, NEW b, NEW c, NEW d, Swapped(ls, ms, a, b, c), Calm(ls, a, b, c, d),
         NEW n, IdsOK(ls, n)
  PROVE  DetailKept(ls, ms) /\ ParentsKept(ls, ms)
<1> DEFINE to(k) == GoesTo(a, b, c, k)
<1>1. /\ \A k \in Items(ls) : Where(ms, ls[k].id) = to(k) /\ Where(ls, ls[k].id) = k
      /\ \A x \in IdsOf(ms) : \E k \in Items(ls) : x = ls[k].id
      /\ \A x \in IdsOf(ls) : \E k \in Items(ls) : x = ls[k].id
  BY SwapIds
<1>2. \A k \in Items(ls) : to(k) \in Items(ms) /\ ms[to(k)] = ls[k]
  BY SwapItems
<1>3. \A k \in Items(ls) : Folded(ms, to(k)) = Folded(ls, k)
  BY SwapKeepsFold
<1>4. \A k \in Items(ls) : /\ Parent(ls, k) = 0 => Parent(ms, to(k)) = 0
                           /\ Parent(ls, k) # 0 => Parent(ls, k) \in Items(ls) /\ Parent(ms, to(k)) = to(Parent(ls, k))
  BY SwapKeepsParents
<1>5. \A m \in Items(ms) : m # 0
  <2>1. ms \in Seq(ListLines)
    BY SwappedIs
  <2>2. \A m \in Items(ms) : m \in 1..Len(ms)
    BY <2>1, ItemsAre
  <2> QED BY <2>1, <2>2
<1> HIDE DEF to
<1>6. DetailKept(ls, ms)
  BY <1>1, <1>3 DEF DetailKept
<1>7. ASSUME NEW x \in IdsOf(ms)
      PROVE  IF Parent(ls, Where(ls, x)) = 0 THEN Parent(ms, Where(ms, x)) = 0
             ELSE Parent(ms, Where(ms, x)) # 0 /\ ms[Parent(ms, Where(ms, x))].id = ls[Parent(ls, Where(ls, x))].id
  <2>1. PICK k \in Items(ls) : x = ls[k].id
    BY <1>1
  <2>2. Where(ls, x) = k /\ Where(ms, x) = to(k)
    BY <1>1, <2>1
  <2>3. CASE Parent(ls, k) = 0
    BY <1>4, <2>2, <2>3
  <2>4. CASE Parent(ls, k) # 0
    <3>1. Parent(ls, k) \in Items(ls) /\ Parent(ms, to(k)) = to(Parent(ls, k))
      BY <1>4, <2>4
    <3>2. to(Parent(ls, k)) \in Items(ms) /\ ms[to(Parent(ls, k))] = ls[Parent(ls, k)]
      BY <1>2, <3>1
    <3>3. Parent(ms, to(k)) # 0
      BY <1>5, <3>1, <3>2
    <3> QED BY <2>2, <2>4, <3>1, <3>2, <3>3
  <2> QED BY <2>3, <2>4
<1>8. ParentsKept(ls, ms)
  BY <1>7 DEF ParentsKept
<1> QED BY <1>6, <1>8

\* A move of a tidy list keeps details and parents, and lands where the mover said it would.
LEMMA MovesAreLocal ==
  ASSUME NEW ls \in Seq(ListLines), NEW n, IdsOK(ls, n), NEW i \in Items(ls), NEW j \in Items(ls), MoveAllowed(ls, i, j)
  PROVE  LET ms == MoveChecklistItem(ls, i, j)
         IN  /\ ms \in Seq(ListLines) /\ IdsOK(ms, n)
             /\ Tidy(ls) => /\ DetailKept(ls, ms) /\ ParentsKept(ls, ms)
                            /\ Position(ms, Where(ms, ls[i].id)) =
                                 IF j > i THEN Position(ls, j) + SubtreeSize(ls, j) - SubtreeSize(ls, i) ELSE Position(ls, j)
<1> DEFINE ms == MoveChecklistItem(ls, i, j)
<1>0. i \in Nat /\ j \in Nat /\ i # j /\ Len(ls) \in Nat
  BY ItemsAre DEF MoveAllowed
<1>1. CASE j < i
  <2> DEFINE c == SubtreeEnd(ls, i)
  <2>1. Swapped(ls, ms, j, i - 1, c)
    BY <1>1, MoveUp
  <2> HIDE DEF ms, c
  <2>2. ms \in Seq(ListLines) /\ IdsOK(ms, n)
    BY <2>1, SwappedIs, SwapIds
  <2>3. ASSUME Tidy(ls) PROVE DetailKept(ls, ms) /\ ParentsKept(ls, ms) /\ Position(ms, Where(ms, ls[i].id)) = Position(ls, j)
    <3>1. Calm(ls, j, i - 1, c, ls[j].d)
      BY <1>1, <2>3, CalmUp DEF c
    <3>2. DetailKept(ls, ms) /\ ParentsKept(ls, ms)
      BY <2>1, <3>1, SwapKeeps
    <3>3. Where(ms, ls[i].id) = GoesTo(j, i - 1, c, i)
      BY <2>1, SwapIds
    <3>4. (i - 1) + 1 = i
      BY <1>0
    <3>5. GoesTo(j, i - 1, c, i) = j /\ Position(ms, j) = Position(ls, j)
      <4>1. (i - 1) + 1 \in Items(ls) => GoesTo(j, i - 1, c, (i - 1) + 1) = j /\ Position(ms, j) = Position(ls, j)
        BY <2>1, SwapLands
      <4> QED BY <3>4, <4>1
    <3> QED BY <3>2, <3>3, <3>5
  <2>4. ~(j > i)
    BY <1>0, <1>1
  <2> QED BY <2>2, <2>3, <2>4 DEF ms
<1>2. CASE i < j
  <2> DEFINE b == SubtreeEnd(ls, i)
             c == SubtreeEnd(ls, j)
  <2>1. Swapped(ls, ms, i, b, c)
    BY <1>2, MoveDown
  <2> HIDE DEF ms, b, c
  <2>2. ms \in Seq(ListLines) /\ IdsOK(ms, n)
    BY <2>1, SwappedIs, SwapIds
  <2>3. ASSUME Tidy(ls)
        PROVE  /\ DetailKept(ls, ms) /\ ParentsKept(ls, ms)
               /\ Position(ms, Where(ms, ls[i].id)) = Position(ls, j) + SubtreeSize(ls, j) - SubtreeSize(ls, i)
    <3>1. Calm(ls, i, b, c, ls[i].d)
      BY <1>2, <2>3, CalmDown DEF b, c
    <3>2. DetailKept(ls, ms) /\ ParentsKept(ls, ms)
      BY <2>1, <3>1, SwapKeeps
    <3>3. Position(ms, Where(ms, ls[i].id)) = Count(ls, 1, i - 1) + Count(ls, b + 1, c) + 1
      <4>1. Where(ms, ls[i].id) = GoesTo(i, b, c, i)
        BY <2>1, SwapIds
      <4> QED BY <2>1, <4>1, SwapLands
    <3>4. SubtreeSize(ls, i) = Count(ls, i, b) /\ SubtreeSize(ls, j) = Count(ls, j, c)
      BY <2>3, PastSubtree DEF b, c
    <3>5. Position(ls, j) = Count(ls, 1, j - 1) + 1
      BY PositionIs
    <3>6. b \in Int /\ c \in Int /\ i <= b /\ b < j /\ j <= c /\ 1 <= i /\ i \in Int /\ j \in Int
      <4>1. i \in Int /\ b \in Int /\ c \in Int /\ 1 <= i /\ i <= b /\ b < c
        BY <2>1, SwappedIs
      <4>2. b < j
        BY <1>2, SiblingIsPast DEF MoveAllowed, b
      <4>3. c \in j..Len(ls)
        BY <1>2, <2>3, SiblingsAre DEF MoveAllowed, c
      <4> QED BY <1>0, <4>1, <4>2, <4>3
    <3>7. /\ Count(ls, 1, c) = Count(ls, 1, j - 1) + Count(ls, j, c)
          /\ Count(ls, 1, c) = Count(ls, 1, i - 1) + Count(ls, i, c)
          /\ Count(ls, i, c) = Count(ls, i, b) + Count(ls, b + 1, c)
      <4>1. /\ 1 \in Int /\ j - 1 \in Int /\ 1 <= (j - 1) + 1 /\ j - 1 <= c /\ (j - 1) + 1 = j
            /\ i - 1 \in Int /\ 1 <= (i - 1) + 1 /\ i - 1 <= c /\ (i - 1) + 1 = i
            /\ i <= b + 1 /\ b <= c
        BY <3>6
      <4>2. \A lo, hi, mid \in Int : lo <= mid + 1 /\ mid <= hi => Count(ls, lo, hi) = Count(ls, lo, mid) + Count(ls, mid + 1, hi)
        BY CountIs
      <4>3. Count(ls, 1, c) = Count(ls, 1, j - 1) + Count(ls, (j - 1) + 1, c)
        BY <3>6, <4>1, <4>2
      <4>4. Count(ls, 1, c) = Count(ls, 1, i - 1) + Count(ls, (i - 1) + 1, c)
        BY <3>6, <4>1, <4>2
      <4>5. Count(ls, i, c) = Count(ls, i, b) + Count(ls, b + 1, c)
        BY <3>6, <4>1, <4>2
      <4> QED BY <4>1, <4>3, <4>4, <4>5
    <3>8. /\ Count(ls, 1, j - 1) \in Nat /\ Count(ls, j, c) \in Nat /\ Count(ls, 1, i - 1) \in Nat
          /\ Count(ls, i, b) \in Nat /\ Count(ls, b + 1, c) \in Nat
      <4>1. 1 \in Int /\ j - 1 \in Int /\ i - 1 \in Int /\ b + 1 \in Int
        BY <3>6
      <4>2. \A lo, hi \in Int : Count(ls, lo, hi) \in Nat
        BY CountIs
      <4> QED BY <3>6, <4>1, <4>2
    <3>9. Position(ms, Where(ms, ls[i].id)) = Position(ls, j) + SubtreeSize(ls, j) - SubtreeSize(ls, i)
      <4>1. \A A, B, E, J, Q \in Int : Q + J = A + (E + B) => A + B + 1 = (Q + 1) + J - E
        OBVIOUS
      <4>2. Count(ls, 1, j - 1) + Count(ls, j, c) = Count(ls, 1, i - 1) + (Count(ls, i, b) + Count(ls, b + 1, c))
        BY <3>7
      <4>3. Count(ls, 1, i - 1) + Count(ls, b + 1, c) + 1 = (Count(ls, 1, j - 1) + 1) + Count(ls, j, c) - Count(ls, i, b)
        BY <3>8, <4>1, <4>2
      <4> QED BY <3>3, <3>4, <3>5, <4>3
    <3> QED BY <3>2, <3>9
  <2>4. j > i
    BY <1>0, <1>2
  <2> QED BY <2>2, <2>3, <2>4 DEF ms
<1> QED BY <1>0, <1>1, <1>2

-----------------------------------------------------------------------------
(* Deletions *)

\* A task whose detail ends before a line that differs: it is what it was when it still stops there.
LEMMA FoldHead ==
  ASSUME NEW ls \in Seq(ListLines), NEW ms \in Seq(ListLines), NEW k \in Items(ls), NEW m \in Int,
         DetailEnd(ls, k) <= m, m <= Len(ms), m <= Len(ls), \A q \in 1..m : ms[q] = ls[q],
         DetailStops(ms, DetailEnd(ls, k), ls[k].d)
  PROVE  k \in Items(ms) /\ Folded(ms, k) = Folded(ls, k)
<1> DEFINE e == DetailEnd(ls, k)
<1>1. k \in Int /\ k \in 1..Len(ls) /\ Len(ls) \in Nat /\ Len(ms) \in Nat /\ ls[k].kind = "item"
  BY ItemsAre
<1>2. DetailIs(ls, k, e)
  BY <1>1, DetailEndIs
<1>3. e \in k..Len(ls)
  <2> HIDE DEF e
  <2> QED BY <1>1, <1>2, DetailMeans
<1> HIDE DEF e
<1>4. e \in Int /\ k <= e /\ e <= m
  BY <1>1, <1>3 DEF e
<1>5. k \in 1..m /\ k \in 1..Len(ms)
  BY <1>1, <1>4
<1>6. k \in Items(ms)
  BY <1>1, <1>5, LineIs
<1>7. \A f \in Int : f = e - k => k + f = e /\ \A q \in 0..f : k + q \in 1..m
  BY <1>1, <1>4
<1>8. k + (e - k) = e /\ \A q \in 0..(e - k) : ms[k + q] = ls[k + q]
  BY <1>1, <1>4, <1>7
<1>9. k + (e - k) <= Len(ms) /\ DetailStops(ms, k + (e - k), ls[k].d)
  <2>1. e <= Len(ms)
    BY <1>1, <1>4
  <2> QED BY <1>8, <2>1 DEF e
<1>10. Folded(ms, k) = Folded(ls, k)
  BY <1>1, <1>2, <1>4, <1>5, <1>8, <1>9, DetailComes
<1> QED BY <1>6, <1>10

\* The end of a list, as the end of another.
LEMMA FoldTail ==
  ASSUME NEW ls \in Seq(ListLines), NEW ms \in Seq(ListLines), NEW k \in Items(ls), NEW t \in Int,
         Len(ms) = Len(ls) + t, 1 <= k + t, \A q \in k..Len(ls) : ms[q + t] = ls[q]
  PROVE  k + t \in Items(ms) /\ Folded(ms, k + t) = Folded(ls, k)
<1> DEFINE e == DetailEnd(ls, k)
           n == Len(ls)
<1>1. k \in Int /\ k \in 1..n /\ n \in Int /\ Len(ms) = n + t /\ ls[k].kind = "item" /\ \A q \in k..n : ms[q + t] = ls[q]
  BY ItemsAre
<1>2. DetailIs(ls, k, e)
  BY <1>1, DetailEndIs
<1>3. e \in k..n /\ DetailStops(ls, e, ls[k].d)
  <2> HIDE DEF e
  <2> QED BY <1>1, <1>2, DetailMeans
<1> HIDE DEF e
<1>4. PICK s \in e+1..n+1 : /\ \A q \in e+1..s-1 : ls[q].kind = "blank"
                            /\ s <= n => ls[s].kind # "blank" /\ (ls[s].kind = "item" \/ ls[s].d <= ls[k].d)
  BY <1>3 DEF DetailStops
<1> HIDE DEF n
<1>5. e \in Int /\ k <= e /\ e <= n /\ s \in Int /\ e < s /\ s <= n + 1
  BY <1>1, <1>3, <1>4
<1>6. k + t \in 1..Len(ms) /\ k + t \in Items(ms)
  <2>1. k + t \in 1..Len(ms) /\ k \in k..n
    BY <1>1
  <2>2. ms[k + t] = ls[k]
    BY <1>1, <2>1
  <2> QED BY <1>1, <2>1, <2>2, LineIs
<1>7. DetailStops(ms, e + t, ls[k].d)
  <2> DEFINE u == s + t
             f == e + t
  <2>1. u \in f+1..Len(ms)+1
    BY <1>1, <1>5
  <2>2. \A q \in f+1..u-1 : ms[q].kind = "blank"
    <3> SUFFICES ASSUME NEW q \in f+1..u-1 PROVE ms[q].kind = "blank"
      OBVIOUS
    <3>1. q - t \in e+1..s-1 /\ q - t \in k..n /\ (q - t) + t = q
      BY <1>1, <1>5
    <3> QED BY <1>1, <1>4, <3>1
  <2>3. u <= Len(ms) => ms[u].kind # "blank" /\ (ms[u].kind = "item" \/ ms[u].d <= ls[k].d)
    <3> SUFFICES ASSUME u <= Len(ms) PROVE ms[u].kind # "blank" /\ (ms[u].kind = "item" \/ ms[u].d <= ls[k].d)
      OBVIOUS
    <3>1. s <= n /\ s \in k..n
      BY <1>1, <1>5
    <3>2. ms[u] = ls[s]
      BY <1>1, <3>1
    <3> QED BY <1>4, <3>1, <3>2
  <2> HIDE DEF u, f
  <2>4. DetailStops(ms, f, ls[k].d)
    BY <2>1, <2>2, <2>3 DEF DetailStops
  <2> QED BY <2>4 DEF f
<1>8. \A j \in 1..Len(ms) : j = k + t => Folded(ms, j) = Folded(ls, k)
  <2> SUFFICES ASSUME NEW j \in 1..Len(ms), j = k + t PROVE Folded(ms, j) = Folded(ls, k)
    OBVIOUS
  <2>1. j + (e - k) = e + t /\ j + (e - k) <= Len(ms)
    BY <1>1, <1>5
  <2>2. \A q \in 0..(e - k) : ms[j + q] = ls[k + q]
    <3> SUFFICES ASSUME NEW q \in 0..(e - k) PROVE ms[j + q] = ls[k + q]
      OBVIOUS
    <3>1. k + q \in k..n /\ (k + q) + t = j + q
      BY <1>1, <1>5
    <3>2. ms[(k + q) + t] = ls[k + q]
      BY <1>1, <3>1
    <3> QED BY <3>1, <3>2
  <2>3. DetailStops(ms, j + (e - k), ls[k].d)
    BY <1>7, <2>1
  <2>4. k \in 1..Len(ls) /\ e \in Int
    BY <1>1, <1>5 DEF n
  <2> QED BY <1>2, <2>1, <2>2, <2>3, <2>4, DetailComes
<1> QED BY <1>6, <1>8

\* Ids of a list that comes from another, line by line.
ComesFrom(ls, ms, F) ==
  /\ \A m \in 1..Len(ms) : F[m] \in 1..Len(ls) /\ ms[m].id = ls[F[m]].id /\ (m \in Items(ms) => F[m] \in Items(ls))
  /\ \A m, l \in 1..Len(ms) : F[m] = F[l] => m = l

\* A list whose lines come from another's keeps ids apart.
LEMMA IdsComeFrom ==
  ASSUME NEW ls \in Seq(ListLines), NEW ms \in Seq(ListLines), NEW n, IdsOK(ls, n), NEW F, ComesFrom(ls, ms, F)
  PROVE  IdsOK(ms, n) /\ \A m \in Items(ms) : Where(ms, ms[m].id) = m /\ Where(ls, ms[m].id) = F[m]
<1>0. \A m \in Items(ms) : m \in 1..Len(ms)
  BY ItemsAre
<1>1. /\ \A k \in 1..Len(ls) : ls[k].id < n
      /\ \A k \in Items(ls) : ls[k].id # 0
      /\ \A k, l \in 1..Len(ls) : ls[k].id = ls[l].id /\ ls[k].id # 0 => k = l
  BY DEF IdsOK
<1>c. /\ \A m \in 1..Len(ms) : F[m] \in 1..Len(ls) /\ ms[m].id = ls[F[m]].id /\ (m \in Items(ms) => F[m] \in Items(ls))
      /\ \A m, l \in 1..Len(ms) : F[m] = F[l] => m = l
  BY DEF ComesFrom
<1>2. \A m \in 1..Len(ms) : ms[m].id < n
  BY <1>1, <1>c
<1>3. \A m \in Items(ms) : ms[m].id # 0
  BY <1>0, <1>1, <1>c
<1>4. \A m, l \in 1..Len(ms) : ms[m].id = ms[l].id /\ ms[m].id # 0 => m = l
  BY <1>1, <1>c
<1>5. IdsOK(ms, n)
  BY <1>2, <1>3, <1>4 DEF IdsOK
<1>6. \A m \in Items(ms) : Where(ms, ms[m].id) = m
  BY <1>5, WhereIs
<1>7. \A k \in Items(ls) : Where(ls, ls[k].id) = k
  BY WhereIs
<1> QED BY <1>0, <1>5, <1>6, <1>7, <1>c

\* A deletion from a tidy list keeps the details of the tasks that stay.
LEMMA DeletesAreLocal ==
  ASSUME NEW ls \in Seq(ListLines), NEW n, IdsOK(ls, n), NEW i \in Items(ls)
  PROVE  LET ms == DeleteChecklistItem(ls, i)
         IN  /\ ms \in Seq(ListLines) /\ IdsOK(ms, n)
             /\ Tidy(ls) => DetailKept(ls, ms)
<1> DEFINE e == DetailEnd(ls, i)
           t == e - i + 1
           N == Len(ls)
           ms == Without(ls, i, e)
           F == [m \in 1..Len(ms) |-> IF m < i THEN m ELSE m + t]
<1>0. /\ i \in Int /\ 1 <= i /\ i <= N /\ i \in 1..N /\ N \in Int /\ ls[i].kind = "item" /\ ls[i].d \in Nat
  BY ItemsAre
<1>1. DetailIs(ls, i, e)
  BY <1>0, DetailEndIs
<1> HIDE DEF e
<1>2. /\ e \in i..N
      /\ \A k \in i+1..e : ls[k].kind = "blank" \/ (ls[k].kind = "prose" /\ ls[k].d > ls[i].d)
      /\ DetailStops(ls, e, ls[i].d)
  BY <1>0, <1>1, DetailMeans
<1>3. e \in Int /\ i <= e /\ e <= N /\ t \in Int /\ t > 0 /\ i + t = e + 1
  BY <1>0, <1>2
<1>4. /\ ms \in Seq(ListLines) /\ Len(ms) = N - t
      /\ \A k \in 1..i-1 : ms[k] = ls[k]
      /\ \A k \in i..N-t : ms[k] = ls[k + t]
  <2>1. i <= e + 1
    BY <1>0, <1>3
  <2> QED BY <1>0, <1>3, <2>1, WithoutIs
<1> HIDE DEF ms, N
<1>5. \A m \in 1..Len(ms) : /\ F[m] = (IF m < i THEN m ELSE m + t)
                            /\ F[m] \in 1..N /\ ms[m] = ls[F[m]]
  <2> SUFFICES ASSUME NEW m \in 1..Len(ms)
               PROVE  F[m] = (IF m < i THEN m ELSE m + t) /\ F[m] \in 1..N /\ ms[m] = ls[F[m]]
    OBVIOUS
  <2>0. m \in Int /\ 1 <= m /\ m <= N - t
    BY <1>0, <1>3, <1>4
  <2>1. F[m] = (IF m < i THEN m ELSE m + t)
    OBVIOUS
  <2> HIDE DEF F
  <2>2. CASE m < i
    <3>1. m \in 1..i-1 /\ F[m] = m /\ m \in 1..N
      BY <1>0, <1>3, <2>0, <2>1, <2>2
    <3> QED BY <1>4, <2>1, <3>1
  <2>3. CASE i <= m
    <3>1. m \in i..N-t /\ F[m] = m + t /\ m + t \in 1..N
      BY <1>0, <1>3, <2>0, <2>1, <2>3
    <3> QED BY <1>4, <2>1, <3>1
  <2> QED BY <1>0, <2>0, <2>2, <2>3
<1>6. \A m, l \in 1..Len(ms) : F[m] = F[l] => m = l
  <2> HIDE DEF F
  <2> SUFFICES ASSUME NEW m \in 1..Len(ms), NEW l \in 1..Len(ms), F[m] = F[l] PROVE m = l
    OBVIOUS
  <2>1. m \in Int /\ l \in Int
    BY <1>0, <1>3, <1>4
  <2>2. F[m] = (IF m < i THEN m ELSE m + t) /\ F[l] = (IF l < i THEN l ELSE l + t)
    BY <1>5
  <2>3. (IF m < i THEN m ELSE m + t) = (IF l < i THEN l ELSE l + t)
    BY <2>2
  <2> QED BY <1>0, <1>3, <2>1, <2>3
<1> HIDE DEF F
<1>7. \A m \in Items(ms) : m \in 1..Len(ms) /\ F[m] \in Items(ls)
  <2> SUFFICES ASSUME NEW m \in Items(ms) PROVE m \in 1..Len(ms) /\ F[m] \in Items(ls)
    OBVIOUS
  <2>1. m \in 1..Len(ms) /\ ms[m].kind = "item"
    BY <1>4, ItemsAre
  <2>2. F[m] \in 1..Len(ls) /\ ls[F[m]].kind = "item"
    BY <1>5, <2>1 DEF N
  <2> QED BY <2>1, <2>2, LineIs
<1>8. IdsOK(ms, n) /\ \A m \in Items(ms) : Where(ms, ms[m].id) = m /\ Where(ls, ms[m].id) = F[m]
  <2>1. \A m \in 1..Len(ms) : F[m] \in 1..Len(ls) /\ ms[m].id = ls[F[m]].id /\ (m \in Items(ms) => F[m] \in Items(ls))
    BY <1>5, <1>7 DEF N
  <2>2. ComesFrom(ls, ms, F)
    BY <1>6, <2>1 DEF ComesFrom
  <2> QED BY <1>4, <2>2, IdsComeFrom
<1>9. ASSUME Tidy(ls), NEW m \in Items(ms) PROVE Folded(ms, m) = Folded(ls, F[m])
  <2> DEFINE k == F[m]
             f == DetailEnd(ls, k)
  <2>0. k \in Items(ls) /\ m \in Int /\ m \in 1..Len(ms) /\ k = (IF m < i THEN m ELSE m + t)
    <3>1. m \in 1..Len(ms) /\ k \in Items(ls)
      BY <1>7
    <3>2. k = (IF m < i THEN m ELSE m + t)
      BY <1>5, <3>1
    <3> QED BY <3>1, <3>2, <1>3, <1>4
  <2>1. k \in Int /\ 1 <= k /\ k <= N /\ k \in 1..Len(ls) /\ ls[k].kind = "item" /\ ls[k].d \in Nat
    <3>1. k \in 1..Len(ls) /\ ls[k].kind = "item" /\ ls[k].d \in Nat
      BY <2>0, ItemsAre
    <3> QED BY <1>0, <3>1 DEF N
  <2> HIDE DEF k
  <2>2. CASE i <= m
    <3>1. k = m + t /\ k + (0 - t) = m /\ 0 - t \in Int /\ 1 <= m
      BY <1>0, <1>3, <1>4, <2>0, <2>2
    <3> DEFINE u == 0 - t
    <3>2. \A q \in k..N : ms[q + u] = ls[q]
      <4> SUFFICES ASSUME NEW q \in k..N PROVE ms[q + u] = ls[q]
        OBVIOUS
      <4>1. q + u \in i..N-t /\ (q + u) + t = q
        BY <1>0, <1>3, <2>0, <2>2, <3>1
      <4> QED BY <1>4, <4>1
    <3>3. Len(ms) = Len(ls) + u /\ 1 <= k + u /\ u \in Int /\ k + u = m
      BY <1>0, <1>3, <1>4, <3>1 DEF N
    <3>4. \A q \in k..Len(ls) : ms[q + u] = ls[q]
      BY <3>2 DEF N
    <3> HIDE DEF u, t
    <3>5. Folded(ms, k + u) = Folded(ls, k)
      BY <1>4, <2>0, <3>3, <3>4, FoldTail
    <3> QED BY <3>3, <3>5 DEF k
  <2>3. CASE m < i
    <3>1. k = m /\ k < i
      BY <1>0, <2>0, <2>3
    <3>2. DetailIs(ls, k, f)
      BY <2>1, DetailEndIs
    <3> HIDE DEF f
    <3>3. /\ f \in k..N
          /\ \A q \in k+1..f : ls[q].kind = "blank" \/ (ls[q].kind = "prose" /\ ls[q].d > ls[k].d)
          /\ DetailStops(ls, f, ls[k].d)
      BY <2>1, <3>2, DetailMeans DEF N
    <3>4. PICK s \in f+1..N+1 : /\ \A q \in f+1..s-1 : ls[q].kind = "blank"
                                /\ s <= N => ls[s].kind # "blank" /\ (ls[s].kind = "item" \/ ls[s].d <= ls[k].d)
      BY <3>3 DEF DetailStops, N
    <3>5. f \in Int /\ k <= f /\ f <= N /\ s \in Int /\ f < s /\ s <= N + 1
      BY <1>0, <2>1, <3>3, <3>4
    <3>6. f < i
      <4> SUFFICES ASSUME i <= f PROVE FALSE
        BY <1>0, <3>5
      <4>1. i \in k+1..f
        BY <1>0, <2>1, <3>1, <3>5
      <4> QED BY <1>0, <3>3, <4>1
    <3>7. s <= i
      <4> SUFFICES ASSUME i < s PROVE FALSE
        BY <1>0, <3>5
      <4>1. i \in f+1..s-1
        BY <1>0, <3>5, <3>6
      <4> QED BY <1>0, <3>4, <4>1
    <3>8. \A q \in f+1..s-1 : ms[q].kind = "blank"
      <4> SUFFICES ASSUME NEW q \in f+1..s-1 PROVE ms[q].kind = "blank"
        OBVIOUS
      <4>1. q \in 1..i-1
        BY <1>0, <2>1, <3>5, <3>7
      <4> QED BY <1>4, <3>4, <4>1
    <3>9. DetailStops(ms, f, ls[k].d)
      <4>1. CASE s < i
        <5>1. s \in 1..i-1 /\ s <= N /\ s \in f+1..Len(ms)+1
          <6>1. s \in Int /\ 1 <= s /\ s <= N /\ f < s /\ s <= (N - t) + 1
            BY <1>0, <1>3, <2>1, <3>5, <4>1
          <6> QED BY <1>0, <1>4, <3>5, <4>1, <6>1
        <5>2. ms[s].kind # "blank" /\ (ms[s].kind = "item" \/ ms[s].d <= ls[k].d)
          BY <1>4, <3>4, <5>1
        <5> QED BY <3>8, <5>1, <5>2 DEF DetailStops
      <4>2. CASE s = i
        <5>1. PICK y \in e+1..N+1 : /\ \A q \in e+1..y-1 : ls[q].kind = "blank"
                                    /\ y <= N => ls[y].kind # "blank" /\ (ls[y].kind = "item" \/ ls[y].d <= ls[i].d)
          BY <1>2 DEF DetailStops, N
        <5>2. y \in Int /\ e < y /\ y <= N + 1
          BY <1>0, <1>3, <5>1
        <5> DEFINE u == y - t
        <5>3. u \in Int /\ f < u /\ u <= (N - t) + 1 /\ u \in f+1..Len(ms)+1
          <6>1. u \in Int /\ f < u /\ u <= (N - t) + 1
            BY <1>0, <1>3, <3>5, <3>6, <5>2
          <6>2. Len(ms) = N - t
            BY <1>4
          <6> QED BY <3>5, <6>1, <6>2
        <5>4. \A q \in f+1..u-1 : ms[q].kind = "blank"
          <6> SUFFICES ASSUME NEW q \in f+1..u-1 PROVE ms[q].kind = "blank"
            OBVIOUS
          <6>1. CASE q < i
            <7>1. q \in f+1..s-1
              BY <1>0, <3>5, <4>2, <6>1
            <7> QED BY <3>8, <7>1
          <6>2. CASE i <= q
            <7>1. q + t \in e+1..y-1 /\ q \in i..N-t
              BY <1>0, <1>3, <3>5, <5>2, <6>2
            <7> QED BY <1>4, <5>1, <7>1
          <6> QED BY <1>0, <3>5, <6>1, <6>2
        <5>5. ASSUME u <= Len(ms) PROVE ms[u].kind # "blank" /\ (ms[u].kind = "item" \/ ms[u].d <= ls[k].d)
          <6>1. y <= N /\ u \in i..N-t /\ u + t = y /\ y \in e+1..N /\ y \in 1..N
            BY <1>0, <1>3, <1>4, <5>2, <5>5
          <6>2. ms[u] = ls[y]
            BY <1>4, <6>1
          <6>3. ls[y].kind = "item" \/ ls[y].kind = "prose"
            <7>1. ls[y].kind \in {"item", "prose", "blank"}
              BY <6>1, LineIs DEF N
            <7> QED BY <5>1, <6>1, <7>1
          <6>4. ASSUME ls[y].kind = "prose" PROVE ls[y].d <= ls[k].d
            <7>1. ls[y].d <= ls[i].d
              BY <5>1, <6>1, <6>4
            <7>2. e \in i..Len(ls) /\ y \in e+1..Len(ls)
              BY <1>2, <6>1 DEF N
            <7>3. \A q \in i+1..e : ls[q].kind = "blank" \/ ls[q].d > ls[i].d
              BY <1>2
            <7>4. \A q \in DetailEnd(ls, k)+1..i-1 : ls[q].kind = "blank"
              BY <3>4, <4>2 DEF f
            <7> QED BY <1>9, <2>0, <3>1, <5>1, <6>4, <7>1, <7>2, <7>3, <7>4, SeamProse
          <6> QED BY <5>1, <6>1, <6>2, <6>3, <6>4
        <5> HIDE DEF u
        <5> QED BY <5>3, <5>4, <5>5 DEF DetailStops
      <4> QED BY <1>0, <3>5, <3>7, <4>1, <4>2
    <3>10. Folded(ms, k) = Folded(ls, k)
      <4>1. i - 1 \in Int /\ DetailEnd(ls, k) <= i - 1
        BY <1>0, <3>5, <3>6 DEF f
      <4>2. i - 1 <= Len(ms) /\ i - 1 <= Len(ls)
        BY <1>0, <1>3, <1>4 DEF N
      <4>3. DetailStops(ms, DetailEnd(ls, k), ls[k].d)
        BY <3>9 DEF f
      <4> QED BY <1>4, <2>0, <4>1, <4>2, <4>3, FoldHead
    <3> QED BY <3>1, <3>10 DEF k
  <2> QED BY <1>0, <2>0, <2>2, <2>3
<1>10. ASSUME Tidy(ls) PROVE DetailKept(ls, ms)
  <2> SUFFICES ASSUME NEW x \in IdsOf(ls) \cap IdsOf(ms) PROVE Folded(ms, Where(ms, x)) = Folded(ls, Where(ls, x))
    BY DEF DetailKept
  <2>1. PICK m \in Items(ms) : x = ms[m].id
    BY DEF IdsOf
  <2> QED BY <1>8, <1>9, <1>10, <2>1
<1>11. DeleteChecklistItem(ls, i) = ms
  BY DEF DeleteChecklistItem, ms, e
<1> QED BY <1>4, <1>8, <1>10, <1>11

-----------------------------------------------------------------------------
(* Additions *)

\* The line a new task is written to: after at, where what stands before it stops.
AppendedAt(ls, ms, at, id, text) ==
  /\ at \in 0..Len(ls) /\ at + 1 \in Items(ms) /\ ms[at + 1].id = id /\ ms[at + 1].text = text
  /\ DetailStops(ms, at + 1, ms[at + 1].d)
  /\ \A q \in 1..at : ms[q] = ls[q]
  /\ \/ Items(ls) = {} /\ Len(ms) = at + 2 /\ ms[at + 2].kind = "blank" /\ ms[at + 2].id = 0
     \/ /\ Len(ms) = Len(ls) + 1 /\ \A q \in at+2..Len(ls)+1 : ms[q] = ls[q - 1]
        /\ at >= 1 /\ ls[at].kind # "blank"
        /\ \A k \in Items(ls) : k <= at /\ DetailEnd(ls, k) <= at

\* The lines an addition writes.
LEMMA NewLineIs ==
  ASSUME NEW text \in Texts, NEW id \in Nat, NEW indent \in Nat
  PROVE  LET it == [kind |-> "item", d |-> indent, text |-> text, mark |-> " ", id |-> id]
             bl == [kind |-> "blank", d |-> 0, text |-> "", mark |-> "", id |-> 0]
         IN  /\ it \in ListLines /\ it.kind = "item" /\ it.id = id /\ it.text = text /\ it.d = indent
             /\ bl \in ListLines /\ bl.kind = "blank" /\ bl.id = 0
BY DEF ListLines, ListTexts, ListMarks

\* An addition to a list without items.
LEMMA AppendToNone ==
  ASSUME NEW ls \in Seq(ListLines), NEW id \in Nat, NEW text \in Texts, Items(ls) = {}
  PROVE  LET ms == AppendChecklistItem(ls, text, id)
         IN  ms \in Seq(ListLines) /\ \E at : AppendedAt(ls, ms, at, id, text)
<1> DEFINE it == [kind |-> "item", d |-> 0, text |-> text, mark |-> " ", id |-> id]
           bl == [kind |-> "blank", d |-> 0, text |-> "", mark |-> "", id |-> 0]
           at == IF Len(ls) > 0 /\ ls[Len(ls)].kind = "blank" THEN Len(ls) - 1 ELSE Len(ls)
           p == SubSeq(ls, 1, at)
           block == <<it, bl>>
           ms == p \o block
<1>1. /\ it \in ListLines /\ it.kind = "item" /\ it.id = id /\ it.text = text /\ it.d = 0
      /\ bl \in ListLines /\ bl.kind = "blank" /\ bl.id = 0
  BY NewLineIs
<1>2. AppendChecklistItem(ls, text, id) = ms
  BY DEF AppendChecklistItem
<1> HIDE DEF it, bl
<1>3. at \in 0..Len(ls) /\ Len(ls) \in Nat /\ at \in Int /\ at + 1 \in Int
  <2>1. Len(ls) \in Nat
    OBVIOUS
  <2> QED BY <2>1
<1> HIDE DEF at
<1>4. /\ p \in Seq(ListLines) /\ Len(p) = at /\ \A q \in 1..at : p[q] = ls[q]
  <2>1. 1 \in Int /\ 1 <= 1 /\ 1 <= at + 1 /\ at <= Len(ls)
    BY <1>3
  <2>2. p \in Seq(ListLines) /\ Len(p) = at - 1 + 1 /\ \A q \in 1..(at - 1 + 1) : p[q] = ls[1 + q - 1]
    BY <1>3, <2>1, PieceIs
  <2> HIDE DEF p
  <2>3. at - 1 + 1 = at /\ \A q \in 1..at : 1 + q - 1 = q
    BY <1>3
  <2> QED BY <2>2, <2>3
<1> HIDE DEF p
<1>5. block \in Seq(ListLines) /\ Len(block) = 2 /\ block[1] = it /\ block[2] = bl
  BY <1>1
<1> HIDE DEF block
<1>6. /\ ms \in Seq(ListLines) /\ Len(ms) = at + 2 /\ (\A q \in 1..at : ms[q] = ls[q])
      /\ ms[at + 1] = it /\ ms[at + 2] = bl
  <2>1. ms \in Seq(ListLines) /\ Len(ms) = Len(p) + Len(block)
    BY <1>4, <1>5, ConcatProperties
  <2>2. \A q \in 1..Len(p)+Len(block) : ms[q] = IF q <= Len(p) THEN p[q] ELSE block[q - Len(p)]
    BY <1>4, <1>5, ConcatProperties
  <2> HIDE DEF ms
  <2>3. \A q \in 1..at+2 : ms[q] = IF q <= at THEN p[q] ELSE block[q - at]
    BY <1>4, <1>5, <2>2
  <2>4. \A q \in 1..at : q \in 1..at+2 /\ q <= at
    BY <1>3
  <2>5. /\ at + 1 \in 1..at+2 /\ ~(at + 1 <= at) /\ (at + 1) - at = 1
        /\ at + 2 \in 1..at+2 /\ ~(at + 2 <= at) /\ (at + 2) - at = 2
    BY <1>3
  <2>6. \A q \in 1..at : ms[q] = ls[q]
    BY <1>4, <2>3, <2>4
  <2>7. ms[at + 1] = it
    BY <1>5, <2>3, <2>5
  <2>8. ms[at + 2] = bl
    BY <1>5, <2>3, <2>5
  <2> QED BY <1>4, <1>5, <2>1, <2>6, <2>7, <2>8
<1> HIDE DEF ms
<1>7. at + 1 \in 1..Len(ms) /\ at + 2 \in 1..Len(ms)
  BY <1>3, <1>6
<1>8. at + 1 \in Items(ms)
  BY <1>1, <1>6, <1>7, LineIs
<1>9. DetailStops(ms, at + 1, ms[at + 1].d)
  <2> DEFINE s == at + 3
  <2>1. s \in (at + 1)+1..Len(ms)+1 /\ ~(s <= Len(ms)) /\ \A k \in (at + 1)+1..s-1 : k = at + 2
    BY <1>3, <1>6
  <2>2. \A k \in (at + 1)+1..s-1 : ms[k].kind = "blank"
    BY <1>1, <1>6, <2>1
  <2> HIDE DEF s
  <2> QED BY <2>1, <2>2 DEF DetailStops
<1>10. AppendedAt(ls, ms, at, id, text)
  BY <1>1, <1>3, <1>6, <1>8, <1>9 DEF AppendedAt
<1> QED BY <1>2, <1>6, <1>10

\* An addition to a list with items.
LEMMA AppendToSome ==
  ASSUME NEW ls \in Seq(ListLines), NEW id \in Nat, NEW text \in Texts, Items(ls) # {}
  PROVE  LET ms == AppendChecklistItem(ls, text, id)
         IN  ms \in Seq(ListLines) /\ \E at : AppendedAt(ls, ms, at, id, text)
<1> DEFINE n == Len(ls)
           last == MaxLine(Items(ls))
           indent == ls[MinLine(Items(ls))].d
           past == DetailEnd(ls, last)
           stop == {j \in past+1..n : ls[j].kind # "blank" /\ ls[j].d <= indent}
           upTo == IF stop = {} THEN n ELSE MinLine(stop) - 1
           S == {j \in 1..upTo : ls[j].kind # "blank"}
           at == MaxLine(S)
           it == [kind |-> "item", d |-> indent, text |-> text, mark |-> " ", id |-> id]
           ms == InsertedAfter(ls, at, <<it>>)
<1>0. /\ Items(ls) \subseteq 1..n /\ n \in Nat
      /\ \A k \in Items(ls) : k \in Nat /\ k \in 1..Len(ls) /\ ls[k].kind = "item" /\ ls[k].d \in Nat
  BY ItemsAre
<1>1. last \in Items(ls) /\ \A k \in Items(ls) : k <= last
  <2>1. Items(ls) \in SUBSET (0..n)
    BY <1>0
  <2> QED BY <1>0, <2>1, LastLine
<1>2. indent \in Nat
  <2>1. Items(ls) \in SUBSET Nat
    BY <1>0
  <2>2. MinLine(Items(ls)) \in Items(ls)
    BY <2>1, FirstLine
  <2> QED BY <1>0, <2>2
<1>3. at = AppendAt(ls, indent)
  BY DEF AppendAt
<1>4. AppendChecklistItem(ls, text, id) = ms
  BY <1>3 DEF AppendChecklistItem
<1> HIDE DEF last, indent
<1>5. it \in ListLines /\ it.kind = "item" /\ it.id = id /\ it.text = text /\ it.d = indent
  BY <1>2, NewLineIs
<1> HIDE DEF it
<1>6. DetailIs(ls, last, past) /\ last \in 1..Len(ls) /\ ls[last].kind = "item" /\ last \in Int /\ 1 <= last
  <2>1. last \in 1..Len(ls) /\ ls[last].kind = "item" /\ last \in Int /\ 1 <= last
    BY <1>0, <1>1
  <2> QED BY <2>1, DetailEndIs
<1> HIDE DEF past
<1>7. past \in last..n /\ (past = last \/ ls[past].kind = "prose")
  BY <1>6, DetailMeans
<1>8. past \in Int /\ last <= past /\ past <= n /\ n \in Int /\ ls[past].kind # "blank"
  BY <1>0, <1>6, <1>7
<1> HIDE DEF n
<1>9. /\ upTo \in Int /\ past <= upTo /\ upTo <= n
      /\ \A q \in past+1..upTo : ls[q].kind = "blank" \/ ~(ls[q].d <= indent)
      /\ upTo < n => ls[upTo + 1].kind # "blank" /\ ls[upTo + 1].d <= indent
  <2>1. CASE stop = {}
    <3>1. upTo = n
      BY <2>1
    <3> QED BY <1>8, <2>1, <3>1
  <2>2. CASE stop # {}
    <3> DEFINE m == MinLine(stop)
    <3>1. stop \in SUBSET Nat
      BY <1>6, <1>8
    <3>2. m \in stop /\ \A y \in stop : m <= y
      BY <2>2, <3>1, FirstLine
    <3> HIDE DEF m
    <3>3. m \in past+1..n /\ ls[m].kind # "blank" /\ ls[m].d <= indent
      BY <3>2
    <3>4. upTo = m - 1
      BY <2>2 DEF m
    <3> HIDE DEF upTo
    <3>5. upTo \in Int /\ past <= upTo /\ upTo <= n /\ upTo + 1 = m /\ m \in Int
      BY <1>8, <3>3, <3>4
    <3>6. ASSUME NEW q \in past+1..upTo, ~(ls[q].kind = "blank"), ls[q].d <= indent PROVE FALSE
      <4>1. q \in Int /\ q < m /\ q \in past+1..n
        BY <1>8, <3>5
      <4>2. q \in stop
        BY <3>6, <4>1
      <4> QED BY <3>2, <3>5, <4>1, <4>2
    <3> QED BY <3>3, <3>5, <3>6
  <2> QED BY <2>1, <2>2
<1> HIDE DEF upTo
<1>10. /\ at \in Int /\ past <= at /\ at <= upTo /\ ls[at].kind # "blank"
       /\ \A q \in at+1..upTo : ls[q].kind = "blank"
  <2>0. past \in S
    BY <1>6, <1>8, <1>9
  <2>1. upTo \in Nat /\ S \in SUBSET (0..upTo) /\ S # {}
    BY <1>6, <1>8, <1>9, <2>0
  <2>2. at \in S /\ \A y \in S : y <= at
    BY <2>1, LastLine
  <2> HIDE DEF at
  <2>3. at \in 1..upTo /\ ls[at].kind # "blank" /\ past <= at
    BY <2>0, <2>2
  <2>4. at \in Int /\ past <= at /\ at <= upTo
    BY <1>8, <1>9, <2>3
  <2>5. ASSUME NEW q \in at+1..upTo, ls[q].kind # "blank" PROVE FALSE
    <3>1. q \in 1..upTo /\ q \in Int /\ at < q
      BY <1>6, <1>8, <1>9, <2>4
    <3>2. q \in S
      BY <2>5, <3>1
    <3> QED BY <2>2, <2>4, <3>1, <3>2
  <2> QED BY <2>3, <2>4, <2>5
<1> HIDE DEF at, S
<1>11. at \in 0..Len(ls) /\ at >= 1 /\ at <= n /\ at \in 1..n
  <2>1. 1 <= at /\ at <= n
    BY <1>6, <1>8, <1>9, <1>10
  <2> QED BY <1>10, <1>8, <2>1 DEF n
<1>12. /\ ms \in Seq(ListLines) /\ Len(ms) = n + 1
       /\ (\A q \in 1..at : ms[q] = ls[q]) /\ ms[at + 1] = it
       /\ \A q \in at+2..n+1 : ms[q] = ls[q - 1]
  <2> DEFINE block == <<it>>
  <2>1. block \in Seq(ListLines) /\ Len(block) = 1 /\ block[1] = it
    BY <1>5
  <2> HIDE DEF block
  <2>2. /\ ms \in Seq(ListLines) /\ Len(ms) = Len(ls) + Len(block)
        /\ \A k \in 1..at : ms[k] = ls[k]
        /\ \A k \in at+1..at+Len(block) : ms[k] = block[k - at]
        /\ \A k \in at+Len(block)+1..Len(ls)+Len(block) : ms[k] = ls[k - Len(block)]
    BY <1>11, <2>1, InsertedIs DEF block
  <2> HIDE DEF ms
  <2>3. at + 1 \in at+1..at+1 /\ (at + 1) - at = 1 /\ at+1+1 = at+2
    BY <1>10
  <2>4. ms[at + 1] = it
    BY <2>1, <2>2, <2>3
  <2>5. \A q \in at+2..n+1 : ms[q] = ls[q - 1]
    BY <2>1, <2>2, <2>3 DEF n
  <2> QED BY <2>1, <2>2, <2>4, <2>5 DEF n
<1> HIDE DEF ms
<1>13. at + 1 \in 1..Len(ms) /\ at + 1 \in Items(ms)
  <2>1. at + 1 \in 1..Len(ms)
    BY <1>8, <1>10, <1>11, <1>12
  <2> QED BY <1>5, <1>12, <2>1, LineIs
<1>14. DetailStops(ms, at + 1, ms[at + 1].d)
  <2> DEFINE s == upTo + 2
  <2>1. s \in (at + 1)+1..Len(ms)+1
    BY <1>8, <1>9, <1>10, <1>12
  <2>2. ASSUME NEW q \in (at + 1)+1..s-1 PROVE ms[q].kind = "blank"
    <3>1. q \in at+2..n+1 /\ q - 1 \in at+1..upTo
      BY <1>8, <1>9, <1>10
    <3> QED BY <1>10, <1>12, <3>1
  <2>3. ASSUME s <= Len(ms) PROVE ms[s].kind # "blank" /\ ms[s].d <= indent
    <3>1. s \in at+2..n+1 /\ s - 1 = upTo + 1 /\ upTo < n
      BY <1>8, <1>9, <1>10, <1>12, <2>3
    <3>2. ms[s] = ls[upTo + 1]
      BY <1>12, <3>1
    <3> QED BY <1>9, <3>1, <3>2
  <2>4. ms[at + 1].d = indent
    BY <1>5, <1>12
  <2> HIDE DEF s
  <2> QED BY <2>1, <2>2, <2>3, <2>4 DEF DetailStops
<1>15. \A k \in Items(ls) : k <= at /\ DetailEnd(ls, k) <= at
  <2> SUFFICES ASSUME NEW k \in Items(ls) PROVE k <= at /\ DetailEnd(ls, k) <= at
    OBVIOUS
  <2>1. k \in Int /\ k <= last /\ k \in 1..Len(ls)
    BY <1>0, <1>1
  <2>2. CASE k = last
    BY <1>8, <1>10, <2>1, <2>2 DEF past
  <2>3. CASE k < last
    <3> DEFINE f == DetailEnd(ls, k)
    <3>1. DetailIs(ls, k, f)
      BY <2>1, DetailEndIs
    <3> HIDE DEF f
    <3>2. f \in k..Len(ls) /\ \A q \in k+1..f : ls[q].kind = "blank" \/ (ls[q].kind = "prose" /\ ls[q].d > ls[k].d)
      BY <2>1, <3>1, DetailMeans
    <3>3. f \in Int /\ k <= f
      BY <2>1, <3>2
    <3>4. f < last
      <4> SUFFICES ASSUME last <= f PROVE FALSE
        BY <1>6, <3>3
      <4>1. last \in k+1..f
        BY <1>6, <2>1, <2>3, <3>3
      <4> QED BY <1>6, <3>2, <4>1
    <3>5. f <= at
      BY <1>6, <1>8, <1>10, <3>3, <3>4
    <3> QED BY <1>6, <1>8, <1>10, <2>1, <3>5 DEF f
  <2> QED BY <1>6, <2>1, <2>2, <2>3
<1>16. AppendedAt(ls, ms, at, id, text)
  BY <1>5, <1>10, <1>11, <1>12, <1>13, <1>14, <1>15 DEF AppendedAt, n
<1> QED BY <1>4, <1>12, <1>16

\* An addition to any list.
LEMMA AppendIs ==
  ASSUME NEW ls \in Seq(ListLines), NEW id \in Nat, NEW text \in Texts
  PROVE  /\ AppendChecklistItem(ls, text, id) \in Seq(ListLines)
         /\ \E at : AppendedAt(ls, AppendChecklistItem(ls, text, id), at, id, text)
<1>1. CASE Items(ls) = {}
  BY <1>1, AppendToNone
<1>2. CASE Items(ls) # {}
  BY <1>2, AppendToSome
<1> QED BY <1>1, <1>2

\* An addition keeps every task's detail, in any list, and the new task arrives bare.
LEMMA AppendsAreLocal ==
  ASSUME NEW ls \in Seq(ListLines), NEW n \in Nat, n > 0, IdsOK(ls, n), NEW text \in Texts
  PROVE  LET ms == AppendChecklistItem(ls, text, n)
         IN  /\ ms \in Seq(ListLines) /\ IdsOK(ms, n + 1) /\ DetailKept(ls, ms)
             /\ Len(Folded(ms, Where(ms, n))) = 1
<1> DEFINE ms == AppendChecklistItem(ls, text, n)
           N == Len(ls)
<1>1. ms \in Seq(ListLines)
  BY AppendIs
<1>2. PICK at : AppendedAt(ls, ms, at, n, text)
  BY AppendIs
<1> HIDE DEF ms
<1>3. /\ at \in 0..Len(ls) /\ at + 1 \in Items(ms) /\ ms[at + 1].id = n
      /\ DetailStops(ms, at + 1, ms[at + 1].d)
      /\ \A q \in 1..at : ms[q] = ls[q]
      /\ \/ Items(ls) = {} /\ Len(ms) = at + 2 /\ ms[at + 2].kind = "blank" /\ ms[at + 2].id = 0
         \/ /\ Len(ms) = Len(ls) + 1 /\ \A q \in at+2..Len(ls)+1 : ms[q] = ls[q - 1]
            /\ at >= 1 /\ ls[at].kind # "blank"
            /\ \A k \in Items(ls) : k <= at /\ DetailEnd(ls, k) <= at
  BY <1>2 DEF AppendedAt
<1>4. at \in Int /\ 0 <= at /\ at <= N /\ N \in Int /\ Len(ms) \in Int
  <2>1. N \in Nat /\ Len(ms) \in Nat
    BY <1>1
  <2> QED BY <1>3, <2>1
<1>5. /\ \A k \in 1..N : ls[k].id < n
      /\ \A k \in Items(ls) : ls[k].id # 0
      /\ \A k, l \in 1..N : ls[k].id = ls[l].id /\ ls[k].id # 0 => k = l
      /\ \A k \in 1..N : ls[k].id \in Nat /\ (k \in Items(ls) <=> ls[k].kind = "item")
  BY LineIs DEF IdsOK
<1>6. /\ \A m \in 1..Len(ms) : ms[m].id \in Nat /\ (m \in Items(ms) <=> ms[m].kind = "item")
      /\ \A m \in Items(ms) : m \in 1..Len(ms)
  BY <1>1, LineIs, ItemsAre
\* Every line but the new one, and a blank after it, was in the list.
<1> DEFINE from(m) == IF m <= at THEN m ELSE m - 1
           \* the lines that were there
           old(m) == m \in 1..Len(ms) /\ m # at + 1 /\ ms[m].id # 0
<1>7. ASSUME NEW m, old(m) PROVE m \in Int /\ from(m) \in 1..N /\ ms[m] = ls[from(m)]
  <2>0. m \in 1..Len(ms) /\ m # at + 1 /\ ms[m].id # 0 /\ m \in Int
    BY <1>4, <1>7
  <2>1. CASE m <= at
    <3>1. m \in 1..at /\ m \in 1..N /\ from(m) = m
      BY <1>4, <2>0, <2>1
    <3> QED BY <1>3, <2>0, <3>1
  <2>2. CASE m > at
    <3>1. ~(Items(ls) = {} /\ Len(ms) = at + 2 /\ ms[at + 2].kind = "blank" /\ ms[at + 2].id = 0)
      <4> SUFFICES ASSUME Len(ms) = at + 2, ms[at + 2].id = 0 PROVE FALSE
        OBVIOUS
      <4>1. m = at + 2
        BY <1>4, <2>0, <2>2
      <4> QED BY <2>0, <4>1
    <3>2. Len(ms) = Len(ls) + 1 /\ \A q \in at+2..Len(ls)+1 : ms[q] = ls[q - 1]
      BY <1>3, <3>1
    <3>3. m \in at+2..Len(ls)+1 /\ from(m) = m - 1 /\ m - 1 \in 1..N
      BY <1>4, <2>0, <2>2, <3>2
    <3> QED BY <2>0, <3>2, <3>3
  <2> QED BY <1>4, <2>0, <2>1, <2>2
<1>8. ASSUME NEW m, old(m), NEW l, old(l), from(m) = from(l) PROVE m = l
  <2>1. m \in Int /\ l \in Int /\ m # at + 1 /\ l # at + 1
    BY <1>7, <1>8
  <2> QED BY <1>4, <1>8, <2>1
<1>9. at + 1 \in 1..Len(ms)
  BY <1>3, <1>6
<1> HIDE DEF from, N
<1>10. IdsOK(ms, n + 1)
  <2>1. ASSUME NEW m \in 1..Len(ms) PROVE ms[m].id < n + 1
    <3>1. CASE m = at + 1 \/ ms[m].id = 0
      BY <1>3, <3>1
    <3>2. CASE old(m)
      <4>1. ms[m].id < n /\ ms[m].id \in Nat
        BY <1>5, <1>6, <1>7, <3>2
      <4> QED BY <4>1
    <3> QED BY <3>1, <3>2
  <2>2. ASSUME NEW m \in Items(ms) PROVE ms[m].id # 0
    <3>1. m \in 1..Len(ms) /\ ms[m].kind = "item"
      BY <1>6
    <3>2. CASE m = at + 1
      BY <1>3, <3>2
    <3>3. CASE m # at + 1
      <4> SUFFICES ASSUME ms[m].id = 0 PROVE FALSE
        OBVIOUS
      <4>1. m \in Int /\ (m \in 1..at \/ m \in at+2..Len(ms))
        BY <1>4, <3>1, <3>3
      <4>2. ASSUME m \in 1..at PROVE FALSE
        <5>1. m \in 1..N /\ ms[m] = ls[m]
          BY <1>3, <1>4, <4>2
        <5> QED BY <1>5, <3>1, <5>1
      <4>3. ASSUME m \in at+2..Len(ms) PROVE FALSE
        <5>1. ~(Items(ls) = {} /\ Len(ms) = at + 2 /\ ms[at + 2].kind = "blank" /\ ms[at + 2].id = 0)
          <6> SUFFICES ASSUME Len(ms) = at + 2, ms[at + 2].kind = "blank" PROVE FALSE
            OBVIOUS
          <6>1. m = at + 2
            BY <1>4, <4>3
          <6> QED BY <3>1, <6>1
        <5>2. Len(ms) = Len(ls) + 1 /\ \A q \in at+2..Len(ls)+1 : ms[q] = ls[q - 1]
          BY <1>3, <5>1
        <5>3. m \in at+2..Len(ls)+1 /\ m - 1 \in 1..N
          BY <1>4, <4>3, <5>2 DEF N
        <5>4. ms[m] = ls[m - 1]
          BY <5>2, <5>3
        <5> QED BY <1>5, <3>1, <5>3, <5>4
      <4> QED BY <4>1, <4>2, <4>3
    <3> QED BY <3>2, <3>3
  <2>3. ASSUME NEW m \in 1..Len(ms), NEW l \in 1..Len(ms), ms[m].id = ms[l].id, ms[m].id # 0 PROVE m = l
    <3>1. \A h \in 1..Len(ms) : old(h) => ms[h].id < n /\ ms[h].id \in Nat
      BY <1>5, <1>6, <1>7
    <3>2. CASE m = at + 1
      <4>1. ~old(l)
        BY <1>3, <2>3, <3>1, <3>2
      <4> QED BY <2>3, <3>2, <4>1
    <3>3. CASE l = at + 1
      <4>1. ~old(m)
        BY <1>3, <2>3, <3>1, <3>3
      <4> QED BY <2>3, <3>3, <4>1
    <3>4. CASE m # at + 1 /\ l # at + 1
      <4>1. old(m) /\ old(l)
        BY <2>3, <3>4
      <4>2. from(m) \in 1..N /\ ms[m] = ls[from(m)] /\ from(l) \in 1..N /\ ms[l] = ls[from(l)]
        BY <1>7, <4>1
      <4>3. from(m) = from(l)
        BY <1>5, <2>3, <4>2
      <4> QED BY <1>8, <4>1, <4>3
    <3> QED BY <3>2, <3>3, <3>4
  <2> QED BY <2>1, <2>2, <2>3 DEF IdsOK
<1>11. /\ \A m \in Items(ms) : Where(ms, ms[m].id) = m
       /\ \A k \in Items(ls) : Where(ls, ls[k].id) = k
  <2>1. \A m \in Items(ms) : Where(ms, ms[m].id) = m
    BY <1>1, <1>10, WhereIs
  <2>2. \A k \in Items(ls) : Where(ls, ls[k].id) = k
    BY WhereIs
  <2> QED BY <2>1, <2>2
<1>12. ASSUME NEW k \in Items(ls) PROVE k \in Items(ms) /\ ms[k] = ls[k] /\ Folded(ms, k) = Folded(ls, k)
  <2> DEFINE e == DetailEnd(ls, k)
  <2>1. /\ Len(ms) = Len(ls) + 1 /\ at >= 1 /\ ls[at].kind # "blank" /\ k <= at /\ e <= at
    BY <1>3
  <2>2. k \in 1..Len(ls) /\ k \in Int /\ ls[k].kind = "item"
    <3>1. k \in 1..Len(ls) /\ k \in Nat /\ ls[k].kind = "item"
      BY ItemsAre
    <3> QED BY <3>1
  <2>3. DetailIs(ls, k, e)
    BY <2>2, DetailEndIs
  <2> HIDE DEF e
  <2>4. e \in k..Len(ls) /\ DetailStops(ls, e, ls[k].d)
    BY <2>2, <2>3, DetailMeans
  <2>5. PICK s \in e+1..N+1 : /\ \A q \in e+1..s-1 : ls[q].kind = "blank"
                              /\ s <= N => ls[s].kind # "blank" /\ (ls[s].kind = "item" \/ ls[s].d <= ls[k].d)
    BY <2>4 DEF DetailStops, N
  <2>6. e \in Int /\ 1 <= e /\ s \in Int /\ e < s /\ s <= N + 1 /\ Len(ms) = N + 1
    <3>1. e \in Int /\ k <= e /\ 1 <= k
      BY <2>2, <2>4
    <3>2. s \in Int /\ e < s /\ s <= N + 1
      <4>1. e + 1 \in Int /\ N + 1 \in Int /\ s \in e+1..N+1
        BY <1>4, <2>5, <3>1
      <4> HIDE DEF N
      <4> QED BY <3>1, <4>1
    <3>3. Len(ms) = N + 1
      BY <2>1 DEF N
    <3>4. 1 <= e
      <4> HIDE DEF N
      <4> QED BY <3>1, <2>2
    <3> QED BY <3>1, <3>2, <3>3, <3>4
  <2>7. DetailStops(ms, e, ls[k].d)
    <3>1. CASE s <= at
      <4>1. s \in 1..at /\ s <= N /\ s \in e+1..Len(ms)+1 /\ \A q \in e+1..s-1 : q \in 1..at
        BY <1>4, <2>6, <3>1
      <4>2. ms[s].kind # "blank" /\ (ms[s].kind = "item" \/ ms[s].d <= ls[k].d)
        BY <1>3, <2>5, <4>1
      <4>3. \A q \in e+1..s-1 : ms[q].kind = "blank"
        BY <1>3, <2>5, <4>1
      <4> QED BY <4>1, <4>2, <4>3 DEF DetailStops
    <3>2. CASE at < s
      <4>1. e = at
        <5> SUFFICES ASSUME e < at PROVE FALSE
          BY <1>4, <2>1, <2>6
        <5>1. at \in e+1..s-1
          BY <1>4, <2>6, <3>2
        <5> QED BY <2>1, <2>5, <5>1
      <4> DEFINE u == at + 1
      <4>2. u \in e+1..Len(ms)+1 /\ \A q \in e+1..u-1 : FALSE
        BY <1>4, <2>6, <4>1
      <4>3. ms[u].kind # "blank" /\ ms[u].kind = "item"
        BY <1>3, <1>6
      <4> HIDE DEF u
      <4> QED BY <4>2, <4>3 DEF DetailStops
    <3> QED BY <1>4, <2>6, <3>1, <3>2
  <2>8. at <= Len(ms) /\ at <= Len(ls) /\ k \in 1..at
    BY <1>4, <2>1, <2>2, <2>6 DEF N
  <2>9. k \in Items(ms) /\ Folded(ms, k) = Folded(ls, k)
    <3>1. DetailEnd(ls, k) <= at /\ DetailStops(ms, DetailEnd(ls, k), ls[k].d)
      BY <2>1, <2>7 DEF e
    <3> QED BY <1>1, <1>3, <1>4, <2>8, <3>1, FoldHead
  <2> QED BY <1>3, <2>8, <2>9
<1>13. DetailKept(ls, ms)
  <2> SUFFICES ASSUME NEW x \in IdsOf(ls) \cap IdsOf(ms) PROVE Folded(ms, Where(ms, x)) = Folded(ls, Where(ls, x))
    BY DEF DetailKept
  <2>1. PICK k \in Items(ls) : x = ls[k].id
    BY DEF IdsOf
  <2>2. Where(ls, x) = k /\ Where(ms, x) = k
    BY <1>11, <1>12, <2>1
  <2> QED BY <1>12, <2>2
<1>14. Len(Folded(ms, Where(ms, n))) = 1
  <2> DEFINE g == at + 1
  <2>1. Where(ms, n) = g
    BY <1>3, <1>11
  <2>2. g \in g..Len(ms) /\ (\A k \in g+1..g : FALSE) /\ g \in 1..Len(ms) /\ g \in Int /\ g - g + 1 = 1
    BY <1>4, <1>9
  <2>3. DetailStops(ms, g, ms[g].d)
    BY <1>3
  <2> HIDE DEF g
  <2>4. DetailIs(ms, g, g)
    BY <1>1, <2>2, <2>3, DetailMeans
  <2>5. g = DetailEnd(ms, g)
    BY <1>1, <2>2, <2>4, DetailEndIs
  <2>6. Folded(ms, g) = [k \in 1..1 |-> ms[g + k - 1].id]
    BY <2>2, <2>5 DEF Folded
  <2>7. Len(Folded(ms, g)) = 1
    BY <2>6
  <2> QED BY <2>1, <2>7
<1> QED BY <1>1, <1>10, <1>13, <1>14 DEF ms
-----------------------------------------------------------------------------
(* Lines rewritten in place, and the first document *)

\* A line rewritten in place stays the line it was.
Rewritten(ls, ms, i) ==
  /\ ms \in Seq(ListLines) /\ Len(ms) = Len(ls) /\ i \in Items(ms) /\ ms[i].id = ls[i].id
  /\ \A k \in 1..Len(ls) : k # i => ms[k] = ls[k]

\* A line put in place of another with its kind and id.
LEMMA RewriteIs ==
  ASSUME NEW ls \in Seq(ListLines), NEW i \in Items(ls), NEW line \in ListLines, line.kind = "item", line.id = ls[i].id
  PROVE  Rewritten(ls, [ls EXCEPT ![i] = line], i) /\ [ls EXCEPT ![i] = line][i] = line
<1> DEFINE ms == [ls EXCEPT ![i] = line]
           n == Len(ls)
<1>1. i \in 1..n /\ n \in Nat /\ ls \in [1..n -> ListLines]
  BY ItemsAre
<1>2. ms \in [1..n -> ListLines]
  BY <1>1
<1>3. ms \in Seq(ListLines) /\ Len(ms) = n /\ DOMAIN ms = 1..n
  BY <1>1, <1>2
<1>4. ms[i] = line /\ \A k \in 1..n : k # i => ms[k] = ls[k]
  BY <1>1
<1> HIDE DEF ms
<1>5. i \in Items(ms)
  BY <1>1, <1>3, <1>4 DEF Items
<1>6. Rewritten(ls, ms, i)
  BY <1>3, <1>4, <1>5 DEF Rewritten
<1> QED BY <1>4, <1>6 DEF ms

\* A rewritten list has the ids and the items it had.
LEMMA RewriteKeeps ==
  ASSUME NEW ls \in Seq(ListLines), NEW ms, NEW i \in Items(ls), Rewritten(ls, ms, i)
  PROVE  /\ ms \in Seq(ListLines) /\ \A n : IdsOK(ls, n) => IdsOK(ms, n)
         /\ \A k \in Items(ls) : k \in Items(ms) /\ ms[k].id = ls[k].id /\ (k # i => ms[k] = ls[k])
<1>1. /\ ms \in Seq(ListLines) /\ Len(ms) = Len(ls) /\ i \in Items(ms) /\ ms[i].id = ls[i].id
      /\ \A k \in 1..Len(ls) : k # i => ms[k] = ls[k]
  BY DEF Rewritten
<1>2. Len(ls) \in Nat /\ DOMAIN ls = 1..Len(ls) /\ DOMAIN ms = 1..Len(ls)
  BY <1>1
<1>3. \A k \in 1..Len(ls) : ms[k].id = ls[k].id /\ (k \in Items(ls) <=> k \in Items(ms))
  <2> SUFFICES ASSUME NEW k \in 1..Len(ls) PROVE ms[k].id = ls[k].id /\ (k \in Items(ls) <=> k \in Items(ms))
    OBVIOUS
  <2>1. CASE k = i
    BY <1>1, <2>1
  <2>2. CASE k # i
    <3>1. ms[k] = ls[k]
      BY <1>1, <2>2
    <3> QED BY <1>2, <3>1 DEF Items
  <2> QED BY <2>1, <2>2
<1>4. \A k \in Items(ls) : k \in 1..Len(ls)
  BY <1>2 DEF Items
<1>5. \A k \in Items(ms) : k \in 1..Len(ls)
  BY <1>2 DEF Items
<1>6. ASSUME NEW n, IdsOK(ls, n) PROVE IdsOK(ms, n)
  <2>1. /\ \A k \in 1..Len(ls) : ls[k].id < n
        /\ \A k \in Items(ls) : ls[k].id # 0
        /\ \A k, l \in 1..Len(ls) : ls[k].id = ls[l].id /\ ls[k].id # 0 => k = l
    BY <1>6 DEF IdsOK
  <2>2. \A k \in 1..Len(ms) : ms[k].id < n
    BY <1>1, <1>3, <2>1
  <2>3. \A k \in Items(ms) : ms[k].id # 0
    BY <1>3, <1>5, <2>1
  <2>4. \A k, l \in 1..Len(ms) : ms[k].id = ms[l].id /\ ms[k].id # 0 => k = l
    BY <1>1, <1>3, <2>1
  <2> QED BY <2>2, <2>3, <2>4 DEF IdsOK
<1>7. \A k \in Items(ls) : k \in Items(ms) /\ ms[k].id = ls[k].id /\ (k # i => ms[k] = ls[k])
  BY <1>1, <1>3, <1>4
<1> QED BY <1>1, <1>6, <1>7

\* A mark rewrites its line and leaves the text.
LEMMA MarkingRewrites ==
  ASSUME NEW ls \in Seq(ListLines), NEW i \in Items(ls), NEW mark \in ListMarks
  PROVE  Rewritten(ls, SetMark(ls, i, mark), i) /\ SetMark(ls, i, mark)[i].text = ls[i].text
<1> DEFINE line == [ls[i] EXCEPT !.mark = mark]
<1>1. ls[i] \in ListLines /\ ls[i].kind = "item"
  BY ItemsAre, LineIs
<1>2. line \in ListLines
  BY <1>1 DEF ListLines
<1>3. line.kind = "item" /\ line.id = ls[i].id /\ line.text = ls[i].text
  BY <1>1 DEF ListLines
<1>4. SetMark(ls, i, mark) = [ls EXCEPT ![i] = line]
  BY DEF SetMark
<1> HIDE DEF line
<1>5. Rewritten(ls, [ls EXCEPT ![i] = line], i) /\ [ls EXCEPT ![i] = line][i] = line
  BY <1>2, <1>3, RewriteIs
<1> QED BY <1>3, <1>4, <1>5

\* An edited text rewrites its line.
LEMMA EditingRewrites ==
  ASSUME NEW ls \in Seq(ListLines), NEW i \in Items(ls), NEW text \in Texts
  PROVE  Rewritten(ls, EditChecklistItemText(ls, i, text), i) /\ EditChecklistItemText(ls, i, text)[i].text = text
<1> DEFINE line == [ls[i] EXCEPT !.text = text]
<1>1. ls[i] \in ListLines /\ ls[i].kind = "item" /\ text \in ListTexts
  BY ItemsAre, LineIs DEF ListTexts
<1>2. line \in ListLines
  BY <1>1 DEF ListLines
<1>3. line.kind = "item" /\ line.id = ls[i].id /\ line.text = text
  BY <1>1 DEF ListLines
<1>4. EditChecklistItemText(ls, i, text) = [ls EXCEPT ![i] = line]
  BY DEF EditChecklistItemText
<1> HIDE DEF line
<1>5. Rewritten(ls, [ls EXCEPT ![i] = line], i) /\ [ls EXCEPT ![i] = line][i] = line
  BY <1>2, <1>3, RewriteIs
<1> QED BY <1>3, <1>4, <1>5

\* The first document: its lines are numbered from 1.
LEMMA NumberedIs ==
  ASSUME NEW n \in 1..MaxLines, NEW ls \in [1..n -> LineKinds]
  PROVE  Numbered(ls) \in Seq(ListLines) /\ IdsOK(Numbered(ls), MaxLines + 1)
<1> DEFINE ms == Numbered(ls)
<1>1. MaxLines \in Nat /\ MaxIndent \in Nat /\ n \in Nat /\ n <= MaxLines
  BY ChecklistAssumption
<1>2. ASSUME NEW x \in LineKinds
      PROVE  x.kind \in {"item", "prose", "blank"} /\ x.d \in Nat /\ x.text \in ListTexts /\ x.mark \in ListMarks
  <2>1. 0..MaxIndent \subseteq Nat
    BY <1>1
  <2> DEFINE D == 0..MaxIndent
  <2>2. D \subseteq Nat
    BY <2>1
  <2>3. 0 \in Nat
    OBVIOUS
  <2>4. \/ x = Blank
        \/ x \in [kind : {"item"}, d : D, text : Texts, mark : {" "}]
        \/ x \in [kind : {"prose"}, d : D, text : {""}, mark : {""}]
    BY DEF LineKinds
  <2> HIDE DEF D
  <2>5. CASE x = Blank
    BY <2>3, <2>5 DEF Blank, ListTexts, ListMarks
  <2>6. CASE x \in [kind : {"item"}, d : D, text : Texts, mark : {" "}]
    BY <2>2, <2>6 DEF ListTexts, ListMarks
  <2>7. CASE x \in [kind : {"prose"}, d : D, text : {""}, mark : {""}]
    BY <2>2, <2>7 DEF ListTexts, ListMarks
  <2> QED BY <2>4, <2>5, <2>6, <2>7
<1>3. DOMAIN ls = 1..n
  OBVIOUS
<1>4. ASSUME NEW i \in 1..n PROVE ms[i] \in ListLines /\ ms[i].id = i
  <2>1. /\ ms[i] = [kind |-> ls[i].kind, d |-> ls[i].d, text |-> ls[i].text, mark |-> ls[i].mark, id |-> i]
    BY <1>3 DEF Numbered
  <2>2. i \in Nat /\ ls[i] \in LineKinds
    OBVIOUS
  <2>3. ls[i].kind \in {"item", "prose", "blank"} /\ ls[i].d \in Nat /\ ls[i].text \in ListTexts /\ ls[i].mark \in ListMarks
    BY <1>2, <2>2
  <2> HIDE DEF ms
  <2> QED BY <2>1, <2>2, <2>3 DEF ListLines
<1>5. DOMAIN ms = 1..n /\ ms = [i \in 1..n |-> ms[i]]
  BY <1>3 DEF Numbered
<1> HIDE DEF ms
<1>6. ms \in [1..n -> ListLines]
  BY <1>4, <1>5
<1>7. ms \in Seq(ListLines) /\ Len(ms) = n
  BY <1>1, <1>6
<1>8. /\ \A k \in 1..Len(ms) : ms[k].id < MaxLines + 1
      /\ \A k, l \in 1..Len(ms) : ms[k].id = ms[l].id /\ ms[k].id # 0 => k = l
  <2>1. \A k \in 1..n : ms[k].id = k
    BY <1>4
  <2> QED BY <1>1, <1>7, <2>1
<1>9. \A k \in Items(ms) : ms[k].id # 0
  <2>1. \A k \in Items(ms) : k \in 1..n
    BY <1>5 DEF Items
  <2>2. \A k \in 1..n : k # 0
    OBVIOUS
  <2> QED BY <1>4, <2>1, <2>2
<1>10. IdsOK(ms, MaxLines + 1)
  BY <1>8, <1>9 DEF IdsOK
<1> QED BY <1>7, <1>10 DEF ms

-----------------------------------------------------------------------------
(* The edits of the file *)

\* What ListEditsAreLocal says of an edit e from ls to ms.
LocalEdit(ls, ms, e) ==
  /\ e.op \in {"delete", "move", "add"} /\ Tidy(ls) => DetailKept(ls, ms)
  /\ e.op = "add" => Len(Folded(ms, Where(ms, e.item))) = 1
  /\ e.op = "move" /\ Tidy(ls) =>
       LET i == Where(ls, e.item)
           j == LineAt(ls, e.to)
       IN  /\ ParentsKept(ls, ms)
           /\ Position(ms, Where(ms, e.item)) = IF j > i THEN e.to + SubtreeSize(ls, j) - SubtreeSize(ls, i) ELSE e.to
  /\ Tidy(ms) => \A i \in Items(ms), delta \in {-1, 1} :
                   LET n == SiblingPosition(ms, i, delta) IN n # 0 => MoveAllowed(ms, i, LineAt(ms, n))
  /\ e.op = "sendHandle" /\ ~e.edited => e.item = e.to

\* The property, as a fact about the last edit.
LEMMA LocalIs == ListEditsAreLocal <=> LocalEdit(prior, doc, did)
BY DEF ListEditsAreLocal, LocalEdit, DetailStaysWithItsTask, DetailKept, NewTaskIsBare, MoveLandsWhereSaid, KeepsParents,
       ParentsKept, StepIsNeverRefused, HandleNamesItsItemUnedited

\* The same of the state after a step.
LEMMA LocalNext == ListEditsAreLocal' <=> LocalEdit(prior', doc', did')
BY DEF ListEditsAreLocal, LocalEdit, DetailStaysWithItsTask, DetailKept, NewTaskIsBare, MoveLandsWhereSaid, KeepsParents,
       ParentsKept, StepIsNeverRefused, HandleNamesItsItemUnedited

\* StepsAllowed for every item of a list, as the property asks for it.
LEMMA StepsAreAllowed ==
  ASSUME NEW ms \in Seq(ListLines)
  PROVE  Tidy(ms) => \A i \in Items(ms), delta \in {-1, 1} :
                       LET n == SiblingPosition(ms, i, delta) IN n # 0 => MoveAllowed(ms, i, LineAt(ms, n))
BY StepsAllowed

\* Each edit, as the property states it: a deletion,
LEMMA DeleteIsLocal ==
  ASSUME NEW ls \in Seq(ListLines), NEW n, IdsOK(ls, n), NEW i \in Items(ls), NEW e, e.op = "delete"
  PROVE  LocalEdit(ls, DeleteChecklistItem(ls, i), e)
<1> DEFINE ms == DeleteChecklistItem(ls, i)
<1>1. ms \in Seq(ListLines) /\ (Tidy(ls) => DetailKept(ls, ms))
  BY DeletesAreLocal
<1> HIDE DEF ms
<1>2. Tidy(ms) => \A x \in Items(ms), delta \in {-1, 1} :
                    LET p == SiblingPosition(ms, x, delta) IN p # 0 => MoveAllowed(ms, x, LineAt(ms, p))
  BY <1>1, StepsAreAllowed
<1>3. LocalEdit(ls, ms, e)
  BY <1>1, <1>2 DEF LocalEdit
<1> QED BY <1>3 DEF ms

\* a move,
LEMMA MoveIsLocal ==
  ASSUME NEW ls \in Seq(ListLines), NEW n, IdsOK(ls, n), NEW i \in Items(ls), NEW j \in Items(ls), MoveAllowed(ls, i, j),
         NEW e, e.op = "move", e.item = ls[i].id, e.to = Position(ls, j)
  PROVE  LocalEdit(ls, MoveChecklistItem(ls, i, j), e)
<1> DEFINE ms == MoveChecklistItem(ls, i, j)
<1>1. /\ ms \in Seq(ListLines)
      /\ Tidy(ls) => /\ DetailKept(ls, ms) /\ ParentsKept(ls, ms)
                     /\ Position(ms, Where(ms, ls[i].id)) =
                          IF j > i THEN Position(ls, j) + SubtreeSize(ls, j) - SubtreeSize(ls, i) ELSE Position(ls, j)
  BY MovesAreLocal
<1> HIDE DEF ms
<1>2. Tidy(ms) => \A x \in Items(ms), delta \in {-1, 1} :
                    LET p == SiblingPosition(ms, x, delta) IN p # 0 => MoveAllowed(ms, x, LineAt(ms, p))
  BY <1>1, StepsAreAllowed
<1>3. Where(ls, e.item) = i /\ LineAt(ls, e.to) = j
  BY WhereIs, PositionIs
<1>4. LocalEdit(ls, ms, e)
  BY <1>1, <1>2, <1>3 DEF LocalEdit
<1> QED BY <1>4 DEF ms

\* and an addition.
LEMMA AddIsLocal ==
  ASSUME NEW ls \in Seq(ListLines), NEW n \in Nat, n > 0, IdsOK(ls, n), NEW text \in Texts,
         NEW e, e.op = "add", e.item = n
  PROVE  LocalEdit(ls, AppendChecklistItem(ls, text, n), e)
<1> DEFINE ms == AppendChecklistItem(ls, text, n)
<1>1. ms \in Seq(ListLines) /\ DetailKept(ls, ms) /\ Len(Folded(ms, Where(ms, n))) = 1
  BY AppendsAreLocal
<1> HIDE DEF ms
<1>2. Tidy(ms) => \A x \in Items(ms), delta \in {-1, 1} :
                    LET p == SiblingPosition(ms, x, delta) IN p # 0 => MoveAllowed(ms, x, LineAt(ms, p))
  BY <1>1, StepsAreAllowed
<1>3. LocalEdit(ls, ms, e)
  BY <1>1, <1>2 DEF LocalEdit
<1> QED BY <1>3 DEF ms

\* Every other change of the file leaves nothing but the steps to state.
LEMMA OtherIsLocal ==
  ASSUME NEW ls, NEW ms \in Seq(ListLines), NEW e, e.op \notin {"delete", "move", "add"},
         e.op = "sendHandle" /\ ~e.edited => e.item = e.to
  PROVE  LocalEdit(ls, ms, e)
<1>1. Tidy(ms) => \A x \in Items(ms), delta \in {-1, 1} :
                    LET p == SiblingPosition(ms, x, delta) IN p # 0 => MoveAllowed(ms, x, LineAt(ms, p))
  BY StepsAreAllowed
<1> QED BY <1>1 DEF LocalEdit

-----------------------------------------------------------------------------
(* Series of a review *)

\* A handle's item in the lines of a series.
Named(ls, id, text) == \E k \in Items(ls) : ls[k].id = id /\ ls[k].text = text

\* A deletion of an item with another text leaves the handle's item.
LEMMA DeleteKeepsNamed ==
  ASSUME NEW ls \in Seq(ListLines), NEW i \in Items(ls), NEW id, NEW text, Named(ls, id, text), ls[i].text # text
  PROVE  Named(DeleteChecklistItem(ls, i), id, text)
<1> DEFINE e == DetailEnd(ls, i)
           ms == Without(ls, i, e)
           t == e - i + 1
<1>1. PICK k \in Items(ls) : ls[k].id = id /\ ls[k].text = text
  BY DEF Named
<1>2. k # i
  BY <1>1
<1>3. /\ i \in 1..Len(ls) /\ i \in Nat /\ Len(ls) \in Nat
      /\ k \in 1..Len(ls) /\ k \in Nat /\ ls[k].kind = "item"
  BY ItemsAre
<1>4. DetailIs(ls, i, e)
  BY <1>3, DetailEndIs
<1> HIDE DEF e
<1>5. e \in i..Len(ls) /\ \A q \in i+1..e : ls[q].kind = "blank" \/ (ls[q].kind = "prose" /\ ls[q].d > ls[i].d)
  BY <1>3, <1>4, DetailMeans
<1>6. k < i \/ k > e
  <2> SUFFICES ASSUME i <= k, k <= e PROVE FALSE
    BY <1>3, <1>5
  <2>1. k \in i+1..e
    BY <1>2, <1>3, <1>5
  <2> QED BY <1>3, <1>5, <2>1
<1>7. e \in Int /\ i <= e /\ e <= Len(ls) /\ 1 <= i /\ i <= e + 1 /\ i \in Int
  BY <1>3, <1>5
<1>8. ms = DeleteChecklistItem(ls, i)
  BY DEF DeleteChecklistItem, e
<1>9. /\ ms \in Seq(ListLines) /\ Len(ms) = Len(ls) - t
      /\ \A q \in 1..i-1 : ms[q] = ls[q]
      /\ \A q \in i..Len(ls)-t : ms[q] = ls[q + t]
  BY <1>7, WithoutIs
<1> HIDE DEF ms
<1> SUFFICES Named(ms, id, text)
  BY <1>8
<1>10. ASSUME NEW m \in 1..Len(ms), ms[m] = ls[k] PROVE Named(ms, id, text)
  <2>1. m \in Items(ms)
    BY <1>3, <1>9, <1>10 DEF Items
  <2> QED BY <1>1, <1>10, <2>1 DEF Named
<1>11. CASE k < i
  <2>1. k \in 1..i-1 /\ k \in 1..Len(ms)
    BY <1>3, <1>7, <1>9, <1>11
  <2> QED BY <1>9, <1>10, <2>1
<1>12. CASE k > e
  <2>1. k - t \in i..Len(ls)-t /\ k - t \in 1..Len(ms) /\ (k - t) + t = k
    BY <1>3, <1>7, <1>9, <1>12
  <2>2. ms[k - t] = ls[k]
    <3> HIDE DEF t
    <3>1. ms[k - t] = ls[(k - t) + t]
      BY <1>9, <2>1
    <3> QED BY <2>1, <3>1
  <2> QED BY <1>10, <2>1, <2>2
<1> QED BY <1>6, <1>11, <1>12

\* A move leaves it, whatever the list.
LEMMA MoveKeepsNamed ==
  ASSUME NEW ls \in Seq(ListLines), NEW i \in Items(ls), NEW j \in Items(ls), MoveAllowed(ls, i, j),
         NEW id, NEW text, Named(ls, id, text)
  PROVE  MoveChecklistItem(ls, i, j) \in Seq(ListLines) /\ Named(MoveChecklistItem(ls, i, j), id, text)
<1> DEFINE ms == MoveChecklistItem(ls, i, j)
<1>1. ASSUME NEW a, NEW b, NEW c, Swapped(ls, ms, a, b, c) PROVE ms \in Seq(ListLines) /\ Named(ms, id, text)
  <2> HIDE DEF ms
  <2>1. PICK k \in Items(ls) : ls[k].id = id /\ ls[k].text = text
    BY DEF Named
  <2>2. GoesTo(a, b, c, k) \in Items(ms) /\ ms[GoesTo(a, b, c, k)] = ls[k]
    BY <1>1, SwapItems
  <2> QED BY <1>1, <2>1, <2>2, SwappedIs DEF Named
<1>2. i \in Nat /\ j \in Nat /\ i # j
  BY ItemsAre DEF MoveAllowed
<1>3. CASE j < i
  <2>1. Swapped(ls, ms, j, i - 1, SubtreeEnd(ls, i))
    BY <1>3, MoveUp
  <2> QED BY <1>1, <2>1
<1>4. CASE i < j
  <2>1. Swapped(ls, ms, i, SubtreeEnd(ls, i), SubtreeEnd(ls, j))
    BY <1>4, MoveDown
  <2> QED BY <1>1, <2>1
<1> QED BY <1>2, <1>3, <1>4

\* What a move leaves is a list.
LEMMA MoveIsAList ==
  ASSUME NEW ls \in Seq(ListLines), NEW i \in Items(ls), NEW j \in Items(ls), MoveAllowed(ls, i, j)
  PROVE  MoveChecklistItem(ls, i, j) \in Seq(ListLines)
<1>1. Named(ls, ls[i].id, ls[i].text)
  BY DEF Named
<1> QED BY <1>1, MoveKeepsNamed

\* What a deletion leaves is a list.
LEMMA DeleteIsAList ==
  ASSUME NEW ls \in Seq(ListLines), NEW i \in Items(ls)
  PROVE  DeleteChecklistItem(ls, i) \in Seq(ListLines)
<1>1. i \in 1..Len(ls) /\ i \in Nat /\ Len(ls) \in Nat
  BY ItemsAre
<1>2. DetailIs(ls, i, DetailEnd(ls, i))
  BY <1>1, DetailEndIs
<1>3. DetailEnd(ls, i) \in i..Len(ls)
  BY <1>1, <1>2, DetailMeans
<1>4. DetailEnd(ls, i) \in Int /\ 1 <= i /\ i \in Int /\ i <= DetailEnd(ls, i) + 1 /\ DetailEnd(ls, i) <= Len(ls)
  BY <1>1, <1>3
<1>5. Without(ls, i, DetailEnd(ls, i)) \in Seq(ListLines)
  BY <1>4, WithoutIs
<1> QED BY <1>5 DEF DeleteChecklistItem

\* An addition is what its handle names.
LEMMA AppendKeepsNamed ==
  ASSUME NEW ls \in Seq(ListLines), NEW id \in Nat, NEW text \in Texts
  PROVE  AppendChecklistItem(ls, text, id) \in Seq(ListLines) /\ Named(AppendChecklistItem(ls, text, id), id, text)
<1> DEFINE ms == AppendChecklistItem(ls, text, id)
<1>1. ms \in Seq(ListLines) /\ \E at : AppendedAt(ls, ms, at, id, text)
  BY AppendIs
<1> HIDE DEF ms
<1>2. PICK at : AppendedAt(ls, ms, at, id, text)
  BY <1>1
<1>3. at + 1 \in Items(ms) /\ ms[at + 1].id = id /\ ms[at + 1].text = text
  BY <1>2 DEF AppendedAt
<1>4. Named(ms, id, text)
  BY <1>3 DEF Named
<1> QED BY <1>1, <1>4 DEF ms

-----------------------------------------------------------------------------
(* The invariant, and the edits that preserve it *)

\* The series being applied: its lines are a list, and its handle follows the
\* item its add created until another item is edited.
Handles == {<<>>} \cup {<<t>> : t \in Texts}
Reviews == [on : {TRUE}, ls : Seq(ListLines), handle : Handles, added : Nat, edited : BOOLEAN, n : Nat]

HandleFollows(r) ==
  r.on => (r.handle # <<>> /\ ~r.edited => Named(r.ls, r.added, r.handle[1]))

ReviewIs == reviewList = NoReview \/ (reviewList \in Reviews /\ HandleFollows(reviewList))

ListInv ==
  /\ doc \in Seq(ListLines) /\ steps \in Nat
  /\ steps < MaxSteps => IdsOK(doc, NewId)
  /\ ReviewIs
  /\ ListEditsAreLocal

\* The id of the next line is a number, and none of a blank.
LEMMA NewIdIs == steps \in Nat => NewId \in Nat /\ NewId > 0
BY ChecklistAssumption DEF NewId

\* The invariant holds of every first document.
LEMMA ListInvInit == InitList => ListInv
<1> SUFFICES ASSUME InitList PROVE ListInv
  OBVIOUS
<1>1. PICK n \in 1..MaxLines : \E ls \in [1..n -> LineKinds] : doc = Numbered(ls)
  BY DEF InitList
<1>2. PICK ls \in [1..n -> LineKinds] : doc = Numbered(ls)
  BY <1>1
<1>3. doc \in Seq(ListLines) /\ IdsOK(doc, MaxLines + 1)
  BY <1>2, NumberedIs
<1>4. steps = 0 /\ did = NoEdit /\ reviewList = NoReview
  BY DEF InitList
<1>5. NewId = MaxLines + 1
  BY <1>4, ChecklistAssumption DEF NewId
<1>6. did.op \notin {"delete", "move", "add"} /\ did.op # "sendHandle"
  BY <1>4 DEF NoEdit
<1>7. LocalEdit(prior, doc, did)
  BY <1>3, <1>6, OtherIsLocal
<1>8. ListEditsAreLocal
  BY <1>7, LocalIs
<1>9. steps \in Nat
  BY <1>4
<1> QED BY <1>3, <1>4, <1>5, <1>8, <1>9 DEF ListInv, ReviewIs

\* One edit of the file.
LEMMA EditStays ==
  ASSUME ListInv, NEW ms \in Seq(ListLines), NEW e, ListEdited(ms, e), IdsOK(ms, NewId + 1), LocalEdit(doc, ms, e)
  PROVE  ListInv'
<1>1. /\ reviewList = NoReview /\ steps < MaxSteps /\ steps' = steps + 1
      /\ doc' = ms /\ prior' = doc /\ did' = e /\ reviewList' = reviewList
  BY DEF ListEdited
<1>2. steps \in Nat /\ NewId \in Nat
  BY NewIdIs DEF ListInv
<1>3. NewId' = NewId + 1 /\ steps' \in Nat
  BY <1>1, <1>2, ChecklistAssumption DEF NewId
<1>4. IdsOK(doc', NewId')
  BY <1>1, <1>3
<1>5. LocalEdit(prior', doc', did')
  BY <1>1
<1>6. ListEditsAreLocal'
  BY <1>5, LocalNext
<1>7. ReviewIs'
  BY <1>1 DEF ReviewIs
<1> QED BY <1>1, <1>3, <1>4, <1>6, <1>7 DEF ListInv

\* Ids below a bound are below the next one.
LEMMA IdsGrow ==
  ASSUME NEW ls \in Seq(ListLines), NEW n \in Nat, IdsOK(ls, n)
  PROVE  IdsOK(ls, n + 1)
<1>1. /\ \A k \in 1..Len(ls) : ls[k].id < n
      /\ \A k \in Items(ls) : ls[k].id # 0
      /\ \A k, l \in 1..Len(ls) : ls[k].id = ls[l].id /\ ls[k].id # 0 => k = l
  BY DEF IdsOK
<1>2. \A k \in 1..Len(ls) : ls[k].id < n + 1
  <2> SUFFICES ASSUME NEW k \in 1..Len(ls) PROVE ls[k].id < n + 1
    OBVIOUS
  <2>1. ls[k].id \in Nat /\ ls[k].id < n
    BY <1>1, LineIs
  <2> QED BY <2>1
<1> QED BY <1>1, <1>2 DEF IdsOK

\* The four edits of the file preserve the invariant.
LEMMA EditsStay ==
  ASSUME ListInv, DeleteTask \/ MoveTask \/ AddTask \/ SetTaskDone
  PROVE  ListInv'
<1>1. doc \in Seq(ListLines) /\ NewId \in Nat /\ NewId > 0 /\ (steps < MaxSteps => IdsOK(doc, NewId))
  BY NewIdIs DEF ListInv
<1>2. CASE DeleteTask
  <2>1. PICK i \in Items(doc) : ListEdited(DeleteChecklistItem(doc, i), [op |-> "delete", item |-> doc[i].id, to |-> 0])
    BY <1>2 DEF DeleteTask
  <2> DEFINE ms == DeleteChecklistItem(doc, i)
             e == [op |-> "delete", item |-> doc[i].id, to |-> 0]
  <2>2. e.op = "delete"
    OBVIOUS
  <2> HIDE DEF e
  <2>3. IdsOK(doc, NewId)
    BY <1>1, <2>1 DEF ListEdited
  <2>4. ms \in Seq(ListLines) /\ IdsOK(ms, NewId)
    BY <1>1, <2>3, DeletesAreLocal
  <2>5. LocalEdit(doc, ms, e)
    BY <1>1, <2>2, <2>3, DeleteIsLocal
  <2> HIDE DEF ms
  <2>6. IdsOK(ms, NewId + 1)
    BY <1>1, <2>4, IdsGrow
  <2>7. ListEdited(ms, e)
    BY <2>1 DEF ms, e
  <2> QED BY <2>4, <2>5, <2>6, <2>7, EditStays
<1>3. CASE MoveTask
  <2>1. PICK i \in Items(doc), j \in Items(doc) :
          /\ MoveAllowed(doc, i, j)
          /\ ListEdited(MoveChecklistItem(doc, i, j), [op |-> "move", item |-> doc[i].id, to |-> Position(doc, j)])
    BY <1>3 DEF MoveTask
  <2> DEFINE ms == MoveChecklistItem(doc, i, j)
             e == [op |-> "move", item |-> doc[i].id, to |-> Position(doc, j)]
  <2>2. e.op = "move" /\ e.item = doc[i].id /\ e.to = Position(doc, j)
    OBVIOUS
  <2> HIDE DEF e
  <2>3. IdsOK(doc, NewId)
    BY <1>1, <2>1 DEF ListEdited
  <2>4. ms \in Seq(ListLines) /\ IdsOK(ms, NewId)
    BY <1>1, <2>1, <2>3, MovesAreLocal
  <2>5. LocalEdit(doc, ms, e)
    BY <1>1, <2>1, <2>2, <2>3, MoveIsLocal
  <2> HIDE DEF ms
  <2>6. IdsOK(ms, NewId + 1)
    BY <1>1, <2>4, IdsGrow
  <2>7. ListEdited(ms, e)
    BY <2>1 DEF ms, e
  <2> QED BY <2>4, <2>5, <2>6, <2>7, EditStays
<1>4. CASE AddTask
  <2>1. PICK t \in Texts : ListEdited(AppendChecklistItem(doc, t, NewId), [op |-> "add", item |-> NewId, to |-> 0])
    BY <1>4 DEF AddTask
  <2> DEFINE ms == AppendChecklistItem(doc, t, NewId)
             e == [op |-> "add", item |-> NewId, to |-> 0]
  <2>2. e.op = "add" /\ e.item = NewId
    OBVIOUS
  <2> HIDE DEF e
  <2>3. IdsOK(doc, NewId)
    BY <1>1, <2>1 DEF ListEdited
  <2>4. ms \in Seq(ListLines) /\ IdsOK(ms, NewId + 1)
    BY <1>1, <2>3, AppendsAreLocal
  <2>5. LocalEdit(doc, ms, e)
    BY <1>1, <2>2, <2>3, AddIsLocal
  <2> HIDE DEF ms
  <2>7. ListEdited(ms, e)
    BY <2>1 DEF ms, e
  <2> QED BY <2>4, <2>5, <2>7, EditStays
<1>5. CASE SetTaskDone
  <2>1. PICK i \in Items(doc), done \in BOOLEAN :
          ListEdited(SetMark(doc, i, IF done THEN "x" ELSE " "), [op |-> "mark", item |-> doc[i].id, to |-> 0])
    BY <1>5 DEF SetTaskDone
  <2> DEFINE mark == IF done THEN "x" ELSE " "
             ms == SetMark(doc, i, mark)
             e == [op |-> "mark", item |-> doc[i].id, to |-> 0]
  <2>2. e.op \notin {"delete", "move", "add"} /\ e.op # "sendHandle" /\ mark \in ListMarks
    BY DEF ListMarks
  <2>7. ListEdited(ms, e)
    BY <2>1
  <2> HIDE DEF e, mark
  <2>3. IdsOK(doc, NewId)
    BY <1>1, <2>1 DEF ListEdited
  <2>4. Rewritten(doc, ms, i)
    BY <1>1, <2>2, MarkingRewrites
  <2> HIDE DEF ms
  <2>5. ms \in Seq(ListLines) /\ IdsOK(ms, NewId)
    BY <1>1, <2>3, <2>4, RewriteKeeps
  <2>6. LocalEdit(doc, ms, e)
    BY <2>2, <2>5, OtherIsLocal
  <2>8. IdsOK(ms, NewId + 1)
    BY <1>1, <2>5, IdsGrow
  <2> QED BY <2>5, <2>6, <2>7, <2>8, EditStays
<1> QED BY <1>2, <1>3, <1>4, <1>5

-----------------------------------------------------------------------------
(* The steps of a review *)

\* A step of a review leaves the file alone; what it did is in the series.
LEMMA SeriesStays ==
  ASSUME ListInv, UNCHANGED <<doc, prior, did, steps>>, reviewList' = NoReview \/ (reviewList' \in Reviews /\ HandleFollows(reviewList'))
  PROVE  ListInv'
<1>1. doc' = doc /\ prior' = prior /\ did' = did /\ steps' = steps
  OBVIOUS
<1>2. LocalEdit(prior', doc', did')
  BY <1>1, LocalIs DEF ListInv
<1>3. ListEditsAreLocal'
  BY <1>2, LocalNext
<1>4. ReviewIs'
  BY DEF ReviewIs
<1>5. NewId' = NewId
  BY <1>1 DEF NewId
<1> QED BY <1>1, <1>3, <1>4, <1>5 DEF ListInv

\* What the lines of a series become, with their handle.
LEMMA NextOfSeries ==
  ASSUME ListInv, UNCHANGED <<doc, prior, did, steps>>, reviewList \in Reviews, NEW ls \in Seq(ListLines), NEW handle \in Handles,
         NEW added \in Nat, NEW edited \in BOOLEAN,
         reviewList' = [reviewList EXCEPT !.ls = ls, !.handle = handle, !.added = added, !.edited = edited, !.n = @ + 1],
         handle # <<>> /\ ~edited => Named(ls, added, handle[1])
  PROVE  ListInv'
<1> DEFINE r == [reviewList EXCEPT !.ls = ls, !.handle = handle, !.added = added, !.edited = edited, !.n = @ + 1]
           m == reviewList.n + 1
<1>1. r \in Reviews
  <2>1. m \in Nat
    BY DEF Reviews
  <2>2. r = [reviewList EXCEPT !.ls = ls, !.handle = handle, !.added = added, !.edited = edited, !.n = m]
    OBVIOUS
  <2> HIDE DEF r, m
  <2> QED BY <2>1, <2>2 DEF Reviews
<1>2. r.ls = ls /\ r.handle = handle /\ r.added = added /\ r.edited = edited
  BY DEF Reviews
<1> HIDE DEF r
<1>3. HandleFollows(r)
  BY <1>2 DEF HandleFollows
<1>4. reviewList' = r
  BY DEF r
<1> QED BY <1>1, <1>3, <1>4, SeriesStays

\* The handle of a series, if it has one, is a text.
LEMMA HandleIs ==
  ASSUME NEW handle \in Handles, handle # <<>>
  PROVE  handle[1] \in Texts /\ handle = <<handle[1]>>
BY DEF Handles

\* What the invariant says of a series that is on.
LEMMA ReviewIsOn ==
  ASSUME ListInv, reviewList.on
  PROVE  /\ reviewList \in Reviews /\ HandleFollows(reviewList)
         /\ reviewList.ls \in Seq(ListLines) /\ reviewList.handle \in Handles /\ reviewList.added \in Nat /\ reviewList.edited \in BOOLEAN
         /\ reviewList.handle # <<>> /\ ~reviewList.edited => Named(reviewList.ls, reviewList.added, reviewList.handle[1])
<1>1. reviewList # NoReview
  BY DEF NoReview
<1>2. reviewList \in Reviews /\ HandleFollows(reviewList)
  BY <1>1 DEF ListInv, ReviewIs
<1> QED BY <1>2 DEF Reviews, HandleFollows

\* Every position has an item.
LEMMA LineAtIs ==
  ASSUME NEW ls \in Seq(ListLines), NEW n \in Positions(ls)
  PROVE  LineAt(ls, n) \in Items(ls)
<1> DEFINE N == Len(ls)
           S == {x \in Nat : Count(ls, 1, x) >= n}
           m == MinLine(S)
<1>1. N \in Nat /\ Between(ls, 1, N) = Items(ls)
  <2>1. Len(ls) \in Nat /\ \A k \in Items(ls) : 1 <= k /\ k <= Len(ls)
    <3>1. Len(ls) \in Nat /\ \A k \in Items(ls) : k \in 1..Len(ls)
      BY ItemsAre
    <3> QED BY <3>1
  <2> QED BY <2>1 DEF Between
<1>2. Count(ls, 1, N) \in Nat
  <2>1. 1 \in Int /\ N \in Int
    BY <1>1
  <2> HIDE DEF N
  <2> QED BY <2>1, CountIs
<1>3. n \in Int /\ 1 <= n /\ n <= Count(ls, 1, N)
  <2>1. Count(ls, 1, N) = Cardinality(Items(ls))
    BY <1>1 DEF Count
  <2>2. n \in 1..Count(ls, 1, N)
    BY <2>1 DEF Positions
  <2> HIDE DEF N
  <2> QED BY <1>2, <2>2
<1> HIDE DEF N
<1>4. N \in S
  BY <1>1, <1>2, <1>3
<1>5. m \in S /\ \A y \in S : m <= y
  BY <1>4, FirstLine
<1> HIDE DEF m
<1>6. m \in Nat /\ Count(ls, 1, m) >= n
  BY <1>5
<1>7. Count(ls, 1, m) \in Nat /\ (m < 1 => Count(ls, 1, m) = 0)
  <2>1. 1 \in Int /\ m \in Int
    BY <1>6
  <2> QED BY <2>1, CountIs
<1>8. m >= 1
  BY <1>3, <1>6, <1>7
<1>9. m - 1 \in Nat /\ m - 1 \notin S /\ m - 1 \in Int /\ m \in Int /\ 1 \in Int
  BY <1>5, <1>6, <1>8
<1> DEFINE p == m - 1
<1>10. p \in Int /\ p + 1 = m /\ 1 <= p + 1 /\ p <= m /\ p \in Nat /\ p \notin S
  BY <1>8, <1>9
<1> HIDE DEF p, S
<1>11. Count(ls, 1, p) \in Nat
  BY <1>9, <1>10, CountIs
<1>12. Count(ls, 1, p) < n
  BY <1>3, <1>10, <1>11 DEF S
<1>13. Count(ls, 1, m) = Count(ls, 1, p) + Count(ls, m, m)
  <2>1. Count(ls, 1, m) = Count(ls, 1, p) + Count(ls, p + 1, m)
    BY <1>9, <1>10, CountIs
  <2> QED BY <1>10, <2>1
<1>14. Count(ls, m, m) = IF m \in Items(ls) THEN 1 ELSE 0
  BY <1>9, CountIs
<1>15. m \in Items(ls) /\ Count(ls, 1, m) = n
  <2>1. CASE m \in Items(ls)
    BY <1>3, <1>6, <1>7, <1>11, <1>12, <1>13, <1>14, <2>1
  <2>2. CASE m \notin Items(ls)
    BY <1>3, <1>6, <1>7, <1>11, <1>12, <1>13, <1>14, <2>2
  <2> QED BY <2>1, <2>2
<1>16. LineAt(ls, n) = m
  BY <1>15, PositionIs
<1> QED BY <1>15, <1>16

\* A reference names an item of the list.
LEMMA RefIs ==
  ASSUME NEW ls \in Seq(ListLines), NEW handle, NEW ref \in Refs(ls), NEW i \in Resolves(ls, ref, handle)
  PROVE  i \in Items(ls)
<1>1. CASE ref.by = "position"
  <2>1. i = LineAt(ls, ref.n)
    BY <1>1 DEF Resolves
  <2>2. ref.n \in Positions(ls)
    BY <1>1 DEF Refs
  <2> QED BY <2>1, <2>2, LineAtIs
<1>2. CASE ref.by # "position"
  BY <1>2 DEF Resolves
<1> QED BY <1>1, <1>2

-----------------------------------------------------------------------------
\* A series starts without a handle.
LEMMA ReviewStartsStays == ListInv /\ ReviewStarts => ListInv'
<1> SUFFICES ASSUME ListInv, ReviewStarts PROVE ListInv'
  OBVIOUS
<1> DEFINE r == [on |-> TRUE, ls |-> doc, handle |-> <<>>, added |-> 0, edited |-> FALSE, n |-> 0]
<1>1. reviewList' = r /\ UNCHANGED <<doc, prior, did, steps>> /\ doc \in Seq(ListLines)
  BY DEF ReviewStarts, ListInv
<1>2. <<>> \in Handles /\ 0 \in Nat
  BY DEF Handles
<1>3. r \in Reviews
  BY <1>1, <1>2 DEF Reviews
<1>4. HandleFollows(r)
  BY DEF HandleFollows
<1> HIDE DEF r
<1> QED BY <1>1, <1>3, <1>4, SeriesStays

\* The handle of an addition names what was added.
LEMMA ReviewAddsStays == ListInv /\ ReviewAdds => ListInv'
<1> SUFFICES ASSUME ListInv, ReviewAdds PROVE ListInv'
  OBVIOUS
<1>1. PICK t \in Texts :
        reviewList' = [reviewList EXCEPT !.ls = AppendChecklistItem(reviewList.ls, t, NewId), !.handle = <<t>>,
                                 !.added = NewId, !.n = @ + 1]
  BY DEF ReviewAdds
<1>2. reviewList.on /\ UNCHANGED <<doc, prior, did, steps>>
  BY DEF ReviewAdds
<1>3. /\ reviewList \in Reviews /\ reviewList.ls \in Seq(ListLines) /\ reviewList.edited \in BOOLEAN
  BY <1>2, ReviewIsOn
<1>4. NewId \in Nat
  BY NewIdIs DEF ListInv
<1> DEFINE ms == AppendChecklistItem(reviewList.ls, t, NewId)
           handle == <<t>>
           id == NewId
           edited == reviewList.edited
<1>5. ms \in Seq(ListLines) /\ Named(ms, NewId, t)
  BY <1>3, <1>4, AppendKeepsNamed
<1>6. handle \in Handles /\ handle[1] = t
  BY DEF Handles
<1> HIDE DEF ms, handle, id
<1>7. reviewList' = [reviewList EXCEPT !.ls = ms, !.handle = handle, !.added = id, !.edited = edited, !.n = @ + 1]
  <2>1. reviewList' = [reviewList EXCEPT !.ls = ms, !.handle = handle, !.added = id, !.n = @ + 1]
    BY <1>1 DEF ms, handle, id
  <2> QED BY <1>3, <2>1 DEF Reviews
<1>8. id \in Nat /\ edited \in BOOLEAN /\ Named(ms, id, handle[1])
  BY <1>3, <1>4, <1>5, <1>6 DEF id
<1> HIDE DEF edited
<1> QED BY <1>2, <1>3, <1>5, <1>6, <1>7, <1>8, NextOfSeries

\* A step that changes the lines and keeps what the series added.
LEMMA SeriesStep ==
  ASSUME ListInv, UNCHANGED <<doc, prior, did, steps>>, reviewList.on, NEW ls \in Seq(ListLines), NEW handle \in Handles,
         Series(ls, handle),
         handle # <<>> /\ ~reviewList.edited => Named(ls, reviewList.added, handle[1])
  PROVE  ListInv'
<1> DEFINE id == reviewList.added
           edited == reviewList.edited
<1>1. reviewList \in Reviews /\ id \in Nat /\ edited \in BOOLEAN
  BY ReviewIsOn
<1>2. reviewList' = [reviewList EXCEPT !.ls = ls, !.handle = handle, !.added = id, !.edited = edited, !.n = @ + 1]
  <2>1. reviewList' = [reviewList EXCEPT !.ls = ls, !.handle = handle, !.n = @ + 1]
    BY DEF Series
  <2> QED BY <1>1, <2>1 DEF Reviews
<1> HIDE DEF id, edited
<1>3. handle # <<>> /\ ~edited => Named(ls, id, handle[1])
  BY DEF id, edited
<1> QED BY <1>1, <1>2, <1>3, NextOfSeries

\* A handle whose text is deleted is given up; any other item is not the handle's.
LEMMA ReviewDeletesStays == ListInv /\ ReviewDeletes => ListInv'
<1> SUFFICES ASSUME ListInv, ReviewDeletes PROVE ListInv'
  OBVIOUS
<1> DEFINE ls == reviewList.ls
           h == reviewList.handle
           next(i) == IF h = <<ls[i].text>> THEN <<>> ELSE h
<1>1. reviewList.on /\ UNCHANGED <<doc, prior, did, steps>>
  BY DEF ReviewDeletes
<1>2. PICK ref \in Refs(ls) : \E i \in Resolves(ls, ref, h) : Series(DeleteChecklistItem(ls, i), next(i))
  BY DEF ReviewDeletes
<1>3. PICK i \in Resolves(ls, ref, h) : Series(DeleteChecklistItem(ls, i), next(i))
  BY <1>2
<1>4. /\ ls \in Seq(ListLines) /\ h \in Handles
      /\ h # <<>> /\ ~reviewList.edited => Named(ls, reviewList.added, h[1])
  BY <1>1, ReviewIsOn
<1> HIDE DEF ls, h
<1>5. i \in Items(ls)
  BY <1>4, RefIs
<1>6. DeleteChecklistItem(ls, i) \in Seq(ListLines)
  BY <1>4, <1>5, DeleteIsAList
<1>7. next(i) \in Handles /\ (next(i) # <<>> => next(i) = h /\ h # <<>> /\ ls[i].text # h[1])
  <2>1. CASE h = <<ls[i].text>>
    BY <2>1 DEF Handles
  <2>2. CASE h # <<ls[i].text>>
    <3>1. next(i) = h
      BY <2>2
    <3>2. h # <<>> => h = <<h[1]>>
      BY <1>4, HandleIs
    <3> QED BY <1>4, <2>2, <3>1, <3>2
  <2> QED BY <2>1, <2>2
<1> DEFINE handle == next(i)
<1> HIDE DEF next
<1>8. handle # <<>> /\ ~reviewList.edited => Named(DeleteChecklistItem(ls, i), reviewList.added, handle[1])
  <2> SUFFICES ASSUME handle # <<>>, ~reviewList.edited PROVE Named(DeleteChecklistItem(ls, i), reviewList.added, handle[1])
    OBVIOUS
  <2>1. handle = h /\ ls[i].text # h[1] /\ Named(ls, reviewList.added, h[1])
    BY <1>4, <1>7
  <2> QED BY <1>4, <1>5, <2>1, DeleteKeepsNamed
<1>9. Series(DeleteChecklistItem(ls, i), handle) /\ handle \in Handles
  BY <1>3, <1>7
<1> HIDE DEF handle
<1> QED BY <1>1, <1>6, <1>8, <1>9, SeriesStep

\* A move carries the handle's item along.
LEMMA ReviewMovesStays == ListInv /\ ReviewMoves => ListInv'
<1> SUFFICES ASSUME ListInv, ReviewMoves PROVE ListInv'
  OBVIOUS
<1> DEFINE ls == reviewList.ls
           h == reviewList.handle
<1>1. reviewList.on /\ UNCHANGED <<doc, prior, did, steps>>
  BY DEF ReviewMoves
<1>2. PICK ref \in Refs(ls), j \in Items(ls) : \E i \in Resolves(ls, ref, h) : MoveAllowed(ls, i, j) /\ Series(MoveChecklistItem(ls, i, j), h)
  BY DEF ReviewMoves
<1>3. PICK i \in Resolves(ls, ref, h) : MoveAllowed(ls, i, j) /\ Series(MoveChecklistItem(ls, i, j), h)
  BY <1>2
<1>4. /\ ls \in Seq(ListLines) /\ h \in Handles
      /\ h # <<>> /\ ~reviewList.edited => Named(ls, reviewList.added, h[1])
  BY <1>1, ReviewIsOn
<1> HIDE DEF ls, h
<1>5. i \in Items(ls)
  BY <1>4, RefIs
<1>6. MoveChecklistItem(ls, i, j) \in Seq(ListLines)
  BY <1>3, <1>4, <1>5, MoveIsAList
<1>7. h # <<>> /\ ~reviewList.edited => Named(MoveChecklistItem(ls, i, j), reviewList.added, h[1])
  BY <1>3, <1>4, <1>5, MoveKeepsNamed
<1> QED BY <1>1, <1>3, <1>4, <1>6, <1>7, SeriesStep

\* A mark leaves texts and ids.
LEMMA ReviewMarksStays == ListInv /\ ReviewMarksDone => ListInv'
<1> SUFFICES ASSUME ListInv, ReviewMarksDone PROVE ListInv'
  OBVIOUS
<1> DEFINE ls == reviewList.ls
           h == reviewList.handle
<1>1. reviewList.on /\ UNCHANGED <<doc, prior, did, steps>>
  BY DEF ReviewMarksDone
<1>2. PICK ref \in Refs(ls) : \E i \in Resolves(ls, ref, h) : Series(SetMark(ls, i, "x"), h)
  BY DEF ReviewMarksDone
<1>3. PICK i \in Resolves(ls, ref, h) : Series(SetMark(ls, i, "x"), h)
  BY <1>2
<1>4. /\ ls \in Seq(ListLines) /\ h \in Handles
      /\ h # <<>> /\ ~reviewList.edited => Named(ls, reviewList.added, h[1])
  BY <1>1, ReviewIsOn
<1> HIDE DEF ls, h
<1>5. i \in Items(ls)
  BY <1>4, RefIs
<1> DEFINE ms == SetMark(ls, i, "x")
<1>6. Rewritten(ls, ms, i) /\ ms[i].text = ls[i].text
  <2>1. "x" \in ListMarks
    BY DEF ListMarks
  <2> QED BY <1>4, <1>5, <2>1, MarkingRewrites
<1> HIDE DEF ms
<1>7. ms \in Seq(ListLines) /\ \A k \in Items(ls) : k \in Items(ms) /\ ms[k].id = ls[k].id /\ ms[k].text = ls[k].text
  BY <1>4, <1>5, <1>6, RewriteKeeps
<1>8. h # <<>> /\ ~reviewList.edited => Named(ms, reviewList.added, h[1])
  BY <1>4, <1>7 DEF Named
<1>9. Series(ms, h)
  BY <1>3 DEF ms
<1> QED BY <1>1, <1>4, <1>7, <1>8, <1>9, SeriesStep

\* A handle follows the edited text; if it was another item's, the series says so (edited).
LEMMA ReviewEditsStays == ListInv /\ ReviewEdits => ListInv'
<1> SUFFICES ASSUME ListInv, ReviewEdits PROVE ListInv'
  OBVIOUS
<1> DEFINE ls == reviewList.ls
           h == reviewList.handle
           id == reviewList.added
           was == reviewList.edited
<1>1. reviewList.on /\ UNCHANGED <<doc, prior, did, steps>>
  BY DEF ReviewEdits
<1>2. PICK ref \in Refs(ls), t \in Texts : \E i \in Resolves(ls, ref, h) :
        reviewList' = [reviewList EXCEPT !.ls = EditChecklistItemText(ls, i, t), !.handle = IF @ = <<ls[i].text>> THEN <<t>> ELSE @,
                                 !.edited = @ \/ ls[i].id # id, !.n = @ + 1]
  BY DEF ReviewEdits
<1>3. PICK i \in Resolves(ls, ref, h) :
        reviewList' = [reviewList EXCEPT !.ls = EditChecklistItemText(ls, i, t), !.handle = IF @ = <<ls[i].text>> THEN <<t>> ELSE @,
                                 !.edited = @ \/ ls[i].id # id, !.n = @ + 1]
  BY <1>2
<1>4. /\ reviewList \in Reviews /\ ls \in Seq(ListLines) /\ h \in Handles /\ id \in Nat /\ was \in BOOLEAN
      /\ h # <<>> /\ ~was => Named(ls, id, h[1])
  BY <1>1, ReviewIsOn
<1> DEFINE ms == EditChecklistItemText(ls, i, t)
           handle == IF h = <<ls[i].text>> THEN <<t>> ELSE h
           edited == was \/ ls[i].id # id
<1>5. reviewList' = [reviewList EXCEPT !.ls = ms, !.handle = handle, !.added = id, !.edited = edited, !.n = @ + 1]
  <2>1. reviewList' = [reviewList EXCEPT !.ls = ms, !.handle = handle, !.edited = edited, !.n = @ + 1]
    BY <1>3
  <2> HIDE DEF ms, handle, edited
  <2> QED BY <1>4, <2>1 DEF Reviews
<1> HIDE DEF ls, h, id, was
<1>6. i \in Items(ls)
  BY <1>4, RefIs
<1>7. Rewritten(ls, ms, i) /\ ms[i].text = t
  BY <1>4, <1>6, EditingRewrites
<1> HIDE DEF ms
<1>8. ms \in Seq(ListLines) /\ \A k \in Items(ls) : k \in Items(ms) /\ ms[k].id = ls[k].id /\ (k # i => ms[k] = ls[k])
  BY <1>4, <1>6, <1>7, RewriteKeeps
<1>9. handle \in Handles /\ edited \in BOOLEAN
  <2>1. edited \in BOOLEAN
    BY <1>4
  <2>2. <<t>> \in Handles
    BY DEF Handles
  <2> QED BY <1>4, <2>1, <2>2
<1>10. ASSUME handle # <<>>, ~edited PROVE Named(ms, id, handle[1])
  <2>1. ~was /\ ls[i].id = id
    BY <1>10
  <2>2. CASE h = <<ls[i].text>>
    <3>1. handle[1] = t
      BY <2>2
    <3> QED BY <1>6, <1>7, <1>8, <2>1, <3>1 DEF Named
  <2>3. CASE h # <<ls[i].text>>
    <3>1. handle = h /\ h # <<>>
      BY <1>10, <2>3
    <3>2. h = <<h[1]>> /\ Named(ls, id, h[1])
      BY <1>4, <2>1, <3>1, HandleIs
    <3>3. PICK k \in Items(ls) : ls[k].id = id /\ ls[k].text = h[1]
      BY <3>2 DEF Named
    <3>4. k # i
      BY <2>3, <3>2, <3>3
    <3> QED BY <1>8, <3>1, <3>3, <3>4 DEF Named
  <2> QED BY <2>2, <2>3
<1> HIDE DEF handle, edited
<1> QED BY <1>1, <1>4, <1>5, <1>8, <1>9, <1>10, NextOfSeries

\* The series is written; no edit follows it.
LEMMA CommitStays ==
  ASSUME ListInv, NEW ms \in Seq(ListLines), NEW e, doc' = ms, did' = e, reviewList' = NoReview, steps' = MaxSteps,
         e.op \notin {"delete", "move", "add"}, e.op = "sendHandle" /\ ~e.edited => e.item = e.to
  PROVE  ListInv'
<1>1. LocalEdit(prior', ms, e)
  BY OtherIsLocal
<1>2. ListEditsAreLocal'
  BY <1>1, LocalNext
<1>3. steps' \in Nat /\ ~(steps' < MaxSteps)
  BY ChecklistAssumption
<1>4. ReviewIs'
  BY DEF ReviewIs
<1> QED BY <1>2, <1>3, <1>4 DEF ListInv

\* A handle that resolves does so to one item, which is the one it follows.
LEMMA ReviewCommitsStays == ListInv /\ ReviewCommits => ListInv'
<1> SUFFICES ASSUME ListInv, ReviewCommits PROVE ListInv'
  OBVIOUS
<1> DEFINE ls == reviewList.ls
           h == reviewList.handle
           id == reviewList.added
           was == reviewList.edited
<1>1. reviewList.on /\ reviewList' = NoReview /\ steps' = MaxSteps
  BY DEF ReviewCommits
<1>2. /\ ls \in Seq(ListLines) /\ h \in Handles
      /\ h # <<>> /\ ~was => Named(ls, id, h[1])
  BY <1>1, ReviewIsOn
<1>3. CASE \E ref \in Refs(ls) : \E i \in Resolves(ls, ref, h) :
             /\ doc' = SetMark(ls, i, "-")
             /\ did' = [op |-> IF ref.by = "handle" THEN "sendHandle" ELSE "send", item |-> ls[i].id, to |-> id, edited |-> was]
  <2>1. PICK ref \in Refs(ls) : \E i \in Resolves(ls, ref, h) :
             /\ doc' = SetMark(ls, i, "-")
             /\ did' = [op |-> IF ref.by = "handle" THEN "sendHandle" ELSE "send", item |-> ls[i].id, to |-> id, edited |-> was]
    BY <1>3
  <2>2. PICK i \in Resolves(ls, ref, h) :
             /\ doc' = SetMark(ls, i, "-")
             /\ did' = [op |-> IF ref.by = "handle" THEN "sendHandle" ELSE "send", item |-> ls[i].id, to |-> id, edited |-> was]
    BY <2>1
  <2> HIDE DEF ls, h, id, was
  <2>3. i \in Items(ls)
    BY <1>2, RefIs
  <2> DEFINE ms == SetMark(ls, i, "-")
             e == [op |-> IF ref.by = "handle" THEN "sendHandle" ELSE "send", item |-> ls[i].id, to |-> id, edited |-> was]
  <2>4. ms \in Seq(ListLines)
    <3>1. "-" \in ListMarks
      BY DEF ListMarks
    <3>2. Rewritten(ls, ms, i)
      BY <1>2, <2>3, <3>1, MarkingRewrites
    <3> QED BY <3>2 DEF Rewritten
  <2>5. e.op \notin {"delete", "move", "add"}
    OBVIOUS
  <2>6. ASSUME e.op = "sendHandle", ~e.edited PROVE e.item = e.to
    <3>1. ref.by = "handle" /\ ~was
      BY <2>6
    <3>2. h # <<>> /\ \A k \in Items(ls) : ls[k].text = h[1] => k = i
      BY <3>1 DEF Resolves
    <3>3. Named(ls, id, h[1])
      BY <1>2, <3>1, <3>2
    <3>4. ls[i].id = id
      BY <3>2, <3>3 DEF Named
    <3> QED BY <3>4
  <2>7. doc' = ms /\ did' = e
    BY <2>2
  <2> HIDE DEF ms, e
  <2> QED BY <1>1, <2>4, <2>5, <2>6, <2>7, CommitStays
<1>4. CASE doc' = ls /\ did' = [op |-> "noop", item |-> 0, to |-> 0]
  <2> DEFINE e == [op |-> "noop", item |-> 0, to |-> 0]
  <2>1. e.op \notin {"delete", "move", "add"} /\ e.op # "sendHandle"
    OBVIOUS
  <2> HIDE DEF ls, e
  <2>2. did' = e
    BY <1>4 DEF e
  <2> QED BY <1>1, <1>2, <1>4, <2>1, <2>2, CommitStays
<1> QED BY <1>3, <1>4 DEF ReviewCommits

\* A series that fails leaves the file as it was.
LEMMA ReviewFailsStays == ListInv /\ ReviewFails => ListInv'
BY SeriesStays DEF ReviewFails

\* Every step preserves the invariant.
LEMMA ListInvStep == ListInv /\ [NextList]_listVars => ListInv'
<1> SUFFICES ASSUME ListInv, [NextList]_listVars PROVE ListInv'
  OBVIOUS
<1>1. CASE DeleteTask \/ MoveTask \/ AddTask \/ SetTaskDone
  BY <1>1, EditsStay
<1>2. CASE \/ ReviewStarts \/ ReviewAdds \/ ReviewDeletes \/ ReviewEdits \/ ReviewMoves \/ ReviewMarksDone
           \/ ReviewCommits \/ ReviewFails
  BY <1>2, ReviewStartsStays, ReviewAddsStays, ReviewDeletesStays, ReviewEditsStays, ReviewMovesStays, ReviewMarksStays,
     ReviewCommitsStays, ReviewFailsStays
<1>3. CASE UNCHANGED listVars
  <2>1. doc' = doc /\ prior' = prior /\ did' = did /\ reviewList' = reviewList /\ steps' = steps
    BY <1>3 DEF listVars
  <2> QED BY <2>1, SeriesStays DEF ListInv, ReviewIs
<1> QED BY <1>1, <1>2, <1>3 DEF NextList

\* Whatever the document, the edits and the review: in a tidy list no edit touches
\* another task's detail or nesting, a move lands where it was said to, and a step
\* among siblings is not refused; in any list a new task is bare and a handle names
\* the item its add created, unless another item was edited (tasklist.go's
\* DeleteChecklistItem, MoveChecklistItem, AppendChecklistItem; taskactions.go's
\* applyTaskAction and ResolveTaskActionRef).
THEOREM ListEditsAlwaysLocal == SpecList => []ListEditsAreLocal
<1>1. ListInv => ListEditsAreLocal
  BY DEF ListInv
<1> QED BY <1>1, ListInvInit, ListInvStep, PTL DEF SpecList
=============================================================================
