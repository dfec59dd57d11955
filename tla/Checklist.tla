----------------------------- MODULE Checklist -----------------------------
(* A task list as a Markdown file: what a line belongs to is told by its     *)
(* indent alone, and tasks are addressed by position. The edits of           *)
(* domain/tasklist.go, the series a review submits (taskactions.go) and its   *)
(* commit (taskfile.ApplyReview), over every small document.                  *)
EXTENDS Integers, Sequences, FiniteSets

CONSTANTS
  Texts,       \* task texts; two tasks may have the same
  MaxLines,    \* lines of the documents of Init
  MaxIndent,   \* deepest indent
  MaxItems,    \* max_tasks of the source
  MaxSteps,    \* edits
  ReviewLines, \* lines of the documents that are reviewed
  MaxActions   \* actions of one review

ASSUME ChecklistAssumption ==
  MaxLines \in Nat \ {0} /\ MaxIndent \in Nat /\ MaxItems \in Nat /\ MaxSteps \in Nat
  /\ ReviewLines \in Nat /\ MaxActions \in Nat

VARIABLES
  doc,      \* the lines of the file; a line keeps its id wherever it goes
  prior,    \* the lines before the last edit
  did,      \* the last edit
  reviewList,   \* a series being applied, inside the lock
  steps     \* edits so far

listVars == <<doc, prior, did, reviewList, steps>>

Blank == [kind |-> "blank", d |-> 0, text |-> "", mark |-> ""]
LineKinds ==
  {Blank}
  \cup [kind : {"item"}, d : 0..MaxIndent, text : Texts, mark : {" "}]
  \cup [kind : {"prose"}, d : 0..MaxIndent, text : {""}, mark : {""}]

Numbered(ls) == [i \in DOMAIN ls |-> [kind |-> ls[i].kind, d |-> ls[i].d, text |-> ls[i].text, mark |-> ls[i].mark, id |-> i]]

NewId == MaxLines + 1 + steps
NoEdit == [op |-> "none", item |-> 0, to |-> 0]
NoReview == [on |-> FALSE]

-----------------------------------------------------------------------------
(* Reading: ParseChecklist and what belongs to an item *)

Items(ls) == {i \in DOMAIN ls : ls[i].kind = "item"}
Position(ls, i) == Cardinality({j \in Items(ls) : j <= i})
LineAt(ls, n) == CHOOSE i \in Items(ls) : Position(ls, i) = n
Positions(ls) == 1..Cardinality(Items(ls))

MaxLine(S) == CHOOSE x \in S : \A y \in S : y <= x
MinLine(S) == CHOOSE x \in S : \A y \in S : x <= y

\* nestedContinuationLines, detailBlockEnd: deeper lines and blanks up to the
\* next item, without the blanks at the end. The last line of the block.
DetailEnd(ls, i) ==
  MaxLine({i} \cup {j \in i+1..Len(ls) :
    /\ ls[j].kind = "prose"
    /\ \A k \in i+1..j : ls[k].kind = "blank" \/ (ls[k].kind = "prose" /\ ls[k].d > ls[i].d)})

\* subtreeEnd: everything deeper, items too.
SubtreeEnd(ls, i) ==
  MaxLine({i} \cup {j \in i+1..Len(ls) :
    /\ ls[j].kind # "blank"
    /\ \A k \in i+1..j : ls[k].kind # "blank" => ls[k].d > ls[i].d})

\* FoldTaskContentAt: what is delivered for an item.
Folded(ls, i) == [k \in 1..(DetailEnd(ls, i) - i + 1) |-> ls[i + k - 1].id]

\* checklistParent: the nearest item above that is less indented.
Parent(ls, i) ==
  LET above == {j \in Items(ls) : j < i /\ ls[j].d < ls[i].d}
  IN  IF above = {} THEN 0 ELSE MaxLine(above)

SubtreeSize(ls, i) ==
  Cardinality({j \in Items(ls) : j >= i /\ \A k \in Items(ls) : i < k /\ k <= j => ls[k].d > ls[i].d})

\* Mutant: the next position, whatever is there.
NextPosition(ls, i, delta) ==
  LET n == Position(ls, i) + delta IN IF n \in Positions(ls) THEN n ELSE 0

\* SiblingPosition: one sibling up or down, 0 for none.
SiblingPosition(ls, i, delta) ==
  LET beyond == {j \in Items(ls) : IF delta > 0 THEN j > i ELSE j < i}
      between(j) == {k \in beyond : IF delta > 0 THEN k < j ELSE k > j}
      next == {j \in beyond : /\ Parent(ls, j) = Parent(ls, i)
                              /\ \A k \in between(j) : Parent(ls, k) # Parent(ls, i) /\ ls[k].d >= ls[i].d}
  IN  IF next = {} THEN 0 ELSE Position(ls, CHOOSE j \in next : TRUE)

-----------------------------------------------------------------------------
(* Writing *)

Without(ls, from, to) == SubSeq(ls, 1, from - 1) \o SubSeq(ls, to + 1, Len(ls))
InsertedAfter(ls, at, block) == SubSeq(ls, 1, at) \o block \o SubSeq(ls, at + 1, Len(ls))

\* Mutant: only the item's own line goes.
DeleteChecklistItemLine(ls, i) == Without(ls, i, i)

DeleteChecklistItem(ls, i) == Without(ls, i, DetailEnd(ls, i))

\* Mutant: the same depth is enough.
MoveAllowedByDepth(ls, i, j) == i # j /\ ls[i].d = ls[j].d

\* MoveChecklistItem: refused across parents, and where lines and items
\* disagree on what is nested.
MoveAllowed(ls, i, j) ==
  /\ i # j /\ Parent(ls, i) = Parent(ls, j)
  /\ Cardinality({k \in Items(ls) : k >= i /\ k <= SubtreeEnd(ls, i)}) = SubtreeSize(ls, i)

\* The block is cut first; where it goes is found in what remains.
MoveChecklistItem(ls, i, j) ==
  LET end == SubtreeEnd(ls, i)
      block == SubSeq(ls, i, end)
      rest == Without(ls, i, end)
      anchor == LineAt(rest, Position(ls, j) - (IF j > i THEN SubtreeSize(ls, i) ELSE 0))
  IN  InsertedAfter(rest, IF j > i THEN SubtreeEnd(rest, anchor) ELSE anchor - 1, block)

\* Mutant: right after the last item and its detail.
AppendAtDetail(ls, indent) == DetailEnd(ls, MaxLine(Items(ls)))

\* AppendChecklistItem: past the last item's detail and past what would nest
\* under the new line, then back over the blanks.
AppendAt(ls, indent) ==
  LET past == DetailEnd(ls, MaxLine(Items(ls)))
      stop == {j \in past+1..Len(ls) : ls[j].kind # "blank" /\ ls[j].d <= indent}
      upTo == IF stop = {} THEN Len(ls) ELSE MinLine(stop) - 1
  IN  MaxLine({j \in 1..upTo : ls[j].kind # "blank"})

AppendChecklistItem(ls, text, id) ==
  LET item(indent) == [kind |-> "item", d |-> indent, text |-> text, mark |-> " ", id |-> id]
      end == IF Len(ls) > 0 /\ ls[Len(ls)].kind = "blank" THEN Len(ls) - 1 ELSE Len(ls)
  IN  IF Items(ls) = {}
      THEN SubSeq(ls, 1, end) \o <<item(0), [kind |-> "blank", d |-> 0, text |-> "", mark |-> "", id |-> 0]>>
      ELSE LET indent == ls[MinLine(Items(ls))].d
           IN  InsertedAfter(ls, AppendAt(ls, indent), <<item(indent)>>)

\* rewriteChecklistLine
SetMark(ls, i, mark) == [ls EXCEPT ![i].mark = mark]
EditChecklistItemText(ls, i, text) == [ls EXCEPT ![i].text = text]

ListEdited(next, what) ==
  /\ reviewList = NoReview /\ steps < MaxSteps /\ steps' = steps + 1
  /\ doc' = next /\ prior' = doc /\ did' = what /\ UNCHANGED reviewList

DeleteTask ==
  \E i \in Items(doc) : ListEdited(DeleteChecklistItem(doc, i), [op |-> "delete", item |-> doc[i].id, to |-> 0])

\* MoveTask, and the TUI's K and J, which take one step among siblings.
MoveTask ==
  /\ \E i, j \in Items(doc) :
       /\ MoveAllowed(doc, i, j)
       /\ ListEdited(MoveChecklistItem(doc, i, j), [op |-> "move", item |-> doc[i].id, to |-> Position(doc, j)])

\* AddTask, within the source's cap.
AddTask ==
  /\ Cardinality(Items(doc)) < MaxItems
  /\ \E t \in Texts : ListEdited(AppendChecklistItem(doc, t, NewId), [op |-> "add", item |-> NewId, to |-> 0])

SetTaskDone ==
  /\ \E i \in Items(doc), done \in BOOLEAN :
       ListEdited(SetMark(doc, i, IF done THEN "x" ELSE " "), [op |-> "mark", item |-> doc[i].id, to |-> 0])

-----------------------------------------------------------------------------
(* A review's series, applied to a copy and written at the end or not at all *)

\* References: a position, or the handle of the add of this series.
Refs(ls) == {[by |-> "position", n |-> n] : n \in Positions(ls)} \cup {[by |-> "handle", n |-> 0]}

\* Mutant: the first of several items with the text.
ResolvesFirst(ls, ref, handle) ==
  IF ref.by = "position" THEN {LineAt(ls, ref.n)}
  ELSE LET twins == {i \in Items(ls) : handle # <<>> /\ ls[i].text = handle[1]}
       IN  IF twins = {} THEN {} ELSE {MinLine(twins)}

\* ResolveTaskActionRef: by text, and refused when the text is not unique. The
\* line, or nothing.
Resolves(ls, ref, handle) ==
  IF ref.by = "position" THEN {LineAt(ls, ref.n)}
  ELSE {i \in Items(ls) : /\ handle # <<>> /\ ls[i].text = handle[1]
                          /\ \A k \in Items(ls) : ls[k].text = handle[1] => k = i}

\* The reviewed task was expected at this place; the series starts.
ReviewStarts ==
  /\ reviewList = NoReview /\ steps = 0 /\ Items(doc) # {}
  /\ Len(doc) <= ReviewLines /\ \A i \in DOMAIN doc : doc[i].kind # "prose" /\ doc[i].d = 0
  /\ reviewList' = [on |-> TRUE, ls |-> doc, handle |-> <<>>, added |-> 0, edited |-> FALSE, n |-> 0]
  /\ UNCHANGED <<doc, prior, did, steps>>

Series(ls, handle) ==
  reviewList' = [reviewList EXCEPT !.ls = ls, !.handle = handle, !.n = @ + 1]

\* applyTaskAction
ReviewAdds ==
  /\ reviewList.on /\ reviewList.n < MaxActions /\ reviewList.handle = <<>> /\ reviewList.added = 0
  /\ Cardinality(Items(reviewList.ls)) < MaxItems
  /\ \E t \in Texts :
       reviewList' = [reviewList EXCEPT !.ls = AppendChecklistItem(reviewList.ls, t, NewId), !.handle = <<t>>,
                                !.added = NewId, !.n = @ + 1]
  /\ UNCHANGED <<doc, prior, did, steps>>

\* A handle of the deleted text stops resolving.
ReviewDeletes ==
  /\ reviewList.on /\ reviewList.n < MaxActions
  /\ \E ref \in Refs(reviewList.ls) : \E i \in Resolves(reviewList.ls, ref, reviewList.handle) :
       Series(DeleteChecklistItem(reviewList.ls, i),
              IF reviewList.handle = <<reviewList.ls[i].text>> THEN <<>> ELSE reviewList.handle)
  /\ UNCHANGED <<doc, prior, did, steps>>

\* A handle of the old text follows to the new one, whichever item was edited.
ReviewEdits ==
  /\ reviewList.on /\ reviewList.n < MaxActions
  /\ \E ref \in Refs(reviewList.ls), t \in Texts : \E i \in Resolves(reviewList.ls, ref, reviewList.handle) :
       reviewList' = [reviewList EXCEPT !.ls = EditChecklistItemText(reviewList.ls, i, t),
                                !.handle = IF @ = <<reviewList.ls[i].text>> THEN <<t>> ELSE @,
                                !.edited = @ \/ reviewList.ls[i].id # reviewList.added,
                                !.n = @ + 1]
  /\ UNCHANGED <<doc, prior, did, steps>>

ReviewMoves ==
  /\ reviewList.on /\ reviewList.n < MaxActions
  /\ \E ref \in Refs(reviewList.ls), j \in Items(reviewList.ls) : \E i \in Resolves(reviewList.ls, ref, reviewList.handle) :
       MoveAllowed(reviewList.ls, i, j) /\ Series(MoveChecklistItem(reviewList.ls, i, j), reviewList.handle)
  /\ UNCHANGED <<doc, prior, did, steps>>

ReviewMarksDone ==
  /\ reviewList.on /\ reviewList.n < MaxActions
  /\ \E ref \in Refs(reviewList.ls) : \E i \in Resolves(reviewList.ls, ref, reviewList.handle) :
       Series(SetMark(reviewList.ls, i, "x"), reviewList.handle)
  /\ UNCHANGED <<doc, prior, did, steps>>

\* ApplyReview's last steps: send_task is resolved in the final list and its
\* item reserved there; a noop only when nothing is pending.
ReviewCommits ==
  /\ reviewList.on
  /\ \/ \E ref \in Refs(reviewList.ls) : \E i \in Resolves(reviewList.ls, ref, reviewList.handle) :
          /\ reviewList.ls[i].mark = " "
          /\ doc' = SetMark(reviewList.ls, i, "-")
          /\ did' = [op |-> IF ref.by = "handle" THEN "sendHandle" ELSE "send", item |-> reviewList.ls[i].id, to |-> reviewList.added,
                     edited |-> reviewList.edited]
     \/ /\ \A i \in Items(reviewList.ls) : reviewList.ls[i].mark # " "
        /\ doc' = reviewList.ls /\ did' = [op |-> "noop", item |-> 0, to |-> 0]
  /\ prior' = doc /\ reviewList' = NoReview /\ steps' = MaxSteps

\* Any error, and the threshold: the file is left as it is.
ReviewFails ==
  /\ reviewList.on /\ reviewList' = NoReview /\ UNCHANGED <<doc, prior, did, steps>>

\* Short documents have tasks of every text, longer ones of one.
InitList ==
  /\ \E n \in 1..MaxLines : \E ls \in [1..n -> LineKinds] :
       /\ n > ReviewLines => \A i \in 1..n : ls[i].kind = "item" => ls[i].text = CHOOSE t \in Texts : TRUE
       /\ doc = Numbered(ls)
  /\ prior = doc /\ did = NoEdit /\ reviewList = NoReview /\ steps = 0

NextList ==
  \/ DeleteTask \/ MoveTask \/ AddTask \/ SetTaskDone
  \/ ReviewStarts \/ ReviewAdds \/ ReviewDeletes \/ ReviewEdits \/ ReviewMoves \/ ReviewMarksDone
  \/ ReviewCommits \/ ReviewFails

SpecList == InitList /\ [][NextList]_listVars

-----------------------------------------------------------------------------
(* Properties *)

Where(ls, id) == CHOOSE i \in DOMAIN ls : ls[i].id = id
IdsOf(ls) == {ls[i].id : i \in Items(ls)}

\* Every line of prose is some task's detail, or under no task at all; tasks at
\* one level have one indent, and lines and items agree on what is nested.
Tidy(ls) ==
  /\ \A k \in DOMAIN ls : ls[k].kind = "prose" =>
       \/ \E i \in Items(ls) : i < k /\ k <= DetailEnd(ls, i)
       \/ \A i \in Items(ls) : i < k => k > SubtreeEnd(ls, i)
  /\ \A i, j \in Items(ls) : Parent(ls, i) = Parent(ls, j) => ls[i].d = ls[j].d
  /\ \A i \in Items(ls) : Cardinality({k \in Items(ls) : k >= i /\ k <= SubtreeEnd(ls, i)}) = SubtreeSize(ls, i)

\* No edit of a tidy list hands one task's instructions to another: what is
\* delivered for a task that stays is what it was (detailBlockEnd,
\* DeleteChecklistItem, MoveChecklistItem, AppendChecklistItem).
DetailStaysWithItsTask ==
  did.op \in {"delete", "move", "add"} /\ Tidy(prior) =>
    \A id \in IdsOf(prior) \cap IdsOf(doc) : Folded(doc, Where(doc, id)) = Folded(prior, Where(prior, id))

\* A new task arrives bare in any list: it adopts no line written for another
\* (AppendChecklistItem).
NewTaskIsBare == did.op = "add" => Len(Folded(doc, Where(doc, did.item))) = 1

KeepsParents ==
  \A id \in IdsOf(doc) :
    LET p == Parent(prior, Where(prior, id)) q == Parent(doc, Where(doc, id))
    IN  IF p = 0 THEN q = 0 ELSE q # 0 /\ doc[q].id = prior[p].id

\* Refuted. A move never changes what a task is nested under (MoveChecklistItem:
\* "Re-parenting ... stays refused rather than done silently").
MoveKeepsParents == did.op = "move" => KeepsParents

\* In a tidy list a move keeps every parent, and the task lands where the mover
\* said it would (tui.go's cursor, the CLI's message).
MoveLandsWhereSaid ==
  did.op = "move" /\ Tidy(prior) =>
    LET i == Where(prior, did.item)
        j == LineAt(prior, did.to)
    IN  /\ KeepsParents
        /\ Position(doc, Where(doc, did.item)) =
             IF j > i THEN did.to + SubtreeSize(prior, j) - SubtreeSize(prior, i) ELSE did.to

\* One step up or down in a tidy list is a move MoveChecklistItem does not
\* refuse: it never crosses a parent (SiblingPosition, the K and J keys).
StepIsNeverRefused ==
  Tidy(doc) => \A i \in Items(doc), delta \in {-1, 1} :
                 LET n == SiblingPosition(doc, i, delta) IN n # 0 => MoveAllowed(doc, i, LineAt(doc, n))

\* Refuted. A handle names the item its add created (TaskActionResult.Handles,
\* "Keep a handle pointing at the item it named").
HandleNamesItsItem == did.op = "sendHandle" => did.item = did.to

\* It does when the series edited no other item: moves, deletions and twins
\* with the same text resolve to it or to nothing (ResolveTaskActionRef).
HandleNamesItsItemUnedited == did.op = "sendHandle" /\ ~did.edited => did.item = did.to

\* What the edits of a checklist promise: each touches the task it names, and no other
\* task's instructions, nesting or handle (tasklist.go, taskactions.go).
ListEditsAreLocal ==
  /\ DetailStaysWithItsTask
  /\ NewTaskIsBare
  /\ MoveLandsWhereSaid
  /\ StepIsNeverRefused
  /\ HandleNamesItsItemUnedited
=============================================================================
