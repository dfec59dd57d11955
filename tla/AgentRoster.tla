----------------------------- MODULE AgentRoster -----------------------------
(* Who is on which pane, as one node's store knows it: the roster that full   *)
(* listings and single events keep (daemon/roster.go, store/agentroster.go).  *)
(*                                                                            *)
(* herdr reuses pane ids, and an agent id is a pane id: a tenant of a pane is *)
(* told from the next one by its terminal id only, which listings carry and   *)
(* events do not.                                                             *)
EXTENDS Integers, Sequences, FiniteSets

CONSTANTS Panes, MaxTenants, MaxEvents, MaxRosterRestarts

ASSUME RosterAssumption == MaxTenants \in Nat /\ MaxEvents \in Nat /\ MaxRosterRestarts \in Nat

VARIABLES
  herd,     \* what herdr runs: a terminal per pane, 0 for none
  tenants,  \* terminals given out so far
  events,   \* transitions the daemon has not handled, by pane
  roster,   \* agent_roster: [term, gone] or NoRow
  tomb,     \* agent_roster_tombstones: panes a full listing retired
  pending,  \* rosterPending: the listing to publish next
  pass,     \* runRosterPasses: "off", "on", or the listing it is publishing
  tick,     \* the roster tick's own listing, taken and not handed over
  retired,  \* history: panes a listing retired and no tenant moved into since
  rosterRestarts

rosterVars == <<herd, tenants, events, roster, tomb, pending, pass, tick, retired, rosterRestarts>>

NoRow == [term |-> 0, gone |-> TRUE, row |-> FALSE]
NoListing == [on |-> FALSE]

InitRoster ==
  /\ herd = [p \in Panes |-> 0] /\ tenants = 0 /\ events = << >>
  /\ roster = [p \in Panes |-> NoRow] /\ tomb = {}
  /\ pending = NoListing /\ pass = "off" /\ tick = NoListing
  /\ retired = {} /\ rosterRestarts = 0

-----------------------------------------------------------------------------
(* The herd *)

Arrives(p) ==
  /\ herd[p] = 0 /\ tenants < MaxTenants
  /\ tenants' = tenants + 1 /\ herd' = [herd EXCEPT ![p] = tenants + 1]
  /\ retired' = retired \ {p}
  /\ UNCHANGED <<events, roster, tomb, pending, pass, tick, rosterRestarts>>

Leaves(p) ==
  /\ herd[p] # 0 /\ herd' = [herd EXCEPT ![p] = 0]
  /\ UNCHANGED <<tenants, events, roster, tomb, pending, pass, tick, retired, rosterRestarts>>

Emits(p) ==
  /\ herd[p] # 0 /\ Len(events) < MaxEvents
  /\ events' = Append(events, p)
  /\ UNCHANGED <<herd, tenants, roster, tomb, pending, pass, tick, retired, rosterRestarts>>

\* ListAgents, at this moment.
Listing == [on |-> TRUE, agents |-> {<<p, herd[p]>> : p \in {q \in Panes : herd[q] # 0}}]
Listed(l, p) == \E a \in l.agents : a[1] = p
TermIn(l, p) == (CHOOSE a \in l.agents : a[1] = p)[2]

LivePanes == {p \in Panes : roster[p].row /\ ~roster[p].gone}

-----------------------------------------------------------------------------
(* Writing the roster *)

\* Mutant: what a listing retired is remembered in the wide row only.
UpsertRosterAgentRowOnly(p) ==
  IF roster[p].row THEN roster ELSE [roster EXCEPT ![p] = [term |-> 0, gone |-> FALSE, row |-> TRUE]]

\* An event is not authoritative: it may not bring back what a listing retired,
\* it keeps gone_at as it is, and it carries no terminal id.
UpsertRosterAgent(p) ==
  IF p \in tomb \/ roster[p].row THEN roster
  ELSE [roster EXCEPT ![p] = [term |-> 0, gone |-> FALSE, row |-> TRUE]]

NoteRosterTransition ==
  /\ events # << >>
  /\ roster' = UpsertRosterAgent(Head(events)) /\ events' = Tail(events)
  /\ UNCHANGED <<herd, tenants, tomb, pending, pass, tick, retired, rosterRestarts>>

\* Mutant: an agent that vanished is left as it is.
AbsentNever(l) == {}

\* The live rows a listing does not show.
Absent(l) == {p \in Panes : roster[p].row /\ ~roster[p].gone /\ ~Listed(l, p)}

\* A full listing: rows of the panes it shows (a recycled pane's row starts
\* anew), gone_at and a tombstone for the rest.
PublishRoster(l) ==
  /\ roster' = [p \in Panes |->
       IF Listed(l, p) THEN [term |-> TermIn(l, p), gone |-> FALSE, row |-> TRUE]
       ELSE IF p \in Absent(l) THEN [roster[p] EXCEPT !.gone = TRUE] ELSE roster[p]]
  /\ tomb' = {p \in tomb : ~Listed(l, p)} \cup Absent(l)
  /\ retired' = {p \in retired : ~Listed(l, p)} \cup {p \in Absent(l) : herd[p] = 0}

\* PruneAgedRows: a retired row, once its tombstone stands for it.
PruneRetired ==
  /\ \E p \in tomb : roster[p].row /\ roster[p].gone
  /\ roster' = [p \in Panes |-> IF p \in tomb /\ roster[p].gone THEN NoRow ELSE roster[p]]
  /\ UNCHANGED <<herd, tenants, events, tomb, pending, pass, tick, retired, rosterRestarts>>

\* publishRoster: the listing replaces the pending one, and a pass is started
\* unless one runs.
HandOver(l) == pending' = l /\ pass' = IF pass = "off" THEN "on" ELSE pass

\* Mutant: the pass stands down in a step of its own, after it found no work.
RosterPassLate ==
  /\ pass \in {"on", "leaving"}
  /\ pass' = IF pass = "leaving" THEN "off" ELSE IF pending = NoListing THEN "leaving" ELSE "busy"
  /\ pending' = IF pass = "on" THEN NoListing ELSE pending
  /\ IF pass = "on" /\ pending # NoListing THEN PublishRoster(pending) ELSE UNCHANGED <<roster, tomb, retired>>
  /\ UNCHANGED <<herd, tenants, events, tick, rosterRestarts>>

\* runRosterPasses: takes the pending listing and publishes it; finding none
\* and standing down are one critical section.
RosterPass ==
  /\ pass = "on"
  /\ pass' = IF pending = NoListing THEN "off" ELSE "busy"
  /\ pending' = NoListing
  /\ IF pending # NoListing THEN PublishRoster(pending) ELSE UNCHANGED <<roster, tomb, retired>>
  /\ UNCHANGED <<herd, tenants, events, tick, rosterRestarts>>

\* Locations and working directories are read after the publish; nothing the
\* roster promises depends on them.
RosterPassReads ==
  /\ pass = "busy" /\ pass' = "on"
  /\ UNCHANGED <<herd, tenants, events, roster, tomb, pending, tick, retired, rosterRestarts>>

\* The tick's goroutine lists and hands over on its own while a TUI is open.
RosterTickLists ==
  /\ tick = NoListing /\ tick' = Listing
  /\ UNCHANGED <<herd, tenants, events, roster, tomb, pending, pass, retired, rosterRestarts>>

RosterTickPublishes ==
  /\ tick # NoListing /\ HandOver(tick) /\ tick' = NoListing
  /\ UNCHANGED <<herd, tenants, events, roster, tomb, retired, rosterRestarts>>

-----------------------------------------------------------------------------
\* The main loop's own listings: the startup reconcile and the minute sweep.
SweepPublishes ==
  /\ HandOver(Listing)
  /\ UNCHANGED <<herd, tenants, events, roster, tomb, tick, retired, rosterRestarts>>

\* A restart forgets the listings under way; the store stays.
RosterRestart ==
  /\ rosterRestarts < MaxRosterRestarts /\ rosterRestarts' = rosterRestarts + 1
  /\ pending' = NoListing /\ pass' = "off" /\ tick' = NoListing /\ events' = << >>
  /\ UNCHANGED <<herd, tenants, roster, tomb, retired>>

-----------------------------------------------------------------------------
NextRoster ==
  \/ \E p \in Panes : Arrives(p) \/ Leaves(p) \/ Emits(p)
  \/ NoteRosterTransition \/ SweepPublishes \/ RosterPass \/ RosterPassReads
  \/ RosterTickLists \/ RosterTickPublishes \/ PruneRetired \/ RosterRestart

SpecRoster == InitRoster /\ [][NextRoster]_rosterVars

\* The main loop's select takes every ready case in time (its sweep is a ticker's)
\* and goroutines that were started go on.
FairRoster ==
  /\ WF_rosterVars(NoteRosterTransition) /\ WF_rosterVars(SweepPublishes)
  /\ WF_rosterVars(RosterPass) /\ WF_rosterVars(RosterPassReads) /\ WF_rosterVars(RosterTickPublishes)

FairSpecRoster == SpecRoster /\ FairRoster

-----------------------------------------------------------------------------
\* An agent a full listing retired is not shown live again by transitions that
\* were still buffered, also after its row was pruned; a listing taken before it
\* left may show it once more, until the next one.
RetiredStaysGone == \A p \in retired : p \notin LivePanes

\* A listing handed over is never left lying: a pass runs as long as one is
\* pending, so the last listing taken is the one that ends up stored.
NoStrandedListing == pending # NoListing => pass # "off"

\* Once the herd stands still the roster shows exactly who is there.
RosterSettles ==
  \A p \in Panes : (<>[](herd[p] = 0) => <>[](p \notin LivePanes))
                /\ \A t \in 1..MaxTenants : <>[](herd[p] = t) => <>[](p \in LivePanes /\ roster[p].term = t)

\* What the roster promises those that read it: it ends at the herd as it is, by way of
\* no listing that was left lying and no agent that came back from the dead.
RosterFollowsTheHerd == [](RetiredStaysGone /\ NoStrandedListing) /\ RosterSettles
=============================================================================
