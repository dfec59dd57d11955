---------------------------- MODULE EventStream ----------------------------
(***************************************************************************)
(* The subscriber to herdr's events (internal/herdr/events.go).  Two loops *)
(* each hold one connection: discovery hears panes come and go and agents  *)
(* being detected, status hears the status changes of the panes it named   *)
(* when it subscribed.  The status loop takes a listing before it          *)
(* subscribes and is torn down whenever discovery finds the set of panes   *)
(* changed; herdr sends nothing again, so what a connection did not carry  *)
(* comes back only through the next listing.                               *)
(***************************************************************************)
EXTENDS Naturals, Sequences, FiniteSets

CONSTANTS EventPanes,       \* pane ids of the herd
          AgentLabels,      \* agent types herdr detects
          MaxHappenings,    \* how often a pane or an agent changes
          MaxOverruns,      \* how often herdr reports events_lost
          MaxSocketCloses   \* how often herdr closes a connection

VARIABLES occupant,       \* what runs in each pane: "gone", "shell" or an agent label
          agentStatus,    \* the status herdr holds for the agent of the pane
          heard,          \* the last status the daemon was given for the pane
          paneLabel,      \* s.panes: the label cached per pane, "absent" when not tracked
          dirty,          \* s.dirty: the one-slot signal to the status loop
          watchedAs,      \* s.watched: the label each pane was last subscribed with
          subscribed,     \* s.subscribed
          resync,         \* s.resync
          statusLoop,     \* "list", "subscribe", "reading" or "cancelled"
          statusFrames,   \* frames written by herdr and not read by the status loop
          discoveryUp,    \* the discovery connection stands
          discoveryFrames,\* frames not read by the discovery loop
          evicted,        \* panes whose status herdr evicted, events_lost not yet read
          missed,         \* panes with a status change that reached no connection
          unannounced,    \* panes with a discovery event that reached no connection
          happenings, overruns, closes

eventVars == <<occupant, agentStatus, heard, paneLabel, dirty, watchedAs, subscribed,
               resync, statusLoop, statusFrames, discoveryUp, discoveryFrames,
               evicted, missed, unannounced, happenings, overruns, closes>>

subscriberVars == <<heard, paneLabel, dirty, watchedAs, subscribed, resync>>

Statuses == {"working", "idle"}

NoStatus == "none"

\* The frame a full reader is sent: events_lost, after which herdr closes.
EventsLost == [kind |-> "events_lost", pane |-> {}, value |-> NoStatus]

Frame(kind, p, value) == [kind |-> kind, pane |-> {p}, value |-> value]

InitEvents ==
  /\ occupant \in [EventPanes -> {"gone", "shell"} \cup AgentLabels]
  /\ agentStatus = [p \in EventPanes |->
                      IF occupant[p] \in AgentLabels THEN "working" ELSE NoStatus]
  /\ heard = agentStatus                  \* the daemon's startup reconcile
  /\ paneLabel = [p \in EventPanes |-> "absent"]
  /\ dirty = FALSE /\ watchedAs = [p \in EventPanes |-> "absent"]
  /\ subscribed = FALSE /\ resync = FALSE
  /\ statusLoop = "list" /\ statusFrames = <<>>
  /\ discoveryUp = FALSE /\ discoveryFrames = <<>>
  /\ evicted = {} /\ missed = {} /\ unannounced = {}
  /\ happenings = 0 /\ overruns = 0 /\ closes = 0

Watching(p) == statusLoop \in {"reading", "cancelled"} /\ watchedAs[p] # "absent"

Overrun(frames) == EventsLost \in {frames[i] : i \in 1..Len(frames)}

\* What a discovery event does to the discovery connection: it is queued
\* while the connection stands and has not overrun.
Announce(frame) ==
  /\ discoveryFrames' = IF discoveryUp /\ ~Overrun(discoveryFrames)
                        THEN Append(discoveryFrames, frame) ELSE discoveryFrames
  /\ unannounced' = IF discoveryUp THEN unannounced ELSE unannounced \cup frame.pane

\* What a status change does to the status connection.
Report(p, s) ==
  /\ statusFrames' = IF Watching(p) /\ ~Overrun(statusFrames)
                     THEN Append(statusFrames, Frame("status", p, s)) ELSE statusFrames
  /\ evicted' = IF Watching(p) /\ Overrun(statusFrames) THEN evicted \cup {p} ELSE evicted

\* A status change before the first subscription, or between two subscriptions
\* of a pane watched as an agent: no connection carries it and none replays it.
InGap(p) == ~Watching(p) /\ ~resync /\ (subscribed => watchedAs[p] \in AgentLabels)

SomethingHappens == happenings < MaxHappenings /\ happenings' = happenings + 1

PaneCreated(p) ==
  /\ SomethingHappens /\ occupant[p] = "gone"
  /\ occupant' = [occupant EXCEPT ![p] = "shell"]
  /\ Announce(Frame("created", p, NoStatus))
  /\ UNCHANGED <<missed, subscriberVars, agentStatus, statusLoop, statusFrames, discoveryUp,
                 evicted, overruns, closes>>

\* herdr emits the detection and the first status in one update.
AgentDetected(p, l, s) ==
  /\ SomethingHappens /\ occupant[p] # "gone" /\ occupant[p] # l
  /\ occupant' = [occupant EXCEPT ![p] = l]
  /\ agentStatus' = [agentStatus EXCEPT ![p] = s]
  /\ Announce(Frame("detected", p, l))
  /\ Report(p, s)
  /\ missed' = IF InGap(p) THEN missed \cup {p} ELSE missed
  /\ UNCHANGED <<subscriberVars, statusLoop, discoveryUp, overruns, closes>>

StatusChanges(p, s) ==
  /\ SomethingHappens /\ occupant[p] \in AgentLabels /\ agentStatus[p] # s
  /\ agentStatus' = [agentStatus EXCEPT ![p] = s]
  /\ Report(p, s)
  /\ missed' = IF InGap(p) THEN missed \cup {p} ELSE missed
  /\ UNCHANGED <<unannounced, subscriberVars, occupant, statusLoop, discoveryUp, discoveryFrames,
                 overruns, closes>>

\* The agent ends and leaves its shell: no event.
AgentLeaves(p) ==
  /\ SomethingHappens /\ occupant[p] \in AgentLabels
  /\ occupant' = [occupant EXCEPT ![p] = "shell"]
  /\ agentStatus' = [agentStatus EXCEPT ![p] = NoStatus]
  /\ UNCHANGED <<unannounced, subscriberVars, statusLoop, statusFrames, discoveryUp, discoveryFrames,
                 evicted, missed, overruns, closes>>

PaneExited(p) ==
  /\ SomethingHappens /\ occupant[p] # "gone"
  /\ occupant' = [occupant EXCEPT ![p] = "gone"]
  /\ agentStatus' = [agentStatus EXCEPT ![p] = NoStatus]
  /\ Announce(Frame("exited", p, NoStatus))
  /\ UNCHANGED <<missed, subscriberVars, statusLoop, statusFrames, discoveryUp, evicted,
                 overruns, closes>>

----------------------------------------------------------------------------
\* The discovery loop.

DiscoverySubscribes ==
  /\ ~discoveryUp /\ discoveryUp' = TRUE
  /\ UNCHANGED <<unannounced, subscriberVars, occupant, agentStatus, statusLoop, statusFrames,
                 discoveryFrames, evicted, missed, happenings, overruns, closes>>

\* upsertPane / removePane: does this frame change the tracked set of panes?
PaneSetChanges(frame, p) ==
  CASE frame.kind = "created"  -> paneLabel[p] = "absent"
    [] frame.kind = "detected" -> paneLabel[p] # frame.value
    [] OTHER                   -> paneLabel[p] # "absent"

Tracked(frame, p) ==
  CASE frame.kind = "created"  -> IF paneLabel[p] = "absent" THEN "shell" ELSE paneLabel[p]
    [] frame.kind = "detected" -> frame.value
    [] OTHER                   -> "absent"

DiscoveryReads ==
  /\ discoveryUp /\ discoveryFrames # <<>> /\ Head(discoveryFrames) # EventsLost
  /\ LET frame == Head(discoveryFrames) IN
       \E p \in frame.pane :
         /\ paneLabel' = [paneLabel EXCEPT ![p] = Tracked(frame, p)]
         /\ dirty' = (dirty \/ PaneSetChanges(frame, p))
  /\ discoveryFrames' = Tail(discoveryFrames)
  /\ UNCHANGED <<unannounced, occupant, agentStatus, heard, watchedAs, subscribed, resync, statusLoop,
                 statusFrames, discoveryUp, evicted, missed, happenings, overruns, closes>>

\* herdr evicts what discovery has not read and closes the connection.
DiscoveryOverruns ==
  /\ overruns < MaxOverruns /\ overruns' = overruns + 1
  /\ discoveryUp /\ ~Overrun(discoveryFrames)
  /\ discoveryFrames' = <<EventsLost>>
  /\ UNCHANGED <<unannounced, subscriberVars, occupant, agentStatus, statusLoop, statusFrames,
                 discoveryUp, evicted, missed, happenings, closes>>

SignalsAfterLossNever == FALSE

\* The stream ended with errEventsLost: the status loop is made to list again.
SignalsAfterLoss == Overrun(discoveryFrames)

DiscoveryLearnsOfLoss ==
  /\ discoveryUp /\ discoveryFrames # <<>> /\ Head(discoveryFrames) = EventsLost
  /\ dirty' = (dirty \/ SignalsAfterLoss)
  /\ discoveryUp' = FALSE /\ discoveryFrames' = <<>>
  /\ UNCHANGED <<unannounced, occupant, agentStatus, heard, paneLabel, watchedAs, subscribed, resync,
                 statusLoop, statusFrames, evicted, missed, happenings, overruns, closes>>

\* The panes the unread frames are about: what a closed connection takes along.
About(frames) == UNION {frames[i].pane : i \in 1..Len(frames)}

DiscoveryCloses ==
  /\ closes < MaxSocketCloses /\ closes' = closes + 1
  /\ discoveryUp /\ ~Overrun(discoveryFrames)
  /\ discoveryUp' = FALSE /\ discoveryFrames' = <<>>
  /\ unannounced' = unannounced \cup About(discoveryFrames)
  /\ UNCHANGED <<missed, subscriberVars, occupant, agentStatus, statusLoop, statusFrames, evicted,
                 happenings, overruns>>

----------------------------------------------------------------------------
\* The status loop.

OccupiedPanes == {p \in EventPanes : occupant[p] # "gone"}

Labelled == \E p \in EventPanes : occupant[p] \in AgentLabels

\* listPanes: a listing that labels any pane is authoritative about all.
ListedLabel(p) ==
  CASE occupant[p] = "gone"       -> "absent"
    [] occupant[p] \in AgentLabels -> occupant[p]
    [] OTHER -> IF Labelled \/ paneLabel[p] = "absent" THEN "shell" ELSE paneLabel[p]

\* The panes the next subscription names: the agents when any is labelled.
Subscribes(p) == p \in OccupiedPanes /\ (Labelled => ListedLabel(p) \in AgentLabels)

FreshUnwatched(p) ==
  /\ subscribed \/ resync
  /\ Subscribes(p) /\ ListedLabel(p) \in AgentLabels
  /\ resync \/ watchedAs[p] = "absent"

\* Whose current status the resubscribe replays from the listing.
Fresh(p) ==
  /\ subscribed \/ resync
  /\ Subscribes(p) /\ ListedLabel(p) \in AgentLabels
  /\ resync \/ watchedAs[p] \notin AgentLabels

Replays(p) == Fresh(p) /\ agentStatus[p] \in Statuses

StatusLists ==
  /\ statusLoop = "list"
  /\ paneLabel' = [p \in EventPanes |-> ListedLabel(p)]
  /\ heard' = [p \in EventPanes |-> IF Replays(p) THEN agentStatus[p] ELSE heard[p]]
  /\ missed' = {p \in missed : ~Replays(p)} /\ unannounced' = {}
  /\ watchedAs' = [p \in EventPanes |-> IF Subscribes(p) THEN ListedLabel(p) ELSE "absent"]
  /\ subscribed' = TRUE /\ resync' = FALSE
  /\ statusLoop' = "subscribe"
  /\ UNCHANGED <<occupant, agentStatus, dirty, statusFrames, discoveryUp, discoveryFrames,
                 evicted, happenings, overruns, closes>>

\* herdr refuses a subscription that names a dead pane; an empty set of panes
\* only waits for the dirty signal.
StatusSubscribes ==
  /\ statusLoop = "subscribe"
  /\ statusLoop' = IF \E p \in EventPanes : watchedAs[p] # "absent" /\ occupant[p] = "gone"
                   THEN "list" ELSE "reading"
  /\ UNCHANGED <<unannounced, subscriberVars, occupant, agentStatus, statusFrames, discoveryUp,
                 discoveryFrames, evicted, missed, happenings, overruns, closes>>

StatusReads ==
  /\ statusLoop \in {"reading", "cancelled"}
  /\ statusFrames # <<>> /\ Head(statusFrames) # EventsLost
  /\ \E p \in Head(statusFrames).pane :
       /\ heard' = [heard EXCEPT ![p] = Head(statusFrames).value]
       /\ missed' = missed \ {p}
  /\ statusFrames' = Tail(statusFrames)
  /\ UNCHANGED <<unannounced, occupant, agentStatus, paneLabel, dirty, watchedAs, subscribed, resync,
                 statusLoop, discoveryUp, discoveryFrames, evicted, happenings, overruns,
                 closes>>

StatusOverruns ==
  /\ overruns < MaxOverruns /\ overruns' = overruns + 1
  /\ statusLoop \in {"reading", "cancelled"} /\ ~Overrun(statusFrames)
  /\ evicted' = About(statusFrames)
  /\ statusFrames' = <<EventsLost>>
  /\ UNCHANGED <<unannounced, subscriberVars, occupant, agentStatus, statusLoop, discoveryUp,
                 discoveryFrames, missed, happenings, closes>>

OwesResyncUncancelled == Overrun(statusFrames) /\ statusLoop # "cancelled"

\* The flag is stored whether or not a dirty signal cancelled the stream.
OwesResync == Overrun(statusFrames)

StatusLearnsOfLoss ==
  /\ statusLoop \in {"reading", "cancelled"}
  /\ statusFrames # <<>> /\ Head(statusFrames) = EventsLost
  /\ resync' = (resync \/ OwesResync)
  /\ evicted' = {} /\ statusFrames' = <<>> /\ statusLoop' = "list"
  /\ UNCHANGED <<unannounced, occupant, agentStatus, heard, paneLabel, dirty, watchedAs, subscribed,
                 discoveryUp, discoveryFrames, missed, happenings, overruns, closes>>

\* The watcher of the dirty channel cancels the stream.
StatusCancelled ==
  /\ statusLoop = "reading" /\ dirty
  /\ dirty' = FALSE /\ statusLoop' = "cancelled"
  /\ UNCHANGED <<unannounced, occupant, agentStatus, heard, paneLabel, watchedAs, subscribed, resync,
                 statusFrames, discoveryUp, discoveryFrames, evicted, missed, happenings,
                 overruns, closes>>

\* The connection ends with whatever was on it: by the cancellation, or
\* because herdr closed it.
StatusEnds ==
  /\ \/ statusLoop = "cancelled"
     \/ statusLoop = "reading" /\ closes < MaxSocketCloses /\ ~Overrun(statusFrames)
  /\ closes' = IF statusLoop = "reading" THEN closes + 1 ELSE closes
  /\ missed' = missed \cup About(statusFrames) \cup evicted
  /\ evicted' = {} /\ statusFrames' = <<>> /\ statusLoop' = "list"
  /\ UNCHANGED <<unannounced, subscriberVars, occupant, agentStatus, discoveryUp, discoveryFrames,
                 happenings, overruns>>

HerdMoves ==
  \E p \in EventPanes :
    \/ PaneCreated(p) \/ AgentLeaves(p) \/ PaneExited(p)
    \/ \E s \in Statuses : StatusChanges(p, s) \/ \E l \in AgentLabels : AgentDetected(p, l, s)

DiscoveryStep == DiscoverySubscribes \/ DiscoveryReads \/ DiscoveryLearnsOfLoss

StatusStep == StatusLists \/ StatusSubscribes \/ StatusReads \/ StatusLearnsOfLoss
              \/ StatusCancelled

NextEvents ==
  \/ HerdMoves \/ DiscoveryStep \/ StatusStep
  \/ DiscoveryOverruns \/ StatusOverruns \/ DiscoveryCloses \/ StatusEnds

SpecEvents == InitEvents /\ [][NextEvents]_eventVars

\* Both loops run until the daemon ends: each keeps reading and reconnecting,
\* and a cancelled stream unwinds.
FairEvents ==
  /\ WF_eventVars(DiscoveryStep) /\ WF_eventVars(StatusStep)
  /\ WF_eventVars(statusLoop = "cancelled" /\ StatusEnds)

FairSpecEvents == SpecEvents /\ FairEvents

----------------------------------------------------------------------------
\* Once the herd is quiet the daemon holds the current status of every agent,
\* except one whose event reached no connection: what events_lost evicted, and
\* the first status of a new agent, come back through the listing whatever the
\* order of the two loops (runDiscovery, runStatus).
StatusIsHeard ==
  <>[](\A p \in EventPanes :
         occupant[p] \in AgentLabels => 
           heard[p] = agentStatus[p] \/ p \in missed \cup unannounced)

\* A pane that exited does not stay in the status subscription: herdr refuses
\* a subscription naming a dead pane, and the listing before every subscribe is
\* what keeps one from wedging the loop (runStatus).
DeadAreUnwatched ==
  <>[](\A p \in EventPanes :
         watchedAs[p] # "absent" => occupant[p] # "gone" \/ p \in unannounced)

\* What the two loops promise together: the living are heard, the dead unwatched.
HerdIsHeard == StatusIsHeard /\ DeadAreUnwatched
============================================================================
