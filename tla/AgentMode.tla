----------------------------- MODULE AgentMode -----------------------------
(***************************************************************************)
(* `hap mode set': an agent's permission mode is changed by pressing       *)
(* Shift+Tab until the pane shows the mode that was asked for              *)
(* (internal/frontend/agentmode.go).  The pane is the only evidence: a     *)
(* send may report success and not land, the screen may be behind the      *)
(* keys, a dialog may cover the footer and give Shift+Tab another meaning, *)
(* and the session's rotation may not offer the mode at all.               *)
(***************************************************************************)
EXTENDS Integers, Sequences

CONSTANTS
    Cycle,          \* the session's own rotation, a sequence of modes
    Wanted,         \* the modes that are asked for
    SettleReads,    \* reads of the pane within the settle timeout
    ScreenLag,      \* reads by which the screen may be behind
    MaxPresses,     \* ModePressCap
    MaxSwallowed,   \* bound on chords that do not land
    MaxDialogs      \* bound on the dialogs that come up

ASSUME AgentModeAssumption ==
    /\ Cycle \in Seq(STRING) /\ Len(Cycle) > 0
    /\ {SettleReads, ScreenLag, MaxPresses, MaxSwallowed, MaxDialogs} \subseteq Nat

VARIABLES
    actual,     \* the agent's mode, a position of the cycle
    shown,      \* the mode its footer shows
    behind,     \* reads until the footer catches up
    dialog,     \* a dialog is up: no footer, and Shift+Tab answers it
    cmd,        \* the command
    recorded,   \* the mode put on the event stream, {} for none yet
    swallowed, dialogs

modeVars == << actual, shown, behind, dialog, cmd, recorded, swallowed, dialogs >>

Mode(i) == Cycle[i]
Turn(i) == (i % Len(Cycle)) + 1
IdleCmd == [at |-> "off", want |-> "", from |-> "", mode |-> "", seen |-> {}, presses |-> 0,
            back |-> 0, reads |-> 0, ready |-> FALSE, unverified |-> FALSE, result |-> ""]

InitMode ==
    /\ actual \in 1..Len(Cycle) /\ shown = actual /\ behind = 0
    /\ dialog = FALSE /\ cmd = IdleCmd /\ recorded = {}
    /\ swallowed = 0 /\ dialogs = 0

-----------------------------------------------------------------------------
(* The agent.                                                              *)

\* What a read of the pane shows, and the footer a read nearer to the keys.
ComposerReadyForMode == ~dialog

Reads == IF ComposerReadyForMode THEN {Mode(shown)} ELSE {}
Repaints ==
    /\ behind' = IF behind > 0 THEN behind - 1 ELSE 0
    /\ shown' = IF behind <= 1 THEN actual ELSE shown

DialogOpens ==
    /\ ~dialog /\ dialogs < MaxDialogs /\ dialogs' = dialogs + 1
    /\ cmd.at \notin {"off", "done"}
    /\ dialog' = TRUE
    /\ UNCHANGED << actual, shown, behind, cmd, recorded, swallowed >>

DialogCloses ==
    /\ dialog /\ dialog' = FALSE
    /\ UNCHANGED << actual, shown, behind, cmd, recorded, swallowed, dialogs >>

\* A chord turns the mode on, answers the dialog that is up, or does not land.
Chord ==
    \/ /\ ~dialog /\ actual' = Turn(actual)
       /\ \E n \in 0..ScreenLag : /\ behind' = n
                                  /\ shown' = IF n = 0 THEN Turn(actual) ELSE shown
       /\ UNCHANGED << dialog, swallowed >>
    \/ /\ dialog /\ dialog' = FALSE
       /\ UNCHANGED << actual, shown, behind, swallowed >>
    \/ /\ swallowed < MaxSwallowed /\ swallowed' = swallowed + 1
       /\ UNCHANGED << actual, shown, behind, dialog >>

-----------------------------------------------------------------------------
(* SetAgentMode.                                                           *)

SetAgentMode(w) ==
    /\ cmd.at = "off"
    /\ cmd' = [IdleCmd EXCEPT !.at = "first", !.want = w]
    /\ UNCHANGED << actual, shown, behind, dialog, recorded, swallowed, dialogs >>

\* The deferred recordAgentMode: only a mode a settled read confirmed.
RecordsAlways(c) == recorded' = {c.mode}
Records(c) == recorded' = IF c.unverified THEN {} ELSE {c.mode}

Ends(c, result) ==
    /\ cmd' = [c EXCEPT !.at = "done", !.result = result]
    /\ Records(c)

\* The read before any press: an unreadable pane refuses, and records nothing.
FirstRead ==
    /\ cmd.at = "first"
    /\ \/ /\ Reads = {} /\ UNCHANGED recorded
          /\ cmd' = [cmd EXCEPT !.at = "done", !.result = "unreadable"]
       \/ \E now \in Reads :
            LET c == [cmd EXCEPT !.from = now, !.mode = now, !.seen = {now}, !.ready = TRUE]
            IN IF now = cmd.want THEN Ends(c, "set")
               ELSE cmd' = [c EXCEPT !.at = "press"] /\ UNCHANGED recorded
    /\ Repaints
    /\ UNCHANGED << actual, dialog, swallowed, dialogs >>

\* One turn of the loop: the ceiling, the composer on the last capture, the chord.
Press ==
    /\ cmd.at = "press" /\ cmd.presses < MaxPresses /\ cmd.ready
    /\ Chord
    /\ cmd' = [cmd EXCEPT !.at = "await", !.presses = @ + 1, !.unverified = TRUE, !.reads = 0]
    /\ UNCHANGED << recorded, dialogs >>

SendFails ==
    /\ cmd.at = "press" /\ cmd.presses < MaxPresses /\ cmd.ready
    /\ Ends([cmd EXCEPT !.unverified = TRUE], "failed")
    /\ UNCHANGED << actual, shown, behind, dialog, swallowed, dialogs >>

\* awaitModeChange polls until the mode differs from the last one or the timeout is up;
\* a read that shows no mode then ends the attempt.
ModeSettledAtOnce(now) == TRUE
ModeSettled(now) == (now # {} /\ now # {cmd.mode}) \/ cmd.reads + 1 >= SettleReads

\* A mode that changed into one already seen means the rotation has closed.
ClosedSame(now) == now \in cmd.seen
Closed(now) == now # cmd.mode /\ now \in cmd.seen

\* What the loop does with the mode a settled read shows.
Judge(now) ==
    LET c == [cmd EXCEPT !.mode = now, !.unverified = FALSE, !.ready = TRUE, !.reads = 0,
                         !.seen = @ \cup {now}]
    IN IF now = cmd.want THEN Ends(c, "set")
       ELSE /\ cmd' = [c EXCEPT !.at = IF Closed(now) \/ cmd.presses >= MaxPresses THEN "back" ELSE "press"]
            /\ UNCHANGED recorded

Await ==
    /\ cmd.at = "await"
    /\ IF ~ModeSettled(Reads) THEN cmd' = [cmd EXCEPT !.reads = @ + 1] /\ UNCHANGED recorded
       ELSE IF Reads = {} THEN Ends(cmd, "unreadable")
       ELSE \E now \in Reads : Judge(now)
    /\ Repaints
    /\ UNCHANGED << actual, dialog, swallowed, dialogs >>

\* restoreMode: pressing on, with a read of the composer before each chord, until the
\* pane reports the starting mode.
RestoredAtOnce(c) == TRUE
Restored(c) == c.mode = c.from \/ c.back >= MaxPresses

RestoreRead ==
    /\ cmd.at = "back"
    /\ IF Restored(cmd) \/ Reads = {} THEN Ends(cmd, "refused")
       ELSE cmd' = [cmd EXCEPT !.at = "backPress"] /\ UNCHANGED recorded
    /\ Repaints
    /\ UNCHANGED << actual, dialog, swallowed, dialogs >>

RestorePress ==
    /\ cmd.at = "backPress"
    /\ Chord
    /\ cmd' = [cmd EXCEPT !.at = "backAwait", !.back = @ + 1, !.unverified = TRUE, !.reads = 0]
    /\ UNCHANGED << recorded, dialogs >>

RestoreAwait ==
    /\ cmd.at = "backAwait"
    /\ IF ~ModeSettled(Reads) THEN cmd' = [cmd EXCEPT !.reads = @ + 1] /\ UNCHANGED recorded
       ELSE IF Reads = {} THEN Ends(cmd, "refused")
       ELSE /\ \E now \in Reads : cmd' = [cmd EXCEPT !.at = "back", !.mode = now, !.unverified = FALSE]
            /\ UNCHANGED recorded
    /\ Repaints
    /\ UNCHANGED << actual, dialog, swallowed, dialogs >>

-----------------------------------------------------------------------------
NextMode ==
    \/ DialogOpens \/ DialogCloses
    \/ \E w \in Wanted : SetAgentMode(w)
    \/ FirstRead \/ Press \/ SendFails \/ Await \/ RestoreRead \/ RestorePress \/ RestoreAwait

SpecMode == InitMode /\ [][NextMode]_modeVars

-----------------------------------------------------------------------------
(* Properties.                                                             *)

\* A set that reports success left the agent in the mode asked for, though the screen is
\* behind the keys, chords get lost and dialogs come and go.
SetIsTrue == cmd.result = "set" => Mode(actual) = cmd.want

\* What the event stream is told of the agent's mode is the mode it is in: a press that
\* no read confirmed records nothing.
RecordedIsTrue == cmd.at = "done" => recorded \subseteq {Mode(actual)}

\* A mode the session does not offer leaves the agent in the mode it was in, unless a
\* dialog came up: its permissions are not rotated elsewhere by a refusal.
RefusalLeavesTheMode == cmd.result = "refused" /\ dialogs = 0 => Mode(actual) = cmd.from

\* A mode the session does offer is never refused as one it does not, unless a dialog came
\* up: neither a lost chord nor a slow repaint is taken for a rotation that closed.
OfferedIsReached ==
    cmd.result = "refused" /\ dialogs = 0 => \A i \in 1..Len(Cycle) : Cycle[i] # cmd.want

\* What a permission-mode command promises (agentmode.go): what it reports of the mode is
\* so, and what it refuses it leaves alone.
ModeAnswersAreTrue == SetIsTrue /\ RecordedIsTrue /\ RefusalLeavesTheMode /\ OfferedIsReached
=============================================================================
