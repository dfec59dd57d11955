------------------------------ MODULE PaneSend ------------------------------
(***************************************************************************)
(* How a message reaches an agent's pane (internal/herdr/cli.go, typed.go):*)
(* the route chosen for the body, the bursts of the typed route, the Enter *)
(* that submits, and the detached worker that presses Enter again while    *)
(* the status has not moved.  The pane is its composer, its status and the *)
(* prompt that may stand on it; an Enter submits the composer, is taken as *)
(* a newline, or commits the prompt that is up.                            *)
(***************************************************************************)
EXTENDS Integers, Sequences, FiniteSets

CONSTANTS MessageKinds,    \* subset of {"line", "multi", "verbatim"}
                           \* ("verbatim": several lines that keys would reinterpret)
          SendKinds,       \* agent types sent to
          TypedInput,      \* [agents] claude_typed_input
          SubmitRetryMax,  \* submitRetryMax
          MaxSends, MaxPaneMoves, MaxSwallows, MaxSendFaults

ASSUME SendAssumption == SubmitRetryMax \in Nat \ {0} /\ TypedInput \in BOOLEAN

VARIABLES sending,     \* the send under way, see SendOff
          sends,       \* sends begun
          sendShape,   \* which verb takes a multi-line body: "unresolved", "prompt", "legacy"
          composer,    \* the pieces in the pane's composer, <<send, piece>>
          submitted,   \* the composers the agent took as messages
          paneStatus,  \* "idle", "working" or "blocked"
          modal,       \* "none", "form" (a form parked at idle) or "prompt" (blocks)
          worker,      \* per send, its submit-retry worker
          strayed,     \* an Enter committed a prompt its presser had in view
          paneMoves, swallows, sendFaults

sendVars == <<sending, sends, sendShape, composer, submitted, paneStatus, modal, worker,
              strayed, paneMoves, swallows, sendFaults>>

paneVars == <<composer, submitted, paneStatus, modal>>
budgetVars == <<paneMoves, swallows, sendFaults>>

SendOff == [step |-> "off", kind |-> "none", body |-> "none", typed |-> 0,
            snapshot |-> "", socket |-> TRUE, inView |-> "none", explicit |-> FALSE]

WorkerOff == [live |-> FALSE, tries |-> 0, looked |-> FALSE, inView |-> "none"]

InitSend ==
  /\ sending = SendOff /\ sends = 0 /\ sendShape = "unresolved"
  /\ composer = <<>> /\ submitted = {}
  /\ paneStatus = "idle" /\ modal = "none"
  /\ worker = [n \in 1..MaxSends |-> WorkerOff]
  /\ strayed = FALSE
  /\ paneMoves = 0 /\ swallows = 0 /\ sendFaults = 0

Busy(status) == status \notin {"", "idle"}

\* SendToAgent: which hardening the agent type gets.
RetrySubmit(kind) == kind \in {"claude", "codex"}
DoubleEnter(kind) == kind = "codex"
TypesKeys(kind, body) == kind = "claude" /\ TypedInput /\ body = "multi"

\* Bursts of the typed route, and pieces of the other two.
Pieces(body) == IF body = "line" THEN 1 ELSE 2

Fault == sendFaults < MaxSendFaults /\ sendFaults' = sendFaults + 1

Ended == [sending EXCEPT !.step = "off"]

----------------------------------------------------------------------------
\* What an Enter does to the pane; inView: the prompt its presser saw there, if any.

Press(inView) ==
  \/ /\ modal # "none"
     /\ modal' = "none" /\ paneStatus' = "working"
     /\ strayed' = (strayed \/ inView = modal)
     /\ UNCHANGED <<composer, submitted, swallows>>
  \/ /\ modal = "none" /\ composer # <<>>
     /\ submitted' = submitted \cup {composer} /\ composer' = <<>>
     /\ paneStatus' \in {"working", paneStatus}     \* a slash command moves no status
     /\ UNCHANGED <<modal, strayed, swallows>>
  \/ /\ modal = "none" /\ composer # <<>>
     /\ swallows < MaxSwallows /\ swallows' = swallows + 1
     /\ UNCHANGED <<composer, submitted, modal, paneStatus, strayed>>
  \/ /\ modal = "none" /\ composer = <<>>
     /\ UNCHANGED <<composer, submitted, modal, paneStatus, strayed, swallows>>

\* The agent's own doings.
PaneMoves ==
  /\ paneMoves < MaxPaneMoves /\ paneMoves' = paneMoves + 1
  /\ \/ paneStatus = "working" /\ paneStatus' = "idle" /\ modal' = modal
     \/ modal = "none" /\ modal' = "prompt" /\ paneStatus' = "blocked"
     \/ modal = "none" /\ modal' = "form" /\ paneStatus' = "idle"
  /\ UNCHANGED <<sending, sends, sendShape, composer, submitted, worker, strayed, swallows,
                 sendFaults>>

----------------------------------------------------------------------------
\* send: the status snapshot, the route, the submit.

BeginSend(kind, body) ==
  /\ sending.step = "off" /\ sends < MaxSends
  /\ sends' = sends + 1
  /\ sending' = [SendOff EXCEPT !.step = "type", !.kind = kind, !.body = body,
                   !.snapshot = IF RetrySubmit(kind) THEN paneStatus ELSE ""]
  /\ UNCHANGED <<sendShape, paneVars, worker, strayed, budgetVars>>

\* The probe fails: no baseline, so no retry is armed.
BeginSendUnprobed(kind, body) ==
  /\ sending.step = "off" /\ sends < MaxSends /\ RetrySubmit(kind) /\ Fault
  /\ sends' = sends + 1
  /\ sending' = [SendOff EXCEPT !.step = "type", !.kind = kind, !.body = body]
  /\ UNCHANGED <<sendShape, paneVars, worker, strayed, paneMoves, swallows>>

Typing == sending.step = "type" /\ TypesKeys(sending.kind, sending.body)

Burst == Append(composer, <<sends, sending.typed + 1>>)

AfterBurst == [sending EXCEPT !.typed = @ + 1,
                 !.step = IF sending.typed + 1 = Pieces(sending.body) THEN "look" ELSE "type"]

TypeChunk ==
  /\ Typing
  /\ composer' = Burst /\ sending' = AfterBurst
  /\ UNCHANGED <<sends, sendShape, submitted, paneStatus, modal, worker, strayed, budgetVars>>

\* A burst fails: in the dial, as an unknown method, or with its outcome
\* unknown.  Only one that provably typed nothing may change the transport.
SocketUnusableAny(why) == sending.typed = 0 /\ sending.socket

SocketUnusable(why) == sending.typed = 0 /\ sending.socket /\ why \in {"dial", "method"}

TypeChunkFails ==
  /\ Typing /\ Fault
  /\ \E why \in {"dial", "method", "typed", "lost"} :
       /\ composer' = IF why = "typed" THEN Burst ELSE composer
       /\ sending' = IF SocketUnusable(why) THEN [sending EXCEPT !.socket = FALSE] ELSE Ended
  /\ UNCHANGED <<sends, sendShape, submitted, paneStatus, modal, worker, strayed, paneMoves,
                 swallows>>

FormShownNever == FALSE

\* paneShowsStandingForm: the structural forms, never a plain prompt.
FormShown == modal = "form"

\* typedSubmitRefusal: the last look before the Enter of the typed route.
TypedRefused ==
  \/ paneStatus = "blocked" /\ sending.snapshot # "blocked"
  \/ FormShown

TypedLook ==
  /\ sending.step = "look"
  /\ sending' = IF TypedRefused THEN Ended
                ELSE [sending EXCEPT !.step = "enter",
                        !.inView = IF sending.snapshot # "blocked" THEN modal ELSE "none"]
  /\ UNCHANGED <<sends, sendShape, paneVars, worker, strayed, budgetVars>>

\* submitTyped: one line as literal input (keys of the prompt when one is up),
\* its Enter a key of its own.
SendText ==
  /\ sending.step = "type" /\ sending.body = "line"
  /\ composer' = IF modal = "none" THEN Append(composer, <<sends, 1>>) ELSE composer
  /\ sending' = [sending EXCEPT !.step = "enter", !.typed = 1]
  /\ UNCHANGED <<sends, sendShape, submitted, paneStatus, modal, worker, strayed, budgetVars>>

\* submitPasted: agent prompt carries text and Enter in one request; a herdr
\* without it takes agent send, and only a delivered fallback is remembered.
Pasting == sending.step = "type" /\ sending.body # "line" /\ ~Typing

Whole == composer \o [i \in 1..Pieces(sending.body) |-> <<sends, i>>]

PromptAgent ==
  /\ Pasting /\ sendShape # "legacy"
  /\ sendShape' = "prompt"
  /\ IF modal = "none"
     THEN /\ submitted' = submitted \cup {Whole} /\ composer' = <<>>
          /\ paneStatus' \in {"working", paneStatus}
          /\ modal' = modal
     ELSE /\ modal' = "none" /\ paneStatus' = "working"     \* commits the prompt instead
          /\ UNCHANGED <<submitted, composer>>
  /\ sending' = [sending EXCEPT !.step = "after", !.typed = Pieces(sending.body)]
  /\ UNCHANGED <<sends, worker, strayed, budgetVars>>

LegacySend ==
  /\ Pasting /\ sendShape # "prompt"
  /\ sendShape' = "legacy"
  /\ composer' = Whole
  /\ sending' = [sending EXCEPT !.step = "enter", !.typed = Pieces(sending.body)]
  /\ UNCHANGED <<sends, submitted, paneStatus, modal, worker, strayed, budgetVars>>

\* Any command of the untyped routes fails: the send is over, unretried.
SendFails ==
  /\ sending.step \in {"type", "enter"} /\ ~Typing /\ Fault
  /\ sending' = Ended
  /\ sendShape' = IF Pasting /\ sendShape # "prompt" THEN "unresolved" ELSE sendShape
  /\ UNCHANGED <<sends, paneVars, worker, strayed, paneMoves, swallows>>

PressEnter ==
  /\ sending.step = "enter"
  /\ Press(sending.inView)
  /\ sending' = [sending EXCEPT !.step = "after", !.explicit = TRUE]
  /\ UNCHANGED <<sends, sendShape, worker, paneMoves, sendFaults>>

\* The delayed second Enter of codex, only after an Enter of its own.
SecondEnter ==
  /\ sending.step = "after" /\ DoubleEnter(sending.kind) /\ sending.explicit
  /\ Press("none")
  /\ sending' = [sending EXCEPT !.explicit = FALSE]
  /\ UNCHANGED <<sends, sendShape, worker, paneMoves, sendFaults>>

Armed == RetrySubmit(sending.kind) /\ sending.snapshot # "" /\ ~Busy(sending.snapshot)

\* spawnSubmitRetry: the worker of an earlier send to the pane is cancelled.
SendEnds ==
  /\ sending.step = "after" /\ ~(DoubleEnter(sending.kind) /\ sending.explicit)
  /\ worker' = IF Armed
               THEN [n \in 1..MaxSends |-> IF n = sends THEN [WorkerOff EXCEPT !.live = TRUE]
                                           ELSE [worker[n] EXCEPT !.live = FALSE]]
               ELSE worker
  /\ sending' = Ended
  /\ UNCHANGED <<sends, sendShape, paneVars, strayed, budgetVars>>

----------------------------------------------------------------------------
\* retrySubmitEnter, one attempt: the status, the visible pane, the Enter.

WorkerProbes(n) ==
  /\ worker[n].live /\ ~worker[n].looked
  /\ worker' = [worker EXCEPT ![n] =
       IF paneStatus # "idle" THEN [@ EXCEPT !.live = FALSE]
       ELSE [@ EXCEPT !.looked = TRUE, !.inView = modal]]
  /\ UNCHANGED <<sending, sends, sendShape, paneVars, strayed, budgetVars>>

WorkerReadsForm(n) ==
  /\ worker[n].live /\ worker[n].looked /\ FormShown
  /\ worker' = [worker EXCEPT ![n].live = FALSE]
  /\ UNCHANGED <<sending, sends, sendShape, paneVars, strayed, budgetVars>>

MoreTriesShort(n) == worker[n].tries + 2 < SubmitRetryMax

MoreTries(n) == worker[n].tries + 1 < SubmitRetryMax

WorkerPresses(n) ==
  /\ worker[n].live /\ worker[n].looked /\ ~FormShown
  /\ Press(worker[n].inView)
  /\ worker' = [worker EXCEPT ![n].tries = @ + 1, ![n].looked = FALSE,
                  ![n].live = MoreTries(n)]
  /\ UNCHANGED <<sending, sends, sendShape, paneMoves, sendFaults>>

\* A probe, the pane read or the Enter fails: the worker stops.
WorkerFails(n) ==
  /\ worker[n].live /\ Fault
  /\ worker' = [worker EXCEPT ![n].live = FALSE]
  /\ UNCHANGED <<sending, sends, sendShape, paneVars, strayed, paneMoves, swallows>>

SendStep ==
  \/ TypeChunk \/ TypedLook \/ SendText \/ PromptAgent \/ LegacySend
  \/ PressEnter \/ SecondEnter \/ SendEnds

WorkerStep(n) == WorkerProbes(n) \/ WorkerReadsForm(n) \/ WorkerPresses(n)

NextSend ==
  \/ \E kind \in SendKinds, body \in MessageKinds :
       BeginSend(kind, body) \/ BeginSendUnprobed(kind, body)
  \/ SendStep \/ TypeChunkFails \/ SendFails \/ PaneMoves
  \/ \E n \in 1..MaxSends : WorkerStep(n) \/ WorkerFails(n)

SpecSend == InitSend /\ [][NextSend]_sendVars

FairSend == WF_sendVars(SendStep) /\ \A n \in 1..MaxSends : WF_sendVars(WorkerStep(n))

FairSpecSend == SpecSend /\ FairSend

----------------------------------------------------------------------------
Own(n, pieces) == SelectSeq(pieces, LAMBDA x : x[1] = n)

\* A body is never typed twice: what a pane holds or was given of one send is
\* its pieces one after the other, however a burst failed (submitKeystrokes: only
\* the first burst may change transport, and only if it reached nothing).
NoPieceTwice ==
  \A s \in submitted \cup {composer} : \A i, j \in 1..Len(s) :
    s[i][1] = s[j][1] => s[j][2] - s[i][2] = j - i

\* An Enter pressed by the typed route or by a retry worker commits no prompt
\* that stood when its presser looked: such a prompt parks an agent at idle, so
\* the status alone does not show it (retrySubmitEnter, typedSubmitRefusal).
SeenPromptIsLeft == ~strayed

\* An Enter the agent swallowed is repaired, if it does not swallow every retry: a
\* message whose send ended well and armed the retries leaves the composer, unless a
\* prompt came up, the status moved or the worker was stopped (retrySubmitEnter).
SwallowedIsRepaired ==
  \A n \in 1..MaxSends :
    (worker[n].live /\ Own(n, composer) # <<>>)
      ~> (Own(n, composer) = <<>> \/ modal # "none" \/ paneStatus # "idle"
          \/ sends > n \/ sendFaults > 0)

\* A newer send to the pane supersedes the worker of an earlier one, so that one
\* Enter-presser remains: no worker presses once a newer send has begun to write
\* (spawnSubmitRetry).
NewerSendSupersedes ==
  [][\A n \in 1..MaxSends :
       worker'[n].tries > worker[n].tries /\ n < sends => sending.typed = 0]_sendVars

\* What a send promises the message: it arrives once and is submitted, without an Enter
\* for a prompt that came up meanwhile (Send, retrySubmitEnter).
MessageArrivesOnce == [](NoPieceTwice /\ SeenPromptIsLeft) /\ SwallowedIsRepaired
=============================================================================
