---------------------------- MODULE ReplyContract ----------------------------
(***************************************************************************)
(* What an operator who answers an escalation is promised of the answer,   *)
(* whatever the daemon does in between.  An answer to be typed is queued;  *)
(* until the point of no return it may be withdrawn without a trace, past  *)
(* it it is typed at most once.  Only when its delivery is settled, one    *)
(* way or the other, is it learned from, and only then consumed.           *)
(***************************************************************************)
EXTENDS Naturals

CONSTANT Replies

VARIABLES
  fate,     \* how far each answer is
  typed,    \* how often it was typed
  learnt    \* the answers the daemon has learned from

contractVars == <<fate, typed, learnt>>

Fates == {"new", "queued", "committed", "settled", "withdrawn", "consumed"}

Init ==
  /\ fate = [c \in Replies |-> "new"]
  /\ typed = [c \in Replies |-> 0]
  /\ learnt = {}

Becomes(c, next) == fate' = [fate EXCEPT ![c] = next]

\* The operator answers, with a delivery or only to teach.
Answer(c) ==
  /\ fate[c] = "new" /\ (Becomes(c, "queued") \/ Becomes(c, "settled"))
  /\ UNCHANGED <<typed, learnt>>

\* The answer was refused before anything could reach the pane.
Withdraw(c) ==
  /\ fate[c] = "queued" /\ Becomes(c, "withdrawn")
  /\ UNCHANGED <<typed, learnt>>

\* The point of no return: from here the answer is never queued again.
Commit(c) ==
  /\ fate[c] = "queued" /\ Becomes(c, "committed")
  /\ UNCHANGED <<typed, learnt>>

TypeInto(c) ==
  /\ fate[c] = "committed" /\ typed[c] = 0
  /\ typed' = [typed EXCEPT ![c] = 1]
  /\ UNCHANGED <<fate, learnt>>

\* The delivery of some answers is over: typed, refused, stale, or cut off by a crash.
Settle ==
  /\ \E over \in SUBSET {c \in Replies : fate[c] \in {"queued", "committed"}} :
       fate' = [c \in Replies |-> IF c \in over THEN "settled" ELSE fate[c]]
  /\ UNCHANGED <<typed, learnt>>

Learn(c) ==
  /\ fate[c] = "settled" /\ learnt' = learnt \cup {c}
  /\ UNCHANGED <<fate, typed>>

Consume(c) ==
  /\ fate[c] = "settled" /\ c \in learnt /\ Becomes(c, "consumed")
  /\ UNCHANGED <<typed, learnt>>

Next ==
  \/ Settle
  \/ \E c \in Replies :
       Answer(c) \/ Withdraw(c) \/ Commit(c) \/ TypeInto(c) \/ Learn(c) \/ Consume(c)

Spec == Init /\ [][Next]_contractVars
=============================================================================
