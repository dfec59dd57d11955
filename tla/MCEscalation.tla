---------------------------- MODULE MCEscalation ----------------------------
(***************************************************************************)
(* Small instances of EscalationDelivery: which agent each row belongs to. *)
(***************************************************************************)
EXTENDS EscalationDelivery, TLC

CONSTANTS a1, a2

\* Every row belongs to one agent: its rows compete for one pane.
OneAgent == [r \in Rows |-> a1]
=============================================================================
