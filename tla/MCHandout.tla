------------------------------ MODULE MCHandout ------------------------------
(***************************************************************************)
(* Small instances of TaskHandout.  Agents are interchangeable: no action  *)
(* orders or names them.                                                   *)
(***************************************************************************)
EXTENDS TaskHandout, TLC

AgentSymmetry == Permutations(Agents)
=============================================================================
