---------------------------- MODULE MCAgentTurn ----------------------------
(***************************************************************************)
(* AgentTurn with two messages, which the user may send in any order.      *)
(* MaxSteps is below RequestCap, so that a turn can meet either limit.     *)
(***************************************************************************)
EXTENDS AgentTurn

CONSTANTS m1, m2

MCMessages == {m1, m2}
=============================================================================
