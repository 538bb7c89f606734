---------------------------- MODULE MCAgentLoop -----------------------------
(***************************************************************************)
(* An instance of AgentLoop for TLC: a retrieval tool, the parametric tool *)
(* that charges itself, and a tool the policy forbids.                     *)
(***************************************************************************)
EXTENDS AgentLoop

CONSTANTS vector, parametric, web, q1, q2

Tools     == {vector, parametric, web}
Permitted == {vector, parametric}
=============================================================================
