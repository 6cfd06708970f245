------------------------------ MODULE MCCallFlow ------------------------------
(***************************************************************************)
(* Instances of CallFlow for TLC: two or three desk users, one call.       *)
(***************************************************************************)
EXTENDS CallFlow, TLC

CONSTANTS a1, a2, a3, h1, h2

AgentSymmetry == Permutations(Agents) \cup Permutations(Handlers)
==============================================================================
