--------------------------- MODULE MCAgentRuntime ---------------------------
(* The instance of AgentRuntime that TLC checks. *)
EXTENDS AgentRuntime, TLC

CONSTANTS w1, w2

MCWorker == {w1, w2}
MCSymmetry == Permutations(MCWorker)
=============================================================================
