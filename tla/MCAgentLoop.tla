--------------------------- MODULE MCAgentLoop ---------------------------
(* Instances of AgentLoop for TLC. *)
EXTENDS AgentLoop, TLC

CONSTANTS g1, g2

PlanGoals == {g1, g2}
Symmetry == Permutations(PlanGoals)
=============================================================================
