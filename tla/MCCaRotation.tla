---------------------------- MODULE MCCaRotation ----------------------------
(***************************************************************************)
(* CaRotation in two small instances, told apart by part: two agents, with *)
(* every INSERT answered, and one agent, with one answer that may be lost. *)
(***************************************************************************)
EXTENDS CaRotation

CONSTANTS a1, g1, g2, w1

VARIABLE part  \* "answered" or "lost"

MCInit == Init /\ part \in {"answered", "lost"}

OneAgentOneLoss == req'[g2].pc = "idle" /\ Cardinality(torn') <= 1

MCNext ==
  /\ Next
  /\ part = "answered" => UNCHANGED torn
  /\ part = "lost" => OneAgentOneLoss
  /\ UNCHANGED part

MCFairSpec == MCInit /\ [][MCNext]_<<vars, part>> /\ Fairness
=============================================================================
