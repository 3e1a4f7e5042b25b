------------------------------- MODULE MCStage -------------------------------
(* Two sides, one of them with two batches, for model checking AgentStage. *)
EXTENDS AgentStage

TwoSides == [t \in Tasks |-> IF t = 3 THEN "bear" ELSE "bull"]
BearFirst == [t \in Tasks |-> IF t = 3 THEN 0 ELSE t]
=============================================================================
