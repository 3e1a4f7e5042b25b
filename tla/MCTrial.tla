------------------------------- MODULE MCTrial -------------------------------
(* Few changes of two knobs for model checking StrategyTrial.              *)
EXTENDS StrategyTrial

TwoKnobs == [c \in Changes |-> IF c = 2 THEN 2 ELSE 1]
=============================================================================
