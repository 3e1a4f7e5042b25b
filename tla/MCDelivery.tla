----------------------------- MODULE MCDelivery -----------------------------
(* Few runs and attempts for model checking DecisionDelivery.              *)
EXTENDS DecisionDelivery, TLC

AnyMessage == Permutations(Messages)
=============================================================================
