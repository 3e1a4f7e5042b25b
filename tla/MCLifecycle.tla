----------------------------- MODULE MCLifecycle -----------------------------
(* Small lifecycles for model checking DecisionLifecycle.                  *)
EXTENDS DecisionLifecycle
=============================================================================
