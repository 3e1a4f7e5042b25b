---------------------------- MODULE MCRepository ----------------------------
(* Small accounts for model checking VirtualAccountRepository.            *)
EXTENDS VirtualAccountRepository, TLC

CONSTANTS genesis, a, b, c, w1, w2, none

\* Every run id with a content of its own.
PayloadOfRun == [r \in RunIds |-> {r}]

\* Each writer with run ids of its own, and with what it runs.
OwnIds == (w1 :> {genesis, a, b}) @@ (w2 :> {c})
Split == (w1 :> {"save", "publish"}) @@ (w2 :> {"save", "rollback"})

\* a and b belong to the same writer and carry contents of the same name.
SwapAB == Permutations({a, b})
=============================================================================
