------------------------------ MODULE MCMarket ------------------------------
(* Few symbols, days and stamps for model checking MarketData.             *)
EXTENDS MarketData, TLC

CONSTANTS a, b

\* The first day closes and is final before the first stamp, the second meanwhile.
Closes == <<0, 1>>
Finals == <<0, 2>>

\* The list loses a symbol.
Shorter == <<{a, b}, {b}>>

\* What runs together: collectors of different prices, or of the document.
Mix(yahoo, history, daily, corporate) ==
    [yahoo |-> yahoo, history |-> history, daily |-> daily, corporate |-> corporate]
Together == {Mix(1, 0, 1, 0), Mix(0, 1, 1, 0), Mix(0, 0, 3, 0), Mix(0, 0, 0, 3), Mix(1, 0, 0, 1),
             Mix(0, 0, 1, 1)}

Alike == Permutations(Jobs) \cup Permutations(Contents)
=============================================================================
