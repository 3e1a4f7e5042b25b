------------------------------- MODULE MCReview -------------------------------
(* Five stocks, four accounts and what the agents may say of each, for model *)
(* checking DecisionReview.                                                  *)
EXTENDS DecisionReview

Prices == <<1150, 750, 450, 950, 600>>
Atrs == <<3, 1, 5, 2, 4>>
Ranks == <<4, 2, 5, 1, 3>>
Sectors == <<1, 2, 1, 3, 1>>
Specials == <<45, 0, 0, 0, 0>>
TwoBenchmarks == << <<15, 25, 30, 0, 15>>, <<12, 20, 30, 8, 0>> >>
Numbers == [
    minPositions |-> 3, maxPositions |-> 4, slippage |-> 10, minimumCommission |-> 1,
    trim |-> 50, derisk |-> 25, maxStock |-> 30, maxSector |-> 60, maxTurnover |-> 40,
    cashCeiling |-> 25, activeShare |-> 15, maxDrops |-> 3, maxRevisions |-> 2,
    decline |-> 10, stressSlippage |-> 2, fill |-> 100, reserve |-> 3,
    headroom |-> 995, headroomBuy |-> 970, alpha |-> 60,
    maxSwaps |-> 2, forcedSwaps |-> 1, minNewTier |-> 1]
Values == [buffer |-> {8, 19, 21}, stock |-> {25}, turnover |-> {25}]

\* All slots taken; one free; all taken and hardly any cash; half of them free.
Accounts == {
    [held |-> <<4, 6, 8, 4, 0>>, cash |-> 3600, settled |-> 3600,
     says |-> <<{"hold", "trim"}, {"hold", "exit", "forced_exit"}, {"hold", "add"}, {"hold"},
                {"none", "buy"}>>],
    [held |-> <<5, 8, 6, 0, 0>>, cash |-> 5560, settled |-> 4780,
     says |-> <<{"hold"}, {"hold", "add"}, {"hold", "add", "forced_exit"}, {"none", "buy"},
                {"none", "buy"}>>],
    [held |-> <<0, 6, 8, 6, 10>>, cash |-> 600, settled |-> 600,
     says |-> <<{"none", "buy"}, {"hold", "exit"}, {"exit", "add"}, {"hold"}, {"hold", "trim"}>>],
    [held |-> <<5, 0, 9, 0, 0>>, cash |-> 9500, settled |-> 7120,
     says |-> <<{"hold"}, {"none", "buy"}, {"hold", "add"}, {"none", "buy"}, {"none", "buy"}>>]}

Situations == {
    [blocked |-> {}, unknown |-> {}, cooling |-> {}, broken |-> {2}, adopted |-> {2},
     defensive |-> FALSE, buffer |-> 5, topBuffer |-> 8, breadth |-> 3],
    [blocked |-> {2}, unknown |-> {}, cooling |-> {1}, broken |-> {4}, adopted |-> {4},
     defensive |-> FALSE, buffer |-> 5, topBuffer |-> 8, breadth |-> 4],
    [blocked |-> {}, unknown |-> {}, cooling |-> {}, broken |-> {2, 4}, adopted |-> {4},
     defensive |-> TRUE, buffer |-> 18, topBuffer |-> 21, breadth |-> 3],
    [blocked |-> {2, 4}, unknown |-> {4}, cooling |-> {}, broken |-> {}, adopted |-> {},
     defensive |-> FALSE, buffer |-> 5, topBuffer |-> 8, breadth |-> 4]}
Tiers == { <<0, 1, 2, 0, 0>>, <<1, 1, 1, 2, 1>> }

MCDays == UNION {
    {[held |-> a.held, cash |-> a.cash, settled |-> a.settled, intent |-> i, tier |-> t,
      blocked |-> w.blocked, unknown |-> w.unknown, cooling |-> w.cooling, broken |-> w.broken, adopted |-> w.adopted,
      defensive |-> w.defensive, buffer |-> w.buffer, topBuffer |-> w.topBuffer,
      breadth |-> w.breadth]
        : i \in {<<p, q, r, u, v>> : p \in a.says[1], q \in a.says[2], r \in a.says[3],
                                     u \in a.says[4], v \in a.says[5]},
          t \in Tiers, w \in Situations}
    : a \in Accounts}
=============================================================================
