------------------------------ MODULE Allocation ------------------------------
(***************************************************************************)
(* From what the trade agent wants to whole-lot orders                     *)
(* (AllocationOrderEngine of src/src/etf_agent/decision/allocation.py, the *)
(* weights of sizing.py and the scenarios of risk.py), with the gates the  *)
(* policy of src/config/decision_policy.json turns on.                     *)
(*                                                                         *)
(* Exits and trims are taken first; a defensive day that is short of cash  *)
(* sells more; a full portfolio may swap out a stock whose thesis broke;   *)
(* the candidates that get a slot share the budget.  The orders are then   *)
(* cut, in this order, to the cash, to the weight of each stock, to the    *)
(* weight of each sector and to the turnover.  If too few stocks, too much *)
(* cash or too much turnover is left, exits are kept back and everything   *)
(* is computed again; if the portfolio is too close to a benchmark, a      *)
(* candidate is dropped and everything is computed again.                  *)
(*                                                                         *)
(* Orders are lots with a sign, one number per stock.  Rates are whole     *)
(* percents; money is whole, except that targets are in hundredths of it   *)
(* and rounded down.  Stocks are numbers in the order of their codes.      *)
(***************************************************************************)
EXTENDS Integers, Sequences, FiniteSetsExt, Folds

CONSTANTS
    Symbols,        \* the universe, a set of numbers
    Price,          \* of a lot
    Atr,            \* the rank of the stock's ATR14, all different
    Ranking,        \* rank_by_symbol, all different
    Sector,         \* sector_by_symbol
    Special,        \* special_weight_limits, 0 for none
    Benchmarks,     \* weights of each required ETF, in percent
    Policy          \* the numbers of the policy and of the rules

High == 0
None == 3       \* the level of a stock that is not bought
Raw == <<15, 6, 3>>     \* conviction_multipliers of high, medium and low, times ten

MinOf(a, b) == IF a <= b THEN a ELSE b
MaxOf(a, b) == IF a >= b THEN a ELSE b
Ceiling(a, b) == -((-a) \div b)
Sum(f, S) == MapThenSumSet(LAMBDA s : f[s], S)
OrderSet == [Symbols -> Int]
NoLots == [s \in Symbols |-> 0]

\* Of a set, the first and the last by a key, and all by ascending key, if no
\* two have the same.
First(S, key) == CHOOSE s \in S : \A t \in S : key[s] <= key[t]
Last(S, key) == CHOOSE s \in S : \A t \in S : key[t] <= key[s]
Sorted(S, key) ==
    [i \in 1..Cardinality(S) |->
        CHOOSE s \in S : Cardinality({t \in S : key[t] < key[s]}) = i - 1]

\* A loop over a set, by ascending key; and one that goes from a value to the
\* next until there is nothing to change.
InOrder(step(_, _), start, S, key) ==
    MapThenFoldSet(LAMBDA s, w : step(w, s), start, LAMBDA s : s, LAMBDA T : Last(T, key), S)
Repeat(next, start) ==
    LET last[x \in DOMAIN next] == IF next[x] = x THEN x ELSE last[next[x]]
    IN  last[start]

(***************************************************************************)
(* What is given.  A day d holds the account and what the agents said:     *)
(* held, cash, settled, intent, tier, blocked (not known to be tradable),  *)
(* unknown (of those, what no status is known of), cooling, broken         *)
(* (thesis), adopted (bear claim), defensive, breadth.  The limits in      *)
(* force e are what the reviews have made of buffer, stock, turnover.      *)
(***************************************************************************)
Held(d) == {s \in Symbols : d.held[s] > 0}
Nav(d) == d.cash + Sum([s \in Symbols |-> d.held[s] * Price[s]], Symbols)
Tier(d, s) == IF d.intent[s] \in {"buy", "add"} THEN d.tier[s] ELSE None
Rank(d) == [s \in Symbols |-> 100 * Tier(d, s) + Ranking[s]]
Limit(e, s) == IF Special[s] > 0 THEN Special[s] ELSE e.stock

\* One order of n lots, a sale when n is negative, with k times the slippage.
Gross(s, n, k) ==
    LET slip == (Price[s] * Policy.slippage * k + 5000) \div 10000
    IN  IF n > 0 THEN n * (Price[s] + slip) ELSE (-n) * (Price[s] - slip)
Commission(gross) == MaxOf(Ceiling(gross * 57, 40000), Policy.minimumCommission)
Tax(gross) == Ceiling(gross * 3, 1000)
CashFlow(n, gross) ==
    IF n = 0 THEN 0
    ELSE IF n > 0 THEN -(gross + Commission(gross))
    ELSE gross - Commission(gross) - Tax(gross)
Impact(s, n, k) == CashFlow(n, Gross(s, n, k))

ASSUME AllocationAssumption ==
    /\ Symbols \subseteq Nat /\ IsFiniteSet(Symbols)
    /\ Price \in [Symbols -> Nat \ {0}] /\ Special \in [Symbols -> Nat]
    /\ Atr \in [Symbols -> Nat] /\ Ranking \in [Symbols -> Nat] /\ Sector \in [Symbols -> Nat]
    /\ \A s, t \in Symbols : Atr[s] = Atr[t] \/ Ranking[s] = Ranking[t] => s = t
    /\ Benchmarks \in Seq([Symbols -> Nat])

\* The last two say that the margin kept below a limit is no smaller for what
\* is bought than for what is not, and that a lot sold brings more than it costs.
ASSUME PolicyAssumption ==
    /\ \A number \in {"slippage", "minimumCommission", "stressSlippage", "reserve", "trim", "derisk",
                      "alpha", "minPositions", "maxPositions", "maxStock", "maxSector",
                      "maxTurnover", "cashCeiling", "activeShare", "maxDrops", "maxRevisions",
                      "maxSwaps", "forcedSwaps", "minNewTier", "headroom", "headroomBuy"} :
            Policy[number] \in Nat
    /\ Policy.minPositions <= Policy.maxPositions
    /\ Policy.trim <= 100 /\ Policy.decline \in 0..100 /\ Policy.fill \in 0..100
    /\ 0 < Policy.headroomBuy /\ Policy.headroomBuy <= Policy.headroom
    /\ \A s \in Symbols : Impact(s, -1, 1) >= 0

Impacts(orders, k) == Sum([s \in Symbols |-> Impact(s, orders[s], k)], Symbols)
Traded(orders) == Sum([s \in Symbols |-> Gross(s, orders[s], 1)], Symbols)
Bought(orders) == {s \in Symbols : orders[s] > 0}
Final(d, orders) == [s \in Symbols |-> d.held[s] + orders[s]]
Positions(d, orders) == {s \in Symbols : Final(d, orders)[s] > 0}

(***************************************************************************)
(* The three scenarios: as proposed, after prices fell, and with twice the *)
(* slippage and part of the lots filled as well.                           *)
(***************************************************************************)
Scenarios == <<
    [factor |-> 100, slip |-> 1, fill |-> 100],
    [factor |-> 100 - Policy.decline, slip |-> 1, fill |-> 100],
    [factor |-> 100 - Policy.decline, slip |-> Policy.stressSlippage, fill |-> Policy.fill] >>

Filled(orders, c) ==
    [s \in Symbols |->
        IF orders[s] >= 0 THEN (orders[s] * c.fill) \div 100 ELSE -(((-orders[s]) * c.fill) \div 100)]

Outcome(d, value, flow) ==
    [value |-> value, cash |-> d.cash + flow, nav |-> d.cash + flow + Sum(value, Symbols),
     power |-> d.settled + flow]
After(d, done, c) ==
    Outcome(d, [s \in Symbols |-> ((d.held[s] + done[s]) * Price[s] * c.factor) \div 100],
            Impacts(done, c.slip))
Scenario(d, orders, c) == After(d, Filled(orders, c), c)

Outcomes(d, orders) == [i \in 1..3 |-> Scenario(d, orders, Scenarios[i])]

(***************************************************************************)
(* What is sold before anything is bought.                                 *)
(***************************************************************************)
\* Exits and trims, but for what cannot be traded or is kept back.
Reduced(d, kept) ==
    [s \in Symbols |->
        IF s \in d.blocked \/ (s \in kept /\ d.intent[s] \in {"exit", "hold"}) THEN d.held[s]
        ELSE IF d.intent[s] \in {"exit", "forced_exit"} THEN 0
        ELSE IF d.intent[s] = "trim" THEN d.held[s] - (d.held[s] * Policy.trim) \div 100
        ELSE d.held[s]]

Proceeds(d, target) ==
    Sum([s \in Symbols |-> Impact(s, MinOf(target[s] - d.held[s], 0), 1)], Symbols)

\* On a defensive day, lots are sold until the cash buffer is whole, the
\* stock with the highest ATR first, no more than a share of the NAV in all.
\* Money is in hundredths here.
SellForCash(w, s) ==
    LET most == MinOf(MinOf(Ceiling(w.remaining, 100 * Price[s]), w.hard \div (100 * Price[s])),
                      w.target[s])
        lots == IF most >= w.target[s] /\ w.count <= Policy.minPositions
                THEN w.target[s] - 1 ELSE most
    IN  IF w.remaining <= 0 \/ lots <= 0 THEN w
        ELSE [target |-> [w.target EXCEPT ![s] = @ - lots],
              remaining |-> w.remaining - 100 * Impact(s, -lots, 1),
              hard |-> w.hard - 100 * lots * Price[s],
              count |-> IF lots = w.target[s] THEN w.count - 1 ELSE w.count]

Derisk(d, e, target, kept) ==
    LET shortfall == Nav(d) * e.buffer - 100 * (d.cash + Proceeds(d, target))
        hard == Nav(d) * Policy.derisk
        pool == {s \in Symbols :
            /\ target[s] > 0 /\ s \notin d.blocked \cup kept
            /\ d.intent[s] \notin {"exit", "forced_exit", "trim"}}
    IN  IF ~d.defensive \/ shortfall <= 0 THEN target
        ELSE InOrder(SellForCash,
                 [target |-> target, remaining |-> MinOf(shortfall, hard), hard |-> hard,
                  count |-> Cardinality({s \in Symbols : target[s] > 0})],
                 pool, [s \in pool |-> -Atr[s]]).target

(***************************************************************************)
(* Who gets a slot.                                                        *)
(***************************************************************************)
Candidates(d, target, derisked, excluded, dropped) ==
    {s \in Symbols :
        /\ d.intent[s] \in {"buy", "add"}
        /\ s \notin excluded \cup derisked \cup d.blocked \cup dropped
        /\ ~(s \in d.cooling /\ target[s] = 0 /\ d.held[s] = 0)}

\* What the budget may not touch, in hundredths: the buffer, or the settled
\* cash when it is less; on a day that sold to restore the buffer, all of it.
CashFloor(d, e, restored) ==
    IF restored THEN Nav(d) * e.buffer ELSE MinOf(Nav(d) * e.buffer, 100 * d.settled)

Breadth(d) == MinOf(Policy.maxPositions, MaxOf(d.breadth, Policy.minPositions))
Released(d, active) == MaxOf(0, Cardinality(Held(d)) - Cardinality(active))

\* One more is swapped out if what it brings pays for a lot of the next that is wanted.
SwapForHigh(need, target, wanted, free, w, s) ==
    LET i == Cardinality(w.out) + 1
        gain == w.room + 100 * (Impact(s, -target[s], 1) + Impact(wanted[free + i], 1, 1))
    IN  IF i > need \/ gain < 0 THEN w ELSE [out |-> w.out \cup {s}, room |-> gain]

\* Broken and held on, with a bear claim adopted today: swapped out for a new
\* stock of high conviction that has no slot, if the cash can buy a lot of it.
Victims(d, e, target, kept, candidates) ==
    LET active == {s \in Symbols : target[s] > 0}
        highs == {s \in candidates : s \notin active /\ d.tier[s] = High}
        wanted == Sorted(highs, Rank(d))
        swaps == MinOf(Released(d, active), Policy.maxSwaps)
        free == MaxOf(0, Breadth(d) - Cardinality(Held(d))) + swaps
        need == Min({Cardinality(highs) - free, Policy.forcedSwaps, MaxOf(0, Policy.maxSwaps - swaps),
                     Cardinality(active) - Policy.minPositions})
        pool == {s \in Held(d) \cap d.broken \cap d.adopted :
            d.intent[s] = "hold" /\ target[s] > 0 /\ s \notin d.blocked \cup kept}
        room == 100 * (d.settled + Proceeds(d, target)) - CashFloor(d, e, FALSE)
    IN  IF need <= 0 THEN {}
        ELSE InOrder(LAMBDA w, s : SwapForHigh(need, target, wanted, free, w, s),
                 [out |-> {}, room |-> room], pool, [s \in pool |-> s]).out

\* Mutant: the slots are those of the breadth, though more stocks are held.
EligibleOfBreadth(d, target, candidates) ==
    LET active == {s \in Symbols : target[s] > 0}
        slots == Breadth(d) - Cardinality(active \ candidates)
        in == active \cap candidates
        new == Sorted(candidates \ in, Rank(d))
    IN  in \cup {new[i] : i \in 1..MinOf(Cardinality(candidates \ in), slots - Cardinality(in))}

\* Growth takes the slots that were empty before; the slots the exits left go
\* to new stocks of at least medium conviction, up to the limit of swaps.
TakeSlot(d, active, slots, w, s) ==
    IF Cardinality(w.in) >= slots THEN w
    ELSE IF s \in active THEN [w EXCEPT !.in = @ \cup {s}]
    ELSE IF w.new <= 0 THEN w
    ELSE IF w.growth > 0
    THEN [in |-> w.in \cup {s}, growth |-> w.growth - 1, swap |-> w.swap, new |-> w.new - 1]
    ELSE IF w.swap > 0 /\ d.tier[s] <= Policy.minNewTier
    THEN [in |-> w.in \cup {s}, growth |-> w.growth, swap |-> w.swap - 1, new |-> w.new - 1]
    ELSE w

Eligible(d, target, candidates) ==
    LET active == {s \in Symbols : target[s] > 0}
        held == Cardinality(Held(d))
        slots == MaxOf(Breadth(d), MinOf(held, Policy.maxPositions)) - Cardinality(active \ candidates)
    IN  InOrder(LAMBDA w, s : TakeSlot(d, active, slots, w, s),
            [in |-> {}, growth |-> MaxOf(0, Breadth(d) - held),
             swap |-> MinOf(Released(d, active), Policy.maxSwaps),
             new |-> MaxOf(0, Policy.maxPositions - Cardinality(active))],
            candidates, Rank(d)).in

(***************************************************************************)
(* How the slots share the budget.  A share is a target value, in          *)
(* hundredths of money.                                                    *)
(***************************************************************************)
\* In proportion to the conviction; what a limit cuts off goes to the others.
Conviction(d) == [s \in Symbols |-> Raw[d.tier[s] + 1]]
GiveShares(d, cap, w) ==
    LET total == Sum(Conviction(d), w.in)
        share == [s \in w.in |-> (w.left * Conviction(d)[s]) \div total]
        capped == {s \in w.in : share[s] > cap[s]}
        Given(in, given) == [s \in Symbols |-> IF s \in in THEN given[s] ELSE w.share[s]]
    IN  IF w.in = {} \/ w.left <= 0 THEN w
        ELSE IF capped = {} THEN [in |-> {}, left |-> w.left, share |-> Given(w.in, share)]
        ELSE [in |-> w.in \ capped, left |-> w.left - Sum(cap, capped), share |-> Given(capped, cap)]
Split(d, S, left, cap) ==
    Repeat([w \in [in : SUBSET Symbols, left : Int, share : OrderSet] |-> GiveShares(d, cap, w)],
           [in |-> S, left |-> left, share |-> NoLots]).share

\* No stock has a larger share than one of a higher conviction.
TierOrder(d, S, share) ==
    \A s, t \in S : d.tier[s] < d.tier[t] => share[s] >= share[t]

\* Low convictions get no more than the least of the mediums.
BelowMediums(d, S, left, cap, first) ==
    LET mediums == {s \in S : d.tier[s] = 1}
        lowered == [s \in Symbols |->
            IF s \in S \ mediums THEN MinOf(cap[s], Min({first[m] : m \in mediums})) ELSE cap[s]]
    IN  IF TierOrder(d, S, first) THEN first ELSE Split(d, S, left, lowered)

\* A high conviction gets at least its floor, in the order of the ranks when
\* the budget is short; the others share the rest below the least of the highs.
HighsFirst(d, S, left, cap, needed) ==
    LET highs == {s \in S : d.tier[s] = High}
        rest == left - Sum(needed, highs)
        ahead(s) == Sum(needed, {t \in highs : Ranking[t] < Ranking[s]})
        Rest(lid) == BelowMediums(d, S \ highs, rest, lid, Split(d, S \ highs, rest, lid))
        shared == Rest([s \in Symbols |->
            IF highs = {} THEN cap[s] ELSE MinOf(cap[s], Min({needed[h] : h \in highs}))])
    IN  IF rest <= 0
        THEN [s \in Symbols |->
                IF s \in highs THEN MinOf(needed[s], MaxOf(left - ahead(s), 0)) ELSE 0]
        ELSE [s \in Symbols |-> IF s \in highs THEN needed[s] ELSE shared[s]]

Shares(d, S, budget, cap, floor) ==
    LET left == MaxOf(budget, 0)
        highs == {s \in S : d.tier[s] = High}
        Raised(base) ==
            IF (\A s \in highs : base[s] >= floor[s]) /\ TierOrder(d, S, base) THEN base
            ELSE HighsFirst(d, S, left, cap, [s \in highs |-> MaxOf(base[s], floor[s])])
    IN  Raised(Split(d, S, left, cap))

\* The lots each stock should have; a stock that is held is never reduced here.
Targets(d, e, target, eligible) ==
    LET outside == {s \in Symbols : target[s] > 0} \ eligible
        budget == Nav(d) * (100 - e.buffer)
                    - 100 * Sum([s \in outside |-> target[s] * Price[s]], outside)
        cap == [s \in Symbols |-> (Nav(d) * Limit(e, s) * Policy.headroomBuy) \div 1000]
        floor == [s \in Symbols |->
            MinOf((Nav(d) * Limit(e, s) * Policy.alpha) \div 100, cap[s])]
        Lots(share) == [s \in Symbols |->
            IF s \in eligible /\ MaxOf(d.held[s], share[s] \div (100 * Price[s])) > 0
            THEN MaxOf(d.held[s], share[s] \div (100 * Price[s])) ELSE target[s]]
    IN  Lots(Shares(d, eligible, budget, cap, floor))

(***************************************************************************)
(* The orders are fitted.                                                  *)
(***************************************************************************)
Sales(orders) == [s \in Symbols |-> MinOf(orders[s], 0)]
\* What is at hand, with the reserve for what was bought, leaves the floor.
Covered(available, bought, floor) == 100 * available - Policy.reserve * bought >= floor

\* To the cash: a buy takes as many lots as leave the floor and a reserve for
\* a higher price on everything bought.  Less than half of a new stock is not
\* bought; once a high conviction was cut, no other new stock is.
BuyLots(d, floor, orders, w, s) ==
    LET high == d.tier[s] = High
        cost(n) == -Impact(s, n, 1)
        most == IF w.clipped /\ ~high /\ d.held[s] = 0 THEN 0
                ELSE Max({0} \cup {n \in 1..orders[s] :
                             Covered(w.available - cost(n), w.bought + cost(n), floor)})
        lots == IF most < orders[s] /\ d.held[s] = 0 /\ ~high /\ 2 * most < orders[s]
                THEN 0 ELSE most
    IN  [orders |-> [w.orders EXCEPT ![s] = lots],
         available |-> w.available - cost(lots),
         bought |-> w.bought + cost(lots),
         clipped |-> w.clipped \/ (high /\ 0 < most /\ most < orders[s])]

\* Mutant: the reserve is kept for the order alone, not for all that is bought.
FitCashForEach(d, e, orders, restored) ==
    InOrder(LAMBDA w, s : [BuyLots(d, CashFloor(d, e, restored), orders, w, s) EXCEPT !.bought = 0],
        [orders |-> Sales(orders), available |-> d.settled + Impacts(Sales(orders), 1),
         bought |-> 0, clipped |-> FALSE],
        Bought(orders), Rank(d)).orders

FitCash(d, e, orders, restored) ==
    InOrder(LAMBDA w, s : BuyLots(d, CashFloor(d, e, restored), orders, w, s),
        [orders |-> Sales(orders), available |-> d.settled + Impacts(Sales(orders), 1),
         bought |-> 0, clipped |-> FALSE],
        Bought(orders), Rank(d)).orders

\* To the weight of each stock: above its limit in any scenario, a lot less.
Headroom(orders, s) == IF orders[s] > 0 THEN Policy.headroomBuy ELSE Policy.headroom
Overweight(d, e, orders, s) ==
    \E i \in 1..3 : \E c \in {Scenario(d, orders, Scenarios[i])} :
        c.value[s] > (c.nav * Limit(e, s) * Headroom(orders, s)) \div 100000

LotLess(d, e, s, orders) ==
    IF d.held[s] + orders[s] > 0 /\ Overweight(d, e, orders, s)
    THEN [orders EXCEPT ![s] = @ - 1] ELSE orders
FitStock(d, e, orders, s) == Repeat([o \in OrderSet |-> LotLess(d, e, s, o)], orders)
FitEachStock(d, e, orders) ==
    LET positions == Positions(d, orders)
    IN  InOrder(LAMBDA o, s : FitStock(d, e, o, s), orders, positions, [s \in positions |-> s])
FitStockWeights(d, e, orders) == Repeat([o \in OrderSet |-> FitEachStock(d, e, o)], orders)

\* To the weight of each sector: the sector that is furthest above its limit
\* in any scenario buys less, the lowest conviction first.  Nothing is sold.
SectorValue(c, g) == Sum([s \in Symbols |-> IF Sector[s] = g THEN c.value[s] ELSE 0], Symbols)
Excess(c, g) == 100000 * SectorValue(c, g) - c.nav * Policy.maxSector * Policy.headroom

BuyLess(d, orders, c, g) ==
    LET members == {s \in Bought(orders) : Sector[s] = g}
        symbol == First(members, [s \in members |-> -100 * (200000 * d.tier[s] + c.value[s]) + s])
        cut == MinOf(Ceiling(Excess(c, g), 100000 * Price[symbol]), orders[symbol])
    IN  IF members = {} THEN orders ELSE [orders EXCEPT ![symbol] = @ - cut]

CutWorstSector(d, orders) ==
    LET outcome == Outcomes(d, orders)
        excess == [p \in (1..3) \X {Sector[s] : s \in Symbols} |-> Excess(outcome[p[1]], p[2])]
        places == {p \in DOMAIN excess : excess[p] > 0}
        worst == {p \in places : \A q \in places : excess[q] <= excess[p]}
        place == First(worst, [p \in worst |-> 100 * p[1] + p[2]])
    IN  IF Policy.maxSector >= 100 \/ places = {} THEN orders
        ELSE BuyLess(d, orders, outcome[place[1]], place[2])

FitSectorWeights(d, orders) == Repeat([o \in OrderSet |-> CutWorstSector(d, o)], orders)

\* To the turnover: the weakest buy is cut, and not made at all when less than
\* half of a new stock would be left.
CutToTurnover(d, e, asked, orders) ==
    LET excess == 100 * Traded(orders) - Nav(d) * e.turnover
        bought == Bought(orders)
        weakest == First(bought, [s \in bought |-> -(100 * d.tier[s] + Atr[s])])
        cut == MinOf(MaxOf(Ceiling(excess, 100 * Price[weakest]), 1), orders[weakest])
        left == orders[weakest] - cut
        lots == IF d.held[weakest] = 0 /\ d.tier[weakest] # High /\ 2 * left < asked[weakest]
                THEN 0 ELSE left
    IN  IF excess <= 0 \/ bought = {} THEN orders ELSE [orders EXCEPT ![weakest] = lots]

FitTurnover(d, e, orders) ==
    Repeat([o \in OrderSet |-> CutToTurnover(d, e, orders, o)], orders)

(***************************************************************************)
(* The whole computation.                                                  *)
(***************************************************************************)
\* A computation is a record that one step after the other fills in: what is
\* kept back and dropped, the lots each stock should have, and how they came.
Blank(kept, dropped) ==
    [kept |-> kept, dropped |-> dropped, target |-> NoLots, derisked |-> {},
     candidates |-> {}, victims |-> {}, eligible |-> {}, orders |-> NoLots]

Reduce(d, w) == [w EXCEPT !.target = Reduced(d, w.kept)]
Restore(d, e, w) ==
    LET lighter == Derisk(d, e, w.target, w.kept)
    IN  [w EXCEPT !.target = lighter, !.derisked = {s \in Symbols : lighter[s] < w.target[s]}]
Ask(d, excluded, w) ==
    [w EXCEPT !.candidates = Candidates(d, w.target, w.derisked, excluded, w.dropped)]
SwapOut(d, e, w) ==
    LET out == Victims(d, e, w.target, w.kept, w.candidates)
    IN  [w EXCEPT !.victims = out,
                  !.target = [s \in Symbols |-> IF s \in out THEN 0 ELSE w.target[s]]]
Choose(d, w) == [w EXCEPT !.eligible = Eligible(d, w.target, w.candidates)]
Fund(d, e, w) == [w EXCEPT !.target = Targets(d, e, w.target, w.eligible)]
Fit(d, e, w) ==
    LET wanted == [s \in Symbols |-> w.target[s] - d.held[s]]
        paid == FitCash(d, e, wanted, w.derisked # {})
    IN  [w EXCEPT !.orders =
            FitTurnover(d, e, FitSectorWeights(d, FitStockWeights(d, e, paid)))]

\* One computation with the exits that are kept back and what was dropped.
Compute(d, e, excluded, kept, dropped) ==
    LET sold == Ask(d, excluded, Restore(d, e, Reduce(d, Blank(kept, dropped))))
    IN  Fit(d, e, Fund(d, e, Choose(d, SwapOut(d, e, sold))))

\* The exits and the swapped stocks that may still be kept back.
Keepable(d, body) ==
    {s \in Held(d) :
        /\ d.intent[s] = "exit" \/ s \in body.victims
        /\ s \notin body.kept \cup d.blocked}

\* How many exits to keep back: for the least number of stocks, or one more
\* for the ceiling of the cash or the turnover.
Missing(d, e, body) ==
    LET base == Scenario(d, body.orders, Scenarios[1])
        few == Policy.minPositions - Cardinality(Positions(d, body.orders))
    IN  IF few > 0 THEN few
        ELSE IF 100 * base.cash >= base.nav * Policy.cashCeiling
                \/ 100 * Traded(body.orders) > Nav(d) * e.turnover
        THEN 1 ELSE 0

\* The exits to keep back beside those that are.
ToKeep(d, e, body) ==
    LET keepable == Keepable(d, body)
    IN  {s \in keepable :
            Cardinality({t \in keepable : Atr[t] < Atr[s]}) < Missing(d, e, body)}

\* Mutant: computed again once, whatever the exits kept back have left.
WithKeptOnce(d, e, excluded, dropped) ==
    LET body == Compute(d, e, excluded, {}, dropped)
    IN  Compute(d, e, excluded, ToKeep(d, e, body), dropped)

\* Computed again with more kept back, if there is more.
KeepMore(d, e, keeping, kept, body) ==
    LET more == ToKeep(d, e, body)
    IN  IF more = {} THEN body ELSE keeping[kept \cup more]

WithKept(d, e, excluded, dropped) ==
    LET keeping[kept \in SUBSET Symbols] ==
            KeepMore(d, e, keeping, kept, Compute(d, e, excluded, kept, dropped))
    IN  keeping[{}]

\* Twice the active share of a portfolio against a benchmark, times the NAV.
Distance(c, benchmark) ==
    LET gap == [s \in Symbols |-> 100 * c.value[s] - c.nav * benchmark[s]]
    IN  Sum([s \in Symbols |-> MaxOf(gap[s], -gap[s])], Symbols)
TooClose(c, benchmark) == Distance(c, benchmark) < 2 * c.nav * Policy.activeShare

\* The candidate to drop: of the benchmark that is closest among those with
\* one, the stock both hold most of.
Overlaps(d, body, benchmark) ==
    {s \in Positions(d, body.orders) \ body.dropped :
        d.intent[s] \in {"buy", "add"} /\ benchmark[s] > 0}
ToDrop(d, body, base) ==
    LET failing == {i \in DOMAIN Benchmarks :
            TooClose(base, Benchmarks[i]) /\ Overlaps(d, body, Benchmarks[i]) # {}}
        closest == First(failing, [i \in failing |-> 10 * Distance(base, Benchmarks[i]) + i])
        shared == Overlaps(d, body, Benchmarks[closest])
        pick == First(shared, [s \in shared |->
                    -10 * MinOf(100 * base.value[s], base.nav * Benchmarks[closest][s]) + s])
    IN  IF failing = {} THEN {} ELSE {pick}

\* Computed again with one more dropped, if there is one and it may be.
DropMore(d, dropping, dropped, body) ==
    LET pick == ToDrop(d, body, Scenario(d, body.orders, Scenarios[1]))
    IN  IF Cardinality(dropped) >= Policy.maxDrops \/ pick = {} THEN body
        ELSE dropping[dropped \cup pick]

Propose(d, e, excluded) ==
    LET dropping[dropped \in SUBSET Symbols] ==
            DropMore(d, dropping, dropped, WithKept(d, e, excluded, dropped))
    IN  dropping[{}]
===============================================================================
