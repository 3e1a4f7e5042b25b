----------------------------- MODULE DecisionReview -----------------------------
(***************************************************************************)
(* A proposal, the competition's rules and the risk agent                  *)
(* (DailyDecisionPipeline of src/src/etf_agent/automation/daily_pipeline.py *)
(* and risk_stages.py, with the guard and the reviews of decision/risk.py). *)
(*                                                                         *)
(* The engine proposes orders; the guard checks them and the three         *)
(* scenarios against the hard rules.  What breaks a rule is rejected.  Of  *)
(* the rest the risk agent approves, rejects or revises: it takes out a    *)
(* stock that would be bought, or tightens a limit, and the engine         *)
(* proposes again from the same intents, at most a few times.              *)
(***************************************************************************)
EXTENDS Allocation

CONSTANTS
    Days,           \* what the chain may be given: account, intents, tiers
    Tighter         \* bound: the limits a review may name

VARIABLES
    day,            \* what this chain was given
    limits,         \* what the next proposal must keep (its effective_policy)
    excluded,       \* the stocks it must not buy (its excluded_symbols)
    proposal,       \* what the engine proposed, or nothing yet
    revision,       \* revision_count
    decision        \* none yet, or how the chain ended

ASSUME ReviewAssumption ==
    /\ \A d \in Days :
        /\ d.held \in [Symbols -> Nat] /\ d.tier \in [Symbols -> 0..2]
        /\ d.cash \in Int /\ d.settled \in Int /\ d.breadth \in Nat
        /\ d.buffer \in Nat /\ d.defensive \in BOOLEAN
        /\ d.unknown \subseteq d.blocked /\ d.blocked \subseteq Symbols
    /\ Tighter.buffer \subseteq Nat /\ Tighter.stock \subseteq Nat /\ Tighter.turnover \subseteq Nat

vars == <<day, limits, excluded, proposal, revision, decision>>

Nothing == <<>>
Reviewing == decision = "none" /\ proposal # Nothing

Init ==
    /\ day \in Days
    /\ limits = [buffer |-> day.buffer, stock |-> Policy.maxStock, turnover |-> Policy.maxTurnover]
    /\ excluded = {}
    /\ proposal = Nothing
    /\ revision = 0
    /\ decision = "none"

\* Mutant: what the reviews tightened is not handed to the engine.
RunEngineOnPolicy ==
    /\ decision = "none" /\ proposal = Nothing
    /\ proposal' = Propose(day, [limits EXCEPT !.stock = Policy.maxStock,
                                               !.turnover = Policy.maxTurnover], excluded)
    /\ UNCHANGED <<day, limits, excluded, revision, decision>>

RunEngine ==
    /\ decision = "none" /\ proposal = Nothing
    /\ proposal' = Propose(day, limits, excluded)
    /\ UNCHANGED <<day, limits, excluded, revision, decision>>

(***************************************************************************)
(* The guard.  It knows the policy, not what the reviews made of it.  Its  *)
(* checks that cannot fail in the pipeline are left out.                   *)
(***************************************************************************)
Orders == proposal.orders
Base == Scenario(day, Orders, Scenarios[1])
InForce == [stock |-> Policy.maxStock]
OverSector(c, g) == 100 * SectorValue(c, g) > c.nav * Policy.maxSector
\* A sector that was over its limit before, and in which nothing is bought.
Carried == {g \in {Sector[s] : s \in Symbols} :
                OverSector(Base, g) /\ \A s \in Bought(Orders) : Sector[s] # g}

\* One stock without a known status fails them all, traded or not.
StatusesKnown == day.unknown = {}
Tradable == \A s \in day.blocked : Orders[s] = 0
CountFits(c) ==
    LET count == Cardinality({s \in Symbols : c.value[s] > 0})
    IN  Policy.minPositions <= count /\ count <= Policy.maxPositions
CashBelowCeiling == 100 * Base.cash < Base.nav * Policy.cashCeiling
StocksFit(c) == \A s \in Symbols : 100 * c.value[s] <= c.nav * Limit(InForce, s)
SectorsFit(c) == \A g \in {Sector[s] : s \in Symbols} : OverSector(c, g) => g \in Carried
TurnoverFits == 100 * Traded(Orders) <= Nav(day) * Policy.maxTurnover
ActiveEnough(c) == \A i \in DOMAIN Benchmarks : ~TooClose(c, Benchmarks[i])
ForcedFilled ==
    \A s \in Symbols : day.intent[s] = "forced_exit" =>
        Filled(Orders, Scenarios[3])[s] = Orders[s]

ScenarioFits(c) ==
    /\ c.cash >= 0 /\ c.nav > 0 /\ c.power >= 0
    /\ CountFits(c) /\ StocksFit(c) /\ SectorsFit(c) /\ ActiveEnough(c)

GuardPasses ==
    /\ StatusesKnown
    /\ Tradable
    /\ CashBelowCeiling
    /\ TurnoverFits
    /\ \A i \in 1..3 : ScenarioFits(Scenario(day, Orders, Scenarios[i]))
    /\ ForcedFilled

(***************************************************************************)
(* The review.                                                             *)
(***************************************************************************)
End(how) ==
    /\ decision' = how
    /\ UNCHANGED <<day, limits, excluded, proposal, revision>>

Refuse == Reviewing /\ ~GuardPasses /\ End("rejected")

Approve ==
    /\ Reviewing /\ GuardPasses
    /\ End(IF Orders = NoLots THEN "no_trade" ELSE "approved")

\* Also what becomes of one revision more than there may be.
Reject == Reviewing /\ GuardPasses /\ End("rejected")

\* No valid answer in all its attempts: there is no decision.
Unanswered == Reviewing /\ GuardPasses /\ End("failed")

\* Mutant: each is compared with the limits of the first proposal.
ValidActionsAtFirst ==
    [type : {"remove"}, arg : Bought(Orders)]
    \cup [type : {"buffer"}, arg : {v \in Tighter.buffer : day.buffer <= v /\ v <= day.topBuffer}]
    \cup [type : {"stock"}, arg : {v \in Tighter.stock : v <= Policy.maxStock}]
    \cup [type : {"turnover"}, arg : {v \in Tighter.turnover : v <= Policy.maxTurnover}]

\* The actions a review may hold, each compared with the proposal alone.
ValidActions ==
    [type : {"remove"}, arg : Bought(Orders)]
    \cup [type : {"buffer"}, arg : {v \in Tighter.buffer : limits.buffer <= v /\ v <= day.topBuffer}]
    \cup [type : {"stock"}, arg : {v \in Tighter.stock : v <= limits.stock}]
    \cup [type : {"turnover"}, arg : {v \in Tighter.turnover : v <= limits.turnover}]

\* Applied one after the other; a limit that would be loosened raises.
Loosens(l, m) == m.buffer < l.buffer \/ m.stock > l.stock \/ m.turnover > l.turnover
Effect(w, a) ==
    [limits |-> [k \in DOMAIN w.limits |-> IF a.type = k THEN a.arg ELSE w.limits[k]],
     excluded |-> IF a.type = "remove" THEN w.excluded \cup {a.arg} ELSE w.excluded]

Revise ==
    /\ Reviewing /\ GuardPasses
    /\ revision < Policy.maxRevisions
    /\ \E a, b \in ValidActions :
        LET first == Effect([limits |-> limits, excluded |-> excluded], a)
            both == Effect(first, b)
        IN  IF Loosens(first.limits, both.limits) THEN End("failed")
            ELSE /\ limits' = both.limits /\ excluded' = both.excluded
                 /\ proposal' = Nothing
                 /\ revision' = revision + 1
                 /\ UNCHANGED <<day, decision>>

Next == RunEngine \/ Refuse \/ Approve \/ Reject \/ Unanswered \/ Revise

Spec == Init /\ [][Next]_vars

(***************************************************************************)
(* Properties.                                                             *)
(***************************************************************************)
Proposed == proposal # Nothing

\* What the reviews left of the limits is kept, not only the policy.  No stock
\* is above its limit, with what is kept free below it, in any scenario, though
\* its orders were cut for the turnover after they were fitted; and what is
\* traded is above its limit only if nothing is bought and no exit may be kept
\* back (_fit_stock_weights and _fit_turnover of allocation.py).
WithinReviews ==
    Proposed =>
        /\ \A s \in Positions(day, Orders) : ~Overweight(day, limits, Orders, s)
        /\ 100 * Traded(Orders) > Nav(day) * limits.turnover =>
               Bought(Orders) = {} /\ Keepable(day, proposal) = {}

\* If everything bought costs the reserve more at the open, the settled cash
\* and the sales still pay for all of it and leave the floor, so the account
\* does not void the batch (buy_gap_reserve of allocation.py, void_batch).
GapIsPayable ==
    Proposed /\ Bought(Orders) # {} =>
        100 * (day.settled + Impacts(Orders, 1))
            + Policy.reserve * Sum([s \in Symbols |-> Impact(s, Orders[s], 1)], Bought(Orders))
        >= CashFloor(day, limits, proposal.derisked # {})

\* The guard refuses what the engine fitted only if too few stocks, too much
\* cash or turnover are left with no exit to keep back, if it is too close to a
\* benchmark, if a stock that is blocked is sold, or if the status of a stock
\* of the universe is not known, whatever was fitted: sectors, stocks, cash and
\* buying power were fitted to the rules the guard checks (CompetitionGuardV2).
RefusedOnlyWhenStuck ==
    Proposed /\ ~GuardPasses =>
        \/ ~StatusesKnown
        \/ ~Tradable
        \/ \E i \in 1..3 : ~ActiveEnough(Scenario(day, Orders, Scenarios[i]))
        \/ Missing(day, limits, proposal) > 0 /\ Keepable(day, proposal) = {}

\* A stock is swapped out only for a new one that gets its slot: what
\* _forced_swap_victims counts before the stock is gone agrees with what the
\* slots are when it is.
SwapHasSlot ==
    Proposed => Cardinality(proposal.victims)
                    <= Cardinality({s \in proposal.eligible : day.held[s] = 0})

\* Revisions only tighten: what a review took out stays out and is not bought,
\* what it lowered stays low, by whatever two actions (revision_effects).
OnlyTighter ==
    [][/\ excluded \subseteq excluded'
       /\ limits.buffer <= limits'.buffer /\ limits'.stock <= limits.stock
       /\ limits'.turnover <= limits.turnover
       /\ proposal' # Nothing => Bought(proposal'.orders) \cap excluded' = {}]_vars

\* A stock that cannot be traded gets no order (decision/README.md).
BlockedNeverTraded == Proposed => \A s \in day.blocked : Orders[s] = 0
================================================================================
