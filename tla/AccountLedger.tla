---------------------------- MODULE AccountLedger ----------------------------
(***************************************************************************)
(* The money of one account                                                *)
(* (src/src/etf_agent/ledger/account.py, ledger/execution.py and the       *)
(* operations of virtual_account/service.py that play them).               *)
(*                                                                         *)
(* Each operation loads the latest state into a ledger, works on it and    *)
(* saves what the ledger shows as the next state: prepare_day releases     *)
(* what is due and books corporate actions, apply_decision executes the    *)
(* orders of a decision at the prices of the session, rebase takes over    *)
(* what the organiser of the competition reports.  An operation that       *)
(* raises saves nothing.  How the states are kept on disk is the matter of *)
(* VirtualAccountRepository.                                               *)
(*                                                                         *)
(* Shares are counted in whole lots, money in parts of a coin: the ledger  *)
(* works on exact decimals and publishes whole coins.  The average cost of *)
(* a position decides nothing and is left out.                             *)
(***************************************************************************)
EXTENDS Integers, Sequences, SequencesExt, FiniteSetsExt

CONSTANTS
    SymbolOrder,        \* the symbols, in the order their names sort
    LastDay,            \* bound: the days that are played
    MaxLots,            \* bound: the lots of one order
    OpeningCash,        \* the cash an account opens with
    HostAccounts,       \* what the organiser may report: [cash, lots]
    LotPrices,          \* prices of one lot
    NoCap,              \* available_lots is null: no limit on the volume
    Quotes,             \* what the market may quote: [tradable, price, cap]
    Dividends,          \* cash dividends of one lot
    Splits,             \* share splits: <<numerator, denominator>>
    Lags,               \* days from a sale, or a dividend, to its payment
    Coin,               \* parts in a coin
    RateParts,          \* the rates are counted in parts of this whole
    CommissionRate, MinimumCommission, SellTaxRate

Symbols == {SymbolOrder[k] : k \in 1..Len(SymbolOrder)}

Up(x, y) == (x + y - 1) \div y

(* ledger/contracts.py: to whole coins, half a coin up; and ROUND_CEILING. *)
Rounded(x) == ((x + Coin \div 2) \div Coin) * Coin
RoundedUp(parts) == Up(parts, RateParts * Coin) * Coin

\* Fees of a fill (ExecutionSimulator.fill).
Commission(gross) ==
    Max({RoundedUp(gross * CommissionRate), MinimumCommission})
SellTax(gross) == RoundedUp(gross * SellTaxRate)
Impact(side, gross) ==
    IF side = "buy" THEN -(gross + Commission(gross))
                    ELSE gross - Commission(gross) - SellTax(gross)

Whole(x) == x % Coin = 0

\* No sale costs more in fees than it brings, as at the prices of the listed
\* stocks and funds the program trades: the smallest lot is worth the minimum
\* commission many times over.  A lot of a thousand shares at a price in
\* hundredths is worth whole coins.  What the organiser reports is whole too
\* and worth something; orders name a symbol once.
ASSUME LedgerAssumption ==
    /\ LastDay \in Nat /\ MaxLots \in Nat /\ Coin \in Nat \ {0} /\ RateParts \in Nat \ {0}
    /\ SymbolOrder \in Seq(Symbols)
    /\ \A j, k \in 1..Len(SymbolOrder) : SymbolOrder[j] = SymbolOrder[k] => j = k
    /\ CommissionRate \in Nat /\ SellTaxRate \in Nat
    /\ MinimumCommission \in Nat /\ Whole(MinimumCommission)
    /\ OpeningCash \in Nat \ {0} /\ Whole(OpeningCash)
    /\ \A p \in LotPrices : p \in Nat /\ Whole(p) /\ Impact("sell", p) > 0
    /\ \A q \in Quotes : q.price \in LotPrices /\ (q.cap = NoCap \/ q.cap \in Nat)
    /\ \A host \in HostAccounts :
          /\ host.cash \in Nat /\ Whole(host.cash) /\ host.lots \in [Symbols -> Nat]
          /\ host.cash > 0 \/ \E s \in Symbols : host.lots[s] > 0
    /\ Dividends \subseteq Nat /\ Lags \subseteq Nat
    /\ Splits \subseteq (Nat \ {0}) \X (Nat \ {0})

(* A day has four moments: before the open, the execution, the close, the  *)
(* evening.                                                                *)
Moment(day, slot) == 4 * day + slot
DayOf(moment) == moment \div 4
PrepareTimes == {Moment(d, s) : d \in 0..LastDay, s \in {0, 3}}

VARIABLES
    account,    \* the latest saved state
    execution,  \* the execution record of the close it was saved with
    raised      \* what the last operation raised

vars == <<account, execution, raised>>

NoExecution == [fills |-> << >>]

-----------------------------------------------------------------------------
(* AccountLedger: a working copy [settled, unsettled, pending, lots, error]*)
(* of which error tells what was raised first.                             *)

Total(pending) == FoldLeft(LAMBDA sum, item : sum + item.amount, 0, pending)

Ledger(state) ==
    [settled |-> state.settled, unsettled |-> state.unsettled,
     pending |-> state.pending, lots |-> state.lots,
     error |-> IF Total(state.pending) = state.unsettled THEN "none" ELSE "unbalanced"]

BuyingPower(ledger, reuse) ==
    ledger.settled + (IF reuse THEN ledger.unsettled ELSE 0)

\* What falls due by a day, and what stays open.
Released(pending, day) ==
    FoldLeft(LAMBDA acc, item :
                 IF item.day <= day THEN [acc EXCEPT !.due = @ + item.amount]
                 ELSE [acc EXCEPT !.rest = Append(@, item)],
             [due |-> 0, rest |-> << >>], pending)

Settle(ledger, day) ==
    LET released == Released(ledger.pending, day)
    IN  [ledger EXCEPT !.settled = @ + released.due,
                       !.unsettled = @ - released.due,
                       !.pending = released.rest]

\* Offset the receivables a purchase has used up, the oldest first.
Offset(pending, amount) ==
    FoldLeft(LAMBDA acc, item :
                 LET used == Min({item.amount, acc.left})
                 IN  [left |-> acc.left - used,
                      rest |-> IF used = item.amount THEN acc.rest
                               ELSE Append(acc.rest, [item EXCEPT !.amount = @ - used])],
             [left |-> amount, rest |-> << >>], pending)

\* Mutant: a purchase leaves the list of receivables alone.
BuyWithoutOffset(ledger, fill, reuse) ==
    LET cost == -fill.impact
        used == IF reuse THEN Min({ledger.unsettled, cost}) ELSE 0
    IN  IF cost > BuyingPower(ledger, reuse) THEN [ledger EXCEPT !.error = "overdraft"]
        ELSE [ledger EXCEPT !.unsettled = @ - used,
                            !.settled = @ - cost + used,
                            !.lots[fill.symbol] = @ + fill.lots]

\* A purchase uses the receivables before the settled cash, if it may.
Buy(ledger, fill, reuse) ==
    LET cost == -fill.impact
        used == IF reuse THEN Min({ledger.unsettled, cost}) ELSE 0
        offset == Offset(ledger.pending, used)
    IN  IF cost > BuyingPower(ledger, reuse) THEN [ledger EXCEPT !.error = "overdraft"]
        ELSE IF offset.left # 0 THEN [ledger EXCEPT !.error = "receivables"]
        ELSE [settled |-> ledger.settled - cost + used,
              unsettled |-> ledger.unsettled - used,
              pending |-> offset.rest,
              lots |-> [ledger.lots EXCEPT ![fill.symbol] = @ + fill.lots],
              error |-> ledger.error]

\* Mutant: a sale is booked without its fees.
SellGross(ledger, fill, day) ==
    IF ledger.lots[fill.symbol] < fill.lots THEN [ledger EXCEPT !.error = "oversold"]
    ELSE [ledger EXCEPT !.lots[fill.symbol] = @ - fill.lots,
                        !.unsettled = @ + fill.gross,
                        !.pending = Append(@, [day |-> day, amount |-> fill.gross])]

Sell(ledger, fill, day) ==
    IF ledger.lots[fill.symbol] < fill.lots THEN [ledger EXCEPT !.error = "oversold"]
    ELSE [ledger EXCEPT !.lots[fill.symbol] = @ - fill.lots,
                        !.unsettled = @ + fill.impact,
                        !.pending = Append(@, [day |-> day, amount |-> fill.impact])]

ApplyFills(ledger, fills, day, reuse) ==
    FoldLeft(LAMBDA l, fill :
                 IF l.error # "none" THEN l
                 ELSE IF fill.side = "buy" THEN Buy(l, fill, reuse)
                 ELSE Sell(l, fill, day),
             ledger, fills)

\* A corporate action on one symbol; of a symbol that is not held, nothing.
ApplyAction(ledger, action) ==
    LET held == ledger.lots[action.symbol] IN
    IF held = 0 THEN ledger
    ELSE IF action.type = "cash_dividend" THEN
        [ledger EXCEPT !.unsettled = @ + held * action.amount,
                       !.pending = Append(@, [day |-> action.day, amount |-> held * action.amount])]
    ELSE IF (held * action.ratio[1]) % action.ratio[2] # 0
         THEN [ledger EXCEPT !.error = "odd lot"]
         ELSE [ledger EXCEPT !.lots[action.symbol] = (@ * action.ratio[1]) \div action.ratio[2]]

Value(lots, price) == FoldLeft(LAMBDA sum, s : sum + lots[s] * price[s], 0, SymbolOrder)

\* What a ledger publishes: whole coins, but the receivables as they are
\* (AccountLedger.snapshot).
Published(ledger, kind, at) ==
    [kind |-> kind, asOf |-> at, lots |-> ledger.lots, pending |-> ledger.pending,
     settled |-> Rounded(ledger.settled), unsettled |-> Rounded(ledger.unsettled)]

\* A state without money is refused (_state); nav is not kept, it only counts here.
Nav(ledger, price) ==
    Rounded(ledger.settled + ledger.unsettled + Value(ledger.lots, price))

-----------------------------------------------------------------------------
(* ExecutionSimulator.                                                     *)

Fill(symbol, side, lots, price) ==
    [symbol |-> symbol, side |-> side, lots |-> lots, gross |-> lots * price,
     impact |-> Impact(side, lots * price)]

\* The lots the market gives, and those of them the money reaches.
MarketLots(order, quote) ==
    IF ~quote.tradable THEN 0
    ELSE IF quote.cap = NoCap THEN order.lots ELSE Min({order.lots, quote.cap})

\* Mutant: the commission is not counted when the money is checked.
AffordableWithoutFee(lots, price, available) ==
    Max({n \in 0..lots : n = 0 \/ n * price <= available})

AffordableLots(lots, price, available) ==
    Max({n \in 0..lots : n = 0 \/ -Impact("buy", n * price) <= available})

\* Mutant: the proceeds of a sale are at hand whatever the rules say.
ExecuteReusing(acc, symbol, order, quote, reuse, voidBatch) ==
    LET market == MarketLots(order, quote)
        lots == IF order.side = "sell" THEN market
                ELSE AffordableLots(market, quote.price, acc.available)
        fill == Fill(symbol, order.side, lots, quote.price)
    IN  IF lots < market /\ voidBatch THEN [acc EXCEPT !.voided = TRUE]
        ELSE IF lots = 0 THEN acc
        ELSE [acc EXCEPT !.fills = Append(@, fill), !.available = @ + fill.impact]

\* One order, on acc = [fills, available, voided].
Execute(acc, symbol, order, quote, reuse, voidBatch) ==
    LET market == MarketLots(order, quote)
        lots == IF order.side = "sell" THEN market
                ELSE AffordableLots(market, quote.price, acc.available)
        fill == Fill(symbol, order.side, lots, quote.price)
    IN  IF lots < market /\ voidBatch THEN [acc EXCEPT !.voided = TRUE]
        ELSE IF lots = 0 THEN acc
        ELSE [fills |-> Append(acc.fills, fill),
              available |-> acc.available + IF order.side = "buy" \/ reuse THEN fill.impact ELSE 0,
              voided |-> acc.voided]

\* No fill at all, the buying power as it was.
VoidBatch(power) ==
    [fills |-> << >>, remaining |-> Rounded(power), voided |-> TRUE]

\* The orders of one side, by symbol, until the batch is void.
ExecuteSide(start, side, orders, quotes, reuse, voidBatch) ==
    FoldLeft(LAMBDA acc, s :
                 IF acc.voided \/ s \notin DOMAIN orders THEN acc
                 ELSE IF orders[s].side # side THEN acc
                 ELSE Execute(acc, s, orders[s], quotes[s], reuse, voidBatch),
             start, SymbolOrder)

\* Sales first, then by symbol.
ExecuteAll(orders, quotes, power, reuse, voidBatch) ==
    ExecuteSide(ExecuteSide([fills |-> << >>, available |-> power, voided |-> FALSE],
                            "sell", orders, quotes, reuse, voidBatch),
                "buy", orders, quotes, reuse, voidBatch)

\* Mutant: a voided batch keeps the sales that came before the purchase.
RunKeepingSales(orders, quotes, power, reuse, voidBatch) ==
    LET acc == ExecuteAll(orders, quotes, power, reuse, voidBatch)
    IN  [fills |-> acc.fills, remaining |-> Rounded(acc.available), voided |-> acc.voided]

Run(orders, quotes, power, reuse, voidBatch) ==
    LET acc == ExecuteAll(orders, quotes, power, reuse, voidBatch)
    IN  IF acc.voided THEN VoidBatch(power)
        ELSE [fills |-> acc.fills, remaining |-> Rounded(acc.available), voided |-> FALSE]

-----------------------------------------------------------------------------
(* The operations of VirtualAccountService.                                *)

\* Save the next state, unless something was raised on the way.
Save(ledger, price, state, record) ==
    LET what == IF ledger.error # "none" THEN ledger.error
                ELSE IF state.settled < 0 \/ Nav(ledger, price) <= 0 THEN "illegal"
                ELSE "none"
    IN  /\ raised' = what
        /\ account' = IF what = "none" THEN state ELSE account
        /\ execution' = IF what = "none" THEN record ELSE execution

Prices == {[s \in Symbols |-> p] : p \in LotPrices}

\* initialize: an account with cash only.
Init ==
    /\ account = [kind |-> "genesis", asOf |-> 0, lots |-> [s \in Symbols |-> 0],
                  pending |-> << >>, settled |-> OpeningCash, unsettled |-> 0]
    /\ execution = NoExecution
    /\ raised = "none"

\* prepare_day: what is due by the cutoff is released before the corporate
\* actions of the day are booked.
PrepareDay(at, actions, price) ==
    LET loaded == Ledger(account)
        settled == Settle(loaded, DayOf(at))
        ledger == FoldLeft(LAMBDA l, a : IF l.error # "none" THEN l ELSE ApplyAction(l, a),
                           settled, actions)
    IN  /\ at \in PrepareTimes /\ at > account.asOf
        /\ Save(ledger, price, Published(ledger, "prepared", at), NoExecution)

\* rebase: the organiser's account, of whatever time, replaces a prepared one.
Rebase(at, host, price) ==
    LET ledger == [settled |-> host.cash, unsettled |-> 0, pending |-> << >>,
                   lots |-> host.lots, error |-> "none"]
    IN  /\ account.kind = "prepared"
        /\ Save(ledger, price, [Published(ledger, "rebase", at) EXCEPT !.settled = host.cash],
                NoExecution)

\* apply_decision: the day's session plays the orders of a decision that was
\* made on the prepared state; hostVoided: the organiser voided the batch.
ApplyDecision(day, orders, quotes, lag, reuse, voidBatch, hostVoided) ==
    LET opened == Settle(Ledger(account), day)
        power == BuyingPower(opened, reuse)
        record == IF hostVoided THEN VoidBatch(power)
                  ELSE Run(orders, quotes, power, reuse, voidBatch)
        filled == ApplyFills(opened, record.fills, day + lag, reuse)
        closed == Settle(filled, day)
        price == [s \in Symbols |-> quotes[s].price]
    IN  /\ account.kind = "prepared"
        /\ Moment(day, 1) > account.asOf
        /\ Save(closed, price, Published(closed, "close", Moment(day, 2)),
                [fills |-> record.fills, remaining |-> record.remaining, voided |-> record.voided,
                 orders |-> orders, quotes |-> quotes, reuse |-> reuse, voidBatch |-> voidBatch,
                 power |-> power, powerAfter |-> BuyingPower(filled, reuse)])

\* The orders of a decision, which sells no more than the prepared account holds.
Orders ==
    {o \in UNION {[S -> [side : {"buy", "sell"}, lots : 1..MaxLots]] : S \in SUBSET Symbols} :
        \A s \in DOMAIN o : o[s].side = "sell" => o[s].lots <= account.lots[s]}

Actions(day) ==
    [type : {"cash_dividend"}, symbol : Symbols, amount : Dividends, day : {day + n : n \in Lags}]
    \cup [type : {"split"}, symbol : Symbols, ratio : Splits]

Next ==
    \/ \E at \in PrepareTimes, price \in Prices :
          \/ PrepareDay(at, << >>, price)
          \/ \E a \in Actions(DayOf(at)) : PrepareDay(at, <<a>>, price)
          \/ \E host \in HostAccounts : Rebase(at, host, price)
    \/ \E day \in 0..LastDay, orders \in Orders, quotes \in [Symbols -> Quotes] :
          \/ ApplyDecision(day, orders, quotes, 0, FALSE, FALSE, TRUE)
          \/ \E lag \in Lags, reuse, voidBatch \in BOOLEAN :
                ApplyDecision(day, orders, quotes, lag, reuse, voidBatch, FALSE)

Spec == Init /\ [][Next]_vars

-----------------------------------------------------------------------------
(* Properties.                                                             *)

\* Every saved state can be loaded again: the open receivables add up to the
\* unsettled cash ("the open items and unsettled_cash do not agree",
\* service.py:703-704), else the account could never be worked on again.
StateLoads == Total(account.pending) = account.unsettled

\* Whatever the simulator fills, the ledger can book: the two count money on
\* their own and must agree on it order by order (execution.py:90-140 and
\* account.py:25-52).  Only a split into odd lots is ever refused.
NeverRaises == raised \in {"none", "odd lot"}

\* The buying power the simulator says is left is what the ledger has left.
RemainingAgrees ==
    account.kind = "close" => execution.remaining = execution.powerAfter

\* Under void_batch no order is cut down for lack of money: all the market
\* gives is filled, or nothing (execution.py:126-128).
WholeOrNothing ==
    account.kind = "close" /\ execution.voidBatch /\ execution.fills # << >> =>
        \A s \in DOMAIN execution.orders :
            LET lots == MarketLots(execution.orders[s], execution.quotes[s]) IN
            lots # 0 => \E k \in 1..Len(execution.fills) :
                            /\ execution.fills[k].symbol = s
                            /\ execution.fills[k].lots = lots

\* A session changes the worth of the account at the prices of the session by
\* the fees and taxes of the fills and nothing else: no money is made or lost
\* between cash, receivables and positions.
Worth(state, price) == state.settled + state.unsettled + Value(state.lots, price)
Fees(fill) == IF fill.side = "buy" THEN -fill.impact - fill.gross ELSE fill.gross - fill.impact

FeesAreTheOnlyCost ==
    [][account'.kind = "close" /\ account' # account =>
           LET price == [s \in Symbols |-> execution'.quotes[s].price] IN
           Worth(account, price) - Worth(account', price)
               = FoldLeft(LAMBDA sum, fill : sum + Fees(fill), 0, execution'.fills)]_vars
=============================================================================
