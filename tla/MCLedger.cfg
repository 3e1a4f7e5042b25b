CONSTANTS
    a = a
    b = b
    SymbolOrder <- TwoSymbols
    LastDay = 1
    MaxLots = 2
    OpeningCash = 60
    HostAccounts <- HostReports
    LotPrices = {20, 26}
    NoCap = NoCap
    Quotes <- FewQuotes
    Dividends = {2}
    Splits <- OneSplit
    Lags = {0, 1, 2}
    Coin = 2
    RateParts = 20
    CommissionRate = 2
    MinimumCommission = 2
    SellTaxRate = 1
SPECIFICATION Spec
INVARIANTS StateLoads NeverRaises RemainingAgrees WholeOrNothing
PROPERTY FeesAreTheOnlyCost
CHECK_DEADLOCK FALSE
