CONSTANTS
    Symbols = {1, 2, 3, 4, 5}
    Price <- Prices
    Atr <- Atrs
    Ranking <- Ranks
    Sector <- Sectors
    Special <- Specials
    Benchmarks <- TwoBenchmarks
    Policy <- Numbers
    Days <- MCDays
    Tighter <- Values
SPECIFICATION Spec
INVARIANTS BlockedNeverTraded
CHECK_DEADLOCK FALSE
