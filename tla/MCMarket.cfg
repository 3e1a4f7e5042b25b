CONSTANTS
    a = a
    b = b
    Symbols = {a, b}
    Days = {1, 2}
    ClosesAfter <- Closes
    FinalAfter <- Finals
    Jobs = {j1, j2, j3}
    Lists <- Shorter
    Mixes <- Together
    Contents = {c1, c2}
    Gaps = {a}
    MaxStamps = 3
    MaxSnaps = 1
SPECIFICATION Spec
SYMMETRY Alike
INVARIANTS ReadsTheSame UsableIsWhole NewestWins
PROPERTY CollectKeepsUniverse
CHECK_DEADLOCK FALSE
