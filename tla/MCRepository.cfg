CONSTANTS
    genesis = genesis
    a = a
    b = b
    c = c
    w1 = w1
    w2 = w2
    none = none
    RunIds = {genesis, a, b, c}
    Genesis = genesis
    Payloads = {genesis, a, b, c}
    None = none
    Writers = {w1, w2}
    MayCarry <- PayloadOfRun
    IdsOf <- OwnIds
    Does <- Split
SPECIFICATION Spec
INVARIANTS OneWriter ChainWalkable PublishAllOrNothing
PROPERTIES LiveRunsStay ImplementsChain
SYMMETRY SwapAB
