CONSTANTS
    None = None
    Messages = {m1, m2}
    MaxRuns = 2
    MaxAttempts = 3
    MaxFaults = 2
SPECIFICATION Spec
SYMMETRY AnyMessage
INVARIANTS Backed ShowsResult Repaired
PROPERTY NeverBack
CHECK_DEADLOCK FALSE
