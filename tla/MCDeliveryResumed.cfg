CONSTANTS
    None = None
    Messages = {m1, m2}
    MaxRuns = 1
    MaxAttempts = 2
    MaxFaults = 1
SPECIFICATION Spec
SYMMETRY AnyMessage
INVARIANT ResumedIsDelivered
CHECK_DEADLOCK FALSE
