CONSTANTS
    Tasks = {1, 3}
    Role <- TwoSides
    NameRank <- BearFirst
    Workers = 2
    MaxAttempts = 2
    TransientRetries = 1
    Delay = 1
    Deadline = 3
    LastTime = 3
    MaxRuns = 2
SPECIFICATION Spec
INVARIANTS Isolation AllOrNothing DoneIsKept RetryFits
PROPERTIES RawsKept StageEnds
CHECK_DEADLOCK FALSE
