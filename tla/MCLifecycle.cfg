CONSTANTS
    LastSession = 2
    LastTime = 5
    MaxRuns = 3
    Skips = {FALSE, TRUE}
    Rebases = {FALSE, TRUE}
    None = None
SPECIFICATION Spec
INVARIANTS SettledStays OneClosePerSession OneDecision NoHindsight PlanStandsWithData
PROPERTY ImplementsChain
CHECK_DEADLOCK FALSE
