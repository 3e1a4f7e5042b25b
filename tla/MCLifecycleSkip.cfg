CONSTANTS
    LastSession = 2
    LastTime = 5
    MaxRuns = 3
    Skips = {FALSE, TRUE}
    Rebases = {FALSE}
    None = None
SPECIFICATION Spec
INVARIANTS PlanStands
CHECK_DEADLOCK FALSE
