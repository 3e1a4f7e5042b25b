CONSTANTS
    None = None
    Procs = {p1, p2}
    Commands = {"pending", "apply", "rollback", "auto"}
    MaxChanges = 2
    KnobOf <- TwoKnobs
    Risky = {2}
    LastDay = 1
    TrialDays = 1
    ExtendedDays = 1
    MaxTrialDays = 1
    PendingAge = 1
    Cooldown = 1
    AutoDisable = 1
    MaxFaults = 1
SPECIFICATION FairSpec
INVARIANTS OneTrial LiveIsRecorded SettledMeansOver OffMeansOff
PROPERTY TrialEnds
CHECK_DEADLOCK FALSE
