SPECIFICATION FairSpec
CONSTANTS
    None = None
    RunCount = 2
    Worker = {w1, w2}
    StepCount = 3
    WaitSteps = {2}
    GatedSteps = {1}
    ContinueSteps = {1}
    ConditionalSteps = {}
    DependsOn <- FirstBeforeLast
    Limit = 1
    Overflow = {"queue", "drop"}
    Events = {"crash", "preflight"}
    MaxFaults = 1
    MaxCancels = 0
    MaxRetries = 0
INVARIANTS
    ConcurrencyLimit
    DependenciesFirst
PROPERTIES
    EveryRunSettles
    DropNeedsLateRelease
CHECK_DEADLOCK FALSE
