SPECIFICATION Spec
CONSTANTS
    None = None
    RunCount = 1
    Worker = {w1, w2}
    StepCount = 3
    WaitSteps = {2}
    GatedSteps = {3}
    ContinueSteps = {}
    ConditionalSteps = {2}
    DependsOn <- FirstBeforeLast
    Limit = 0
    Overflow = {"queue"}
    Events = {"cancel", "retry", "stall", "crash"}
    MaxFaults = 1
    MaxCancels = 1
    MaxRetries = 1
INVARIANTS
    TypeOK
    SingleExecutor
    NoAutomaticReplay
CHECK_DEADLOCK FALSE
