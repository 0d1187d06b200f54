SPECIFICATION FairSpec
CONSTANTS
    None = None
    RunCount = 1
    Worker = {w1, w2}
    StepCount = 2
    WaitSteps = {2}
    GatedSteps = {}
    ContinueSteps = {1}
    ConditionalSteps = {}
    DependsOn <- NoDependencies
    Limit = 0
    Overflow = {"queue"}
    Events = {}
    MaxFaults = 0
    MaxCancels = 0
    MaxRetries = 0
INVARIANTS
    NoAutomaticReplay
CHECK_DEADLOCK FALSE
