SPECIFICATION FairSpec
CONSTANTS
    None = None
    RunCount = 1
    Worker = {w1, w2}
    StepCount = 1
    WaitSteps = {}
    GatedSteps = {1}
    ContinueSteps = {}
    ConditionalSteps = {}
    DependsOn <- FirstBeforeLast
    Limit = 0
    Overflow = {"queue"}
    Events = {"cancel", "stall"}
    MaxFaults = 0
    MaxCancels = 1
    MaxRetries = 0
PROPERTIES
    StoppedIsFinal
CHECK_DEADLOCK FALSE
