SPECIFICATION FairSpec
CONSTANTS
    None = None
    RunCount = 2
    Worker = {w1, w2}
    StepCount = 1
    WaitSteps = {1}
    GatedSteps = {}
    ContinueSteps = {}
    ConditionalSteps = {}
    DependsOn <- FirstBeforeLast
    Limit = 1
    Overflow = {"drop"}
    Events = {}
    MaxFaults = 0
    MaxCancels = 0
    MaxRetries = 0
PROPERTIES
    StartedIsNotDropped
CHECK_DEADLOCK FALSE
