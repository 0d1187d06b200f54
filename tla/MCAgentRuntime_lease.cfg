SPECIFICATION FairSpec
CONSTANTS
    w1 = w1
    w2 = w2
    None = None
    Worker <- MCWorker
    StepCount = 1
    ReadOnly = {}
    Gated = {}
    Events = {"stall"}
    MaxFaults = 0
PROPERTIES
    LeaseLossFailsClosed
CHECK_DEADLOCK FALSE
