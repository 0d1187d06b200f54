SPECIFICATION FairTriggers
CONSTANTS
    None = None
    Null = Null
    Parts = {"events", "schedules"}
    orders = orders
    mirror = mirror
    Dispatcher = {d1, d2}
    Trigger = {orders, mirror}
    Pattern <- MCPattern
    Emits <- MCEmits
    RootTypes <- MCRootTypes
    BatchSize = 2
    MaxDepth = 2
    MaxOpen = 1
    MaxEvents = 3
    MaxFaults = 1
    MaxChanges = 2
    Workflow = {1, 2}
    Request = {1, 2}
    Scheduler = {s1, s2}
    Offer <- MCOffer
    ScheduleBatch = 2
    MaxTime = 2
    MaxRequests = 3
    MaxTimerFaults = 1
INVARIANTS
    TriggersTypeOK
    ExactlyOnce
    CascadeBounded
    OccurrencesCatchUp
PROPERTIES
    DisabledIsQuiet
    TriggersFire
CHECK_DEADLOCK FALSE
