SPECIFICATION Triggers
CONSTANTS
    None = None
    Null = Null
    Parts = {"events"}
    orders = orders
    mirror = mirror
    Dispatcher = {d1, d2}
    Trigger = {orders}
    Pattern <- MCPattern
    Emits <- MCEmits
    RootTypes <- MCRootTypes
    BatchSize = 2
    MaxDepth = 2
    MaxOpen = 2
    MaxEvents = 2
    MaxFaults = 0
    MaxChanges = 0
    Workflow = {1, 2}
    Request = {1, 2}
    Scheduler = {s1, s2}
    Offer <- MCOffer
    ScheduleBatch = 2
    MaxTime = 2
    MaxRequests = 3
    MaxTimerFaults = 1
INVARIANTS
    ExactlyOnce
CHECK_DEADLOCK FALSE
