SPECIFICATION FairPlatform
CONSTANTS
    w1 = w1
    w2 = w2
    r1 = r1
    r2 = r2
    p1 = p1
    h1 = h1
    h2 = h2
    e1 = e1
    s1 = s1
    c1 = c1
    c2 = c2
    None = None
    Unset = Unset
    Worker <- MCWorker
    Package <- MCPackage
    Endpoint = {}
    MaxAttempts = 2
    Request = {}
    Parts = {"jobs", "events"}
    MaxFaults = 2
    Nil = Nil
    EventWorker <- MCWorker
    Hook <- MCHook
    Event = {e1}
    EventOf <- MCEventOf
    Subscription = {s1}
    MaxDeliveryAttempts = 2
    MaxEventFaults = 2
    Call <- MCCall
    Window = {1, 2}
    Canonical = 1
    Offer <- MCOffer
    MaxChanges = 2
    StartTime = 1
    MaxTime = 3
INVARIANTS
    PassedIsPromoted
PROPERTIES
    VerdictIsFinal
    WorkIsSettled
CHECK_DEADLOCK FALSE
