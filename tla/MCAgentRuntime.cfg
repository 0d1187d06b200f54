SPECIFICATION Spec
CONSTANTS
    w1 = w1
    w2 = w2
    None = None
    Worker <- MCWorker
    StepCount = 3
    ReadOnly = {2}
    Gated = {3}
    Events = {"stall", "preflight", "providerError", "badOutput"}
    MaxFaults = 1
SYMMETRY MCSymmetry
INVARIANTS
    TypeOK
    EffectAtMostOnce
    EffectsInOrder
    CompletedIsTrue
    FailureIsNotAnEffect
    CancelStopsLaterSteps
    AuthorityIsCurrent
PROPERTIES
    OutcomeIsFinal
    FinishedIsNotReopened
CHECK_DEADLOCK FALSE
