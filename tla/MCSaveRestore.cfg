SPECIFICATION SaveSpec
CONSTANTS
    States <- TwoStates
    Handled <- RezThenTouch
    Queued <- TouchAndRez
    Raised <- Rez
    HostEvents = 3
    MAX_EVENTS_IN_QUEUE = 2
    TimerCheckSkip = 1
INVARIANTS
    RestoredSound
    HandlerMatches
    ResetFailsSafe
PROPERTIES
    QuantumEnds
