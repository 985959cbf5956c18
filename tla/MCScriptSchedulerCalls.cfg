SPECIFICATION Spec
CONSTANTS
    States <- TwoStates
    Handled <- OnlyHttp
    Queued <- NoEvents
    Raised <- Http
    HostEvents = 1
    MAX_EVENTS_IN_QUEUE = 2
    TimerCheckSkip = 1
INVARIANTS
    HandlerKnown
