SPECIFICATION FairSpec
CONSTANTS
    States <- TwoStates
    Handled <- WithEntry
    Queued <- TouchAndRez
    Raised <- TouchAndRez
    HostEvents = 4
    MAX_EVENTS_IN_QUEUE = 2
    TimerCheckSkip = 1
INVARIANTS
    TypeOK
    OnlyRegistered
    RezHasArgument
    HandlerMatches
PROPERTIES
    ExitBeforeSwitch
    CleanSwitch
    InOrder
    NoIdleRound
    EventsServed
    QueueDrains
