SPECIFICATION FairSpec
CONSTANTS
    States <- TwoStates
    Handled <- ExitAndRez
    Queued <- Rez
    Raised <- Rez
    HostEvents = 2
    MAX_EVENTS_IN_QUEUE = 2
    TimerCheckSkip = 1
PROPERTIES
    EventsServed
