SPECIFICATION FairSpec
CONSTANTS
    Requests <- ThreeRequests
    AutoComplete <- LastOne
INVARIANTS TypeOK OneOwner NoUseAfterDelete FinishedOnce
PROPERTIES EveryRequestEnds QuitStops
CHECK_DEADLOCK FALSE
