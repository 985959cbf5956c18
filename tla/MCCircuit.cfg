SPECIFICATION FairSpec
CONSTANTS
    LL_MAX_OUT_PACKET_ID = 7
    FirstID = 4
    Retries <- RetriesUsed
    Closing <- OneCloses
    MaxMessages = 2
    MaxPings = 1
INVARIANTS TypeOK WaitsUntilReported TwiceOnlyIfOvertaken
PROPERTIES ImplementsDelivery AllReported
CHECK_DEADLOCK FALSE
