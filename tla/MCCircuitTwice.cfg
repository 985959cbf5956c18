\* One message that is sent again, and no ping.
SPECIFICATION FairSpec
CONSTANTS
    LL_MAX_OUT_PACKET_ID = 7
    FirstID = 4
    Retries <- RetriesUsed
    Closing <- OneCloses
    MaxMessages = 1
    MaxPings = 0
INVARIANTS OnceWithoutPings
CHECK_DEADLOCK FALSE
