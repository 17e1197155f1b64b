CONSTANTS
    Retries = 5
    MaxPosts = 5
    MaxFaults = 3
SPECIFICATION FairSpec
INVARIANTS
    NewestAccountedFor
PROPERTIES
    SentOnce
    CommandIsSent
    NewestIsHandled
CHECK_DEADLOCK FALSE
