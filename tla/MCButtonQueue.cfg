SPECIFICATION FairSpec
CONSTANTS
    QueueLen = 3
    Inputs <- McInputs
    Buttons <- McButtons
    Values = {0, 1}
    Initial = 0
CHECK_DEADLOCK FALSE
INVARIANTS
    PopulatedWhenWoken
    PostsMatchEntries
    ApplicationIsCurrent
PROPERTIES
    IsAQueue
    FoundIsDelivered
    CloseEndsServicer
