SPECIFICATION FairSpec
CONSTANTS
    MaxEventSize = 2
    Events <- McEvents
    Invalid = Invalid
    Tracked = {"T20"}
    Lighthouses = {"LH0"}
    Externals = {"ext"}
    Known <- McKnown
    MaxPoses = 2
    MaxInserted = 3
CHECK_DEADLOCK FALSE
INVARIANTS
    NeverPopsInvalid
    NoUpdateIsLost
    ShutdownComesLast
PROPERTIES
    IsAQueue
    ShutdownIsTold
