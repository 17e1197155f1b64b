CONSTANTS
    Full = 3
    DeadZone = 2
    Timeout = 0
    NotANumber = NotANumber
    Missing = Missing
    Velocities <- MCVelocities
    Directions <- MCDirections
    Messages <- MCMessages
SPECIFICATION FairSpec
INVARIANTS
    WheelsFollowLiveValues
    ExitStops
PROPERTIES
    SilenceStops
CHECK_DEADLOCK FALSE
