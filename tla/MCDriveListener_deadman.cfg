CONSTANTS
    Full = 3
    DeadZone = 2
    Timeout = 0
    NotANumber = NotANumber
    Missing = Missing
    Velocities <- MCVelocities
    Directions <- MCDirections
    Messages <- MCTextMessages
SPECIFICATION FairSpec
PROPERTY DeadManAlwaysStops
CHECK_DEADLOCK FALSE
