CONSTANTS
    Full = 2
    Velocities <- MCVelocities
    Directions <- MCDirections
SPECIFICATION CarSpec
INVARIANTS
    MemoMatchesPins
    DutyWithinCommand
