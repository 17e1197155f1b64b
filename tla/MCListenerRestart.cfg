CONSTANTS
    first = first
    second = second
    third = third
    Procs = {first, second, third}
    Overlap = 2
SYMMETRY ProcessSymmetry
SPECIFICATION RestartSpec
INVARIANTS
    MoverIsServing
    OldMoverIsKilled
CHECK_DEADLOCK FALSE
