SPECIFICATION Spec
CONSTANTS
    None = None
    MaxPoses = 3
    MaxFaults = 2
INVARIANTS RecorderLives
PROPERTIES RecordsFollow NewestIsRecorded InterruptEnds
CHECK_DEADLOCK FALSE
