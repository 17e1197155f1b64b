SPECIFICATION Spec
CONSTANTS
    t1 = t1
    t2 = t2
    None = None
    Word = 4
    Byte = 2
    Checksum = 2
    Buffer = 7
    Slots = 2
    MaxMissed = 1
    MaxTurns = 1
    Steady <- MCSteady
    Channels <- MCChannels
    Trackers <- MCTrackers
    PacketOf <- MCPacketOf
    Packets <- MCPackets
INVARIANTS WholeFrameIsTaken LearntIsOwn
PROPERTY HeardIsLearnt
CHECK_DEADLOCK FALSE
