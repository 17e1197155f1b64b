SPECIFICATION Spec
CONSTANTS
    d1 = d1
    d2 = d2
    None = None
    Devices <- MCDevices
    MaxSyncs <- MCMaxSyncs
INVARIANT PoserIsThere
CHECK_DEADLOCK FALSE
