SPECIFICATION Spec
CONSTANTS
    d1 = d1
    d2 = d2
    None = None
    Devices <- MCDevices
    MaxSyncs <- MCMaxSyncs
INVARIANTS SkewIsPending MissedOnlyAtFirst
PROPERTIES FreedUnused NewestIsUsed LeavingEnds NeedIsServed CloseEnds
CHECK_DEADLOCK FALSE
