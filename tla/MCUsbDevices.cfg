SPECIFICATION Spec
CONSTANTS
    d1 = d1
    d2 = d2
    imu = imu
    lightcap = lightcap
    Devices <- MCDevices
    Endpoints <- MCEndpoints
    MaxFaults = 2
INVARIANTS CountsTransfers CountedEndFirst
PROPERTIES CloseEnds UnpluggedIsReleased
CHECK_DEADLOCK FALSE
