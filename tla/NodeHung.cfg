CONSTANTS
    m1 = m1
    Machines = {m1}
    OfflineAfter = 2
    DisconnectAfter = 3
    PurgeAfter = 4
    StallAfter = 4
    MaxNet = 2
    MaxFaults = 1
    MaxStarts = 2
SPECIFICATION WatchedSpec
PROPERTIES
    HungIsRestarted
CHECK_DEADLOCK FALSE
