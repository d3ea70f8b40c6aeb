CONSTANTS
    m1 = m1
    Machines = {m1}
    OfflineAfter = 2
    DisconnectAfter = 3
    PurgeAfter = 4
    StallAfter = 4
    MaxNet = 2
    MaxFaults = 2
    MaxStarts = 2
SPECIFICATION FairSpec
INVARIANTS
    HeaderFollows
PROPERTIES
    ViewSettles
    FiresOnlyAfterFaults
CHECK_DEADLOCK FALSE
