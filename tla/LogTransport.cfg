CONSTANTS
    QueueSize = 2
    BatchSize = 2
    SockBuf = 1
    Workers = 2
    Others = 1
    MaxLines = 4
    MaxConns = 2
    MaxBreaks = 1
SPECIFICATION FairSpec
INVARIANTS
    ShownInOrder
    NothingVanishes
PROPERTIES
    AllIsRead
    DropsAreTold
CHECK_DEADLOCK FALSE
