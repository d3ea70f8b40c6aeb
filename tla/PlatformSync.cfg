CONSTANTS
    Accounts = {a1}
    Workers = {w1, w2}
    NoWorker = NoWorker
    BatchSize = 1
    MaxAuthFailures = 2
    Overlap = FALSE
    MaxQueue = 3
    MaxShots = 1
    MaxConfigs = 2
SPECIFICATION FairSpec
INVARIANTS
    TypeOK
    MarkedWasReceived
    NoLostWakeup
PROPERTIES
    PendingIsUploaded
