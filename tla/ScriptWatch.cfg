CONSTANTS
    Recovery = 2
    Stale = 10
    Cooldown = 4
    MaxRestart = 3
    MaxIpcRestart = 2
    MaxStarts = 2
SPECIFICATION FairSpec
INVARIANTS
    TypeOK
PROPERTIES
    GraceOncePushed
    CrashIsHandled
