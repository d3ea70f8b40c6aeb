CONSTANTS
    Accounts = {a1, a2}
    Machines = {m1}
    Nobody = Nobody
    Master = Master
    MaxBlocks = 1
    Happens = {"assign", "release", "restart", "purge"}
    MaxMail = 1
    MaxCommands = 1
SPECIFICATION Spec
SYMMETRY Symmetry
VIEW View
ACTION_CONSTRAINT SlotsFirst
INVARIANTS
    TypeOK
    CacheIsRight
    OldDataStaysOut
