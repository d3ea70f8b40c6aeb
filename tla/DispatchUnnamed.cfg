CONSTANTS
    Accounts = {a1, a2}
    Machines = {m1}
    Nobody = Nobody
    Master = Master
    MaxBlocks = 1
    Happens = {}
    MaxMail = 1
    MaxCommands = 1
SPECIFICATION Spec
SYMMETRY Symmetry
ACTION_CONSTRAINT SlotsFirst
INVARIANT
    FinishedStaysOut
