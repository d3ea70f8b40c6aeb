CONSTANTS
    Guards = {g1, g2}
    Slaves = {s1, s2}
    Nobody = Nobody
    Tries = 2
    MaxStarts = 2
    MaxFailures = 1
    MaxGuardKills = 1
SPECIFICATION FairSpec
INVARIANTS
    TypeOK
    OneOfEach
PROPERTIES
    KeptUp
    StopIsHeard
    UpdateTakesEffect
CHECK_DEADLOCK FALSE
