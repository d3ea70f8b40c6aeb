CONSTANTS
    Kamis = {k1, k2}
    Nodes = {n1}
    Workers = {w1, w2}
    NoKami = NoKami
    MaxDevices = 1
    MaxPushes = 2
SPECIFICATION KamiFairSpec
INVARIANTS
    BindingsAreSound
PROPERTIES
    QuotaIsKept
    KamiArrives
