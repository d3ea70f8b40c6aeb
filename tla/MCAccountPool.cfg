CONSTANTS
    Accounts = {a1, a2}
    Machines = {m1, m2}
    Nobody = Nobody
    Master = Master
    MaxBlocks = 2
SPECIFICATION Spec
SYMMETRY Symmetry
CONSTRAINT BoundedDrift
INVARIANTS
    TypeOK
    Bindings
PROPERTIES
    RunningNeverStolen
    NoRecirculation
    ReleasedNotRebound
    OnlyRefusalSkewsCounts
    ImplementsLeases
