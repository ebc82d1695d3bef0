SPECIFICATION Spec
CONSTANTS
    Macs = {m1, m2}
    Seqs = {0, 1}
    Forget = 1
    MaxSize = 2
    MaxTime = 3
INVARIANTS
    TypeOK
    SizeBound
    EntriesAreRegistrations
    RememberedUntilOverrun
    NoSecondAcceptance
PROPERTIES
    SweepInvisible
    PromiseKept
