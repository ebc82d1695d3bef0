SPECIFICATION Spec
CONSTANTS
    BufLen = 2048
    Kinds <- SV
    Vlans <- UntaggedOrNull
    Modes <- SomeModes
    AppId = 4097
    Count = 1
    NumMod = 4
    Tails <- MaybeTrailer
    Foreign <- Others
    Leftovers <- FreshOrUsed
    MaxSent = 5
    MaxReads = 2
    MaxStarts = 1
    MaxStrays = 1
INVARIANTS
    UniqueFramesReported
CHECK_DEADLOCK FALSE
