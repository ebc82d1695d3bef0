SPECIFICATION FairSpec
CONSTANTS
    BufLen = 2048
    Kinds <- GooseAndSV
    Vlans <- UntaggedOrNull
    Modes <- SomeModes
    AppId = 4097
    Count = 1
    NumMod = 4
    Tails <- MaybeTrailer
    Foreign <- Others
    Leftovers <- FreshOrUsed
    MaxSent = 5
    MaxReads = 2
    MaxStarts = 2
    MaxStrays = 1
INVARIANTS
    CountsExact
    TagsObserved
PROPERTIES
    StopEndsTraffic
CHECK_DEADLOCK FALSE
