SPECIFICATION FairSpec
CONSTANTS
    Ports <- TwoPorts
    Stoppers = {s1, s2}
    BufferSize = 1
    MaxFrames = 2
    MaxSweeps = 2
INVARIANTS
    TypeOK
    ClosedOnce
    NoSocketLeft
    OneCleanupAtATime
    FramesAccounted
PROPERTIES
    ReadersNeverWait
    StopEndsLoops
CHECK_DEADLOCK FALSE
