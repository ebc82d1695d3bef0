SPECIFICATION Spec
CONSTANTS
    BufLen = 2048
    StationFrames <- AllStationFrames
    Seqs = {0, 255, 65535}
    NodeMac <- Mac
    NetIds = {1, 6}
    MaxHops = 3
INVARIANTS
    ReadsAsWritten
    StationGetsWhatWasSent
    AnnouncementsUnderstood
CHECK_DEADLOCK FALSE
