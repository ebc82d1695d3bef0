SPECIFICATION FairSpec
CONSTANTS
    Nodes <- QuadNodes
    Cfg <- QuadCfg
    Link <- QuadLink
    Ids = {1, 2}
    Sends <- QuadSends
    Multicast <- QuadMulticast
    Broadcast = "bcast"
    SupMulticast = "supmc"
    NoAddress = "none"
    Faults <- OneQuadLink
    SeqMod = 4
    Starts = {3}
    Forget = 1
    MaxSize = 8
    SupForget = 2
    ProxyForget = 2
    MaxDelay = 1
    MaxTime = 0
    MaxSends = 1
    MaxSup = 1
    MaxBoots = 0
INVARIANTS
    NothingLost
    
PROPERTIES
    Seamless
    NetworkDrains
