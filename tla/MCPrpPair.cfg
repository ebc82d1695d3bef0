SPECIFICATION Spec
CONSTANTS
    Nodes <- PairNodes
    Cfg <- FilterCfg
    Link <- PairLink
    Ids = {1, 2, 3, 4, 5}
    Sends <- FilterSends
    Multicast <- PairMulticast
    Broadcast = "bcast"
    SupMulticast = "supmc"
    NoAddress = "none"
    Faults <- OneLan
    SeqMod = 2
    Starts = {1}
    Forget = 1
    MaxSize = 8
    SupForget = 2
    ProxyForget = 1
    MaxDelay = 1
    MaxTime = 3
    MaxSends = 3
    MaxSup = 0
    MaxBoots = 0
INVARIANTS
    TypeOK
    NoFreshDiscard
    VlanIsolation
    NothingLost
PROPERTIES
    Seamless
