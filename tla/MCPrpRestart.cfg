SPECIFICATION Spec
CONSTANTS
    Nodes <- PairNodes
    Cfg <- PairCfg
    Link <- LanAOnly
    Ids = {1, 2, 3}
    Sends <- PairSends
    Multicast <- PairMulticast
    Broadcast = "bcast"
    SupMulticast = "supmc"
    NoAddress = "none"
    Faults <- NoFault
    SeqMod = 4
    Starts = {3}
    Forget = 1
    MaxSize = 8
    SupForget = 2
    ProxyForget = 2
    MaxDelay = 1
    MaxTime = 0
    MaxSends = 1
    MaxSup = 3
    MaxBoots = 1
PROPERTIES
    RestartFlushesPeer
