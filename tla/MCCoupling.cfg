SPECIFICATION Spec
CONSTANTS
    Nodes <- CoupledNodes
    Cfg <- CoupledCfg
    Link <- CoupledLink
    Ids = {1, 2, 3}
    Sends <- CoupledSends
    Multicast <- CoupledMulticast
    Broadcast = "bcast"
    SupMulticast = "supmc"
    NoAddress = "none"
    Faults <- OneCoupledLink
    SeqMod = 4
    Starts = {3}
    Forget = 1
    MaxSize = 8
    SupForget = 2
    ProxyForget = 2
    MaxDelay = 2
    MaxTime = 2
    MaxSends = 1
    MaxSup = 0
    MaxBoots = 1
INVARIANTS
    NoReinjection
    OncePerWindow
    NothingLost
