SPECIFICATION FairSpec
CONSTANTS
    Nodes <- RingNodes
    Cfg <- RingCfg
    Link <- RingLink
    Ids = {1, 2, 3}
    Sends <- RingSends
    Multicast <- RingMulticast
    Broadcast <- Bcast
    SupMulticast <- SupMC
    NoAddress <- Nobody
    Faults <- OneRingLink
    SeqMod = 4
    Starts = {3}
    Forget = 1
    MaxSize = 8
    SupForget = 2
    ProxyForget = 2
    MaxDelay = 1
    MaxTime = 1
    MaxSends = 2
    MaxSup = 0
    MaxBoots = 0
INVARIANTS
    InterlinkSideNotMember
PROPERTIES
    Seamless
    EveryFrameArrives
    NetworkDrains
