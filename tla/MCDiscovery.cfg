CONSTANTS
    t1 = t1
    t2 = t2
    t3 = t3
    Trackers <- AllSchemes
    Scheme <- Schemes
    HTTPBodies <- Bodies
    CompactLists <- Compact
    StaleDatagrams <- Stale
    ParsedIP <- Texts
    PeerRoom = 4
    PortMod = 4
    Addrs <- AllAddrs
    DHTLists <- FromDHT
    SemCap = 2
SPECIFICATION FairSpec
INVARIANTS PeersExact SemaphoreExact GivesUpAfterAll ConnectionOfThisExchange
PROPERTY DiscoveryEnds
