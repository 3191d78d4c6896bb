CONSTANTS
    p1 = p1
    p2 = p2
    NumPieces = 1
    Addrs <- OnePeer
    InitialPeers <- OnePeer
    EndgameThreshold = 1
    MaxWorkersPerPeer = 2
    Slots = 3
    MaxReconnects = 1
    MaxMisses = 2
    NewPeerCap = 1
    BitfieldMsgs <- NoPieces
    HaveMsgs <- NoHaves
    MaxInflight = 1
SPECIFICATION FairSpec
INVARIANTS WorkerAccounting
PROPERTIES Termination
