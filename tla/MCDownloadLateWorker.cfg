CONSTANTS
    p1 = p1
    p2 = p2
    NumPieces = 1
    Addrs <- OnePeer
    InitialPeers <- OnePeer
    EndgameThreshold = 1
    MaxWorkersPerPeer = 2
    Slots = 3
    MaxReconnects = 0
    MaxMisses = 1
    NewPeerCap = 1
    BitfieldMsgs <- NoBitfields
    HaveMsgs <- HaveZero
    MaxInflight = 1
SPECIFICATION Spec
INVARIANT ClosedMeansDone
