CONSTANTS
    p1 = p1
    p2 = p2
    NumPieces = 3
    Addrs <- TwoPeers
    InitialPeers <- TwoPeers
    EndgameThreshold = 2
    MaxWorkersPerPeer = 1
    Slots = 1
    MaxReconnects = 0
    MaxMisses = 1
    NewPeerCap = 1
    BitfieldMsgs <- SomePieces
    HaveMsgs <- HaveLast
    MaxInflight = 0
SPECIFICATION FairSpec
INVARIANTS TypeOK WriteOnce EndgameExact NoLostPiece RequeueNeverBlocks SuccessIsComplete NoPanic
PROPERTIES ImplementsDownloadSpec Termination WorkersQuiesce
