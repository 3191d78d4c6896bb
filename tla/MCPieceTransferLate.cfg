CONSTANTS
    d1 = d1
    d2 = d2
    b1 = b1
    b2 = b2
    b3 = b3
    Downloads <- OneDownload
    Buffers <- TwoBuffers
    Sizes <- FiveAndTwo
    MaxAlloc = 8
    BlockSize = 2
    MaxBacklog = 2
    PeerKinds <- LatePeer
SPECIFICATION Spec
INVARIANTS FetchesAllBlocks
