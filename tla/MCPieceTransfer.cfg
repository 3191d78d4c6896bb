CONSTANTS
    d1 = d1
    d2 = d2
    b1 = b1
    b2 = b2
    b3 = b3
    Downloads <- TwoDownloads
    Buffers <- ThreeBuffers
    Sizes <- ThreeAndOne
    MaxAlloc = 8
    BlockSize = 2
    MaxBacklog = 2
    PeerKinds <- HonestAndAny
SYMMETRY BufferSymmetry
SPECIFICATION Spec
INVARIANTS WrittenIntact BuffersExclusive HonestPipeline
