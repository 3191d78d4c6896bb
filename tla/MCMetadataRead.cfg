CONSTANTS
    metadataPieceSize = 2
    TrueSizes <- TwoSizes
    DeclaredSizes <- Declared
    MaxAlloc = 8
SPECIFICATION Spec
INVARIANTS CountsPieces HonestAccepted
