CONSTANTS
    a = a
    b = b
    c = c
    NoPiece = NoPiece
    Pieces <- ThreePieces
    Bitfields <- AllBitfields
    MaxOffset = 7
SYMMETRY Symmetry
SPECIFICATION Spec
INVARIANT RoundRobin
PROPERTY ImplementsTrackerSpec
