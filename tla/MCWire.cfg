CONSTANTS
    Values <- AllValues
    ByteOrder <- Order
    MaxInt = 99
    MaxSlice = 90
    Sessions <- SomeSessions
    PieceCount = 3
    InfoHash = 1
    Base = 6
    BitsPerByte = 2
    MaxMessageLen = 30
SPECIFICATION WireSpec
INVARIANTS FramingExact ParsedExact BitsExact
