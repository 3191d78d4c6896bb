CONSTANTS
    Links <- SomeLinks
    HashLen = 5
    PieceSets <- SomePieces
SPECIFICATION FairSpec
INVARIANTS HashExact LinesTrue FinalLine
PROPERTY RunEnds
