CONSTANTS
    n1 = n1
    n2 = n2
    t1 = t1
    t2 = t2
    Nodes <- TwoNodes
    BootstrapNodes <- Bootstrap
    ByAddress <- Numeric
    IPv4 <- IPv4Addrs
    ValueLists <- Values
    NodeLists <- NodeSets
    PingIDs = {TRUE}
    Tids <- TwoTids
    MaxGoodNodes = 1
    MaxClosest = 1
    ChanCap = 2
    MaxResponses = 3
SPECIFICATION FairSpec
INVARIANTS TableExact AnswersMatch NothingDropped RepliesTrue
PROPERTY EverythingEnds
