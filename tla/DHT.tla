-------------------------------- MODULE DHT ---------------------------------
(***************************************************************************)
(* The DHT client as discoverDHTPeers drives it: Listen, Bootstrap, the    *)
(* GetPeers goroutine, query with its table of outstanding transactions,   *)
(* recvLoop and the handle goroutines it starts, and Close.                *)
(*                                                                         *)
(* UDP may lose, delay, reorder and duplicate: a response to any query     *)
(* made so far may arrive at any time and more than once.  Bootstrap       *)
(* and GetPeers never query at the same time, so one query is open at a    *)
(* time.  Other nodes' queries (handleQuery) are answered from the tables  *)
(* while the search fills them, one at a time.                             *)
(*                                                                         *)
(* A compact list is a sequence of fields: the address and the port of     *)
(* each peer.  The ids of nodes and the tokens are left out.               *)
(***************************************************************************)
EXTENDS Integers, Sequences, FiniteSets

CONSTANTS
    Nodes,          \* addresses of DHT nodes
    BootstrapNodes, \* the sequence that Bootstrap pings
    ByAddress,      \* the nodes known by an IPv4 address and not by a name
    IPv4,           \* the IP addresses that have 4 bytes
    ValueLists,     \* the peer lists a node may answer: compact, or a list
    NodeLists,      \* the node lists a node may answer
    PingIDs,        \* whether a ping's answer has an id of 20 bytes
    Tids,           \* transaction ids, two random bytes in the code
    MaxGoodNodes,   \* 8 in the code
    MaxClosest,     \* 8 in the code
    ChanCap,        \* capacity of the channel of GetPeers, 64 in the code
    MaxResponses    \* bound: responses that arrive, repeated ones included

\* A list that arrives from the net is a sequence.
IsSeq(s) == Len(s) \in Nat /\ s = [i \in 1 .. Len(s) |-> s[i]]
IsPeer(p) == p = [ip |-> p.ip, port |-> p.port]

ASSUME DHTAssumption ==
    /\ IsFiniteSet(Nodes)
    /\ BootstrapNodes \in Seq(Nodes)
    /\ \A v \in ValueLists :
          /\ v.compact \in BOOLEAN /\ IsSeq(v.data)
          /\ ~v.compact => \A i \in 1 .. Len(v.data) : IsPeer(v.data[i])
    /\ NodeLists \subseteq SUBSET Nodes
    /\ PingIDs \subseteq BOOLEAN
    /\ ByAddress \subseteq Nodes
    /\ MaxGoodNodes \in Nat \ {0}
    /\ MaxClosest \in Nat \ {0}
    /\ ChanCap \in Nat \ {0}
    /\ MaxResponses \in Nat

\* At most one ping per bootstrap node and one get_peers per known node.
MaxQueries == Len(BootstrapNodes) + Cardinality(Nodes)
Serials == 1 .. MaxQueries
None == 0

VARIABLES
    caller, next,   \* discoverDHTPeers and the index of Bootstrap
    search, visit, goodNodes, offer, learned,   \* the GetPeers goroutine
    asked,          \* the queries sent so far: their type and tid
    cur, target,    \* the open query and the node it asks
    queries,        \* c.queries: the query whose channel an entry holds
    box,            \* the respCh of each query
    arrived,        \* responses that have arrived
    handlers,       \* the handle goroutines of responses
    serving,        \* the handle goroutine of a query
    nodes, peers,   \* c.nodes, c.peers for the info hash
    ch, chClosed,   \* the channel of GetPeers
    dhtPeers,       \* what discoverDHTPeers has read
    doneClosed, connClosed, receiving   \* c.done, c.conn, recvLoop

searchVars == <<search, visit, goodNodes, offer, learned>>
queryVars  == <<asked, cur, target, queries, box>>
recvVars   == <<arrived, handlers, serving, receiving>>
chVars     == <<ch, chClosed, dhtPeers>>
closeVars  == <<doneClosed, connClosed>>
vars == <<caller, next, searchVars, queryVars, recvVars, nodes, peers, chVars,
          closeVars>>

Idle == [step |-> "idle"]

Init ==
    /\ caller = "listen" /\ next = 1
    /\ search = "none" /\ visit = {} /\ goodNodes = 0
    /\ offer = <<>> /\ learned = {}
    /\ asked = <<>> /\ cur = None /\ target = None
    /\ queries = [t \in Tids |-> None] /\ box = [n \in Serials |-> <<>>]
    /\ arrived = 0 /\ handlers = {} /\ serving = Idle /\ receiving = FALSE
    /\ nodes = {} /\ peers = <<>>
    /\ ch = <<>> /\ chClosed = FALSE /\ dhtPeers = <<>>
    /\ doneClosed = FALSE /\ connClosed = FALSE

-----------------------------------------------------------------------------
(* query                                                                   *)

\* A random id, the entry with a fresh channel, and the query is sent.
OpenQuery(addr, q) ==
    /\ cur = None
    /\ ~connClosed
    /\ \E t \in Tids :
          /\ asked' = Append(asked, [q |-> q, tid |-> t])
          /\ queries' = [queries EXCEPT ![t] = Len(asked) + 1]
    /\ cur' = Len(asked) + 1
    /\ target' = addr
    /\ UNCHANGED box

\* The deferred delete, on every return.
Forget_IfAnswered(n) ==
    IF box[n] = <<>> THEN queries ELSE [queries EXCEPT ![asked[n].tid] = None]
Forget(n) == [queries EXCEPT ![asked[n].tid] = None]

CloseQuery ==
    /\ cur' = None
    /\ target' = None
    /\ queries' = Forget(cur)
    /\ UNCHANGED asked

Response == box[cur][1]

\* query receives the response, or time.After has fired: ErrTimeout, which the
\* select may take although a response has come.
Answered == cur # None /\ box[cur] # <<>> /\ box' = [box EXCEPT ![cur] = <<>>]
TimedOut == cur # None /\ UNCHANGED box

-----------------------------------------------------------------------------
(* recvLoop and handle                                                     *)

\* What a node may answer: to a ping nothing under "r", or an id; to get_peers
\* values and nodes.
NoValues == [compact |-> TRUE, data |-> <<>>]
NoReply == [ok |-> FALSE, hasID |-> FALSE, values |-> NoValues, nodes |-> {}]

Responses(q) ==
    IF q = "ping"
    THEN {NoReply} \cup
         [ok : {TRUE}, hasID : PingIDs, values : {NoValues}, nodes : {{}}]
    ELSE [ok : {TRUE}, hasID : {TRUE}, values : ValueLists, nodes : NodeLists]

\* Tells apart the goroutines of equal responses.
NewCopy(n) == CHOOSE k \in 1 .. MaxResponses :
                 \A h \in handlers : h.n = n => h.copy # k

\* recvLoop reads a response to query n and starts a handler.
Receive(n) ==
    /\ receiving
    /\ ~connClosed
    /\ arrived < MaxResponses
    /\ arrived' = arrived + 1
    /\ \E r \in Responses(asked[n].q) :
          handlers' = handlers \cup
              {[n |-> n, copy |-> NewCopy(n), r |-> r, to |-> None]}
    /\ UNCHANGED <<caller, next, searchVars, queryVars, serving, receiving, nodes,
                   peers, chVars, closeVars>>

\* The lookup under queriesMu; the goroutine keeps the channel it finds.
Lookup_Current(h) == cur
Lookup(h) == queries[asked[h.n].tid]

FindQuery(h) ==
    /\ h.to = None
    /\ handlers' = (handlers \ {h}) \cup
                     IF Lookup(h) # None /\ h.r.ok
                     THEN {[h EXCEPT !.to = Lookup(h)]} ELSE {}
    /\ UNCHANGED <<arrived, serving, receiving, box>>

\* The non-blocking send to a channel of capacity one.
Blocks_WhenFull(n) == box[n] # <<>>
Blocks(n) == FALSE

Deliver(h) ==
    /\ h.to # None
    /\ ~Blocks(h.to)
    /\ box' = IF box[h.to] = <<>> THEN [box EXCEPT ![h.to] = <<[n |-> h.n, r |-> h.r]>>] ELSE box
    /\ handlers' = handlers \ {h}
    /\ UNCHANGED <<arrived, serving, receiving>>

Handle(h) ==
    /\ FindQuery(h) \/ Deliver(h)
    /\ UNCHANGED <<caller, next, searchVars, asked, cur, target, queries, nodes,
                   peers, chVars, closeVars>>

\* decodePeers: a string of compact peers, or a list of dictionaries, in which
\* net.ParseIP makes the address (nil is one more that is not IPv4).  Items of
\* the list without an ip and a port, which it skips, are left out.
DecodeCompact(data) ==
    [i \in 1 .. Len(data) \div 2 |-> [ip |-> data[2 * i - 1], port |-> data[2 * i]]]
DecodePeers(v) == IF v.compact THEN DecodeCompact(v.data) ELSE v.data

\* encodePeerList leaves out the addresses that are not IPv4.
Fields_Unchecked(p) == <<p.ip, p.port>>
Fields(p) == IF p.ip \in IPv4 THEN <<p.ip, p.port>> ELSE <<>>
EncodePeerList(list) ==
    LET buf[n \in 0 .. Len(list)] ==
            IF n = 0 THEN <<>> ELSE buf[n - 1] \o Fields(list[n])
    IN  buf[Len(list)]

\* recvLoop reads a query; for get_peers the handler reads c.peers under its
\* lock and goes on with the slice it has found.
ReceiveQuery(q) ==
    /\ receiving
    /\ ~connClosed
    /\ serving = Idle
    /\ serving' = IF q = "ping" THEN [step |-> "send", values |-> <<>>, nodes |-> {}]
                  ELSE [step  |-> "look",
                        known |-> IF q = "get_peers" THEN peers ELSE <<>>]
    /\ UNCHANGED <<caller, next, searchVars, queryVars, arrived, handlers,
                   receiving, nodes, peers, chVars, closeVars>>

\* closestNodes takes the first nodes of the table in no particular order, and
\* encodeCompactNodes those with an IPv4 address.
ClosestNodes ==
    {s \in SUBSET nodes : Cardinality(s) = IF Cardinality(nodes) < MaxClosest
                                           THEN Cardinality(nodes) ELSE MaxClosest}

Reply ==
    /\ serving.step = "look"
    /\ \E closest \in ClosestNodes :
         serving' = [step |-> "send",
             values |-> EncodePeerList(serving.known),
             nodes  |-> IF serving.known # <<>> THEN {}
                        ELSE closest \cap ByAddress]
    /\ UNCHANGED <<caller, next, searchVars, queryVars, arrived, handlers,
                   receiving, nodes, peers, chVars, closeVars>>

SendReply ==
    /\ serving.step = "send"
    /\ serving' = Idle
    /\ UNCHANGED <<caller, next, searchVars, queryVars, arrived, handlers,
                   receiving, nodes, peers, chVars, closeVars>>

\* The read fails on the closed connection and c.done is closed.
RecvLoopEnds ==
    /\ receiving
    /\ connClosed
    /\ doneClosed
    /\ receiving' = FALSE
    /\ UNCHANGED <<caller, next, searchVars, queryVars, arrived, handlers,
                   serving, nodes, peers, chVars, closeVars>>

-----------------------------------------------------------------------------
(* discoverDHTPeers                                                        *)

ListenFails ==
    /\ caller = "listen"
    /\ caller' = "returned"
    /\ UNCHANGED <<next, searchVars, queryVars, recvVars, nodes, peers, chVars,
                   closeVars>>

ListenOK ==
    /\ caller = "listen"
    /\ caller' = "bootstrap"
    /\ receiving' = TRUE
    /\ UNCHANGED <<next, searchVars, queryVars, arrived, handlers, serving,
                   nodes, peers, chVars, closeVars>>

\* pingNode sends; a name that does not resolve is skipped.
Ping ==
    /\ caller = "bootstrap"
    /\ next <= Len(BootstrapNodes)
    /\ OpenQuery(BootstrapNodes[next], "ping")
    /\ caller' = "ping"
    /\ UNCHANGED <<next, searchVars, recvVars, nodes, peers, chVars, closeVars>>

PingSendFails ==
    /\ caller = "bootstrap"
    /\ next <= Len(BootstrapNodes)
    /\ next' = next + 1
    /\ UNCHANGED <<caller, searchVars, queryVars, recvVars, nodes, peers,
                   chVars, closeVars>>

PingAnswered ==
    /\ caller = "ping"
    /\ Answered
    /\ nodes' = IF Response.r.hasID THEN nodes \cup {target} ELSE nodes
    /\ CloseQuery
    /\ next' = next + 1
    /\ caller' = "bootstrap"
    /\ UNCHANGED <<searchVars, recvVars, peers, chVars, closeVars>>

PingTimeout ==
    /\ caller = "ping"
    /\ TimedOut
    /\ CloseQuery
    /\ next' = next + 1
    /\ caller' = "bootstrap"
    /\ UNCHANGED <<searchVars, recvVars, nodes, peers, chVars, closeVars>>

\* GetPeers starts its goroutine, which copies the node table: c.peers is
\* empty, as this is the only call of GetPeers on the client.
StartSearch ==
    /\ caller = "bootstrap"
    /\ next > Len(BootstrapNodes)
    /\ caller' = "read"
    /\ search' = "loop"
    /\ visit' = nodes
    /\ UNCHANGED <<next, goodNodes, offer, learned, queryVars, recvVars, nodes,
                   peers, chVars, closeVars>>

ReadPeer ==
    /\ caller = "read"
    /\ ch # <<>>
    /\ dhtPeers' = Append(dhtPeers, Head(ch))
    /\ ch' = Tail(ch)
    /\ UNCHANGED <<caller, next, searchVars, queryVars, recvVars, nodes, peers,
                   chClosed, closeVars>>

\* The channel is closed and empty, or the three seconds are over.
StopReading ==
    /\ caller = "read"
    /\ caller' = "close"
    /\ UNCHANGED <<next, searchVars, queryVars, recvVars, nodes, peers, chVars,
                   closeVars>>

\* Close: c.done first, then the connection.
CloseDone ==
    /\ caller = "close"
    /\ ~doneClosed
    /\ doneClosed' = TRUE
    /\ UNCHANGED <<caller, next, searchVars, queryVars, recvVars, nodes, peers,
                   chVars, connClosed>>

CloseConn ==
    /\ caller = "close"
    /\ doneClosed
    /\ connClosed' = TRUE
    /\ caller' = "returned"
    /\ UNCHANGED <<next, searchVars, queryVars, recvVars, nodes, peers, chVars,
                   doneClosed>>

Caller ==
    \/ ListenFails \/ ListenOK \/ Ping \/ PingSendFails \/ PingAnswered
    \/ PingTimeout \/ StartSearch \/ ReadPeer \/ StopReading
    \/ CloseDone \/ CloseConn

-----------------------------------------------------------------------------
(* The goroutine of GetPeers                                               *)

MoreNodes == visit # {} /\ goodNodes < MaxGoodNodes

\* The map is visited in no particular order.
AskNode(addr) ==
    /\ search = "loop"
    /\ MoreNodes
    /\ addr \in visit
    /\ visit' = visit \ {addr}
    /\ OpenQuery(addr, "get_peers")
    /\ search' = "wait"
    /\ UNCHANGED <<goodNodes, offer, learned, chVars, nodes, peers>>

\* The send fails: the connection is closed, or the address is bad.
AskFails(addr) ==
    /\ search = "loop"
    /\ MoreNodes
    /\ addr \in visit
    /\ visit' = visit \ {addr}
    /\ UNCHANGED <<search, goodNodes, offer, learned, queryVars, chVars, nodes,
                   peers>>

NodeTimeout ==
    /\ search = "wait"
    /\ TimedOut
    /\ CloseQuery
    /\ search' = "loop"
    /\ UNCHANGED <<visit, goodNodes, offer, learned, chVars, nodes, peers>>

\* The values go to c.peers, then to the channel one by one.
NodeAnswered ==
    /\ search = "wait"
    /\ Answered
    /\ goodNodes' = goodNodes + 1
    /\ peers' = peers \o DecodePeers(Response.r.values)
    /\ offer' = DecodePeers(Response.r.values)
    /\ learned' = Response.r.nodes
    /\ CloseQuery
    /\ search' = "offer"
    /\ UNCHANGED <<visit, chVars, nodes>>

\* The non-blocking send.
HasRoom_OneLess == Len(ch) < ChanCap - 1
HasRoom == Len(ch) < ChanCap

OfferPeer ==
    /\ search = "offer"
    /\ offer # <<>>
    /\ ch' = IF HasRoom THEN Append(ch, Head(offer)) ELSE ch
    /\ offer' = Tail(offer)
    /\ UNCHANGED <<search, visit, goodNodes, learned, queryVars, chClosed,
                   dhtPeers, nodes, peers>>

AddNodes ==
    /\ search = "offer"
    /\ offer = <<>>
    /\ nodes' = nodes \cup learned
    /\ learned' = {}
    /\ search' = "loop"
    /\ UNCHANGED <<visit, goodNodes, offer, queryVars, chVars, peers>>

EndSearch ==
    /\ search = "loop"
    /\ ~MoreNodes
    /\ chClosed' = TRUE
    /\ search' = "done"
    /\ UNCHANGED <<visit, goodNodes, offer, learned, queryVars, ch, dhtPeers,
                   nodes, peers>>

Search ==
    /\ \/ \E addr \in Nodes : AskNode(addr) \/ AskFails(addr)
       \/ NodeTimeout \/ NodeAnswered \/ OfferPeer \/ AddNodes \/ EndSearch
    /\ UNCHANGED <<caller, next, recvVars, closeVars>>

-----------------------------------------------------------------------------

Terminating ==
    /\ caller = "returned"
    /\ UNCHANGED vars

Next ==
    \/ Caller \/ Search \/ RecvLoopEnds
    \/ \E n \in 1 .. Len(asked) : Receive(n)
    \/ \E h \in handlers : Handle(h)
    \/ \E q \in {"ping", "find_node", "get_peers"} : ReceiveQuery(q)
    \/ Reply \/ SendReply
    \/ Terminating

Spec == Init /\ [][Next]_vars

\* The goroutines keep running and the timers fire; no response has to come.
FairSpec ==
    /\ Spec
    /\ WF_vars(Caller)
    /\ WF_vars(Search)
    /\ WF_vars(RecvLoopEnds)
    /\ WF_vars(\E h \in handlers : Handle(h))
    /\ WF_vars(Reply \/ SendReply)

-----------------------------------------------------------------------------
(* Properties                                                              *)

\* The transaction table has the open query and nothing else: queries that
\* timed out leave no entry, although their responses may come later.
TableExact ==
    queries = [t \in Tids |-> IF cur # None /\ t = asked[cur].tid THEN cur ELSE None]

\* What query returns is a response to that query, unless an earlier query
\* drew the same two random bytes: a late or repeated answer, or a handler
\* that found its channel before the timeout, does not complete a later query.
AnswersMatch ==
    cur # None /\ box[cur] # <<>> => asked[Response.n].tid = asked[cur].tid

\* Between c.peers and the reader nothing is dropped while the channel has room
\* for all, and when it overflows the peers that were found first are still
\* there: whatever the reader has taken by then, the first ChanCap of them
\* reach it, each one once and in their order.
NothingDropped ==
    LET kept == dhtPeers \o ch \o offer
    IN  IF Len(peers) <= ChanCap THEN kept = peers
        ELSE /\ Len(kept) >= ChanCap
             /\ \A i \in 1 .. ChanCap : kept[i] = peers[i]

\* For every n, the ones with an IPv4 address among the first n peers.
IPv4Peers(list) ==
    LET found[n \in 0 .. Len(list)] ==
            IF n = 0 THEN <<>>
            ELSE IF list[n].ip \in IPv4 THEN Append(found[n - 1], list[n])
                 ELSE found[n - 1]
    IN  found

\* What another node reads from an answer of ours is true although the tables
\* grow while it is put together: the first peers we know that have an IPv4
\* address, in their order, or else nodes of the table, at most MaxClosest.
RepliesTrue ==
    serving.step = "send" =>
        /\ \E n \in 0 .. Len(peers) :
              DecodeCompact(serving.values) = IPv4Peers(peers)[n]
        /\ serving.nodes \subseteq nodes
        /\ Cardinality(serving.nodes) <= MaxClosest

\* discoverDHTPeers returns, and everything it started ends: GetPeers closes
\* its channel although nobody reads it, recvLoop sees the closed connection,
\* and no handler blocks on a response channel nobody reads.
EverythingEnds ==
    <>[](/\ caller = "returned"
         /\ search \in {"none", "done"}
         /\ ~receiving
         /\ handlers = {}
         /\ serving = Idle)
=============================================================================
