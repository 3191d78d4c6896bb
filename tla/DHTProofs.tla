----------------------------- MODULE DHTProofs ------------------------------
(***************************************************************************)
(* Proofs about module DHT, for every set of nodes, of transaction ids and *)
(* of answers, every capacity of the channel and any number of responses.  *)
(***************************************************************************)
EXTENDS DHT, FiniteSetTheorems, SequenceTheorems, WellFoundedInduction, TLAPS

-----------------------------------------------------------------------------
(* Loops                                                                   *)

\* A set of numbers has a least element.
LEMMA LeastNumber ==
    ASSUME NEW T \in SUBSET Nat, T # {}
    PROVE  \E x \in T : \A y \in T : x <= y
<1> DEFINE R == OpToRel(<, Nat)
<1>1. IsWellFoundedOn(R, Nat)
  BY NatLessThanWellFounded
<1>2. \A x, y \in Nat : <<x, y>> \in R <=> x < y
  BY DEF OpToRel
<1> HIDE DEF R
<1>3. PICK x \in T : \A y \in T : ~(<<y, x>> \in R)
  BY <1>1, WFMin
<1>4. \A y \in T : x \in Nat /\ y \in Nat /\ ~(y < x)
  BY <1>2, <1>3
<1> QED  BY <1>3, <1>4

\* What holds at the start of a loop and is kept by every turn holds at its end.
LEMMA LoopInvariant ==
    ASSUME NEW L \in Nat, NEW good \in SUBSET (0 .. L), 0 \in good,
           \A n \in 1 .. L : n - 1 \in good => n \in good
    PROVE  good = 0 .. L
<1> DEFINE bad == (0 .. L) \ good
<1>1. ASSUME bad # {} PROVE FALSE
  <2>1. PICK m \in bad : \A y \in bad : m <= y
    <3>1. bad \in SUBSET Nat
      OBVIOUS
    <3> HIDE DEF bad
    <3> QED  BY <1>1, <3>1, LeastNumber
  <2>2. m \in 1 .. L
    BY <2>1
  <2>3. m - 1 \in 0 .. L /\ m - 1 < m
    BY <2>2
  <2>4. m - 1 \in good
    BY <2>1, <2>2, <2>3
  <2> QED  BY <2>1, <2>2, <2>4
<1> QED  BY <1>1

\* The values that a variable takes in a loop of L turns.
LoopOf(f, L, A, start, step) ==
    /\ f \in [0 .. L -> A]
    /\ f[0] = start
    /\ \A n \in 1 .. L : f[n] = step[<<n, f[n - 1]>>]

\* Every loop runs.
LEMMA LoopRuns ==
    ASSUME NEW L \in Nat, NEW A, NEW start \in A, NEW step \in [(1 .. L) \X A -> A]
    PROVE  \E f : LoopOf(f, L, A, start, step)
<1> DEFINE good == {m \in 0 .. L : \E f : LoopOf(f, m, A, start, step)}
<1>1. 0 \in good
  <2>1. LoopOf([n \in 0 .. 0 |-> start], 0, A, start, step)
    BY DEF LoopOf
  <2> QED  BY <2>1
<1>2. ASSUME NEW m \in 1 .. L, m - 1 \in good PROVE m \in good
  <2>1. PICK f : LoopOf(f, m - 1, A, start, step)
    BY <1>2
  <2>2. f \in [0 .. m - 1 -> A] /\ f[m - 1] \in A
    BY <2>1 DEF LoopOf
  <2>3. PICK v \in A : v = step[<<m, f[m - 1]>>]
    BY <2>2
  <2> DEFINE h == [n \in 0 .. m |-> IF n = m THEN v ELSE f[n]]
  <2>4. h \in [0 .. m -> A] /\ h[0] = start /\ h[m] = v /\ \A n \in 0 .. m - 1 : h[n] = f[n]
    BY <2>1, <2>2 DEF LoopOf
  <2>5. \A n \in 1 .. m : h[n] = step[<<n, h[n - 1]>>]
    <3> SUFFICES ASSUME NEW n \in 1 .. m PROVE h[n] = step[<<n, h[n - 1]>>]
      OBVIOUS
    <3>1. n - 1 \in 0 .. m - 1 /\ h[n - 1] = f[n - 1]
      BY <2>4
    <3>2. CASE n = m
      BY <2>3, <2>4, <3>1, <3>2
    <3>3. CASE n \in 1 .. m - 1
      BY <2>1, <2>4, <3>1, <3>3 DEF LoopOf
    <3> QED  BY <3>2, <3>3
  <2> HIDE DEF h
  <2>6. LoopOf(h, m, A, start, step)
    BY <2>4, <2>5 DEF LoopOf
  <2> QED  BY <2>6
<1>3. good = 0 .. L
  <2> HIDE DEF good
  <2>1. good \in SUBSET (0 .. L)
    BY DEF good
  <2> QED  BY <1>1, <1>2, <2>1, LoopInvariant
<1> QED  BY <1>3

-----------------------------------------------------------------------------
(* The data                                                                *)

QueryType == [q : {"ping", "get_peers"}, tid : Tids]

\* The values of an answer, and the peers they stand for.
AllValues == ValueLists \cup {NoValues}
PeersIn(v) == {DecodePeers(v)[i] : i \in 1 .. Len(DecodePeers(v))}
PeerSet == UNION {PeersIn(v) : v \in AllValues}

ResponseType == [ok : BOOLEAN, hasID : BOOLEAN, values : AllValues, nodes : SUBSET Nodes]
MessageType == [n : Nat, r : ResponseType]

-----------------------------------------------------------------------------
(* The invariants                                                          *)

\* Every query has its channel: Bootstrap sends at most one per bootstrap node
\* and GetPeers at most one per node of its copy of the table.
RoomForQueries ==
    /\ Len(asked) <= MaxQueries
    /\ caller = "listen" \/ caller = "bootstrap" => Len(asked) < next
    /\ caller = "ping" => next <= Len(BootstrapNodes)
    /\ caller = "ping" => Len(asked) <= next
    /\ search # "none" => /\ caller \in {"read", "close", "returned"}
                          /\ Len(asked) + Cardinality(visit) <= MaxQueries

QueryInv ==
    /\ asked \in Seq(QueryType)
    /\ cur \in 0 .. Len(asked)
    /\ next \in 1 .. Len(BootstrapNodes) + 1
    /\ RoomForQueries
    /\ TableExact

NodesInv ==
    /\ visit \subseteq Nodes /\ nodes \subseteq Nodes /\ learned \subseteq Nodes
    /\ cur # None => target \in Nodes

\* Both are queries made so far, with the same transaction id.
SameTid(m, n) ==
    /\ m \in 1 .. Len(asked)
    /\ n \in 1 .. Len(asked)
    /\ asked[m].tid = asked[n].tid

HandlerOK(h) ==
    /\ h = [n |-> h.n, copy |-> h.copy, r |-> h.r, to |-> h.to]
    /\ h.r \in ResponseType
    /\ h.n \in 1 .. Len(asked)
    /\ h.to # None => SameTid(h.n, h.to)

\* A handler that has found a channel, and a channel that holds a response,
\* belong to a query with the transaction id of the response, whether that
\* query is still open or not.
ResponseInv ==
    /\ box \in [Serials -> Seq(MessageType)]
    /\ \A h \in handlers : HandlerOK(h)
    /\ \A n \in Serials : box[n] # <<>> => SameTid(box[n][1].n, n)

\* The peers on their way from c.peers to the reader: all of them, or, once one
\* was dropped, at least as many as the channel holds, and these are the first.
Overflown(sent, all) ==
    /\ Len(sent) >= ChanCap /\ Len(all) > ChanCap
    /\ \A i \in 1 .. ChanCap : sent[i] = all[i]
FlowOf(sent, rest, all) == sent \o rest = all \/ Overflown(sent, all)
Flow == FlowOf(dhtPeers \o ch, offer, peers)

FlowInv ==
    /\ peers \in Seq(PeerSet) /\ ch \in Seq(PeerSet)
    /\ dhtPeers \in Seq(PeerSet) /\ offer \in Seq(PeerSet)
    /\ offer # <<>> => search = "offer"
    /\ Flow

ClientInv == QueryInv /\ NodesInv /\ ResponseInv /\ FlowInv

-----------------------------------------------------------------------------
(* Facts about the operators                                               *)

\* decodePeers makes a list of peers of whatever values an answer has.
LEMMA DecodedPeers ==
    ASSUME NEW v \in AllValues
    PROVE  DecodePeers(v) \in Seq(PeerSet)
<1> DEFINE d == DecodePeers(v)
<1>1. v.compact \in BOOLEAN /\ Len(v.data) \in Nat
  <2>1. CASE v \in ValueLists
    BY <2>1, DHTAssumption DEF IsSeq
  <2>2. CASE v = NoValues
    <3>1. v.compact = TRUE /\ v.data = <<>>
      BY <2>2 DEF NoValues
    <3> QED  BY <3>1
  <2> QED  BY <2>1, <2>2 DEF AllValues
<1>2. \E n \in Nat : d = [i \in 1 .. n |-> d[i]]
  <2>1. CASE v.compact
    <3>1. \A k \in Nat : k \div 2 \in Nat
      OBVIOUS
    <3>2. d = DecodeCompact(v.data)
      BY <2>1 DEF DecodePeers
    <3>3. d = [i \in 1 .. Len(v.data) \div 2 |-> d[i]]
      BY <3>2 DEF DecodeCompact
    <3> QED  BY <1>1, <3>1, <3>3
  <2>2. CASE ~v.compact
    <3>1. d = v.data /\ v \in ValueLists
      BY <2>2 DEF DecodePeers, AllValues, NoValues
    <3> QED  BY <3>1, DHTAssumption DEF IsSeq
  <2> QED  BY <1>1, <2>1, <2>2
<1>3. PICK n \in Nat : d = [i \in 1 .. n |-> d[i]]
  BY <1>2
<1>4. Len(d) = n
  <2> HIDE DEF d
  <2> QED  BY <1>3
<1>5. \A i \in 1 .. n : d[i] \in PeerSet
  BY <1>4 DEF PeersIn, PeerSet
<1> HIDE DEF d
<1> QED  BY <1>3, <1>5 DEF d

\* What a node may answer, to whatever query.
LEMMA ResponsesTyped ==
    ASSUME NEW q, NEW r \in Responses(q)
    PROVE  r \in ResponseType
<1>1. PingIDs \subseteq BOOLEAN /\ NodeLists \subseteq SUBSET Nodes
  BY DHTAssumption
<1>2. NoReply \in ResponseType
  BY DEF NoReply, ResponseType, AllValues
<1>3. [ok : {TRUE}, hasID : PingIDs, values : {NoValues}, nodes : {{}}] \subseteq ResponseType
  BY <1>1 DEF ResponseType, AllValues
<1>4. [ok : {TRUE}, hasID : {TRUE}, values : ValueLists, nodes : NodeLists] \subseteq ResponseType
  BY <1>1 DEF ResponseType, AllValues
<1> QED  BY <1>2, <1>3, <1>4 DEF Responses

\* The number of queries there is room for.
LEMMA QueriesBound ==
    /\ IsFiniteSet(Nodes) /\ Cardinality(Nodes) \in Nat /\ Len(BootstrapNodes) \in Nat
    /\ MaxQueries = Len(BootstrapNodes) + Cardinality(Nodes) /\ MaxQueries \in Nat
<1>1. IsFiniteSet(Nodes) /\ Len(BootstrapNodes) \in Nat
  BY DHTAssumption
<1>2. Cardinality(Nodes) \in Nat
  BY <1>1, FS_CardinalityType
<1> QED  BY <1>1, <1>2 DEF MaxQueries

-----------------------------------------------------------------------------
(* The transaction table                                                   *)

\* A new query takes the next number, and its entry is the only one.
LEMMA Opened ==
    ASSUME QueryInv, NEW addr, NEW q \in {"ping", "get_peers"}, OpenQuery(addr, q)
    PROVE  /\ asked' \in Seq(QueryType) /\ Len(asked') = Len(asked) + 1
           /\ \A n \in 1 .. Len(asked) : asked'[n] = asked[n]
           /\ cur' \in 0 .. Len(asked') /\ cur' # None /\ target' = addr
           /\ UNCHANGED box /\ TableExact'
<1>1. PICK t \in Tids : /\ asked' = Append(asked, [q |-> q, tid |-> t])
                        /\ queries' = [queries EXCEPT ![t] = Len(asked) + 1]
  BY DEF OpenQuery
<1>2. asked \in Seq(QueryType) /\ Len(asked) \in Nat
  BY DEF QueryInv
<1>3. [q |-> q, tid |-> t] \in QueryType
  BY DEF QueryType
<1>4. /\ asked' \in Seq(QueryType) /\ Len(asked') = Len(asked) + 1
      /\ \A n \in 1 .. Len(asked) : asked'[n] = asked[n]
      /\ asked'[Len(asked) + 1] = [q |-> q, tid |-> t]
  BY <1>1, <1>2, <1>3
<1>5. cur = None /\ cur' = Len(asked) + 1 /\ target' = addr /\ UNCHANGED box
  BY DEF OpenQuery
<1>6. queries = [u \in Tids |-> None]
  BY <1>5 DEF QueryInv, TableExact
<1>7. asked'[cur'].tid = t /\ cur' # None
  BY <1>2, <1>4, <1>5 DEF None
<1>8. TableExact'
  BY <1>1, <1>5, <1>6, <1>7 DEF TableExact
<1> QED  BY <1>2, <1>4, <1>5, <1>7, <1>8

\* The deferred delete takes the entry of the query that ends out.
LEMMA Closed ==
    ASSUME QueryInv, CloseQuery, cur # None
    PROVE  /\ UNCHANGED asked /\ cur' = None /\ cur' \in 0 .. Len(asked) /\ TableExact'
<1>1. cur' = None /\ UNCHANGED asked /\ queries' = [queries EXCEPT ![asked[cur].tid] = None]
  BY DEF CloseQuery, Forget
<1>2. queries = [t \in Tids |-> IF t = asked[cur].tid THEN cur ELSE None]
  BY DEF QueryInv, TableExact
<1>3. queries' = [t \in Tids |-> None]
  BY <1>1, <1>2
<1>4. Len(asked) \in Nat
  BY DEF QueryInv
<1>5. TableExact'
  BY <1>1, <1>3 DEF TableExact
<1>6. None \in 0 .. Len(asked)
  BY <1>4 DEF None
<1> QED  BY <1>1, <1>5, <1>6

\* QueryInv is inductive, given that the nodes are known ones.
LEMMA QueryStep == QueryInv /\ NodesInv /\ [Next]_vars => QueryInv'
<1> SUFFICES ASSUME QueryInv, NodesInv, [Next]_vars PROVE QueryInv'
  OBVIOUS
<1> USE DEF RoomForQueries
<1>1. /\ asked \in Seq(QueryType) /\ Len(asked) \in Nat /\ next \in Nat
      /\ cur \in 0 .. Len(asked) /\ TableExact
  BY QueriesBound DEF QueryInv
<1>2. IsFiniteSet(visit) /\ Cardinality(visit) \in Nat
  BY QueriesBound, FS_Subset, FS_CardinalityType DEF NodesInv
<1>3. IsFiniteSet(nodes) /\ Cardinality(nodes) \in Nat /\ Cardinality(nodes) <= Cardinality(Nodes)
  BY QueriesBound, FS_Subset, FS_CardinalityType DEF NodesInv
<1>4. ASSUME UNCHANGED <<asked, cur, queries>> PROVE TableExact'
  BY <1>1, <1>4 DEF TableExact
<1>5. CASE UNCHANGED <<caller, next, search, visit, asked, cur, queries>>
  BY <1>4, <1>5 DEF QueryInv
<1>6. CASE Ping
  <2>1. OpenQuery(BootstrapNodes[next], "ping")
    BY <1>6 DEF Ping
  <2>2. /\ asked' \in Seq(QueryType) /\ Len(asked') = Len(asked) + 1
        /\ cur' \in 0 .. Len(asked') /\ TableExact'
    BY <2>1, Opened
  <2>3. caller = "bootstrap" /\ caller' = "ping" /\ next <= Len(BootstrapNodes) /\ UNCHANGED <<next, search, visit>>
    BY <1>6 DEF Ping, searchVars
  <2> QED  BY <1>1, <2>2, <2>3, QueriesBound DEF QueryInv
<1>7. CASE PingAnswered \/ PingTimeout
  <2>1. CloseQuery /\ cur # None
    BY <1>7 DEF PingAnswered, PingTimeout, Answered, TimedOut
  <2>2. UNCHANGED asked /\ cur' \in 0 .. Len(asked) /\ TableExact'
    BY <2>1, Closed
  <2>3. caller = "ping" /\ caller' = "bootstrap" /\ next' = next + 1 /\ UNCHANGED <<search, visit>>
    BY <1>7 DEF PingAnswered, PingTimeout, searchVars
  <2> QED  BY <1>1, <2>2, <2>3, QueriesBound DEF QueryInv
<1>8. CASE StartSearch
  <2>1. /\ caller = "bootstrap" /\ caller' = "read" /\ visit' = nodes
        /\ next > Len(BootstrapNodes) /\ UNCHANGED <<next, asked, cur, queries>>
    BY <1>8 DEF StartSearch, queryVars
  <2>2. next = Len(BootstrapNodes) + 1 /\ Len(asked) < next
    BY <2>1, QueriesBound DEF QueryInv
  <2>3. Len(asked) + Cardinality(visit') <= MaxQueries
    BY <1>1, <1>3, <2>1, <2>2, QueriesBound
  <2> QED  BY <1>1, <1>4, <2>1, <2>3 DEF QueryInv
<1>9. CASE ListenFails \/ ListenOK \/ PingSendFails \/ ReadPeer \/ StopReading \/ CloseDone \/ CloseConn
  <2>1. UNCHANGED <<search, visit, asked, cur, queries>>
    BY <1>9 DEF ListenFails, ListenOK, PingSendFails, ReadPeer, StopReading, CloseDone,
                CloseConn, searchVars, queryVars
  <2>2. CASE ListenFails \/ ListenOK
    BY <1>1, <1>4, <2>1, <2>2 DEF ListenFails, ListenOK, QueryInv
  <2>3. CASE PingSendFails
    <3>1. next' = next + 1 /\ next <= Len(BootstrapNodes) /\ UNCHANGED caller /\ caller = "bootstrap"
      BY <2>3 DEF PingSendFails
    <3> QED  BY <1>1, <1>4, <2>1, <3>1, QueriesBound DEF QueryInv
  <2>4. CASE ReadPeer \/ StopReading \/ CloseDone \/ CloseConn
    BY <1>1, <1>4, <2>1, <2>4 DEF ReadPeer, StopReading, CloseDone, CloseConn, QueryInv
  <2> QED  BY <1>9, <2>2, <2>3, <2>4
<1>10. ASSUME NEW addr \in Nodes, AskNode(addr), UNCHANGED <<caller, next>> PROVE QueryInv'
  <2>1. OpenQuery(addr, "get_peers")
    BY <1>10 DEF AskNode
  <2>2. /\ asked' \in Seq(QueryType) /\ Len(asked') = Len(asked) + 1
        /\ cur' \in 0 .. Len(asked') /\ TableExact'
    BY <2>1, Opened
  <2>3. search = "loop" /\ search' = "wait" /\ addr \in visit /\ visit' = visit \ {addr}
    BY <1>10 DEF AskNode
  <2>4. Cardinality(visit') = Cardinality(visit) - 1
    BY <1>2, <2>3, FS_RemoveElement
  <2>5. Len(asked') + Cardinality(visit') <= MaxQueries /\ caller \in {"read", "close", "returned"}
    BY <1>1, <1>2, <2>2, <2>3, <2>4, QueriesBound DEF QueryInv
  <2>6. Cardinality(visit') \in Nat
    BY <1>2, <2>3, FS_RemoveElement, FS_CardinalityType
  <2>7. Len(asked') <= MaxQueries
    BY <1>1, <2>2, <2>5, <2>6, QueriesBound
  <2> QED  BY <1>10, <2>2, <2>3, <2>5, <2>7 DEF QueryInv
<1>11. ASSUME NEW addr \in Nodes, AskFails(addr), UNCHANGED <<caller, next>> PROVE QueryInv'
  <2>1. search = "loop" /\ UNCHANGED <<search, asked, cur, queries>> /\ addr \in visit /\ visit' = visit \ {addr}
    BY <1>11 DEF AskFails, queryVars
  <2>2. Cardinality(visit') = Cardinality(visit) - 1
    BY <1>2, <2>1, FS_RemoveElement
  <2>3. Len(asked) + Cardinality(visit') <= MaxQueries
    BY <1>1, <1>2, <2>1, <2>2, QueriesBound DEF QueryInv
  <2> QED  BY <1>4, <1>11, <2>1, <2>3 DEF QueryInv
<1>12. CASE (NodeTimeout \/ NodeAnswered) /\ UNCHANGED <<caller, next>>
  <2>1. CloseQuery /\ cur # None
    BY <1>12 DEF NodeTimeout, NodeAnswered, Answered, TimedOut
  <2>2. UNCHANGED asked /\ cur' \in 0 .. Len(asked) /\ TableExact'
    BY <2>1, Closed
  <2>3. search = "wait" /\ UNCHANGED visit
    BY <1>12 DEF NodeTimeout, NodeAnswered
  <2> QED  BY <1>1, <1>12, <2>2, <2>3 DEF QueryInv
<1>13. CASE (OfferPeer \/ AddNodes \/ EndSearch) /\ UNCHANGED <<caller, next>>
  BY <1>1, <1>4, <1>13 DEF OfferPeer, AddNodes, EndSearch, queryVars, QueryInv
<1>14. CASE RecvLoopEnds \/ Reply \/ SendReply
  BY <1>5, <1>14 DEF RecvLoopEnds, Reply, SendReply, searchVars, queryVars
<1>15. ASSUME NEW n, Receive(n) PROVE QueryInv'
  BY <1>5, <1>15 DEF Receive, searchVars, queryVars
<1>16. ASSUME NEW h, Handle(h) PROVE QueryInv'
  BY <1>5, <1>16 DEF Handle, searchVars
<1>17. ASSUME NEW q, ReceiveQuery(q) PROVE QueryInv'
  BY <1>5, <1>17 DEF ReceiveQuery, searchVars, queryVars
<1>18. CASE UNCHANGED vars
  BY <1>5, <1>18 DEF vars, searchVars, queryVars
<1>19. CASE Search
  BY <1>10, <1>11, <1>12, <1>13, <1>19 DEF Search
<1>20. CASE Caller
  BY <1>6, <1>7, <1>8, <1>9, <1>20 DEF Caller
<1> QED
  BY <1>14, <1>15, <1>16, <1>17, <1>18, <1>19, <1>20 DEF Next, Terminating

\* NodesInv is inductive.
LEMMA NodesStep == QueryInv /\ NodesInv /\ ResponseInv /\ [Next]_vars => NodesInv'
<1> SUFFICES ASSUME QueryInv, NodesInv, ResponseInv, [Next]_vars PROVE NodesInv'
  OBVIOUS
<1>1. CASE UNCHANGED <<visit, nodes, learned, cur, target>>
  BY <1>1 DEF NodesInv
<1>2. CASE Ping
  <2>1. OpenQuery(BootstrapNodes[next], "ping")
    BY <1>2 DEF Ping
  <2>2. target' = BootstrapNodes[next]
    BY <2>1, Opened
  <2>3. next \in 1 .. Len(BootstrapNodes) /\ BootstrapNodes \in Seq(Nodes)
    BY <1>2, DHTAssumption, QueriesBound DEF Ping, QueryInv
  <2> QED  BY <1>2, <2>2, <2>3 DEF Ping, searchVars, NodesInv
<1>3. CASE PingAnswered \/ PingTimeout
  <2>1. cur # None /\ cur' = None /\ UNCHANGED <<visit, learned>> /\ nodes' \subseteq nodes \cup {target}
    BY <1>3 DEF PingAnswered, PingTimeout, Answered, TimedOut, CloseQuery, searchVars
  <2> QED  BY <2>1 DEF NodesInv
<1>4. CASE StartSearch
  BY <1>4 DEF StartSearch, queryVars, NodesInv
<1>5. CASE ListenFails \/ ListenOK \/ PingSendFails \/ ReadPeer \/ StopReading \/ CloseDone \/ CloseConn
  BY <1>1, <1>5 DEF ListenFails, ListenOK, PingSendFails, ReadPeer, StopReading, CloseDone,
                    CloseConn, searchVars, queryVars
<1>6. ASSUME NEW addr \in Nodes, AskNode(addr) PROVE NodesInv'
  <2>1. OpenQuery(addr, "get_peers")
    BY <1>6 DEF AskNode
  <2>2. target' = addr
    BY <2>1, Opened
  <2> QED  BY <1>6, <2>2 DEF AskNode, NodesInv
<1>7. ASSUME NEW addr \in Nodes, AskFails(addr) PROVE NodesInv'
  BY <1>7 DEF AskFails, queryVars, NodesInv
<1>8. CASE NodeTimeout
  BY <1>8 DEF NodeTimeout, CloseQuery, NodesInv
<1>9. CASE NodeAnswered
  <2>1. cur # None /\ box[cur] # <<>> /\ cur' = None /\ UNCHANGED <<visit, nodes>> /\ learned' = Response.r.nodes
    BY <1>9 DEF NodeAnswered, Answered, CloseQuery
  <2>2. cur \in Serials
    BY <2>1, QueriesBound DEF QueryInv, RoomForQueries, Serials, None
  <2>3. Response \in MessageType
    BY <2>1, <2>2 DEF ResponseInv, Response
  <2>4. learned' \subseteq Nodes
    BY <2>1, <2>3 DEF MessageType, ResponseType
  <2> QED  BY <2>1, <2>4 DEF NodesInv
<1>10. CASE OfferPeer \/ AddNodes \/ EndSearch
  BY <1>10 DEF OfferPeer, AddNodes, EndSearch, queryVars, NodesInv
<1>11. CASE RecvLoopEnds \/ Reply \/ SendReply
  BY <1>1, <1>11 DEF RecvLoopEnds, Reply, SendReply, searchVars, queryVars
<1>12. ASSUME NEW n, Receive(n) PROVE NodesInv'
  BY <1>1, <1>12 DEF Receive, searchVars, queryVars
<1>13. ASSUME NEW h, Handle(h) PROVE NodesInv'
  BY <1>1, <1>13 DEF Handle, searchVars
<1>14. ASSUME NEW q, ReceiveQuery(q) PROVE NodesInv'
  BY <1>1, <1>14 DEF ReceiveQuery, searchVars, queryVars
<1>15. CASE UNCHANGED vars
  BY <1>1, <1>15 DEF vars, searchVars, queryVars
<1>16. CASE Search
  BY <1>6, <1>7, <1>8, <1>9, <1>10, <1>16 DEF Search
<1>17. CASE Caller
  BY <1>2, <1>3, <1>4, <1>5, <1>17 DEF Caller
<1> QED
  BY <1>11, <1>12, <1>13, <1>14, <1>15, <1>16, <1>17 DEF Next, Terminating

-----------------------------------------------------------------------------
(* The responses                                                           *)

\* ResponseInv is inductive.
LEMMA ResponseStep == QueryInv /\ ResponseInv /\ [Next]_vars => ResponseInv'
<1> SUFFICES ASSUME QueryInv, ResponseInv, [Next]_vars PROVE ResponseInv'
  OBVIOUS
<1>1. asked \in Seq(QueryType) /\ Len(asked) \in Nat
  BY DEF QueryInv
<1>2. 1 .. Len(asked) \subseteq Serials
  BY <1>1, QueriesBound DEF QueryInv, RoomForQueries, Serials
<1>3. ASSUME UNCHANGED <<box, asked>>, \A h \in handlers' : HandlerOK(h)' PROVE ResponseInv'
  BY <1>3 DEF ResponseInv, SameTid
<1>4. ASSUME UNCHANGED <<handlers, asked>>, box' \in [Serials -> Seq(MessageType)],
             \A n \in Serials : box'[n] # <<>> => SameTid(box'[n][1].n, n)
      PROVE  ResponseInv'
  BY <1>4 DEF ResponseInv, HandlerOK, SameTid
<1>5. CASE UNCHANGED <<box, asked, handlers>>
  BY <1>5 DEF ResponseInv, HandlerOK, SameTid
<1>6. ASSUME NEW addr, NEW q \in {"ping", "get_peers"}, OpenQuery(addr, q), UNCHANGED handlers
      PROVE  ResponseInv'
  <2>1. /\ Len(asked') = Len(asked) + 1 /\ UNCHANGED box
        /\ \A n \in 1 .. Len(asked) : asked'[n] = asked[n]
    BY <1>6, Opened
  <2>2. ASSUME NEW m, NEW n, SameTid(m, n) PROVE SameTid(m, n)'
    BY <1>1, <2>1, <2>2 DEF SameTid
  <2>3. ASSUME NEW h, HandlerOK(h) PROVE HandlerOK(h)'
    BY <1>1, <2>1, <2>2, <2>3 DEF HandlerOK
  <2> QED  BY <1>6, <2>1, <2>2, <2>3 DEF ResponseInv
<1>7. ASSUME cur # None, CloseQuery, Answered \/ TimedOut, UNCHANGED handlers PROVE ResponseInv'
  <2>1. UNCHANGED asked /\ (box' = box \/ box' = [box EXCEPT ![cur] = <<>>])
    BY <1>7 DEF CloseQuery, Answered, TimedOut
  <2>2. /\ box' \in [Serials -> Seq(MessageType)]
        /\ \A n \in Serials : box'[n] # <<>> => box'[n] = box[n]
    <3>1. <<>> \in Seq(MessageType) /\ box \in [Serials -> Seq(MessageType)]
      BY DEF ResponseInv
    <3> QED  BY <2>1, <3>1
  <2>3. \A n \in Serials : box'[n] # <<>> => SameTid(box'[n][1].n, n)
    BY <2>2 DEF ResponseInv
  <2> QED  BY <1>4, <1>7, <2>1, <2>2, <2>3
<1>8. CASE Ping
  BY <1>6, <1>8 DEF Ping, recvVars
<1>9. CASE PingAnswered \/ PingTimeout
  BY <1>7, <1>9 DEF PingAnswered, PingTimeout, Answered, TimedOut, recvVars
<1>10. CASE StartSearch \/ ListenFails \/ ListenOK \/ PingSendFails \/ ReadPeer \/ StopReading
            \/ CloseDone \/ CloseConn
  BY <1>5, <1>10 DEF StartSearch, ListenFails, ListenOK, PingSendFails, ReadPeer, StopReading,
                     CloseDone, CloseConn, queryVars, recvVars
<1>11. ASSUME NEW addr \in Nodes, AskNode(addr) \/ AskFails(addr), UNCHANGED handlers PROVE ResponseInv'
  BY <1>5, <1>6, <1>11 DEF AskNode, AskFails, queryVars
<1>12. CASE (NodeTimeout \/ NodeAnswered) /\ UNCHANGED handlers
  BY <1>7, <1>12 DEF NodeTimeout, NodeAnswered, Answered, TimedOut
<1>13. CASE (OfferPeer \/ AddNodes \/ EndSearch) /\ UNCHANGED handlers
  BY <1>5, <1>13 DEF OfferPeer, AddNodes, EndSearch, queryVars
<1>14. CASE RecvLoopEnds \/ Reply \/ SendReply
  BY <1>5, <1>14 DEF RecvLoopEnds, Reply, SendReply, queryVars
<1>15. ASSUME NEW n \in 1 .. Len(asked), Receive(n) PROVE ResponseInv'
  <2>1. PICK r \in Responses(asked[n].q) :
           handlers' = handlers \cup {[n |-> n, copy |-> NewCopy(n), r |-> r, to |-> None]}
    BY <1>15 DEF Receive
  <2>2. UNCHANGED <<box, asked>>
    BY <1>15 DEF Receive, queryVars
  <2>3. r \in ResponseType
    BY ResponsesTyped
  <2>4. \A h \in handlers : HandlerOK(h)'
    BY <2>2 DEF ResponseInv, HandlerOK, SameTid
  <2>5. PICK c : c = NewCopy(n)
    OBVIOUS
  <2>6. HandlerOK([n |-> n, copy |-> c, r |-> r, to |-> None])'
    BY <2>2, <2>3 DEF HandlerOK
  <2> QED  BY <1>3, <2>1, <2>2, <2>4, <2>5, <2>6
<1>16. ASSUME NEW h \in handlers, Handle(h) PROVE ResponseInv'
  <2>1. UNCHANGED <<asked, queries>> /\ HandlerOK(h)
    BY <1>16 DEF Handle, ResponseInv
  <2>2. \A k \in handlers : HandlerOK(k)'
    BY <2>1 DEF ResponseInv, HandlerOK, SameTid
  <2>3. CASE FindQuery(h)
    <3>1. UNCHANGED box
      BY <2>3 DEF FindQuery
    <3>2. CASE handlers' = handlers \ {h}
      BY <1>3, <2>1, <2>2, <3>1, <3>2
    <3>3. CASE /\ Lookup(h) # None
               /\ handlers' = (handlers \ {h}) \cup {[h EXCEPT !.to = Lookup(h)]}
      <4>1. h.n \in 1 .. Len(asked) /\ asked[h.n].tid \in Tids
        <5>1. h.n \in 1 .. Len(asked)
          BY <2>1 DEF HandlerOK
        <5>2. asked[h.n] \in QueryType
          BY <1>1, <5>1
        <5> QED  BY <5>1, <5>2 DEF QueryType
      <4>2. cur # None /\ asked[h.n].tid = asked[cur].tid /\ Lookup(h) = cur
        BY <3>3, <4>1 DEF Lookup, QueryInv, TableExact
      <4>3. cur \in 1 .. Len(asked)
        BY <1>1, <4>2 DEF QueryInv, None
      <4>4. SameTid(h.n, cur)
        BY <4>1, <4>2, <4>3 DEF SameTid
      <4>5. PICK k : k = [n |-> h.n, copy |-> h.copy, r |-> h.r, to |-> cur]
        OBVIOUS
      <4>6. [h EXCEPT !.to = cur] = k
        BY <2>1, <4>5 DEF HandlerOK
      <4>7. k.n = h.n /\ k.copy = h.copy /\ k.r = h.r /\ k.to = cur
        BY <4>5
      <4>8. HandlerOK(k)'
        <5>1. h.r \in ResponseType
          BY <2>1 DEF HandlerOK
        <5> QED  BY <2>1, <4>1, <4>4, <4>5, <4>7, <5>1 DEF HandlerOK, SameTid
      <4>9. handlers' = (handlers \ {h}) \cup {k}
        BY <3>3, <4>2, <4>6
      <4> QED  BY <1>3, <2>1, <2>2, <3>1, <4>8, <4>9
    <3> QED  BY <2>3, <3>2, <3>3 DEF FindQuery
  <2>4. CASE Deliver(h)
    <3>1. /\ h.to # None /\ handlers' = handlers \ {h}
          /\ box' = IF box[h.to] = <<>> THEN [box EXCEPT ![h.to] = <<[n |-> h.n, r |-> h.r]>>] ELSE box
      BY <2>4 DEF Deliver
    <3>2. SameTid(h.n, h.to) /\ h.r \in ResponseType
      BY <2>1, <3>1 DEF HandlerOK
    <3>3. h.to \in Serials /\ h.n \in Nat
      BY <1>1, <1>2, <3>2 DEF SameTid
    <3>4. [n |-> h.n, r |-> h.r] \in MessageType
      BY <3>2, <3>3 DEF MessageType
    <3>5. PICK msg \in MessageType : msg = [n |-> h.n, r |-> h.r]
      BY <3>4
    <3>6. msg.n = h.n
      BY <3>5
    <3>7. <<msg>> \in Seq(MessageType) /\ <<msg>>[1] = msg
      OBVIOUS
    <3>8. box' \in [Serials -> Seq(MessageType)]
      BY <3>1, <3>5, <3>7 DEF ResponseInv
    <3>9. ASSUME NEW n \in Serials, box'[n] # <<>> PROVE SameTid(box'[n][1].n, n)
      <4>1. CASE box'[n] = box[n]
        BY <3>9, <4>1 DEF ResponseInv
      <4>2. CASE n = h.to /\ box'[n] = <<msg>>
        BY <3>2, <3>6, <3>7, <4>2
      <4> QED  BY <3>1, <3>3, <3>5, <3>9, <4>1, <4>2 DEF ResponseInv
    <3> QED  BY <2>1, <2>2, <3>1, <3>8, <3>9 DEF ResponseInv, SameTid
  <2> QED  BY <1>16, <2>3, <2>4 DEF Handle
<1>17. ASSUME NEW q, ReceiveQuery(q) PROVE ResponseInv'
  BY <1>5, <1>17 DEF ReceiveQuery, queryVars
<1>18. CASE UNCHANGED vars
  BY <1>5, <1>18 DEF vars, queryVars, recvVars
<1>19. CASE Search
  <2>1. UNCHANGED handlers
    BY <1>19 DEF Search, recvVars
  <2> QED  BY <1>11, <1>12, <1>13, <1>19, <2>1 DEF Search
<1>20. CASE Caller
  BY <1>8, <1>9, <1>10, <1>20 DEF Caller
<1> QED
  BY <1>14, <1>15, <1>16, <1>17, <1>18, <1>19, <1>20 DEF Next, Terminating

-----------------------------------------------------------------------------
(* The way of the peers                                                    *)

Joined(a, b, c) == a \o b \o c

\* The first element of c goes to the end of b.
LEMMA MoveHead ==
    ASSUME NEW S, NEW a \in Seq(S), NEW b \in Seq(S), NEW c \in Seq(S), c # <<>>
    PROVE  Joined(a, Append(b, Head(c)), Tail(c)) = Joined(a, b, c)
<1>1. PICK x \in S, d \in Seq(S) : x = Head(c) /\ d = Tail(c) /\ c = <<x>> \o d
  <2>1. Head(c) \in S /\ Tail(c) \in Seq(S)
    BY HeadTailProperties
  <2>2. c = <<Head(c)>> \o Tail(c)
    OBVIOUS
  <2> QED  BY <2>1, <2>2
<1>2. Append(b, x) = b \o <<x>> /\ <<x>> \in Seq(S) /\ b \o <<x>> \in Seq(S) /\ a \o b \in Seq(S)
  OBVIOUS
<1>3. a \o (b \o <<x>>) = (a \o b) \o <<x>>
  BY <1>2, ConcatAssociative
<1>4. ((a \o b) \o <<x>>) \o d = (a \o b) \o (<<x>> \o d)
  BY <1>2, ConcatAssociative
<1> QED  BY <1>1, <1>2, <1>3, <1>4 DEF Joined

\* What a response in the channel of the open query has for c.peers.
LEMMA AnswerDecoded ==
    ASSUME QueryInv, ResponseInv, cur # None, box[cur] # <<>>
    PROVE  DecodePeers(Response.r.values) \in Seq(PeerSet)
<1>1. cur \in Serials
  BY QueriesBound DEF QueryInv, RoomForQueries, Serials, None
<1>2. Response \in MessageType
  BY <1>1 DEF ResponseInv, Response
<1>3. Response.r.values \in AllValues
  BY <1>2 DEF MessageType, ResponseType
<1> QED  BY <1>3, DecodedPeers

\* FlowInv is inductive: a peer is in one of three places until it is read.
LEMMA FlowStep == QueryInv /\ ResponseInv /\ FlowInv /\ [Next]_vars => FlowInv'
<1> SUFFICES ASSUME QueryInv, ResponseInv, FlowInv, [Next]_vars PROVE FlowInv'
  OBVIOUS
<1>1. /\ peers \in Seq(PeerSet) /\ ch \in Seq(PeerSet)
      /\ dhtPeers \in Seq(PeerSet) /\ offer \in Seq(PeerSet)
  BY DEF FlowInv
<1>2. ChanCap \in Nat /\ ChanCap > 0
  BY DHTAssumption
<1>3. ASSUME UNCHANGED <<peers, ch, dhtPeers, offer>>, offer # <<>> => UNCHANGED search
      PROVE  FlowInv'
  BY <1>3 DEF FlowInv, Flow
<1>4. CASE ReadPeer
  <2>1. /\ ch # <<>> /\ dhtPeers' = Append(dhtPeers, Head(ch)) /\ ch' = Tail(ch)
        /\ UNCHANGED <<peers, offer, search>>
    BY <1>4 DEF ReadPeer, searchVars
  <2>2. dhtPeers' \in Seq(PeerSet) /\ ch' \in Seq(PeerSet)
    BY <1>1, <2>1
  <2>3. dhtPeers' \o ch' = dhtPeers \o ch
    BY <1>1, <2>1
  <2>4. Flow'
    BY <2>1, <2>3 DEF FlowInv, Flow
  <2> QED  BY <1>1, <2>1, <2>2, <2>4 DEF FlowInv
<1>5. CASE NodeAnswered
  <2>1. PICK d : d = DecodePeers(Response.r.values)
    OBVIOUS
  <2>2. /\ search = "wait" /\ search' = "offer" /\ cur # None /\ box[cur] # <<>>
        /\ peers' = peers \o d /\ offer' = d /\ UNCHANGED <<ch, dhtPeers>>
    BY <1>5, <2>1 DEF NodeAnswered, Answered, chVars
  <2>3. d \in Seq(PeerSet)
    BY <2>1, <2>2, AnswerDecoded
  <2>4. offer = <<>>
    BY <2>2 DEF FlowInv
  <2>5. peers' \in Seq(PeerSet)
    BY <1>1, <2>2, <2>3
  <2>6. PICK flow \in Seq(PeerSet) : flow = dhtPeers \o ch
    <3>1. dhtPeers \o ch \in Seq(PeerSet)
      BY <1>1
    <3> QED  BY <3>1, Zenon
  <2>7. ASSUME flow \o offer = peers PROVE FlowOf(flow, d, peers \o d)
    <3>1. flow = peers
      BY <2>4, <2>6, <2>7
    <3> QED  BY <3>1 DEF FlowOf
  <2>8. ASSUME Overflown(flow, peers) PROVE FlowOf(flow, d, peers \o d)
    <3>1. Len(peers') = Len(peers) + Len(d)
      BY <1>1, <2>2, <2>3
    <3>2. Len(peers') > ChanCap
      BY <1>1, <1>2, <2>3, <2>8, <3>1 DEF Overflown
    <3>3. \A i \in 1 .. ChanCap : peers'[i] = peers[i]
      BY <1>1, <1>2, <2>2, <2>3, <2>8 DEF Overflown
    <3> QED  BY <2>2, <2>8, <3>2, <3>3 DEF FlowOf, Overflown
  <2>9. FlowOf(flow, offer, peers)
    BY <2>6 DEF FlowInv, Flow
  <2>10. FlowOf(flow, d, peers \o d)
    BY <2>7, <2>8, <2>9 DEF FlowOf
  <2>11. Flow'
    BY <2>2, <2>6, <2>10 DEF Flow
  <2> QED  BY <1>1, <2>2, <2>3, <2>5, <2>11 DEF FlowInv
<1>6. CASE OfferPeer
  <2>1. /\ search = "offer" /\ offer # <<>> /\ offer' = Tail(offer)
        /\ ch' = (IF Len(ch) < ChanCap THEN Append(ch, Head(offer)) ELSE ch)
        /\ UNCHANGED <<search, dhtPeers, peers>>
    BY <1>6 DEF OfferPeer, HasRoom
  <2>2. Head(offer) \in PeerSet /\ Tail(offer) \in Seq(PeerSet) /\ offer = <<Head(offer)>> \o Tail(offer)
    BY <1>1, <2>1
  <2>3. ch' \in Seq(PeerSet)
    BY <1>1, <2>1, <2>2
  <2>4. PICK flow \in Seq(PeerSet) : flow = dhtPeers \o ch /\ Len(flow) = Len(dhtPeers) + Len(ch)
    <3>1. dhtPeers \o ch \in Seq(PeerSet) /\ Len(dhtPeers \o ch) = Len(dhtPeers) + Len(ch)
      BY <1>1
    <3> QED  BY <3>1, Zenon
  <2>5. ASSUME flow \o offer = peers, Len(ch) < ChanCap PROVE Flow'
    <3>1. Joined(dhtPeers, Append(ch, Head(offer)), Tail(offer)) = Joined(dhtPeers, ch, offer)
      BY <1>1, <2>1, MoveHead
    <3>2. dhtPeers' \o ch' \o offer' = peers'
      BY <2>1, <2>4, <2>5, <3>1 DEF Joined
    <3> QED  BY <3>2 DEF Flow, FlowOf
  <2>6. ASSUME flow \o offer = peers, ~(Len(ch) < ChanCap) PROVE Flow'
    <3>1. Len(dhtPeers) \in Nat /\ Len(ch) \in Nat /\ Len(offer) \in Nat /\ Len(offer) > 0
      BY <1>1, <2>1
    <3>2. Len(peers) = Len(flow) + Len(offer)
      BY <1>1, <2>4, <2>6
    <3>3. Len(flow) >= ChanCap
      BY <1>2, <2>4, <2>6, <3>1
    <3>4. Len(peers) > ChanCap
      BY <1>2, <2>4, <3>1, <3>2, <3>3
    <3>5. \A i \in 1 .. ChanCap : flow[i] = peers[i]
      BY <1>1, <1>2, <2>4, <2>6, <3>1, <3>3
    <3>6. dhtPeers' \o ch' = flow /\ peers' = peers
      BY <2>1, <2>4, <2>6
    <3>7. Overflown(flow, peers)
      BY <3>3, <3>4, <3>5 DEF Overflown
    <3> QED  BY <3>6, <3>7 DEF Flow, FlowOf
  <2>7. ASSUME Overflown(flow, peers) PROVE Flow'
    <3>1. PICK x \in PeerSet : x = Head(offer)
      BY <2>2
    <3>2. CASE Len(ch) < ChanCap
      <4>1. dhtPeers' \o ch' = Append(flow, x)
        BY <1>1, <2>1, <2>4, <3>1, <3>2
      <4>2. /\ Len(Append(flow, x)) >= ChanCap
            /\ \A i \in 1 .. ChanCap : Append(flow, x)[i] = flow[i]
        BY <1>2, <2>7 DEF Overflown
      <4>3. Overflown(Append(flow, x), peers)
        BY <2>7, <4>2 DEF Overflown
      <4> QED  BY <2>1, <4>1, <4>3 DEF Flow, FlowOf
    <3>3. CASE ~(Len(ch) < ChanCap)
      <4>1. dhtPeers' \o ch' = flow
        BY <2>1, <2>4, <3>3
      <4> QED  BY <2>1, <2>7, <4>1 DEF Flow, FlowOf
    <3> QED  BY <3>2, <3>3
  <2>8. FlowOf(flow, offer, peers)
    BY <2>4 DEF FlowInv, Flow
  <2>9. Flow'
    BY <2>5, <2>6, <2>7, <2>8 DEF FlowOf
  <2> QED  BY <1>1, <2>1, <2>2, <2>3, <2>9 DEF FlowInv
<1>7. CASE StartSearch \/ ListenFails \/ ListenOK \/ Ping \/ PingSendFails \/ PingAnswered \/ PingTimeout
           \/ StopReading \/ CloseDone \/ CloseConn
  <2>1. CASE StartSearch
    <3>1. UNCHANGED <<peers, ch, dhtPeers, offer>> /\ caller = "bootstrap"
      BY <2>1 DEF StartSearch, chVars
    <3>2. search = "none"
      BY <3>1 DEF QueryInv, RoomForQueries
    <3> QED  BY <1>3, <3>1, <3>2 DEF FlowInv
  <2>2. CASE ~StartSearch
    BY <1>3, <1>7, <2>2 DEF ListenFails, ListenOK, Ping, PingSendFails, PingAnswered, PingTimeout,
                            StopReading, CloseDone, CloseConn, chVars, searchVars
  <2> QED  BY <2>1, <2>2
<1>8. ASSUME NEW addr \in Nodes, AskNode(addr) \/ AskFails(addr) PROVE FlowInv'
  BY <1>3, <1>8 DEF AskNode, AskFails, chVars, FlowInv
<1>9. CASE NodeTimeout \/ AddNodes \/ EndSearch
  BY <1>3, <1>9 DEF NodeTimeout, AddNodes, EndSearch, chVars, FlowInv
<1>10. CASE RecvLoopEnds \/ Reply \/ SendReply
  BY <1>3, <1>10 DEF RecvLoopEnds, Reply, SendReply, searchVars, chVars
<1>11. ASSUME NEW n, Receive(n) PROVE FlowInv'
  BY <1>3, <1>11 DEF Receive, searchVars, chVars
<1>12. ASSUME NEW h, Handle(h) PROVE FlowInv'
  BY <1>3, <1>12 DEF Handle, searchVars, chVars
<1>13. ASSUME NEW q, ReceiveQuery(q) PROVE FlowInv'
  BY <1>3, <1>13 DEF ReceiveQuery, searchVars, chVars
<1>14. CASE UNCHANGED vars
  BY <1>3, <1>14 DEF vars, searchVars, chVars
<1>15. CASE Search
  BY <1>5, <1>6, <1>8, <1>9, <1>15 DEF Search
<1>16. CASE Caller
  BY <1>4, <1>7, <1>16 DEF Caller
<1> QED
  BY <1>10, <1>11, <1>12, <1>13, <1>14, <1>15, <1>16 DEF Next, Terminating

-----------------------------------------------------------------------------
(* The answers to other nodes                                              *)

FieldSet == {p.ip : p \in PeerSet} \cup {p.port : p \in PeerSet}

\* A peer is an address and a port, and its fields go into a compact list.
LEMMA PeersAreFields ==
    ASSUME NEW p \in PeerSet
    PROVE  IsPeer(p) /\ p.ip \in FieldSet /\ p.port \in FieldSet /\ Fields(p) \in Seq(FieldSet)
<1>1. PICK v \in AllValues : p \in PeersIn(v)
  BY DEF PeerSet
<1>2. PICK i \in 1 .. Len(DecodePeers(v)) : p = DecodePeers(v)[i]
  BY <1>1 DEF PeersIn
<1>3. IsPeer(p)
  <2>1. CASE v.compact
    <3>1. DecodePeers(v) = DecodeCompact(v.data)
      BY <2>1 DEF DecodePeers
    <3>2. v.data \in {w.data : w \in AllValues} /\ Len(v.data) \in Nat
      <4>1. CASE v \in ValueLists
        BY <4>1, DHTAssumption DEF IsSeq
      <4>2. CASE v = NoValues
        <5>1. v.data = <<>>
          BY <4>2 DEF NoValues
        <5> QED  BY <5>1
      <4> QED  BY <4>1, <4>2 DEF AllValues
    <3>3. PICK n \in Nat : n = Len(v.data) \div 2
      <4>1. \A k \in Nat : k \div 2 \in Nat
        OBVIOUS
      <4> QED  BY <3>2, <4>1
    <3>4. PICK d : d = DecodePeers(v)
      OBVIOUS
    <3>5. d = [j \in 1 .. n |-> [ip |-> v.data[2 * j - 1], port |-> v.data[2 * j]]]
      BY <3>1, <3>3, <3>4 DEF DecodeCompact
    <3>6. Len(d) = n
      BY <3>5
    <3>7. p = [ip |-> v.data[2 * i - 1], port |-> v.data[2 * i]]
      BY <1>2, <3>4, <3>5, <3>6
    <3> QED  BY <3>7 DEF IsPeer
  <2>2. CASE ~v.compact
    <3>1. DecodePeers(v) = v.data /\ v \in ValueLists
      BY <2>2 DEF DecodePeers, AllValues, NoValues
    <3> QED  BY <1>2, <2>2, <3>1, DHTAssumption
  <2> QED  BY <2>1, <2>2
<1>4. p.ip \in FieldSet /\ p.port \in FieldSet
  BY DEF FieldSet
<1>5. PICK a \in FieldSet, b \in FieldSet : a = p.ip /\ b = p.port
  BY <1>4
<1>6. <<a, b>> \in Seq(FieldSet) /\ <<>> \in Seq(FieldSet)
  OBVIOUS
<1>7. Fields(p) \in Seq(FieldSet)
  BY <1>5, <1>6 DEF Fields
<1> QED  BY <1>3, <1>4, <1>7

Found(found, p) == IF p.ip \in IPv4 THEN Append(found, p) ELSE found

\* The loop that looks for the peers with an IPv4 address.
LEMMA FoundLoop ==
    ASSUME NEW list \in Seq(PeerSet)
    PROVE  /\ IPv4Peers(list)[0] = <<>>
           /\ \A n \in 0 .. Len(list) : IPv4Peers(list)[n] \in Seq(PeerSet)
           /\ \A n \in 1 .. Len(list) : IPv4Peers(list)[n] = Found(IPv4Peers(list)[n - 1], list[n])
<1>1. PICK L \in Nat : L = Len(list)
  OBVIOUS
<1>2. \A n \in 1 .. L : list[n] \in PeerSet
  BY <1>1
<1>3. \A n \in 1 .. L, t \in Seq(PeerSet) : Found(t, list[n]) \in Seq(PeerSet)
  <2> SUFFICES ASSUME NEW n \in 1 .. L, NEW t \in Seq(PeerSet) PROVE Found(t, list[n]) \in Seq(PeerSet)
    OBVIOUS
  <2>1. PICK p \in PeerSet : p = list[n]
    BY <1>2
  <2>2. Append(t, p) \in Seq(PeerSet)
    OBVIOUS
  <2> QED  BY <2>1, <2>2 DEF Found
<1> DEFINE step == [x \in (1 .. L) \X Seq(PeerSet) |-> Found(x[2], list[x[1]])]
<1>4. step \in [(1 .. L) \X Seq(PeerSet) -> Seq(PeerSet)]
  BY <1>3
<1>5. \A n \in 1 .. L, t \in Seq(PeerSet) : step[<<n, t>>] = Found(t, list[n])
  OBVIOUS
<1> HIDE DEF step
<1>6. <<>> \in Seq(PeerSet)
  OBVIOUS
<1>7. PICK f : LoopOf(f, L, Seq(PeerSet), <<>>, step)
  BY <1>4, <1>6, LoopRuns
<1>8. f \in [0 .. L -> Seq(PeerSet)] /\ f[0] = <<>>
  BY <1>7 DEF LoopOf
<1>9. \A n \in 1 .. L : f[n] = Found(f[n - 1], list[n])
  <2> SUFFICES ASSUME NEW n \in 1 .. L PROVE f[n] = Found(f[n - 1], list[n])
    OBVIOUS
  <2>1. n - 1 \in 0 .. L
    OBVIOUS
  <2>2. f[n - 1] \in Seq(PeerSet)
    BY <1>8, <2>1
  <2>3. f[n] = step[<<n, f[n - 1]>>]
    BY <1>7 DEF LoopOf
  <2> QED  BY <1>5, <2>2, <2>3
<1> DEFINE Body(h) == [n \in 0 .. Len(list) |-> IF n = 0 THEN <<>> ELSE Found(h[n - 1], list[n])]
           found == CHOOSE h : h = Body(h)
<1>10. f = Body(f)
  <2>1. \A n \in 0 .. L : f[n] = IF n = 0 THEN <<>> ELSE Found(f[n - 1], list[n])
    BY <1>8, <1>9
  <2> QED  BY <1>1, <1>8, <2>1
<1>11. found = Body(found)
  <2> HIDE DEF Body
  <2> QED  BY <1>10
<1>12. IPv4Peers(list) = found
  BY DEF IPv4Peers, Found
<1> HIDE DEF found
<1>13. found[0] = <<>> /\ \A n \in 1 .. L : found[n] = Found(found[n - 1], list[n])
  BY <1>1, <1>11
<1> DEFINE good == {n \in 0 .. L : found[n] \in Seq(PeerSet)}
<1>14. good = 0 .. L
  <2>1. good \in SUBSET (0 .. L) /\ 0 \in good
    <3>1. found[0] \in Seq(PeerSet)
      BY <1>6, <1>13, Zenon
    <3> QED  BY <3>1
  <2>2. ASSUME NEW n \in 1 .. L, n - 1 \in good PROVE n \in good
    <3>1. found[n - 1] \in Seq(PeerSet) /\ found[n] = Found(found[n - 1], list[n]) /\ n \in 0 .. L
      BY <1>13, <2>2
    <3>2. found[n] \in Seq(PeerSet)
      BY <1>3, <3>1
    <3> QED  BY <3>1, <3>2
  <2> HIDE DEF good
  <2> QED  BY <2>1, <2>2, LoopInvariant
<1>15. \A n \in 0 .. L : found[n] \in Seq(PeerSet)
  BY <1>14
<1> QED  BY <1>1, <1>12, <1>13, <1>15

\* The loop of encodePeerList.
LEMMA BufLoop ==
    ASSUME NEW list \in Seq(PeerSet)
    PROVE  \E f : /\ f[0] = <<>>
                  /\ \A n \in 1 .. Len(list) : f[n] = f[n - 1] \o Fields(list[n])
                  /\ EncodePeerList(list) = f[Len(list)]
<1>1. PICK L \in Nat : L = Len(list)
  OBVIOUS
<1>2. \A n \in 1 .. L : Fields(list[n]) \in Seq(FieldSet)
  <2>1. \A n \in 1 .. L : list[n] \in PeerSet
    BY <1>1
  <2> QED  BY <2>1, PeersAreFields
<1> DEFINE step == [x \in (1 .. L) \X Seq(FieldSet) |-> x[2] \o Fields(list[x[1]])]
<1>3. step \in [(1 .. L) \X Seq(FieldSet) -> Seq(FieldSet)]
  <2>1. \A n \in 1 .. L, t \in Seq(FieldSet) : t \o Fields(list[n]) \in Seq(FieldSet)
    <3> SUFFICES ASSUME NEW n \in 1 .. L, NEW t \in Seq(FieldSet) PROVE t \o Fields(list[n]) \in Seq(FieldSet)
      OBVIOUS
    <3>1. PICK u \in Seq(FieldSet) : u = Fields(list[n])
      BY <1>2
    <3>2. t \o u \in Seq(FieldSet)
      OBVIOUS
    <3> QED  BY <3>1, <3>2
  <2> QED  BY <2>1
<1>4. \A n \in 1 .. L, t \in Seq(FieldSet) : step[<<n, t>>] = t \o Fields(list[n])
  OBVIOUS
<1> HIDE DEF step
<1>5. <<>> \in Seq(FieldSet)
  OBVIOUS
<1>6. PICK f : LoopOf(f, L, Seq(FieldSet), <<>>, step)
  BY <1>3, <1>5, LoopRuns
<1>7. f \in [0 .. L -> Seq(FieldSet)] /\ f[0] = <<>>
  BY <1>6 DEF LoopOf
<1>8. \A n \in 1 .. L : f[n] = f[n - 1] \o Fields(list[n])
  <2> SUFFICES ASSUME NEW n \in 1 .. L PROVE f[n] = f[n - 1] \o Fields(list[n])
    OBVIOUS
  <2>1. n - 1 \in 0 .. L
    OBVIOUS
  <2>2. f[n - 1] \in Seq(FieldSet)
    BY <1>7, <2>1
  <2>3. f[n] = step[<<n, f[n - 1]>>]
    BY <1>6 DEF LoopOf
  <2> QED  BY <1>4, <2>2, <2>3
<1> DEFINE Body(h) == [n \in 0 .. Len(list) |-> IF n = 0 THEN <<>> ELSE h[n - 1] \o Fields(list[n])]
           buf == CHOOSE h : h = Body(h)
<1>9. f = Body(f)
  <2>1. ASSUME NEW n \in 0 .. L PROVE f[n] = IF n = 0 THEN <<>> ELSE f[n - 1] \o Fields(list[n])
    <3>1. n = 0 \/ (n # 0 /\ n \in 1 .. L)
      OBVIOUS
    <3> QED  BY <1>7, <1>8, <3>1, Zenon
  <2> QED  BY <1>1, <1>7, <2>1
<1>10. buf = Body(buf)
  <2> HIDE DEF Body
  <2> QED  BY <1>9
<1>11. EncodePeerList(list) = buf[Len(list)]
  BY DEF EncodePeerList
<1> HIDE DEF buf
<1>12. buf[0] = <<>> /\ \A n \in 1 .. L : buf[n] = buf[n - 1] \o Fields(list[n])
  BY <1>1, <1>10
<1> QED  BY <1>1, <1>11, <1>12

\* The compact list buf has the fields of the peers of found, one by one.
Packs(buf, found) ==
    /\ buf \in Seq(FieldSet) /\ found \in Seq(PeerSet)
    /\ Len(buf) = 2 * Len(found)
    /\ \A k \in 1 .. Len(found) : found[k] = [ip |-> buf[2 * k - 1], port |-> buf[2 * k]]

\* One peer more.
LEMMA PacksOneMore ==
    ASSUME NEW buf, NEW found, Packs(buf, found), NEW p \in PeerSet
    PROVE  Packs(buf \o Fields(p), Found(found, p))
<1>1. /\ buf \in Seq(FieldSet) /\ found \in Seq(PeerSet)
      /\ \A k \in 1 .. Len(found) : found[k] = [ip |-> buf[2 * k - 1], port |-> buf[2 * k]]
  BY DEF Packs
<1>2. PICK m \in Nat : m = Len(found) /\ Len(buf) = 2 * m
  BY <1>1 DEF Packs
<1>3. CASE p.ip \notin IPv4
  <2>1. Fields(p) = <<>> /\ Found(found, p) = found
    BY <1>3 DEF Fields, Found
  <2>2. buf \o <<>> = buf
    BY <1>1
  <2> QED  BY <2>1, <2>2
<1>4. CASE p.ip \in IPv4
  <2>1. PICK a \in FieldSet, b \in FieldSet : a = p.ip /\ b = p.port /\ p = [ip |-> a, port |-> b]
    BY PeersAreFields DEF IsPeer
  <2>2. PICK u, g : u = buf \o <<a, b>> /\ g = Append(found, p)
    OBVIOUS
  <2>3. Fields(p) = <<a, b>> /\ Found(found, p) = g
    BY <1>4, <2>1, <2>2 DEF Fields, Found
  <2>4. /\ u \in Seq(FieldSet) /\ Len(u) = 2 * m + 2
        /\ u[2 * m + 1] = a /\ u[2 * m + 2] = b /\ \A j \in 1 .. 2 * m : u[j] = buf[j]
    <3>1. <<a, b>> \in Seq(FieldSet) /\ Len(<<a, b>>) = 2 /\ <<a, b>>[1] = a /\ <<a, b>>[2] = b
      OBVIOUS
    <3>2. PICK c \in Seq(FieldSet) : c = <<a, b>> /\ Len(c) = 2 /\ c[1] = a /\ c[2] = b
      BY <3>1
    <3>3. u = buf \o c
      BY <2>2, <3>2
    <3>4. PICK x \in Nat : x = 2 * m
      OBVIOUS
    <3>5. Len(buf) = x
      BY <1>2, <3>4
    <3>6. u \in Seq(FieldSet) /\ Len(u) = x + 2
      BY <1>1, <3>2, <3>3, <3>5
    <3>7. u[x + 1] = c[1] /\ u[x + 2] = c[2] /\ \A j \in 1 .. x : u[j] = buf[j]
      BY <1>1, <3>2, <3>3, <3>5
    <3> QED  BY <3>2, <3>4, <3>6, <3>7
  <2>5. g \in Seq(PeerSet) /\ Len(g) = m + 1 /\ g[m + 1] = p /\ \A k \in 1 .. m : g[k] = found[k]
    BY <1>1, <1>2, <2>2
  <2>6. ASSUME NEW k \in 1 .. m + 1 PROVE g[k] = [ip |-> u[2 * k - 1], port |-> u[2 * k]]
    <3>1. CASE k = m + 1
      <4>1. 2 * k - 1 = 2 * m + 1 /\ 2 * k = 2 * m + 2
        BY <3>1
      <4> QED  BY <2>1, <2>4, <2>5, <3>1, <4>1
    <3>2. CASE k \in 1 .. m
      <4>1. 2 * k - 1 \in 1 .. 2 * m /\ 2 * k \in 1 .. 2 * m
        BY <3>2
      <4>2. u[2 * k - 1] = buf[2 * k - 1] /\ u[2 * k] = buf[2 * k]
        BY <2>4, <4>1
      <4>3. found[k] = [ip |-> buf[2 * k - 1], port |-> buf[2 * k]]
        BY <1>1, <1>2, <3>2
      <4> QED  BY <2>5, <3>2, <4>2, <4>3
    <3> QED  BY <3>1, <3>2
  <2>7. Len(u) = 2 * Len(g)
    BY <2>4, <2>5
  <2>8. Packs(u, g)
    BY <2>4, <2>5, <2>6, <2>7 DEF Packs
  <2> QED  BY <2>2, <2>3, <2>8
<1> QED  BY <1>3, <1>4

\* What a node decodes from a compact list are the peers that are packed.
LEMMA PackedDecodes ==
    ASSUME NEW buf, NEW found, Packs(buf, found)
    PROVE  DecodeCompact(buf) = found
<1>1. found \in Seq(PeerSet)
  BY DEF Packs
<1>2. PICK m \in Nat : m = Len(found)
  BY <1>1
<1>3. Len(buf) \div 2 = m
  <2>1. Len(buf) = 2 * m
    BY <1>2 DEF Packs
  <2>2. (2 * m) \div 2 = m
    OBVIOUS
  <2> QED  BY <2>1, <2>2
<1>4. found = [k \in 1 .. m |-> found[k]]
  BY <1>1, <1>2
<1>5. \A k \in 1 .. m : found[k] = [ip |-> buf[2 * k - 1], port |-> buf[2 * k]]
  BY <1>2 DEF Packs
<1> QED  BY <1>3, <1>4, <1>5 DEF DecodeCompact

\* decodePeers undoes encodePeerList, but for the peers without an IPv4 address.
LEMMA RoundTrip ==
    ASSUME NEW list \in Seq(PeerSet)
    PROVE  DecodeCompact(EncodePeerList(list)) = IPv4Peers(list)[Len(list)]
<1>1. PICK L \in Nat : L = Len(list)
  OBVIOUS
<1>2. PICK f : /\ f[0] = <<>>
               /\ \A n \in 1 .. L : f[n] = f[n - 1] \o Fields(list[n])
               /\ EncodePeerList(list) = f[L]
  BY <1>1, BufLoop
<1>3. PICK found : found = IPv4Peers(list)
  OBVIOUS
<1>4. found[0] = <<>> /\ \A n \in 1 .. L : found[n] = Found(found[n - 1], list[n])
  BY <1>1, <1>3, FoundLoop
<1> DEFINE good == {n \in 0 .. L : Packs(f[n], found[n])}
<1>5. good = 0 .. L
  <2>1. good \in SUBSET (0 .. L)
    OBVIOUS
  <2>2. 0 \in good
    <3>1. Packs(<<>>, <<>>)
      BY DEF Packs
    <3> QED  BY <1>2, <1>4, <3>1
  <2>3. ASSUME NEW n \in 1 .. L, n - 1 \in good PROVE n \in good
    <3>1. Packs(f[n - 1], found[n - 1])
      BY <2>3
    <3>2. list[n] \in PeerSet
      BY <1>1
    <3>3. Packs(f[n - 1] \o Fields(list[n]), Found(found[n - 1], list[n]))
      BY <3>1, <3>2, PacksOneMore
    <3>4. f[n] = f[n - 1] \o Fields(list[n]) /\ found[n] = Found(found[n - 1], list[n])
      BY <1>2, <1>4, Zenon
    <3>5. Packs(f[n], found[n])
      BY <3>3, <3>4, Zenon
    <3>6. n \in 0 .. L
      OBVIOUS
    <3> QED  BY <3>5, <3>6
  <2> HIDE DEF good
  <2> QED  BY <2>1, <2>2, <2>3, LoopInvariant
<1>6. Packs(f[L], found[L])
  BY <1>5
<1>7. DecodeCompact(f[L]) = found[L]
  BY <1>6, PackedDecodes
<1> QED  BY <1>1, <1>2, <1>3, <1>7

Prefix(list, more) ==
    Len(list) <= Len(more) /\ \A k \in 1 .. Len(list) : more[k] = list[k]

\* The peers found among the first ones are the same in a longer list.
LEMMA PrefixFound ==
    ASSUME NEW list \in Seq(PeerSet), NEW more \in Seq(PeerSet), Prefix(list, more)
    PROVE  \A n \in 0 .. Len(list) : n \in 0 .. Len(more) /\ IPv4Peers(more)[n] = IPv4Peers(list)[n]
<1>1. PICK L \in Nat, M \in Nat : L = Len(list) /\ M = Len(more) /\ L <= M
  BY DEF Prefix
<1>2. PICK f, g : f = IPv4Peers(list) /\ g = IPv4Peers(more)
  OBVIOUS
<1>3. /\ f[0] = <<>> /\ \A n \in 1 .. L : f[n] = Found(f[n - 1], list[n])
      /\ g[0] = <<>> /\ \A n \in 1 .. M : g[n] = Found(g[n - 1], more[n])
  BY <1>1, <1>2, FoundLoop
<1> DEFINE good == {n \in 0 .. L : g[n] = f[n]}
<1>4. good = 0 .. L
  <2>1. good \in SUBSET (0 .. L) /\ 0 \in good
    BY <1>3
  <2>2. ASSUME NEW n \in 1 .. L, n - 1 \in good PROVE n \in good
    <3>1. n \in 0 .. L /\ n \in 1 .. M
      BY <1>1
    <3>2. g[n - 1] = f[n - 1] /\ more[n] = list[n]
      BY <1>1, <2>2 DEF Prefix
    <3>3. g[n] = f[n]
      BY <1>3, <3>1, <3>2
    <3> QED  BY <3>1, <3>3
  <2> HIDE DEF good
  <2> QED  BY <2>1, <2>2, LoopInvariant
<1>5. \A n \in 0 .. L : g[n] = f[n] /\ n \in 0 .. M
  BY <1>1, <1>4
<1> QED  BY <1>1, <1>2, <1>5

\* The handler of a query has read a prefix of c.peers, and its answer is true.
ServingInv ==
    /\ serving.step = "look" => serving.known \in Seq(PeerSet) /\ Prefix(serving.known, peers)
    /\ RepliesTrue

\* No step takes a peer or a node out of the tables.
LEMMA TablesGrow ==
    ASSUME QueryInv, ResponseInv, FlowInv, [Next]_vars
    PROVE  /\ peers \in Seq(PeerSet) /\ peers' \in Seq(PeerSet)
           /\ Prefix(peers, peers') /\ nodes \subseteq nodes'
<1>1. peers \in Seq(PeerSet)
  BY DEF FlowInv
<1>2. FlowInv'
  BY FlowStep
<1>3. peers' \in Seq(PeerSet)
  BY <1>2 DEF FlowInv
<1> SUFFICES Prefix(peers, peers') /\ nodes \subseteq nodes'
  BY <1>1, <1>3
<1>4. Prefix(peers, peers)
  <2>1. Len(peers) \in Nat
    BY <1>1
  <2> QED  BY <2>1 DEF Prefix
<1>5. CASE NodeAnswered
  <2>1. PICK d : d = DecodePeers(Response.r.values)
    OBVIOUS
  <2>2. cur # None /\ box[cur] # <<>> /\ peers' = peers \o d /\ UNCHANGED nodes
    BY <1>5, <2>1 DEF NodeAnswered, Answered
  <2>3. d \in Seq(PeerSet)
    BY <2>1, <2>2, AnswerDecoded
  <2>4. Len(peers) <= Len(peers') /\ \A k \in 1 .. Len(peers) : peers'[k] = peers[k]
    BY <1>1, <2>2, <2>3
  <2> QED  BY <1>1, <1>3, <2>2, <2>4 DEF Prefix
<1>6. ASSUME UNCHANGED peers, nodes \subseteq nodes'
      PROVE  Prefix(peers, peers') /\ nodes \subseteq nodes'
  BY <1>4, <1>6
<1>7. CASE ListenFails \/ ListenOK \/ Ping \/ PingSendFails \/ PingAnswered \/ PingTimeout \/ StartSearch
           \/ ReadPeer \/ StopReading \/ CloseDone \/ CloseConn
  BY <1>6, <1>7 DEF ListenFails, ListenOK, Ping, PingSendFails, PingAnswered, PingTimeout, StartSearch,
                    ReadPeer, StopReading, CloseDone, CloseConn
<1>8. ASSUME NEW addr, AskNode(addr) \/ AskFails(addr) PROVE Prefix(peers, peers') /\ nodes \subseteq nodes'
  BY <1>6, <1>8 DEF AskNode, AskFails
<1>9. CASE NodeTimeout \/ OfferPeer \/ AddNodes \/ EndSearch
  BY <1>6, <1>9 DEF NodeTimeout, OfferPeer, AddNodes, EndSearch
<1>10. CASE RecvLoopEnds \/ Reply \/ SendReply \/ UNCHANGED vars
  BY <1>6, <1>10 DEF RecvLoopEnds, Reply, SendReply, vars
<1>11. ASSUME NEW n, Receive(n) PROVE Prefix(peers, peers') /\ nodes \subseteq nodes'
  BY <1>6, <1>11 DEF Receive
<1>12. ASSUME NEW h, Handle(h) PROVE Prefix(peers, peers') /\ nodes \subseteq nodes'
  BY <1>6, <1>12 DEF Handle
<1>13. ASSUME NEW q, ReceiveQuery(q) PROVE Prefix(peers, peers') /\ nodes \subseteq nodes'
  BY <1>6, <1>13 DEF ReceiveQuery
<1>14. CASE Search
  BY <1>5, <1>8, <1>9, <1>14 DEF Search
<1>15. CASE Caller
  BY <1>7, <1>15 DEF Caller
<1> QED
  BY <1>10, <1>11, <1>12, <1>13, <1>14, <1>15 DEF Next, Terminating

\* Every step but those of the handler leaves it alone.
LEMMA ServingAlone ==
    ASSUME [Next]_vars
    PROVE  \/ UNCHANGED serving
           \/ \E q \in {"ping", "find_node", "get_peers"} : ReceiveQuery(q)
           \/ Reply \/ SendReply
<1>1. CASE Search
  BY <1>1 DEF Search, recvVars
<1>2. CASE Caller
  BY <1>2 DEF Caller, ListenFails, ListenOK, Ping, PingSendFails, PingAnswered, PingTimeout, StartSearch,
              ReadPeer, StopReading, CloseDone, CloseConn, recvVars
<1>3. CASE RecvLoopEnds \/ UNCHANGED vars
  BY <1>3 DEF RecvLoopEnds, vars, recvVars
<1>4. ASSUME NEW n, Receive(n) PROVE UNCHANGED serving
  BY <1>4 DEF Receive
<1>5. ASSUME NEW h, Handle(h) PROVE UNCHANGED serving
  BY <1>5 DEF Handle, FindQuery, Deliver
<1> QED  BY <1>1, <1>2, <1>3, <1>4, <1>5 DEF Next, Terminating

\* A list without peers is packed as nothing.
LEMMA NothingPacked == DecodeCompact(<<>>) = <<>>
<1>1. Packs(<<>>, <<>>)
  BY DEF Packs
<1> QED  BY <1>1, PackedDecodes

\* ServingInv is inductive: an answer stays true while the tables grow.
LEMMA ServingStep == ClientInv /\ ServingInv /\ [Next]_vars => ServingInv'
<1> SUFFICES ASSUME ClientInv, ServingInv, [Next]_vars PROVE ServingInv'
  OBVIOUS
<1>1. /\ peers \in Seq(PeerSet) /\ peers' \in Seq(PeerSet) /\ Len(peers) \in Nat /\ Len(peers') \in Nat
      /\ Prefix(peers, peers') /\ nodes \subseteq nodes'
  BY TablesGrow DEF ClientInv
<1>2. CASE UNCHANGED serving
  <2>1. ASSUME serving.step = "look" PROVE serving.known \in Seq(PeerSet) /\ Prefix(serving.known, peers')
    <3>1. PICK known \in Seq(PeerSet) : known = serving.known /\ Prefix(known, peers)
      BY <2>1 DEF ServingInv
    <3>2. Len(known) \in Nat
      BY <3>1
    <3>3. Len(known) <= Len(peers) /\ Len(peers) <= Len(peers')
      BY <1>1, <3>1 DEF Prefix
    <3>4. \A k \in 1 .. Len(known) : k \in 1 .. Len(peers)
      BY <1>1, <3>2, <3>3
    <3>5. \A k \in 1 .. Len(known) : peers'[k] = known[k]
      BY <1>1, <3>1, <3>4 DEF Prefix
    <3>6. Len(known) <= Len(peers')
      BY <1>1, <3>2, <3>3
    <3> QED  BY <3>1, <3>5, <3>6 DEF Prefix
  <2>2. ASSUME serving.step = "send"
        PROVE  /\ \E n \in 0 .. Len(peers') : DecodeCompact(serving.values) = IPv4Peers(peers')[n]
               /\ serving.nodes \subseteq nodes' /\ Cardinality(serving.nodes) <= MaxClosest
    <3>1. /\ \E n \in 0 .. Len(peers) : DecodeCompact(serving.values) = IPv4Peers(peers)[n]
          /\ serving.nodes \subseteq nodes /\ Cardinality(serving.nodes) <= MaxClosest
      BY <2>2 DEF ServingInv, RepliesTrue
    <3>2. PICK n \in 0 .. Len(peers) : DecodeCompact(serving.values) = IPv4Peers(peers)[n]
      BY <3>1
    <3>3. n \in 0 .. Len(peers') /\ IPv4Peers(peers')[n] = IPv4Peers(peers)[n]
      BY <1>1, PrefixFound
    <3> QED  BY <1>1, <3>1, <3>2, <3>3
  <2> QED  BY <1>2, <2>1, <2>2 DEF ServingInv, RepliesTrue
<1>3. ASSUME NEW q, ReceiveQuery(q) PROVE ServingInv'
  <2>1. UNCHANGED <<peers, nodes>>
    BY <1>3 DEF ReceiveQuery
  <2>2. <<>> \in Seq(PeerSet) /\ Prefix(<<>>, peers) /\ Prefix(peers, peers)
    <3>1. <<>> \in Seq(PeerSet) /\ Len(<<>>) = 0
      OBVIOUS
    <3> QED  BY <1>1, <3>1 DEF Prefix
  <2>3. CASE serving' = [step |-> "send", values |-> <<>>, nodes |-> {}]
    <3>1. serving'.step = "send" /\ serving'.values = <<>> /\ serving'.nodes = {}
      BY <2>3
    <3>2. DecodeCompact(<<>>) = IPv4Peers(peers')[0]
      BY <1>1, NothingPacked, FoundLoop
    <3>3. 0 \in 0 .. Len(peers')
      BY <1>1
    <3>4. Cardinality({}) <= MaxClosest
      BY FS_EmptySet, DHTAssumption
    <3> QED  BY <3>1, <3>2, <3>3, <3>4 DEF ServingInv, RepliesTrue
  <2>4. ASSUME NEW known \in {peers, <<>>}, serving' = [step |-> "look", known |-> known] PROVE ServingInv'
    <3>1. serving'.step = "look" /\ serving'.known = known
      BY <2>4
    <3>2. known \in Seq(PeerSet) /\ Prefix(known, peers')
      BY <1>1, <2>1, <2>2, <2>4
    <3> QED  BY <3>1, <3>2 DEF ServingInv, RepliesTrue
  <2> QED  BY <1>3, <2>3, <2>4 DEF ReceiveQuery
<1>4. CASE Reply
  <2>1. serving.step = "look" /\ UNCHANGED <<peers, nodes>>
    BY <1>4 DEF Reply
  <2>2. PICK closest \in ClosestNodes :
           serving' = [step |-> "send", values |-> EncodePeerList(serving.known),
                       nodes |-> IF serving.known # <<>> THEN {} ELSE closest \cap ByAddress]
    BY <1>4 DEF Reply
  <2>3. PICK known \in Seq(PeerSet) : known = serving.known /\ Prefix(known, peers)
    BY <2>1 DEF ServingInv
  <2>4. PICK list : list = EncodePeerList(known)
    OBVIOUS
  <2>5. PICK near : near = IF known # <<>> THEN {} ELSE closest \cap ByAddress
    OBVIOUS
  <2>6. serving' = [step |-> "send", values |-> list, nodes |-> near]
    BY <2>2, <2>3, <2>4, <2>5
  <2>7. serving'.step = "send" /\ serving'.values = list /\ serving'.nodes = near
    BY <2>6
  <2>8. PICK n \in 0 .. Len(peers') : DecodeCompact(list) = IPv4Peers(peers')[n]
    <3>1. Len(known) \in 0 .. Len(known)
      BY <2>3
    <3>2. Len(known) \in 0 .. Len(peers) /\ IPv4Peers(peers)[Len(known)] = IPv4Peers(known)[Len(known)]
      BY <1>1, <2>3, <3>1, PrefixFound
    <3>3. DecodeCompact(list) = IPv4Peers(known)[Len(known)]
      BY <2>3, <2>4, RoundTrip
    <3> QED  BY <2>1, <3>2, <3>3
  <2>9. near \subseteq nodes /\ Cardinality(near) <= MaxClosest
    <3>1. IsFiniteSet(nodes)
      BY QueriesBound, FS_Subset DEF ClientInv, NodesInv
    <3>2. closest \subseteq nodes /\ near \subseteq closest
      BY <2>5 DEF ClosestNodes
    <3>3. Cardinality(nodes) \in Nat /\ MaxClosest \in Nat
      BY <3>1, FS_CardinalityType, DHTAssumption
    <3>4. Cardinality(closest) <= MaxClosest
      BY <3>3 DEF ClosestNodes
    <3>5. IsFiniteSet(closest)
      BY <3>1, <3>2, FS_Subset
    <3>6. Cardinality(near) <= Cardinality(closest) /\ IsFiniteSet(near)
      BY <3>2, <3>5, FS_Subset
    <3>7. Cardinality(near) \in Nat /\ Cardinality(closest) \in Nat
      BY <3>5, <3>6, FS_CardinalityType
    <3> QED  BY <3>2, <3>3, <3>4, <3>6, <3>7
  <2> QED  BY <2>1, <2>7, <2>8, <2>9 DEF ServingInv, RepliesTrue
<1>5. CASE SendReply
  <2>1. serving'.step = "idle"
    BY <1>5 DEF SendReply, Idle
  <2> QED  BY <2>1 DEF ServingInv, RepliesTrue
<1> QED  BY <1>2, <1>3, <1>4, <1>5, ServingAlone

-----------------------------------------------------------------------------
(* The theorems                                                            *)

\* The four invariants hold at the start.
LEMMA ClientInit == Init => ClientInv
<1> SUFFICES ASSUME Init PROVE ClientInv
  OBVIOUS
<1>1. asked = <<>> /\ cur = 0 /\ next = 1 /\ caller = "listen" /\ search = "none"
  BY DEF Init, None
<1>2. asked \in Seq(QueryType) /\ Len(asked) = 0
  BY <1>1
<1>3. QueryInv
  BY <1>1, <1>2, QueriesBound DEF Init, QueryInv, RoomForQueries, TableExact, None
<1>4. NodesInv
  BY DEF Init, NodesInv
<1>5. ResponseInv
  BY DEF Init, ResponseInv
<1>6. FlowInv
  BY DEF Init, FlowInv, Flow, FlowOf
<1> QED  BY <1>3, <1>4, <1>5, <1>6 DEF ClientInv

\* ClientInv is inductive.
LEMMA ClientStep == ClientInv /\ [Next]_vars => ClientInv'
  BY QueryStep, NodesStep, ResponseStep, FlowStep DEF ClientInv

\* The transaction table of the client has the open query and nothing else.
THEOREM TableExactHolds == Spec => []TableExact
<1>1. ClientInv => TableExact
  BY DEF ClientInv, QueryInv
<1> QED  BY <1>1, ClientInit, ClientStep, PTL DEF Spec

\* No late, repeated or stray response completes a query with another
\* transaction id.
THEOREM AnswersMatchHolds == Spec => []AnswersMatch
<1>1. ClientInv => AnswersMatch
  <2> SUFFICES ASSUME ClientInv, cur # None, box[cur] # <<>>
               PROVE  asked[Response.n].tid = asked[cur].tid
    BY DEF AnswersMatch
  <2>1. cur \in Serials
    BY QueriesBound DEF ClientInv, QueryInv, RoomForQueries, Serials, None
  <2>2. SameTid(box[cur][1].n, cur)
    BY <2>1 DEF ClientInv, ResponseInv
  <2> QED  BY <2>2 DEF SameTid, Response
<1> QED  BY <1>1, ClientInit, ClientStep, PTL DEF Spec

\* Every peer that c.peers has and the channel had room for is on its way or
\* has been read, in its order; after an overflow the first ChanCap of them.
THEOREM NothingDroppedHolds == Spec => []NothingDropped
<1>1. ClientInv => NothingDropped
  <2> SUFFICES ASSUME ClientInv PROVE NothingDropped
    OBVIOUS
  <2>1. /\ peers \in Seq(PeerSet) /\ offer \in Seq(PeerSet) /\ dhtPeers \o ch \in Seq(PeerSet)
        /\ ChanCap \in Nat
    BY DHTAssumption DEF ClientInv, FlowInv
  <2>2. CASE dhtPeers \o ch \o offer = peers
    BY <2>1, <2>2 DEF NothingDropped
  <2>3. CASE Overflown(dhtPeers \o ch, peers)
    <3>1. PICK flow \in Seq(PeerSet) : flow = dhtPeers \o ch
      BY <2>1
    <3>2. Len(flow \o offer) >= ChanCap
      BY <2>1, <2>3, <3>1 DEF Overflown
    <3>3. \A i \in 1 .. ChanCap : (flow \o offer)[i] = flow[i]
      BY <2>1, <2>3, <3>1 DEF Overflown
    <3> QED  BY <2>1, <2>3, <3>1, <3>2, <3>3 DEF NothingDropped, Overflown
  <2> QED  BY <2>2, <2>3 DEF ClientInv, FlowInv, Flow, FlowOf
<1> QED  BY <1>1, ClientInit, ClientStep, PTL DEF Spec

\* What another node decodes from an answer of ours are the first peers of
\* c.peers that have an IPv4 address, in their order, or else nodes of c.nodes,
\* although both tables grow while handleQuery puts the answer together.
THEOREM RepliesTrueHolds == Spec => []RepliesTrue
<1>1. Init => ServingInv
  BY DEF Init, Idle, ServingInv, RepliesTrue
<1>2. ServingInv => RepliesTrue
  BY DEF ServingInv
<1> QED  BY <1>1, <1>2, ClientInit, ClientStep, ServingStep, PTL DEF Spec
=============================================================================
