------------------------------ MODULE Tracker -------------------------------
(***************************************************************************)
(* Package tracker: Announce for each tracker of the magnet link, over     *)
(* HTTP or over the connect and announce exchange of UDP, whose datagrams  *)
(* may be lost, repeated, reordered or left from an earlier exchange.      *)
(*                                                                         *)
(* A datagram is a sequence of fields; a compact peer is two of them, the  *)
(* address and the port.  The transaction ids of one exchange and those of *)
(* earlier ones are taken to be distinct.                                  *)
(***************************************************************************)
EXTENDS Integers, Sequences, FiniteSets

CONSTANTS
    Trackers,       \* Magnet.Trackers
    Scheme,         \* of each tracker's URL: "http", "udp" or another one
    HTTPBodies,     \* the answers of HTTP trackers
    CompactLists,   \* the peer data of UDP answers
    StaleDatagrams, \* what earlier exchanges may have left on the way
    ParsedIP,       \* net.ParseIP: the texts that are an address, and which one
    PeerRoom,       \* fields of peer data the buffer has room for: two a peer,
                    \* (2048 - 20) / 3 in the code
    PortMod         \* 2^16 in the code

\* What arrives from the net is a sequence.
IsSeq(s) == Len(s) \in Nat /\ s = [i \in 1 .. Len(s) |-> s[i]]

ASSUME TrackerAssumption ==
    /\ IsFiniteSet(Trackers)
    /\ \A body \in HTTPBodies : body.type \in {"compact", "dict"} => IsSeq(body.peers)
    /\ \A list \in CompactLists : IsSeq(list)
    /\ \A d \in StaleDatagrams :
          IsSeq(d) /\ \A i \in {1, 2} : i <= Len(d) => d[i] # "tx1"
    /\ PeerRoom \in Nat
    /\ PortMod \in Nat \ {0}

VARIABLES
    apc,        \* program point of Announce
    net,        \* the datagrams on their way to the socket
    resp,       \* the buffer of udpConnectHandshake
    connID,     \* connectionID
    outcome     \* what Announce returns

trackerVars == <<apc, net, resp, connID, outcome>>

Error == [err |-> TRUE, peers |-> <<>>]
OK(peers) == [err |-> FALSE, peers |-> peers]

-----------------------------------------------------------------------------
(* netaddr.Peer, and the formats of a peer list                            *)

\* An IP is kept in 4 bytes, or in 16 when it comes from net.ParseIP, or it is
\* nil.
Peer(ip, width, port) == [ip |-> ip, width |-> width, port |-> port]

\* net.ParseIP returns nil for a text that is no address: nobody looks at it,
\* and String prints "<nil>".
NilIP == "<nil>"
ParseIP(text, port) ==
    IF text \in DOMAIN ParsedIP THEN Peer(ParsedIP[text], 16, port)
                                ELSE Peer(NilIP, 0, port)

\* Addr prints both widths alike, and all nil ones.
Addr(p) == <<p.ip, p.port>>

ParseCompactPeers(data) ==
    IF Len(data) % 2 # 0 THEN Error
    ELSE OK([i \in 1 .. Len(data) \div 2 |->
               Peer(data[2 * i - 1], 4, data[2 * i])])

\* Entries without an address or with port 0 are skipped; the port is cut to
\* 16 bits after that.  An address that cannot be parsed is kept as nil.
AddEntry(peers, d) ==
    IF d.ip = "" \/ d.port = 0 THEN peers
                               ELSE Append(peers, ParseIP(d.ip, d.port % PortMod))
ParseDictPeers(list) ==
    LET peers[n \in 0 .. Len(list)] ==
          IF n = 0 THEN <<>> ELSE AddEntry(peers[n - 1], list[n])
    IN  OK(peers[Len(list)])

\* parseHTTPResponse and parsePeers.
ParseHTTPResponse(body) ==
    CASE body.type = "compact" -> ParseCompactPeers(body.peers)
      [] body.type = "dict"    -> ParseDictPeers(body.peers)
      [] OTHER                 -> Error     \* no dictionary, failure, no peers

-----------------------------------------------------------------------------
(* Announce                                                                *)

TrackerInit ==
    /\ apc = [t \in Trackers |-> "start"]
    /\ net \in [Trackers -> SUBSET StaleDatagrams]
    /\ \A t \in Trackers : Scheme[t] # "udp" => net[t] = {}
    /\ resp = [t \in Trackers |-> <<>>]
    /\ connID = [t \in Trackers |-> "none"]
    /\ outcome = [t \in Trackers |-> Error]

\* Announce returns, and the socket is closed.
Return(t, result) ==
    /\ apc' = [apc EXCEPT ![t] = "returned"]
    /\ outcome' = [outcome EXCEPT ![t] = result]
    /\ net' = [net EXCEPT ![t] = {}]
    /\ resp' = [resp EXCEPT ![t] = <<>>]
    /\ connID' = [connID EXCEPT ![t] = "none"]

\* The switch on the scheme; over UDP, DialTimeout and the connect request.
Announce(t) ==
    /\ apc[t] = "start"
    /\ IF Scheme[t] \in {"http", "udp"}
       THEN /\ apc' = [apc EXCEPT ![t] = IF Scheme[t] = "http" THEN "http"
                                                              ELSE "connect"]
            /\ UNCHANGED <<net, resp, connID, outcome>>
       ELSE Return(t, Error)

\* A failed lookup, dial, write or read, or a deadline: 15 s, 5 s for the dial.
AnnounceFails(t) ==
    /\ apc[t] \in {"http", "connect", "announce"}
    /\ Return(t, Error)

HTTPAnswered(t, body) ==
    /\ apc[t] = "http"
    /\ Return(t, ParseHTTPResponse(body))

Take(s, n) == SubSeq(s, 1, IF Len(s) < n THEN Len(s) ELSE n)

Accepted_AnyTransaction(r) == r[1] = "connect"
Accepted(r) == r[1] = "connect" /\ r[2] = "tx1"

\* io.ReadFull: datagrams are put together until 16 bytes are there, and what
\* is longer is cut.  Then the announce request is sent.
RecvConnect(t, d) ==
    /\ apc[t] = "connect"
    /\ d \in net[t]
    /\ LET r == Take(resp[t] \o d, 4) IN
       IF Len(r) = 4 /\ ~Accepted(r)
       THEN Return(t, Error)
       ELSE /\ net' = [net EXCEPT ![t] = @ \ {d}]
            /\ resp' = [resp EXCEPT ![t] = IF Len(r) < 4 THEN r ELSE <<>>]
            /\ apc' = [apc EXCEPT ![t] = IF Len(r) < 4 THEN @ ELSE "announce"]
            /\ connID' = [connID EXCEPT ![t] = IF Len(r) < 4 THEN @ ELSE r[3]]
            /\ UNCHANGED outcome

BufferLen == 5 + PeerRoom

\* One Read.  The transaction id of the answer is not looked at.
ParseAnnounce(d) ==
    LET r == Take(d, BufferLen)
    IN  IF Len(r) < 5 \/ r[1] # "announce" THEN Error
        ELSE ParseCompactPeers(SubSeq(r, 6, Len(r)))

RecvAnnounce(t, d) ==
    /\ apc[t] = "announce"
    /\ d \in net[t]
    /\ Return(t, ParseAnnounce(d))

-----------------------------------------------------------------------------
(* The trackers (external).  An answer that is not read is lost; one that   *)
(* is sent again is a repeated datagram.                                   *)

ConnectResponse == <<"connect", "tx1", "id", "id">>
AnnounceResponse(list) == <<"announce", "tx2", "interval", "leechers", "seeders">> \o list

TrackerSends(t) ==
    /\ Scheme[t] = "udp"
    /\ \E d \in {ConnectResponse, <<"error", "tx1">>} \cup
                (IF apc[t] = "announce" /\ connID[t] = "id"
                 THEN {AnnounceResponse(list) : list \in CompactLists} ELSE {}) :
          net' = [net EXCEPT ![t] = @ \cup {d}]
    /\ apc[t] \in {"connect", "announce"}
    /\ UNCHANGED <<apc, resp, connID, outcome>>

TrackerClient(t) ==
    \/ Announce(t) \/ AnnounceFails(t)
    \/ \E body \in HTTPBodies : HTTPAnswered(t, body)
    \/ \E d \in net[t] : RecvConnect(t, d) \/ RecvAnnounce(t, d)

-----------------------------------------------------------------------------
(* Properties                                                              *)

\* The announce request carries the connection id that the tracker has issued
\* in this exchange, whatever an earlier one has left on the way and however
\* ReadFull puts datagrams together.
ConnectionOfThisExchange ==
    \A t \in Trackers : apc[t] = "announce" => connID[t] = "id"
=============================================================================
