---------------------------- MODULE MCDiscovery -----------------------------
(* Instances of Discovery for TLC.                                         *)
EXTENDS Discovery, TLC

CONSTANTS t1, t2, t3

AllSchemes == {t1, t2, t3}
Schemes    == (t1 :> "http") @@ (t2 :> "udp") @@ (t3 :> "wss")

AllAddrs == {<<"a", 1>>, <<"b", 1>>, <<"b", 0>>, <<NilIP, 1>>}

\* Two texts of one address; "x" and "y" are none.
Texts == ("a" :> "a") @@ ("b" :> "b") @@ ("b'" :> "b")

\* HTTP: a failure, a compact list that is cut, an empty one, and a list of
\* dictionaries with entries to skip, a port that does not fit, two texts of one
\* address and two that are none.
Entry(ip, port) == [ip |-> ip, port |-> port]
Bodies == {[type |-> "failure"],
           [type |-> "compact", peers |-> <<"a", 1, "b">>],
           [type |-> "compact", peers |-> <<>>],
           [type |-> "dict", peers |-> <<Entry("b", 1), Entry("", 1), Entry("a", 0),
                                         Entry("b", PortMod)>>],
           [type |-> "dict", peers |-> <<Entry("x", 1), Entry("b'", 1), Entry("y", 1)>>]}

\* UDP: one peer, twice the same, and more than the buffer holds.
Compact == {<<"a", 1>>, <<"b", 1, "b", 1>>, <<"a", 1, "b", 1, "a", 1>>, <<"a">>}
Stale   == {<<"connect", "tx0", "old", "old">>,
            <<"announce", "tx0", "interval", "leechers", "seeders", "b", 1>>}

FromDHT == {<<>>, <<Peer("b", 4, 1), Peer("a", 16, 1), Peer(NilIP, 0, 1)>>}
=============================================================================
