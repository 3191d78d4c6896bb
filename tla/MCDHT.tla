------------------------------- MODULE MCDHT --------------------------------
(* Instances of DHT for TLC.                                               *)
EXTENDS DHT

CONSTANTS n1, n2, t1, t2

TwoNodes  == {n1, n2}
Bootstrap == <<n1, n2>>
Numeric   == {n2}
IPv4Addrs == {"a", "b"}

\* A compact list with a part of a peer behind it, and a list of dictionaries
\* with an address that is not IPv4 and more peers than the channel has room for.
Values    == {[compact |-> TRUE, data |-> <<"a", 1, "b">>],
              [compact |-> FALSE, data |-> <<[ip |-> "six", port |-> 1],
                                             [ip |-> "b", port |-> 2],
                                             [ip |-> "a", port |-> 2]>>]}
NodeSets  == {{n2}}
TwoTids   == {t1, t2}
=============================================================================
