------------------------------ MODULE MCClient ------------------------------
(* Instances of Client for TLC.                                            *)
EXTENDS Client

Link(hash) ==
    [scheme |-> TRUE, query |-> TRUE, xt |-> TRUE, urn |-> TRUE, hash |-> hash]

\* Base32 over a letter of each case and a digit, and with a character it does
\* not have in each place; hex with every digit of three pairs in every place.
Base32Texts == [1 .. 8 -> {"b", "V", "7"}]
                   \cup {[[k \in 1 .. 8 |-> "7"] EXCEPT ![j] = "1"] : j \in 1 .. 8}
HexTexts == {[k \in 1 .. 10 |-> s[(k + 1) \div 2][2 - (k % 2)]] :
                s \in [1 .. 5 -> {<<"0", "9">>, <<"F", "a">>, <<"1", "G">>}]}
Broken(field) == [Link(<<"A", "A", "A", "A", "A", "A", "A", "A">>) EXCEPT ![field] = FALSE]

SomeLinks ==
    {Link(s) : s \in Base32Texts \cup HexTexts \cup {<<>>, <<"A", "A">>}}
        \cup {Broken(f) : f \in {"scheme", "query", "xt", "urn"}}
        \cup {NoArgument}

SomePieces == {{}, {1}, {1, 2}, {1, 2, 3}}
=============================================================================
