------------------------------- MODULE MCWire -------------------------------
(* Instances of Wire for TLC.                                              *)
EXTENDS Wire

\* The values: a data message, a request, one without a piece, one with keys
\* that are not in order and a nested part, and some that are no dictionary.
D(m, p)  == DictVal((<<"m">> :> IntVal(m)) @@ (<<"p">> :> IntVal(p)))
Strings  == {StrVal(<<>>), StrVal(<<"e">>)}
Ints     == {IntVal(n) : n \in {-1, 0, 1, 12}}
Nested   == DictVal((<<"p">> :> IntVal(12)) @@ (<<"m">> :> IntVal(1)) @@
                    (<<"m", "e">> :> StrVal(<<"e">>)))
NoPiece  == DictVal(<<"m">> :> IntVal(1))
NotInt   == DictVal((<<"m">> :> IntVal(1)) @@ (<<"p">> :> StrVal(<<"e">>)))
AList    == ListVal(<<IntVal(-1), ListVal(<<>>), StrVal(<<"e">>)>>)
AllValues == Strings \cup Ints \cup {D(1, 0), D(0, 1), Nested, NoPiece, NotInt,
                                     ListVal(<<>>), AList, DictVal(<<>>)}
Order    == <<"e", "m", "p">>

\* Bytes that are not canonical: accepted, or not.
OddBytes ==
    {<<"i", "-", "0", "e">>, <<"i", "0", "1", "e">>, <<"i", "e">>,
     <<"i", "1", "2", "1", "e">>, <<"1", "-", ":">>, <<"d", "i", "1", "e", "e">>,
     <<"d", "1", ":", "m", "e">>, <<"e">>, <<"x">>,
     \* Lengths of strings: longer than the input, not an int64, and an int64 for
     \* which make() panics.
     <<"9", "0", ":", "e">>, <<"1", "2", "1", ":">>, <<"9", "1", ":", "e">>}
Unsorted == <<"d", "1", ":", "p", "i", "-", "0", "1", "e",
              "0", "1", ":", "m", "i", "+", "1", "e", "e">>

Extended(sub, bytes, means) ==
    Item([id |-> MsgExtended, payload |-> <<sub>> \o bytes], means)

\* Each value with some bytes behind it, cut after any byte.
Tails == {<<>>, <<"e", "1">>}
MeansOf(v, tail, n) ==
    IF v \in {D(1, 0), Nested} /\ n >= Len(Encode[v])
    THEN <<[index |-> v.d[piece].n, data |-> SubSeq(tail, 1, n - Len(Encode[v]))]>>
    ELSE <<>>
Metadata ==
    UNION {{Extended(1, SubSeq(Encode[v] \o tail, 1, n), MeansOf(v, tail, n)) :
              n \in 1 .. Len(Encode[v] \o tail)} : <<v, tail>> \in AllValues \X Tails}
    \cup {Extended(1, b, <<>>) : b \in OddBytes}
    \cup {Extended(1, Unsorted \o <<"x">>, <<[index |-> -1, data |-> <<"x">>]>>),
          Extended(0, Encode[D(1, 0)], <<>>), Extended(1, <<>>, <<>>)}

Have(i) == [Item([id |-> MsgHave, payload |-> <<i>>], <<[have |-> i]>>)
              EXCEPT !.has = {i}]
Messages ==
    {Item(KeepAlive, <<>>), Have(0), Have(2), Have(3), Have(5),
     [Item([id |-> MsgBitfield, payload |-> <<2, 2>>], <<>>)
        EXCEPT !.has = {0, 2}, !.replaces = TRUE],
     Item([id |-> MsgPiece, payload |-> <<1, 0>>],
          <<[index |-> 1, begin |-> 0, block |-> <<>>]>>),
     Item([id |-> MsgPiece, payload |-> <<1, 2, 0, 20>>],
          <<[index |-> 1, begin |-> 2, block |-> <<0, 20>>]>>),
     Item([id |-> MsgPiece, payload |-> <<1>>], <<>>),
     Item([id |-> MsgHave, payload |-> <<>>], <<>>),
     Item([id |-> 1, payload |-> <<>>], <<>>)}

LongMsg(n) == Item([id |-> 1, payload |-> [k \in 1 .. n - 1 |-> 0]], <<>>)

Good == [pstrlen |-> 19, pstr |-> 1, ext |-> 1, hash |-> InfoHash, id |-> 7]
Handshakes == {Good, [Good EXCEPT !.pstrlen = 18], [Good EXCEPT !.pstr = 0],
               [Good EXCEPT !.ext = 0], [Good EXCEPT !.hash = InfoHash + 1]}

Session(h, items, cut) == [handshake |-> h, items |-> items, cut |-> cut]
All == 100
SomeSessions ==
    {Session(Good, <<x>>, All) : x \in Metadata} \cup
    {Session(Good, <<x, y, z>>, All) : x, y, z \in Messages} \cup
    {Session(Good, <<x, y>>, cut) : x, y \in Messages, cut \in 0 .. 18} \cup
    {Session(h, <<Have(0)>>, cut) : h \in Handshakes, cut \in 0 .. 9} \cup
    {Session(Good, <<LongMsg(n), Have(0)>>, All) : n \in {MaxMessageLen, MaxMessageLen + 1}}
=============================================================================
