------------------------------ MODULE Bencode -------------------------------
(***************************************************************************)
(* Package bencode.  Encode is a function on values.  The decoder is the   *)
(* recursive descent of decodeValue as steps: the reader's position and    *)
(* the stack of the lists and dictionaries that are open.                  *)
(*                                                                         *)
(* A byte is a one-character string.                                       *)
(***************************************************************************)
EXTENDS Integers, Sequences, SequencesExt, TLC

CONSTANTS
    Values,     \* the values encoded, with the parts of each of them
    ByteOrder,  \* the bytes that occur in keys, in ascending order
    MaxInt,     \* largest int64, smallest -MaxInt; at most 99 here
    MaxSlice    \* the longest slice that make() gives

ASSUME BencodeAssumption == MaxInt \in 1 .. 99 /\ MaxSlice \in Nat

IntVal(n)   == [type |-> "int", n |-> n]
StrVal(s)   == [type |-> "string", s |-> s]
ListVal(items) == [type |-> "list", items |-> items]
DictVal(d)  == [type |-> "dict", d |-> d]

Digits == <<"0", "1", "2", "3", "4", "5", "6", "7", "8", "9">>
IsDigit(b) == b \in ToSet(Digits)
DigitValue(b) == CHOOSE n \in 0 .. 9 : Digits[n + 1] = b
Decimal(n) == IF n < 10 THEN <<Digits[n + 1]>>
                        ELSE <<Digits[(n \div 10) + 1], Digits[(n % 10) + 1]>>
Number(s) == FoldLeft(LAMBDA n, b : 10 * n + DigitValue(b), 0, s)

-----------------------------------------------------------------------------
(* Encode                                                                  *)

Less(a, b) ==
    LET rank(c) == CHOOSE i \in DOMAIN ByteOrder : ByteOrder[i] = c
    IN  \/ IsStrictPrefix(a, b)
        \/ \E n \in 1 .. Len(a) : /\ n <= Len(b)
                                  /\ SubSeq(a, 1, n - 1) = SubSeq(b, 1, n - 1)
                                  /\ rank(a[n]) < rank(b[n])

EncodeString(s) == Decimal(Len(s)) \o <<":">> \o s

\* Keys are sorted.
Encode[v \in Values] ==
    CASE v.type = "int" ->
           <<"i">> \o (IF v.n < 0 THEN <<"-">> \o Decimal(-v.n) ELSE Decimal(v.n))
             \o <<"e">>
      [] v.type = "string" -> EncodeString(v.s)
      [] v.type = "list" ->
           <<"l">> \o FlattenSeq([k \in DOMAIN v.items |-> Encode[v.items[k]]])
             \o <<"e">>
      [] v.type = "dict" ->
           LET keys == SetToSortSeq(DOMAIN v.d, Less)
           IN  <<"d">> \o FlattenSeq([k \in DOMAIN keys |->
                                        EncodeString(keys[k]) \o Encode[v.d[keys[k]]]])
                 \o <<"e">>

-----------------------------------------------------------------------------
(* DecodeBytes                                                             *)

VARIABLES
    input, pos,     \* the reader: its bytes, and how many it has read
    open,           \* the containers that decodeList and decodeDict fill
    state,          \* "idle", "value", "ok", "error" or "panic"
    value           \* the value when it is "ok"

decoder == <<input, pos, open, state, value>>

NoKey == <<"no key">>
NoValue == IntVal(0)

DecoderIdle ==
    /\ input = <<>> /\ pos = 0 /\ open = <<>>
    /\ state = "idle" /\ value = NoValue

StartDecoder(bytes) ==
    /\ input' = bytes /\ pos' = 0 /\ open' = <<>>
    /\ state' = "value" /\ value' = NoValue

Decoding == state = "value"
AtEnd == pos = Len(input)
Byte == input[pos + 1]

\* The position of the next byte b, 0 if there is none.
Find(b) == SelectInSubSeq(input, pos + 1, Len(input), LAMBDA c : c = b)

Fail == state' = "error" /\ UNCHANGED <<input, pos, open, value>>

\* A value is complete: it is the result, an item, a key, or a key's value.  A
\* key that occurs twice keeps its last value; the order is not checked.
Yield(v, outer) ==
    /\ UNCHANGED input
    /\ IF outer = <<>>
       THEN state' = "ok" /\ value' = v /\ open' = <<>>
       ELSE LET top  == Last(outer)
                rest == Front(outer)
            IN  /\ UNCHANGED value
                /\ IF top.type = "list"
                   THEN open' = Append(rest, [top EXCEPT !.items = Append(@, v)])
                   ELSE IF top.key # NoKey
                   THEN open' = Append(rest, [top EXCEPT !.d = (top.key :> v) @@ @,
                                                         !.key = NoKey])
                   ELSE IF v.type = "string"
                   THEN open' = Append(rest, [top EXCEPT !.key = v.s])
                   ELSE UNCHANGED open
                /\ state' = IF top.type = "dict" /\ top.key = NoKey
                               /\ v.type # "string" THEN "error" ELSE "value"

\* ParseInt after the checks of decodeInt: "-01" and "+1" pass them.
Signed(s) == s # <<>> /\ s[1] \in {"-", "+"}
IntText(s) ==
    LET digits == IF Signed(s) THEN Tail(s) ELSE s
    IN  /\ s # <<>>
        /\ ~(Len(s) > 1 /\ s[1] = "0")
        /\ s # <<"-", "0">>
        /\ digits # <<>>
        /\ \A k \in DOMAIN digits : IsDigit(digits[k])
        /\ Number(digits) <= MaxInt
IntOf(s) ==
    IF s[1] = "-" THEN -Number(Tail(s))
    ELSE IF Signed(s) THEN Number(Tail(s)) ELSE Number(s)

DecodeInt ==
    /\ Decoding /\ ~AtEnd /\ Byte = "i"
    /\ LET end == Find("e")
           s   == SubSeq(input, pos + 2, end - 1)
       IN  IF end # 0 /\ IntText(s)
           THEN pos' = end /\ Yield(IntVal(IntOf(s)), open)
           ELSE Fail

\* Where the data of a string ends.
StringEnd_Inclusive(colon, length) == colon + length - 1
StringEnd(colon, length) == colon + length

\* The length passes Atoi and is allocated before the data is read: a length
\* that make() refuses panics, one that is only longer than the input fails.
DecodeString ==
    /\ Decoding /\ ~AtEnd /\ IsDigit(Byte)
    /\ LET colon  == Find(":")
           prefix == SubSeq(input, pos + 1, colon - 1)
           end    == StringEnd(colon, Number(prefix))
           atoi   == /\ colon # 0
                     /\ \A k \in DOMAIN prefix : IsDigit(prefix[k])
                     /\ Number(prefix) <= MaxInt
       IN  IF atoi /\ Number(prefix) > MaxSlice
           THEN state' = "panic" /\ UNCHANGED <<input, pos, open, value>>
           ELSE IF atoi /\ end <= Len(input)
           THEN pos' = end /\ Yield(StrVal(SubSeq(input, colon + 1, end)), open)
           ELSE Fail

OpenContainer ==
    /\ Decoding /\ ~AtEnd /\ Byte \in {"l", "d"}
    /\ pos' = pos + 1
    /\ open' = Append(open, IF Byte = "l" THEN ListVal(<<>>)
                            ELSE [type |-> "dict", d |-> <<>>, key |-> NoKey])
    /\ UNCHANGED <<input, state, value>>

\* The e of a list, or of a dictionary that does not wait for a value.
CanClose == open # <<>> /\ (Last(open).type = "dict" => Last(open).key = NoKey)

CloseContainer ==
    /\ Decoding /\ ~AtEnd /\ Byte = "e"
    /\ CanClose
    /\ pos' = pos + 1
    /\ LET top == Last(open)
       IN  Yield(IF top.type = "list" THEN top ELSE DictVal(top.d), Front(open))

Malformed ==
    /\ Decoding
    /\ \/ AtEnd
       \/ ~AtEnd /\ Byte = "e" /\ ~CanClose
       \/ ~AtEnd /\ ~IsDigit(Byte) /\ Byte \notin {"i", "l", "d", "e"}
    /\ Fail

DecodeStep ==
    DecodeInt \/ DecodeString \/ OpenContainer \/ CloseContainer \/ Malformed
=============================================================================
