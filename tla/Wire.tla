-------------------------------- MODULE Wire --------------------------------
(***************************************************************************)
(* The receiving side of the peer wire protocol: the handshake of Dial,    *)
(* ReadMessage on a stream that may end at any byte, and the parsers of    *)
(* the messages, with bencode for those of the metadata extension.         *)
(*                                                                         *)
(* The loops of runPeerSession, DownloadPiece and readMetadataFromPeer     *)
(* look at different messages; the receiver here looks at all of them.     *)
(* Sizes are scaled: a length is two bytes of base Base, a number in a     *)
(* payload one, a byte has BitsPerByte bits.                               *)
(***************************************************************************)
EXTENDS Bencode

CONSTANTS
    Sessions,       \* what peers send: a handshake, items, where it ends
    PieceCount,      \* of the torrent
    InfoHash,       \* of the torrent
    Base,           \* 2^8 in the code
    BitsPerByte,    \* 8 in the code
    MaxMessageLen   \* 2^24 in the code

VARIABLES
    session,        \* the peer's side
    wpc,            \* "dial", "handshake", "header", "body", "decode", "closed"
    rd,             \* bytes read from the stream
    ext,            \* conn.SupportsExtension
    length,         \* of the message whose header was read
    frames,         \* the messages RecvMessage has returned
    parsed,         \* what the parsers made of them
    hasBits, bits   \* the bitfield of the session, nil without hasBits

wire == <<session, wpc, rd, ext, length, frames, parsed, hasBits, bits>>
wireVars == <<wire, decoder>>

MsgHave == 4
MsgBitfield == 5
MsgPiece == 7
MsgExtended == 20

-----------------------------------------------------------------------------
(* Bitfield                                                                *)

NewBitfield(n) == [k \in 1 .. (n + BitsPerByte - 1) \div BitsPerByte |-> 0]

ByteIdx(i) == i \div BitsPerByte + 1
Mask(i) == 2 ^ (BitsPerByte - 1 - (i % BitsPerByte))

HasPiece(bf, i) == ByteIdx(i) <= Len(bf) /\ (bf[ByteIdx(i)] \div Mask(i)) % 2 = 1

SetPiece_Add(bf, i) ==
    IF ByteIdx(i) <= Len(bf) THEN [bf EXCEPT ![ByteIdx(i)] = @ + Mask(i)] ELSE bf
SetPiece(bf, i) ==
    IF ByteIdx(i) <= Len(bf) /\ ~HasPiece(bf, i)
    THEN [bf EXCEPT ![ByteIdx(i)] = @ + Mask(i)] ELSE bf

-----------------------------------------------------------------------------
(* What the peer sends                                                     *)

KeepAlive == [id |-> -1, payload |-> <<>>]

\* WriteMessage.
WriteMessage(msg) ==
    LET n == IF msg = KeepAlive THEN 0 ELSE 1 + Len(msg.payload)
        header == <<n \div Base, n % Base>>
    IN  IF n = 0 THEN header ELSE header \o <<msg.id>> \o msg.payload

\* An item is a message with what the peer means by it: what a parser should
\* return, the pieces announced, and whether they replace earlier ones.
Item(msg, means) ==
    [msg |-> msg, means |-> means, has |-> {}, replaces |-> FALSE]

HandshakeBytes(h) == <<h.pstrlen, h.pstr, h.ext, h.hash, h.id>>

\* The stream up to each of the items.
SentBy(s) ==
    LET sent[n \in 0 .. Len(s.items)] ==
            IF n = 0 THEN HandshakeBytes(s.handshake)
            ELSE sent[n - 1] \o WriteMessage(s.items[n].msg)
    IN  sent
Bytes == SentBy(session)[Len(session.items)]

IsSeq(s) == Len(s) \in Nat /\ s = [k \in 1 .. Len(s) |-> s[k]]

IsMessage(msg) ==
    \/ msg = KeepAlive
    \/ msg = [id |-> msg.id, payload |-> msg.payload] /\ msg.id \in Nat /\ IsSeq(msg.payload)

\* A have announces its piece; a bitfield has a bit for every piece, announces
\* those it has set, and replaces what was announced before.
IsBitfield(bf) == Len(bf) = Len(NewBitfield(PieceCount)) /\ \A k \in 1 .. Len(bf) : bf[k] \in Nat
Indices(bf) == 0 .. Len(bf) * BitsPerByte - 1
Announces(it) ==
    LET p == it.msg.payload IN
    IF it.msg.id = MsgBitfield
    THEN /\ it.replaces /\ IsBitfield(p)
         /\ it.has = {i \in Indices(p) : HasPiece(p, i)}
    ELSE /\ ~it.replaces
         /\ IF it.msg.id = MsgHave /\ Len(p) = 1 THEN p[1] \in Nat /\ it.has = {p[1]}
                                                 ELSE it.has = {}

ASSUME WireAssumption ==
    /\ PieceCount \in Nat
    /\ Base \in Nat \ {0, 1} /\ BitsPerByte \in 1 .. 8
    /\ MaxMessageLen \in Nat /\ MaxMessageLen < Base * Base
    /\ \A s \in Sessions :
          /\ IsSeq(s.items) /\ s.cut \in Nat
          /\ \A k \in 1 .. Len(s.items) : IsMessage(s.items[k].msg) /\ Announces(s.items[k])

-----------------------------------------------------------------------------
(* Dial and ReadMessage.  ReadFull returns n bytes, or fails at the end of *)
(* the stream or at the deadline.                                          *)

Available(n) == rd + n <= session.cut /\ rd + n <= Len(Bytes)
NextBytes(n) == SubSeq(Bytes, rd + 1, rd + n)

Close == wpc' = "closed"

WireInit ==
    /\ session \in Sessions
    /\ wpc = "dial"
    /\ rd = 0 /\ ext = FALSE /\ length = 0
    /\ frames = <<>> /\ parsed = <<>>
    /\ hasBits = FALSE /\ bits = <<>>
    /\ DecoderIdle

ReadFails ==
    /\ \/ wpc = "dial" /\ ~Available(1)
       \/ wpc = "handshake" /\ ~Available(4)
       \/ wpc = "header" /\ ~Available(2)
       \/ wpc = "body" /\ ~Available(length)
    /\ Close
    /\ UNCHANGED <<session, rd, ext, length, frames, parsed, hasBits, bits, decoder>>

RecvPstrLen ==
    /\ wpc = "dial"
    /\ Available(1)
    /\ rd' = rd + 1
    /\ wpc' = IF NextBytes(1)[1] = 19 THEN "handshake" ELSE "closed"
    /\ UNCHANGED <<session, ext, length, frames, parsed, hasBits, bits, decoder>>

HashOK(h) == h = InfoHash

ReadHandshake ==
    /\ wpc = "handshake"
    /\ Available(4)
    /\ rd' = rd + 4
    /\ LET buf == NextBytes(4) IN
       /\ ext' = (buf[1] = 1 /\ buf[2] = 1)
       /\ wpc' = IF buf[1] = 1 /\ HashOK(buf[3]) THEN "header" ELSE "closed"
    /\ UNCHANGED <<session, length, frames, parsed, hasBits, bits, decoder>>

LengthOK_Strict(n) == n < MaxMessageLen
LengthOK(n) == n <= MaxMessageLen

\* A keep-alive is a message without a body.
ReadHeader ==
    /\ wpc = "header"
    /\ Available(2)
    /\ rd' = rd + 2
    /\ LET n == NextBytes(2)[1] * Base + NextBytes(2)[2] IN
       IF n = 0 THEN frames' = Append(frames, KeepAlive) /\ UNCHANGED <<wpc, length>>
       ELSE IF LengthOK(n) THEN wpc' = "body" /\ length' = n /\ UNCHANGED frames
       ELSE Close /\ UNCHANGED <<length, frames>>
    /\ UNCHANGED <<session, ext, parsed, hasBits, bits, decoder>>

-----------------------------------------------------------------------------
(* The parsers                                                             *)

ParseHave(p)  == IF Len(p) # 1 THEN <<>> ELSE <<[have |-> p[1]]>>
ParsePiece(p) == IF Len(p) < 2 THEN <<>>
                 ELSE <<[index |-> p[1], begin |-> p[2], block |-> SubSeq(p, 3, Len(p))]>>

\* An extended message with our id for ut_metadata.
IsMetadata(msg) ==
    msg.id = MsgExtended /\ Len(msg.payload) >= 2 /\ msg.payload[1] = 1

\* ParseMetadataPiece after DecodeBytes: msg_type 1 and a piece, and the data is
\* what follows the dictionary.
msg_type == <<"m">>
piece == <<"p">>
HasInt(d, key) == key \in DOMAIN d /\ d[key].type = "int"
IsData(v) ==
    /\ v.type = "dict"
    /\ HasInt(v.d, msg_type) /\ v.d[msg_type].n = 1
    /\ HasInt(v.d, piece)
DataAfter(n) == SubSeq(input, n + 1, Len(input))

\* ReadMessage returns; bitfield and have change the bitfield of the session,
\* which a have creates when there is none.
ReadBody ==
    /\ wpc = "body"
    /\ Available(length)
    /\ rd' = rd + length
    /\ LET buf == NextBytes(length)
           msg == [id |-> buf[1], payload |-> Tail(buf)]
           have == ParseHave(msg.payload)
       IN
       /\ frames' = Append(frames, msg)
       /\ IF IsMetadata(msg)
          THEN wpc' = "decode" /\ StartDecoder(Tail(msg.payload))
          ELSE wpc' = "header" /\ UNCHANGED decoder
       /\ parsed' = parsed \o (CASE msg.id = MsgHave  -> have
                                 [] msg.id = MsgPiece -> ParsePiece(msg.payload)
                                 [] OTHER             -> <<>>)
       /\ CASE msg.id = MsgBitfield -> hasBits' = TRUE /\ bits' = msg.payload
            [] msg.id = MsgHave /\ have # <<>> ->
                 /\ hasBits' = TRUE
                 /\ bits' = SetPiece(IF hasBits THEN bits ELSE NewBitfield(PieceCount),
                                     have[1].have)
            [] OTHER -> UNCHANGED <<hasBits, bits>>
    /\ UNCHANGED <<session, ext, length>>

Decode ==
    /\ wpc = "decode"
    /\ DecodeStep
    /\ UNCHANGED wire

\* A message that is not metadata data is skipped.
Decoded ==
    /\ wpc = "decode"
    /\ state \in {"ok", "error"}
    /\ wpc' = "header"
    /\ parsed' = parsed \o
         IF state = "ok" /\ IsData(value)
         THEN <<[index |-> value.d[piece].n, data |-> DataAfter(pos)]>> ELSE <<>>
    /\ input' = <<>> /\ pos' = 0 /\ open' = <<>> /\ state' = "idle" /\ value' = NoValue
    /\ UNCHANGED <<session, rd, ext, length, frames, hasBits, bits>>

Closed == wpc = "closed" /\ UNCHANGED wireVars

\* A panic of the decoder is recovered nowhere: the process has ended.
Panicked == wpc = "decode" /\ state = "panic" /\ UNCHANGED wireVars

WireNext ==
    \/ RecvPstrLen \/ ReadHandshake \/ ReadHeader \/ ReadBody \/ ReadFails
    \/ Decode \/ Decoded \/ Closed \/ Panicked

WireSpec == WireInit /\ [][WireNext]_wireVars

-----------------------------------------------------------------------------
(* Properties                                                              *)

Size(n) == Len(SentBy(session)[n])

\* The messages that arrive before the stream ends, or before one that is too
\* long.
Whole(n) ==
    /\ Size(n) <= session.cut
    /\ \A k \in 1 .. n : 1 + Len(session.items[k].msg.payload) <= MaxMessageLen

RightPeer ==
    LET h == session.handshake
    IN  h.pstrlen = 19 /\ h.pstr = 1 /\ h.hash = InfoHash

\* The pieces announced up to each item.
Announced(items) ==
    LET pieces[n \in 0 .. Len(items)] ==
            IF n = 0 THEN {}
            ELSE IF items[n].replaces THEN items[n].has
            ELSE pieces[n - 1] \cup items[n].has
    IN  pieces

\* RecvMessage returns what the peer sent, message for message, wherever the
\* stream is cut: none is lost, split, joined with the next one or made up,
\* and none is read from a peer that has another torrent.
FramingExact ==
    /\ frames = [k \in 1 .. Len(frames) |-> session.items[k].msg]
    /\ frames # <<>> => RightPeer
    /\ wpc = "closed" /\ RightPeer =>
          \A n \in 1 .. Len(session.items) : Whole(n) => n <= Len(frames)

\* The parsers return what the peer meant, and nothing for a message that is
\* malformed: metadata is the bytes behind the dictionary, also when they look
\* like bencode, and a dictionary that is cut is never taken for a whole one.
\* A string that announces more than make() allocates is no case of this: it
\* ends the process, and no parser returns.
ParsedExact ==
    wpc = "header" =>
        parsed = FlattenSeq([k \in 1 .. Len(frames) |-> session.items[k].means])

\* The bitfield has exactly the pieces that were announced: those of the last
\* bitfield message and of the have messages after it, repeated ones and ones
\* in the spare bits included.
BitsExact ==
    wpc = "header" =>
        LET announced == Announced(session.items)[Len(frames)]
        IN  /\ {i \in Indices(bits) : HasPiece(bits, i)} = announced \cap Indices(bits)
            /\ hasBits <=> \E k \in 1 .. Len(frames) : \/ session.items[k].replaces
                                                         \/ session.items[k].has # {}
            /\ hasBits => \A i \in 0 .. PieceCount - 1 : i \in announced => i \in Indices(bits)
=============================================================================
