---------------------------- MODULE MetadataRead ----------------------------
(***************************************************************************)
(* readMetadataFromPeer: the extension handshake, one request per metadata *)
(* piece, the assembly of the answers, and the hash check of               *)
(* metainfo.Parse.                                                         *)
(*                                                                         *)
(* A byte of the buffer is "good" (the byte of the info dictionary at that *)
(* offset) or "bad"; a fresh buffer is "bad".  The hash matches when the   *)
(* buffer is the dictionary: the right length, and every byte good.        *)
(*                                                                         *)
(* The declared length is an integer of any sign.  Only 0 is rejected, so  *)
(* make() panics for a negative length and for one that it cannot allocate *)
(* (it may also end the process for less, when memory runs out): a panic   *)
(* of the goroutine, which nothing recovers, is where the exchange and the *)
(* process end.                                                            *)
(***************************************************************************)
EXTENDS Integers, FiniteSets

CONSTANTS
    TrueSizes,          \* the lengths the info dictionary may have
    metadataPieceSize,  \* 16384 in the code
    DeclaredSizes,      \* the metadata_size values a peer may declare
    MaxAlloc            \* the longest buffer that make() gives

ASSUME MetadataAssumption ==
    /\ TrueSizes \subseteq Nat \ {0}
    /\ metadataPieceSize \in Nat \ {0}
    /\ DeclaredSizes \subseteq Int
    /\ MaxAlloc \in Nat

VARIABLES
    trueSize,       \* length of the info dictionary
    honest,         \* the peer answers only with true data
    pc,             \* program point
    size,           \* conn.MetadataSize
    hasUt,          \* the peer named an id for ut_metadata
    requested,      \* loop variable of the requests
    metadata,       \* the buffer
    received,       \* received[]
    got,
    ret             \* what readMetadataFromPeer returns

peerVars == <<trueSize, honest>>
vars == <<peerVars, pc, size, hasUt, requested, metadata, received, got, ret>>

Init ==
    /\ trueSize \in TrueSizes /\ honest \in BOOLEAN
    /\ pc = "handshake"
    /\ size = 0 /\ hasUt = FALSE /\ requested = 0
    /\ metadata = [i \in {} |-> "bad"]
    /\ received = {} /\ got = 0
    /\ ret = "running"

NumPieces_Floor == size \div metadataPieceSize
NumPieces == (size + metadataPieceSize - 1) \div metadataPieceSize

Return(value) == pc' = "returned" /\ ret' = value
Panic == pc' = "panicked" /\ UNCHANGED ret

\* A read or write error, or the deadline of ten seconds.
ConnFail ==
    /\ pc \in {"handshake", "request", "collect"}
    /\ Return("connError")
    /\ UNCHANGED <<size, hasUt, requested, metadata, received, got>>

\* The extension handshake arrives; messages before it are skipped.  One that
\* does not decode, and one without a metadata_size, end the exchange.
BadHandshake ==
    /\ pc = "handshake"
    /\ Return("badHandshake")
    /\ UNCHANGED <<size, hasUt, requested, metadata, received, got>>

RecvHandshake(s, ut) ==
    /\ pc = "handshake"
    /\ size' = s
    /\ hasUt' = ut
    /\ \/ /\ s \in 0 .. MaxAlloc
          /\ metadata' = [i \in 0 .. s - 1 |-> "bad"]
          /\ IF s = 0 THEN Return("noMetadataSize")
                      ELSE pc' = "request" /\ UNCHANGED ret
       \/ s \notin 0 .. MaxAlloc /\ Panic /\ UNCHANGED metadata
    /\ UNCHANGED <<requested, received, got>>

\* The decoder panics on the announced length of a string (module Bencode), in
\* the handshake or in the dictionary of an answer.
DecoderPanics ==
    /\ ~honest
    /\ \/ pc = "handshake"
       \/ pc = "collect" /\ got < NumPieces
    /\ Panic
    /\ UNCHANGED <<size, hasUt, requested, metadata, received, got>>

\* RequestMetadataPiece needs the peer's id for ut_metadata.
SendRequest ==
    /\ pc = "request"
    /\ requested < NumPieces
    /\ hasUt
    /\ requested' = requested + 1
    /\ UNCHANGED <<pc, size, hasUt, metadata, received, got, ret>>

NoUtMetadata ==
    /\ pc = "request"
    /\ requested < NumPieces
    /\ ~hasUt
    /\ Return("noUtMetadata")
    /\ UNCHANGED <<size, hasUt, requested, metadata, received, got>>

AllRequested ==
    /\ pc = "request"
    /\ requested = NumPieces
    /\ pc' = "collect"
    /\ UNCHANGED <<size, hasUt, requested, metadata, received, got, ret>>

\* An answer that counts: in range and not received before.
Fresh_InRange(k) == k \in 0 .. NumPieces - 1
Fresh(k) == k \in 0 .. NumPieces - 1 /\ k \notin received

\* copy() is bounded by the buffer and not by the metadata piece.
Copied(k, len, byte) ==
    [i \in 0 .. size - 1 |->
        IF i >= k * metadataPieceSize /\ i < k * metadataPieceSize + len
        THEN byte ELSE metadata[i]]

\* Data message k with len bytes.  Messages that are not data messages, that
\* do not parse, or that are not fresh change nothing.
RecvData(k, len, byte) ==
    /\ pc = "collect"
    /\ got < NumPieces
    /\ Fresh(k)
    /\ metadata' = Copied(k, len, byte)
    /\ received' = received \cup {k}
    /\ got' = got + 1
    /\ UNCHANGED <<pc, size, hasUt, requested, ret>>

\* The data an honest peer has for metadata piece k.
TrueLen(k) ==
    IF trueSize - k * metadataPieceSize < metadataPieceSize
    THEN trueSize - k * metadataPieceSize ELSE metadataPieceSize

HonestData ==
    \E k \in 0 .. NumPieces - 1 :
        k * metadataPieceSize < trueSize /\ RecvData(k, TrueLen(k), "good")

AnyData ==
    /\ ~honest
    /\ \E k \in 0 .. NumPieces, len \in 0 .. metadataPieceSize + 1,
          byte \in {"good", "bad"} : RecvData(k, len, byte)

HashMatches == size = trueSize /\ \A i \in 0 .. size - 1 : metadata[i] = "good"

\* metainfo.Parse: a dictionary with the right hash may still lack a field.
Parse ==
    /\ pc = "collect"
    /\ got = NumPieces
    /\ \E value \in IF HashMatches THEN {"info", "invalidMetadata"}
                                   ELSE {"hashMismatch"} : Return(value)
    /\ UNCHANGED <<size, hasUt, requested, metadata, received, got>>

Terminating == pc \in {"returned", "panicked"} /\ UNCHANGED vars

Next ==
    \/ /\ \/ ConnFail \/ BadHandshake \/ DecoderPanics
          \/ \E s \in DeclaredSizes, ut \in BOOLEAN : RecvHandshake(s, ut)
          \/ SendRequest \/ NoUtMetadata \/ AllRequested
          \/ HonestData \/ AnyData \/ Parse
       /\ UNCHANGED peerVars
    \/ Terminating

Spec == Init /\ [][Next]_vars

-----------------------------------------------------------------------------
(* Properties                                                              *)

\* The loop ends when every metadata piece is there and not when as many
\* messages have come: got counts the pieces in received.  This is said of the
\* results there are: a length that make() refuses panics and gives none.
CountsPieces ==
    /\ got = Cardinality(received)
    /\ ret \in {"info", "invalidMetadata", "hashMismatch"} => received = 0 .. NumPieces - 1

\* A peer that has the metadata and declares its length is never rejected,
\* in whatever order and however often its answers come.
HonestAccepted ==
    (honest /\ size = trueSize) => ret # "hashMismatch"
=============================================================================
