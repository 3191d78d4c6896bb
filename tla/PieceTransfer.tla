---------------------------- MODULE PieceTransfer ---------------------------
(***************************************************************************)
(* DownloadPiece: the pipeline of block requests of one piece over a       *)
(* connection, the assembly of the answers in a buffer of pieceBufferPool, *)
(* the hash check, and the way of the buffer to the collector, which       *)
(* writes it while other downloads go on.                                  *)
(*                                                                         *)
(* A byte of a buffer is abstracted to the piece whose data it is, or      *)
(* Junk; a hash matches when every byte belongs to the piece.              *)
(*                                                                         *)
(* The length of a piece is what PieceSize computes, and negative for one  *)
(* whose hash lies behind the total length of the torrent: make() panics   *)
(* then, as for a length that it cannot allocate, and so does the slice of *)
(* a pooled buffer.  Nothing recovers, and the whole process ends.         *)
(***************************************************************************)
EXTENDS Integers, FiniteSets

CONSTANTS
    Downloads,      \* goroutines that call DownloadPiece, one connection each
    Sizes,          \* the length of each piece
    MaxAlloc,       \* the longest buffer that make() gives
    BlockSize,      \* 16384 in the code
    MaxBacklog,     \* 16 in the code
    Buffers,        \* bound: distinct buffers alive at a time
    PeerKinds       \* what the peers of the connections may be, together

\* The pieces that DownloadPiece gets a buffer for.
Pieces == {p \in DOMAIN Sizes : Sizes[p] \in 0 .. MaxAlloc}
Junk   == -1
NoBuf  == "none"

\* There is a piece 0 with a buffer, and a longest piece with one.
ASSUME TransferAssumption ==
    /\ DOMAIN Sizes \subseteq Nat
    /\ \A p \in DOMAIN Sizes : Sizes[p] \in Int
    /\ MaxAlloc \in Nat
    /\ 0 \in Pieces
    /\ \E q \in Pieces : \A p \in Pieces : Sizes[p] <= Sizes[q]
    /\ BlockSize \in Nat \ {0}
    /\ MaxBacklog \in Nat \ {0}
    /\ NoBuf \notin Buffers
    /\ PeerKinds \subseteq [Downloads -> {"honest", "late", "any"}]

MaxLen == CHOOSE n \in {Sizes[p] : p \in Pieces} :
             \A p \in Pieces : Sizes[p] <= n
Offsets == 0 .. MaxLen - 1

VARIABLES
    kind,       \* what the peer of a connection does
    pc, piece, buf, downloaded, requested, backlog,     \* DownloadPiece
    owed,       \* requests a connection's peer has not answered
    pool,       \* pieceBufferPool
    cap, mem,   \* capacity and contents of a buffer
    handed,     \* the results the collector has received and not written
    disk        \* the contents WritePiece was given, per piece

xferVars == <<piece, downloaded, requested, backlog>>
vars == <<kind, pc, xferVars, buf, owed, pool, cap, mem, handed, disk>>

Zeros   == [i \in Offsets |-> Junk]
Prefix(b, p) == [i \in 0 .. Sizes[p] - 1 |-> mem[b][i]]
Verified(b, p) == \A i \in 0 .. Sizes[p] - 1 : mem[b][i] = p
BlockLen(p, begin) ==
    IF Sizes[p] - begin < BlockSize THEN Sizes[p] - begin ELSE BlockSize

Init ==
    /\ kind \in PeerKinds
    /\ pc = [d \in Downloads |-> "idle"]
    /\ piece = [d \in Downloads |-> 0]
    /\ buf = [d \in Downloads |-> NoBuf]
    /\ downloaded = [d \in Downloads |-> 0]
    /\ requested = [d \in Downloads |-> 0]
    /\ backlog = [d \in Downloads |-> 0]
    /\ owed = [d \in Downloads |-> {}]
    /\ pool = {}
    /\ cap = [b \in Buffers |-> 0]
    /\ mem = [b \in Buffers |-> Zeros]
    /\ handed = {}
    /\ disk = [p \in Pieces |-> {}]

-----------------------------------------------------------------------------
(* The buffer pool.  sync.Pool may return nil although it holds a buffer.  *)

\* The buffers something refers to; the others are garbage.
InUse == pool \cup {buf[d] : d \in Downloads} \cup {r.buf : r \in handed}

Begin(d, p) ==
    /\ pc[d] = "idle"
    /\ pc' = [pc EXCEPT ![d] = "loop"]
    /\ piece' = [piece EXCEPT ![d] = p]
    /\ UNCHANGED <<downloaded, requested, backlog, owed, handed, disk>>

\* Get returns a buffer that is large enough; its contents are stale.
ReuseBuffer(d, p, b) ==
    /\ Begin(d, p)
    /\ b \in pool
    /\ cap[b] >= Sizes[p]
    /\ pool' = pool \ {b}
    /\ buf' = [buf EXCEPT ![d] = b]
    /\ UNCHANGED <<cap, mem>>

\* Get returns nil, or a buffer that is too small and is dropped.
AllocBuffer(d, p, b) ==
    /\ Begin(d, p)
    /\ b \notin InUse
    /\ \/ UNCHANGED pool
       \/ \E small \in pool : cap[small] < Sizes[p] /\ pool' = pool \ {small}
    /\ buf' = [buf EXCEPT ![d] = b]
    /\ cap' = [c \in Buffers |-> IF c = b THEN Sizes[p]
                                ELSE IF c \in pool \ pool' THEN 0 ELSE cap[c]]
    /\ mem' = [c \in Buffers |-> IF c = b \/ c \in pool \ pool' THEN Zeros
                                                            ELSE mem[c]]

\* No buffer has this length: the panic ends every goroutine.
BufferPanics(d, p) ==
    /\ pc[d] = "idle"
    /\ p \notin Pieces
    /\ pc' = [pc EXCEPT ![d] = "panicked"]
    /\ UNCHANGED <<xferVars, buf, owed, pool, cap, mem, handed, disk>>

\* DownloadPiece is over and its local variables are gone.
Leave_KeepBuffer(d) ==
    /\ pc' = [pc EXCEPT ![d] = "idle"]
    /\ piece' = [piece EXCEPT ![d] = 0]
    /\ downloaded' = [downloaded EXCEPT ![d] = 0]
    /\ requested' = [requested EXCEPT ![d] = 0]
    /\ backlog' = [backlog EXCEPT ![d] = 0]
    /\ UNCHANGED buf
Leave(d) ==
    /\ pc' = [pc EXCEPT ![d] = "idle"]
    /\ piece' = [piece EXCEPT ![d] = 0]
    /\ buf' = [buf EXCEPT ![d] = NoBuf]
    /\ downloaded' = [downloaded EXCEPT ![d] = 0]
    /\ requested' = [requested EXCEPT ![d] = 0]
    /\ backlog' = [backlog EXCEPT ![d] = 0]

\* The deferred Put of every return but the successful one.
Release(d) ==
    /\ Leave(d)
    /\ pool' = pool \cup {buf[d]}
    /\ UNCHANGED <<cap, mem, handed, disk>>

-----------------------------------------------------------------------------
(* The request loop                                                        *)

Incomplete(d) == downloaded[d] < Sizes[piece[d]]

CanRequest_FullBlocks(d) ==
    backlog[d] < MaxBacklog /\ requested[d] + BlockSize <= Sizes[piece[d]]
CanRequest(d) == backlog[d] < MaxBacklog /\ requested[d] < Sizes[piece[d]]

Requested(d) == requested[d] + BlockLen(piece[d], requested[d])

SendRequest(d) ==
    /\ pc[d] = "loop"
    /\ Incomplete(d)
    /\ CanRequest(d)
    /\ owed' = [owed EXCEPT ![d] = @ \cup
                                     {<<piece[d], requested[d], "new">>}]
    /\ requested' = [requested EXCEPT ![d] = Requested(d)]
    /\ backlog' = [backlog EXCEPT ![d] = @ + 1]
    /\ UNCHANGED <<pc, piece, downloaded, buf, pool, cap, mem, handed, disk>>

Receiving(d) == pc[d] = "loop" /\ Incomplete(d) /\ ~CanRequest(d)

\* What copy and the counters do with a block of the piece that fits.
\* Blocks of another piece and blocks out of bounds are skipped.
Fits(d, m) == m.idx = piece[d] /\ m.begin + m.len <= Sizes[piece[d]]

Accept(d, m) ==
    /\ mem' = [mem EXCEPT ![buf[d]] =
                 [i \in Offsets |-> IF i \in m.begin .. m.begin + m.len - 1
                                    THEN m.data ELSE @[i]]]
    /\ downloaded' = [downloaded EXCEPT ![d] = @ + m.len]
    /\ backlog' = [backlog EXCEPT ![d] = @ - 1]

RecvBlock(d, m) ==
    /\ Receiving(d)
    /\ IF Fits(d, m) THEN Accept(d, m) ELSE UNCHANGED <<mem, downloaded, backlog>>
    /\ UNCHANGED <<pc, piece, requested, buf, pool, cap, handed, disk>>

\* The peer answers a request.
Answer(d, r) ==
    /\ r \in owed[d]
    /\ RecvBlock(d, [idx |-> r[1], begin |-> r[2], len |-> BlockLen(r[1], r[2]),
                     data |-> r[1]])
    /\ owed' = [owed EXCEPT ![d] = @ \ {r}]

\* A block that was not requested, was sent before, or has wrong data.
Blocks == [idx : Pieces, begin : Offsets, len : 1 .. BlockSize,
           data : Pieces \cup {Junk}]
Unsolicited(d, m) ==
    /\ kind[d] = "any"
    /\ m.data \in {m.idx, Junk}
    /\ RecvBlock(d, m)
    /\ UNCHANGED owed

\* The peer chokes us: it forgets the requests, or answers them later.
RecvChoke(d) ==
    /\ Receiving(d)
    /\ \/ owed' = [owed EXCEPT ![d] = {}]
       \/ /\ kind[d] = "late"
          /\ owed' = [owed EXCEPT ![d] = {<<r[1], r[2], "late">> : r \in @}]
    /\ Release(d)

\* A failed write or read, or the deadline: the connection is closed.
ConnFail(d) ==
    /\ pc[d] = "loop"
    /\ Incomplete(d)
    /\ owed' = [owed EXCEPT ![d] = {}]
    /\ Release(d)

-----------------------------------------------------------------------------
(* The hash check and the result                                           *)

\* A piece with the right hash leaves with its buffer.
KeepBuffer_AlsoPooled(d) ==
    /\ pc' = [pc EXCEPT ![d] = "send"]
    /\ pool' = pool \cup {buf[d]}
KeepBuffer(d) ==
    /\ pc' = [pc EXCEPT ![d] = "send"]
    /\ UNCHANGED pool

VerifyOK(d) ==
    /\ pc[d] = "loop"
    /\ ~Incomplete(d)
    /\ Verified(buf[d], piece[d])
    /\ KeepBuffer(d)
    /\ UNCHANGED <<xferVars, buf, owed, cap, mem, handed, disk>>

HashMismatch(d) ==
    /\ pc[d] = "loop"
    /\ ~Incomplete(d)
    /\ ~Verified(buf[d], piece[d])
    /\ owed' = [owed EXCEPT ![d] = {}]
    /\ Release(d)

\* The collector takes one result at a time.
HandOver(d) ==
    /\ pc[d] = "send"
    /\ handed = {}
    /\ handed' = {[piece |-> piece[d], buf |-> buf[d]]}
    /\ Leave(d)
    /\ UNCHANGED <<owed, pool, cap, mem, disk>>

\* writer.WritePiece with the data of the result; the buffer is garbage then.
Write(r) ==
    /\ r \in handed
    /\ handed' = handed \ {r}
    /\ disk' = [disk EXCEPT ![r.piece] = @ \cup {Prefix(r.buf, r.piece)}]
    /\ cap' = [cap EXCEPT ![r.buf] = 0]
    /\ mem' = [mem EXCEPT ![r.buf] = Zeros]
    /\ UNCHANGED <<pc, xferVars, buf, owed, pool>>

Step ==
    \/ \E d \in Downloads :
         \/ \E p \in Pieces, b \in Buffers : ReuseBuffer(d, p, b) \/ AllocBuffer(d, p, b)
         \/ \E p \in DOMAIN Sizes : BufferPanics(d, p)
         \/ SendRequest(d)
         \/ \E r \in owed[d] : Answer(d, r)
         \/ \E m \in Blocks : Unsolicited(d, m)
         \/ RecvChoke(d) \/ ConnFail(d)
         \/ VerifyOK(d) \/ HashMismatch(d) \/ HandOver(d)
    \/ \E r \in handed : Write(r)

Panicked == \E d \in Downloads : pc[d] = "panicked"

Next ==
    \/ ~Panicked /\ Step /\ UNCHANGED kind
    \/ Panicked /\ UNCHANGED vars

Spec == Init /\ [][Next]_vars

-----------------------------------------------------------------------------
(* Properties                                                              *)

\* Every variable has its type; a goroutine has a buffer exactly while it is in
\* DownloadPiece or in the send of its result.
TypeOK ==
    /\ kind \in PeerKinds
    /\ pc \in [Downloads -> {"idle", "loop", "send", "panicked"}]
    /\ piece \in [Downloads -> Pieces]
    /\ buf \in [Downloads -> Buffers \cup {NoBuf}]
    /\ \A d \in Downloads : buf[d] = NoBuf <=> pc[d] \in {"idle", "panicked"}
    /\ downloaded \in [Downloads -> Nat]
    /\ requested \in [Downloads -> Nat]
    /\ backlog \in [Downloads -> Int]
    /\ owed \in [Downloads -> SUBSET (Pieces \X Offsets \X {"new", "late"})]
    /\ pool \subseteq Buffers
    /\ cap \in [Buffers -> Nat]
    /\ mem \in [Buffers -> [Offsets -> Pieces \cup {Junk}]]
    /\ handed \subseteq [piece : Pieces, buf : Buffers]
    /\ DOMAIN disk = Pieces

\* What the hash check accepted is what WritePiece is given, although the
\* buffers are pooled, come back with stale contents, and other downloads go
\* on while the collector holds one.
WrittenIntact == \A p \in Pieces : disk[p] \subseteq {[i \in 0 .. Sizes[p] - 1 |-> p]}

\* Nobody else refers to the buffer of a running download, of a result that
\* waits, or of the result the collector writes, and a goroutine that is in
\* neither has none.
BuffersExclusive ==
    /\ TypeOK
    /\ \A d, e \in Downloads : d # e /\ buf[d] # NoBuf => buf[d] # buf[e]
    /\ \A d \in Downloads : buf[d] \notin pool
    /\ \A r \in handed : r.buf \notin pool /\ \A d \in Downloads : buf[d] # r.buf

\* With a peer that answers each request once, the backlog counts the requests
\* that are out and never passes its limit, a download that is not complete
\* has a request to send or an answer to come, and every piece verifies.
HonestPipeline ==
    \A d \in Downloads : pc[d] = "loop" /\ kind[d] = "honest" =>
        /\ backlog[d] = Cardinality(owed[d])
        /\ backlog[d] <= MaxBacklog
        /\ Incomplete(d) => CanRequest(d) \/ owed[d] # {}
        /\ ~Incomplete(d) => Verified(buf[d], piece[d])

\* The comment of DownloadPiece says that it "fetches all blocks of a piece"
\* and then verifies the hash.  It counts bytes, so a block that arrives twice
\* stands in for one that is missing, and the check fails although no peer
\* sent wrong data.
FetchesAllBlocks ==
    \A d \in Downloads :
        pc[d] = "loop" /\ ~Incomplete(d) => Verified(buf[d], piece[d])
=============================================================================
