------------------------- MODULE PieceTransferProofs ------------------------
(***************************************************************************)
(* Proofs about module PieceTransfer, for every number of downloads and    *)
(* buffers and every length of pieces and blocks.                          *)
(***************************************************************************)
EXTENDS PieceTransfer, FiniteSetTheorems, TLAPS

-----------------------------------------------------------------------------
(* The buffers: types, ownership and contents                              *)

\* A request is for bytes of its piece.
OwedInPiece == \A d \in Downloads : \A r \in owed[d] : r[2] < Sizes[r[1]]

\* The collector holds at most one result.
OneResult == \A r, s \in handed : r = s

\* A buffer that passed the hash check keeps the piece until it is written.
StaysVerified ==
    /\ \A d \in Downloads : pc[d] = "send" => Verified(buf[d], piece[d])
    /\ \A r \in handed : Verified(r.buf, r.piece)

\* WrittenIntact with what it rests on.
BufferInv ==
    BuffersExclusive /\ OwedInPiece /\ OneResult /\ StaysVerified /\ WrittenIntact

\* What has a buffer has a length.
LEMMA PieceLengths == Pieces \subseteq Nat /\ \A p \in Pieces : Sizes[p] \in Nat
  BY TransferAssumption DEF Pieces

\* The length of the longest piece bounds every offset in a piece.
LEMMA MaxLenBound == MaxLen \in Nat /\ \A p \in Pieces : Sizes[p] <= MaxLen
<1> DEFINE Lens == {Sizes[p] : p \in Pieces}
<1>1. \E n \in Lens : \A p \in Pieces : Sizes[p] <= n
  BY TransferAssumption
<1>2. MaxLen \in Lens /\ \A p \in Pieces : Sizes[p] <= MaxLen
  BY <1>1 DEF MaxLen
<1> QED  BY <1>2, PieceLengths

\* An offset in a piece is an offset of the buffers.
LEMMA OffsetInPiece ==
    /\ Offsets \subseteq Nat
    /\ \A p \in Pieces : \A i \in Nat : i < Sizes[p] => i \in Offsets
<1>1. \A p \in Pieces : Sizes[p] \in Nat
  BY PieceLengths
<1> QED  BY <1>1, MaxLenBound DEF Offsets

\* A block has at least one byte when it begins inside of its piece, and it
\* ends inside of it.
LEMMA BlockLenBound ==
    ASSUME NEW p \in Pieces, NEW begin \in Nat, begin < Sizes[p]
    PROVE  /\ BlockLen(p, begin) \in 1 .. BlockSize
           /\ begin + BlockLen(p, begin) <= Sizes[p]
           /\ begin + BlockSize > Sizes[p] => begin + BlockLen(p, begin) = Sizes[p]
           /\ begin + BlockSize <= Sizes[p] => BlockLen(p, begin) = BlockSize
  BY TransferAssumption, PieceLengths DEF BlockLen

\* At the start no buffer is in use.
LEMMA BufferInit == Init => BufferInv
<1> SUFFICES ASSUME Init PROVE BufferInv
  OBVIOUS
<1>1. TypeOK
  BY TransferAssumption DEF Init, TypeOK, Zeros
<1>2. BuffersExclusive
  BY <1>1 DEF Init, BuffersExclusive
<1> QED
  BY <1>2 DEF Init, BufferInv, OwedInPiece, OneResult, StaysVerified, WrittenIntact

\* DownloadPiece begins: the buffer comes from the pool or is new.
LEMMA BeginStep ==
    ASSUME BufferInv, NEW d \in Downloads, NEW p \in Pieces, NEW b \in Buffers,
           ReuseBuffer(d, p, b) \/ AllocBuffer(d, p, b), UNCHANGED kind
    PROVE  BufferInv'
<1> USE DEF BufferInv, BuffersExclusive
<1>1. Begin(d, p) /\ buf' = [buf EXCEPT ![d] = b]
  BY DEF ReuseBuffer, AllocBuffer
<1>2. pool' \subseteq pool /\ b \notin pool'
  BY DEF ReuseBuffer, AllocBuffer, InUse
<1>3. \A e \in Downloads : buf[e] # b
  BY DEF ReuseBuffer, AllocBuffer, InUse
<1>4. \A r \in handed : r.buf # b
  BY DEF ReuseBuffer, AllocBuffer, InUse
<1>5. \A c \in Buffers : c # b /\ c \notin pool => mem'[c] = mem[c]
  BY DEF ReuseBuffer, AllocBuffer
<1>6. TypeOK'
  <2>1. cap' \in [Buffers -> Nat] /\ mem' \in [Buffers -> [Offsets -> Pieces \cup {Junk}]]
    BY TransferAssumption, PieceLengths DEF ReuseBuffer, AllocBuffer, TypeOK, Zeros
  <2> QED  BY <1>1, <1>2, <2>1, TransferAssumption DEF Begin, TypeOK
<1>7. BuffersExclusive'
  BY <1>1, <1>2, <1>3, <1>4, <1>6 DEF Begin, TypeOK
<1>8. StaysVerified'
  <2>1. ASSUME NEW e \in Downloads, pc'[e] = "send" PROVE Verified(buf[e], piece[e])'
    <3>1. e # d /\ pc[e] = "send" /\ buf'[e] = buf[e] /\ piece'[e] = piece[e]
      BY <1>1, <2>1 DEF Begin, TypeOK
    <3>2. buf[e] \in Buffers /\ mem'[buf[e]] = mem[buf[e]]
      BY <1>3, <1>5, <3>1 DEF TypeOK
    <3> QED  BY <3>1, <3>2 DEF StaysVerified, Verified
  <2>2. ASSUME NEW r \in handed' PROVE Verified(r.buf, r.piece)'
    <3>1. r \in handed /\ r.buf \in Buffers /\ mem'[r.buf] = mem[r.buf]
      BY <1>1, <1>4, <1>5, <2>2 DEF Begin, TypeOK
    <3> QED  BY <3>1 DEF StaysVerified, Verified
  <2> QED  BY <2>1, <2>2 DEF StaysVerified
<1> QED
  BY <1>1, <1>7, <1>8 DEF Begin, OwedInPiece, OneResult, WrittenIntact

\* The process ends, and nothing else changes.
LEMMA PanicStep ==
    ASSUME BufferInv, NEW d \in Downloads, NEW p, BufferPanics(d, p), UNCHANGED kind
    PROVE  BufferInv'
<1> USE DEF BufferInv, BuffersExclusive
<1>1. /\ pc' = [pc EXCEPT ![d] = "panicked"] /\ pc[d] = "idle"
      /\ UNCHANGED <<piece, downloaded, requested, backlog, buf, owed, pool, cap, mem, handed,
                      disk>>
  BY DEF BufferPanics, xferVars
<1>2. TypeOK'
  <2>1. /\ pc' \in [Downloads -> {"idle", "loop", "send", "panicked"}]
        /\ \A e \in Downloads : buf'[e] = NoBuf <=> pc'[e] \in {"idle", "panicked"}
    BY <1>1 DEF TypeOK
  <2> QED  BY <1>1, <2>1 DEF TypeOK
<1>3. StaysVerified'
  <2>1. \A e \in Downloads : pc'[e] = "send" => Verified(buf[e], piece[e])
    BY <1>1 DEF StaysVerified, TypeOK
  <2> QED  BY <1>1, <2>1 DEF StaysVerified, Verified
<1> QED
  BY <1>1, <1>2, <1>3 DEF OwedInPiece, OneResult, WrittenIntact

\* A request changes no buffer.
LEMMA RequestStep ==
    ASSUME BufferInv, NEW d \in Downloads, SendRequest(d), UNCHANGED kind
    PROVE  BufferInv'
<1> USE DEF BufferInv, BuffersExclusive
<1>1. piece[d] \in Pieces /\ requested[d] \in Nat /\ requested[d] < Sizes[piece[d]]
  BY DEF SendRequest, CanRequest, TypeOK
<1>2. Requested(d) \in Nat
  BY <1>1, BlockLenBound, TransferAssumption DEF Requested
<1>3. requested[d] \in Offsets
  BY <1>1, OffsetInPiece
<1>4. owed' \in [Downloads -> SUBSET (Pieces \X Offsets \X {"new", "late"})]
  BY <1>1, <1>3 DEF SendRequest, TypeOK
<1>5. requested' \in [Downloads -> Nat] /\ backlog' \in [Downloads -> Int]
  BY <1>2 DEF SendRequest, TypeOK
<1>6. TypeOK'
  BY <1>4, <1>5 DEF SendRequest, TypeOK
<1>7. OwedInPiece'
  BY <1>1 DEF SendRequest, OwedInPiece, TypeOK
<1> QED
  BY <1>6, <1>7 DEF SendRequest, OneResult, StaysVerified, Verified, WrittenIntact

\* A message with a block of a piece changes at most the buffer of its own
\* download.
LEMMA BlockStep ==
    ASSUME BufferInv, NEW d \in Downloads, NEW m \in Blocks, RecvBlock(d, m),
           owed' \in [Downloads -> SUBSET (Pieces \X Offsets \X {"new", "late"})],
           \A e \in Downloads : owed'[e] \subseteq owed[e], UNCHANGED kind
    PROVE  BufferInv'
<1> USE DEF BufferInv, BuffersExclusive
<1>1. /\ pc[d] = "loop" /\ buf[d] \in Buffers
      /\ m.len \in Nat /\ m.data \in Pieces \cup {Junk}
  BY TransferAssumption DEF RecvBlock, Receiving, TypeOK, Blocks
<1>2. /\ UNCHANGED <<pc, piece, requested, buf, pool, cap, handed, disk>>
      /\ Accept(d, m) \/ UNCHANGED <<mem, downloaded, backlog>>
  BY DEF RecvBlock
<1>3. /\ \A c \in Buffers : c # buf[d] => mem'[c] = mem[c]
      /\ mem' \in [Buffers -> [Offsets -> Pieces \cup {Junk}]]
  <2>1. CASE Accept(d, m)
    BY <1>1, <2>1 DEF Accept, TypeOK
  <2>2. CASE UNCHANGED mem
    BY <2>2 DEF TypeOK
  <2> QED  BY <1>2, <2>1, <2>2
<1>4. downloaded' \in [Downloads -> Nat] /\ backlog' \in [Downloads -> Int]
  BY <1>1, <1>2 DEF Accept, TypeOK
<1>5. TypeOK'
  BY <1>2, <1>3, <1>4 DEF TypeOK
<1>6. StaysVerified'
  <2>1. ASSUME NEW e \in Downloads, pc'[e] = "send" PROVE Verified(buf[e], piece[e])'
    <3>1. e # d /\ buf[e] \in Buffers /\ buf[e] # buf[d]
      BY <1>1, <1>2, <2>1 DEF TypeOK
    <3>2. mem'[buf[e]] = mem[buf[e]]
      BY <1>3, <3>1
    <3> QED  BY <1>2, <2>1, <3>2 DEF StaysVerified, Verified
  <2>2. ASSUME NEW r \in handed' PROVE Verified(r.buf, r.piece)'
    <3>1. r \in handed /\ r.buf \in Buffers /\ r.buf # buf[d]
      BY <1>2, <2>2 DEF TypeOK
    <3>2. mem'[r.buf] = mem[r.buf]
      BY <1>3, <3>1
    <3> QED  BY <3>1, <3>2 DEF StaysVerified, Verified
  <2> QED  BY <2>1, <2>2 DEF StaysVerified
<1>7. BuffersExclusive'
  BY <1>2, <1>5
<1>8. OwedInPiece'
  BY DEF OwedInPiece
<1> QED
  BY <1>2, <1>6, <1>7, <1>8 DEF OneResult, WrittenIntact

\* The block that answers a request is a block.
LEMMA AnswerBlock ==
    ASSUME BufferInv, NEW d \in Downloads, NEW r \in owed[d]
    PROVE  /\ r[1] \in Pieces /\ r[2] \in Nat /\ r[2] < Sizes[r[1]]
           /\ [idx |-> r[1], begin |-> r[2], len |-> BlockLen(r[1], r[2]), data |-> r[1]]
                 \in Blocks
<1>1. r[1] \in Pieces /\ r[2] \in Offsets
  BY DEF BufferInv, BuffersExclusive, TypeOK
<1>2. r[2] \in Nat
  BY <1>1, OffsetInPiece
<1>3. r[2] < Sizes[r[1]]
  BY DEF BufferInv, OwedInPiece
<1>4. BlockLen(r[1], r[2]) \in 1 .. BlockSize
  BY <1>1, <1>2, <1>3, BlockLenBound
<1> QED  BY <1>1, <1>2, <1>3, <1>4 DEF Blocks

\* An unsuccessful DownloadPiece puts its buffer back.
LEMMA ReleaseStep ==
    ASSUME BufferInv, NEW d \in Downloads, pc[d] = "loop", Release(d), UNCHANGED kind,
           owed' \in [Downloads -> SUBSET (Pieces \X Offsets \X {"new", "late"})],
           OwedInPiece'
    PROVE  BufferInv'
<1> USE DEF BufferInv, BuffersExclusive
<1>1. buf[d] \in Buffers
  BY DEF TypeOK
<1>2. /\ pc' = [pc EXCEPT ![d] = "idle"] /\ buf' = [buf EXCEPT ![d] = NoBuf]
      /\ piece' = [piece EXCEPT ![d] = 0]
      /\ pool' = pool \cup {buf[d]} /\ UNCHANGED <<cap, mem, handed, disk>>
  BY DEF Release, Leave
<1>3. TypeOK'
  <2>1. /\ downloaded' \in [Downloads -> Nat] /\ requested' \in [Downloads -> Nat]
        /\ backlog' \in [Downloads -> Int]
    BY DEF Release, Leave, TypeOK
  <2>2. /\ pc' \in [Downloads -> {"idle", "loop", "send", "panicked"}] /\ piece' \in [Downloads -> Pieces]
        /\ buf' \in [Downloads -> Buffers \cup {NoBuf}]
        /\ \A e \in Downloads : buf'[e] = NoBuf <=> pc'[e] \in {"idle", "panicked"}
    BY <1>2, TransferAssumption DEF TypeOK
  <2> QED  BY <1>1, <1>2, <2>1, <2>2 DEF TypeOK
<1>4. \A e \in Downloads : e # d => buf'[e] = buf[e] /\ pc'[e] = pc[e] /\ piece'[e] = piece[e]
  BY <1>2 DEF TypeOK
<1>5. buf'[d] = NoBuf /\ pc'[d] = "idle"
  BY <1>2 DEF TypeOK
<1>6. \A e \in Downloads : buf'[e] \notin pool'
  <2>1. ASSUME NEW e \in Downloads, e # d PROVE buf[e] \notin pool'
    BY <1>1, <1>2, <2>1, TransferAssumption DEF TypeOK
  <2>2. NoBuf \notin pool'
    BY <1>3, TransferAssumption DEF TypeOK
  <2> QED  BY <1>4, <1>5, <2>1, <2>2
<1>7. ASSUME NEW r \in handed' PROVE r.buf \notin pool' /\ \A e \in Downloads : buf'[e] # r.buf
  <2>1. r \in handed /\ r.buf \in Buffers /\ r.buf # NoBuf
    BY <1>2, <1>7, TransferAssumption DEF TypeOK
  <2> QED  BY <1>2, <1>4, <1>5, <2>1
<1>8. \A e, f \in Downloads : e # f /\ buf'[e] # NoBuf => buf'[e] # buf'[f]
  BY <1>4, <1>5
<1>9. BuffersExclusive'
  BY <1>3, <1>6, <1>7, <1>8
<1>10. StaysVerified'
  BY <1>2, <1>4, <1>5 DEF StaysVerified, Verified
<1> QED
  BY <1>2, <1>9, <1>10 DEF OneResult, WrittenIntact

\* The hash check accepts the piece, and the result keeps the buffer.
LEMMA VerifyStep ==
    ASSUME BufferInv, NEW d \in Downloads, VerifyOK(d), UNCHANGED kind
    PROVE  BufferInv'
<1> USE DEF BufferInv, BuffersExclusive
<1>1. /\ pc' = [pc EXCEPT ![d] = "send"] /\ pc[d] = "loop"
      /\ UNCHANGED <<piece, downloaded, requested, backlog, buf, owed, pool, cap, mem, handed,
                      disk>>
  BY DEF VerifyOK, KeepBuffer, xferVars
<1>2. TypeOK'
  <2>1. /\ pc' \in [Downloads -> {"idle", "loop", "send", "panicked"}]
        /\ \A e \in Downloads : buf'[e] = NoBuf <=> pc'[e] \in {"idle", "panicked"}
    BY <1>1 DEF TypeOK
  <2> QED  BY <1>1, <2>1 DEF TypeOK
<1>3. StaysVerified'
  <2>1. \A e \in Downloads : pc'[e] = "send" => Verified(buf[e], piece[e])
    BY <1>1 DEF VerifyOK, StaysVerified, TypeOK
  <2> QED  BY <1>1, <2>1 DEF StaysVerified, Verified
<1> QED
  BY <1>1, <1>2, <1>3 DEF OwedInPiece, OneResult, WrittenIntact

\* The collector takes the result: the buffer changes hands.
LEMMA HandOverStep ==
    ASSUME BufferInv, NEW d \in Downloads, HandOver(d), UNCHANGED kind
    PROVE  BufferInv'
<1> USE DEF BufferInv, BuffersExclusive
<1> DEFINE res == [piece |-> piece[d], buf |-> buf[d]]
<1>1. /\ pc' = [pc EXCEPT ![d] = "idle"] /\ buf' = [buf EXCEPT ![d] = NoBuf]
      /\ piece' = [piece EXCEPT ![d] = 0] /\ pc[d] = "send"
      /\ UNCHANGED <<owed, pool, cap, mem, disk>>
  BY DEF HandOver, Leave
<1>2. buf[d] \in Buffers /\ piece[d] \in Pieces
  BY <1>1 DEF TypeOK
<1>3. handed' = {res}
  BY DEF HandOver
<1>4. TypeOK'
  <2>1. /\ downloaded' \in [Downloads -> Nat] /\ requested' \in [Downloads -> Nat]
        /\ backlog' \in [Downloads -> Int]
    BY DEF HandOver, Leave, TypeOK
  <2>2. /\ pc' \in [Downloads -> {"idle", "loop", "send", "panicked"}] /\ piece' \in [Downloads -> Pieces]
        /\ buf' \in [Downloads -> Buffers \cup {NoBuf}]
        /\ \A e \in Downloads : buf'[e] = NoBuf <=> pc'[e] \in {"idle", "panicked"}
    BY <1>1, TransferAssumption DEF TypeOK
  <2> QED  BY <1>1, <1>2, <1>3, <2>1, <2>2 DEF TypeOK
<1>5. \A e \in Downloads : e # d => buf'[e] = buf[e] /\ pc'[e] = pc[e] /\ piece'[e] = piece[e]
  BY <1>1 DEF TypeOK
<1>6. buf'[d] = NoBuf /\ pc'[d] = "idle"
  BY <1>1 DEF TypeOK
<1>7. BuffersExclusive'
  <2>1. \A e \in Downloads : buf'[e] \notin pool' /\ buf'[e] # buf[d]
    <3>1. NoBuf \notin pool
      BY TransferAssumption DEF TypeOK
    <3>2. buf[d] # NoBuf /\ \A e \in Downloads : e # d => buf[e] # buf[d]
      BY <1>2, TransferAssumption
    <3> QED  BY <1>1, <1>5, <1>6, <3>1, <3>2
  <2>2. \A e, f \in Downloads : e # f /\ buf'[e] # NoBuf => buf'[e] # buf'[f]
    BY <1>5, <1>6
  <2>3. buf[d] \notin pool'
    BY <1>1
  <2> QED  BY <1>3, <1>4, <2>1, <2>2, <2>3
<1>8. StaysVerified'
  <2>1. Verified(res.buf, res.piece)
    BY <1>1 DEF StaysVerified
  <2> QED  BY <1>1, <1>3, <1>5, <1>6, <2>1 DEF StaysVerified, Verified
<1> QED
  BY <1>1, <1>3, <1>7, <1>8 DEF OwedInPiece, OneResult, WrittenIntact

\* WritePiece is given what the hash check saw.
LEMMA WriteStep ==
    ASSUME BufferInv, NEW r \in handed, Write(r), UNCHANGED kind
    PROVE  BufferInv'
<1> USE DEF BufferInv, BuffersExclusive
<1>1. r.piece \in Pieces /\ r.buf \in Buffers
  BY DEF TypeOK
<1>2. handed' = {}
  BY DEF Write, OneResult
<1>3. UNCHANGED <<pc, piece, downloaded, requested, backlog, buf, owed, pool>>
  BY DEF Write, xferVars
<1>4. TypeOK'
  <2>1. /\ cap' \in [Buffers -> Nat] /\ mem' \in [Buffers -> [Offsets -> Pieces \cup {Junk}]]
        /\ DOMAIN disk' = Pieces
    BY DEF Write, TypeOK, Zeros
  <2> QED  BY <1>2, <1>3, <2>1 DEF TypeOK
<1>5. StaysVerified'
  <2>1. ASSUME NEW e \in Downloads, pc[e] = "send" PROVE mem'[buf[e]] = mem[buf[e]]
    BY <2>1 DEF Write, TypeOK
  <2> QED  BY <1>2, <1>3, <2>1 DEF StaysVerified, Verified
<1>6. WrittenIntact'
  <2>1. Prefix(r.buf, r.piece) = [i \in 0 .. Sizes[r.piece] - 1 |-> r.piece]
    BY DEF Prefix, StaysVerified, Verified
  <2>2. \A p \in Pieces :
          disk'[p] = IF p = r.piece THEN disk[p] \cup {Prefix(r.buf, r.piece)} ELSE disk[p]
    BY <1>1 DEF Write, TypeOK
  <2> DEFINE All(p) == [i \in 0 .. Sizes[p] - 1 |-> p]
  <2>3. \A p \in Pieces : disk[p] \subseteq {All(p)}
    BY DEF WrittenIntact
  <2>4. Prefix(r.buf, r.piece) = All(r.piece)
    BY <2>1
  <2> SUFFICES ASSUME NEW p \in Pieces PROVE disk'[p] \subseteq {All(p)}
    BY DEF WrittenIntact
  <2> HIDE DEF All
  <2>5. CASE p = r.piece
    <3>1. disk'[p] = disk[p] \cup {All(p)}
      BY <2>2, <2>4, <2>5
    <3> QED  BY <2>3, <3>1
  <2>6. CASE p # r.piece
    BY <2>2, <2>3, <2>6
  <2> QED  BY <2>5, <2>6
<1> QED
  BY <1>2, <1>3, <1>4, <1>5, <1>6 DEF OwedInPiece, OneResult

\* BufferInv is inductive.
LEMMA BufferStep == BufferInv /\ [Next]_vars => BufferInv'
<1> SUFFICES ASSUME BufferInv, [Next]_vars PROVE BufferInv'
  OBVIOUS
<1>1. owed \in [Downloads -> SUBSET (Pieces \X Offsets \X {"new", "late"})]
  BY DEF BufferInv, BuffersExclusive, TypeOK
<1>2. CASE UNCHANGED vars
  BY <1>2
  DEF vars, xferVars, BufferInv, BuffersExclusive, TypeOK, OwedInPiece, OneResult,
      StaysVerified, Verified, WrittenIntact
<1>3. ASSUME NEW d \in Downloads, NEW r \in owed[d], Answer(d, r), UNCHANGED kind
      PROVE  BufferInv'
  <2>1. /\ owed' \in [Downloads -> SUBSET (Pieces \X Offsets \X {"new", "late"})]
        /\ \A e \in Downloads : owed'[e] \subseteq owed[e]
    BY <1>1, <1>3 DEF Answer
  <2> DEFINE m == [idx |-> r[1], begin |-> r[2], len |-> BlockLen(r[1], r[2]), data |-> r[1]]
  <2>2. m \in Blocks /\ RecvBlock(d, m)
    BY <1>3, AnswerBlock DEF Answer
  <2> HIDE DEF m
  <2> QED  BY <1>3, <2>1, <2>2, BlockStep
<1>4. ASSUME NEW d \in Downloads, NEW m \in Blocks, Unsolicited(d, m), UNCHANGED kind
      PROVE  BufferInv'
  BY <1>1, <1>4, BlockStep DEF Unsolicited
<1>5. ASSUME NEW d \in Downloads, RecvChoke(d) \/ ConnFail(d) \/ HashMismatch(d),
             UNCHANGED kind
      PROVE  BufferInv'
  <2>1. pc[d] = "loop" /\ Release(d)
    BY <1>5 DEF RecvChoke, ConnFail, HashMismatch, Receiving
  <2>2. \/ owed' = [owed EXCEPT ![d] = {}]
        \/ owed' = [owed EXCEPT ![d] = {<<r[1], r[2], "late">> : r \in @}]
    BY <1>5 DEF RecvChoke, ConnFail, HashMismatch
  <2>3. /\ owed' \in [Downloads -> SUBSET (Pieces \X Offsets \X {"new", "late"})]
        /\ OwedInPiece'
    <3>1. CASE owed' = [owed EXCEPT ![d] = {}]
      BY <1>1, <3>1 DEF OwedInPiece, BufferInv
    <3>2. CASE owed' = [owed EXCEPT ![d] = {<<r[1], r[2], "late">> : r \in @}]
      <4> DEFINE late == {<<r[1], r[2], "late">> : r \in owed[d]}
      <4>1. /\ late \in SUBSET (Pieces \X Offsets \X {"new", "late"})
            /\ \A r \in late : r[2] < Sizes[r[1]]
        BY <1>1 DEF OwedInPiece, BufferInv
      <4>2. \A e \in Downloads : owed'[e] = IF e = d THEN late ELSE owed[e]
        BY <1>1, <3>2
      <4>3. owed' \in [Downloads -> SUBSET (Pieces \X Offsets \X {"new", "late"})]
        BY <1>1, <3>2, <4>1
      <4> HIDE DEF late
      <4> QED  BY <4>1, <4>2, <4>3 DEF OwedInPiece, BufferInv
    <3> QED  BY <2>2, <3>1, <3>2
  <2> QED  BY <1>5, <2>1, <2>3, ReleaseStep
<1> QED
  BY <1>2, <1>3, <1>4, <1>5, BeginStep, PanicStep, RequestStep, VerifyStep, HandOverStep, WriteStep
  DEF Next, Step

\* Nobody shares a buffer that is being filled, sent or written, whatever the
\* pool returns and however the downloads interleave.
THEOREM BuffersExclusiveHolds == Spec => []BuffersExclusive
<1>1. BufferInv => BuffersExclusive
  BY DEF BufferInv
<1> QED  BY <1>1, BufferInit, BufferStep, PTL DEF Spec

\* Only verified data reaches WritePiece, although buffers are reused with stale
\* contents while results wait and the collector writes.
THEOREM WrittenIntactHolds == Spec => []WrittenIntact
<1>1. BufferInv => WrittenIntact
  BY DEF BufferInv
<1> QED  BY <1>1, BufferInit, BufferStep, PTL DEF Spec

-----------------------------------------------------------------------------
(* The pipeline with a peer that answers every request once                *)

\* The bytes of n whole blocks.
Load(n) == BlockSize * n

\* Of the O requests for piece p that are out, each is for its own block below
\* req, and the bytes below req that are not being waited for are in the
\* buffer m.
RequestsApart(p, req, O, m) ==
    /\ req <= Sizes[p]
    /\ \A r \in O : r[1] = p /\ r[3] = "new" /\ r[2] + BlockLen(p, r[2]) <= req
    /\ \A r, s \in O : r[2] < s[2] => r[2] + BlockSize <= s[2]
    /\ \A i \in Nat : i < req =>
          m[i] = p \/ \E r \in O : r[2] <= i /\ i < r[2] + BlockLen(p, r[2])

\* The counters of DownloadPiece: what was requested is there or owed, where
\* only the last block of a piece is shorter than BlockSize.
CountersAgree(p, down, req, back, O) ==
    /\ IsFiniteSet(O) /\ back = Cardinality(O) /\ back <= MaxBacklog
    /\ (\A r \in O : r[2] + BlockSize <= Sizes[p]) => down = req - Load(back)
    /\ \A r \in O : r[2] + BlockSize > Sizes[p] =>
          down = req - Load(back) + (r[2] + BlockSize - Sizes[p])

\* Both, with the types of the local variables.
Pipeline(p, down, req, back, O, m) ==
    /\ p \in Pieces /\ down \in Nat /\ req \in Nat /\ back \in Int
    /\ O \in SUBSET (Pieces \X Nat \X {"new", "late"})
    /\ \A r \in O : r[2] < Sizes[r[1]]
    /\ RequestsApart(p, req, O, m)
    /\ CountersAgree(p, down, req, back, O)

\* The block of request r was copied into the buffer: m before, n after.
Filled(p, req, r, m, n) ==
    \A i \in Nat : i < req =>
        n[i] = IF r[2] <= i /\ i < r[2] + BlockLen(p, r[2]) THEN p ELSE m[i]

\* The buffer m holds piece p.
Whole(p, m) == \A i \in 0 .. Sizes[p] - 1 : m[i] = p

\* The inductive invariant of HonestPipeline.
PipelineAt(d) ==
    /\ pc[d] # "loop" => owed[d] = {}
    /\ pc[d] = "idle" => downloaded[d] = 0 /\ requested[d] = 0 /\ backlog[d] = 0
    /\ pc[d] = "loop" =>
          /\ RequestsApart(piece[d], requested[d], owed[d], mem[buf[d]])
          /\ CountersAgree(piece[d], downloaded[d], requested[d], backlog[d], owed[d])
PipelineInv == \A d \in Downloads : kind[d] = "honest" => PipelineAt(d)

\* A whole block more or less.
LEMMA LoadStep ==
    /\ Load(0) = 0
    /\ \A n \in Int : Load(n) \in Int /\ Load(n + 1) = Load(n) + BlockSize
    /\ \A n \in Int : Load(n - 1) = Load(n) - BlockSize
    /\ \A n \in Nat : n # 0 => Load(n) >= BlockSize
<1>1. BlockSize \in Nat /\ BlockSize > 0
  BY TransferAssumption
<1>2. \A n \in Int : BlockSize * n \in Int /\ BlockSize * (n + 1) = BlockSize * n + BlockSize
  BY <1>1
<1>3. \A n \in Int : BlockSize * (n - 1) = BlockSize * n - BlockSize
  BY <1>1
<1>4. ASSUME NEW n \in Nat, n # 0 PROVE BlockSize * n >= BlockSize
  <2>1. n - 1 \in Nat /\ BlockSize * (n - 1) \in Nat
    BY <1>1, <1>4
  <2>2. BlockSize * n = BlockSize * (n - 1) + BlockSize
    BY <1>1
  <2> QED  BY <1>1, <2>1, <2>2
<1>5. BlockSize * 0 = 0
  BY <1>1
<1> QED  BY <1>2, <1>3, <1>4, <1>5 DEF Load

\* A request for the next block keeps the requests apart and the counters in
\* step.
LEMMA RequestKeeps ==
    ASSUME NEW p, NEW down, NEW req, NEW back, NEW m,
           NEW O, Pipeline(p, down, req, back, O, m),
           req < Sizes[p], back < MaxBacklog
    PROVE  /\ RequestsApart(p, req + BlockLen(p, req), O \cup {<<p, req, "new">>}, m)
           /\ CountersAgree(p, down, req + BlockLen(p, req), back + 1,
                            O \cup {<<p, req, "new">>})
<1> USE DEF Pipeline
<1> DEFINE s == <<p, req, "new">>
           P == O \cup {s}
           end == req + BlockLen(p, req)
<1>1. Sizes[p] \in Nat /\ BlockSize \in Nat /\ MaxBacklog \in Nat
  BY TransferAssumption, PieceLengths
<1>2. /\ BlockLen(p, req) \in Nat /\ BlockLen(p, req) >= 1 /\ end <= Sizes[p]
      /\ req + BlockSize > Sizes[p] => end = Sizes[p]
      /\ req + BlockSize <= Sizes[p] => end = req + BlockSize
  BY <1>1, BlockLenBound
\* The requests that are out are for whole blocks.
<1>3. ASSUME NEW r \in O
      PROVE  r[1] = p /\ r[2] \in Nat /\ r[2] + BlockSize <= req /\ BlockLen(p, r[2]) = BlockSize
  <2>1. r[1] = p /\ r[2] \in Nat /\ r[2] < Sizes[p] /\ r[2] + BlockLen(p, r[2]) <= req
    BY DEF RequestsApart
  <2>2. /\ r[2] + BlockSize > Sizes[p] => r[2] + BlockLen(p, r[2]) = Sizes[p]
        /\ r[2] + BlockSize <= Sizes[p] => BlockLen(p, r[2]) = BlockSize
    BY <2>1, BlockLenBound
  <2> QED  BY <1>1, <2>1, <2>2
<1>4. BlockSize >= 1 /\ s \notin O
  BY <1>1, <1>3, TransferAssumption
<1>5. s[1] = p /\ s[2] = req /\ s[3] = "new"
  OBVIOUS
<1>6. RequestsApart(p, end, P, m)
  <2>1. \A r \in P : r[1] = p /\ r[3] = "new" /\ r[2] + BlockLen(p, r[2]) <= end
    <3>1. ASSUME NEW r \in O PROVE r[1] = p /\ r[3] = "new" /\ r[2] + BlockLen(p, r[2]) <= end
      BY <1>1, <1>2, <1>3 DEF RequestsApart
    <3>2. s[1] = p /\ s[3] = "new" /\ s[2] + BlockLen(p, s[2]) <= end
      BY <1>2, <1>5
    <3> QED  BY <3>1, <3>2
  <2>2. \A r, t \in P : r[2] < t[2] => r[2] + BlockSize <= t[2]
    <3>1. \A r, t \in O : r[2] < t[2] => r[2] + BlockSize <= t[2]
      BY DEF RequestsApart
    <3>2. \A r \in O : r[2] \in Nat /\ r[2] + BlockSize <= s[2] /\ ~(s[2] < r[2])
      BY <1>1, <1>3, <1>5
    <3>3. ~(s[2] < s[2])
      BY <1>5
    <3> HIDE DEF s
    <3> QED  BY <3>1, <3>2, <3>3
  <2>3. ASSUME NEW i \in Nat, i < end, m[i] # p
        PROVE  \E r \in P : r[2] <= i /\ i < r[2] + BlockLen(p, r[2])
    <3>1. CASE i < req
      BY <2>3, <3>1 DEF RequestsApart
    <3>2. CASE i >= req
      <4>1. s[2] <= i /\ i < s[2] + BlockLen(p, s[2]) /\ s \in P
        BY <1>5, <2>3, <3>2
      <4> QED  BY <4>1
    <3> QED  BY <3>1, <3>2
  <2> HIDE DEF P, end
  <2> QED  BY <1>2, <2>1, <2>2, <2>3 DEF RequestsApart, end
<1>7. CountersAgree(p, down, end, back + 1, P)
  <2>1. IsFiniteSet(P) /\ Cardinality(P) = back + 1
    BY <1>4, FS_AddElement DEF CountersAgree
  <2>2. \A r \in O : r[2] \in Nat /\ r[2] + BlockSize <= Sizes[p]
    BY <1>1, <1>3
  <2>3. down = req - Load(back)
    BY <2>2 DEF CountersAgree
  <2>4. Load(back) \in Int /\ Load(back + 1) = Load(back) + BlockSize
    BY LoadStep
  <2>5. CASE req + BlockSize <= Sizes[p]
    <3>1. \A r \in P : ~(r[2] + BlockSize > Sizes[p])
      BY <1>1, <1>5, <2>2, <2>5
    <3>2. down = end - Load(back + 1)
      BY <1>1, <1>2, <2>3, <2>4, <2>5
    <3> HIDE DEF P, end
    <3> QED  BY <1>1, <2>1, <3>1, <3>2 DEF CountersAgree
  <2>6. CASE req + BlockSize > Sizes[p]
    <3>1. down = end - Load(back + 1) + (req + BlockSize - Sizes[p])
      BY <1>1, <1>2, <2>3, <2>4, <2>6
    <3>2. \A r \in P : r[2] + BlockSize > Sizes[p] => r = s
      BY <1>1, <2>2
    <3>3. s \in P /\ ~(s[2] + BlockSize <= Sizes[p])
      BY <1>1, <1>5, <2>6
    <3> HIDE DEF P, end, s
    <3> QED  BY <1>1, <1>5, <2>1, <3>1, <3>2, <3>3 DEF CountersAgree
  <2> QED  BY <1>1, <2>5, <2>6
<1> QED  BY <1>6, <1>7

\* The answer to a request, copied into the buffer, does too.
LEMMA AnswerKeeps ==
    ASSUME NEW p, NEW down, NEW req, NEW back, NEW m, NEW n,
           NEW O, Pipeline(p, down, req, back, O, m),
           NEW r \in O, Filled(p, req, r, m, n)
    PROVE  /\ RequestsApart(p, req, O \ {r}, n)
           /\ CountersAgree(p, down + BlockLen(p, r[2]), req, back - 1, O \ {r})
<1> USE DEF Pipeline, Filled
<1> DEFINE P == O \ {r}
<1>1. Sizes[p] \in Nat /\ BlockSize \in Nat /\ MaxBacklog \in Nat
  BY TransferAssumption, PieceLengths
<1>2. \A t \in O : t[1] = p /\ t[2] \in Nat /\ t[2] < Sizes[p] /\ t[3] = "new"
  BY DEF RequestsApart
<1>3. /\ BlockLen(p, r[2]) \in Nat
      /\ r[2] + BlockSize > Sizes[p] => r[2] + BlockLen(p, r[2]) = Sizes[p]
      /\ r[2] + BlockSize <= Sizes[p] => BlockLen(p, r[2]) = BlockSize
  BY <1>1, <1>2, BlockLenBound
<1>4. \A s, t \in O : s[2] < t[2] => s[2] + BlockSize <= t[2]
  BY DEF RequestsApart
<1>5. RequestsApart(p, req, P, n)
  <2>1. ASSUME NEW i \in Nat, i < req, n[i] # p
        PROVE  \E t \in P : t[2] <= i /\ i < t[2] + BlockLen(p, t[2])
    <3>1. ~(r[2] <= i /\ i < r[2] + BlockLen(p, r[2])) /\ m[i] # p
      BY <2>1
    <3>2. \E t \in O : t[2] <= i /\ i < t[2] + BlockLen(p, t[2])
      BY <2>1, <3>1 DEF RequestsApart
    <3> QED  BY <3>1, <3>2
  <2>2. /\ req <= Sizes[p]
        /\ \A t \in P : t[1] = p /\ t[3] = "new" /\ t[2] + BlockLen(p, t[2]) <= req
    BY DEF RequestsApart
  <2>3. \A s, t \in P : s[2] < t[2] => s[2] + BlockSize <= t[2]
    BY <1>4
  <2> HIDE DEF P
  <2> QED  BY <2>1, <2>2, <2>3 DEF RequestsApart
<1>6. CountersAgree(p, down + BlockLen(p, r[2]), req, back - 1, P)
  <2>1. IsFiniteSet(P) /\ Cardinality(P) = back - 1 /\ back - 1 <= MaxBacklog
    BY <1>1, FS_RemoveElement DEF CountersAgree
  <2>2. Load(back) \in Int /\ Load(back - 1) = Load(back) - BlockSize
    BY LoadStep
  <2>3. CASE r[2] + BlockSize <= Sizes[p]
    <3>1. ASSUME \A t \in P : t[2] + BlockSize <= Sizes[p]
          PROVE  down + BlockLen(p, r[2]) = req - Load(back - 1)
      <4>1. \A t \in O : t[2] + BlockSize <= Sizes[p]
        BY <2>3, <3>1
      <4>2. down = req - Load(back)
        BY <4>1 DEF CountersAgree
      <4> QED  BY <1>1, <1>3, <2>2, <2>3, <4>2
    <3>2. ASSUME NEW t \in P, t[2] + BlockSize > Sizes[p]
          PROVE  down + BlockLen(p, r[2]) = req - Load(back - 1) + (t[2] + BlockSize - Sizes[p])
      <4>1. down = req - Load(back) + (t[2] + BlockSize - Sizes[p])
        BY <3>2 DEF CountersAgree
      <4>2. t[2] \in Nat /\ BlockLen(p, r[2]) = BlockSize
        BY <1>2, <1>3, <2>3
      <4> QED  BY <1>1, <2>2, <4>1, <4>2
    <3> HIDE DEF P
    <3> QED  BY <2>1, <3>1, <3>2 DEF CountersAgree
  <2>4. CASE r[2] + BlockSize > Sizes[p]
    <3>1. ASSUME NEW t \in P PROVE ~(t[2] + BlockSize > Sizes[p])
      <4>1. t[2] \in Nat /\ r[2] \in Nat /\ t[2] < Sizes[p]
        BY <1>2
      <4>2. t[2] # r[2]
        BY <1>2
      <4>3. (t[2] < r[2] => t[2] + BlockSize <= r[2]) /\ (r[2] < t[2] => r[2] + BlockSize <= t[2])
        BY <1>4
      <4>4. r[2] < Sizes[p]
        BY <1>2
      <4> QED  BY <1>1, <2>4, <4>1, <4>2, <4>3, <4>4
    <3>2. down = req - Load(back) + (r[2] + BlockSize - Sizes[p])
      BY <2>4 DEF CountersAgree
    <3>3. r[2] \in Nat /\ BlockLen(p, r[2]) = Sizes[p] - r[2]
      BY <1>1, <1>2, <1>3, <2>4
    <3>4. down + BlockLen(p, r[2]) = req - Load(back - 1)
      BY <1>1, <2>2, <3>2, <3>3
    <3> HIDE DEF P
    <3> QED  BY <2>1, <3>1, <3>4 DEF CountersAgree
  <2> QED  BY <1>1, <1>2, <2>3, <2>4
<1> QED  BY <1>5, <1>6

\* With as many bytes as the piece has, no request is out and every byte is
\* the piece's.
LEMMA CompleteIsVerified ==
    ASSUME NEW p, NEW down, NEW req, NEW back, NEW m,
           NEW O, Pipeline(p, down, req, back, O, m),
           ~(down < Sizes[p])
    PROVE  O = {} /\ Whole(p, m)
<1> USE DEF Pipeline
<1>1. Sizes[p] \in Nat /\ BlockSize \in Nat /\ BlockSize > 0 /\ req <= Sizes[p]
  BY TransferAssumption, PieceLengths DEF RequestsApart
<1>2. back = Cardinality(O) /\ IsFiniteSet(O)
  BY DEF CountersAgree
<1>3. back \in Nat /\ (back = 0 <=> O = {})
  BY <1>2, FS_CardinalityType, FS_EmptySet
<1>4. Load(back) \in Int /\ (back # 0 => Load(back) >= BlockSize) /\ Load(0) = 0
  BY <1>3, LoadStep
<1>5. ASSUME back # 0 PROVE FALSE
  <2>1. \A r \in O : r[2] \in Nat /\ r[2] < Sizes[p]
    BY DEF RequestsApart
  <2>2. CASE \A r \in O : r[2] + BlockSize <= Sizes[p]
    BY <1>1, <1>4, <1>5, <2>2 DEF CountersAgree
  <2>3. ASSUME NEW r \in O, r[2] + BlockSize > Sizes[p] PROVE FALSE
    <3>1. down = req - Load(back) + (r[2] + BlockSize - Sizes[p])
      BY <2>3 DEF CountersAgree
    <3> QED  BY <1>1, <1>4, <1>5, <2>1, <3>1
  <2> QED  BY <1>1, <2>1, <2>2, <2>3
<1>6. O = {} /\ down = req
  BY <1>1, <1>3, <1>4, <1>5 DEF CountersAgree
<1> QED  BY <1>1, <1>6 DEF RequestsApart, Whole

\* At the start of a download nothing is requested.
LEMMA EmptyPipeline ==
    ASSUME NEW p \in Pieces, NEW m
    PROVE  RequestsApart(p, 0, {}, m) /\ CountersAgree(p, 0, 0, 0, {})
<1>1. Sizes[p] \in Nat /\ MaxBacklog \in Nat
  BY TransferAssumption, PieceLengths
<1>2. IsFiniteSet({}) /\ Cardinality({}) = 0
  BY FS_EmptySet
<1> QED  BY <1>1, <1>2, LoadStep DEF RequestsApart, CountersAgree

\* A step that changes nothing a download e can see.
Untouched(e) ==
    /\ pc'[e] = pc[e] /\ piece'[e] = piece[e] /\ buf'[e] = buf[e] /\ owed'[e] = owed[e]
    /\ downloaded'[e] = downloaded[e] /\ requested'[e] = requested[e]
    /\ backlog'[e] = backlog[e]
    /\ pc[e] = "loop" => mem'[buf[e]] = mem[buf[e]]

\* What one download does, the others do not see: the buffers are exclusive.
LEMMA OthersUntouched ==
    ASSUME BufferInv, NEW d \in Downloads, NEW e \in Downloads, e # d,
           \/ \E p \in Pieces, b \in Buffers : ReuseBuffer(d, p, b) \/ AllocBuffer(d, p, b)
           \/ \E p \in DOMAIN Sizes : BufferPanics(d, p)
           \/ SendRequest(d)
           \/ \E r \in owed[d] : Answer(d, r)
           \/ \E m \in Blocks : Unsolicited(d, m)
           \/ RecvChoke(d) \/ ConnFail(d) \/ VerifyOK(d) \/ HashMismatch(d) \/ HandOver(d)
    PROVE  Untouched(e)
<1> USE DEF Untouched
<1>1. TypeOK
  BY DEF BufferInv, BuffersExclusive
<1>2. ASSUME NEW p \in Pieces, NEW b \in Buffers, ReuseBuffer(d, p, b) \/ AllocBuffer(d, p, b)
      PROVE  Untouched(e)
  <2>1. ASSUME pc[e] = "loop" PROVE buf[e] \in Buffers /\ buf[e] # b /\ buf[e] \notin pool
    BY <1>1, <1>2, <2>1
    DEF ReuseBuffer, AllocBuffer, InUse, BufferInv, BuffersExclusive, TypeOK
  <2>2. ASSUME pc[e] = "loop" PROVE mem'[buf[e]] = mem[buf[e]]
    BY <1>2, <2>1, <2>2 DEF ReuseBuffer, AllocBuffer
  <2> QED  BY <1>1, <1>2, <2>2 DEF ReuseBuffer, AllocBuffer, Begin, TypeOK
<1>3. CASE SendRequest(d)
  BY <1>1, <1>3 DEF SendRequest, TypeOK
<1>4. ASSUME NEW m, RecvBlock(d, m), owed'[e] = owed[e] PROVE Untouched(e)
  <2>1. ASSUME pc[e] = "loop" PROVE buf[e] \in Buffers /\ buf[e] # buf[d]
    BY <1>1, <2>1 DEF BufferInv, BuffersExclusive, TypeOK
  <2>2. ASSUME pc[e] = "loop" PROVE mem'[buf[e]] = mem[buf[e]]
    BY <1>1, <1>4, <2>1, <2>2 DEF RecvBlock, Accept, TypeOK
  <2> QED  BY <1>1, <1>4, <2>2 DEF RecvBlock, Accept, TypeOK
<1>5. ASSUME NEW r, Answer(d, r) PROVE Untouched(e)
  <2>1. owed'[e] = owed[e]
    BY <1>1, <1>5 DEF Answer, TypeOK
  <2> HIDE DEF Untouched
  <2> QED  BY <1>4, <1>5, <2>1 DEF Answer
<1>6. ASSUME NEW m, Unsolicited(d, m) PROVE Untouched(e)
  <2> HIDE DEF Untouched
  <2> QED  BY <1>4, <1>6 DEF Unsolicited
<1>7. ASSUME RecvChoke(d) \/ ConnFail(d) \/ HashMismatch(d) PROVE Untouched(e)
  <2>1. Release(d)
    BY <1>7 DEF RecvChoke, ConnFail, HashMismatch
  <2>2. owed'[e] = owed[e]
    BY <1>1, <1>7 DEF RecvChoke, ConnFail, HashMismatch, TypeOK
  <2> QED  BY <1>1, <2>1, <2>2 DEF Release, Leave, TypeOK
<1>8. CASE VerifyOK(d)
  BY <1>1, <1>8 DEF VerifyOK, KeepBuffer, xferVars, TypeOK
<1>9. CASE HandOver(d)
  BY <1>1, <1>9 DEF HandOver, Leave, TypeOK
<1>10. CASE \E p \in DOMAIN Sizes : BufferPanics(d, p)
  BY <1>1, <1>10 DEF BufferPanics, xferVars, TypeOK
<1> HIDE DEF Untouched
<1> QED  BY <1>2, <1>3, <1>5, <1>6, <1>7, <1>8, <1>9, <1>10

\* The collector's write is seen by no download either.
LEMMA WriteUntouched ==
    ASSUME BufferInv, NEW r \in handed, Write(r), NEW e \in Downloads
    PROVE  Untouched(e)
<1>1. buf[e] # r.buf
  BY DEF BufferInv, BuffersExclusive
<1>2. pc[e] = "loop" => buf[e] \in Buffers
  BY DEF BufferInv, BuffersExclusive, TypeOK
<1> QED  BY <1>1, <1>2 DEF Write, Untouched, xferVars, BufferInv, BuffersExclusive, TypeOK

\* The types of the local variables of a download.
LEMMA LocalTypes ==
    ASSUME BufferInv, NEW d \in Downloads
    PROVE  /\ piece[d] \in Pieces /\ downloaded[d] \in Nat /\ requested[d] \in Nat
           /\ backlog[d] \in Int
           /\ owed[d] \in SUBSET (Pieces \X Nat \X {"new", "late"})
           /\ \A r \in owed[d] : r[2] < Sizes[r[1]]
<1>1. TypeOK
  BY DEF BufferInv, BuffersExclusive
<1>2. owed[d] \in SUBSET (Pieces \X Offsets \X {"new", "late"})
  BY <1>1 DEF TypeOK
<1>3. (Pieces \X Offsets \X {"new", "late"}) \subseteq (Pieces \X Nat \X {"new", "late"})
  BY OffsetInPiece
<1>4. \A r \in owed[d] : r[2] < Sizes[r[1]]
  BY DEF BufferInv, OwedInPiece
<1>5. owed[d] \in SUBSET (Pieces \X Nat \X {"new", "late"})
  BY <1>2, <1>3
<1> QED  BY <1>1, <1>4, <1>5 DEF TypeOK

\* An honest download goes through its own steps.
LEMMA PipelineOwnStep ==
    ASSUME BufferInv, NEW d \in Downloads, kind[d] = "honest", PipelineAt(d),
           \/ \E p \in Pieces, b \in Buffers : ReuseBuffer(d, p, b) \/ AllocBuffer(d, p, b)
           \/ \E p \in DOMAIN Sizes : BufferPanics(d, p)
           \/ SendRequest(d)
           \/ \E r \in owed[d] : Answer(d, r)
           \/ \E m \in Blocks : Unsolicited(d, m)
           \/ RecvChoke(d) \/ ConnFail(d) \/ VerifyOK(d) \/ HashMismatch(d) \/ HandOver(d)
    PROVE  PipelineAt(d)'
<1>1. TypeOK
  BY DEF BufferInv, BuffersExclusive
<1>2. /\ piece[d] \in Pieces /\ downloaded[d] \in Nat /\ requested[d] \in Nat
      /\ backlog[d] \in Int
      /\ owed[d] \in SUBSET (Pieces \X Nat \X {"new", "late"})
  BY LocalTypes
<1>3. \A r \in owed[d] : r[2] < Sizes[r[1]]
  BY LocalTypes
<1>4. ASSUME NEW p \in Pieces, NEW b \in Buffers, ReuseBuffer(d, p, b) \/ AllocBuffer(d, p, b)
      PROVE  PipelineAt(d)'
  <2>1. Begin(d, p)
    BY <1>4 DEF ReuseBuffer, AllocBuffer
  <2>2. /\ pc'[d] = "loop" /\ piece'[d] = p /\ owed'[d] = {}
        /\ downloaded'[d] = 0 /\ requested'[d] = 0 /\ backlog'[d] = 0
    BY <1>1, <2>1 DEF Begin, TypeOK, PipelineAt
  <2> QED  BY <2>2, EmptyPipeline DEF PipelineAt
<1>5. CASE SendRequest(d)
  <2>1. /\ pc'[d] = "loop" /\ pc[d] = "loop" /\ piece'[d] = piece[d] /\ buf'[d] = buf[d]
        /\ mem' = mem /\ downloaded'[d] = downloaded[d]
        /\ requested'[d] = requested[d] + BlockLen(piece[d], requested[d])
        /\ backlog'[d] = backlog[d] + 1
        /\ owed'[d] = owed[d] \cup {<<piece[d], requested[d], "new">>}
        /\ requested[d] < Sizes[piece[d]] /\ backlog[d] < MaxBacklog
    BY <1>1, <1>5 DEF SendRequest, CanRequest, Requested, TypeOK
  <2>2. /\ RequestsApart(piece[d], requested[d], owed[d], mem[buf[d]])
        /\ CountersAgree(piece[d], downloaded[d], requested[d], backlog[d], owed[d])
    BY <2>1 DEF PipelineAt
  <2>3. /\ RequestsApart(piece[d], requested'[d], owed'[d], mem[buf[d]])
        /\ CountersAgree(piece[d], downloaded[d], requested'[d], backlog'[d], owed'[d])
    <3>1. Pipeline(piece[d], downloaded[d], requested[d], backlog[d], owed[d], mem[buf[d]])
      BY <1>2, <1>3, <2>2 DEF Pipeline
    <3>2. requested[d] < Sizes[piece[d]] /\ backlog[d] < MaxBacklog
      BY <2>1
    <3>3. /\ RequestsApart(piece[d], requested[d] + BlockLen(piece[d], requested[d]),
                           owed[d] \cup {<<piece[d], requested[d], "new">>}, mem[buf[d]])
          /\ CountersAgree(piece[d], downloaded[d],
                           requested[d] + BlockLen(piece[d], requested[d]), backlog[d] + 1,
                           owed[d] \cup {<<piece[d], requested[d], "new">>})
      BY <3>1, <3>2, RequestKeeps, Zenon
    <3> QED  BY <2>1, <3>3
  <2> QED  BY <2>1, <2>3 DEF PipelineAt
<1>6. ASSUME NEW r \in owed[d], Answer(d, r) PROVE PipelineAt(d)'
  <2> DEFINE p == piece[d]
             len == BlockLen(p, r[2])
  <2>1. /\ pc[d] = "loop" /\ pc'[d] = "loop" /\ piece'[d] = p /\ buf'[d] = buf[d]
        /\ requested'[d] = requested[d] /\ owed'[d] = owed[d] \ {r}
    BY <1>1, <1>6 DEF Answer, RecvBlock, Receiving, TypeOK
  <2>2. /\ RequestsApart(p, requested[d], owed[d], mem[buf[d]])
        /\ CountersAgree(p, downloaded[d], requested[d], backlog[d], owed[d])
    BY <2>1 DEF PipelineAt
  <2>3. r[1] = p /\ r[2] \in Nat /\ r[2] < Sizes[p] /\ requested[d] <= Sizes[p]
    BY <1>2, <1>3, <2>2 DEF RequestsApart
  <2>4. len \in Nat /\ r[2] + len <= Sizes[p]
    <3>1. len \in 1 .. BlockSize /\ r[2] + len <= Sizes[p]
      BY <1>2, <2>3, BlockLenBound
    <3>2. BlockSize \in Nat
      BY TransferAssumption
    <3> HIDE DEF len
    <3> QED  BY <3>1, <3>2
  <2>5. Accept(d, [idx |-> r[1], begin |-> r[2], len |-> BlockLen(r[1], r[2]), data |-> r[1]])
    BY <1>6, <2>3, <2>4 DEF Answer, RecvBlock, Fits
  <2>6. /\ mem' = [mem EXCEPT ![buf[d]] =
                     [i \in Offsets |-> IF i \in r[2] .. r[2] + len - 1 THEN p ELSE @[i]]]
        /\ downloaded'[d] = downloaded[d] + len
        /\ backlog'[d] = backlog[d] - 1
    BY <1>1, <2>3, <2>5 DEF Accept, TypeOK
  <2>7. buf[d] \in Buffers
    BY <1>1, <2>1 DEF TypeOK
  <2>8. \A i \in Offsets :
          mem'[buf[d]][i] = IF i \in r[2] .. r[2] + len - 1 THEN p ELSE mem[buf[d]][i]
    BY <1>1, <2>6, <2>7 DEF TypeOK
  <2>9. ASSUME NEW i \in Nat, i < requested[d]
        PROVE  mem'[buf[d]][i] = IF r[2] <= i /\ i < r[2] + len THEN p ELSE mem[buf[d]][i]
    <3>1. i \in Offsets
      <4>1. Sizes[p] \in Nat
        BY <1>2, PieceLengths
      <4>2. i < Sizes[p]
        BY <1>2, <2>3, <2>9, <4>1
      <4> QED  BY <1>2, <4>2, OffsetInPiece
    <3>2. i \in r[2] .. r[2] + len - 1 <=> r[2] <= i /\ i < r[2] + len
      BY <2>3, <2>4
    <3> HIDE DEF len, p
    <3> QED  BY <2>8, <3>1, <3>2
  <2>10. /\ RequestsApart(p, requested[d], owed[d] \ {r}, mem'[buf[d]])
         /\ CountersAgree(p, downloaded[d] + len, requested[d], backlog[d] - 1, owed[d] \ {r})
    <3>1. Filled(p, requested[d], r, mem[buf[d]], mem'[buf[d]])
      BY <2>9 DEF Filled
    <3>2. Pipeline(p, downloaded[d], requested[d], backlog[d], owed[d], mem[buf[d]])
      BY <1>2, <1>3, <2>2 DEF Pipeline
    <3> QED  BY <1>6, <3>1, <3>2, AnswerKeeps, Zenon
  <2> QED  BY <2>1, <2>6, <2>10 DEF PipelineAt
<1>7. ASSUME NEW m, Unsolicited(d, m) PROVE FALSE
  BY <1>7 DEF Unsolicited
<1>8. ASSUME RecvChoke(d) \/ ConnFail(d) \/ HashMismatch(d) PROVE PipelineAt(d)'
  <2>1. Release(d)
    BY <1>8 DEF RecvChoke, ConnFail, HashMismatch
  <2>2. owed'[d] = {}
    BY <1>1, <1>8 DEF RecvChoke, ConnFail, HashMismatch, TypeOK
  <2> QED  BY <1>1, <2>1, <2>2 DEF Release, Leave, TypeOK, PipelineAt
<1>9. CASE VerifyOK(d)
  <2>1. pc[d] = "loop" /\ pc'[d] = "send" /\ owed' = owed /\ ~(downloaded[d] < Sizes[piece[d]])
    BY <1>1, <1>9 DEF VerifyOK, KeepBuffer, Incomplete, TypeOK
  <2>2. owed[d] = {}
    <3>1. Pipeline(piece[d], downloaded[d], requested[d], backlog[d], owed[d], mem[buf[d]])
      BY <1>2, <1>3, <2>1 DEF Pipeline, PipelineAt
    <3> QED  BY <2>1, <3>1, CompleteIsVerified, Zenon
  <2> QED  BY <2>1, <2>2 DEF PipelineAt
<1>10. CASE HandOver(d)
  BY <1>1, <1>10 DEF HandOver, Leave, TypeOK, PipelineAt
<1>11. CASE \E p \in DOMAIN Sizes : BufferPanics(d, p)
  <2>1. pc[d] = "idle" /\ pc'[d] = "panicked" /\ owed' = owed
    BY <1>1, <1>11 DEF BufferPanics, TypeOK
  <2> QED  BY <2>1 DEF PipelineAt
<1> QED  BY <1>4, <1>5, <1>6, <1>7, <1>8, <1>9, <1>10, <1>11

\* PipelineInv is inductive, given the exclusive buffers.
LEMMA PipelineStep == BufferInv /\ PipelineInv /\ [Next]_vars => PipelineInv'
<1> SUFFICES ASSUME BufferInv, PipelineInv, [Next]_vars, NEW e \in Downloads,
                    kind'[e] = "honest"
             PROVE  PipelineAt(e)'
  BY DEF PipelineInv
<1>1. kind' = kind /\ kind[e] = "honest" /\ PipelineAt(e)
  BY DEF Next, vars, PipelineInv
<1>2. ASSUME Untouched(e) PROVE PipelineAt(e)'
  <2>1. pc[e] # "loop" \/ mem'[buf'[e]] = mem[buf[e]]
    BY <1>2 DEF Untouched
  <2> QED  BY <1>1, <1>2, <2>1 DEF Untouched, PipelineAt
<1>3. CASE UNCHANGED vars
  BY <1>2, <1>3 DEF vars, xferVars, Untouched
<1>4. ASSUME NEW r \in handed, Write(r) PROVE PipelineAt(e)'
  BY <1>2, <1>4, WriteUntouched
<1>5. ASSUME NEW d \in Downloads,
             \/ \E p \in Pieces, b \in Buffers : ReuseBuffer(d, p, b) \/ AllocBuffer(d, p, b)
             \/ \E p \in DOMAIN Sizes : BufferPanics(d, p)
             \/ SendRequest(d)
             \/ \E r \in owed[d] : Answer(d, r)
             \/ \E m \in Blocks : Unsolicited(d, m)
             \/ RecvChoke(d) \/ ConnFail(d) \/ VerifyOK(d) \/ HashMismatch(d) \/ HandOver(d)
      PROVE  PipelineAt(e)'
  <2>1. CASE d = e
    BY <1>1, <1>5, <2>1, PipelineOwnStep
  <2>2. CASE d # e
    BY <1>2, <1>5, <2>2, OthersUntouched
  <2> QED  BY <2>1, <2>2
<1> QED  BY <1>3, <1>4, <1>5 DEF Next, Step

\* A peer that answers each request once gets the piece through: the backlog
\* never passes its limit, DownloadPiece never waits for an answer that nobody
\* owes, and a piece that has all its bytes passes the hash check.
THEOREM HonestPipelineHolds == Spec => []HonestPipeline
<1>1. Init => PipelineInv
  BY DEF Init, PipelineInv, PipelineAt
<1>2. BufferInv /\ PipelineInv => HonestPipeline
  <2> SUFFICES ASSUME BufferInv, PipelineInv, NEW d \in Downloads,
                      pc[d] = "loop", kind[d] = "honest"
               PROVE  /\ backlog[d] = Cardinality(owed[d])
                      /\ backlog[d] <= MaxBacklog
                      /\ Incomplete(d) => CanRequest(d) \/ owed[d] # {}
                      /\ ~Incomplete(d) => Verified(buf[d], piece[d])
    BY DEF HonestPipeline
  <2>1. /\ piece[d] \in Pieces /\ downloaded[d] \in Nat /\ requested[d] \in Nat
        /\ backlog[d] \in Int
        /\ owed[d] \in SUBSET (Pieces \X Nat \X {"new", "late"})
    BY LocalTypes
  <2>2. \A r \in owed[d] : r[2] < Sizes[r[1]]
    BY LocalTypes
  <2>3. /\ RequestsApart(piece[d], requested[d], owed[d], mem[buf[d]])
        /\ CountersAgree(piece[d], downloaded[d], requested[d], backlog[d], owed[d])
    BY DEF PipelineInv, PipelineAt
  <2>4. backlog[d] = Cardinality(owed[d]) /\ backlog[d] <= MaxBacklog
    BY <2>3 DEF CountersAgree
  <2>5. ASSUME Incomplete(d), owed[d] = {} PROVE CanRequest(d)
    <3>1. backlog[d] = 0
      BY <2>4, <2>5, FS_EmptySet
    <3>2. downloaded[d] = requested[d]
      BY <2>1, <2>3, <2>5, <3>1, LoadStep DEF CountersAgree
    <3> QED  BY <2>5, <3>1, <3>2, TransferAssumption DEF Incomplete, CanRequest
  <2>6. ~Incomplete(d) => Verified(buf[d], piece[d])
    <3>1. Pipeline(piece[d], downloaded[d], requested[d], backlog[d], owed[d], mem[buf[d]])
      BY <2>1, <2>2, <2>3 DEF Pipeline
    <3>2. ASSUME ~(downloaded[d] < Sizes[piece[d]])
          PROVE  Whole(piece[d], mem[buf[d]])
      BY <3>1, <3>2, CompleteIsVerified, Zenon
    <3> QED  BY <3>2 DEF Incomplete, Verified, Whole
  <2> QED  BY <2>4, <2>5, <2>6
<1> QED
  BY <1>1, <1>2, BufferInit, BufferStep, PipelineStep, PTL DEF Spec
=============================================================================
