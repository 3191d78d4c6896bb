----------------------------- MODULE PeerProofs -----------------------------
(***************************************************************************)
(* Proofs about what is read from one peer.  Module MetadataRead, for      *)
(* every length of the metadata and of its pieces and every length a peer  *)
(* may declare; module Wire, for every session, every size of a byte and   *)
(* of the longest message, and every number of pieces.                     *)
(***************************************************************************)
EXTENDS MetadataRead, Wire, FiniteSetTheorems, SequenceTheorems,
        WellFoundedInduction, TLAPS

-----------------------------------------------------------------------------
(* MetadataRead                                                            *)

\* Byte i belongs to metadata piece k.
InPiece(i, k) == k * metadataPieceSize <= i /\ i < k * metadataPieceSize + metadataPieceSize

\* got counts the pieces of received, all of which the buffer has room for; the
\* result of the hash check is there only when none is missing.
CountInv ==
    /\ pc \in {"handshake", "request", "collect", "returned", "panicked"}
    /\ pc # "panicked" => size \in Nat
    /\ received \subseteq 0 .. NumPieces - 1
    /\ got = Cardinality(received)
    /\ pc \in {"handshake", "request"} => received = {}
    /\ ret \in {"info", "invalidMetadata", "hashMismatch"} =>
          pc = "returned" /\ received = 0 .. NumPieces - 1

\* With an honest peer that declared the length of the metadata, the bytes of
\* every piece that was received are the right ones.
GoodInv ==
    /\ trueSize \in Nat
    /\ pc # "panicked" => DOMAIN metadata = 0 .. size - 1
    /\ (honest /\ size = trueSize) =>
          /\ \A k \in received : \A i \in 0 .. size - 1 :
                InPiece(i, k) => metadata[i] = "good"
          /\ ret # "hashMismatch"

\* The buffer has a whole number of pieces, the last one perhaps short, and
\* every byte belongs to one of them.
LEMMA PiecesCover ==
    ASSUME size \in Nat
    PROVE  /\ NumPieces \in Nat
           /\ \A i \in 0 .. size - 1 : \E k \in 0 .. NumPieces - 1 : InPiece(i, k)
<1> DEFINE m == metadataPieceSize
           n == NumPieces
<1>1. m \in Int /\ m > 0
  BY MetadataAssumption
<1>2. PICK a \in Nat : a = size + m - 1
  BY <1>1
<1>3. n = a \div m
  BY <1>2 DEF NumPieces
<1>4. n \in Int /\ a % m \in Int /\ 0 <= a % m /\ a % m < m /\ a = m * n + (a % m)
  BY <1>1, <1>3
<1> HIDE DEF n, m
<1>5. size <= m * n
  BY <1>1, <1>2, <1>4
<1>6. n >= 0
  <2>1. ASSUME n < 0 PROVE FALSE
    <3>1. m * n < 0
      BY <1>1, <1>4, <2>1
    <3> QED  BY <1>1, <1>4, <1>5, <3>1
  <2> QED  BY <1>4, <2>1
<1>7. ASSUME NEW i \in 0 .. size - 1 PROVE \E k \in 0 .. n - 1 : InPiece(i, k)
  <2>1. i \in Nat /\ i < size
    OBVIOUS
  <2>2. PICK k \in Int : k = i \div m
    BY <1>1, <2>1
  <2>3. i % m \in Int /\ 0 <= i % m /\ i % m < m /\ i = m * k + (i % m)
    BY <1>1, <2>1, <2>2
  <2>4. m * k <= i /\ i < m * k + m
    BY <1>1, <2>1, <2>2, <2>3
  <2>5. k >= 0
    <3>1. ASSUME k < 0 PROVE FALSE
      <4>1. k + 1 <= 0 /\ m * (k + 1) <= 0
        BY <1>1, <2>2, <3>1
      <4>2. m * (k + 1) = m * k + m
        BY <1>1, <2>2
      <4> QED  BY <1>1, <2>1, <2>4, <4>1, <4>2
    <3> QED  BY <2>2, <3>1
  <2>6. k < n
    <3>1. ASSUME k >= n PROVE FALSE
      <4>1. m * (k - n) >= 0
        BY <1>1, <1>4, <2>2, <3>1
      <4>2. m * (k - n) = m * k - m * n
        BY <1>1, <1>4, <2>2
      <4> QED  BY <1>1, <1>4, <1>5, <2>1, <2>2, <2>4, <4>1, <4>2
    <3> QED  BY <1>4, <2>2, <3>1
  <2>7. k * m = m * k
    BY <1>1, <2>2
  <2>8. InPiece(i, k)
    BY <2>4, <2>7 DEF InPiece, m
  <2>9. k \in 0 .. n - 1
    BY <1>4, <2>2, <2>5, <2>6
  <2> QED  BY <2>8, <2>9
<1> QED  BY <1>4, <1>6, <1>7 DEF n

\* Both invariants hold at the start.
LEMMA ReadInit == Init => CountInv /\ GoodInv
<1> SUFFICES ASSUME Init PROVE CountInv /\ GoodInv
  OBVIOUS
<1>1. size = 0 /\ received = {} /\ got = 0 /\ ret = "running" /\ pc = "handshake"
  BY DEF Init
<1>2. Cardinality({}) = 0
  BY FS_EmptySet
<1>3. trueSize \in Nat
  BY MetadataAssumption DEF Init
<1>4. DOMAIN metadata = 0 .. size - 1
  BY <1>1 DEF Init
<1> QED  BY <1>1, <1>2, <1>3, <1>4 DEF CountInv, GoodInv

\* CountInv is inductive.
LEMMA CountStep == CountInv /\ [Next]_vars => CountInv'
<1> SUFFICES ASSUME CountInv, [Next]_vars PROVE CountInv'
  OBVIOUS
<1>0. CASE pc = "panicked"
  <2>1. UNCHANGED vars
    BY <1>0 DEF Next, ConnFail, BadHandshake, DecoderPanics, RecvHandshake, SendRequest,
       NoUtMetadata, AllRequested, HonestData, AnyData, RecvData, Parse, Terminating
  <2> QED  BY <2>1 DEF vars, CountInv, NumPieces
<1> SUFFICES ASSUME pc # "panicked" PROVE CountInv'
  BY <1>0
<1>1. size \in Nat /\ NumPieces \in Nat /\ IsFiniteSet(0 .. NumPieces - 1)
      /\ Cardinality(0 .. NumPieces - 1) = NumPieces
  <2>1. size \in Nat /\ NumPieces \in Nat
    BY PiecesCover DEF CountInv
  <2> QED  BY <2>1, FS_Interval
<1>2. IsFiniteSet(received) /\ received \in SUBSET (0 .. NumPieces - 1)
  BY <1>1, FS_Subset DEF CountInv
<1>3. ASSUME pc # "returned", UNCHANGED <<size, received, got>>,
             pc' = "returned" \/ UNCHANGED ret,
             ret' \in {"info", "invalidMetadata", "hashMismatch"} => received = 0 .. NumPieces - 1,
             pc' \in {"handshake", "request", "collect", "returned", "panicked"},
             pc' \in {"handshake", "request"} => received = {}
      PROVE  CountInv'
  BY <1>3 DEF CountInv, NumPieces
<1>4. pc # "returned" => ret \notin {"info", "invalidMetadata", "hashMismatch"}
  BY DEF CountInv
<1>5. CASE ConnFail \/ BadHandshake \/ NoUtMetadata \/ DecoderPanics
  BY <1>3, <1>4, <1>5 DEF ConnFail, BadHandshake, NoUtMetadata, DecoderPanics, Return, Panic
<1>6. CASE SendRequest \/ AllRequested
  BY <1>3, <1>4, <1>6 DEF SendRequest, AllRequested, CountInv
<1>7. ASSUME NEW s \in DeclaredSizes, NEW ut \in BOOLEAN, RecvHandshake(s, ut)
      PROVE  CountInv'
  <2>1. pc = "handshake" /\ received' = {} /\ got' = got
    BY <1>7 DEF RecvHandshake, CountInv
  <2>2. got = Cardinality({})
    BY <2>1 DEF CountInv
  <2>3. /\ pc' \in {"request", "returned", "panicked"}
        /\ ret' \notin {"info", "invalidMetadata", "hashMismatch"}
    BY <1>4, <1>7, <2>1 DEF RecvHandshake, Return, Panic
  <2>4. pc' # "panicked" => size' \in Nat
    BY <1>7, MetadataAssumption DEF RecvHandshake, Panic
  <2> QED  BY <2>1, <2>2, <2>3, <2>4 DEF CountInv
<1>8. ASSUME NEW k, NEW len, NEW byte, RecvData(k, len, byte) PROVE CountInv'
  <2>1. /\ pc = "collect" /\ k \in 0 .. NumPieces - 1 /\ k \notin received
        /\ received' = received \cup {k} /\ got' = got + 1 /\ UNCHANGED <<pc, size, ret>>
    BY <1>8 DEF RecvData, Fresh
  <2>2. Cardinality(received') = got + 1
    BY <1>2, <2>1, FS_AddElement DEF CountInv
  <2> QED  BY <1>2, <1>4, <2>1, <2>2 DEF CountInv, NumPieces
<1>9. CASE Parse
  <2>1. received = 0 .. NumPieces - 1
    BY <1>1, <1>2, <1>9, FS_Subset DEF Parse, CountInv
  <2> QED  BY <1>3, <1>9, <2>1 DEF Parse, Return
<1>10. CASE HonestData \/ AnyData
  BY <1>8, <1>10 DEF HonestData, AnyData
<1>11. CASE UNCHANGED vars
  BY <1>11 DEF vars, CountInv, NumPieces
<1> QED
  BY <1>5, <1>6, <1>7, <1>9, <1>10, <1>11 DEF Next, Terminating

\* GoodInv is inductive, given the count.
LEMMA GoodStep == CountInv /\ GoodInv /\ [Next]_vars => GoodInv'
<1> SUFFICES ASSUME CountInv, GoodInv, [Next]_vars PROVE GoodInv'
  OBVIOUS
<1> DEFINE m == metadataPieceSize
<1>0. CASE pc = "panicked"
  <2>1. UNCHANGED vars
    BY <1>0 DEF Next, ConnFail, BadHandshake, DecoderPanics, RecvHandshake, SendRequest,
       NoUtMetadata, AllRequested, HonestData, AnyData, RecvData, Parse, Terminating
  <2> QED  BY <2>1 DEF vars, peerVars, GoodInv
<1> SUFFICES ASSUME pc # "panicked" PROVE GoodInv'
  BY <1>0
<1>1. m \in Nat /\ m > 0 /\ trueSize \in Nat /\ size \in Nat
  BY MetadataAssumption DEF CountInv, GoodInv
<1>2. ASSUME UNCHANGED <<trueSize, honest, size, received, metadata>>, ret' # "hashMismatch"
      PROVE  GoodInv'
  BY <1>2 DEF GoodInv
<1>3. CASE (ConnFail \/ BadHandshake \/ NoUtMetadata \/ DecoderPanics) /\ UNCHANGED peerVars
  BY <1>2, <1>3 DEF ConnFail, BadHandshake, NoUtMetadata, DecoderPanics, Return, Panic,
     peerVars, CountInv
<1>4. CASE (SendRequest \/ AllRequested) /\ UNCHANGED peerVars
  BY <1>2, <1>4 DEF SendRequest, AllRequested, peerVars, CountInv
<1>5. ASSUME NEW s \in DeclaredSizes, NEW ut \in BOOLEAN, RecvHandshake(s, ut),
             UNCHANGED peerVars
      PROVE  GoodInv'
  <2>1. /\ received' = {} /\ ret' # "hashMismatch" /\ trueSize' = trueSize
        /\ pc' # "panicked" => DOMAIN metadata' = 0 .. size' - 1
    BY <1>5 DEF RecvHandshake, Return, Panic, peerVars, CountInv
  <2> QED  BY <1>1, <2>1 DEF GoodInv
<1>6. ASSUME NEW k, NEW len, NEW byte, RecvData(k, len, byte), UNCHANGED peerVars,
             honest => byte = "good" /\ len = TrueLen(k)
      PROVE  GoodInv'
  <2>1. /\ UNCHANGED <<trueSize, honest, size, ret>> /\ pc = "collect"
        /\ received' = received \cup {k} /\ k \in 0 .. NumPieces - 1
        /\ metadata' = Copied(k, len, byte)
    BY <1>6 DEF RecvData, Fresh, peerVars
  <2>2. ret # "hashMismatch"
    BY <2>1 DEF CountInv
  <2>3. DOMAIN metadata' = 0 .. size' - 1
    BY <2>1 DEF Copied
  <2>4. ASSUME honest, size = trueSize, NEW j \in received', NEW i \in 0 .. size - 1, InPiece(i, j)
        PROVE  metadata'[i] = "good"
    <3>1. metadata'[i] = IF i >= k * m /\ i < k * m + len THEN "good" ELSE metadata[i]
      BY <1>6, <2>1, <2>4 DEF Copied
    <3>2. CASE j \in received
      BY <2>4, <3>1, <3>2 DEF GoodInv
    <3>3. CASE j = k
      <4>1. NumPieces \in Nat
        BY <1>1, PiecesCover
      <4>2. k \in Int /\ k * m \in Int
        BY <1>1, <2>1, <4>1
      <4>3. k * m <= i /\ i < k * m + m
        BY <2>4, <3>3 DEF InPiece
      <4>4. len = IF trueSize - k * m < m THEN trueSize - k * m ELSE m
        BY <1>6, <2>4 DEF TrueLen
      <4>5. i < k * m + len
        BY <1>1, <2>4, <4>2, <4>3, <4>4
      <4> QED  BY <1>1, <3>1, <4>2, <4>3, <4>5
    <3> QED  BY <2>1, <2>4, <3>2, <3>3
  <2> QED  BY <1>1, <2>1, <2>2, <2>3, <2>4 DEF GoodInv
<1>7. CASE HonestData /\ UNCHANGED peerVars
  BY <1>6, <1>7 DEF HonestData
<1>8. CASE AnyData /\ UNCHANGED peerVars
  BY <1>6, <1>8 DEF AnyData
<1>9. CASE Parse /\ UNCHANGED peerVars
  <2>1. UNCHANGED <<trueSize, honest, size, received, metadata>>
    BY <1>9 DEF Parse, peerVars
  <2>2. NumPieces \in Nat /\ received = 0 .. NumPieces - 1
    <3>1. NumPieces \in Nat /\ IsFiniteSet(0 .. NumPieces - 1)
          /\ Cardinality(0 .. NumPieces - 1) = NumPieces
      <4>1. NumPieces \in Nat
        BY <1>1, PiecesCover
      <4> QED  BY <4>1, FS_Interval
    <3> QED  BY <1>9, <3>1, FS_Subset DEF Parse, CountInv
  <2>3. (honest /\ size = trueSize) => HashMatches
    BY <1>1, <2>2, PiecesCover DEF HashMatches, GoodInv
  <2>4. HashMatches => ret' # "hashMismatch"
    BY <1>9 DEF Parse, Return
  <2> QED  BY <2>1, <2>3, <2>4 DEF GoodInv
<1>10. CASE UNCHANGED vars
  BY <1>10 DEF vars, peerVars, GoodInv
<1> QED
  BY <1>3, <1>4, <1>5, <1>7, <1>8, <1>9, <1>10 DEF Next, Terminating

\* The loop of readMetadataFromPeer ends when it has every piece, whatever
\* integer the peer declares as the length: duplicates and answers out of range
\* never stand in for a missing one, and where make() panics there is no result.
THEOREM CountsPiecesHolds == Spec => []CountsPieces
<1>1. CountInv => CountsPieces
  BY DEF CountInv, CountsPieces
<1> QED  BY <1>1, ReadInit, CountStep, PTL DEF Spec

\* An honest peer that declares the length of its metadata is never rejected.
THEOREM HonestAcceptedHolds == Spec => []HonestAccepted
<1>1. GoodInv => HonestAccepted
  BY DEF GoodInv, HonestAccepted
<1> QED  BY <1>1, ReadInit, CountStep, GoodStep, PTL DEF Spec

-----------------------------------------------------------------------------
(* Loops                                                                   *)

\* A set of numbers has a least element.
LEMMA LeastNumber ==
    ASSUME NEW T \in SUBSET Nat, T # {}
    PROVE  \E x \in T : \A y \in T : x <= y
<1> DEFINE R == OpToRel(<, Nat)
<1>1. IsWellFoundedOn(R, Nat)
  BY NatLessThanWellFounded
<1>2. \A x, y \in Nat : <<x, y>> \in R <=> x < y
  BY DEF OpToRel
<1> HIDE DEF R
<1>3. PICK x \in T : \A y \in T : ~(<<y, x>> \in R)
  BY <1>1, WFMin
<1>4. \A y \in T : x \in Nat /\ y \in Nat /\ ~(y < x)
  BY <1>2, <1>3
<1> QED  BY <1>3, <1>4

\* What holds at the start of a loop and is kept by every turn holds at its end.
LEMMA LoopInvariant ==
    ASSUME NEW L \in Nat, NEW good \in SUBSET (0 .. L), 0 \in good,
           \A n \in 1 .. L : n - 1 \in good => n \in good
    PROVE  good = 0 .. L
<1> DEFINE bad == (0 .. L) \ good
<1>1. ASSUME bad # {} PROVE FALSE
  <2>1. PICK m \in bad : \A y \in bad : m <= y
    <3>1. bad \in SUBSET Nat
      OBVIOUS
    <3> HIDE DEF bad
    <3> QED  BY <1>1, <3>1, LeastNumber
  <2>2. m \in 1 .. L
    BY <2>1
  <2>3. m - 1 \in 0 .. L /\ m - 1 < m
    BY <2>2
  <2>4. m - 1 \in good
    BY <2>1, <2>2, <2>3
  <2> QED  BY <2>1, <2>2, <2>4
<1> QED  BY <1>1

\* The values that a variable takes in a loop of L turns.
LoopOf(f, L, A, start, step) ==
    /\ f \in [0 .. L -> A]
    /\ f[0] = start
    /\ \A n \in 1 .. L : f[n] = step[<<n, f[n - 1]>>]

\* Every loop runs.
LEMMA LoopRuns ==
    ASSUME NEW L \in Nat, NEW A, NEW start \in A, NEW step \in [(1 .. L) \X A -> A]
    PROVE  \E f : LoopOf(f, L, A, start, step)
<1> DEFINE good == {m \in 0 .. L : \E f : LoopOf(f, m, A, start, step)}
<1>1. 0 \in good
  <2>1. LoopOf([n \in 0 .. 0 |-> start], 0, A, start, step)
    BY DEF LoopOf
  <2> QED  BY <2>1
<1>2. ASSUME NEW m \in 1 .. L, m - 1 \in good PROVE m \in good
  <2>1. PICK f : LoopOf(f, m - 1, A, start, step)
    BY <1>2
  <2>2. f \in [0 .. m - 1 -> A] /\ f[m - 1] \in A
    BY <2>1 DEF LoopOf
  <2>3. PICK v \in A : v = step[<<m, f[m - 1]>>]
    BY <2>2
  <2> DEFINE h == [n \in 0 .. m |-> IF n = m THEN v ELSE f[n]]
  <2>4. h \in [0 .. m -> A] /\ h[0] = start /\ h[m] = v /\ \A n \in 0 .. m - 1 : h[n] = f[n]
    BY <2>1, <2>2 DEF LoopOf
  <2>5. \A n \in 1 .. m : h[n] = step[<<n, h[n - 1]>>]
    <3> SUFFICES ASSUME NEW n \in 1 .. m PROVE h[n] = step[<<n, h[n - 1]>>]
      OBVIOUS
    <3>1. n - 1 \in 0 .. m - 1 /\ h[n - 1] = f[n - 1]
      BY <2>4
    <3>2. CASE n = m
      BY <2>3, <2>4, <3>1, <3>2
    <3>3. CASE n \in 1 .. m - 1
      BY <2>1, <2>4, <3>1, <3>3 DEF LoopOf
    <3> QED  BY <3>2, <3>3
  <2> HIDE DEF h
  <2>6. LoopOf(h, m, A, start, step)
    BY <2>4, <2>5 DEF LoopOf
  <2> QED  BY <2>6
<1>3. good = 0 .. L
  <2> HIDE DEF good
  <2>1. good \in SUBSET (0 .. L)
    BY DEF good
  <2> QED  BY <1>1, <1>2, <2>1, LoopInvariant
<1> QED  BY <1>3

\* A sequence is one of its elements.
LEMMA SeqOfItself ==
    ASSUME NEW A, NEW s, IsSeq(s), \A k \in 1 .. Len(s) : s[k] \in A
    PROVE  s \in Seq(A)
<1>1. PICK n : n = Len(s)
  OBVIOUS
<1>2. n \in Nat /\ s = [k \in 1 .. n |-> s[k]]
  BY <1>1 DEF IsSeq
<1>3. s \in [1 .. n -> A]
  BY <1>1, <1>2
<1> QED  BY <1>2, <1>3

\* One element more.
LEMMA OneMore ==
    ASSUME NEW s, IsSeq(s), NEW x
    PROVE  /\ IsSeq(Append(s, x)) /\ Len(Append(s, x)) = Len(s) + 1
           /\ Append(s, x)[Len(s) + 1] = x
           /\ \A k \in 1 .. Len(s) : Append(s, x)[k] = s[k]
<1> DEFINE A == {s[k] : k \in 1 .. Len(s)} \cup {x}
<1>1. s \in Seq(A) /\ x \in A
  <2>1. \A k \in 1 .. Len(s) : s[k] \in A
    OBVIOUS
  <2> HIDE DEF A
  <2>2. s \in Seq(A)
    BY <2>1, SeqOfItself
  <2> QED  BY <2>2 DEF A
<1> HIDE DEF A
<1>2. PICK t : t = Append(s, x)
  OBVIOUS
<1>3. /\ t \in Seq(A) /\ Len(t) = Len(s) + 1 /\ t[Len(s) + 1] = x
      /\ \A k \in 1 .. Len(s) : t[k] = s[k]
  BY <1>1, <1>2
<1>4. IsSeq(t)
  <2>1. Len(t) \in Nat /\ t = [k \in 1 .. Len(t) |-> t[k]]
    BY <1>3
  <2> QED  BY <2>1 DEF IsSeq
<1> QED  BY <1>2, <1>3, <1>4

\* One sequence behind another.
LEMMA Joined ==
    ASSUME NEW A, NEW a \in Seq(A), NEW b \in Seq(A), NEW c, c = a \o b
    PROVE  /\ c \in Seq(A) /\ Len(c) = Len(a) + Len(b)
           /\ \A i \in 1 .. Len(a) : c[i] = a[i]
           /\ \A i \in 1 .. Len(b) : c[Len(a) + i] = b[i]
<1>1. /\ c \in Seq(A) /\ Len(c) = Len(a) + Len(b)
      /\ \A i \in 1 .. Len(a) + Len(b) : c[i] = IF i <= Len(a) THEN a[i] ELSE b[i - Len(a)]
  OBVIOUS
<1>2. PICK m \in Nat : m = Len(a)
  OBVIOUS
<1>3. PICK n \in Nat : n = Len(b)
  OBVIOUS
<1>4. \A i \in 1 .. m + n : c[i] = IF i <= m THEN a[i] ELSE b[i - m]
  BY <1>1, <1>2, <1>3
<1>5. ASSUME NEW i \in 1 .. m PROVE c[i] = a[i]
  <2>1. i \in 1 .. m + n /\ i <= m
    OBVIOUS
  <2> QED  BY <1>4, <2>1
<1>6. ASSUME NEW i \in 1 .. n PROVE c[m + i] = b[i]
  <2>1. m + i \in 1 .. m + n /\ ~(m + i <= m) /\ (m + i) - m = i
    OBVIOUS
  <2> QED  BY <1>4, <2>1
<1> QED  BY <1>1, <1>2, <1>3, <1>5, <1>6

-----------------------------------------------------------------------------
(* Wire: the stream                                                        *)

\* What the header of a message says.
MessageLength(msg) == IF msg = KeepAlive THEN 0 ELSE 1 + Len(msg.payload)

\* A header of two digits, then the id and the payload.
Written(A, msg, w, n) ==
    /\ w \in Seq(A) /\ n \in Nat /\ Len(w) = 2 + n
    /\ w[1] \in Nat /\ w[2] \in Nat /\ w[1] * Base + w[2] = n
    /\ msg # KeepAlive =>
         /\ n > 0 /\ w[3] = msg.id
         /\ \A k \in 1 .. n - 1 : w[3 + k] = msg.payload[k]

\* What WriteMessage writes.
LEMMA WriteShape ==
    ASSUME NEW A, Int \subseteq A, NEW msg, IsMessage(msg),
           \A k \in 1 .. Len(msg.payload) : msg.payload[k] \in A,
           NEW w, w = WriteMessage(msg), NEW n, n = MessageLength(msg)
    PROVE  Written(A, msg, w, n)
<1>1. Base \in Nat \ {0, 1}
  BY WireAssumption
<1>2. CASE msg = KeepAlive
  <2>1. n = 0 /\ w = <<0 \div Base, 0 % Base>>
    BY <1>2 DEF MessageLength, WriteMessage
  <2>2. 0 \div Base = 0 /\ 0 % Base = 0
    BY <1>1
  <2>3. w = <<0, 0>> /\ 0 \in A
    BY <2>1, <2>2
  <2>4. w \in Seq(A) /\ Len(w) = 2 /\ w[1] = 0 /\ w[2] = 0
    BY <2>3
  <2>5. 0 * Base + 0 = 0
    BY <1>1
  <2> QED  BY <1>2, <2>1, <2>4, <2>5 DEF Written
<1>3. CASE msg # KeepAlive
  <2>1. PICK p : p = msg.payload
    OBVIOUS
  <2>2. PICK id : id = msg.id
    OBVIOUS
  <2>3. id \in Nat /\ IsSeq(p) /\ p \in Seq(A)
    <3>1. id \in Nat /\ IsSeq(p)
      BY <1>3, <2>1, <2>2 DEF IsMessage
    <3> QED  BY <2>1, <3>1, SeqOfItself
  <2>4. n = 1 + Len(p) /\ n \in Nat /\ n > 0 /\ Len(p) \in Nat
    BY <1>3, <2>1, <2>3 DEF MessageLength, IsSeq
  <2>5. PICK q : q = n \div Base
    OBVIOUS
  <2>6. PICK r : r = n % Base
    OBVIOUS
  <2>7. q \in Nat /\ r \in Nat /\ q * Base + r = n
    BY <1>1, <2>4, <2>5, <2>6
  <2>8. PICK h : h = <<q, r>>
    OBVIOUS
  <2>9. h \in Seq(A) /\ Len(h) = 2 /\ h[1] = q /\ h[2] = r
    <3>1. q \in A /\ r \in A
      BY <2>7
    <3> QED  BY <2>8, <3>1
  <2>10. PICK u : u = <<id>>
    OBVIOUS
  <2>11. u \in Seq(A) /\ Len(u) = 1 /\ u[1] = id
    <3>1. id \in A
      BY <2>3
    <3> QED  BY <2>10, <3>1
  <2>12. PICK g : g = h \o u
    OBVIOUS
  <2>13. g \in Seq(A) /\ Len(g) = 3 /\ g[1] = q /\ g[2] = r /\ g[3] = id
    <3>1. /\ g \in Seq(A) /\ Len(g) = Len(h) + Len(u)
          /\ \A i \in 1 .. Len(h) : g[i] = h[i]
          /\ \A i \in 1 .. Len(u) : g[Len(h) + i] = u[i]
      <4>1. h \in Seq(A) /\ u \in Seq(A)
        BY <2>9, <2>11
      <4> QED  BY <2>12, <4>1, Joined
    <3>2. g[1] = h[1] /\ g[2] = h[2] /\ g[2 + 1] = u[1]
      BY <2>9, <2>11, <3>1
    <3> QED  BY <2>9, <2>11, <3>1, <3>2
  <2>14. w = g \o p
    <3>1. n # 0
      BY <2>4
    <3>2. w = (h \o u) \o p
      BY <1>3, <2>1, <2>2, <2>4, <2>5, <2>6, <2>8, <2>10, <3>1 DEF WriteMessage
    <3> QED  BY <2>12, <3>2
  <2>15. /\ w \in Seq(A) /\ Len(w) = Len(g) + Len(p)
         /\ \A i \in 1 .. Len(g) : w[i] = g[i]
         /\ \A i \in 1 .. Len(p) : w[Len(g) + i] = p[i]
    <3>1. g \in Seq(A) /\ p \in Seq(A)
      BY <2>3, <2>13
    <3> QED  BY <2>14, <3>1, Joined
  <2>16. /\ Len(w) = 2 + n /\ w[1] = g[1] /\ w[2] = g[2] /\ w[3] = g[3]
         /\ \A i \in 1 .. Len(p) : w[3 + i] = p[i]
    BY <2>4, <2>13, <2>15
  <2>17. w[1] = q /\ w[2] = r /\ w[3] = id
    BY <2>13, <2>16
  <2>18. \A k \in 1 .. n - 1 : w[3 + k] = p[k]
    BY <2>4, <2>16
  <2> QED  BY <2>1, <2>2, <2>4, <2>7, <2>15, <2>16, <2>17, <2>18 DEF Written
<1> QED  BY <1>2, <1>3

\* What occurs in the stream of a session.
PayloadSet(msg) == {msg.payload[j] : j \in 1 .. Len(msg.payload)}
ByteSet(s) ==
    Int \cup {s.handshake.pstrlen, s.handshake.pstr, s.handshake.ext, s.handshake.hash, s.handshake.id}
        \cup UNION {PayloadSet(s.items[k].msg) : k \in 1 .. Len(s.items)}

\* The payload of a message occurs in it.
LEMMA PayloadOccurs ==
    ASSUME NEW s, NEW n \in 1 .. Len(s.items), NEW msg, msg = s.items[n].msg
    PROVE  Int \subseteq ByteSet(s) /\ \A k \in 1 .. Len(msg.payload) : msg.payload[k] \in ByteSet(s)
<1>1. PayloadSet(msg) \subseteq ByteSet(s) /\ Int \subseteq ByteSet(s)
  <2>1. PayloadSet(msg) \in {PayloadSet(s.items[k].msg) : k \in 1 .. Len(s.items)}
    OBVIOUS
  <2> QED  BY <2>1, Zenon DEF ByteSet
<1>2. \A k \in 1 .. Len(msg.payload) : msg.payload[k] \in PayloadSet(msg)
  BY Zenon DEF PayloadSet
<1> QED  BY <1>1, <1>2

\* The messages of a session.
LEMMA MessagesOf ==
    ASSUME NEW s \in Sessions
    PROVE  /\ Len(s.items) \in Nat
           /\ \A n \in 1 .. Len(s.items) :
                 /\ IsMessage(s.items[n].msg) /\ Announces(s.items[n])
                 /\ WriteMessage(s.items[n].msg) \in Seq(ByteSet(s))
<1>1. Len(s.items) \in Nat
  BY WireAssumption DEF IsSeq
<1>2. ASSUME NEW n \in 1 .. Len(s.items)
      PROVE  /\ IsMessage(s.items[n].msg) /\ Announces(s.items[n])
             /\ WriteMessage(s.items[n].msg) \in Seq(ByteSet(s))
  <2>1. IsMessage(s.items[n].msg) /\ Announces(s.items[n])
    BY WireAssumption
  <2>2. PICK msg : msg = s.items[n].msg
    OBVIOUS
  <2>3. PICK A : A = ByteSet(s)
    OBVIOUS
  <2>4. Int \subseteq A /\ \A k \in 1 .. Len(msg.payload) : msg.payload[k] \in A
    BY <2>2, <2>3, PayloadOccurs
  <2>5. WriteMessage(msg) \in Seq(A)
    BY <2>1, <2>2, <2>4, WriteShape DEF Written
  <2> QED  BY <2>1, <2>2, <2>3, <2>5
<1> QED  BY <1>1, <1>2

\* The loop of the stream.
LEMMA SentLoop ==
    ASSUME NEW s \in Sessions
    PROVE  /\ SentBy(s)[0] = HandshakeBytes(s.handshake)
           /\ \A n \in 0 .. Len(s.items) : SentBy(s)[n] \in Seq(ByteSet(s))
           /\ \A n \in 1 .. Len(s.items) : SentBy(s)[n] = SentBy(s)[n - 1] \o WriteMessage(s.items[n].msg)
<1>1. PICK L \in Nat : L = Len(s.items)
  BY MessagesOf
<1>2. PICK A : A = ByteSet(s)
  OBVIOUS
<1>3. PICK start : start = HandshakeBytes(s.handshake)
  OBVIOUS
<1>4. start \in Seq(A)
  <2>1. PICK a : a = s.handshake.pstrlen
    OBVIOUS
  <2>2. PICK b : b = s.handshake.pstr
    OBVIOUS
  <2>3. PICK c : c = s.handshake.ext
    OBVIOUS
  <2>4. PICK d : d = s.handshake.hash
    OBVIOUS
  <2>5. PICK e : e = s.handshake.id
    OBVIOUS
  <2>6. a \in A /\ b \in A /\ c \in A /\ d \in A /\ e \in A
    BY <1>2, <2>1, <2>2, <2>3, <2>4, <2>5 DEF ByteSet
  <2>7. <<a, b, c, d, e>> \in Seq(A)
    BY <2>6
  <2> QED  BY <1>3, <2>1, <2>2, <2>3, <2>4, <2>5, <2>7 DEF HandshakeBytes
<1> DEFINE W(n) == WriteMessage(s.items[n].msg)
<1>5. \A n \in 1 .. L : W(n) \in Seq(A)
  BY <1>1, <1>2, MessagesOf
<1> HIDE DEF W
<1>6. ASSUME NEW n \in 1 .. L, NEW t \in Seq(A) PROVE t \o W(n) \in Seq(A)
  <2>1. PICK u \in Seq(A) : u = W(n)
    BY <1>5
  <2>2. t \o u \in Seq(A)
    OBVIOUS
  <2> QED  BY <2>1, <2>2
<1> DEFINE step == [x \in (1 .. L) \X Seq(A) |-> x[2] \o W(x[1])]
<1>7. step \in [(1 .. L) \X Seq(A) -> Seq(A)]
  BY <1>6
<1>8. \A n \in 1 .. L, t \in Seq(A) : step[<<n, t>>] = t \o W(n)
  OBVIOUS
<1> HIDE DEF step
<1>9. PICK f : LoopOf(f, L, Seq(A), start, step)
  BY <1>4, <1>7, LoopRuns
<1>10. f \in [0 .. L -> Seq(A)] /\ f[0] = start
  BY <1>9 DEF LoopOf
<1>11. ASSUME NEW n \in 1 .. L PROVE f[n] = f[n - 1] \o W(n)
  <2>1. n - 1 \in 0 .. L
    OBVIOUS
  <2>2. f[n - 1] \in Seq(A)
    BY <1>10, <2>1
  <2>3. f[n] = step[<<n, f[n - 1]>>]
    BY <1>9 DEF LoopOf
  <2> QED  BY <1>8, <2>2, <2>3
<1> DEFINE Body(h) == [n \in 0 .. Len(s.items) |-> IF n = 0 THEN HandshakeBytes(s.handshake) ELSE h[n - 1] \o W(n)]
           sent == CHOOSE h : h = Body(h)
<1>12. f = Body(f)
  <2>1. ASSUME NEW n \in 0 .. L PROVE f[n] = IF n = 0 THEN start ELSE f[n - 1] \o W(n)
    <3>1. n = 0 \/ (n # 0 /\ n \in 1 .. L)
      OBVIOUS
    <3> QED  BY <1>10, <1>11, <3>1, Zenon
  <2> QED  BY <1>1, <1>3, <1>10, <2>1
<1>13. sent = Body(sent)
  <2> HIDE DEF Body
  <2> QED  BY <1>12
<1>14. SentBy(s) = sent
  BY DEF SentBy, W
<1> HIDE DEF sent
<1>15. sent[0] = start /\ \A n \in 1 .. L : sent[n] = sent[n - 1] \o W(n)
  <2>1. sent = [n \in 0 .. L |-> IF n = 0 THEN start ELSE sent[n - 1] \o W(n)]
    BY <1>1, <1>3, <1>13, Zenon
  <2>2. 0 \in 0 .. L /\ \A n \in 1 .. L : n # 0 /\ n \in 0 .. L
    OBVIOUS
  <2>3. sent[0] = start
    BY <2>1, <2>2, Zenon
  <2>4. ASSUME NEW n \in 1 .. L PROVE sent[n] = sent[n - 1] \o W(n)
    <3>1. n # 0 /\ n \in 0 .. L
      BY <2>2
    <3> QED  BY <2>1, <3>1, Zenon
  <2> QED  BY <2>3, <2>4
<1> DEFINE good == {n \in 0 .. L : sent[n] \in Seq(A)}
<1>16. good = 0 .. L
  <2>1. good \in SUBSET (0 .. L) /\ 0 \in good
    <3>1. sent[0] \in Seq(A)
      BY <1>4, <1>15, Zenon
    <3> QED  BY <3>1
  <2>2. ASSUME NEW n \in 1 .. L, n - 1 \in good PROVE n \in good
    <3>1. sent[n - 1] \in Seq(A) /\ n \in 0 .. L
      BY <2>2
    <3>2. sent[n] = sent[n - 1] \o W(n)
      BY <1>15
    <3>3. sent[n] \in Seq(A)
      BY <1>6, <3>1, <3>2
    <3> QED  BY <3>1, <3>3
  <2> HIDE DEF good
  <2> QED  BY <2>1, <2>2, LoopInvariant
<1>17. \A n \in 0 .. L : sent[n] \in Seq(A)
  BY <1>16
<1>18. \A n \in 1 .. L : sent[n] = sent[n - 1] \o WriteMessage(s.items[n].msg)
  BY <1>15 DEF W
<1> QED  BY <1>1, <1>2, <1>3, <1>14, <1>15, <1>17, <1>18

\* The whole stream begins with the stream up to each item.
LEMMA SentPrefix ==
    ASSUME NEW s \in Sessions, NEW m \in 0 .. Len(s.items), NEW n \in 0 .. m
    PROVE  /\ Len(SentBy(s)[n]) <= Len(SentBy(s)[m])
           /\ \A j \in 1 .. Len(SentBy(s)[n]) : SentBy(s)[m][j] = SentBy(s)[n][j]
<1>1. PICK L \in Nat : L = Len(s.items)
  BY MessagesOf
<1>2. PICK A : A = ByteSet(s)
  OBVIOUS
<1>3. PICK sent : sent = SentBy(s)
  OBVIOUS
<1>4. PICK a \in Seq(A) : a = sent[n]
  <2>1. n \in 0 .. L
    BY <1>1
  <2> QED  BY <1>1, <1>2, <1>3, <2>1, SentLoop
<1>5. PICK K \in Nat : K = Len(a)
  BY <1>4
<1> DEFINE Begins(t) == t \in Seq(A) /\ K <= Len(t) /\ \A j \in 1 .. K : t[j] = a[j]
           good == {k \in 0 .. L - n : Begins(sent[n + k])}
<1>6. good = 0 .. L - n
  <2>1. L - n \in Nat
    BY <1>1
  <2>2. 0 \in good
    <3>1. Begins(a)
      BY <1>5
    <3>2. n + 0 = n
      OBVIOUS
    <3> HIDE DEF Begins
    <3> QED  BY <1>4, <2>1, <3>1, <3>2
  <2>3. ASSUME NEW k \in 1 .. L - n, k - 1 \in good PROVE k \in good
    <3>1. PICK t : t = sent[n + (k - 1)]
      OBVIOUS
    <3>2. Begins(t)
      BY <2>3, <3>1
    <3>3. n + k \in 1 .. L /\ (n + k) - 1 = n + (k - 1)
      BY <1>1, <2>3
    <3>4. PICK w \in Seq(A) : w = WriteMessage(s.items[n + k].msg)
      BY <1>1, <1>2, <3>3, MessagesOf
    <3>5. PICK u : u = sent[n + k]
      OBVIOUS
    <3>6. u = t \o w
      <4>1. sent[n + k] = sent[(n + k) - 1] \o WriteMessage(s.items[n + k].msg)
        BY <1>1, <1>3, <3>3, SentLoop
      <4> QED  BY <3>1, <3>3, <3>4, <3>5, <4>1, Zenon
    <3>7. t \in Seq(A)
      BY <3>2
    <3>8. u \in Seq(A) /\ Len(u) = Len(t) + Len(w) /\ \A i \in 1 .. Len(t) : u[i] = t[i]
      BY <3>4, <3>6, <3>7, Joined
    <3>9. PICK T \in Nat : T = Len(t)
      BY <3>7
    <3>10. PICK V \in Nat : V = Len(w)
      BY <3>4
    <3>11. K <= T /\ \A j \in 1 .. K : t[j] = a[j]
      BY <3>2, <3>9
    <3>12. K <= Len(u) /\ \A j \in 1 .. K : u[j] = a[j]
      <4>1. Len(u) = T + V /\ \A i \in 1 .. T : u[i] = t[i]
        BY <3>8, <3>9, <3>10
      <4> QED  BY <3>11, <4>1
    <3>13. Begins(u)
      BY <3>8, <3>12
    <3> HIDE DEF Begins
    <3> QED  BY <3>5, <3>13
  <2>4. good \in SUBSET (0 .. L - n)
    OBVIOUS
  <2> HIDE DEF good
  <2> QED  BY <2>1, <2>2, <2>3, <2>4, LoopInvariant
<1>7. m - n \in 0 .. L - n /\ n + (m - n) = m
  BY <1>1
<1>8. Begins(sent[m])
  <2>1. Begins(sent[n + (m - n)])
    <3> HIDE DEF Begins
    <3> QED  BY <1>6, <1>7
  <2> HIDE DEF Begins
  <2> QED  BY <1>7, <2>1
<1> QED  BY <1>3, <1>4, <1>5, <1>8

\* Where the next message is in the stream.
LEMMA NextMessage ==
    ASSUME session \in Sessions, NEW F \in 0 .. Len(session.items)
    PROVE  /\ Size(0) = 5 /\ Size(F) \in Nat /\ Size(F) <= Len(Bytes)
           /\ Bytes \in Seq(ByteSet(session)) /\ Len(Bytes) \in Nat
           /\ F = Len(session.items) => Size(F) = Len(Bytes)
           /\ F < Len(session.items) =>
                LET w == WriteMessage(session.items[F + 1].msg)
                IN  /\ Size(F + 1) = Size(F) + Len(w) /\ Size(F + 1) <= Len(Bytes)
                    /\ \A j \in 1 .. Len(w) : Bytes[Size(F) + j] = w[j]
<1>1. PICK L \in Nat : L = Len(session.items)
  BY MessagesOf
<1>2. PICK A : A = ByteSet(session)
  OBVIOUS
<1>3. PICK sent : sent = SentBy(session)
  OBVIOUS
<1>4. \A n \in 0 .. L : sent[n] \in Seq(A) /\ Size(n) = Len(sent[n]) /\ Size(n) \in Nat
  <2> SUFFICES ASSUME NEW n \in 0 .. L PROVE sent[n] \in Seq(A) /\ Size(n) = Len(sent[n]) /\ Size(n) \in Nat
    OBVIOUS
  <2>1. PICK t \in Seq(A) : t = sent[n]
    BY <1>1, <1>2, <1>3, SentLoop
  <2>2. Size(n) = Len(t)
    BY <1>3, <2>1 DEF Size
  <2> QED  BY <2>1, <2>2
<1>5. Size(0) = 5
  <2>1. sent[0] = HandshakeBytes(session.handshake)
    BY <1>3, SentLoop
  <2>2. Len(HandshakeBytes(session.handshake)) = 5
    BY DEF HandshakeBytes
  <2> QED  BY <1>3, <2>1, <2>2 DEF Size
<1>6. PICK b \in Seq(A) : b = sent[L] /\ b = Bytes /\ Len(b) = Size(L)
  <2>1. L \in 0 .. L
    OBVIOUS
  <2>2. Bytes = sent[L]
    BY <1>1, <1>3 DEF Bytes
  <2> QED  BY <1>4, <2>1, <2>2
<1>7. \A n \in 0 .. L : Size(n) <= Len(b) /\ \A j \in 1 .. Size(n) : b[j] = sent[n][j]
  <2> SUFFICES ASSUME NEW n \in 0 .. L PROVE Size(n) <= Len(b) /\ \A j \in 1 .. Size(n) : b[j] = sent[n][j]
    OBVIOUS
  <2>1. L \in 0 .. Len(session.items)
    BY <1>1
  <2>2. /\ Len(SentBy(session)[n]) <= Len(SentBy(session)[L])
        /\ \A j \in 1 .. Len(SentBy(session)[n]) : SentBy(session)[L][j] = SentBy(session)[n][j]
    BY <2>1, SentPrefix
  <2> QED  BY <1>3, <1>4, <1>6, <2>2
<1>8. ASSUME F < L
      PROVE  LET w == WriteMessage(session.items[F + 1].msg)
             IN  /\ Size(F + 1) = Size(F) + Len(w) /\ Size(F + 1) <= Len(b)
                 /\ \A j \in 1 .. Len(w) : b[Size(F) + j] = w[j]
  <2>1. F + 1 \in 1 .. L /\ F \in 0 .. L /\ F + 1 \in 0 .. L /\ (F + 1) - 1 = F
    BY <1>1, <1>8
  <2>2. PICK w \in Seq(A) : w = WriteMessage(session.items[F + 1].msg)
    BY <1>1, <1>2, <2>1, MessagesOf
  <2>3. PICK t \in Seq(A) : t = sent[F] /\ Len(t) = Size(F)
    BY <1>4, <2>1
  <2>4. PICK u : u = sent[F + 1]
    OBVIOUS
  <2>5. u = t \o w
    <3>1. sent[F + 1] = sent[(F + 1) - 1] \o WriteMessage(session.items[F + 1].msg)
      BY <1>1, <1>3, <2>1, SentLoop
    <3> QED  BY <2>1, <2>2, <2>3, <2>4, <3>1, Zenon
  <2>6. /\ Len(u) = Len(t) + Len(w)
        /\ \A i \in 1 .. Len(w) : u[Len(t) + i] = w[i]
    BY <2>5, Joined
  <2>7. PICK T \in Nat : T = Size(F)
    BY <1>4, <2>1
  <2>8. PICK V \in Nat : V = Len(w)
    BY <2>2
  <2>9. Size(F + 1) = T + V
    BY <1>4, <2>1, <2>3, <2>4, <2>6, <2>7, <2>8
  <2>10. ASSUME NEW j \in 1 .. V PROVE b[T + j] = w[j]
    <3>1. T + j \in 1 .. T + V
      BY <2>10
    <3>2. b[T + j] = u[T + j]
      BY <1>7, <2>1, <2>4, <2>9, <3>1
    <3>3. u[T + j] = w[j]
      BY <2>3, <2>6, <2>7, <2>8, <2>10
    <3> QED  BY <3>2, <3>3
  <2> QED  BY <1>7, <2>1, <2>2, <2>7, <2>8, <2>9, <2>10
<1>9. F \in 0 .. L
  BY <1>1
<1> QED  BY <1>1, <1>2, <1>4, <1>5, <1>6, <1>7, <1>8, <1>9

\* The stream grows with every item.
LEMMA SizesGrow ==
    ASSUME session \in Sessions, NEW m \in 0 .. Len(session.items), NEW n \in 0 .. m
    PROVE  Size(n) <= Size(m)
  BY SentPrefix DEF Size

\* io.ReadFull gives the next bytes of the stream.
LEMMA ReadsNext ==
    ASSUME session \in Sessions, rd \in Nat, NEW n \in Nat, Available(n)
    PROVE  /\ NextBytes(n) \in Seq(ByteSet(session)) /\ Len(NextBytes(n)) = n
           /\ \A j \in 1 .. n : NextBytes(n)[j] = Bytes[rd + j]
<1>1. PICK A : A = ByteSet(session)
  OBVIOUS
<1>2. PICK b \in Seq(A) : b = Bytes
  <2>1. 0 \in 0 .. Len(session.items)
    BY MessagesOf
  <2> QED  BY <1>1, <2>1, NextMessage
<1>3. PICK B \in Nat : B = Len(b)
  OBVIOUS
<1>4. rd + n <= B
  BY <1>2, <1>3 DEF Available
<1>5. PICK r \in Nat : r = rd
  OBVIOUS
<1>6. PICK t : t = SubSeq(b, r + 1, r + n)
  OBVIOUS
<1>7. r + 1 \in 1 .. Len(b) + 1 /\ r + n \in r .. Len(b)
  BY <1>3, <1>4, <1>5
<1>8. t \in Seq(A) /\ Len(t) = n /\ \A j \in 1 .. n : t[j] = b[r + j]
  <2>1. t \in Seq(A)
    <3>1. \A i \in r + 1 .. r + n : b[i] \in A
      <4> SUFFICES ASSUME NEW i \in r + 1 .. r + n PROVE b[i] \in A
        OBVIOUS
      <4>1. i \in 1 .. Len(b)
        BY <1>7
      <4> QED  BY <4>1
    <3> QED  BY <1>6, <1>7, <3>1, SubSeqProperties
  <2>2. Len(t) = IF r + 1 <= r + n THEN (r + n) - (r + 1) + 1 ELSE 0
    BY <1>6, <1>7, SubSeqProperties
  <2>3. Len(t) = n
    BY <2>2
  <2>4. ASSUME NEW j \in 1 .. n PROVE t[j] = b[r + j]
    <3>1. t[j] = b[r + 1 + j - 1]
      BY <1>6, <1>7, <2>3
    <3>2. r + 1 + j - 1 = r + j
      OBVIOUS
    <3> QED  BY <3>1, <3>2
  <2> QED  BY <2>1, <2>3, <2>4
<1> QED  BY <1>1, <1>2, <1>5, <1>6, <1>8 DEF NextBytes

-----------------------------------------------------------------------------
(* Wire: framing                                                           *)

NextMsg == session.items[Len(frames) + 1].msg

\* The reader is at the beginning of the message that comes next, or behind
\* its header; before that it has seen the handshake of the right peer.
FrameInv ==
    /\ session \in Sessions /\ rd \in Nat
    /\ wpc \in {"dial", "handshake", "header", "body", "decode", "closed"}
    /\ Len(frames) \in 0 .. Len(session.items)
    /\ wpc = "dial" => rd = 0 /\ frames = <<>>
    /\ wpc = "handshake" => rd = 1 /\ frames = <<>> /\ session.handshake.pstrlen = 19
    /\ wpc \in {"header", "decode"} => RightPeer /\ rd = Size(Len(frames))
    /\ wpc = "body" =>
          /\ RightPeer /\ Len(frames) < Len(session.items)
          /\ rd = Size(Len(frames)) + 2
          /\ NextMsg # KeepAlive /\ length = MessageLength(NextMsg)
    /\ FramingExact

\* The bytes of the handshake.
LEMMA HandshakeSeen ==
    ASSUME session \in Sessions
    PROVE  LET h == session.handshake
           IN  Bytes[1] = h.pstrlen /\ Bytes[2] = h.pstr /\ Bytes[3] = h.ext /\ Bytes[4] = h.hash
<1>1. PICK L \in Nat : L = Len(session.items)
  BY MessagesOf
<1>2. PICK t : t = HandshakeBytes(session.handshake)
  OBVIOUS
<1>3. Len(t) = 5
  BY <1>2 DEF HandshakeBytes
<1>4. SentBy(session)[0] = t /\ SentBy(session)[L] = Bytes
  BY <1>1, <1>2, SentLoop DEF Bytes
<1>5. \A j \in 1 .. 5 : Bytes[j] = t[j]
  <2>1. L \in 0 .. Len(session.items) /\ 0 \in 0 .. L
    BY <1>1
  <2>2. \A j \in 1 .. Len(SentBy(session)[0]) : SentBy(session)[L][j] = SentBy(session)[0][j]
    BY <2>1, SentPrefix
  <2> QED  BY <1>3, <1>4, <2>2
<1>6. /\ t[1] = session.handshake.pstrlen /\ t[2] = session.handshake.pstr
      /\ t[3] = session.handshake.ext /\ t[4] = session.handshake.hash
  BY <1>2 DEF HandshakeBytes
<1>7. Bytes[1] = t[1] /\ Bytes[2] = t[2] /\ Bytes[3] = t[3] /\ Bytes[4] = t[4]
  BY <1>5
<1> QED  BY <1>6, <1>7

\* The header, the id and the payload of the message that comes next, at
\* their places in the stream.
InStream(F, msg, n) ==
    /\ IsMessage(msg) /\ n \in Nat /\ Size(F) \in Nat
    /\ Size(F + 1) = Size(F) + 2 + n /\ Size(F + 1) <= Len(Bytes)
    /\ Bytes[Size(F) + 1] * Base + Bytes[Size(F) + 2] = n
    /\ msg # KeepAlive =>
         /\ n > 0 /\ Bytes[Size(F) + 3] = msg.id
         /\ \A k \in 1 .. n - 1 : Bytes[Size(F) + 3 + k] = msg.payload[k]

\* The next message is there.
LEMMA NextShape ==
    ASSUME session \in Sessions, NEW F \in 0 .. Len(session.items), F < Len(session.items),
           NEW msg, msg = session.items[F + 1].msg, NEW n, n = MessageLength(msg)
    PROVE  InStream(F, msg, n)
<1>1. PICK A : A = ByteSet(session)
  OBVIOUS
<1>2. F + 1 \in 1 .. Len(session.items)
  BY MessagesOf
<1>3. IsMessage(msg)
  BY <1>2, MessagesOf
<1>4. Int \subseteq A /\ \A k \in 1 .. Len(msg.payload) : msg.payload[k] \in A
  BY <1>1, <1>2, PayloadOccurs
<1>5. PICK w : w = WriteMessage(msg)
  OBVIOUS
<1>6. /\ n \in Nat /\ Len(w) = 2 + n
      /\ w[1] \in Nat /\ w[2] \in Nat /\ w[1] * Base + w[2] = n
      /\ msg # KeepAlive => n > 0 /\ w[3] = msg.id /\ \A k \in 1 .. n - 1 : w[3 + k] = msg.payload[k]
  <2>1. Written(A, msg, w, n)
    BY <1>3, <1>4, <1>5, WriteShape
  <2> QED  BY <2>1 DEF Written
<1>7. PICK T \in Nat : T = Size(F)
  BY NextMessage
<1>8. /\ Size(F + 1) = T + Len(w) /\ Size(F + 1) <= Len(Bytes)
      /\ \A j \in 1 .. Len(w) : Bytes[T + j] = w[j]
  BY <1>5, <1>7, NextMessage
<1>9. Size(F + 1) = T + 2 + n /\ \A j \in 1 .. 2 + n : Bytes[T + j] = w[j]
  BY <1>6, <1>8
<1>10. Bytes[T + 1] = w[1] /\ Bytes[T + 2] = w[2]
  BY <1>6, <1>9
<1>11. ASSUME msg # KeepAlive
       PROVE  /\ n > 0 /\ Bytes[T + 3] = msg.id
              /\ \A k \in 1 .. n - 1 : Bytes[T + 3 + k] = msg.payload[k]
  <2>1. n > 0 /\ 3 \in 1 .. 2 + n
    BY <1>6, <1>11
  <2>2. ASSUME NEW k \in 1 .. n - 1 PROVE Bytes[T + 3 + k] = msg.payload[k]
    <3>1. n \in Nat
      BY <1>6
    <3>2. 3 + k \in 1 .. 2 + n /\ T + 3 + k = T + (3 + k)
      BY <2>2, <3>1
    <3> QED  BY <1>6, <1>9, <1>11, <2>2, <3>2
  <2> QED  BY <1>6, <1>9, <1>11, <2>1, <2>2
<1> QED  BY <1>3, <1>6, <1>7, <1>8, <1>9, <1>10, <1>11 DEF InStream

\* A message that arrives whole leaves nothing of itself to wait for.
LEMMA WholeAvailable ==
    ASSUME session \in Sessions, NEW F \in 0 .. Len(session.items), NEW n \in 1 .. Len(session.items),
           Whole(n), F < n
    PROVE  /\ F < Len(session.items) /\ 5 <= Size(F + 1)
           /\ Size(F + 1) <= session.cut /\ Size(F + 1) <= Len(Bytes)
           /\ 1 + Len(session.items[F + 1].msg.payload) <= MaxMessageLen
<1>1. PICK L \in Nat : L = Len(session.items)
  BY MessagesOf
<1>2. F < L /\ F + 1 \in 0 .. n /\ n \in 0 .. L /\ F + 1 \in 1 .. n /\ 0 \in 0 .. F + 1 /\ F + 1 \in 0 .. L
  BY <1>1
<1>3. Size(n) <= session.cut /\ 1 + Len(session.items[F + 1].msg.payload) <= MaxMessageLen
  BY <1>2 DEF Whole
<1>4. Size(F + 1) <= Size(n) /\ Size(0) <= Size(F + 1)
  BY <1>1, <1>2, SizesGrow
<1>5. Size(0) = 5 /\ Size(F + 1) \in Nat /\ Size(n) \in Nat /\ Size(F + 1) <= Len(Bytes)
  BY <1>1, <1>2, NextMessage
<1>6. session.cut \in Nat
  BY WireAssumption
<1> QED  BY <1>1, <1>2, <1>3, <1>4, <1>5, <1>6

\* The connection is dialled.
LEMMA FrameInit == WireInit => FrameInv
<1> SUFFICES ASSUME WireInit PROVE FrameInv
  OBVIOUS
<1>1. session \in Sessions /\ wpc = "dial" /\ rd = 0 /\ frames = <<>>
  BY DEF WireInit
<1>2. Len(frames) = 0 /\ Len(session.items) \in Nat
  BY <1>1, MessagesOf
<1>3. frames = [k \in 1 .. Len(frames) |-> session.items[k].msg]
  <2>1. 1 .. Len(frames) = {}
    BY <1>2
  <2> QED  BY <1>1, <2>1
<1> QED  BY <1>1, <1>2, <1>3 DEF FrameInv, FramingExact

\* One message more, and it is the one that came next.
LEMMA FrameAdded ==
    ASSUME FrameInv, Len(frames) < Len(session.items), frames' = Append(frames, NextMsg),
           session' = session, RightPeer, wpc' # "closed"
    PROVE  /\ FramingExact' /\ Len(frames') = Len(frames) + 1
           /\ Len(frames') \in 0 .. Len(session.items)
<1>1. PICK F \in Nat : F = Len(frames)
  BY DEF FrameInv
<1>2. PICK t : t = frames'
  OBVIOUS
<1>3. frames = [k \in 1 .. F |-> session.items[k].msg]
  BY <1>1 DEF FrameInv, FramingExact
<1>4. IsSeq(frames)
  <2>1. frames = [k \in 1 .. F |-> frames[k]]
    BY <1>3
  <2> QED  BY <1>1, <2>1 DEF IsSeq
<1>5. IsSeq(t) /\ Len(t) = F + 1 /\ t[F + 1] = NextMsg /\ \A k \in 1 .. F : t[k] = frames[k]
  BY <1>1, <1>2, <1>4, OneMore
<1>6. t = [k \in 1 .. Len(t) |-> session.items[k].msg]
  <2>1. t = [k \in 1 .. F + 1 |-> t[k]]
    BY <1>5 DEF IsSeq
  <2>2. ASSUME NEW k \in 1 .. F + 1 PROVE t[k] = session.items[k].msg
    <3>1. k \in 1 .. F \/ k = F + 1
      BY <2>2
    <3> QED  BY <1>1, <1>3, <1>5, <3>1 DEF NextMsg
  <2> QED  BY <1>5, <2>1, <2>2
<1>7. RightPeer'
  BY DEF RightPeer
<1>8. FramingExact'
  BY <1>2, <1>6, <1>7 DEF FramingExact
<1>9. F + 1 \in 0 .. Len(session.items)
  <2>1. Len(session.items) \in Nat
    BY MessagesOf DEF FrameInv
  <2> QED  BY <1>1, <2>1
<1> QED  BY <1>1, <1>2, <1>5, <1>8, <1>9

\* A connection that closes early has read every message that came whole.
LEMMA FrameClosed ==
    ASSUME FrameInv, UNCHANGED <<session, frames>>, rd' \in Nat, wpc' = "closed",
           \A n \in 1 .. Len(session.items) : Whole(n) /\ RightPeer => n <= Len(frames)
    PROVE  FrameInv'
<1>1. RightPeer' = RightPeer
  BY DEF RightPeer
<1>2. \A n : Whole(n)' <=> Whole(n)
  BY DEF Whole, Size
<1>3. FramingExact'
  BY <1>1, <1>2 DEF FramingExact, FrameInv
<1> QED  BY <1>3 DEF FrameInv

\* A step that reads no message and does not close.
LEMMA FrameKept ==
    ASSUME FrameInv, UNCHANGED <<session, frames>>, wpc' # "closed"
    PROVE  /\ FramingExact' /\ RightPeer' = RightPeer /\ NextMsg' = NextMsg
           /\ \A n : Size(n)' = Size(n)
<1>1. RightPeer' = RightPeer /\ NextMsg' = NextMsg /\ \A n : Size(n)' = Size(n)
  BY DEF RightPeer, NextMsg, Size
<1> QED  BY <1>1 DEF FramingExact, FrameInv

\* The deadline, or the end of the stream, before all the bytes are there.
LEMMA FailsStep ==
    ASSUME FrameInv, ReadFails
    PROVE  FrameInv'
<1>1. UNCHANGED <<session, rd, frames>> /\ wpc' = "closed"
  BY DEF ReadFails, Close
<1>2. ASSUME NEW n \in 1 .. Len(session.items), Whole(n), RightPeer, ~(n <= Len(frames)) PROVE FALSE
  <2>1. PICK F : F = Len(frames)
    OBVIOUS
  <2>2. session \in Sessions /\ F \in 0 .. Len(session.items) /\ Len(session.items) \in Nat
    BY <2>1, MessagesOf DEF FrameInv
  <2>3. F < n
    BY <1>2, <2>1, <2>2
  <2>4. PICK E : E = Size(F + 1)
    OBVIOUS
  <2>5. F < Len(session.items) /\ 5 <= E /\ E <= session.cut /\ E <= Len(Bytes)
    BY <1>2, <2>2, <2>3, <2>4, WholeAvailable
  <2>6. PICK msg : msg = session.items[F + 1].msg
    OBVIOUS
  <2>7. PICK m : m = MessageLength(msg)
    OBVIOUS
  <2>8. PICK T : T = Size(F)
    OBVIOUS
  <2>9. m \in Nat /\ T \in Nat /\ E = T + 2 + m
    BY <2>2, <2>4, <2>5, <2>6, <2>7, <2>8, NextShape DEF InStream
  <2>10. PICK C : C = session.cut
    OBVIOUS
  <2>11. PICK B : B = Len(Bytes)
    OBVIOUS
  <2>12. C \in Nat /\ B \in Nat
    <3>1. C \in Nat
      BY <2>2, <2>10, WireAssumption
    <3>2. B \in Nat
      BY <2>2, <2>11, NextMessage
    <3> QED  BY <3>1, <3>2
  <2>13. ASSUME NEW k \in Nat, rd + k <= E PROVE Available(k)
    <3>1. rd \in Nat
      BY DEF FrameInv
    <3> QED  BY <2>5, <2>9, <2>10, <2>11, <2>12, <2>13, <3>1 DEF Available
  <2>14. CASE wpc = "dial" /\ ~Available(1)
    <3>1. rd = 0
      BY <2>14 DEF FrameInv
    <3> QED  BY <2>5, <2>9, <2>13, <2>14, <3>1
  <2>15. CASE wpc = "handshake" /\ ~Available(4)
    <3>1. rd = 1
      BY <2>15 DEF FrameInv
    <3> QED  BY <2>5, <2>9, <2>13, <2>15, <3>1
  <2>16. CASE wpc = "header" /\ ~Available(2)
    <3>1. rd = T
      BY <2>1, <2>8, <2>16 DEF FrameInv
    <3> QED  BY <2>9, <2>13, <2>16, <3>1
  <2>17. CASE wpc = "body" /\ ~Available(length)
    <3>1. rd = T + 2 /\ length = m
      BY <2>1, <2>6, <2>7, <2>8, <2>17 DEF FrameInv, NextMsg
    <3> QED  BY <2>9, <2>13, <2>17, <3>1
  <2> QED  BY <2>14, <2>15, <2>16, <2>17 DEF ReadFails
<1>3. rd' \in Nat
  BY <1>1 DEF FrameInv
<1> QED  BY <1>1, <1>2, <1>3, FrameClosed

\* The handshake: another torrent or another protocol is closed at once.
LEMMA HandshakeSteps ==
    ASSUME FrameInv, RecvPstrLen \/ ReadHandshake
    PROVE  FrameInv'
<1>1. session \in Sessions /\ rd \in Nat /\ frames = <<>>
  BY DEF FrameInv, RecvPstrLen, ReadHandshake
<1>2. PICK h : h = session.handshake
  OBVIOUS
<1>3. Bytes[1] = h.pstrlen /\ Bytes[2] = h.pstr /\ Bytes[3] = h.ext /\ Bytes[4] = h.hash
  BY <1>1, <1>2, HandshakeSeen
<1>4. CASE RecvPstrLen
  <2>1. /\ wpc = "dial" /\ rd = 0 /\ Available(1) /\ rd' = rd + 1 /\ UNCHANGED <<session, frames>>
        /\ wpc' = IF NextBytes(1)[1] = 19 THEN "handshake" ELSE "closed"
    BY <1>4 DEF RecvPstrLen, FrameInv
  <2>2. NextBytes(1)[1] = h.pstrlen
    <3>1. NextBytes(1)[1] = Bytes[rd + 1]
      BY <1>1, <2>1, ReadsNext
    <3>2. rd + 1 = 1
      BY <2>1
    <3> QED  BY <1>3, <3>1, <3>2
  <2>3. rd' = 1
    BY <2>1
  <2>4. CASE h.pstrlen = 19
    <3>1. wpc' = "handshake"
      BY <2>1, <2>2, <2>4
    <3>2. FramingExact'
      BY <2>1, <3>1, FrameKept
    <3> QED  BY <1>1, <1>2, <2>1, <2>3, <2>4, <3>1, <3>2 DEF FrameInv
  <2>5. CASE h.pstrlen # 19
    <3>1. wpc' = "closed" /\ ~RightPeer /\ rd' \in Nat
      BY <1>2, <2>1, <2>2, <2>3, <2>5 DEF RightPeer
    <3> QED  BY <2>1, <3>1, FrameClosed
  <2> QED  BY <2>4, <2>5
<1>5. CASE ReadHandshake
  <2>1. PICK buf : buf = NextBytes(4)
    OBVIOUS
  <2>2. /\ wpc = "handshake" /\ rd = 1 /\ Available(4) /\ rd' = rd + 4 /\ UNCHANGED <<session, frames>>
        /\ h.pstrlen = 19
        /\ wpc' = IF buf[1] = 1 /\ buf[3] = InfoHash THEN "header" ELSE "closed"
    BY <1>2, <1>5, <2>1 DEF ReadHandshake, FrameInv, HashOK
  <2>3. buf[1] = h.pstr /\ buf[3] = h.hash
    <3>1. \A j \in 1 .. 4 : buf[j] = Bytes[rd + j]
      BY <1>1, <2>1, <2>2, ReadsNext
    <3>2. buf[1] = Bytes[1 + 1] /\ buf[3] = Bytes[1 + 3]
      BY <2>2, <3>1
    <3> QED  BY <1>3, <3>2
  <2>4. rd' = 5
    BY <2>2
  <2>5. CASE RightPeer
    <3>1. wpc' = "header"
      BY <1>2, <2>2, <2>3, <2>5 DEF RightPeer
    <3>2. FramingExact' /\ RightPeer' /\ Size(0)' = Size(0)
      BY <2>2, <2>5, <3>1, FrameKept
    <3>3. Size(0) = 5 /\ Len(frames) = 0
      <4>1. 0 \in 0 .. Len(session.items)
        BY <1>1, MessagesOf
      <4> QED  BY <1>1, <4>1, NextMessage
    <3> QED  BY <1>1, <2>2, <2>4, <3>1, <3>2, <3>3 DEF FrameInv
  <2>6. CASE ~RightPeer
    <3>1. wpc' = "closed" /\ rd' \in Nat
      BY <1>2, <2>2, <2>3, <2>4, <2>6 DEF RightPeer
    <3> QED  BY <2>2, <2>6, <3>1, FrameClosed
  <2> QED  BY <2>5, <2>6
<1> QED  BY <1>4, <1>5

\* A header: a keep-alive is a message, a longer one is read next, and one
\* that is too long ends the connection.
LEMMA HeaderStep ==
    ASSUME FrameInv, ReadHeader
    PROVE  FrameInv'
<1>1. PICK n : n = NextBytes(2)[1] * Base + NextBytes(2)[2]
  OBVIOUS
<1>2. /\ wpc = "header" /\ Available(2) /\ rd' = rd + 2 /\ session' = session
      /\ IF n = 0 THEN frames' = Append(frames, KeepAlive) /\ UNCHANGED <<wpc, length>>
         ELSE IF n <= MaxMessageLen THEN wpc' = "body" /\ length' = n /\ UNCHANGED frames
         ELSE wpc' = "closed" /\ UNCHANGED <<length, frames>>
  BY <1>1 DEF ReadHeader, LengthOK, Close
<1>3. PICK F : F = Len(frames)
  OBVIOUS
<1>4. PICK T : T = Size(F)
  OBVIOUS
<1>5. /\ session \in Sessions /\ F \in 0 .. Len(session.items) /\ Len(session.items) \in Nat
      /\ RightPeer /\ rd = T /\ T \in Nat
  <2>1. session \in Sessions /\ F \in 0 .. Len(session.items) /\ RightPeer /\ rd = T /\ rd \in Nat
    BY <1>2, <1>3, <1>4 DEF FrameInv
  <2> QED  BY <2>1, MessagesOf
<1>6. F < Len(session.items)
  <2>1. CASE F = Len(session.items)
    <3>1. T = Len(Bytes)
      BY <1>4, <1>5, <2>1, NextMessage
    <3>2. T + 2 <= Len(Bytes)
      BY <1>2, <1>5 DEF Available
    <3> QED  BY <1>5, <3>1, <3>2
  <2> QED  BY <1>5, <2>1
<1>7. PICK msg : msg = session.items[F + 1].msg
  OBVIOUS
<1>8. PICK m : m = MessageLength(msg)
  OBVIOUS
<1>9. /\ IsMessage(msg) /\ m \in Nat /\ Size(F + 1) = T + 2 + m
      /\ Bytes[T + 1] * Base + Bytes[T + 2] = m
      /\ msg # KeepAlive => m > 0
  BY <1>4, <1>5, <1>6, <1>7, <1>8, NextShape DEF InStream
<1>10. n = m
  <2>1. \A j \in 1 .. 2 : NextBytes(2)[j] = Bytes[rd + j]
    BY <1>2, <1>5, ReadsNext
  <2>2. NextBytes(2)[1] = Bytes[T + 1] /\ NextBytes(2)[2] = Bytes[T + 2]
    BY <1>5, <2>1
  <2> QED  BY <1>1, <1>9, <2>2
<1>11. rd' \in Nat /\ rd' = T + 2
  BY <1>2, <1>5
<1>12. msg = NextMsg
  BY <1>3, <1>7 DEF NextMsg
<1>13. CASE n = 0
  <2>1. msg = KeepAlive
    BY <1>9, <1>10, <1>13
  <2>2. frames' = Append(frames, NextMsg) /\ wpc' = "header"
    BY <1>2, <1>12, <1>13, <2>1
  <2>3. FramingExact' /\ Len(frames') = F + 1 /\ Len(frames') \in 0 .. Len(session.items)
    BY <1>2, <1>3, <1>5, <1>6, <2>2, FrameAdded
  <2>4. rd' = Size(F + 1)
    BY <1>5, <1>9, <1>10, <1>11, <1>13
  <2>5. RightPeer' /\ Size(F + 1)' = Size(F + 1)
    BY <1>2, <1>5 DEF RightPeer, Size
  <2> QED  BY <1>2, <1>5, <1>11, <2>2, <2>3, <2>4, <2>5 DEF FrameInv
<1>14. CASE n # 0 /\ n <= MaxMessageLen
  <2>1. wpc' = "body" /\ length' = m /\ UNCHANGED frames
    BY <1>2, <1>10, <1>14
  <2>2. msg # KeepAlive
    BY <1>8, <1>10, <1>14 DEF MessageLength
  <2>3. FramingExact' /\ RightPeer' /\ NextMsg' = msg /\ Size(F)' = T
    BY <1>2, <1>4, <1>5, <1>12, <2>1, FrameKept
  <2> QED  BY <1>2, <1>3, <1>5, <1>6, <1>8, <1>11, <2>1, <2>2, <2>3 DEF FrameInv
<1>15. CASE n # 0 /\ ~(n <= MaxMessageLen)
  <2>1. wpc' = "closed" /\ UNCHANGED frames
    BY <1>2, <1>15
  <2>2. ASSUME NEW k \in 1 .. Len(session.items), Whole(k) PROVE k <= F
    <3> SUFFICES ASSUME F < k PROVE FALSE
      BY <1>5, <2>2
    <3>1. 1 + Len(msg.payload) <= MaxMessageLen
      BY <1>5, <1>7, <2>2, WholeAvailable
    <3>2. msg # KeepAlive
      BY <1>8, <1>10, <1>15 DEF MessageLength
    <3> QED  BY <1>8, <1>10, <1>15, <3>1, <3>2 DEF MessageLength
  <2> QED  BY <1>2, <1>3, <1>11, <2>1, <2>2, FrameClosed
<1> QED  BY <1>13, <1>14, <1>15

\* The id and the payload.
LEMMA BodyStep ==
    ASSUME FrameInv, ReadBody
    PROVE  /\ FrameInv' /\ Len(frames) < Len(session.items)
           /\ frames' = Append(frames, NextMsg)
           /\ [id |-> NextBytes(length)[1], payload |-> Tail(NextBytes(length))] = NextMsg
<1>1. PICK buf : buf = NextBytes(length)
  OBVIOUS
<1>2. PICK read : read = [id |-> buf[1], payload |-> Tail(buf)]
  OBVIOUS
<1>3. /\ wpc = "body" /\ Available(length) /\ rd' = rd + length /\ session' = session
      /\ frames' = Append(frames, read) /\ wpc' \in {"decode", "header"}
  BY <1>1, <1>2 DEF ReadBody
<1>4. PICK F : F = Len(frames)
  OBVIOUS
<1>5. PICK T : T = Size(F)
  OBVIOUS
<1>6. PICK msg : msg = NextMsg
  OBVIOUS
<1>7. PICK m : m = MessageLength(msg)
  OBVIOUS
<1>8. /\ session \in Sessions /\ F \in 0 .. Len(session.items) /\ F < Len(session.items)
      /\ RightPeer /\ rd = T + 2 /\ rd \in Nat /\ msg # KeepAlive /\ length = m
  BY <1>3, <1>4, <1>5, <1>6, <1>7 DEF FrameInv
<1>9. /\ IsMessage(msg) /\ m \in Nat /\ T \in Nat /\ Size(F + 1) = T + 2 + m
      /\ m > 0 /\ Bytes[T + 3] = msg.id /\ \A k \in 1 .. m - 1 : Bytes[T + 3 + k] = msg.payload[k]
  <2>1. msg = session.items[F + 1].msg
    BY <1>4, <1>6 DEF NextMsg
  <2>2. InStream(F, msg, m)
    BY <1>7, <1>8, <2>1, NextShape
  <2> QED  BY <1>5, <1>8, <2>2, Zenon DEF InStream
<1>10. PICK A : A = ByteSet(session)
  OBVIOUS
<1>11. buf \in Seq(A) /\ Len(buf) = m /\ \A j \in 1 .. m : buf[j] = Bytes[rd + j]
  BY <1>1, <1>3, <1>8, <1>9, <1>10, ReadsNext
<1>12. buf[1] = msg.id
  <2>1. 1 \in 1 .. m /\ rd + 1 = T + 3
    BY <1>8, <1>9
  <2> QED  BY <1>9, <1>11, <2>1
<1>13. PICK p : p = msg.payload
  OBVIOUS
<1>14. IsSeq(p) /\ msg = [id |-> msg.id, payload |-> p] /\ m = 1 + Len(p) /\ Len(p) \in Nat
  BY <1>7, <1>8, <1>9, <1>13 DEF IsMessage, MessageLength, IsSeq
<1>15. PICK t : t = Tail(buf)
  OBVIOUS
<1>16. t \in Seq(A) /\ Len(t) = m - 1 /\ \A k \in 1 .. m - 1 : t[k] = buf[k + 1]
  <2>1. buf \in Seq(A) /\ buf # <<>>
    BY <1>9, <1>11
  <2>2. t \in Seq(A) /\ Len(t) = Len(buf) - 1 /\ \A k \in 1 .. Len(buf) - 1 : t[k] = buf[k + 1]
    BY <1>15, <2>1
  <2> QED  BY <1>11, <2>2
<1>17. t = p
  <2>1. Len(p) = m - 1
    BY <1>14
  <2>2. ASSUME NEW k \in 1 .. m - 1 PROVE t[k] = p[k]
    <3>1. k + 1 \in 1 .. m /\ rd + (k + 1) = T + 3 + k
      BY <1>8, <1>9, <2>2
    <3>2. buf[k + 1] = Bytes[T + 3 + k]
      BY <1>11, <3>1
    <3> QED  BY <1>9, <1>13, <1>16, <2>2, <3>2
  <2>3. t = [k \in 1 .. m - 1 |-> t[k]]
    BY <1>16
  <2>4. p = [k \in 1 .. m - 1 |-> p[k]]
    BY <1>14, <2>1 DEF IsSeq
  <2> QED  BY <2>2, <2>3, <2>4
<1>18. read = msg
  BY <1>2, <1>12, <1>14, <1>15, <1>17
<1>19. FramingExact' /\ Len(frames') = F + 1 /\ Len(frames') \in 0 .. Len(session.items)
  BY <1>3, <1>4, <1>6, <1>8, <1>18, FrameAdded
<1>20. rd' = Size(F + 1) /\ rd' \in Nat
  BY <1>3, <1>8, <1>9
<1>21. RightPeer' /\ Size(F + 1)' = Size(F + 1)
  BY <1>3, <1>8 DEF RightPeer, Size
<1>22. FrameInv'
  BY <1>3, <1>8, <1>19, <1>20, <1>21 DEF FrameInv
<1> QED  BY <1>1, <1>2, <1>3, <1>4, <1>6, <1>8, <1>18, <1>22

\* The decoder reads no message.
LEMMA DecodeSteps ==
    ASSUME FrameInv, Decode \/ Decoded \/ UNCHANGED wireVars
    PROVE  FrameInv'
<1>1. CASE UNCHANGED wire
  <2>1. UNCHANGED <<session, wpc, rd, length, frames>>
    BY <1>1 DEF wire
  <2>2. RightPeer' = RightPeer /\ NextMsg' = NextMsg /\ FramingExact' = FramingExact /\ \A n : Size(n)' = Size(n)
    BY <2>1 DEF RightPeer, NextMsg, FramingExact, Whole, Size
  <2> QED  BY <2>1, <2>2 DEF FrameInv
<1>2. CASE Decoded
  <2>1. UNCHANGED <<session, rd, frames>> /\ wpc = "decode" /\ wpc' = "header"
    BY <1>2 DEF Decoded
  <2>2. FramingExact' /\ RightPeer' = RightPeer /\ \A n : Size(n)' = Size(n)
    BY <2>1, FrameKept
  <2> QED  BY <2>1, <2>2 DEF FrameInv
<1> QED  BY <1>1, <1>2 DEF Decode, wireVars

\* Every step of the receiver.
LEMMA FrameStep == FrameInv /\ [WireNext]_wireVars => FrameInv'
  BY HandshakeSteps, HeaderStep, BodyStep, FailsStep, DecodeSteps DEF WireNext, Closed, Panicked

\* For every session, every length of its messages and every byte at which the
\* stream may end: the messages that RecvMessage returns are those that the
\* peer sent, one by one, and all that came whole before one too long.
THEOREM FramingExactHolds == WireSpec => []FramingExact
<1>1. FrameInv => FramingExact
  BY DEF FrameInv
<1> QED  BY <1>1, FrameInit, FrameStep, PTL DEF WireSpec

-----------------------------------------------------------------------------
(* Wire: the bitfield                                                      *)

Two(k) == 2 ^ k
BitMasks == {1, 2, 4, 8, 16, 32, 64, 128}

\* The powers that a mask can be.
LEMMA PowersOfTwo ==
    /\ Two(0) = 1 /\ Two(1) = 2 /\ Two(2) = 4 /\ Two(3) = 8
    /\ Two(4) = 16 /\ Two(5) = 32 /\ Two(6) = 64 /\ Two(7) = 128
  BY DEF Two

\* The masks of one byte.
LEMMA Masks ==
    ASSUME NEW i \in Nat
    PROVE  /\ Mask(i) \in BitMasks /\ ByteIdx(i) \in Nat \ {0}
           /\ \A x \in Nat : ByteIdx(x) = ByteIdx(i) /\ Mask(x) = Mask(i) => x = i
<1>1. PICK B \in 1 .. 8 : B = BitsPerByte
  BY WireAssumption
<1>2. B \in {1, 2, 3, 4, 5, 6, 7, 8}
  BY <1>1
<1>3. \A x \in Nat : /\ x % B \in 0 .. B - 1 /\ x \div B \in Nat
                     /\ x = B * (x \div B) + (x % B)
  BY <1>2
<1> DEFINE E(x) == B - 1 - (x % B)
<1>4. \A x \in Nat : E(x) \in {0, 1, 2, 3, 4, 5, 6, 7} /\ Mask(x) = Two(E(x)) /\ ByteIdx(x) = x \div B + 1
  <2> SUFFICES ASSUME NEW x \in Nat
               PROVE  E(x) \in {0, 1, 2, 3, 4, 5, 6, 7} /\ Mask(x) = Two(E(x)) /\ ByteIdx(x) = x \div B + 1
    OBVIOUS
  <2>1. E(x) \in {0, 1, 2, 3, 4, 5, 6, 7}
    <3>1. PICK r \in 0 .. B - 1 : r = x % B
      BY <1>3
    <3>2. B - 1 - r \in {0, 1, 2, 3, 4, 5, 6, 7}
      OBVIOUS
    <3> QED  BY <3>1, <3>2
  <2> QED  BY <1>1, <2>1 DEF Mask, ByteIdx, Two
<1> HIDE DEF E
<1>6. Mask(i) \in BitMasks
  <2>1. PICK e \in {0, 1, 2, 3, 4, 5, 6, 7} : Mask(i) = Two(e)
    BY <1>4
  <2> QED  BY <2>1, PowersOfTwo DEF BitMasks
<1>7. ASSUME NEW x \in Nat, ByteIdx(x) = ByteIdx(i), Mask(x) = Mask(i) PROVE x = i
  <2>1. PICK d \in {0, 1, 2, 3, 4, 5, 6, 7} : d = E(x)
    BY <1>4
  <2>2. PICK e \in {0, 1, 2, 3, 4, 5, 6, 7} : e = E(i)
    BY <1>4
  <2>3. Two(d) = Two(e)
    BY <1>4, <1>7, <2>1, <2>2
  <2>4. d = e
    BY <2>3, PowersOfTwo
  <2>5. PICK r \in Nat : r = x % B
    BY <1>3
  <2>6. PICK s \in Nat : s = i % B
    BY <1>3
  <2>7. r = s
    BY <2>1, <2>2, <2>4, <2>5, <2>6 DEF E
  <2>8. x \div B \in Nat /\ i \div B \in Nat /\ x \div B = i \div B
    <3>1. x \div B \in Nat /\ i \div B \in Nat
      BY <1>3
    <3>2. x \div B + 1 = i \div B + 1
      BY <1>4, <1>7
    <3> QED  BY <3>1, <3>2
  <2>9. x = B * (x \div B) + r /\ i = B * (i \div B) + s
    BY <1>3, <2>5, <2>6
  <2> QED  BY <2>7, <2>8, <2>9
<1>8. ByteIdx(i) \in Nat \ {0}
  <2>1. i \div B \in Nat
    BY <1>3
  <2>2. ByteIdx(i) = i \div B + 1
    BY <1>4
  <2> QED  BY <2>1, <2>2
<1> QED  BY <1>6, <1>7, <1>8

\* The pieces that a bitfield has a bit for.
LEMMA HasBit ==
    ASSUME NEW L \in Nat, NEW i \in Nat
    PROVE  ByteIdx(i) <= L <=> i \in 0 .. L * BitsPerByte - 1
<1>1. PICK B \in 1 .. 8 : B = BitsPerByte
  BY WireAssumption
<1>2. B \in {1, 2, 3, 4, 5, 6, 7, 8}
  BY <1>1
<1>3. i \div B + 1 <= L <=> i <= L * B - 1
  BY <1>2
<1> QED  BY <1>1, <1>3 DEF ByteIdx

\* One bit set changes no other.
LEMMA OneBitSet ==
    ASSUME NEW b \in Nat,
           NEW p \in BitMasks, NEW q \in BitMasks,
           (b \div p) % 2 # 1
    PROVE  ((b + p) \div q) % 2 = 1 <=> (b \div q) % 2 = 1 \/ q = p
<1>1. CASE p = 1
  BY <1>1, SMTT(60) DEF BitMasks
<1>2. CASE p = 2
  BY <1>2, SMTT(60) DEF BitMasks
<1>3. CASE p = 4
  BY <1>3, SMTT(60) DEF BitMasks
<1>4. CASE p = 8
  BY <1>4, SMTT(60) DEF BitMasks
<1>5. CASE p = 16
  BY <1>5, SMTT(60) DEF BitMasks
<1>6. CASE p = 32
  BY <1>6, SMTT(60) DEF BitMasks
<1>7. CASE p = 64
  BY <1>7, SMTT(60) DEF BitMasks
<1>8. CASE p = 128
  BY <1>8, SMTT(60) DEF BitMasks
<1> QED  BY <1>1, <1>2, <1>3, <1>4, <1>5, <1>6, <1>7, <1>8 DEF BitMasks

\* Bytes of a bitfield.
IsBits(bf) == IsSeq(bf) /\ \A k \in 1 .. Len(bf) : bf[k] \in Nat

\* SetPiece sets the bit of its piece and no other.
LEMMA SetPieceExact ==
    ASSUME NEW bf, IsBits(bf), NEW x \in Nat, NEW t, t = SetPiece(bf, x)
    PROVE  /\ IsBits(t) /\ Len(t) = Len(bf)
           /\ \A i \in Indices(bf) : HasPiece(t, i) <=> HasPiece(bf, i) \/ i = x
<1>1. PICK L \in Nat : L = Len(bf)
  BY DEF IsBits, IsSeq
<1>2. bf = [k \in 1 .. L |-> bf[k]] /\ \A k \in 1 .. L : bf[k] \in Nat
  BY <1>1 DEF IsBits, IsSeq
<1>3. \A i \in Indices(bf) : i \in Nat /\ ByteIdx(i) <= L
  <2>1. BitsPerByte \in Nat
    BY WireAssumption
  <2>2. \A i \in Indices(bf) : i \in Nat
    BY <1>1, <2>1 DEF Indices
  <2> QED  BY <1>1, <2>2, HasBit DEF Indices
<1>4. CASE ByteIdx(x) <= L /\ ~HasPiece(bf, x)
  <2>1. PICK c : c = ByteIdx(x)
    OBVIOUS
  <2>2. PICK p \in BitMasks : p = Mask(x)
    BY Masks
  <2>3. c \in 1 .. L
    BY <1>4, <2>1, Masks
  <2>4. t = [bf EXCEPT ![c] = @ + p]
    BY <1>1, <1>4, <2>1, <2>2 DEF SetPiece
  <2>5. t = [k \in 1 .. L |-> IF k = c THEN bf[c] + p ELSE bf[k]]
    BY <1>2, <2>3, <2>4
  <2>6. bf[c] \in Nat /\ (bf[c] \div p) % 2 # 1
    BY <1>1, <1>2, <1>4, <2>1, <2>2, <2>3 DEF HasPiece
  <2>7. Len(t) = L /\ IsBits(t)
    <3>1. Len(t) = L /\ \A k \in 1 .. L : t[k] \in Nat
      <4>1. bf[c] + p \in Nat
        BY <2>6 DEF BitMasks
      <4>2. ASSUME NEW k \in 1 .. L PROVE t[k] \in Nat
        BY <1>2, <2>5, <4>1
      <4>3. Len(t) = L
        BY <2>5
      <4> QED  BY <4>2, <4>3
    <3>2. t = [k \in 1 .. L |-> t[k]]
      BY <2>5
    <3> QED  BY <3>1, <3>2 DEF IsBits, IsSeq
  <2>8. ASSUME NEW i \in Indices(bf) PROVE HasPiece(t, i) <=> HasPiece(bf, i) \/ i = x
    <3>1. PICK d : d = ByteIdx(i)
      OBVIOUS
    <3>2. PICK q \in BitMasks : q = Mask(i)
      BY <1>3, <2>8, Masks
    <3>3. d \in 1 .. L /\ i \in Nat
      BY <1>3, <2>8, <3>1, Masks
    <3>4. HasPiece(t, i) <=> (t[d] \div q) % 2 = 1
      BY <2>7, <3>1, <3>2, <3>3 DEF HasPiece
    <3>5. HasPiece(bf, i) <=> (bf[d] \div q) % 2 = 1
      BY <1>1, <3>1, <3>2, <3>3 DEF HasPiece
    <3>6. CASE d = c
      <4>1. t[d] = bf[c] + p
        BY <2>5, <3>3, <3>6
      <4>2. q = p <=> i = x
        BY <2>1, <2>2, <3>1, <3>2, <3>3, <3>6, Masks
      <4>3. PICK b \in Nat : b = bf[c]
        BY <2>6
      <4>4. (b \div p) % 2 # 1
        BY <2>6, <4>3
      <4>5. ((b + p) \div q) % 2 = 1 <=> (b \div q) % 2 = 1 \/ q = p
        BY <4>4, OneBitSet, Zenon
      <4> QED  BY <3>4, <3>5, <3>6, <4>1, <4>2, <4>3, <4>5, Zenon
    <3>7. CASE d # c
      <4>1. t[d] = bf[d] /\ i # x
        BY <2>1, <2>5, <3>1, <3>3, <3>7
      <4> QED  BY <3>4, <3>5, <4>1
    <3> QED  BY <3>6, <3>7
  <2> QED  BY <1>1, <2>7, <2>8
<1>5. CASE ~(ByteIdx(x) <= L /\ ~HasPiece(bf, x))
  <2>1. t = bf
    BY <1>1, <1>5 DEF SetPiece
  <2>2. ASSUME NEW i \in Indices(bf), i = x PROVE HasPiece(bf, i)
    BY <1>3, <1>5, <2>2
  <2> QED  BY <2>1, <2>2
<1> QED  BY <1>4, <1>5

\* A new bitfield has room for every piece and has none.
LEMMA NewIsEmpty ==
    ASSUME NEW bf, bf = NewBitfield(PieceCount)
    PROVE  /\ IsBits(bf) /\ \A i \in Indices(bf) : ~HasPiece(bf, i)
           /\ 0 .. PieceCount - 1 \subseteq Indices(bf)
<1>1. PICK B \in 1 .. 8 : B = BitsPerByte
  BY WireAssumption
<1>2. PICK n \in Nat : n = PieceCount
  BY WireAssumption
<1>3. PICK L : L = (n + B - 1) \div B
  OBVIOUS
<1>4. L \in Nat /\ n <= L * B
  <2>1. B \in {1, 2, 3, 4, 5, 6, 7, 8}
    BY <1>1
  <2> QED  BY <1>3, <2>1
<1>5. bf = [k \in 1 .. L |-> 0]
  BY <1>1, <1>2, <1>3 DEF NewBitfield
<1>6. Len(bf) = L /\ \A k \in 1 .. L : bf[k] = 0
  BY <1>4, <1>5
<1>7. IsBits(bf)
  <2>1. bf = [k \in 1 .. L |-> bf[k]]
    BY <1>5
  <2> QED  BY <1>4, <1>6, <2>1 DEF IsBits, IsSeq
<1>8. ASSUME NEW i \in Indices(bf) PROVE ~HasPiece(bf, i)
  <2>1. i \in Nat /\ ByteIdx(i) <= L
    <3>1. i \in Nat /\ i \in 0 .. L * BitsPerByte - 1
      BY <1>1, <1>4, <1>6, <1>8 DEF Indices
    <3> QED  BY <1>4, <3>1, HasBit
  <2>2. PICK q \in BitMasks : q = Mask(i)
    BY <2>1, Masks
  <2>3. ByteIdx(i) \in 1 .. L
    BY <1>4, <2>1, Masks
  <2>4. bf[ByteIdx(i)] = 0
    BY <1>6, <2>3
  <2>5. (0 \div q) % 2 = 0
    BY <2>2 DEF BitMasks
  <2> QED  BY <2>2, <2>4, <2>5 DEF HasPiece
<1>9. 0 .. PieceCount - 1 \subseteq Indices(bf)
  <2>1. L * B \in Nat
    BY <1>4
  <2> QED  BY <1>1, <1>2, <1>4, <1>6, <2>1 DEF Indices
<1> QED  BY <1>7, <1>8, <1>9

-----------------------------------------------------------------------------
(* Wire: the pieces announced                                              *)

\* What one item does to the pieces announced.
After(items, n, pieces) ==
    IF items[n].replaces THEN items[n].has ELSE pieces \cup items[n].has

\* The loop of what is announced.
LEMMA AnnouncedLoop ==
    ASSUME NEW items, Len(items) \in Nat
    PROVE  /\ Announced(items)[0] = {}
           /\ \A n \in 1 .. Len(items) : Announced(items)[n] = After(items, n, Announced(items)[n - 1])
<1>1. PICK L \in Nat : L = Len(items)
  OBVIOUS
<1> DEFINE U == UNION {items[n].has : n \in 1 .. L}
           step == [x \in (1 .. L) \X SUBSET U |-> After(items, x[1], x[2])]
<1>2. {} \in SUBSET U
  OBVIOUS
<1>3. ASSUME NEW n \in 1 .. L, NEW t \in SUBSET U PROVE After(items, n, t) \in SUBSET U
  <2>1. items[n].has \in SUBSET U
    OBVIOUS
  <2> HIDE DEF U
  <2> QED  BY <2>1 DEF After
<1> HIDE DEF U
<1>4. step \in [(1 .. L) \X SUBSET U -> SUBSET U]
  BY <1>3
<1>5. \A n \in 1 .. L, t \in SUBSET U : step[<<n, t>>] = After(items, n, t)
  OBVIOUS
<1> HIDE DEF step
<1>6. PICK f : LoopOf(f, L, SUBSET U, {}, step)
  BY <1>2, <1>4, LoopRuns
<1>7. f \in [0 .. L -> SUBSET U] /\ f[0] = {}
  BY <1>6 DEF LoopOf
<1>8. ASSUME NEW n \in 1 .. L PROVE f[n] = After(items, n, f[n - 1])
  <2>1. n - 1 \in 0 .. L
    OBVIOUS
  <2>2. f[n - 1] \in SUBSET U
    BY <1>7, <2>1
  <2>3. f[n] = step[<<n, f[n - 1]>>]
    BY <1>6 DEF LoopOf
  <2> QED  BY <1>5, <2>2, <2>3
<1> DEFINE Body(h) == [n \in 0 .. Len(items) |-> IF n = 0 THEN {} ELSE After(items, n, h[n - 1])]
           pieces == CHOOSE h : h = Body(h)
<1>9. f = Body(f)
  <2>1. ASSUME NEW n \in 0 .. L PROVE f[n] = IF n = 0 THEN {} ELSE After(items, n, f[n - 1])
    <3>1. n = 0 \/ (n # 0 /\ n \in 1 .. L)
      OBVIOUS
    <3> QED  BY <1>7, <1>8, <3>1, Zenon
  <2> QED  BY <1>1, <1>7, <2>1
<1>10. pieces = Body(pieces)
  <2> HIDE DEF Body
  <2> QED  BY <1>9
<1>11. Announced(items) = pieces
  BY DEF Announced, After
<1> HIDE DEF pieces
<1>12. pieces = [n \in 0 .. L |-> IF n = 0 THEN {} ELSE After(items, n, pieces[n - 1])]
  BY <1>1, <1>10, Zenon
<1>13. pieces[0] = {}
  <2>1. 0 \in 0 .. L
    OBVIOUS
  <2> QED  BY <1>12, <2>1, Zenon
<1>14. ASSUME NEW n \in 1 .. L PROVE pieces[n] = After(items, n, pieces[n - 1])
  <2>1. n # 0 /\ n \in 0 .. L
    OBVIOUS
  <2> QED  BY <1>12, <2>1, Zenon
<1> QED  BY <1>1, <1>11, <1>13, <1>14

\* The bitfield after the first n items.
BitsAre(bf, have, items, n) ==
    LET announced == Announced(items)[n] IN
    /\ IsBits(bf) /\ have \in BOOLEAN
    /\ have => Len(bf) = Len(NewBitfield(PieceCount))
    /\ ~have => bf = <<>> /\ announced = {}
    /\ {i \in Indices(bf) : HasPiece(bf, i)} = announced \cap Indices(bf)
    /\ have <=> \E k \in 1 .. n : items[k].replaces \/ items[k].has # {}

\* In every state, whether a message is being read or the connection is closed.
BitsInv == FrameInv /\ BitsAre(bits, hasBits, session.items, Len(frames))

\* The connection is dialled.
LEMMA BitsInit == WireInit => BitsInv
<1> SUFFICES ASSUME WireInit PROVE BitsInv
  OBVIOUS
<1>1. frames = <<>> /\ hasBits = FALSE /\ bits = <<>> /\ FrameInv
  BY FrameInit DEF WireInit
<1>2. Len(frames) = 0 /\ Len(bits) = 0 /\ BitsPerByte \in Nat
  BY <1>1, WireAssumption
<1>3. IsBits(bits) /\ Indices(bits) = {}
  <2>1. bits = [k \in 1 .. 0 |-> bits[k]]
    BY <1>1
  <2>2. 0 * BitsPerByte - 1 = -1
    BY <1>2
  <2> QED  BY <1>2, <2>1, <2>2 DEF IsBits, IsSeq, Indices
<1>4. Announced(session.items)[0] = {}
  BY <1>1, MessagesOf, AnnouncedLoop DEF FrameInv
<1>5. ~ \E k \in 1 .. 0 : session.items[k].replaces \/ session.items[k].has # {}
  OBVIOUS
<1> QED  BY <1>1, <1>2, <1>3, <1>4, <1>5 DEF BitsInv, BitsAre

\* An item that announces nothing.
LEMMA BitsSame ==
    ASSUME NEW bf, NEW have, NEW items, Len(items) \in Nat, NEW n \in 0 .. Len(items) - 1,
           BitsAre(bf, have, items, n), ~items[n + 1].replaces, items[n + 1].has = {}
    PROVE  BitsAre(bf, have, items, n + 1)
<1>1. n + 1 \in 1 .. Len(items) /\ (n + 1) - 1 = n
  OBVIOUS
<1>2. Announced(items)[n + 1] = After(items, n + 1, Announced(items)[n])
  BY <1>1, AnnouncedLoop
<1>3. Announced(items)[n + 1] = Announced(items)[n]
  BY <1>2 DEF After
<1>4. \A k \in 1 .. n + 1 : k \in 1 .. n \/ k = n + 1
  OBVIOUS
<1>5. \A k \in 1 .. n : k \in 1 .. n + 1
  OBVIOUS
<1>6. (\E k \in 1 .. n + 1 : items[k].replaces \/ items[k].has # {})
      <=> \E k \in 1 .. n : items[k].replaces \/ items[k].has # {}
  BY <1>4, <1>5, Zenon
<1> QED  BY <1>3, <1>6, Zenon DEF BitsAre

\* A bitfield message.
LEMMA BitsReplaced ==
    ASSUME NEW items, Len(items) \in Nat, NEW n \in 0 .. Len(items) - 1, NEW p,
           items[n + 1].replaces, IsSeq(p), IsBitfield(p),
           items[n + 1].has = {i \in Indices(p) : HasPiece(p, i)}
    PROVE  BitsAre(p, TRUE, items, n + 1)
<1>1. n + 1 \in 1 .. Len(items) /\ (n + 1) - 1 = n
  OBVIOUS
<1>2. Announced(items)[n + 1] = After(items, n + 1, Announced(items)[n])
  BY <1>1, AnnouncedLoop
<1>3. Announced(items)[n + 1] = {i \in Indices(p) : HasPiece(p, i)}
  BY <1>2 DEF After
<1>4. IsBits(p) /\ Len(p) = Len(NewBitfield(PieceCount))
  BY DEF IsBits, IsBitfield
<1>5. n + 1 \in 1 .. n + 1
  OBVIOUS
<1> QED  BY <1>3, <1>4, <1>5 DEF BitsAre

\* A have message.
LEMMA BitsAdded ==
    ASSUME NEW bf, NEW have, NEW items, Len(items) \in Nat, NEW n \in 0 .. Len(items) - 1,
           BitsAre(bf, have, items, n), NEW x \in Nat,
           ~items[n + 1].replaces, items[n + 1].has = {x}
    PROVE  BitsAre(SetPiece(IF have THEN bf ELSE NewBitfield(PieceCount), x), TRUE, items, n + 1)
<1>1. n + 1 \in 1 .. Len(items) /\ (n + 1) - 1 = n
  OBVIOUS
<1>2. PICK old : old = Announced(items)[n]
  OBVIOUS
<1>3. Announced(items)[n + 1] = After(items, n + 1, old)
  BY <1>1, <1>2, AnnouncedLoop
<1>4. Announced(items)[n + 1] = old \cup {x}
  BY <1>3 DEF After
<1>5. PICK b : b = IF have THEN bf ELSE NewBitfield(PieceCount)
  OBVIOUS
<1>6. /\ IsBits(b) /\ Len(b) = Len(NewBitfield(PieceCount))
      /\ \A i \in Indices(b) : HasPiece(b, i) <=> i \in old
  <2>1. CASE have
    BY <1>2, <1>5, <2>1 DEF BitsAre
  <2>2. CASE ~have
    <3>1. b = NewBitfield(PieceCount) /\ old = {}
      BY <1>2, <1>5, <2>2 DEF BitsAre
    <3> QED  BY <3>1, NewIsEmpty
  <2> QED  BY <2>1, <2>2
<1>7. PICK t : t = SetPiece(b, x)
  OBVIOUS
<1>8. /\ IsBits(t) /\ Len(t) = Len(b)
      /\ \A i \in Indices(b) : HasPiece(t, i) <=> HasPiece(b, i) \/ i = x
  BY <1>6, <1>7, SetPieceExact
<1>9. Indices(t) = Indices(b)
  BY <1>8 DEF Indices
<1>10. {i \in Indices(t) : HasPiece(t, i)} = (old \cup {x}) \cap Indices(t)
  BY <1>6, <1>8, <1>9
<1>11. \E k \in 1 .. n + 1 : items[k].replaces \/ items[k].has # {}
  <2>1. n + 1 \in 1 .. n + 1 /\ {x} # {}
    OBVIOUS
  <2> QED  BY <2>1, Zenon
<1> QED  BY <1>4, <1>5, <1>6, <1>7, <1>8, <1>10, <1>11 DEF BitsAre

\* Steps that leave the bitfield and the messages read.
LEMMA BitsKept ==
    ASSUME BitsInv, FrameInv', UNCHANGED <<session, frames, hasBits, bits>>
    PROVE  BitsInv'
  BY DEF BitsInv, BitsAre

\* A keep-alive is an item like the others, which announces nothing.
LEMMA BitsHeader ==
    ASSUME BitsInv, ReadHeader
    PROVE  BitsInv'
<1>1. FrameInv /\ FrameInv' /\ UNCHANGED <<session, hasBits, bits>>
  BY HeaderStep DEF BitsInv, ReadHeader
<1>2. frames' = frames \/ frames' = Append(frames, KeepAlive)
  BY DEF ReadHeader
<1>3. CASE frames' = frames
  BY <1>1, <1>3, BitsKept
<1>4. CASE frames' = Append(frames, KeepAlive)
  <2>1. PICK F \in Nat : F = Len(frames)
    BY <1>1 DEF FrameInv
  <2>2. PICK t : t = frames'
    OBVIOUS
  <2>3. IsSeq(frames)
    <3>1. frames = [k \in 1 .. F |-> session.items[k].msg]
      BY <1>1, <2>1 DEF FrameInv, FramingExact
    <3>2. frames = [k \in 1 .. F |-> frames[k]]
      BY <3>1
    <3> QED  BY <2>1, <3>2 DEF IsSeq
  <2>4. Len(t) = F + 1 /\ t[F + 1] = KeepAlive
    BY <1>4, <2>1, <2>2, <2>3, OneMore
  <2>5. F + 1 \in 0 .. Len(session.items) /\ t = [k \in 1 .. F + 1 |-> session.items[k].msg]
    BY <1>1, <2>2, <2>4 DEF FrameInv, FramingExact
  <2>6. PICK items : items = session.items
    OBVIOUS
  <2>7. Len(items) \in Nat /\ F \in 0 .. Len(items) - 1 /\ F + 1 \in 1 .. Len(items) /\ F + 1 \in 1 .. F + 1
    BY <1>1, <2>5, <2>6, MessagesOf DEF FrameInv
  <2>8. items[F + 1].msg = KeepAlive
    BY <2>4, <2>5, <2>6, <2>7
  <2>9. Announces(items[F + 1])
    BY <1>1, <2>6, <2>7, MessagesOf DEF FrameInv
  <2>10. ~items[F + 1].replaces /\ items[F + 1].has = {}
    BY <2>8, <2>9 DEF Announces, KeepAlive, MsgBitfield, MsgHave
  <2>11. BitsAre(bits, hasBits, items, F)
    BY <2>1, <2>6 DEF BitsInv
  <2>12. BitsAre(bits, hasBits, items, F + 1)
    BY <2>7, <2>10, <2>11, BitsSame
  <2>13. Len(frames') = F + 1 /\ session'.items = items /\ bits' = bits /\ hasBits' = hasBits
    BY <1>1, <2>2, <2>4, <2>6
  <2>14. BitsAre(bits', hasBits', session'.items, Len(frames'))
    BY <2>12, <2>13, Zenon
  <2>15. (BitsAre(bits, hasBits, session.items, Len(frames)))' = BitsAre(bits', hasBits', session'.items, Len(frames'))
    BY DEF BitsAre, IsBits, IsSeq, Indices, Announced, NewBitfield, HasPiece, ByteIdx, Mask
  <2> QED  BY <1>1, <2>14, <2>15 DEF BitsInv
<1> QED  BY <1>2, <1>3, <1>4

\* The bitfield of the session after a message.
LEMMA BitsBody ==
    ASSUME BitsInv, ReadBody
    PROVE  BitsInv'
<1>1. PICK msg : msg = NextMsg
  OBVIOUS
<1>2. /\ FrameInv /\ FrameInv' /\ Len(frames) < Len(session.items) /\ session' = session
      /\ frames' = Append(frames, msg)
      /\ [id |-> NextBytes(length)[1], payload |-> Tail(NextBytes(length))] = msg
  BY <1>1, BodyStep DEF BitsInv, ReadBody
<1>3. PICK p : p = msg.payload
  OBVIOUS
<1>4. LET have == ParseHave(p) IN
      CASE msg.id = MsgBitfield -> hasBits' = TRUE /\ bits' = p
        [] msg.id = MsgHave /\ have # <<>> ->
             /\ hasBits' = TRUE
             /\ bits' = SetPiece(IF hasBits THEN bits ELSE NewBitfield(PieceCount), have[1].have)
        [] OTHER -> UNCHANGED <<hasBits, bits>>
  BY <1>2, <1>3 DEF ReadBody
<1>5. PICK F \in Nat : F = Len(frames)
  BY <1>2 DEF FrameInv
<1>6. PICK items : items = session.items
  OBVIOUS
<1>7. Len(items) \in Nat /\ F \in 0 .. Len(items) - 1 /\ F + 1 \in 1 .. Len(items)
  BY <1>2, <1>5, <1>6, MessagesOf DEF FrameInv
<1>8. PICK it : it = items[F + 1]
  OBVIOUS
<1>9. it.msg = msg /\ IsMessage(msg) /\ Announces(it)
  BY <1>1, <1>2, <1>5, <1>6, <1>7, <1>8, MessagesOf DEF FrameInv, NextMsg
<1>10. BitsAre(bits, hasBits, items, F)
  BY <1>5, <1>6 DEF BitsInv
<1>11. BitsAre(bits', hasBits', items, F + 1)
  <2>1. CASE msg.id = MsgBitfield
    <3>1. bits' = p /\ hasBits' = TRUE
      <4>1. msg.id # MsgHave
        BY <2>1 DEF MsgBitfield, MsgHave
      <4> QED  BY <1>4, <2>1, <4>1
    <3>2. it.replaces /\ IsBitfield(p) /\ it.has = {i \in Indices(p) : HasPiece(p, i)}
      BY <1>3, <1>9, <2>1 DEF Announces
    <3>3. IsSeq(p)
      BY <1>3, <1>9, <2>1 DEF IsMessage, KeepAlive, MsgBitfield
    <3>4. BitsAre(p, TRUE, items, F + 1)
      BY <1>7, <1>8, <3>2, <3>3, BitsReplaced
    <3> QED  BY <3>1, <3>4, Zenon
  <2>2. CASE msg.id = MsgHave /\ Len(p) = 1
    <3>1. PICK x : x = p[1]
      OBVIOUS
    <3>2. msg.id # MsgBitfield
      BY <2>2 DEF MsgBitfield, MsgHave
    <3>3. ParseHave(p) = <<[have |-> x]>>
      BY <2>2, <3>1 DEF ParseHave
    <3>4. <<[have |-> x]>> # <<>> /\ <<[have |-> x]>>[1].have = x
      OBVIOUS
    <3>5. hasBits' = TRUE /\ bits' = SetPiece(IF hasBits THEN bits ELSE NewBitfield(PieceCount), x)
      BY <1>4, <2>2, <3>2, <3>3, <3>4
    <3>6. ~it.replaces /\ x \in Nat /\ it.has = {x}
      BY <1>3, <1>9, <2>2, <3>1, <3>2 DEF Announces
    <3>7. BitsAre(SetPiece(IF hasBits THEN bits ELSE NewBitfield(PieceCount), x), TRUE, items, F + 1)
      BY <1>7, <1>8, <1>10, <3>6, BitsAdded
    <3> QED  BY <3>5, <3>7, Zenon
  <2>3. CASE msg.id # MsgBitfield /\ ~(msg.id = MsgHave /\ Len(p) = 1)
    <3>1. msg.id # MsgHave \/ ParseHave(p) = <<>>
      BY <2>3 DEF ParseHave
    <3>2. UNCHANGED <<hasBits, bits>>
      BY <1>4, <2>3, <3>1
    <3>3. ~it.replaces /\ it.has = {}
      BY <1>3, <1>9, <2>3 DEF Announces
    <3>4. BitsAre(bits, hasBits, items, F + 1)
      BY <1>7, <1>8, <1>10, <3>3, BitsSame
    <3> QED  BY <3>2, <3>4, Zenon
  <2> QED  BY <2>1, <2>2, <2>3
<1>12. Len(frames') = F + 1
  <2>1. IsSeq(frames)
    <3>1. frames = [k \in 1 .. F |-> session.items[k].msg]
      BY <1>2, <1>5 DEF FrameInv, FramingExact
    <3>2. frames = [k \in 1 .. F |-> frames[k]]
      BY <3>1
    <3> QED  BY <1>5, <3>2 DEF IsSeq
  <2> QED  BY <1>2, <1>5, <2>1, OneMore
<1>13. session'.items = items
  BY <1>2, <1>6
<1>14. BitsAre(bits', hasBits', session'.items, Len(frames'))
  BY <1>11, <1>12, <1>13, Zenon
<1>15. (BitsAre(bits, hasBits, session.items, Len(frames)))' = BitsAre(bits', hasBits', session'.items, Len(frames'))
  BY DEF BitsAre, IsBits, IsSeq, Indices, Announced, NewBitfield, HasPiece, ByteIdx, Mask
<1> QED  BY <1>2, <1>14, <1>15 DEF BitsInv

\* Every step of the receiver.
LEMMA BitsStep == BitsInv /\ [WireNext]_wireVars => BitsInv'
<1> SUFFICES ASSUME BitsInv, [WireNext]_wireVars PROVE BitsInv'
  OBVIOUS
<1>1. FrameInv'
  BY FrameStep DEF BitsInv
<1>2. CASE ReadHeader
  BY <1>2, BitsHeader
<1>3. CASE ReadBody
  BY <1>3, BitsBody
<1>4. CASE RecvPstrLen \/ ReadHandshake \/ ReadFails \/ Decode \/ Decoded \/ UNCHANGED wireVars
  <2>1. UNCHANGED <<session, frames, hasBits, bits>>
    BY <1>4 DEF RecvPstrLen, ReadHandshake, ReadFails, Decode, Decoded, wireVars, wire
  <2> QED  BY <1>1, <2>1, BitsKept
<1> QED  BY <1>2, <1>3, <1>4 DEF WireNext, Closed, Panicked

\* For every session and every number of pieces: the bitfield that the session
\* keeps has the pieces of the last bitfield message and of the have messages
\* since, and no other, and has room for every piece of the torrent.
THEOREM BitsExactHolds == WireSpec => []BitsExact
<1>1. BitsInv => BitsExact
  <2> SUFFICES ASSUME BitsInv PROVE BitsExact
    OBVIOUS
  <2>1. BitsAre(bits, hasBits, session.items, Len(frames))
    BY DEF BitsInv
  <2>2. ASSUME hasBits PROVE 0 .. PieceCount - 1 \subseteq Indices(bits)
    <3>1. Len(bits) = Len(NewBitfield(PieceCount))
      BY <2>1, <2>2 DEF BitsAre
    <3>2. Indices(bits) = Indices(NewBitfield(PieceCount))
      BY <3>1 DEF Indices
    <3> QED  BY <3>2, NewIsEmpty
  <2> QED  BY <2>1, <2>2 DEF BitsAre, BitsExact
<1> QED  BY <1>1, BitsInit, BitsStep, PTL DEF WireSpec
=============================================================================
