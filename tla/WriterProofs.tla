---------------------------- MODULE WriterProofs ----------------------------
(***************************************************************************)
(* Proofs about module Writer, for files of any number and length, pieces  *)
(* of any length and any number of hashes.                                 *)
(***************************************************************************)
EXTENDS Writer, SequenceTheorems, WellFoundedInduction, TLAPS

-----------------------------------------------------------------------------
(* Loops                                                                   *)

\* A set of numbers has a least element.
LEMMA LeastNumber ==
    ASSUME NEW T \in SUBSET Nat, T # {}
    PROVE  \E x \in T : \A y \in T : x <= y
<1> DEFINE R == OpToRel(<, Nat)
<1>1. IsWellFoundedOn(R, Nat)
  BY NatLessThanWellFounded
<1>2. \A x, y \in Nat : <<x, y>> \in R <=> x < y
  BY DEF OpToRel
<1> HIDE DEF R
<1>3. PICK x \in T : \A y \in T : ~(<<y, x>> \in R)
  BY <1>1, WFMin
<1>4. \A y \in T : x \in Nat /\ y \in Nat /\ ~(y < x)
  BY <1>2, <1>3
<1> QED  BY <1>3, <1>4

\* What holds at the start of a loop and is kept by every turn holds at its end.
LEMMA LoopInvariant ==
    ASSUME NEW L \in Nat, NEW good \in SUBSET (0 .. L), 0 \in good,
           \A n \in 1 .. L : n - 1 \in good => n \in good
    PROVE  good = 0 .. L
<1> DEFINE bad == (0 .. L) \ good
<1>1. ASSUME bad # {} PROVE FALSE
  <2>1. PICK m \in bad : \A y \in bad : m <= y
    <3>1. bad \in SUBSET Nat
      OBVIOUS
    <3> HIDE DEF bad
    <3> QED  BY <1>1, <3>1, LeastNumber
  <2>2. m \in 1 .. L
    BY <2>1
  <2>3. m - 1 \in 0 .. L /\ m - 1 < m
    BY <2>2
  <2>4. m - 1 \in good
    BY <2>1, <2>2, <2>3
  <2> QED  BY <2>1, <2>2, <2>4
<1> QED  BY <1>1

\* The values that a variable takes in a loop of L turns.
LoopOf(f, L, A, start, step) ==
    /\ f \in [0 .. L -> A]
    /\ f[0] = start
    /\ \A n \in 1 .. L : f[n] = step[<<n, f[n - 1]>>]

\* Every loop runs.
LEMMA LoopRuns ==
    ASSUME NEW L \in Nat, NEW A, NEW start \in A, NEW step \in [(1 .. L) \X A -> A]
    PROVE  \E f : LoopOf(f, L, A, start, step)
<1> DEFINE good == {m \in 0 .. L : \E f : LoopOf(f, m, A, start, step)}
<1>1. 0 \in good
  <2>1. LoopOf([n \in 0 .. 0 |-> start], 0, A, start, step)
    BY DEF LoopOf
  <2> QED  BY <2>1
<1>2. ASSUME NEW m \in 1 .. L, m - 1 \in good PROVE m \in good
  <2>1. PICK f : LoopOf(f, m - 1, A, start, step)
    BY <1>2
  <2>2. f \in [0 .. m - 1 -> A] /\ f[m - 1] \in A
    BY <2>1 DEF LoopOf
  <2>3. PICK v \in A : v = step[<<m, f[m - 1]>>]
    BY <2>2
  <2> DEFINE h == [n \in 0 .. m |-> IF n = m THEN v ELSE f[n]]
  <2>4. h \in [0 .. m -> A] /\ h[0] = start /\ h[m] = v /\ \A n \in 0 .. m - 1 : h[n] = f[n]
    BY <2>1, <2>2 DEF LoopOf
  <2>5. \A n \in 1 .. m : h[n] = step[<<n, h[n - 1]>>]
    <3> SUFFICES ASSUME NEW n \in 1 .. m PROVE h[n] = step[<<n, h[n - 1]>>]
      OBVIOUS
    <3>1. n - 1 \in 0 .. m - 1 /\ h[n - 1] = f[n - 1]
      BY <2>4
    <3>2. CASE n = m
      BY <2>3, <2>4, <3>1, <3>2
    <3>3. CASE n \in 1 .. m - 1
      BY <2>1, <2>4, <3>1, <3>3 DEF LoopOf
    <3> QED  BY <3>2, <3>3
  <2> HIDE DEF h
  <2>6. LoopOf(h, m, A, start, step)
    BY <2>4, <2>5 DEF LoopOf
  <2> QED  BY <2>6
<1>3. good = 0 .. L
  <2> HIDE DEF good
  <2>1. good \in SUBSET (0 .. L)
    BY DEF good
  <2> QED  BY <1>1, <1>2, <2>1, LoopInvariant
<1> QED  BY <1>3

-----------------------------------------------------------------------------
(* Where the files begin                                                   *)

\* The loop that adds up the lengths.
LEMMA SumsLoop ==
    ASSUME NEW lens \in Seq(Nat)
    PROVE  /\ PrefixSums(lens) \in [0 .. Len(lens) -> Nat]
           /\ PrefixSums(lens)[0] = 0
           /\ \A n \in 1 .. Len(lens) : PrefixSums(lens)[n] = PrefixSums(lens)[n - 1] + lens[n]
<1>1. PICK L \in Nat : L = Len(lens)
  OBVIOUS
<1>2. \A n \in 1 .. L : lens[n] \in Nat
  BY <1>1
<1> DEFINE step == [x \in (1 .. L) \X Nat |-> x[2] + lens[x[1]]]
<1>3. step \in [(1 .. L) \X Nat -> Nat]
  BY <1>2
<1>4. \A n \in 1 .. L, s \in Nat : step[<<n, s>>] = s + lens[n]
  OBVIOUS
<1> HIDE DEF step
<1>5. PICK f : LoopOf(f, L, Nat, 0, step)
  BY <1>3, LoopRuns
<1>6. f \in [0 .. L -> Nat] /\ f[0] = 0
  BY <1>5 DEF LoopOf
<1>7. \A n \in 1 .. L : f[n] = f[n - 1] + lens[n]
  <2> SUFFICES ASSUME NEW n \in 1 .. L PROVE f[n] = f[n - 1] + lens[n]
    OBVIOUS
  <2>1. f[n - 1] \in Nat
    BY <1>6
  <2>2. f[n] = step[<<n, f[n - 1]>>]
    BY <1>5 DEF LoopOf
  <2> QED  BY <1>4, <2>1, <2>2
<1> DEFINE Body(h) == [n \in 0 .. Len(lens) |-> IF n = 0 THEN 0 ELSE h[n - 1] + lens[n]]
           sum == CHOOSE h : h = Body(h)
<1>8. f = Body(f)
  <2>1. \A n \in 0 .. L : f[n] = IF n = 0 THEN 0 ELSE f[n - 1] + lens[n]
    BY <1>6, <1>7
  <2> QED  BY <1>1, <1>6, <2>1
<1>9. sum = Body(sum)
  <2> HIDE DEF Body
  <2> QED  BY <1>8
<1>10. PrefixSums(lens) = sum
  BY DEF PrefixSums
<1> HIDE DEF sum
<1>11. /\ DOMAIN sum = 0 .. L /\ sum[0] = 0
       /\ sum = [n \in 0 .. L |-> sum[n]]
       /\ \A n \in 1 .. L : sum[n] = sum[n - 1] + lens[n]
  BY <1>1, <1>9
<1> DEFINE good == {n \in 0 .. L : sum[n] \in Nat}
<1>12. good = 0 .. L
  <2>1. good \in SUBSET (0 .. L) /\ 0 \in good
    BY <1>11
  <2>2. ASSUME NEW n \in 1 .. L, n - 1 \in good PROVE n \in good
    <3>1. sum[n - 1] \in Nat /\ lens[n] \in Nat /\ sum[n] = sum[n - 1] + lens[n]
      BY <1>2, <1>11, <2>2
    <3> QED  BY <3>1
  <2> HIDE DEF good
  <2> QED  BY <2>1, <2>2, LoopInvariant
<1>13. \A n \in 0 .. L : sum[n] \in Nat
  BY <1>12
<1> QED  BY <1>1, <1>10, <1>11, <1>13

\* A file begins where the one before it ends, and none overlaps a later one.
LEMMA SumsGrow ==
    ASSUME NEW lens \in Seq(Nat), NEW m \in 0 .. Len(lens), NEW n \in 0 .. Len(lens), m <= n
    PROVE  PrefixSums(lens)[m] <= PrefixSums(lens)[n]
<1>1. PICK L \in Nat : L = Len(lens)
  OBVIOUS
<1>2. PICK s : s = PrefixSums(lens)
  OBVIOUS
<1>3. /\ s \in [0 .. L -> Nat]
      /\ \A k \in 1 .. L : s[k] = s[k - 1] + lens[k] /\ lens[k] \in Nat
  <2>1. \A k \in 1 .. L : lens[k] \in Nat
    BY <1>1
  <2>2. s \in [0 .. L -> Nat] /\ \A k \in 1 .. L : s[k] = s[k - 1] + lens[k]
    BY <1>1, <1>2, SumsLoop, Zenon
  <2> QED  BY <2>1, <2>2
<1> DEFINE good == {k \in 0 .. L : \A j \in 0 .. k : s[j] <= s[k]}
<1>4. good = 0 .. L
  <2>1. good \in SUBSET (0 .. L) /\ 0 \in good
    BY <1>3
  <2>2. ASSUME NEW k \in 1 .. L, k - 1 \in good PROVE k \in good
    <3>1. s[k - 1] \in Nat /\ s[k] \in Nat /\ s[k - 1] <= s[k]
      <4>1. k - 1 \in 0 .. L /\ k \in 0 .. L
        OBVIOUS
      <4>2. s[k - 1] \in Nat /\ lens[k] \in Nat /\ s[k] = s[k - 1] + lens[k]
        BY <1>3, <4>1
      <4> QED  BY <4>2
    <3>2. ASSUME NEW j \in 0 .. k PROVE s[j] <= s[k]
      <4>1. CASE j = k
        BY <3>1, <4>1
      <4>2. CASE j \in 0 .. k - 1
        <5>1. s[j] \in Nat /\ s[j] <= s[k - 1]
          BY <1>3, <2>2, <4>2
        <5> QED  BY <3>1, <5>1
      <4> QED  BY <4>1, <4>2
    <3> QED  BY <3>2
  <2> HIDE DEF good
  <2> QED  BY <2>1, <2>2, LoopInvariant
<1>5. n \in good /\ m \in 0 .. n
  BY <1>1, <1>4
<1> QED  BY <1>2, <1>5

\* The position in the torrent's data at which file f begins.
Begin(lens, f) == PrefixSums(lens)[f - 1]

\* The first and the last position of a file.
LEMMA FileBounds ==
    ASSUME NEW lens \in Seq(Nat), NEW f \in 1 .. Len(lens)
    PROVE  /\ Begin(lens, f) \in Nat /\ lens[f] \in Nat /\ Sum(lens) \in Nat
           /\ Begin(lens, f) + lens[f] = PrefixSums(lens)[f]
           /\ Begin(lens, f) + lens[f] <= Sum(lens)
<1>1. PICK L \in Nat : L = Len(lens)
  OBVIOUS
<1>2. PICK s : s = PrefixSums(lens)
  OBVIOUS
<1>3. s \in [0 .. L -> Nat] /\ s[f] = s[f - 1] + lens[f]
  BY <1>1, <1>2, SumsLoop
<1>4. f \in 0 .. L /\ f - 1 \in 0 .. L /\ L \in 0 .. L /\ f <= L
  BY <1>1
<1>5. s[f] <= s[L]
  BY <1>1, <1>2, <1>4, SumsGrow
<1>6. lens[f] \in Nat
  OBVIOUS
<1> QED  BY <1>1, <1>2, <1>3, <1>4, <1>5, <1>6 DEF Begin, Sum

\* A position belongs to one file.
LEMMA FilesApart ==
    ASSUME NEW lens \in Seq(Nat), NEW f \in 1 .. Len(lens), NEW g \in 1 .. Len(lens), NEW b \in Nat,
           Begin(lens, f) <= b, b < Begin(lens, f) + lens[f],
           Begin(lens, g) <= b, b < Begin(lens, g) + lens[g]
    PROVE  f = g
<1>1. ASSUME NEW x \in 1 .. Len(lens), NEW y \in 1 .. Len(lens), x < y
      PROVE  Begin(lens, x) + lens[x] <= Begin(lens, y)
  <2>1. x \in 0 .. Len(lens) /\ y - 1 \in 0 .. Len(lens) /\ x <= y - 1
    BY <1>1
  <2>2. PrefixSums(lens)[x] <= PrefixSums(lens)[y - 1]
    BY <2>1, SumsGrow
  <2> QED  BY <2>2, FileBounds DEF Begin
<1>2. /\ Begin(lens, f) \in Nat /\ lens[f] \in Nat
      /\ Begin(lens, g) \in Nat /\ lens[g] \in Nat
  BY FileBounds
<1>3. PICK bf \in Nat, ef \in Nat : bf = Begin(lens, f) /\ ef = Begin(lens, f) + lens[f]
  BY <1>2
<1>4. PICK bg \in Nat, eg \in Nat : bg = Begin(lens, g) /\ eg = Begin(lens, g) + lens[g]
  BY <1>2
<1>5. bf <= b /\ b < ef /\ bg <= b /\ b < eg
  BY <1>3, <1>4
<1>6. ASSUME f < g PROVE FALSE
  <2>1. ef <= bg
    BY <1>1, <1>3, <1>4, <1>6
  <2> QED  BY <1>5, <2>1
<1>7. ASSUME g < f PROVE FALSE
  <2>1. eg <= bf
    BY <1>1, <1>3, <1>4, <1>7
  <2> QED  BY <1>5, <2>1
<1> QED  BY <1>6, <1>7

-----------------------------------------------------------------------------
(* The segments of a piece                                                 *)

\* A byte range of a file, and its first and last position in the data.
Segments(lens) ==
    {s \in [file : 1 .. Len(lens), offset : Nat, length : Nat] : s.offset + s.length <= lens[s.file]}
SegBegin(lens, s) == Begin(lens, s.file) + s.offset
SegEnd(lens, s) == SegBegin(lens, s) + s.length

\* The segments t continue each other from position a to position b.
Chain(lens, t, a, b) ==
    /\ t \in Seq(Segments(lens))
    /\ t = <<>> => a = b
    /\ t # <<>> => SegBegin(lens, t[1]) = a /\ SegEnd(lens, t[Len(t)]) = b
    /\ \A k \in 1 .. Len(t) : SegEnd(lens, t[k]) <= b
    /\ \A k \in 1 .. Len(t) - 1 : SegEnd(lens, t[k]) = SegBegin(lens, t[k + 1])

\* The positions of a segment.
LEMMA SegmentBounds ==
    ASSUME NEW lens \in Seq(Nat), NEW s \in Segments(lens)
    PROVE  /\ s.file \in 1 .. Len(lens) /\ s.offset \in Nat /\ s.length \in Nat
           /\ s.offset + s.length <= lens[s.file]
           /\ SegBegin(lens, s) \in Nat /\ SegEnd(lens, s) \in Nat
           /\ SegEnd(lens, s) = SegBegin(lens, s) + s.length
           /\ SegBegin(lens, s) = Begin(lens, s.file) + s.offset
<1>1. s.file \in 1 .. Len(lens) /\ s.offset \in Nat /\ s.length \in Nat /\ s.offset + s.length <= lens[s.file]
  BY DEF Segments
<1>2. Begin(lens, s.file) \in Nat
  BY <1>1, FileBounds
<1> QED  BY <1>1, <1>2 DEF SegBegin, SegEnd

\* No segment, and one segment more.
LEMMA ChainGrows ==
    ASSUME NEW lens \in Seq(Nat), NEW t, NEW a \in Nat, NEW b \in Nat
    PROVE  /\ Chain(lens, <<>>, a, a)
           /\ \A s \in Segments(lens) :
                 Chain(lens, t, a, b) /\ SegBegin(lens, s) = b => Chain(lens, Append(t, s), a, SegEnd(lens, s))
<1>1. Chain(lens, <<>>, a, a)
  BY DEF Chain
<1>2. ASSUME NEW s \in Segments(lens), Chain(lens, t, a, b), SegBegin(lens, s) = b
      PROVE  Chain(lens, Append(t, s), a, SegEnd(lens, s))
  <2>1. PICK S : S = Segments(lens)
    OBVIOUS
  <2>2. t \in Seq(S) /\ s \in S
    BY <1>2, <2>1 DEF Chain
  <2>3. PICK n \in Nat : n = Len(t)
    BY <2>2
  <2>4. PICK u : u = Append(t, s)
    OBVIOUS
  <2>5. u \in Seq(S) /\ Len(u) = n + 1 /\ u[n + 1] = s /\ u # <<>> /\ \A k \in 1 .. n : u[k] = t[k]
    BY <2>2, <2>3, <2>4
  <2>6. n = 0 <=> t = <<>>
    BY <2>2, <2>3
  <2>7. PICK e \in Nat : e = SegEnd(lens, s) /\ b <= e
    BY <1>2, SegmentBounds
  <2>8. \A k \in 1 .. n : SegEnd(lens, t[k]) \in Nat /\ SegEnd(lens, t[k]) <= b
    <3>1. \A k \in 1 .. n : t[k] \in Segments(lens)
      BY <2>1, <2>2, <2>3
    <3> QED  BY <1>2, <2>3, <3>1, SegmentBounds DEF Chain
  <2>9. \A k \in 1 .. n + 1 : SegEnd(lens, u[k]) <= e
    <3> SUFFICES ASSUME NEW k \in 1 .. n + 1 PROVE SegEnd(lens, u[k]) <= e
      OBVIOUS
    <3>1. CASE k = n + 1
      BY <2>5, <2>7, <3>1
    <3>2. CASE k \in 1 .. n
      <4>1. u[k] = t[k]
        BY <2>5, <3>2
      <4>2. SegEnd(lens, t[k]) \in Nat /\ SegEnd(lens, t[k]) <= b
        BY <2>8, <3>2
      <4> QED  BY <2>7, <4>1, <4>2
    <3> QED  BY <3>1, <3>2
  <2>10. \A k \in 1 .. n : SegEnd(lens, u[k]) = SegBegin(lens, u[k + 1])
    <3> SUFFICES ASSUME NEW k \in 1 .. n PROVE SegEnd(lens, u[k]) = SegBegin(lens, u[k + 1])
      OBVIOUS
    <3>1. u[k] = t[k]
      BY <2>5
    <3>2. CASE k = n
      <4>1. t # <<>>
        BY <2>6, <3>2
      <4>2. SegEnd(lens, t[n]) = b
        BY <1>2, <2>3, <4>1 DEF Chain
      <4> QED  BY <1>2, <2>5, <3>1, <3>2, <4>2
    <3>3. CASE k \in 1 .. n - 1
      <4>1. u[k + 1] = t[k + 1]
        BY <2>5, <3>3
      <4>2. SegEnd(lens, t[k]) = SegBegin(lens, t[k + 1])
        BY <1>2, <2>3, <3>3 DEF Chain
      <4> QED  BY <3>1, <4>1, <4>2
    <3> QED  BY <3>2, <3>3
  <2>11. SegBegin(lens, u[1]) = a
    <3>1. CASE n = 0
      BY <1>2, <2>5, <2>6, <3>1 DEF Chain
    <3>2. CASE n > 0
      <4>1. u[1] = t[1] /\ t # <<>>
        BY <2>5, <2>6, <3>2
      <4> QED  BY <1>2, <4>1 DEF Chain
    <3> QED  BY <2>3, <3>1, <3>2
  <2>12. Len(u) - 1 = n
    BY <2>5
  <2> QED  BY <2>1, <2>4, <2>5, <2>7, <2>9, <2>10, <2>11, <2>12 DEF Chain
<1> QED  BY <1>1, <1>2

\* The first segment is written, the others are left.
LEMMA ChainShrinks ==
    ASSUME NEW lens \in Seq(Nat), NEW t, NEW a \in Nat, NEW b \in Nat, Chain(lens, t, a, b), t # <<>>
    PROVE  /\ Head(t) \in Segments(lens) /\ SegBegin(lens, Head(t)) = a /\ SegEnd(lens, Head(t)) <= b
           /\ Chain(lens, Tail(t), SegEnd(lens, Head(t)), b)
<1>1. PICK S : S = Segments(lens)
  OBVIOUS
<1>2. t \in Seq(S)
  BY <1>1 DEF Chain
<1>3. PICK n \in Nat : n = Len(t)
  BY <1>2
<1>4. n # 0
  BY <1>2, <1>3
<1>5. PICK u : u = Tail(t)
  OBVIOUS
<1>6. u \in Seq(S) /\ Len(u) = n - 1 /\ (\A k \in 1 .. n - 1 : u[k] = t[k + 1]) /\ (u = <<>> <=> n = 1)
  <2>1. u \in Seq(S) /\ Len(u) = n - 1 /\ \A k \in 1 .. n - 1 : u[k] = t[k + 1]
    BY <1>2, <1>3, <1>4, <1>5
  <2>2. u = <<>> <=> Len(u) = 0
    BY <2>1
  <2> QED  BY <1>3, <2>1, <2>2
<1>7. Head(t) = t[1] /\ t[1] \in S
  BY <1>2, <1>3, <1>4
<1>8. /\ SegBegin(lens, t[1]) = a /\ SegEnd(lens, t[n]) = b
      /\ \A k \in 1 .. n : SegEnd(lens, t[k]) <= b
      /\ \A k \in 1 .. n - 1 : SegEnd(lens, t[k]) = SegBegin(lens, t[k + 1])
  BY <1>3 DEF Chain
<1>9. SegEnd(lens, t[1]) <= b
  BY <1>3, <1>4, <1>8
<1>10. u = <<>> => SegEnd(lens, t[1]) = b
  BY <1>6, <1>8
<1>11. u # <<>> => SegBegin(lens, u[1]) = SegEnd(lens, t[1]) /\ SegEnd(lens, u[n - 1]) = b
  <2> SUFFICES ASSUME u # <<>>
               PROVE  SegBegin(lens, u[1]) = SegEnd(lens, t[1]) /\ SegEnd(lens, u[n - 1]) = b
    OBVIOUS
  <2>1. n >= 2
    BY <1>3, <1>4, <1>6
  <2>2. u[1] = t[2] /\ u[n - 1] = t[n]
    <3>1. 1 \in 1 .. n - 1 /\ n - 1 \in 1 .. n - 1 /\ 1 + 1 = 2 /\ (n - 1) + 1 = n
      BY <1>3, <2>1
    <3>2. u[1] = t[1 + 1] /\ u[n - 1] = t[(n - 1) + 1]
      BY <1>6, <3>1
    <3> QED  BY <3>1, <3>2
  <2>3. SegEnd(lens, t[1]) = SegBegin(lens, t[2])
    <3>1. 1 \in 1 .. n - 1 /\ 1 + 1 = 2
      BY <1>3, <2>1
    <3>2. SegEnd(lens, t[1]) = SegBegin(lens, t[1 + 1])
      BY <1>8, <3>1
    <3> QED  BY <3>1, <3>2
  <2> QED  BY <1>8, <2>2, <2>3
<1>12. \A k \in 1 .. n - 1 : SegEnd(lens, u[k]) <= b
  <2> SUFFICES ASSUME NEW k \in 1 .. n - 1 PROVE SegEnd(lens, u[k]) <= b
    OBVIOUS
  <2>1. k + 1 \in 1 .. n /\ u[k] = t[k + 1]
    BY <1>6
  <2> QED  BY <1>8, <2>1
<1>13. \A k \in 1 .. n - 2 : SegEnd(lens, u[k]) = SegBegin(lens, u[k + 1])
  <2> SUFFICES ASSUME NEW k \in 1 .. n - 2 PROVE SegEnd(lens, u[k]) = SegBegin(lens, u[k + 1])
    OBVIOUS
  <2>1. k \in 1 .. n - 1 /\ k + 1 \in 1 .. n - 1
    BY <1>3
  <2>2. u[k] = t[k + 1] /\ u[k + 1] = t[(k + 1) + 1]
    BY <1>6, <2>1
  <2>3. SegEnd(lens, t[k + 1]) = SegBegin(lens, t[(k + 1) + 1])
    BY <1>8, <2>1
  <2> QED  BY <2>2, <2>3
<1>14. Len(u) - 1 = n - 2
  BY <1>3, <1>6
<1>15. Chain(lens, u, SegEnd(lens, t[1]), b)
  BY <1>1, <1>6, <1>10, <1>11, <1>12, <1>13, <1>14 DEF Chain
<1> QED  BY <1>1, <1>5, <1>7, <1>8, <1>9, <1>15

\* What the parser makes sure of, for a dictionary without negative lengths.
LayoutOK ==
    /\ info.pieceLength \in Nat \ {0}
    /\ info.numPieces \in Nat
    /\ lengths \in Seq(Nat)
    /\ TotalLength(info) = Sum(lengths)

\* The first and the last position of a piece.
LEMMA PieceBounds ==
    ASSUME LayoutOK, NEW i \in Nat
    PROVE  /\ PieceStart(i) \in Nat /\ PieceSize(info, i) \in Int
           /\ PieceEnd(i) \in Int /\ PieceEnd(i) = PieceStart(i) + PieceSize(info, i)
           /\ PieceEnd(i) <= Sum(lengths)
           /\ PieceEnd(i) = Sum(lengths) \/ PieceEnd(i) = PieceStart(i) + info.pieceLength
<1>1. PICK p \in Nat : p = i * info.pieceLength /\ p = PieceStart(i)
  BY DEF LayoutOK, PieceStart
<1>2. PICK total \in Nat : total = Sum(lengths) /\ total = TotalLength(info)
  <2>1. Sum(lengths) \in Nat
    <3>1. lengths \in Seq(Nat)
      BY DEF LayoutOK
    <3>2. Len(lengths) \in 0 .. Len(lengths)
      BY <3>1
    <3> QED  BY <3>1, <3>2, SumsLoop DEF Sum
  <2> QED  BY <2>1 DEF LayoutOK
<1>3. PieceSize(info, i) = IF total - p < info.pieceLength THEN total - p ELSE info.pieceLength
  BY <1>1, <1>2 DEF PieceSize
<1>4. info.pieceLength \in Nat
  BY DEF LayoutOK
<1> QED  BY <1>1, <1>2, <1>3, <1>4 DEF PieceEnd

\* The position that the segments of piece i reach when n files were looked at.
Reached(n, i) == Smaller(PieceEnd(i), Larger(PieceStart(i), PrefixSums(lengths)[n]))

\* One turn of the loop over the files.
LEMMA OneFile ==
    ASSUME LayoutOK, NEW i \in Nat, PieceSize(info, i) >= 0, NEW n \in 1 .. Len(lengths)
    PROVE  /\ Reached(n - 1, i) \in Nat /\ Reached(n, i) \in Nat
           /\ Overlaps(n, i) =>
                 /\ Segment(n, i) \in Segments(lengths)
                 /\ SegBegin(lengths, Segment(n, i)) = Reached(n - 1, i)
                 /\ SegEnd(lengths, Segment(n, i)) = Reached(n, i)
           /\ ~Overlaps(n, i) => Reached(n, i) = Reached(n - 1, i)
<1>1. lengths \in Seq(Nat)
  BY DEF LayoutOK
<1>2. PICK p \in Nat : p = PieceStart(i)
  BY PieceBounds
<1>3. PICK e \in Nat : e = PieceEnd(i) /\ p <= e
  <2>1. PieceSize(info, i) \in Int /\ PieceEnd(i) = p + PieceSize(info, i)
    BY <1>2, PieceBounds
  <2> QED  BY <2>1
<1>4. PICK a \in Nat : a = FileOffset(n) /\ a = PrefixSums(lengths)[n - 1] /\ a = Begin(lengths, n)
  BY <1>1, FileBounds DEF FileOffset, Begin
<1>5. PICK l \in Nat : l = lengths[n]
  BY <1>1
<1>6. PICK b \in Nat : b = FileEnd(n) /\ b = PrefixSums(lengths)[n] /\ b = a + l
  <2>1. a + l = PrefixSums(lengths)[n]
    BY <1>1, <1>4, <1>5, FileBounds
  <2>2. FileEnd(n) = a + l
    BY <1>4, <1>5 DEF FileEnd
  <2> QED  BY <2>1, <2>2
<1>7. /\ Reached(n - 1, i) = Smaller(e, Larger(p, a))
      /\ Reached(n, i) = Smaller(e, Larger(p, b))
  BY <1>2, <1>3, <1>4, <1>6 DEF Reached
<1>8. Overlaps(n, i) <=> b > p /\ a < e
  BY <1>2, <1>3, <1>4, <1>6 DEF Overlaps
<1>9. ASSUME Overlaps(n, i)
      PROVE  /\ Segment(n, i) \in Segments(lengths)
             /\ SegBegin(lengths, Segment(n, i)) = Reached(n - 1, i)
             /\ SegEnd(lengths, Segment(n, i)) = Reached(n, i)
  <2>1. PICK x \in Nat : x = Larger(p, a)
    BY DEF Larger
  <2>2. PICK y \in Nat : y = Smaller(e, b)
    BY DEF Smaller
  <2>3. Segment(n, i) = [file |-> n, offset |-> x - a, length |-> y - x]
    BY <1>2, <1>3, <1>4, <1>6, <2>1, <2>2 DEF Segment
  <2>4. x - a \in Nat /\ y - x \in Nat /\ (x - a) + (y - x) <= l
    BY <1>3, <1>6, <1>8, <1>9, <2>1, <2>2 DEF Larger, Smaller
  <2>5. Reached(n - 1, i) = x /\ Reached(n, i) = y
    BY <1>3, <1>6, <1>7, <1>8, <1>9, <2>1, <2>2 DEF Larger, Smaller
  <2>6. PICK s : s = Segment(n, i)
    OBVIOUS
  <2>7. s.file = n /\ s.offset = x - a /\ s.length = y - x
    BY <2>3, <2>6
  <2>8. s \in Segments(lengths)
    BY <1>5, <2>3, <2>4, <2>6 DEF Segments
  <2>9. SegBegin(lengths, s) = a + (x - a) /\ SegEnd(lengths, s) = a + (x - a) + (y - x)
    BY <1>4, <2>7 DEF SegBegin, SegEnd
  <2> QED  BY <2>1, <2>2, <2>5, <2>6, <2>8, <2>9
<1>10. ASSUME ~Overlaps(n, i) PROVE Reached(n, i) = Reached(n - 1, i)
  BY <1>3, <1>6, <1>7, <1>8, <1>10 DEF Larger, Smaller
<1>11. Reached(n - 1, i) \in Nat /\ Reached(n, i) \in Nat
  BY <1>7 DEF Larger, Smaller
<1> QED  BY <1>9, <1>10, <1>11

\* The loop over the files.
LEMMA SegmentsLoop ==
    ASSUME LayoutOK, NEW i \in Nat, PieceSize(info, i) >= 0
    PROVE  \E f : /\ f[0] = <<>>
                  /\ \A n \in 1 .. Len(lengths) : f[n] = AddSegment(f[n - 1], n, i)
                  /\ PieceSegments(i) = f[Len(lengths)]
<1>1. PICK L \in Nat : L = Len(lengths)
  BY DEF LayoutOK
<1>2. PICK S : S = Segments(lengths)
  OBVIOUS
<1>3. \A n \in 1 .. L, t \in Seq(S) : AddSegment(t, n, i) \in Seq(S)
  <2> SUFFICES ASSUME NEW n \in 1 .. L, NEW t \in Seq(S) PROVE AddSegment(t, n, i) \in Seq(S)
    OBVIOUS
  <2>1. Overlaps(n, i) => Segment(n, i) \in S
    BY <1>1, <1>2, OneFile
  <2>2. Segment(n, i) \in S => Append(t, Segment(n, i)) \in Seq(S)
    OBVIOUS
  <2> QED  BY <2>1, <2>2 DEF AddSegment
<1> DEFINE step == [x \in (1 .. L) \X Seq(S) |-> AddSegment(x[2], x[1], i)]
<1>4. step \in [(1 .. L) \X Seq(S) -> Seq(S)]
  BY <1>3
<1>5. \A n \in 1 .. L, t \in Seq(S) : step[<<n, t>>] = AddSegment(t, n, i)
  OBVIOUS
<1> HIDE DEF step
<1>6. <<>> \in Seq(S)
  OBVIOUS
<1>7. PICK f : LoopOf(f, L, Seq(S), <<>>, step)
  BY <1>4, <1>6, LoopRuns
<1>8. f \in [0 .. L -> Seq(S)] /\ f[0] = <<>>
  BY <1>7 DEF LoopOf
<1>9. \A n \in 1 .. L : f[n] = AddSegment(f[n - 1], n, i)
  <2> SUFFICES ASSUME NEW n \in 1 .. L PROVE f[n] = AddSegment(f[n - 1], n, i)
    OBVIOUS
  <2>1. n - 1 \in 0 .. L
    OBVIOUS
  <2>2. f[n - 1] \in Seq(S)
    BY <1>8, <2>1
  <2>3. f[n] = step[<<n, f[n - 1]>>]
    BY <1>7 DEF LoopOf
  <2> QED  BY <1>5, <2>2, <2>3
<1> DEFINE Body(h) == [n \in 0 .. Len(lengths) |-> IF n = 0 THEN <<>> ELSE AddSegment(h[n - 1], n, i)]
           list == CHOOSE h : h = Body(h)
<1>10. f = Body(f)
  <2>1. \A n \in 0 .. L : f[n] = IF n = 0 THEN <<>> ELSE AddSegment(f[n - 1], n, i)
    BY <1>8, <1>9
  <2> QED  BY <1>1, <1>8, <2>1
<1>11. list = Body(list)
  <2> HIDE DEF Body
  <2> QED  BY <1>10
<1>12. PieceSegments(i) = list[Len(lengths)]
  BY DEF PieceSegments
<1> HIDE DEF list
<1>13. list[0] = <<>> /\ \A n \in 1 .. L : list[n] = AddSegment(list[n - 1], n, i)
  BY <1>1, <1>11
<1> QED  BY <1>1, <1>12, <1>13

\* The segments of a piece are the bytes of the piece, one after the other.
LEMMA SegmentsExact ==
    ASSUME LayoutOK, NEW i \in Nat, PieceSize(info, i) >= 0
    PROVE  Chain(lengths, PieceSegments(i), PieceStart(i), PieceEnd(i))
<1>1. lengths \in Seq(Nat)
  BY DEF LayoutOK
<1>2. PICK L \in Nat : L = Len(lengths)
  BY <1>1
<1>3. PICK p \in Nat : p = PieceStart(i)
  BY PieceBounds
<1>4. PICK f : /\ f[0] = <<>>
               /\ \A n \in 1 .. L : f[n] = AddSegment(f[n - 1], n, i)
               /\ PieceSegments(i) = f[L]
  BY <1>2, SegmentsLoop
<1>5. PICK e \in Nat : e = PieceEnd(i) /\ p <= e
  <2>1. PieceSize(info, i) \in Int /\ PieceEnd(i) = p + PieceSize(info, i)
    BY <1>3, PieceBounds
  <2> QED  BY <2>1
<1> DEFINE good == {n \in 0 .. L : Chain(lengths, f[n], p, Reached(n, i))}
<1>6. 0 \in good
  <2>1. PrefixSums(lengths)[0] = 0
    BY <1>1, SumsLoop
  <2>2. Reached(0, i) = p
    BY <1>3, <1>5, <2>1 DEF Reached, Larger, Smaller
  <2>3. Chain(lengths, <<>>, p, p)
    BY <1>1, ChainGrows
  <2> QED  BY <1>4, <2>2, <2>3
<1>7. ASSUME NEW n \in 1 .. L, n - 1 \in good PROVE n \in good
  <2>1. Chain(lengths, f[n - 1], p, Reached(n - 1, i)) /\ f[n] = AddSegment(f[n - 1], n, i)
    BY <1>4, <1>7
  <2>2. Reached(n - 1, i) \in Nat /\ Reached(n, i) \in Nat
    BY <1>2, OneFile
  <2>3. ASSUME Overlaps(n, i) PROVE Chain(lengths, f[n], p, Reached(n, i))
    <3>1. PICK s : s = Segment(n, i)
      OBVIOUS
    <3>2. /\ s \in Segments(lengths) /\ SegBegin(lengths, s) = Reached(n - 1, i)
          /\ SegEnd(lengths, s) = Reached(n, i)
      BY <1>2, <2>3, <3>1, OneFile
    <3>3. f[n] = Append(f[n - 1], s)
      BY <2>1, <2>3, <3>1 DEF AddSegment
    <3>4. Chain(lengths, Append(f[n - 1], s), p, SegEnd(lengths, s))
      BY <1>1, <2>1, <2>2, <3>2, ChainGrows
    <3> QED  BY <3>2, <3>3, <3>4
  <2>4. ASSUME ~Overlaps(n, i) PROVE Chain(lengths, f[n], p, Reached(n, i))
    <3>1. f[n] = f[n - 1] /\ Reached(n, i) = Reached(n - 1, i)
      BY <1>2, <2>1, <2>4, OneFile DEF AddSegment
    <3> QED  BY <2>1, <3>1
  <2>5. n \in 0 .. L
    OBVIOUS
  <2>6. Chain(lengths, f[n], p, Reached(n, i))
    BY <2>3, <2>4
  <2> QED  BY <2>5, <2>6
<1>8. good = 0 .. L
  <2>1. good \in SUBSET (0 .. L)
    OBVIOUS
  <2> HIDE DEF good
  <2> QED  BY <1>6, <1>7, <2>1, LoopInvariant
<1>9. Chain(lengths, f[L], p, Reached(L, i))
  BY <1>8
<1>10. Reached(L, i) = e
  <2>1. PICK total \in Nat : total = PrefixSums(lengths)[L]
    <3>1. L \in 0 .. L
      OBVIOUS
    <3>2. PrefixSums(lengths) \in [0 .. L -> Nat]
      BY <1>1, <1>2, SumsLoop
    <3> QED  BY <3>1, <3>2
  <2>2. e <= total
    BY <1>2, <1>5, <2>1, PieceBounds DEF Sum
  <2> QED  BY <1>3, <1>5, <2>1, <2>2 DEF Reached, Larger, Smaller
<1> QED  BY <1>3, <1>4, <1>5, <1>9, <1>10

\* The loop's break is sound: no file behind one that begins after the piece
\* overlaps it.
LEMMA BreakIsSound ==
    ASSUME LayoutOK, NEW i \in Nat, NEW f \in 1 .. Len(lengths), NEW g \in 1 .. Len(lengths),
           f <= g, FileOffset(f) >= PieceEnd(i)
    PROVE  ~Overlaps(g, i)
<1>1. lengths \in Seq(Nat)
  BY DEF LayoutOK
<1>2. f - 1 \in 0 .. Len(lengths) /\ g - 1 \in 0 .. Len(lengths) /\ f - 1 <= g - 1
  BY <1>1
<1>3. PICK a \in Nat, b \in Nat : a = FileOffset(f) /\ b = FileOffset(g)
  BY <1>1, FileBounds DEF FileOffset, Begin
<1>4. a <= b
  BY <1>1, <1>2, <1>3, SumsGrow DEF FileOffset
<1>5. PieceEnd(i) \in Int
  BY PieceBounds
<1> QED  BY <1>3, <1>4, <1>5 DEF Overlaps

-----------------------------------------------------------------------------
(* What a write does to the files                                          *)

\* Every byte of the files is missing or the one that belongs there.
InPlace(lens, c) ==
    /\ DOMAIN c = 1 .. Len(lens)
    /\ \A f \in 1 .. Len(lens) : \A o \in 0 .. lens[f] - 1 :
          c[f][o] \in {NoByte, Begin(lens, f) + o}

\* No byte between the positions a and b is missing.
Covered(lens, c, a, b) ==
    \A f \in 1 .. Len(lens) : \A o \in 0 .. lens[f] - 1 :
        a <= Begin(lens, f) + o /\ Begin(lens, f) + o < b => c[f][o] # NoByte

\* The files after the first n bytes of segment s are written.
Written(lens, c, s, n, base) ==
    [c EXCEPT ![s.file] =
       [o \in 0 .. lens[s.file] - 1 |->
          IF o \in s.offset .. s.offset + n - 1 THEN base + (o - s.offset) ELSE @[o]]]

\* A write at its own position puts every byte where it belongs.
LEMMA WrittenBytes ==
    ASSUME NEW lens \in Seq(Nat), NEW c, NEW s \in Segments(lens), NEW n \in 0 .. s.length,
           InPlace(lens, c), NEW w, w = Written(lens, c, s, n, SegBegin(lens, s))
    PROVE  /\ DOMAIN w = 1 .. Len(lens)
           /\ \A f \in 1 .. Len(lens) : \A o \in 0 .. lens[f] - 1 :
                 w[f][o] = IF f = s.file /\ o \in s.offset .. s.offset + n - 1
                           THEN Begin(lens, f) + o ELSE c[f][o]
<1>1. PICK a \in Nat, l \in Nat, g \in 1 .. Len(lens), start \in Nat :
         /\ g = s.file /\ start = s.offset /\ l = lens[g]
         /\ a = Begin(lens, g) /\ SegBegin(lens, s) = a + start
  <2>1. s.file \in 1 .. Len(lens) /\ s.offset \in Nat /\ SegBegin(lens, s) = Begin(lens, s.file) + s.offset
    BY SegmentBounds
  <2>2. Begin(lens, s.file) \in Nat /\ lens[s.file] \in Nat
    BY <2>1, FileBounds
  <2> QED  BY <2>1, <2>2
<1>2. PICK m \in Nat : m = n
  <2>1. s.length \in Nat
    BY SegmentBounds
  <2> QED  BY <2>1
<1>3. DOMAIN c = 1 .. Len(lens)
  BY DEF InPlace
<1>4. w = [c EXCEPT ![g] = [o \in 0 .. l - 1 |->
              IF o \in start .. start + m - 1 THEN (a + start) + (o - start) ELSE c[g][o]]]
  BY <1>1, <1>2 DEF Written
<1>5. DOMAIN w = 1 .. Len(lens)
  BY <1>3, <1>4
<1>6. ASSUME NEW f \in 1 .. Len(lens), NEW o \in 0 .. lens[f] - 1
      PROVE  w[f][o] = IF f = g /\ o \in start .. start + m - 1 THEN Begin(lens, f) + o ELSE c[f][o]
  <2>1. CASE f # g
    <3>1. w[f] = c[f]
      BY <1>3, <1>4, <2>1
    <3> QED  BY <2>1, <3>1
  <2>2. CASE f = g
    <3>1. o \in 0 .. l - 1
      BY <1>1, <2>2
    <3>2. w[f] = [x \in 0 .. l - 1 |-> IF x \in start .. start + m - 1 THEN (a + start) + (x - start) ELSE c[g][x]]
      BY <1>3, <1>4, <2>2
    <3>3. w[f][o] = IF o \in start .. start + m - 1 THEN (a + start) + (o - start) ELSE c[g][o]
      BY <3>1, <3>2
    <3>4. (a + start) + (o - start) = a + o
      BY <3>1
    <3> QED  BY <1>1, <2>2, <3>3, <3>4
  <2> QED  BY <2>1, <2>2
<1> QED  BY <1>1, <1>2, <1>5, <1>6

\* A write leaves every byte in place, removes none, and adds those of its
\* range.
LEMMA WriteAdds ==
    ASSUME NEW lens \in Seq(Nat), NEW c, NEW s \in Segments(lens), NEW n \in 0 .. s.length,
           InPlace(lens, c), NEW w, w = Written(lens, c, s, n, SegBegin(lens, s))
    PROVE  /\ InPlace(lens, w)
           /\ \A f \in 1 .. Len(lens) : \A o \in 0 .. lens[f] - 1 :
                 c[f][o] # NoByte => w[f][o] = c[f][o]
           /\ \A a, b \in Int : Covered(lens, c, a, b) => Covered(lens, w, a, b)
           /\ \A a \in Int : Covered(lens, c, a, SegBegin(lens, s)) => Covered(lens, w, a, SegBegin(lens, s) + n)
<1>1. /\ DOMAIN w = 1 .. Len(lens)
      /\ \A f \in 1 .. Len(lens) : \A o \in 0 .. lens[f] - 1 :
            w[f][o] = IF f = s.file /\ o \in s.offset .. s.offset + n - 1
                      THEN Begin(lens, f) + o ELSE c[f][o]
  BY WrittenBytes
<1>2. \A f \in 1 .. Len(lens) : \A o \in 0 .. lens[f] - 1 : c[f][o] \in {NoByte, Begin(lens, f) + o}
  BY DEF InPlace
<1>3. \A f \in 1 .. Len(lens) : Begin(lens, f) \in Nat /\ lens[f] \in Nat
  BY FileBounds
<1>4. \A f \in 1 .. Len(lens) : \A o \in 0 .. lens[f] - 1 : Begin(lens, f) + o # NoByte
  <2> SUFFICES ASSUME NEW f \in 1 .. Len(lens), NEW o \in 0 .. lens[f] - 1 PROVE Begin(lens, f) + o # NoByte
    OBVIOUS
  <2>1. Begin(lens, f) \in Nat /\ o \in Nat
    BY <1>3
  <2> QED  BY <2>1 DEF NoByte
<1>5. \A f \in 1 .. Len(lens) : \A o \in 0 .. lens[f] - 1 : w[f][o] = c[f][o] \/ w[f][o] = Begin(lens, f) + o
  BY <1>1, Zenon
<1>6. InPlace(lens, w)
  <2>1. ASSUME NEW f \in 1 .. Len(lens), NEW o \in 0 .. lens[f] - 1
        PROVE  w[f][o] \in {NoByte, Begin(lens, f) + o}
    BY <1>2, <1>5, Zenon
  <2> QED  BY <1>1, <2>1 DEF InPlace
<1>7. \A f \in 1 .. Len(lens) : \A o \in 0 .. lens[f] - 1 : c[f][o] # NoByte => w[f][o] = c[f][o]
  BY <1>2, <1>5, Zenon
<1>8. ASSUME NEW a \in Int, NEW b \in Int, Covered(lens, c, a, b) PROVE Covered(lens, w, a, b)
  BY <1>7, <1>8, Zenon DEF Covered
<1>9. ASSUME NEW a \in Int, Covered(lens, c, a, SegBegin(lens, s))
      PROVE  Covered(lens, w, a, SegBegin(lens, s) + n)
  <2> SUFFICES ASSUME NEW f \in 1 .. Len(lens), NEW o \in 0 .. lens[f] - 1,
                      a <= Begin(lens, f) + o, Begin(lens, f) + o < SegBegin(lens, s) + n
               PROVE  w[f][o] # NoByte
    BY DEF Covered
  <2>1. PICK p \in Nat, from \in Nat, size \in Nat :
           /\ p = SegBegin(lens, s) /\ from = s.offset /\ size = s.length
           /\ s.file \in 1 .. Len(lens) /\ p = Begin(lens, s.file) + from
           /\ from + size <= lens[s.file]
    BY SegmentBounds
  <2>2. PICK m \in Nat : m = n /\ m <= size
    BY <2>1
  <2>3. PICK g \in Nat, h \in Nat : g = Begin(lens, f) /\ h = lens[f] /\ o \in 0 .. h - 1
    BY <1>3
  <2>4. PICK b \in Nat : b = g + o /\ b < g + h
    BY <2>3
  <2>5. a <= b /\ b < p + m
    BY <2>1, <2>2, <2>3, <2>4
  <2>6. CASE b < p
    <3>1. c[f][o] # NoByte
      BY <1>9, <2>1, <2>3, <2>4, <2>5, <2>6 DEF Covered
    <3> QED  BY <1>7, <3>1
  <2>7. CASE p <= b
    <3>1. PICK x \in Nat, y \in Nat : x = Begin(lens, s.file) /\ y = lens[s.file]
      BY <1>3, <2>1
    <3>2. p = x + from /\ from + size <= y
      BY <2>1, <3>1
    <3>3. x <= b /\ b < x + y
      BY <2>2, <2>5, <2>7, <3>2
    <3>4. g <= b
      BY <2>3, <2>4
    <3>5. f = s.file
      <4>1. /\ Begin(lens, f) <= b /\ b < Begin(lens, f) + lens[f]
            /\ Begin(lens, s.file) <= b /\ b < Begin(lens, s.file) + lens[s.file]
        BY <2>3, <2>4, <3>1, <3>3, <3>4
      <4> QED  BY <2>1, <4>1, FilesApart
    <3>6. x = g
      BY <2>3, <3>1, <3>5
    <3>7. o \in from .. from + m - 1
      <4>1. o \in Nat /\ b = g + o
        BY <2>3, <2>4
      <4>2. p = g + from /\ p <= b /\ b < p + m
        BY <2>5, <2>7, <3>2, <3>6
      <4> QED  BY <4>1, <4>2
    <3>8. w[f][o] = Begin(lens, f) + o
      <4>1. o \in s.offset .. s.offset + n - 1
        BY <2>1, <2>2, <3>7
      <4> QED  BY <1>1, <3>5, <4>1, Zenon
    <3> QED  BY <1>4, <3>8
  <2> QED  BY <2>1, <2>4, <2>6, <2>7
<1> QED  BY <1>6, <1>7, <1>8, <1>9

-----------------------------------------------------------------------------
(* The invariant                                                           *)

\* WritePiece is between two segments: those left continue where the bytes of
\* the piece that are written end, up to the end of the piece.
WritingOK ==
    /\ index \in Pieces /\ PieceSize(info, index) >= 0 /\ offset \in Nat
    /\ Chain(lengths, todo, PieceStart(index) + offset, PieceEnd(index))
    /\ Covered(lengths, content, PieceStart(index), PieceStart(index) + offset)

WriterInv ==
    /\ meta \in Dicts
    /\ LayoutOK
    /\ wpc \in {"parse", "ready", "writing", "closed"}
    /\ wpc = "parse" => done = {} /\ lengths = <<>>
    /\ InPlace(lengths, content)
    /\ done \subseteq Pieces
    /\ \A i \in done : Covered(lengths, content, PieceStart(i), PieceEnd(i))
    /\ wpc = "writing" => WritingOK

\* The sum of a single length.
LEMMA SumOfOne ==
    ASSUME NEW n \in Nat
    PROVE  <<n>> \in Seq(Nat) /\ Sum(<<n>>) = n
<1>1. PICK q : q = <<n>>
  OBVIOUS
<1>2. q \in Seq(Nat) /\ Len(q) = 1 /\ q[1] = n
  BY <1>1
<1>3. PICK s : s = PrefixSums(q)
  OBVIOUS
<1>4. s[0] = 0 /\ \A k \in 1 .. 1 : s[k] = s[k - 1] + q[k]
  BY <1>2, <1>3, SumsLoop
<1>5. 1 \in 1 .. 1 /\ 1 - 1 = 0
  OBVIOUS
<1>6. s[1] = s[1 - 1] + q[1]
  BY <1>4, <1>5
<1>7. s[1] = n
  BY <1>2, <1>4, <1>5, <1>6
<1> QED  BY <1>1, <1>2, <1>3, <1>7 DEF Sum

\* The parser's Info has a layout: a piece length, a number of hashes and
\* lengths that add up to the length of the data.
LEMMA ParsedLayout ==
    ASSUME NEW d \in Dicts, Accepts(d), NEW inf, inf = ParseUnverified(d)
    PROVE  /\ inf.pieceLength \in Nat \ {0} /\ inf.numPieces \in Nat
           /\ FileList(inf) \in Seq(Nat)
           /\ TotalLength(inf) = Sum(FileList(inf))
<1>1. inf.pieceLength \in Nat \ {0}
  <2>1. "pieceLength" \in DOMAIN d /\ d.pieceLength > 0
    BY DEF Accepts
  <2>2. d.pieceLength \in Int
    BY <2>1, WriterAssumption
  <2>3. inf.pieceLength = d.pieceLength
    BY DEF ParseUnverified
  <2> QED  BY <2>1, <2>2, <2>3
<1>2. inf.numPieces \in Nat
  <2>1. "pieces" \in DOMAIN d
    BY DEF Accepts
  <2>2. PICK k \in Nat : k = d.pieces
    BY <2>1, WriterAssumption
  <2>3. PICK h \in Nat \ {0} : h = HashLen
    BY HashLenAssumption
  <2>4. k \div h \in Nat
    OBVIOUS
  <2> QED  BY <2>2, <2>3, <2>4 DEF ParseUnverified
<1>3. CASE SingleFile(d)
  <2>1. inf.length = d.length /\ inf.files = <<>>
    BY <1>3 DEF ParseUnverified
  <2>2. PICK n \in Nat : n = inf.length
    BY <1>3, <2>1, WriterAssumption DEF SingleFile
  <2>3. CASE n > 0
    <3>1. FileList(inf) = <<n>> /\ TotalLength(inf) = n
      BY <2>2, <2>3 DEF FileList, TotalLength
    <3> QED  BY <1>1, <1>2, <3>1, SumOfOne
  <2>4. CASE ~(n > 0)
    <3>1. FileList(inf) = FileLengths(inf) /\ TotalLength(inf) = Sum(FileLengths(inf))
      BY <2>2, <2>4 DEF FileList, TotalLength
    <3>2. FileLengths(inf) = <<>>
      BY <2>1 DEF FileLengths
    <3>3. FileLengths(inf) \in Seq(Nat)
      BY <3>2
    <3> QED  BY <1>1, <1>2, <3>1, <3>3
  <2> QED  BY <2>3, <2>4
<1>4. CASE ~SingleFile(d)
  <2>1. "files" \in DOMAIN d /\ \A k \in DOMAIN d.files : FileOK(d.files[k])
    BY <1>4 DEF Accepts
  <2>2. PICK fs : fs = d.files
    OBVIOUS
  <2>3. PICK n \in Nat : n = Len(fs) /\ fs = [k \in 1 .. n |-> fs[k]]
    BY <2>1, <2>2, WriterAssumption DEF IsSeq
  <2>4. DOMAIN fs = 1 .. n
    BY <2>3
  <2>5. \A k \in 1 .. n : fs[k].length \in Nat
    <3>1. \A k \in 1 .. n : "length" \in DOMAIN fs[k]
      BY <2>1, <2>2, <2>4 DEF FileOK
    <3> QED  BY <2>1, <2>2, <2>3, <3>1, WriterAssumption
  <2>6. inf.length = 0
    BY <1>4 DEF ParseUnverified
  <2>7. inf.files = [k \in 1 .. n |-> [length |-> fs[k].length, path |-> Path(fs[k])]]
    BY <1>4, <2>2, <2>4 DEF ParseUnverified
  <2>8. FileLengths(inf) = [k \in 1 .. n |-> fs[k].length]
    BY <2>7 DEF FileLengths
  <2>9. FileLengths(inf) \in Seq(Nat)
    BY <2>5, <2>8
  <2>10. FileList(inf) = FileLengths(inf) /\ TotalLength(inf) = Sum(FileLengths(inf))
    BY <2>6 DEF FileList, TotalLength
  <2> QED  BY <1>1, <1>2, <2>9, <2>10
<1> QED  BY <1>3, <1>4

\* No step after the parse changes the layout.
LEMMA SameLayout ==
    ASSUME UNCHANGED info
    PROVE  /\ lengths' = lengths /\ Pieces' = Pieces /\ LayoutOK' = LayoutOK
           /\ \A i : PieceStart(i)' = PieceStart(i) /\ PieceEnd(i)' = PieceEnd(i)
BY DEF lengths, Pieces, LayoutOK, PieceStart, PieceEnd

\* The invariant at the start.
LEMMA WriterInit ==
    ASSUME Init
    PROVE  WriterInv
<1>1. info = NoInfo /\ content = <<>> /\ done = {} /\ wpc = "parse" /\ meta \in Dicts
  BY DEF Init
<1>2. info.length = 0 /\ info.files = <<>> /\ info.pieceLength = 1 /\ info.numPieces = 0
  BY <1>1 DEF NoInfo
<1>3. FileLengths(info) = <<>>
  BY <1>2 DEF FileLengths
<1>4. lengths = <<>> /\ TotalLength(info) = Sum(<<>>)
  BY <1>2, <1>3 DEF lengths, FileList, TotalLength
<1>5. lengths \in Seq(Nat) /\ Len(lengths) = 0
  BY <1>4
<1>6. LayoutOK
  BY <1>2, <1>4, <1>5 DEF LayoutOK
<1>7. InPlace(lengths, content)
  <2>1. DOMAIN content = 1 .. 0
    BY <1>1
  <2> QED  BY <1>5, <2>1 DEF InPlace
<1> QED  BY <1>1, <1>4, <1>6, <1>7 DEF WriterInv

\* The files that NewWriter starts with are in place.
LEMMA EmptyInPlace ==
    ASSUME NEW inf, FileList(inf) \in Seq(Nat)
    PROVE  InPlace(FileList(inf), Empty(inf))
<1>1. PICK lens \in Seq(Nat) : lens = FileList(inf)
  OBVIOUS
<1>2. DOMAIN lens = 1 .. Len(lens)
  OBVIOUS
<1>3. Empty(inf) = [f \in 1 .. Len(lens) |-> [o \in 0 .. lens[f] - 1 |-> NoByte]]
  BY <1>1, <1>2 DEF Empty
<1>4. \A f \in 1 .. Len(lens) : \A o \in 0 .. lens[f] - 1 : Empty(inf)[f][o] = NoByte
  BY <1>3
<1> QED  BY <1>1, <1>3, <1>4 DEF InPlace

\* The next segment begins where the written bytes of the piece end, and is a
\* part of the piece.
LEMMA NextSegment ==
    ASSUME WriterInv, wpc = "writing", todo # <<>>
    PROVE  /\ Head(todo) \in Segments(lengths)
           /\ SegBegin(lengths, Head(todo)) = PieceStart(index) + offset
           /\ Head(todo).length \in Nat
           /\ offset + Head(todo).length \in Nat
           /\ offset + Head(todo).length <= PieceSize(info, index)
           /\ PieceStart(index) + (offset + Head(todo).length) = SegEnd(lengths, Head(todo))
           /\ Chain(lengths, Tail(todo), SegEnd(lengths, Head(todo)), PieceEnd(index))
<1>1. LayoutOK /\ WritingOK
  BY DEF WriterInv
<1>2. lengths \in Seq(Nat) /\ index \in Nat /\ offset \in Nat
  BY <1>1 DEF LayoutOK, WritingOK, Pieces
<1>3. PICK p \in Nat, z \in Nat : p = PieceStart(index) /\ z = PieceSize(info, index) /\ PieceEnd(index) = p + z
  <2>1. PieceStart(index) \in Nat /\ PieceSize(info, index) \in Int
        /\ PieceEnd(index) = PieceStart(index) + PieceSize(info, index)
    BY <1>1, <1>2, PieceBounds
  <2>2. PieceSize(info, index) >= 0
    BY <1>1 DEF WritingOK
  <2> QED  BY <2>1, <2>2
<1>4. PICK a \in Nat, e \in Nat : a = p + offset /\ e = p + z /\ a = PieceStart(index) + offset
  BY <1>2, <1>3
<1>5. Chain(lengths, todo, a, e)
  BY <1>1, <1>3, <1>4 DEF WritingOK
<1>6. PICK s : s = Head(todo)
  OBVIOUS
<1>7. /\ s \in Segments(lengths) /\ SegBegin(lengths, s) = a /\ SegEnd(lengths, s) <= e
      /\ Chain(lengths, Tail(todo), SegEnd(lengths, s), e)
  BY <1>2, <1>5, <1>6, ChainShrinks
<1>8. PICK l \in Nat : l = s.length /\ SegEnd(lengths, s) = a + l
  BY <1>2, <1>7, SegmentBounds
<1>9. offset + l \in Nat /\ offset + l <= z /\ p + (offset + l) = a + l
  <2>1. PICK o \in Nat : o = offset
    BY <1>2
  <2>2. a = p + o /\ e = p + z
    BY <1>4, <2>1
  <2>3. a + l <= e
    BY <1>7, <1>8
  <2>4. o + l \in Nat /\ o + l <= z /\ p + (o + l) = a + l
    BY <2>2, <2>3
  <2> QED  BY <2>1, <2>4
<1> QED  BY <1>3, <1>4, <1>6, <1>7, <1>8, <1>9

\* What a write of the first bytes of the next segment does to the files.
LEMMA NextWrite ==
    ASSUME WriterInv, wpc = "writing", todo # <<>>, NEW n \in 0 .. Head(todo).length,
           WriteAt(Head(todo), n)
    PROVE  /\ InPlace(lengths, content')
           /\ \A f \in 1 .. Len(lengths) : \A o \in 0 .. lengths[f] - 1 :
                 content[f][o] # NoByte => content'[f][o] = content[f][o]
           /\ \A a, b \in Int : Covered(lengths, content, a, b) => Covered(lengths, content', a, b)
           /\ Covered(lengths, content', PieceStart(index), PieceStart(index) + (offset + n))
<1>1. PICK s : s = Head(todo)
  OBVIOUS
<1>2. s \in Segments(lengths) /\ SegBegin(lengths, s) = PieceStart(index) + offset
  BY <1>1, NextSegment
<1>3. lengths \in Seq(Nat) /\ InPlace(lengths, content) /\ WritingOK /\ LayoutOK
  BY DEF WriterInv, LayoutOK
<1>4. content' = Written(lengths, content, s, n, SegBegin(lengths, s))
  BY <1>1, <1>2 DEF WriteAt, Written
<1>5. /\ InPlace(lengths, content')
      /\ \A f \in 1 .. Len(lengths) : \A o \in 0 .. lengths[f] - 1 :
            content[f][o] # NoByte => content'[f][o] = content[f][o]
      /\ \A a, b \in Int : Covered(lengths, content, a, b) => Covered(lengths, content', a, b)
      /\ \A a \in Int : Covered(lengths, content, a, SegBegin(lengths, s))
                           => Covered(lengths, content', a, SegBegin(lengths, s) + n)
  <2>1. n \in 0 .. s.length
    BY <1>1
  <2> HIDE <1>1
  <2> QED  BY <1>2, <1>3, <1>4, <2>1, WriteAdds
<1>6. PICK p \in Nat : p = PieceStart(index)
  <2>1. index \in Nat
    BY <1>3 DEF WritingOK, Pieces, LayoutOK
  <2> QED  BY <1>3, <2>1, PieceBounds
<1>7. Covered(lengths, content, p, SegBegin(lengths, s))
  BY <1>2, <1>3, <1>6 DEF WritingOK
<1>8. SegBegin(lengths, s) + n = p + (offset + n)
  <2>1. offset \in Nat /\ n \in Int
    BY <1>3, NextSegment DEF WritingOK
  <2> QED  BY <1>2, <1>6, <2>1
<1>9. Covered(lengths, content', p, p + (offset + n))
  BY <1>5, <1>6, <1>7, <1>8
<1> QED  BY <1>5, <1>6, <1>9

\* Every step keeps the invariant.
LEMMA WriterStep ==
    ASSUME WriterInv, [Next]_vars
    PROVE  WriterInv'
<1>1. /\ meta \in Dicts /\ LayoutOK /\ InPlace(lengths, content) /\ done \subseteq Pieces
      /\ \A i \in done : Covered(lengths, content, PieceStart(i), PieceEnd(i))
      /\ wpc = "parse" => done = {}
      /\ wpc = "writing" => WritingOK
  BY DEF WriterInv
<1>2. \A i \in Pieces : i \in Nat /\ PieceStart(i) \in Int /\ PieceEnd(i) \in Int
  <2>1. Pieces \subseteq Nat
    BY <1>1 DEF Pieces, LayoutOK
  <2> QED  BY <1>1, <2>1, PieceBounds
<1>3. CASE ParseInfo
  <2>1. wpc = "parse" /\ UNCHANGED <<meta, done>> /\ wpc' \in {"ready", "closed"} /\ done = {}
    BY <1>1, <1>3 DEF ParseInfo
  <2>2. CASE Accepts(meta)
    <3>1. info' = ParseUnverified(meta) /\ content' = Empty(info')
      BY <1>3, <2>2 DEF ParseInfo
    <3>2. /\ info'.pieceLength \in Nat \ {0} /\ info'.numPieces \in Nat
          /\ FileList(info') \in Seq(Nat) /\ TotalLength(info') = Sum(FileList(info'))
      BY <1>1, <2>2, <3>1, ParsedLayout
    <3>3. lengths' = FileList(info')
      BY DEF lengths
    <3>4. LayoutOK'
      BY <3>2, <3>3 DEF LayoutOK
    <3>5. InPlace(lengths', content')
      BY <3>1, <3>2, <3>3, EmptyInPlace
    <3> QED  BY <1>1, <2>1, <3>4, <3>5 DEF WriterInv
  <2>3. CASE ~Accepts(meta)
    <3>1. UNCHANGED <<info, content>>
      BY <1>3, <2>3 DEF ParseInfo
    <3>2. lengths' = lengths /\ LayoutOK'
      BY <1>1, <3>1, SameLayout
    <3> QED  BY <1>1, <2>1, <3>1, <3>2 DEF WriterInv
  <2> QED  BY <2>2, <2>3
<1>4. ASSUME UNCHANGED <<meta, info>>, wpc' \in {"ready", "writing", "closed"},
             InPlace(lengths, content'),
             \A a, b \in Int : Covered(lengths, content, a, b) => Covered(lengths, content', a, b),
             done' \subseteq Pieces,
             \A i \in done' \ done : Covered(lengths, content', PieceStart(i), PieceEnd(i)),
             wpc' = "writing" => WritingOK'
      PROVE  WriterInv'
  <2>1. /\ lengths' = lengths /\ Pieces' = Pieces /\ LayoutOK'
        /\ \A i : PieceStart(i)' = PieceStart(i) /\ PieceEnd(i)' = PieceEnd(i)
    BY <1>1, <1>4, SameLayout
  <2>2. \A i \in done' : Covered(lengths, content', PieceStart(i), PieceEnd(i))
    <3> SUFFICES ASSUME NEW i \in done' PROVE Covered(lengths, content', PieceStart(i), PieceEnd(i))
      OBVIOUS
    <3>1. CASE i \in done
      <4>1. PieceStart(i) \in Int /\ PieceEnd(i) \in Int /\ Covered(lengths, content, PieceStart(i), PieceEnd(i))
        BY <1>1, <1>2, <3>1
      <4> QED  BY <1>4, <4>1
    <3>2. CASE i \notin done
      BY <1>4, <3>2
    <3> QED  BY <3>1, <3>2
  <2>3. (\A i \in done : Covered(lengths, content, PieceStart(i), PieceEnd(i)))'
    BY <2>1, <2>2
  <2>4. InPlace(lengths, content)' /\ (done \subseteq Pieces)' /\ (meta \in Dicts)'
    BY <1>1, <1>4, <2>1
  <2> QED  BY <1>4, <2>1, <2>3, <2>4 DEF WriterInv
<1>5. ASSUME NEW i \in Pieces, WritePiece(i) PROVE WriterInv'
  <2>1. /\ UNCHANGED <<meta, info, content, done>> /\ wpc' = "writing" /\ index' = i /\ offset' = 0
        /\ todo' = PieceSegments(i) /\ PieceSize(info, i) >= 0
    BY <1>5 DEF WritePiece
  <2>2. i \in Nat /\ PieceStart(i) \in Nat /\ PieceStart(i) + 0 = PieceStart(i)
    <3>1. i \in Nat
      BY <1>2
    <3>2. PieceStart(i) \in Nat
      BY <1>1, <3>1, PieceBounds
    <3> QED  BY <3>1, <3>2
  <2>3. Chain(lengths, PieceSegments(i), PieceStart(i), PieceEnd(i))
    BY <1>1, <2>1, <2>2, SegmentsExact
  <2>4. Covered(lengths, content, PieceStart(i), PieceStart(i))
    <3>1. \A f \in 1 .. Len(lengths) : \A o \in 0 .. lengths[f] - 1 : Begin(lengths, f) + o \in Int
      <4>1. lengths \in Seq(Nat)
        BY <1>1 DEF LayoutOK
      <4>2. \A f \in 1 .. Len(lengths) : Begin(lengths, f) \in Nat
        BY <4>1, FileBounds
      <4> QED  BY <4>2
    <3> QED  BY <2>2, <3>1 DEF Covered
  <2>5. /\ lengths' = lengths /\ Pieces' = Pieces
        /\ \A j : PieceStart(j)' = PieceStart(j) /\ PieceEnd(j)' = PieceEnd(j)
    BY <2>1, SameLayout
  <2>6. PieceSize(info, index)' = PieceSize(info, i) /\ PieceStart(index)' = PieceStart(i) /\ PieceEnd(index)' = PieceEnd(i)
    BY <2>1 DEF PieceStart, PieceEnd
  <2>7. WritingOK'
    BY <2>1, <2>2, <2>3, <2>4, <2>5, <2>6 DEF WritingOK
  <2> QED  BY <1>1, <1>4, <2>1, <2>7
<1>6. CASE WriteSegment
  <2>1. wpc = "writing" /\ todo # <<>> /\ UNCHANGED <<meta, info, index, done>>
    BY <1>6 DEF WriteSegment
  <2>2. PICK s : s = Head(todo)
    OBVIOUS
  <2>3. /\ s.length \in Nat /\ offset + s.length \in Nat /\ offset + s.length <= PieceSize(info, index)
        /\ PieceStart(index) + (offset + s.length) = SegEnd(lengths, s)
        /\ Chain(lengths, Tail(todo), SegEnd(lengths, s), PieceEnd(index))
    BY <2>1, <2>2, NextSegment
  <2>4. WriteAt(Head(todo), s.length) /\ offset' = offset + s.length /\ todo' = Tail(todo) /\ wpc' = wpc
    BY <1>6, <2>2, <2>3 DEF WriteSegment
  <2>5. s.length \in 0 .. Head(todo).length
    BY <2>2, <2>3
  <2>6. /\ InPlace(lengths, content')
        /\ \A a, b \in Int : Covered(lengths, content, a, b) => Covered(lengths, content', a, b)
        /\ Covered(lengths, content', PieceStart(index), PieceStart(index) + (offset + s.length))
    BY <2>1, <2>4, <2>5, NextWrite
  <2>7. lengths' = lengths /\ Pieces' = Pieces
    BY <2>1, SameLayout
  <2>8. PieceSize(info, index)' = PieceSize(info, index) /\ PieceStart(index)' = PieceStart(index)
        /\ PieceEnd(index)' = PieceEnd(index)
    BY <2>1 DEF PieceStart, PieceEnd
  <2>9. index \in Pieces /\ PieceSize(info, index) >= 0
    BY <1>1, <2>1 DEF WritingOK
  <2>10. WritingOK'
    BY <2>1, <2>3, <2>4, <2>6, <2>7, <2>8, <2>9 DEF WritingOK
  <2> QED  BY <1>1, <1>4, <2>1, <2>4, <2>6, <2>10
<1>7. CASE PieceWritten
  <2>1. /\ wpc = "writing" /\ todo = <<>> /\ done' = done \cup {index} /\ wpc' = "ready"
        /\ UNCHANGED <<meta, info, content>>
    BY <1>7 DEF PieceWritten
  <2>2. index \in Pieces /\ Chain(lengths, todo, PieceStart(index) + offset, PieceEnd(index))
        /\ Covered(lengths, content, PieceStart(index), PieceStart(index) + offset)
    BY <1>1, <2>1 DEF WritingOK
  <2>3. PieceStart(index) + offset = PieceEnd(index)
    BY <2>1, <2>2 DEF Chain
  <2>4. \A i \in done' \ done : Covered(lengths, content', PieceStart(i), PieceEnd(i))
    BY <2>1, <2>2, <2>3
  <2> QED  BY <1>1, <1>4, <2>1, <2>2, <2>4
<1>8. CASE SegmentFails
  <2>1. wpc = "writing" /\ todo # <<>> /\ wpc' = "closed" /\ UNCHANGED <<meta, info, done>>
    BY <1>8 DEF SegmentFails
  <2>2. InPlace(lengths, content')
        /\ \A a, b \in Int : Covered(lengths, content, a, b) => Covered(lengths, content', a, b)
    <3>1. CASE UNCHANGED content
      BY <1>1, <3>1
    <3>2. ASSUME NEW n \in 0 .. Head(todo).length - 1, WriteAt(Head(todo), n)
          PROVE  /\ InPlace(lengths, content')
                 /\ \A a, b \in Int : Covered(lengths, content, a, b) => Covered(lengths, content', a, b)
      <4>1. n \in 0 .. Head(todo).length
        BY <2>1, NextSegment
      <4> QED  BY <2>1, <3>2, <4>1, NextWrite
    <3> QED  BY <1>8, <3>1, <3>2 DEF SegmentFails
  <2> QED  BY <1>1, <1>4, <2>1, <2>2
<1>9. CASE Close
  BY <1>1, <1>4, <1>9 DEF Close
<1>10. CASE UNCHANGED vars
  <2>1. UNCHANGED <<meta, info, wpc, index, todo, offset, content, done>>
    BY <1>10 DEF vars
  <2> QED  BY <2>1 DEF WriterInv, WritingOK, LayoutOK, lengths, Pieces, PieceStart, PieceEnd
<1> QED  BY <1>3, <1>5, <1>6, <1>7, <1>8, <1>9, <1>10 DEF Next, Closed

\* The invariant holds throughout.
LEMMA WriterAlways == Spec => []WriterInv
<1>1. Init => WriterInv
  BY WriterInit
<1>2. WriterInv /\ [Next]_vars => WriterInv'
  BY WriterStep
<1> QED  BY <1>1, <1>2, PTL DEF Spec

\* Every position before the end of the last hash is in a piece.
LEMMA PieceOf ==
    ASSUME LayoutOK, NEW b \in Nat, b < PieceStart(info.numPieces), b < Sum(lengths)
    PROVE  \E i \in Pieces : PieceStart(i) <= b /\ b < PieceEnd(i)
<1>1. PICK m \in Nat \ {0}, n \in Nat : m = info.pieceLength /\ n = info.numPieces
  BY DEF LayoutOK
<1>2. PICK k \in Int : k = b \div m
  OBVIOUS
<1>3. b % m \in Int /\ 0 <= b % m /\ b % m < m /\ b = m * k + (b % m)
  BY <1>2
<1>4. m * k <= b /\ b < m * k + m
  BY <1>2, <1>3
<1>5. b < m * n
  BY <1>1 DEF PieceStart
<1>6. k >= 0
  <2>1. ASSUME k < 0 PROVE FALSE
    <3>1. k + 1 <= 0 /\ m * (k + 1) <= 0
      BY <1>2, <2>1
    <3>2. m * (k + 1) = m * k + m
      BY <1>2
    <3> QED  BY <1>2, <1>4, <3>1, <3>2
  <2> QED  BY <1>2, <2>1
<1>7. k < n
  <2>1. ASSUME k >= n PROVE FALSE
    <3>1. m * (k - n) >= 0
      BY <1>2, <2>1
    <3>2. m * (k - n) = m * k - m * n
      BY <1>2
    <3> QED  BY <1>2, <1>4, <1>5, <3>1, <3>2
  <2> QED  BY <1>2, <2>1
<1>8. k \in Nat /\ k \in Pieces
  BY <1>1, <1>2, <1>6, <1>7 DEF Pieces
<1>9. PieceStart(k) = m * k
  BY <1>1, <1>2 DEF PieceStart
<1>10. PieceEnd(k) = Sum(lengths) \/ PieceEnd(k) = PieceStart(k) + m
  BY <1>1, <1>8, PieceBounds
<1>11. PieceStart(k) <= b /\ b < PieceEnd(k)
  BY <1>2, <1>4, <1>9, <1>10
<1> QED  BY <1>8, <1>11

\* As many hashes as the data has pieces reach to its end.
LEMMA HashesReachEnd ==
    ASSUME LayoutOK, HashesFit(info)
    PROVE  Sum(lengths) <= PieceStart(info.numPieces)
<1>1. PICK m \in Nat \ {0}, n \in Nat : m = info.pieceLength /\ n = info.numPieces
  BY DEF LayoutOK
<1>2. PICK total \in Nat : total = Sum(lengths) /\ total = TotalLength(info)
  <2>1. lengths \in Seq(Nat) /\ TotalLength(info) = Sum(lengths)
    BY DEF LayoutOK
  <2>2. Len(lengths) \in 0 .. Len(lengths)
    BY <2>1
  <2>3. Sum(lengths) \in Nat
    BY <2>1, <2>2, SumsLoop DEF Sum
  <2> QED  BY <2>1, <2>3
<1>3. PICK a \in Nat : a = total + m - 1
  OBVIOUS
<1>4. n = a \div m
  BY <1>1, <1>2, <1>3 DEF HashesFit
<1>5. a % m \in Int /\ a % m < m /\ a = m * n + (a % m)
  BY <1>4
<1>6. total <= m * n
  BY <1>3, <1>5
<1>7. PieceStart(info.numPieces) = m * n
  BY <1>1 DEF PieceStart
<1> QED  BY <1>2, <1>6, <1>7

\* WriteAt puts every byte where it belongs, for every layout of the files and
\* also when a WritePiece fails between two segments or inside one.
THEOREM BytesInPlaceHolds == Spec => []BytesInPlace
<1>1. WriterInv => BytesInPlace
  <2> SUFFICES ASSUME WriterInv PROVE BytesInPlace
    OBVIOUS
  <2>1. InPlace(lengths, content) /\ lengths \in Seq(Nat)
    BY DEF WriterInv, LayoutOK
  <2>2. Files = 1 .. Len(lengths)
    BY <2>1 DEF Files
  <2> QED  BY <2>1, <2>2 DEF InPlace, BytesInPlace, FileOffset, Begin
<1> QED  BY <1>1, WriterAlways, PTL

\* WritePiece slices its data exactly: pieceSegments ends where the piece ends,
\* no slice panics and none leaves its file.
THEOREM DataUsedExactlyHolds == Spec => []DataUsedExactly
<1>1. WriterInv => DataUsedExactly
  <2> SUFFICES ASSUME WriterInv PROVE DataUsedExactly
    OBVIOUS
  <2>1. wpc # "panic" /\ LayoutOK /\ lengths \in Seq(Nat)
    BY DEF WriterInv, LayoutOK
  <2>2. ASSUME wpc = "writing", todo = <<>> PROVE offset = PieceSize(info, index)
    <3>1. WritingOK
      BY <2>2 DEF WriterInv
    <3>2. index \in Nat /\ offset \in Nat
      BY <2>1, <3>1 DEF WritingOK, Pieces, LayoutOK
    <3>3. PieceStart(index) + offset = PieceEnd(index)
      BY <2>2, <3>1 DEF WritingOK, Chain
    <3>4. PieceStart(index) \in Nat /\ PieceSize(info, index) \in Int
          /\ PieceEnd(index) = PieceStart(index) + PieceSize(info, index)
      BY <2>1, <3>2, PieceBounds
    <3> QED  BY <3>2, <3>3, <3>4
  <2>3. ASSUME wpc = "writing", NEW k \in 1 .. Len(todo)
        PROVE  todo[k].offset + todo[k].length <= lengths[todo[k].file]
    <3>1. PICK S : S = Segments(lengths)
      OBVIOUS
    <3>2. todo \in Seq(S)
      BY <2>3, <3>1 DEF WriterInv, WritingOK, Chain
    <3>3. todo[k] \in S
      BY <3>2
    <3> QED  BY <3>1, <3>3 DEF Segments
  <2> QED  BY <2>1, <2>2, <2>3 DEF DataUsedExactly
<1> QED  BY <1>1, WriterAlways, PTL

\* A download whose pieces are all written has left no hole in a file, up to
\* the end of the last hash: none at all when the hashes fit the length.
THEOREM FilesCompleteHolds == Spec => []FilesComplete
<1>1. WriterInv => FilesComplete
  <2> SUFFICES ASSUME WriterInv, done = Pieces, NEW f \in Files, NEW o \in 0 .. lengths[f] - 1
               PROVE  /\ content[f][o] = NoByte => FileOffset(f) + o >= PieceStart(info.numPieces)
                      /\ HashesFit(info) => content[f][o] # NoByte
    BY DEF FilesComplete
  <2>1. LayoutOK /\ lengths \in Seq(Nat)
    BY DEF WriterInv, LayoutOK
  <2>2. f \in 1 .. Len(lengths)
    BY <2>1 DEF Files
  <2>3. PICK g \in Nat, h \in Nat, total \in Nat :
           g = Begin(lengths, f) /\ h = lengths[f] /\ total = Sum(lengths) /\ g + h <= total
    BY <2>1, <2>2, FileBounds
  <2>4. PICK b \in Nat : b = Begin(lengths, f) + o /\ b < total
    <3>1. o \in Nat /\ o < h
      BY <2>3
    <3>2. g + o \in Nat /\ g + o < total
      BY <2>3, <3>1
    <3> QED  BY <2>3, <3>2
  <2>5. FileOffset(f) + o = b
    BY <2>4 DEF FileOffset, Begin
  <2>6. PICK e \in Nat : e = PieceStart(info.numPieces)
    <3>1. info.numPieces \in Nat
      BY <2>1 DEF LayoutOK
    <3> QED  BY <2>1, <3>1, PieceBounds
  <2>7. ASSUME b < e PROVE content[f][o] # NoByte
    <3>1. PICK i \in Pieces : PieceStart(i) <= b /\ b < PieceEnd(i)
      BY <2>1, <2>3, <2>4, <2>6, <2>7, PieceOf
    <3>2. Covered(lengths, content, PieceStart(i), PieceEnd(i))
      BY <3>1 DEF WriterInv
    <3> QED  BY <2>2, <2>4, <3>1, <3>2 DEF Covered
  <2>8. HashesFit(info) => b < e
    <3>1. HashesFit(info) => total <= e
      BY <2>1, <2>3, <2>6, HashesReachEnd
    <3> QED  BY <2>3, <2>4, <2>6, <3>1
  <2>9. b >= e \/ b < e
    BY <2>4, <2>6
  <2> QED  BY <2>5, <2>6, <2>7, <2>8, <2>9
<1> QED  BY <1>1, WriterAlways, PTL

\* A byte that is on disk is never changed again: no WritePiece, also none of
\* another piece with a segment in the same file, writes over it.
BytesStay ==
    [][\A f \in Files : \A o \in 0 .. lengths[f] - 1 :
          content[f][o] # NoByte => content'[f][o] = content[f][o]]_vars

\* No step of the writer changes a byte that is on disk (BytesStay), for every
\* layout and with failed writes.
THEOREM BytesStayHolds == Spec => BytesStay
<1> DEFINE Stay == \A f \in Files : \A o \in 0 .. lengths[f] - 1 :
                      content[f][o] # NoByte => content'[f][o] = content[f][o]
<1>1. WriterInv /\ [Next]_vars => [Stay]_vars
  <2> SUFFICES ASSUME WriterInv, [Next]_vars PROVE [Stay]_vars
    OBVIOUS
  <2>1. lengths \in Seq(Nat)
    BY DEF WriterInv, LayoutOK
  <2>2. Files = 1 .. Len(lengths)
    BY <2>1 DEF Files
  <2>3. CASE UNCHANGED content
    BY <2>3
  <2>4. ASSUME wpc = "writing", todo # <<>>, NEW n \in 0 .. Head(todo).length, WriteAt(Head(todo), n)
        PROVE  Stay
    BY <2>2, <2>4, NextWrite
  <2>5. CASE WriteSegment
    <3>1. wpc = "writing" /\ todo # <<>>
      BY <2>5 DEF WriteSegment
    <3>2. Head(todo).length \in Nat
      BY <3>1, NextSegment
    <3>3. Head(todo).length \in 0 .. Head(todo).length
      BY <3>2
    <3>4. WriteAt(Head(todo), Head(todo).length) \/ UNCHANGED content
      BY <2>5 DEF WriteSegment
    <3> QED  BY <2>3, <2>4, <3>1, <3>3, <3>4
  <2>6. CASE SegmentFails
    <3>1. wpc = "writing" /\ todo # <<>>
      BY <2>6 DEF SegmentFails
    <3>2. Head(todo).length \in Nat
      BY <3>1, NextSegment
    <3>3. UNCHANGED content \/ \E n \in 0 .. Head(todo).length - 1 : WriteAt(Head(todo), n)
      BY <2>6 DEF SegmentFails
    <3>4. \A n \in 0 .. Head(todo).length - 1 : n \in 0 .. Head(todo).length
      BY <3>2
    <3> QED  BY <2>3, <2>4, <3>1, <3>3, <3>4
  <2>7. CASE ParseInfo
    <3>1. lengths = <<>>
      BY <2>7 DEF ParseInfo, WriterInv
    <3>2. Files = {}
      BY <2>2, <3>1
    <3> QED  BY <3>2
  <2>8. ASSUME NEW i \in Pieces, WritePiece(i) PROVE Stay
    BY <2>3, <2>8 DEF WritePiece
  <2>9. CASE PieceWritten \/ Close \/ UNCHANGED vars
    BY <2>3, <2>9 DEF PieceWritten, Close, vars
  <2> QED  BY <2>5, <2>6, <2>7, <2>8, <2>9 DEF Next, Closed
<1> QED  BY <1>1, WriterAlways, PTL DEF BytesStay, Spec
=============================================================================
