-------------------------- MODULE DiscoveryProofs ---------------------------
(***************************************************************************)
(* Proofs about modules Discovery and Tracker, for every set of trackers,  *)
(* every list of peers they and the DHT may return, every buffer and every *)
(* capacity of sem.                                                        *)
(***************************************************************************)
EXTENDS Discovery, FiniteSetTheorems, FunctionTheorems, SequenceTheorems,
        WellFoundedInduction, TLAPS

-----------------------------------------------------------------------------
(* Loops                                                                   *)

\* A set of numbers has a least element.
LEMMA LeastNumber ==
    ASSUME NEW T \in SUBSET Nat, T # {}
    PROVE  \E x \in T : \A y \in T : x <= y
<1> DEFINE R == OpToRel(<, Nat)
<1>1. IsWellFoundedOn(R, Nat)
  BY NatLessThanWellFounded
<1>2. \A x, y \in Nat : <<x, y>> \in R <=> x < y
  BY DEF OpToRel
<1> HIDE DEF R
<1>3. PICK x \in T : \A y \in T : ~(<<y, x>> \in R)
  BY <1>1, WFMin
<1>4. \A y \in T : x \in Nat /\ y \in Nat /\ ~(y < x)
  BY <1>2, <1>3
<1> QED  BY <1>3, <1>4

\* What holds at the start of a loop and is kept by every turn holds at its end.
LEMMA LoopInvariant ==
    ASSUME NEW L \in Nat, NEW good \in SUBSET (0 .. L), 0 \in good,
           \A n \in 1 .. L : n - 1 \in good => n \in good
    PROVE  good = 0 .. L
<1> DEFINE bad == (0 .. L) \ good
<1>1. ASSUME bad # {} PROVE FALSE
  <2>1. PICK m \in bad : \A y \in bad : m <= y
    <3>1. bad \in SUBSET Nat
      OBVIOUS
    <3> HIDE DEF bad
    <3> QED  BY <1>1, <3>1, LeastNumber
  <2>2. m \in 1 .. L
    BY <2>1
  <2>3. m - 1 \in 0 .. L /\ m - 1 < m
    BY <2>2
  <2>4. m - 1 \in good
    BY <2>1, <2>2, <2>3
  <2> QED  BY <2>1, <2>2, <2>4
<1> QED  BY <1>1

\* The values that a variable takes in a loop of L turns.
LoopOf(f, L, A, start, step) ==
    /\ f \in [0 .. L -> A]
    /\ f[0] = start
    /\ \A n \in 1 .. L : f[n] = step[<<n, f[n - 1]>>]

\* Every loop runs.
LEMMA LoopRuns ==
    ASSUME NEW L \in Nat, NEW A, NEW start \in A, NEW step \in [(1 .. L) \X A -> A]
    PROVE  \E f : LoopOf(f, L, A, start, step)
<1> DEFINE good == {m \in 0 .. L : \E f : LoopOf(f, m, A, start, step)}
<1>1. 0 \in good
  <2>1. LoopOf([n \in 0 .. 0 |-> start], 0, A, start, step)
    BY DEF LoopOf
  <2> QED  BY <2>1
<1>2. ASSUME NEW m \in 1 .. L, m - 1 \in good PROVE m \in good
  <2>1. PICK f : LoopOf(f, m - 1, A, start, step)
    BY <1>2
  <2>2. f \in [0 .. m - 1 -> A] /\ f[m - 1] \in A
    BY <2>1 DEF LoopOf
  <2>3. PICK v \in A : v = step[<<m, f[m - 1]>>]
    BY <2>2
  <2> DEFINE h == [n \in 0 .. m |-> IF n = m THEN v ELSE f[n]]
  <2>4. h \in [0 .. m -> A] /\ h[0] = start /\ h[m] = v /\ \A n \in 0 .. m - 1 : h[n] = f[n]
    BY <2>1, <2>2 DEF LoopOf
  <2>5. \A n \in 1 .. m : h[n] = step[<<n, h[n - 1]>>]
    <3> SUFFICES ASSUME NEW n \in 1 .. m PROVE h[n] = step[<<n, h[n - 1]>>]
      OBVIOUS
    <3>1. n - 1 \in 0 .. m - 1 /\ h[n - 1] = f[n - 1]
      BY <2>4
    <3>2. CASE n = m
      BY <2>3, <2>4, <3>1, <3>2
    <3>3. CASE n \in 1 .. m - 1
      BY <2>1, <2>4, <3>1, <3>3 DEF LoopOf
    <3> QED  BY <3>2, <3>3
  <2> HIDE DEF h
  <2>6. LoopOf(h, m, A, start, step)
    BY <2>4, <2>5 DEF LoopOf
  <2> QED  BY <2>6
<1>3. good = 0 .. L
  <2> HIDE DEF good
  <2>1. good \in SUBSET (0 .. L)
    BY DEF good
  <2> QED  BY <1>1, <1>2, <2>1, LoopInvariant
<1> QED  BY <1>3

-----------------------------------------------------------------------------
(* Sequences                                                               *)

Elements(s) == {s[i] : i \in 1 .. Len(s)}

\* A sequence is one over the set of its elements.
LEMMA SeqOfElements ==
    ASSUME NEW s, IsSeq(s), NEW R, Elements(s) \subseteq R
    PROVE  s \in Seq(R)
  BY DEF IsSeq, Elements

\* Whatever its elements are, a member of Seq is a sequence.
LEMMA SeqIsSeq ==
    ASSUME NEW R, NEW s \in Seq(R)
    PROVE  IsSeq(s) /\ Elements(s) \subseteq R /\ DOMAIN s = 1 .. Len(s)
  BY DEF IsSeq, Elements

\* The concatenation of sequences.
LEMMA ConcatIsSeq ==
    ASSUME NEW s, IsSeq(s), NEW t, IsSeq(t)
    PROVE  IsSeq(s \o t) /\ Len(s \o t) = Len(s) + Len(t) /\ Elements(s \o t) = Elements(s) \cup Elements(t)
<1> DEFINE R == Elements(s) \cup Elements(t)
<1>1. s \in Seq(R) /\ t \in Seq(R)
  <2>1. Elements(s) \subseteq R /\ Elements(t) \subseteq R
    OBVIOUS
  <2> HIDE DEF R
  <2> QED  BY <2>1, SeqOfElements
<1> HIDE DEF R
<1>2. /\ s \o t \in Seq(R) /\ Len(s \o t) = Len(s) + Len(t)
      /\ \A i \in 1 .. Len(s) + Len(t) : (s \o t)[i] = IF i <= Len(s) THEN s[i] ELSE t[i - Len(s)]
  BY <1>1
<1>3. IsSeq(s \o t) /\ Elements(s \o t) \subseteq R
  BY <1>2, SeqIsSeq
<1>4. PICK c : c = s \o t
  OBVIOUS
<1>5. \A i \in 1 .. Len(s) : s[i] = c[i] /\ i \in 1 .. Len(c)
  BY <1>1, <1>2, <1>4
<1>6. \A i \in 1 .. Len(t) : t[i] = c[i + Len(s)] /\ i + Len(s) \in 1 .. Len(c)
  BY <1>1, <1>2, <1>4
<1>7. Elements(s) \subseteq Elements(c) /\ Elements(t) \subseteq Elements(c)
  BY <1>5, <1>6 DEF Elements
<1> QED  BY <1>2, <1>3, <1>4, <1>7 DEF R

\* Appending a peer.
LEMMA AppendIsSeq ==
    ASSUME NEW s, IsSeq(s), NEW x
    PROVE  /\ IsSeq(Append(s, x)) /\ Len(Append(s, x)) = Len(s) + 1
           /\ \A i \in 1 .. Len(s) : Append(s, x)[i] = s[i]
           /\ Append(s, x)[Len(s) + 1] = x
<1> DEFINE R == Elements(s) \cup {x}
<1>1. s \in Seq(R) /\ x \in R
  <2>1. Elements(s) \subseteq R /\ x \in R
    OBVIOUS
  <2> HIDE DEF R
  <2> QED  BY <2>1, SeqOfElements
<1> HIDE DEF R
<1>2. /\ Append(s, x) \in Seq(R) /\ Len(Append(s, x)) = Len(s) + 1
      /\ \A i \in 1 .. Len(s) : Append(s, x)[i] = s[i]
      /\ Append(s, x)[Len(s) + 1] = x
  BY <1>1
<1>3. IsSeq(Append(s, x))
  BY <1>2, SeqIsSeq
<1> QED  BY <1>2, <1>3

-----------------------------------------------------------------------------
(* dedupPeers                                                              *)

Apart(s) == \A i, j \in 1 .. Len(s) : Addr(s[i]) = Addr(s[j]) => i = j
AddrsUpTo(s, n) == {Addr(s[i]) : i \in 1 .. n}

\* The addresses of a list.
LEMMA AddrsOfSeq ==
    ASSUME NEW s, IsSeq(s)
    PROVE  AddrsOf(s) = AddrsUpTo(s, Len(s))
  BY DEF AddrsOf, AddrsUpTo, IsSeq

\* One turn of the loop adds an address that is not there yet.
LEMMA AddPeerAdds ==
    ASSUME NEW s, IsSeq(s), Apart(s), NEW p
    PROVE  /\ IsSeq(AddPeer(s, p)) /\ Apart(AddPeer(s, p))
           /\ AddrsOf(AddPeer(s, p)) = AddrsOf(s) \cup {Addr(p)}
<1>1. CASE Addr(p) \in AddrsOf(s)
  BY <1>1 DEF AddPeer
<1>2. CASE Addr(p) \notin AddrsOf(s)
  <2>1. PICK c : c = Append(s, p)
    OBVIOUS
  <2>2. AddPeer(s, p) = c
    BY <1>2, <2>1 DEF AddPeer
  <2>3. PICK n \in Nat : n = Len(s)
    BY DEF IsSeq
  <2>4. IsSeq(c) /\ Len(c) = n + 1 /\ (\A i \in 1 .. n : c[i] = s[i]) /\ c[n + 1] = p
    BY <2>1, <2>3, AppendIsSeq
  <2>5. AddrsOf(s) = AddrsUpTo(s, n) /\ AddrsOf(c) = AddrsUpTo(c, n + 1)
    BY <2>3, <2>4, AddrsOfSeq
  <2>6. AddrsUpTo(c, n + 1) = AddrsUpTo(s, n) \cup {Addr(p)}
    <3>1. \A i \in 1 .. n + 1 : i \in 1 .. n \/ i = n + 1
      BY <2>3
    <3>2. ASSUME NEW a \in AddrsUpTo(c, n + 1) PROVE a \in AddrsUpTo(s, n) \cup {Addr(p)}
      BY <2>4, <3>1 DEF AddrsUpTo
    <3>3. ASSUME NEW a \in AddrsUpTo(s, n) PROVE a \in AddrsUpTo(c, n + 1)
      BY <2>3, <2>4 DEF AddrsUpTo
    <3>4. Addr(p) \in AddrsUpTo(c, n + 1)
      BY <2>3, <2>4 DEF AddrsUpTo
    <3> QED  BY <3>2, <3>3, <3>4
  <2>7. \A i \in 1 .. n : Addr(s[i]) # Addr(p)
    BY <1>2, <2>5 DEF AddrsUpTo
  <2>8. Apart(c)
    <3> SUFFICES ASSUME NEW i \in 1 .. n + 1, NEW j \in 1 .. n + 1, Addr(c[i]) = Addr(c[j])
                 PROVE  i = j
      BY <2>4 DEF Apart
    <3>1. CASE i \in 1 .. n /\ j \in 1 .. n
      BY <2>3, <2>4, <3>1 DEF Apart
    <3>2. CASE i \in 1 .. n /\ j = n + 1
      BY <2>4, <2>7, <3>2
    <3>3. CASE j \in 1 .. n /\ i = n + 1
      BY <2>4, <2>7, <3>3
    <3> QED  BY <2>3, <3>1, <3>2, <3>3
  <2> QED  BY <2>2, <2>4, <2>5, <2>6, <2>8
<1> QED  BY <1>1, <1>2

\* The loop of dedupPeers and its result.
LEMMA DedupLoop ==
    ASSUME NEW existing, IsSeq(existing), NEW new, IsSeq(new)
    PROVE  \E f : /\ f[0] = existing
                  /\ \A n \in 1 .. Len(new) : f[n] = AddPeer(f[n - 1], new[n])
                  /\ dedupPeers(existing, new) = f[Len(new)]
<1>1. PICK L \in Nat : L = Len(new)
  BY DEF IsSeq
<1>2. PICK R : R = Elements(existing) \cup Elements(new)
  OBVIOUS
<1>3. existing \in Seq(R) /\ new \in Seq(R)
  <2>1. Elements(existing) \subseteq R /\ Elements(new) \subseteq R
    BY <1>2
  <2> QED  BY <2>1, SeqOfElements
<1>4. \A n \in 1 .. L : new[n] \in R
  BY <1>1, <1>3
<1> DEFINE step == [x \in (1 .. L) \X Seq(R) |-> AddPeer(x[2], new[x[1]])]
<1>5. step \in [(1 .. L) \X Seq(R) -> Seq(R)]
  <2> SUFFICES ASSUME NEW x \in (1 .. L) \X Seq(R) PROVE AddPeer(x[2], new[x[1]]) \in Seq(R)
    OBVIOUS
  <2>1. x[2] \in Seq(R) /\ new[x[1]] \in R
    BY <1>4
  <2>2. Append(x[2], new[x[1]]) \in Seq(R)
    BY <2>1
  <2> QED  BY <2>1, <2>2 DEF AddPeer
<1>6. \A n \in 1 .. L, s \in Seq(R) : step[<<n, s>>] = AddPeer(s, new[n])
  OBVIOUS
<1> HIDE DEF step
<1>7. PICK f : LoopOf(f, L, Seq(R), existing, step)
  BY <1>3, <1>5, LoopRuns
<1>8. f \in [0 .. L -> Seq(R)] /\ f[0] = existing
  BY <1>7 DEF LoopOf
<1>9. \A n \in 1 .. L : f[n] = AddPeer(f[n - 1], new[n])
  <2> SUFFICES ASSUME NEW n \in 1 .. L PROVE f[n] = AddPeer(f[n - 1], new[n])
    OBVIOUS
  <2>1. n - 1 \in 0 .. L
    OBVIOUS
  <2>2. f[n - 1] \in Seq(R)
    BY <1>8, <2>1
  <2>3. f[n] = step[<<n, f[n - 1]>>]
    BY <1>7 DEF LoopOf
  <2> QED  BY <1>6, <2>2, <2>3
<1> DEFINE Body(h) == [n \in 0 .. Len(new) |-> IF n = 0 THEN existing ELSE AddPeer(h[n - 1], new[n])]
           list == CHOOSE h : h = Body(h)
<1>10. f = Body(f)
  <2>1. \A n \in 0 .. L : f[n] = IF n = 0 THEN existing ELSE AddPeer(f[n - 1], new[n])
    BY <1>8, <1>9
  <2> QED  BY <1>1, <1>8, <2>1
<1>11. list = Body(list)
  <2> HIDE DEF Body
  <2> QED  BY <1>10
<1>12. dedupPeers(existing, new) = list[Len(new)]
  BY DEF dedupPeers
<1> HIDE DEF list
<1>13. list[0] = existing /\ \A n \in 1 .. L : list[n] = AddPeer(list[n - 1], new[n])
  BY <1>1, <1>11
<1> QED  BY <1>1, <1>12, <1>13

\* dedupPeers adds every new address once and keeps the ones there are.
LEMMA DedupExact ==
    ASSUME NEW existing, IsSeq(existing), Apart(existing), NEW new, IsSeq(new)
    PROVE  /\ IsSeq(dedupPeers(existing, new)) /\ Apart(dedupPeers(existing, new))
           /\ AddrsOf(dedupPeers(existing, new)) = AddrsOf(existing) \cup AddrsOf(new)
<1>1. PICK L \in Nat : L = Len(new)
  BY DEF IsSeq
<1>2. PICK f : /\ f[0] = existing
               /\ \A n \in 1 .. L : f[n] = AddPeer(f[n - 1], new[n])
               /\ dedupPeers(existing, new) = f[L]
  BY <1>1, DedupLoop
<1> DEFINE Done(n) == /\ IsSeq(f[n]) /\ Apart(f[n])
                      /\ AddrsOf(f[n]) = AddrsOf(existing) \cup AddrsUpTo(new, n)
           good == {n \in 0 .. L : Done(n)}
<1>3. Done(0)
  BY <1>2 DEF AddrsUpTo
<1>4. ASSUME NEW n \in 1 .. L, Done(n - 1) PROVE Done(n)
  <2>1. /\ IsSeq(f[n]) /\ Apart(f[n])
        /\ AddrsOf(f[n]) = AddrsOf(f[n - 1]) \cup {Addr(new[n])}
    BY <1>2, <1>4, AddPeerAdds
  <2>2. AddrsUpTo(new, n) = AddrsUpTo(new, n - 1) \cup {Addr(new[n])}
    <3>1. \A i \in 1 .. n : i \in 1 .. n - 1 \/ i = n
      OBVIOUS
    <3>2. \A i \in 1 .. n - 1 : i \in 1 .. n
      OBVIOUS
    <3>3. n \in 1 .. n
      OBVIOUS
    <3> QED  BY <3>1, <3>2, <3>3 DEF AddrsUpTo
  <2> QED  BY <1>4, <2>1, <2>2
<1> HIDE DEF Done
<1>5. good = 0 .. L
  <2>1. good \in SUBSET (0 .. L) /\ 0 \in good
    BY <1>3
  <2>2. \A n \in 1 .. L : n - 1 \in good => n \in good
    BY <1>4
  <2> HIDE DEF good
  <2> QED  BY <2>1, <2>2, LoopInvariant
<1>6. Done(L)
  BY <1>5
<1>7. AddrsOf(new) = AddrsUpTo(new, L)
  BY <1>1, AddrsOfSeq
<1> QED  BY <1>2, <1>6, <1>7 DEF Done

\* A list without duplicates is as long as the set of its addresses.
LEMMA ApartCount ==
    ASSUME NEW s, IsSeq(s), Apart(s)
    PROVE  IsFiniteSet(AddrsOf(s)) /\ Cardinality(AddrsOf(s)) = Len(s)
<1>1. PICK n \in Nat : n = Len(s)
  BY DEF IsSeq
<1>2. AddrsOf(s) = AddrsUpTo(s, n)
  BY <1>1, AddrsOfSeq
<1> DEFINE f == [i \in 1 .. n |-> Addr(s[i])]
<1>3. \A a \in AddrsUpTo(s, n) : \E i \in 1 .. n : Addr(s[i]) = a
  BY DEF AddrsUpTo
<1>4. \A i \in 1 .. n : Addr(s[i]) \in AddrsUpTo(s, n)
  BY DEF AddrsUpTo
<1>5. f \in Bijection(1 .. n, AddrsUpTo(s, n))
  BY <1>1, <1>3, <1>4 DEF Apart, Bijection, Injection, Surjection, IsInjective
<1>6. ExistsBijection(1 .. n, AddrsUpTo(s, n))
  BY <1>5 DEF ExistsBijection
<1>7. IsFiniteSet(1 .. n) /\ Cardinality(1 .. n) = n
  BY FS_Interval
<1> QED  BY <1>1, <1>2, <1>6, <1>7, FS_Bijection

-----------------------------------------------------------------------------
(* The formats of a peer list                                              *)

\* A compact list gives a list of peers, or none.
LEMMA CompactIsSeq ==
    ASSUME NEW data, Len(data) \in Nat
    PROVE  IsSeq(ParseCompactPeers(data).peers)
<1>1. CASE Len(data) % 2 # 0
  <2>1. ParseCompactPeers(data).peers = <<>>
    BY <1>1 DEF ParseCompactPeers, Error
  <2> QED  BY <2>1 DEF IsSeq
<1>2. CASE Len(data) % 2 = 0
  <2>1. PICK n \in Nat : n = Len(data) \div 2
    <3>1. \A k \in Nat : k \div 2 \in Nat
      OBVIOUS
    <3> QED  BY <3>1
  <2>2. PICK q : q = [i \in 1 .. n |-> Peer(data[2 * i - 1], 4, data[2 * i])]
    OBVIOUS
  <2>3. ParseCompactPeers(data).peers = q
    BY <1>2, <2>1, <2>2 DEF ParseCompactPeers, OK
  <2>4. q = [i \in 1 .. n |-> q[i]]
    BY <2>2
  <2>5. Len(q) = n
    BY <2>4
  <2> QED  BY <2>3, <2>4, <2>5 DEF IsSeq
<1> QED  BY <1>1, <1>2

\* So does a list of dictionaries.
LEMMA DictIsSeq ==
    ASSUME NEW list, IsSeq(list)
    PROVE  IsSeq(ParseDictPeers(list).peers)
<1>1. PICK L \in Nat : L = Len(list)
  BY DEF IsSeq
<1> DEFINE New(d) == ParseIP(d.ip, d.port % PortMod)
           R == {New(list[i]) : i \in 1 .. L}
           step == [x \in (1 .. L) \X Seq(R) |-> AddEntry(x[2], list[x[1]])]
<1>2. \A n \in 1 .. L : New(list[n]) \in R
  OBVIOUS
<1> HIDE DEF R
<1>3. \A n \in 1 .. L, s \in Seq(R) : AddEntry(s, list[n]) \in Seq(R)
  <2> SUFFICES ASSUME NEW n \in 1 .. L, NEW s \in Seq(R) PROVE AddEntry(s, list[n]) \in Seq(R)
    OBVIOUS
  <2>1. AddEntry(s, list[n]) = s \/ AddEntry(s, list[n]) = Append(s, New(list[n]))
    BY DEF AddEntry
  <2>2. PICK p \in R : p = New(list[n])
    BY <1>2
  <2>3. Append(s, p) \in Seq(R)
    OBVIOUS
  <2> QED  BY <2>1, <2>2, <2>3
<1>4. step \in [(1 .. L) \X Seq(R) -> Seq(R)]
  BY <1>3
<1>5. \A n \in 1 .. L, s \in Seq(R) : step[<<n, s>>] = AddEntry(s, list[n])
  OBVIOUS
<1>6. <<>> \in Seq(R)
  OBVIOUS
<1> HIDE DEF step
<1>7. PICK f : LoopOf(f, L, Seq(R), <<>>, step)
  BY <1>4, <1>6, LoopRuns
<1>8. f \in [0 .. L -> Seq(R)] /\ f[0] = <<>>
  BY <1>7 DEF LoopOf
<1>9. \A n \in 1 .. L : f[n] = AddEntry(f[n - 1], list[n])
  <2> SUFFICES ASSUME NEW n \in 1 .. L PROVE f[n] = AddEntry(f[n - 1], list[n])
    OBVIOUS
  <2>1. n - 1 \in 0 .. L
    OBVIOUS
  <2>2. f[n - 1] \in Seq(R)
    BY <1>8, <2>1
  <2>3. f[n] = step[<<n, f[n - 1]>>]
    BY <1>7 DEF LoopOf
  <2> QED  BY <1>5, <2>2, <2>3
<1> DEFINE Body(h) == [n \in 0 .. Len(list) |-> IF n = 0 THEN <<>> ELSE AddEntry(h[n - 1], list[n])]
           peers == CHOOSE h : h = Body(h)
<1>10. f = Body(f)
  <2>1. \A n \in 0 .. L : f[n] = IF n = 0 THEN <<>> ELSE AddEntry(f[n - 1], list[n])
    BY <1>8, <1>9
  <2> QED  BY <1>1, <1>8, <2>1
<1>11. peers = Body(peers)
  <2> HIDE DEF Body
  <2> QED  BY <1>10
<1>12. ParseDictPeers(list).peers = peers[Len(list)]
  BY DEF ParseDictPeers, OK
<1> HIDE DEF peers
<1>13. peers[0] = <<>> /\ \A n \in 1 .. L : peers[n] = AddEntry(peers[n - 1], list[n])
  BY <1>1, <1>11
<1> DEFINE good == {n \in 0 .. L : peers[n] \in Seq(R)}
<1>14. good = 0 .. L
  <2>1. good \in SUBSET (0 .. L) /\ 0 \in good
    <3>1. peers[0] \in Seq(R) /\ 0 \in 0 .. L
      BY <1>6, <1>13
    <3> QED  BY <3>1
  <2>2. ASSUME NEW n \in 1 .. L, n - 1 \in good PROVE n \in good
    <3>1. peers[n - 1] \in Seq(R)
      BY <2>2
    <3>2. peers[n] = AddEntry(peers[n - 1], list[n])
      BY <1>13
    <3>3. peers[n] \in Seq(R)
      BY <1>3, <3>1, <3>2
    <3> QED  BY <3>3
  <2> HIDE DEF good
  <2> QED  BY <2>1, <2>2, LoopInvariant
<1>15. peers[L] \in Seq(R)
  BY <1>14
<1> QED  BY <1>1, <1>12, <1>15, SeqIsSeq

\* Whatever an HTTP tracker answers, Announce returns a list of peers.
LEMMA HTTPIsSeq ==
    ASSUME NEW body \in HTTPBodies
    PROVE  IsSeq(ParseHTTPResponse(body).peers)
<1>1. CASE body.type = "compact"
  <2>1. Len(body.peers) \in Nat
    BY <1>1, TrackerAssumption DEF IsSeq
  <2>2. IsSeq(ParseCompactPeers(body.peers).peers)
    BY <2>1, CompactIsSeq
  <2> QED  BY <1>1, <2>2 DEF ParseHTTPResponse
<1>2. CASE body.type = "dict"
  <2>1. IsSeq(body.peers)
    BY <1>2, TrackerAssumption
  <2>2. IsSeq(ParseDictPeers(body.peers).peers)
    BY <2>1, DictIsSeq
  <2> QED  BY <1>2, <2>2 DEF ParseHTTPResponse
<1>3. CASE body.type \notin {"compact", "dict"}
  <2>1. ParseHTTPResponse(body).peers = <<>>
    BY <1>3 DEF ParseHTTPResponse, Error
  <2> QED  BY <2>1 DEF IsSeq
<1> QED  BY <1>1, <1>2, <1>3

\* The first n fields of a datagram.
LEMMA TakeFields ==
    ASSUME NEW d, IsSeq(d), NEW n \in Nat
    PROVE  /\ IsSeq(Take(d, n))
           /\ Len(Take(d, n)) = IF Len(d) < n THEN Len(d) ELSE n
           /\ \A i \in 1 .. Len(Take(d, n)) : Take(d, n)[i] = d[i]
<1>1. PICK k \in Nat : k = IF Len(d) < n THEN Len(d) ELSE n
  BY DEF IsSeq
<1>2. k <= Len(d) /\ Len(d) \in Nat
  BY <1>1 DEF IsSeq
<1>3. PICK R : R = Elements(d)
  OBVIOUS
<1>4. d \in Seq(R)
  BY <1>3, SeqOfElements
<1>5. PICK s : s = SubSeq(d, 1, k)
  OBVIOUS
<1>6. s \in Seq(R) /\ Len(s) = k /\ \A i \in 1 .. k : s[i] = d[i]
  BY <1>2, <1>4, <1>5
<1>7. Take(d, n) = s
  BY <1>1, <1>5 DEF Take
<1> QED  BY <1>1, <1>6, <1>7, SeqIsSeq

\* A UDP answer is read as a list of peers, or as an error.
LEMMA AnnounceIsSeq ==
    ASSUME NEW d, IsSeq(d)
    PROVE  IsSeq(ParseAnnounce(d).peers)
<1>1. BufferLen \in Nat
  BY TrackerAssumption DEF BufferLen
<1>2. PICK r : r = Take(d, BufferLen)
  OBVIOUS
<1>3. IsSeq(r)
  BY <1>1, <1>2, TakeFields
<1>4. r \in Seq(Elements(r)) /\ Len(r) \in Nat
  BY <1>3, SeqOfElements DEF IsSeq
<1>5. CASE Len(r) < 5 \/ r[1] # "announce"
  <2>1. ParseAnnounce(d).peers = <<>>
    BY <1>2, <1>5 DEF ParseAnnounce, Error
  <2> QED  BY <2>1 DEF IsSeq
<1>6. CASE ~(Len(r) < 5 \/ r[1] # "announce")
  <2>1. Len(SubSeq(r, 6, Len(r))) \in Nat
    BY <1>4
  <2>2. ParseAnnounce(d) = ParseCompactPeers(SubSeq(r, 6, Len(r)))
    BY <1>2, <1>6 DEF ParseAnnounce
  <2> QED  BY <2>1, <2>2, CompactIsSeq
<1> QED  BY <1>5, <1>6

-----------------------------------------------------------------------------
(* The announcements                                                       *)

\* What may be on its way before the announce request is sent.
Early == StaleDatagrams \cup {ConnectResponse, <<"error", "tx1">>}

\* What ReadFull has put together is no answer to this connect request yet, and
\* nothing that is added makes it look like one.
Harmless(r) ==
    /\ IsSeq(r) /\ Len(r) < 4
    /\ Len(r) >= 2 /\ r[1] = "connect" => r[2] # "tx1"

\* The state of one announcement.
AnnounceOK(pc, datagrams, buffer, id, out) ==
    /\ IsSeq(out.peers)
    /\ \A d \in datagrams : IsSeq(d)
    /\ pc \in {"start", "connect"} => datagrams \subseteq Early
    /\ Harmless(buffer)
    /\ pc = "announce" => id = "id"

ByTracker(f) == f = [t \in Trackers |-> f[t]]

TrackerInv ==
    /\ ByTracker(apc) /\ ByTracker(net) /\ ByTracker(resp)
    /\ ByTracker(connID) /\ ByTracker(outcome)
    /\ \A t \in Trackers : AnnounceOK(apc[t], net[t], resp[t], connID[t], outcome[t])

\* The empty buffer, and an answer that is an error.
LEMMA EmptyOK == IsSeq(<<>>) /\ Harmless(<<>>) /\ IsSeq(Error.peers)
  BY DEF IsSeq, Harmless, Error

\* A step of one announcement leaves the others alone.
LEMMA OneTracker ==
    ASSUME TrackerInv, NEW t \in Trackers,
           NEW pc, apc' = [apc EXCEPT ![t] = pc],
           NEW datagrams, net' = [net EXCEPT ![t] = datagrams],
           NEW buffer, resp' = [resp EXCEPT ![t] = buffer],
           NEW id, connID' = [connID EXCEPT ![t] = id],
           NEW out, outcome' = [outcome EXCEPT ![t] = out],
           AnnounceOK(pc, datagrams, buffer, id, out)
    PROVE  TrackerInv'
<1>1. ByTracker(apc') /\ ByTracker(net') /\ ByTracker(resp')
      /\ ByTracker(connID') /\ ByTracker(outcome')
  BY DEF TrackerInv, ByTracker
<1>2. ASSUME NEW u \in Trackers
      PROVE  AnnounceOK(apc'[u], net'[u], resp'[u], connID'[u], outcome'[u])
  <2>1. CASE u = t
    <3>1. /\ apc'[u] = pc /\ net'[u] = datagrams /\ resp'[u] = buffer
          /\ connID'[u] = id /\ outcome'[u] = out
      BY <2>1 DEF TrackerInv, ByTracker
    <3> QED  BY <3>1
  <2>2. CASE u # t
    <3>1. /\ apc'[u] = apc[u] /\ net'[u] = net[u] /\ resp'[u] = resp[u]
          /\ connID'[u] = connID[u] /\ outcome'[u] = outcome[u]
      BY <2>2 DEF TrackerInv, ByTracker
    <3> QED  BY <3>1 DEF TrackerInv
  <2> QED  BY <2>1, <2>2
<1> QED  BY <1>1, <1>2 DEF TrackerInv

\* An entry that keeps its value.
LEMMA SameEntry ==
    ASSUME NEW f, ByTracker(f), NEW t \in Trackers
    PROVE  f = [f EXCEPT ![t] = f[t]]
  BY DEF ByTracker

\* Announce returns.
LEMMA ReturnKeeps ==
    ASSUME TrackerInv, NEW t \in Trackers, NEW result, Return(t, result), IsSeq(result.peers)
    PROVE  TrackerInv'
<1>1. AnnounceOK("returned", {}, <<>>, "none", result)
  BY EmptyOK DEF AnnounceOK
<1>2. /\ apc' = [apc EXCEPT ![t] = "returned"] /\ outcome' = [outcome EXCEPT ![t] = result]
      /\ net' = [net EXCEPT ![t] = {}] /\ resp' = [resp EXCEPT ![t] = <<>>]
      /\ connID' = [connID EXCEPT ![t] = "none"]
  BY DEF Return
<1> QED  BY <1>1, <1>2, OneTracker

\* The datagrams of this exchange.
LEMMA DatagramsAreSeqs ==
    /\ \A d \in Early : IsSeq(d)
    /\ \A list \in CompactLists : IsSeq(AnnounceResponse(list))
<1>1. IsSeq(ConnectResponse)
  BY DEF ConnectResponse, IsSeq
<1>2. IsSeq(<<"error", "tx1">>)
  BY DEF IsSeq
<1>3. \A d \in StaleDatagrams : IsSeq(d)
  BY TrackerAssumption
<1>4. ASSUME NEW list \in CompactLists PROVE IsSeq(AnnounceResponse(list))
  <2>1. IsSeq(list)
    BY TrackerAssumption
  <2>2. IsSeq(<<"announce", "tx2", "interval", "leechers", "seeders">>)
    BY DEF IsSeq
  <2> QED  BY <2>1, <2>2, ConcatIsSeq DEF AnnounceResponse
<1> QED  BY <1>1, <1>2, <1>3, <1>4 DEF Early

\* A datagram of this exchange or an older one is added to the buffer: either
\* it is still harmless, or 16 bytes are there, and they are accepted only when
\* they are the answer of this tracker.
LEMMA Assembled ==
    ASSUME NEW buffer, Harmless(buffer), NEW d \in Early
    PROVE  /\ Len(Take(buffer \o d, 4)) < 4 => Harmless(Take(buffer \o d, 4))
           /\ Len(Take(buffer \o d, 4)) = 4 /\ Accepted(Take(buffer \o d, 4))
                 => Take(buffer \o d, 4)[3] = "id"
           /\ Len(Take(buffer \o d, 4)) \in 0 .. 4
<1>1. IsSeq(d) /\ IsSeq(buffer) /\ Len(d) \in Nat /\ Len(buffer) \in Nat
  BY DatagramsAreSeqs DEF Harmless, IsSeq
<1>2. PICK c : c = buffer \o d
  OBVIOUS
<1>3. /\ IsSeq(c) /\ Len(c) = Len(buffer) + Len(d)
  BY <1>1, <1>2, ConcatIsSeq
<1>4. \A i \in 1 .. Len(c) : c[i] = IF i <= Len(buffer) THEN buffer[i] ELSE d[i - Len(buffer)]
  <2>1. PICK R : R = Elements(buffer) \cup Elements(d)
    OBVIOUS
  <2>2. buffer \in Seq(R) /\ d \in Seq(R)
    <3>1. Elements(buffer) \subseteq R /\ Elements(d) \subseteq R
      BY <2>1
    <3> QED  BY <1>1, <3>1, SeqOfElements
  <2> QED  BY <1>2, <1>3, <2>2, ConcatProperties
<1>5. PICK r : r = Take(c, 4)
  OBVIOUS
<1>6. /\ IsSeq(r) /\ Len(r) = (IF Len(c) < 4 THEN Len(c) ELSE 4)
      /\ \A i \in 1 .. Len(r) : r[i] = c[i]
  BY <1>3, <1>5, TakeFields
<1>7. Len(r) \in 0 .. 4 /\ Len(r) <= Len(c)
  BY <1>1, <1>3, <1>6
<1>8. d = ConnectResponse \/ \A i \in {1, 2} : i <= Len(d) => d[i] # "tx1" \/ d[1] = "error"
  <2>1. CASE d \in StaleDatagrams
    BY <2>1, TrackerAssumption
  <2>2. CASE d = <<"error", "tx1">>
    BY <2>2
  <2> QED  BY <2>1, <2>2 DEF Early
<1>9. ASSUME Len(r) >= 2, r[1] = "connect", r[2] = "tx1"
      PROVE  Len(buffer) = 0 /\ d = ConnectResponse
  <2>1. r[1] = c[1] /\ r[2] = c[2] /\ Len(c) >= 2
    BY <1>1, <1>3, <1>6, <1>7, <1>9
  <2>2. CASE Len(buffer) >= 2
    <3>1. c[1] = buffer[1] /\ c[2] = buffer[2]
      BY <1>1, <1>3, <1>4, <2>1, <2>2
    <3> QED  BY <1>9, <2>1, <2>2, <3>1 DEF Harmless
  <2>3. CASE Len(buffer) = 1
    <3>1. c[2] = d[1] /\ 1 <= Len(d)
      BY <1>1, <1>3, <1>4, <2>1, <2>3
    <3>2. d[1] = "tx1"
      BY <1>9, <2>1, <3>1
    <3>3. ConnectResponse[1] = "connect"
      BY DEF ConnectResponse
    <3> QED  BY <1>8, <3>1, <3>2, <3>3
  <2>4. CASE Len(buffer) = 0
    <3>1. c[1] = d[1] /\ c[2] = d[2] /\ 2 <= Len(d)
      BY <1>1, <1>3, <1>4, <2>1, <2>4
    <3>2. d[1] = "connect" /\ d[2] = "tx1"
      BY <1>9, <2>1, <3>1
    <3> QED  BY <1>8, <2>4, <3>1, <3>2
  <2>5. \A k \in Nat : k = 0 \/ k = 1 \/ k >= 2
    OBVIOUS
  <2> QED  BY <1>1, <2>2, <2>3, <2>4, <2>5
<1>10. ConnectResponse[3] = "id" /\ Len(ConnectResponse) = 4
  BY DEF ConnectResponse
<1>11. ASSUME Len(r) < 4 PROVE Harmless(r)
  <2>1. ASSUME Len(r) >= 2, r[1] = "connect", r[2] = "tx1" PROVE FALSE
    <3>1. Len(c) = 4
      BY <1>3, <1>9, <1>10, <2>1
    <3> QED  BY <1>6, <1>11, <3>1
  <2> QED  BY <1>6, <1>11, <2>1 DEF Harmless
<1>12. ASSUME Len(r) = 4, Accepted(r) PROVE r[3] = "id"
  <2>1. Len(buffer) = 0 /\ d = ConnectResponse
    BY <1>9, <1>12 DEF Accepted
  <2>2. r[3] = c[3] /\ Len(c) >= 3
    BY <1>1, <1>3, <1>6, <1>12, <2>1, <1>10
  <2>3. c[3] = d[3]
    BY <1>1, <1>3, <1>4, <2>1, <2>2
  <2> QED  BY <1>10, <2>1, <2>2, <2>3
<1> QED  BY <1>2, <1>5, <1>7, <1>11, <1>12

\* Every step of an announcement keeps TrackerInv.
LEMMA AnnouncingStep ==
    ASSUME TrackerInv, NEW t \in Trackers, TrackerClient(t) \/ TrackerSends(t)
    PROVE  TrackerInv'
<1>1. /\ ByTracker(apc) /\ ByTracker(net) /\ ByTracker(resp)
      /\ ByTracker(connID) /\ ByTracker(outcome)
  BY DEF TrackerInv
<1>2. AnnounceOK(apc[t], net[t], resp[t], connID[t], outcome[t])
  BY DEF TrackerInv
<1>3. /\ apc = [apc EXCEPT ![t] = apc[t]] /\ net = [net EXCEPT ![t] = net[t]]
      /\ resp = [resp EXCEPT ![t] = resp[t]] /\ connID = [connID EXCEPT ![t] = connID[t]]
      /\ outcome = [outcome EXCEPT ![t] = outcome[t]]
  BY <1>1, SameEntry
<1>5. CASE Announce(t)
  <2>1. apc[t] = "start"
    BY <1>5 DEF Announce
  <2>2. CASE Return(t, Error)
    BY <2>1, <2>2, ReturnKeeps, EmptyOK
  <2>3. CASE ~Return(t, Error)
    <3>1. PICK pc \in {"http", "connect"} : apc' = [apc EXCEPT ![t] = pc]
      BY <1>5, <2>3 DEF Announce
    <3>2. UNCHANGED <<net, resp, connID, outcome>>
      BY <1>5, <2>3 DEF Announce
    <3>3. AnnounceOK(pc, net[t], resp[t], connID[t], outcome[t])
      BY <1>2, <2>1 DEF AnnounceOK
    <3>4. /\ net' = [net EXCEPT ![t] = net[t]] /\ resp' = [resp EXCEPT ![t] = resp[t]]
          /\ connID' = [connID EXCEPT ![t] = connID[t]] /\ outcome' = [outcome EXCEPT ![t] = outcome[t]]
      BY <1>3, <2>1, <3>2
    <3> QED  BY <3>1, <3>3, <3>4, OneTracker
  <2> QED  BY <2>2, <2>3
<1>6. CASE AnnounceFails(t)
  <2>1. apc[t] # "returned" /\ Return(t, Error)
    BY <1>6 DEF AnnounceFails
  <2> QED  BY <2>1, ReturnKeeps, EmptyOK
<1>7. ASSUME NEW body \in HTTPBodies, HTTPAnswered(t, body) PROVE TrackerInv'
  <2>1. apc[t] # "returned" /\ Return(t, ParseHTTPResponse(body))
    BY <1>7 DEF HTTPAnswered
  <2> QED  BY <2>1, ReturnKeeps, HTTPIsSeq
<1>8. ASSUME NEW d \in net[t], RecvConnect(t, d) PROVE TrackerInv'
  <2>1. PICK r : r = Take(resp[t] \o d, 4)
    OBVIOUS
  <2>2. apc[t] = "connect"
    BY <1>8 DEF RecvConnect
  <2>3. d \in Early /\ Harmless(resp[t])
    BY <1>2, <1>8, <2>2 DEF AnnounceOK
  <2>4. /\ Len(r) < 4 => Harmless(r)
        /\ Len(r) = 4 /\ Accepted(r) => r[3] = "id"
        /\ Len(r) \in 0 .. 4
    BY <2>1, <2>3, Assembled
  <2>5. CASE Len(r) = 4 /\ ~Accepted(r)
    <3>1. Return(t, Error)
      BY <1>8, <2>1, <2>5 DEF RecvConnect
    <3> QED  BY <2>2, <3>1, ReturnKeeps, EmptyOK
  <2>6. CASE ~(Len(r) = 4 /\ ~Accepted(r))
    <3>1. /\ net' = [net EXCEPT ![t] = @ \ {d}]
          /\ resp' = [resp EXCEPT ![t] = IF Len(r) < 4 THEN r ELSE <<>>]
          /\ apc' = [apc EXCEPT ![t] = IF Len(r) < 4 THEN @ ELSE "announce"]
          /\ connID' = [connID EXCEPT ![t] = IF Len(r) < 4 THEN @ ELSE r[3]]
          /\ UNCHANGED outcome
      BY <1>8, <2>1, <2>6 DEF RecvConnect
    <3>2. CASE Len(r) < 4
      <4>1. AnnounceOK(apc[t], net[t] \ {d}, r, connID[t], outcome[t])
        BY <1>2, <2>4, <3>2 DEF AnnounceOK
      <4>2. /\ net' = [net EXCEPT ![t] = net[t] \ {d}] /\ resp' = [resp EXCEPT ![t] = r]
            /\ apc' = [apc EXCEPT ![t] = apc[t]] /\ connID' = [connID EXCEPT ![t] = connID[t]]
            /\ outcome' = [outcome EXCEPT ![t] = outcome[t]]
        BY <1>3, <2>2, <3>1, <3>2
      <4> QED  BY <4>1, <4>2, OneTracker
    <3>3. CASE ~(Len(r) < 4)
      <4>1. r[3] = "id"
        <5>1. \A k \in 0 .. 4 : k < 4 \/ k = 4
          OBVIOUS
        <5>2. Len(r) = 4
          BY <2>4, <3>3, <5>1, Zenon
        <5> QED  BY <2>4, <2>6, <5>2
      <4>2. AnnounceOK("announce", net[t] \ {d}, <<>>, "id", outcome[t])
        BY <1>2, <2>2, EmptyOK DEF AnnounceOK
      <4>3. /\ net' = [net EXCEPT ![t] = net[t] \ {d}] /\ resp' = [resp EXCEPT ![t] = <<>>]
            /\ apc' = [apc EXCEPT ![t] = "announce"] /\ connID' = [connID EXCEPT ![t] = "id"]
            /\ outcome' = [outcome EXCEPT ![t] = outcome[t]]
        BY <1>3, <2>2, <3>1, <3>3, <4>1
      <4> QED  BY <4>2, <4>3, OneTracker
    <3> QED  BY <3>2, <3>3
  <2> QED  BY <2>5, <2>6
<1>9. ASSUME NEW d \in net[t], RecvAnnounce(t, d) PROVE TrackerInv'
  <2>1. IsSeq(d)
    BY <1>2, <1>9 DEF AnnounceOK
  <2>2. IsSeq(ParseAnnounce(d).peers)
    BY <2>1, AnnounceIsSeq
  <2>3. Return(t, ParseAnnounce(d))
    BY <1>9 DEF RecvAnnounce
  <2> QED  BY <2>2, <2>3, ReturnKeeps
<1>10. CASE TrackerSends(t)
  <2>1. apc[t] \in {"connect", "announce"} /\ UNCHANGED <<apc, resp, connID, outcome>>
    BY <1>10 DEF TrackerSends
  <2>2. PICK d : /\ net' = [net EXCEPT ![t] = @ \cup {d}]
                 /\ \/ d \in {ConnectResponse, <<"error", "tx1">>}
                    \/ apc[t] = "announce" /\ \E list \in CompactLists : d = AnnounceResponse(list)
    BY <1>10 DEF TrackerSends
  <2>3. IsSeq(d) /\ (apc[t] # "announce" => d \in Early)
    BY <2>2, DatagramsAreSeqs DEF Early
  <2>4. AnnounceOK(apc[t], net[t] \cup {d}, resp[t], connID[t], outcome[t])
    BY <1>2, <2>1, <2>3 DEF AnnounceOK
  <2>5. /\ net' = [net EXCEPT ![t] = net[t] \cup {d}] /\ resp' = [resp EXCEPT ![t] = resp[t]]
        /\ apc' = [apc EXCEPT ![t] = apc[t]] /\ connID' = [connID EXCEPT ![t] = connID[t]]
        /\ outcome' = [outcome EXCEPT ![t] = outcome[t]]
    BY <1>3, <2>1, <2>2
  <2> QED  BY <2>4, <2>5, OneTracker
<1> QED  BY <1>5, <1>6, <1>7, <1>8, <1>9, <1>10 DEF TrackerClient

\* TrackerInv is an invariant of the whole search.
LEMMA TrackerInvInit == Init => TrackerInv
<1> SUFFICES ASSUME Init PROVE TrackerInv
  OBVIOUS
<1>1. TrackerInit
  BY DEF Init
<1>2. /\ ByTracker(apc) /\ ByTracker(net) /\ ByTracker(resp)
      /\ ByTracker(connID) /\ ByTracker(outcome)
  BY <1>1 DEF TrackerInit, ByTracker
<1>3. ASSUME NEW t \in Trackers
      PROVE  AnnounceOK(apc[t], net[t], resp[t], connID[t], outcome[t])
  <2>1. /\ apc[t] = "start" /\ net[t] \subseteq Early /\ resp[t] = <<>>
        /\ outcome[t] = Error
    BY <1>1 DEF TrackerInit, Early
  <2> QED  BY <2>1, EmptyOK, DatagramsAreSeqs DEF AnnounceOK
<1> QED  BY <1>2, <1>3 DEF TrackerInv

\* Every step of the announces keeps their invariant.
LEMMA TrackerInvStep == TrackerInv /\ [Next]_vars => TrackerInv'
<1> SUFFICES ASSUME TrackerInv, [Next]_vars PROVE TrackerInv'
  OBVIOUS
<1>1. CASE UNCHANGED trackerVars
  BY <1>1 DEF trackerVars, TrackerInv
<1>2. ASSUME NEW t \in Trackers, Announcing(t) PROVE TrackerInv'
  BY <1>2, AnnouncingStep DEF Announcing
<1>3. ASSUME NEW t \in Trackers, SendResult(t) PROVE TrackerInv'
  <2>1. /\ ByTracker(net) /\ ByTracker(resp) /\ ByTracker(connID)
        /\ AnnounceOK(apc[t], net[t], resp[t], connID[t], outcome[t])
    BY DEF TrackerInv
  <2>2. AnnounceOK("done", net[t], resp[t], connID[t], Error)
    BY <2>1, EmptyOK DEF AnnounceOK
  <2>3. /\ net' = [net EXCEPT ![t] = net[t]] /\ resp' = [resp EXCEPT ![t] = resp[t]]
        /\ connID' = [connID EXCEPT ![t] = connID[t]]
    BY <1>3, <2>1, SameEntry DEF SendResult
  <2>4. /\ apc' = [apc EXCEPT ![t] = "done"] /\ outcome' = [outcome EXCEPT ![t] = Error]
    BY <1>3 DEF SendResult
  <2> QED  BY <2>2, <2>3, <2>4, OneTracker
<1>4. ASSUME NEW p \in Addrs, Goroutine(p) PROVE TrackerInv'
  BY <1>1, <1>4 DEF Goroutine
<1>5. CASE Caller
  BY <1>1, <1>5 DEF Caller, TakeAnswer, TrackersDone, SearchDHT, NextResult, NoMetadata
<1>6. CASE UNCHANGED vars
  BY <1>1, <1>6 DEF vars
<1> QED
  BY <1>2, <1>3, <1>4, <1>5, <1>6 DEF Next, Terminating

\* No announce request carries the connection id of another exchange.
THEOREM ConnectionOfThisExchangeHolds == Spec => []ConnectionOfThisExchange
<1>1. TrackerInv => ConnectionOfThisExchange
  BY DEF TrackerInv, AnnounceOK, ConnectionOfThisExchange
<1> QED  BY <1>1, TrackerInvInit, TrackerInvStep, PTL DEF Spec

-----------------------------------------------------------------------------
(* The merge of the lists                                                  *)

\* found is what is in allPeers, which has no duplicates once they are gone.
PeersInv ==
    /\ IsSeq(results) /\ \A x \in Elements(results) : IsSeq(x.peers)
    /\ IsSeq(allPeers)
    /\ AddrsOf(allPeers) = found
    /\ main # "trackers" => Apart(allPeers)

\* The addresses of two lists.
LEMMA AddrsOfConcat ==
    ASSUME NEW s, IsSeq(s), NEW t, IsSeq(t)
    PROVE  AddrsOf(s \o t) = AddrsOf(s) \cup AddrsOf(t)
<1>1. \A u : IsSeq(u) => AddrsOf(u) = {Addr(x) : x \in Elements(u)}
  BY AddrsOfSeq DEF AddrsUpTo, Elements
<1>2. IsSeq(s \o t) /\ Elements(s \o t) = Elements(s) \cup Elements(t)
  BY ConcatIsSeq
<1> QED  BY <1>1, <1>2

\* The channel of discoverPeers.
LEMMA QueueIsSeq ==
    ASSUME NEW s, IsSeq(s)
    PROVE  /\ \A x : IsSeq(Append(s, x)) /\ Elements(Append(s, x)) \subseteq Elements(s) \cup {x}
           /\ s # <<>> => /\ IsSeq(Tail(s)) /\ Elements(Tail(s)) \subseteq Elements(s)
                          /\ Head(s) \in Elements(s)
<1>1. ASSUME NEW x PROVE IsSeq(Append(s, x)) /\ Elements(Append(s, x)) \subseteq Elements(s) \cup {x}
  <2>1. PICK R : R = Elements(s) \cup {x}
    OBVIOUS
  <2>2. Elements(s) \subseteq R /\ x \in R
    BY <2>1
  <2>3. s \in Seq(R)
    BY <2>2, SeqOfElements
  <2>4. Append(s, x) \in Seq(R)
    BY <2>2, <2>3
  <2> QED  BY <2>1, <2>4, SeqIsSeq
<1>2. ASSUME s # <<>>
      PROVE  IsSeq(Tail(s)) /\ Elements(Tail(s)) \subseteq Elements(s) /\ Head(s) \in Elements(s)
  <2>1. PICK R : R = Elements(s)
    OBVIOUS
  <2>2. s \in Seq(R)
    BY <2>1, SeqOfElements
  <2>3. Tail(s) \in Seq(R) /\ Head(s) \in R
    BY <1>2, <2>2
  <2> QED  BY <2>1, <2>3, SeqIsSeq
<1> QED  BY <1>1, <1>2

\* No address is known at the start.
LEMMA PeersInvInit == Init => PeersInv
<1> SUFFICES ASSUME Init PROVE PeersInv
  OBVIOUS
<1>1. results = <<>> /\ allPeers = <<>> /\ found = {} /\ main = "trackers"
  BY DEF Init
<1>2. IsSeq(<<>>) /\ Elements(<<>>) = {} /\ AddrsOf(<<>>) = {}
  BY DEF IsSeq, Elements, AddrsOf
<1> QED  BY <1>1, <1>2 DEF PeersInv

\* Every step keeps the collected addresses those of the sources.
LEMMA PeersInvStep == TrackerInv /\ PeersInv /\ [Next]_vars => PeersInv'
<1> SUFFICES ASSUME TrackerInv, PeersInv, [Next]_vars PROVE PeersInv'
  OBVIOUS
<1>1. ASSUME UNCHANGED <<results, allPeers, found>>, main' = "trackers" => main = "trackers",
             main = "trackers" => UNCHANGED main
      PROVE  PeersInv'
  BY <1>1 DEF PeersInv
<1>2. ASSUME NEW t \in Trackers, Announcing(t) PROVE PeersInv'
  BY <1>1, <1>2 DEF Announcing, discVars
<1>3. ASSUME NEW t \in Trackers, SendResult(t) PROVE PeersInv'
  <2>1. results' = Append(results, outcome[t]) /\ UNCHANGED <<main, allPeers, found>>
    BY <1>3 DEF SendResult
  <2>2. IsSeq(outcome[t].peers)
    BY DEF TrackerInv, AnnounceOK
  <2>3. IsSeq(results') /\ Elements(results') \subseteq Elements(results) \cup {outcome[t]}
    BY <2>1, QueueIsSeq DEF PeersInv
  <2> QED  BY <2>1, <2>2, <2>3 DEF PeersInv
<1>4. ASSUME NEW p \in Addrs, Goroutine(p) PROVE PeersInv'
  BY <1>1, <1>4 DEF Goroutine, discVars
<1>5. CASE TakeAnswer
  <2>1. main = "trackers" /\ UNCHANGED main /\ results # <<>> /\ results' = Tail(results)
    BY <1>5 DEF TakeAnswer
  <2>2. /\ IsSeq(results') /\ Elements(results') \subseteq Elements(results)
        /\ IsSeq(Head(results).peers)
    BY <2>1, QueueIsSeq DEF PeersInv
  <2>3. CASE UNCHANGED <<allPeers, found>>
    BY <2>1, <2>2, <2>3 DEF PeersInv
  <2>4. CASE ~UNCHANGED <<allPeers, found>>
    <3>1. PICK new : new = Head(results).peers
      OBVIOUS
    <3>2. allPeers' = allPeers \o new /\ found' = found \cup AddrsOf(new)
      BY <1>5, <2>4, <3>1 DEF TakeAnswer
    <3>3. IsSeq(allPeers') /\ AddrsOf(allPeers') = AddrsOf(allPeers) \cup AddrsOf(new)
      BY <2>2, <3>1, <3>2, ConcatIsSeq, AddrsOfConcat DEF PeersInv
    <3> QED  BY <2>1, <2>2, <3>2, <3>3 DEF PeersInv
  <2> QED  BY <2>3, <2>4
<1>6. CASE TrackersDone
  <2>1. allPeers' = dedupPeers(<<>>, allPeers) /\ UNCHANGED <<results, found>>
    BY <1>6 DEF TrackersDone, discVars
  <2>2. IsSeq(<<>>) /\ Apart(<<>>) /\ AddrsOf(<<>>) = {}
    BY DEF IsSeq, Apart, AddrsOf
  <2>3. IsSeq(allPeers') /\ Apart(allPeers') /\ AddrsOf(allPeers') = AddrsOf(<<>>) \cup AddrsOf(allPeers)
    BY <2>1, <2>2, DedupExact DEF PeersInv
  <2> QED  BY <2>1, <2>2, <2>3 DEF PeersInv
<1>7. ASSUME NEW list \in DHTLists, SearchDHT(list) PROVE PeersInv'
  <2>1. /\ main = "dht" /\ allPeers' = dedupPeers(allPeers, list)
        /\ found' = found \cup AddrsOf(list) /\ UNCHANGED results
    BY <1>7 DEF SearchDHT
  <2>2. IsSeq(list)
    BY DiscoveryAssumption
  <2>3. IsSeq(allPeers) /\ Apart(allPeers)
    BY <2>1 DEF PeersInv
  <2>4. IsSeq(allPeers') /\ Apart(allPeers') /\ AddrsOf(allPeers') = AddrsOf(allPeers) \cup AddrsOf(list)
    BY <2>1, <2>2, <2>3, DedupExact
  <2> QED  BY <2>1, <2>4 DEF PeersInv
<1>8. CASE NextResult \/ NoMetadata
  BY <1>1, <1>8 DEF NextResult, NoMetadata, discVars
<1>9. CASE UNCHANGED vars
  BY <1>1, <1>9 DEF vars, discVars
<1>10. CASE Caller
  BY <1>5, <1>6, <1>7, <1>8, <1>10 DEF Caller
<1> QED
  BY <1>2, <1>3, <1>4, <1>9, <1>10 DEF Next, Terminating

\* t.peers has every address that was found, once.
THEOREM PeersExactHolds == Spec => []PeersExact
<1>1. PeersInv => PeersExact
  <2> SUFFICES ASSUME PeersInv, main = "fetch"
               PROVE  AddrsOf(allPeers) = found /\ Len(allPeers) = Cardinality(found)
    BY DEF PeersExact
  <2>1. IsSeq(allPeers) /\ Apart(allPeers) /\ AddrsOf(allPeers) = found
    BY DEF PeersInv
  <2> QED  BY <2>1, ApartCount
<1> QED
  BY <1>1, TrackerInvInit, TrackerInvStep, PeersInvInit, PeersInvStep, PTL DEF Spec

-----------------------------------------------------------------------------
(* fetchMetadata                                                           *)

Holders   == {p \in Addrs : g[p] \in {"check", "busy", "report", "release"}}
Reporters == {p \in Addrs : g[p] \in {"release", "done"} /\ got[p] # "none"}

\* The goroutines: which have a peer, which have an answer.
GoroutinesInv ==
    /\ g \in [Addrs -> {"none", "queued", "check", "busy", "report", "release", "done"}]
    /\ got \in [Addrs -> {"none", "info", Failed}]
    /\ main \in {"trackers", "dht", "fetch", "returned"}
    /\ main = "trackers" \/ main = "dht" => \A p \in Addrs : g[p] = "none"
    /\ \A p \in Addrs : g[p] # "none" => p \in AddrsOf(allPeers)
    /\ \A p \in Addrs : g[p] \in {"none", "queued", "check", "busy"} => got[p] = "none"
    /\ \A p \in Addrs : g[p] = "report" => got[p] # "none"

\* Every result that was sent is in resCh or was received.
ResultsInv ==
    /\ resCh \in Seq({"info", Failed})
    /\ received \in Nat
    /\ Cardinality(Reporters) = received + Len(resCh)

\* Before fetchMetadata returns the metadata, a success that was reported is
\* still in resCh.
SuccessInv ==
    /\ ret = "noMetadata" => received = Len(allPeers) /\ main = "returned"
    /\ main = "fetch" \/ ret = "noMetadata" =>
          \A p \in Reporters : got[p] = "info" => "info" \in Elements(resCh)

FetchInv == GoroutinesInv /\ ResultsInv /\ SuccessInv /\ SemaphoreExact

\* No goroutine runs at the start.
LEMMA FetchInvInit == Init => FetchInv
<1> SUFFICES ASSUME Init PROVE FetchInv
  OBVIOUS
<1>1. /\ g = [p \in Addrs |-> "none"] /\ got = [p \in Addrs |-> "none"] /\ main = "trackers"
      /\ sem = 0 /\ resCh = <<>> /\ received = 0 /\ ret = "running"
  BY DEF Init
<1>2. GoroutinesInv
  BY <1>1 DEF GoroutinesInv
<1>3. Reporters = {} /\ Holders = {} /\ Cardinality({}) = 0
  BY <1>1, FS_EmptySet DEF Reporters, Holders
<1>4. ResultsInv
  BY <1>1, <1>3 DEF ResultsInv
<1>5. SuccessInv
  BY <1>1 DEF SuccessInv
<1>6. SemaphoreExact
  <2>1. sem = Cardinality(Holders) /\ sem <= SemCap
    BY <1>1, <1>3, DiscoveryAssumption
  <2> QED  BY <2>1 DEF SemaphoreExact, Holders
<1> QED  BY <1>2, <1>4, <1>5, <1>6 DEF FetchInv

\* Both sets of goroutines are finite.
LEMMA FetchFinite ==
    /\ IsFiniteSet(Holders) /\ IsFiniteSet(Reporters)
    /\ Cardinality(Holders) \in Nat /\ Cardinality(Reporters) \in Nat
<1>1. IsFiniteSet(Addrs) /\ Holders \in SUBSET Addrs /\ Reporters \in SUBSET Addrs
  BY DiscoveryAssumption DEF Holders, Reporters
<1>2. IsFiniteSet(Holders) /\ IsFiniteSet(Reporters)
  BY <1>1, FS_Subset
<1> QED  BY <1>2, FS_CardinalityType

\* The steps that start, end or do not concern fetchMetadata.
LEMMA OutsideFetch ==
    ASSUME FetchInv, UNCHANGED <<g, sem, resCh, received, got>>,
           main' \in {"trackers", "dht", "fetch", "returned"},
           \/ UNCHANGED <<main, allPeers, ret>>
           \/ main \in {"trackers", "dht"} /\ main' \in {"trackers", "dht", "returned"} /\ ret' # "noMetadata"
    PROVE  FetchInv'
<1>1. UNCHANGED <<Reporters, Holders>>
  BY DEF Reporters, Holders
<1>2. main \in {"trackers", "dht"} => \A p \in Addrs : g[p] = "none"
  BY DEF FetchInv, GoroutinesInv
<1>3. GoroutinesInv'
  BY <1>2 DEF FetchInv, GoroutinesInv
<1>4. ResultsInv'
  BY <1>1 DEF FetchInv, ResultsInv
<1>5. SuccessInv'
  BY <1>1 DEF FetchInv, SuccessInv
<1>6. SemaphoreExact'
  BY DEF FetchInv, SemaphoreExact
<1> QED  BY <1>3, <1>4, <1>5, <1>6 DEF FetchInv

\* The goroutines start.
LEMMA FetchStarts ==
    ASSUME FetchInv, NEW list, SearchDHT(list)
    PROVE  FetchInv'
<1>1. /\ main = "dht" /\ main' = "fetch" /\ UNCHANGED <<ret, sem, resCh, received, got>>
      /\ g' = [p \in Addrs |-> IF p \in AddrsOf(allPeers') THEN "queued" ELSE "none"]
  BY DEF SearchDHT
<1>2. \A p \in Addrs : g[p] = "none" /\ got[p] = "none"
  BY <1>1 DEF FetchInv, GoroutinesInv
<1>3. Reporters = {} /\ Holders = {} /\ Reporters' = {} /\ Holders' = {}
  BY <1>1, <1>2 DEF Reporters, Holders
<1>4. GoroutinesInv'
  BY <1>1, <1>2 DEF FetchInv, GoroutinesInv
<1>5. ResultsInv'
  BY <1>1, <1>3 DEF FetchInv, ResultsInv
<1>6. SuccessInv'
  BY <1>1, <1>3 DEF FetchInv, SuccessInv
<1>7. SemaphoreExact'
  BY <1>1, <1>3 DEF FetchInv, SemaphoreExact, Holders
<1> QED  BY <1>4, <1>5, <1>6, <1>7 DEF FetchInv

\* One goroutine takes a step.
LEMMA GoroutineStep ==
    ASSUME FetchInv, NEW p \in Addrs, Goroutine(p)
    PROVE  FetchInv'
<1>1. UNCHANGED <<main, allPeers, ret>>
  BY DEF Goroutine
<1>2. /\ g \in [Addrs -> {"none", "queued", "check", "busy", "report", "release", "done"}]
      /\ got \in [Addrs -> {"none", "info", Failed}]
  BY DEF FetchInv, GoroutinesInv
<1>3. /\ resCh \in Seq({"info", Failed}) /\ received \in Nat /\ Len(resCh) \in Nat
      /\ Cardinality(Reporters) = received + Len(resCh)
  BY DEF FetchInv, ResultsInv
<1>4. sem = Cardinality(Holders) /\ sem <= SemCap /\ SemCap \in Nat
  BY DiscoveryAssumption DEF FetchInv, SemaphoreExact, Holders
<1>5. ASSUME UNCHANGED sem, Holders' = Holders PROVE SemaphoreExact'
  BY <1>4, <1>5 DEF SemaphoreExact, Holders
<1>6. ASSUME UNCHANGED <<resCh, received>>, Reporters' = Reporters PROVE ResultsInv'
  BY <1>3, <1>6 DEF ResultsInv
<1>7. ASSUME UNCHANGED <<resCh, received>>, Reporters' = Reporters,
             \A q \in Reporters : got'[q] = got[q]
      PROVE  SuccessInv'
  BY <1>1, <1>7 DEF FetchInv, SuccessInv
<1>8. CASE Acquire(p)
  <2>1. /\ g[p] = "queued" /\ g' = [g EXCEPT ![p] = "check"] /\ sem < SemCap /\ sem' = sem + 1
        /\ UNCHANGED <<resCh, received, got>>
    BY <1>8 DEF Acquire, Step
  <2>2. p \notin Holders /\ Holders' = Holders \cup {p} /\ Reporters' = Reporters
    BY <1>2, <2>1 DEF Holders, Reporters
  <2>3. Cardinality(Holders') = Cardinality(Holders) + 1
    BY <2>2, FetchFinite, FS_AddElement
  <2>4. SemaphoreExact'
    BY <1>4, <2>1, <2>3, FetchFinite DEF SemaphoreExact, Holders
  <2>5. GoroutinesInv'
    BY <1>1, <1>2, <2>1 DEF FetchInv, GoroutinesInv
  <2> QED  BY <1>6, <1>7, <2>1, <2>2, <2>4, <2>5 DEF FetchInv
<1>9. CASE CheckCtx(p)
  <2>1. PICK to \in {"release", "busy"} :
           /\ g[p] = "check" /\ g' = [g EXCEPT ![p] = to]
           /\ UNCHANGED <<sem, resCh, received, got>>
    BY <1>9 DEF CheckCtx, Step
  <2>2. got[p] = "none"
    BY <2>1 DEF FetchInv, GoroutinesInv
  <2>3. Holders' = Holders /\ Reporters' = Reporters
    BY <1>2, <2>1, <2>2 DEF Holders, Reporters
  <2>4. GoroutinesInv'
    BY <1>1, <1>2, <2>1 DEF FetchInv, GoroutinesInv
  <2> QED  BY <1>5, <1>6, <1>7, <2>1, <2>3, <2>4 DEF FetchInv
<1>10. ASSUME NEW answer \in {"info", Failed}, AskPeer(p, answer) PROVE FetchInv'
  <2>1. /\ g[p] = "busy" /\ g' = [g EXCEPT ![p] = "report"] /\ got' = [got EXCEPT ![p] = answer]
        /\ UNCHANGED <<sem, resCh, received>>
    BY <1>10 DEF AskPeer, Step
  <2>2. Holders' = Holders /\ Reporters' = Reporters /\ \A q \in Reporters : got'[q] = got[q]
    BY <1>2, <2>1 DEF Holders, Reporters
  <2>3. answer # "none"
    BY DEF Failed
  <2>4. GoroutinesInv'
    BY <1>1, <1>2, <2>1, <2>3 DEF FetchInv, GoroutinesInv
  <2> QED  BY <1>5, <1>6, <1>7, <2>1, <2>2, <2>4 DEF FetchInv
<1>11. CASE Report(p)
  <2>1. /\ g[p] = "report" /\ g' = [g EXCEPT ![p] = "release"]
        /\ resCh' = Append(resCh, got[p]) /\ UNCHANGED <<sem, received, got>>
    BY <1>11 DEF Report, Step
  <2>2. got[p] # "none" /\ got[p] \in {"info", Failed}
    BY <1>2, <2>1 DEF FetchInv, GoroutinesInv
  <2>3. p \notin Reporters /\ Reporters' = Reporters \cup {p} /\ Holders' = Holders
    BY <1>2, <2>1, <2>2 DEF Holders, Reporters
  <2>4. Cardinality(Reporters') = Cardinality(Reporters) + 1
    BY <2>3, FetchFinite, FS_AddElement
  <2>5. /\ resCh' \in Seq({"info", Failed}) /\ Len(resCh') = Len(resCh) + 1
        /\ \A i \in 1 .. Len(resCh) : resCh'[i] = resCh[i]
        /\ resCh'[Len(resCh) + 1] = got[p]
    BY <1>3, <2>1, <2>2
  <2>6. ResultsInv'
    BY <1>3, <2>1, <2>4, <2>5 DEF ResultsInv
  <2>7. Elements(resCh) \subseteq Elements(resCh') /\ got[p] \in Elements(resCh')
    BY <1>3, <2>5 DEF Elements
  <2>8. SuccessInv'
    BY <1>1, <2>1, <2>3, <2>7 DEF FetchInv, SuccessInv
  <2>9. GoroutinesInv'
    BY <1>1, <1>2, <2>1 DEF FetchInv, GoroutinesInv
  <2> QED  BY <1>5, <2>1, <2>3, <2>6, <2>8, <2>9 DEF FetchInv
<1>12. CASE Release(p)
  <2>1. /\ g[p] = "release" /\ g' = [g EXCEPT ![p] = "done"] /\ sem' = sem - 1
        /\ UNCHANGED <<resCh, received, got>>
    BY <1>12 DEF Release, Released, Step
  <2>2. p \in Holders /\ Holders' = Holders \ {p} /\ Reporters' = Reporters
    BY <1>2, <2>1 DEF Holders, Reporters
  <2>3. Cardinality(Holders') = Cardinality(Holders) - 1
    BY <2>2, FetchFinite, FS_RemoveElement
  <2>4. SemaphoreExact'
    BY <1>4, <2>1, <2>3, FetchFinite DEF SemaphoreExact, Holders
  <2>5. GoroutinesInv'
    BY <1>1, <1>2, <2>1 DEF FetchInv, GoroutinesInv
  <2> QED  BY <1>6, <1>7, <2>1, <2>2, <2>4, <2>5 DEF FetchInv
<1> QED  BY <1>8, <1>9, <1>10, <1>11, <1>12 DEF Goroutine

\* fetchMetadata takes a result from resCh.
LEMMA ResultTaken ==
    ASSUME FetchInv, NextResult
    PROVE  FetchInv'
<1>1. /\ main = "fetch" /\ resCh # <<>> /\ resCh' = Tail(resCh) /\ received' = received + 1
      /\ UNCHANGED <<allPeers, g, sem, got>>
  BY DEF NextResult
<1>2. resCh \in Seq({"info", Failed}) /\ received \in Nat /\ Len(resCh) \in Nat
  BY DEF FetchInv, ResultsInv
<1>3. UNCHANGED <<Reporters, Holders>>
  BY <1>1 DEF Reporters, Holders
<1>4. GoroutinesInv' /\ SemaphoreExact'
  BY <1>1 DEF FetchInv, GoroutinesInv, SemaphoreExact, NextResult
<1>5. /\ resCh' \in Seq({"info", Failed}) /\ Len(resCh') = Len(resCh) - 1
      /\ \A i \in 2 .. Len(resCh) : resCh[i] = resCh'[i - 1] /\ i - 1 \in 1 .. Len(resCh')
      /\ Head(resCh) = resCh[1]
  BY <1>1, <1>2
<1>6. ResultsInv'
  BY <1>1, <1>2, <1>3, <1>5 DEF FetchInv, ResultsInv
<1>7. CASE Head(resCh) = "info"
  <2>1. main' = "returned" /\ ret' = "ok"
    BY <1>7 DEF NextResult
  <2> QED  BY <1>4, <1>6, <2>1 DEF FetchInv, SuccessInv
<1>8. CASE Head(resCh) # "info"
  <2>1. UNCHANGED <<main, ret>>
    BY <1>8 DEF NextResult
  <2>2. "info" \in Elements(resCh) => "info" \in Elements(resCh')
    <3> SUFFICES ASSUME NEW i \in 1 .. Len(resCh), resCh[i] = "info"
                 PROVE  "info" \in Elements(resCh')
      BY DEF Elements
    <3>1. i \in 2 .. Len(resCh)
      BY <1>2, <1>5, <1>8
    <3> QED  BY <1>5, <3>1 DEF Elements
  <2>3. ret # "noMetadata"
    BY <1>1 DEF FetchInv, SuccessInv
  <2>4. SuccessInv'
    BY <1>1, <1>3, <2>1, <2>2, <2>3 DEF FetchInv, SuccessInv
  <2> QED  BY <1>4, <1>6, <2>4 DEF FetchInv
<1> QED  BY <1>7, <1>8

\* fetchMetadata has heard of every peer.
LEMMA FetchGivesUp ==
    ASSUME FetchInv, NoMetadata
    PROVE  FetchInv'
<1>1. /\ main = "fetch" /\ received = Len(allPeers) /\ ret' = "noMetadata" /\ main' = "returned"
      /\ UNCHANGED <<allPeers, g, sem, resCh, received, got>>
  BY DEF NoMetadata, AllHeard, fetchVars
<1>2. UNCHANGED <<Reporters, Holders>>
  BY <1>1 DEF Reporters, Holders
<1>3. GoroutinesInv' /\ SemaphoreExact'
  BY <1>1 DEF FetchInv, GoroutinesInv, SemaphoreExact
<1>4. ResultsInv' /\ SuccessInv'
  BY <1>1, <1>2 DEF FetchInv, ResultsInv, SuccessInv
<1> QED  BY <1>3, <1>4 DEF FetchInv

\* Every step of the goroutines keeps their invariant.
LEMMA FetchInvStep == FetchInv /\ [Next]_vars => FetchInv'
<1> SUFFICES ASSUME FetchInv, [Next]_vars PROVE FetchInv'
  OBVIOUS
<1>1. main \in {"trackers", "dht", "fetch", "returned"}
  BY DEF FetchInv, GoroutinesInv
<1>2. main = "trackers" => ret # "noMetadata"
  BY DEF FetchInv, SuccessInv
<1>3. ASSUME NEW t \in Trackers, Announcing(t) \/ SendResult(t) PROVE FetchInv'
  BY <1>1, <1>3, OutsideFetch DEF Announcing, SendResult, fetchVars
<1>4. CASE TakeAnswer \/ TrackersDone
  <2>1. UNCHANGED <<g, sem, resCh, received, got>> /\ main = "trackers"
    BY <1>4 DEF TakeAnswer, TrackersDone, fetchVars
  <2>2. main' \in {"trackers", "dht", "returned"} /\ ret' # "noMetadata"
    BY <1>2, <1>4, <2>1 DEF TakeAnswer, TrackersDone
  <2> QED  BY <2>1, <2>2, OutsideFetch
<1>5. CASE UNCHANGED vars
  BY <1>1, <1>5, OutsideFetch DEF vars, fetchVars
<1>6. CASE Caller
  BY <1>4, <1>6, FetchStarts, ResultTaken, FetchGivesUp DEF Caller
<1> QED
  BY <1>3, <1>5, <1>6, GoroutineStep DEF Next, Terminating

\* The tokens in sem are those of the goroutines that hold one, at most SemCap.
THEOREM SemaphoreExactHolds == Spec => []SemaphoreExact
<1>1. FetchInv => SemaphoreExact
  BY DEF FetchInv
<1> QED  BY <1>1, FetchInvInit, FetchInvStep, PTL DEF Spec

\* fetchMetadata gives up only when every peer was asked and none had the
\* metadata.
THEOREM GivesUpAfterAllHolds == Spec => []GivesUpAfterAll
<1>1. PeersInv /\ FetchInv => GivesUpAfterAll
  <2> SUFFICES ASSUME PeersInv, FetchInv, ret = "noMetadata"
               PROVE  \A p \in AddrsOf(allPeers) : got[p] = Failed
    BY DEF GivesUpAfterAll
  <2>1. main = "returned" /\ received = Len(allPeers) /\ received \in Nat
    BY DEF FetchInv, SuccessInv, ResultsInv
  <2>2. IsSeq(allPeers) /\ Apart(allPeers)
    BY <2>1 DEF PeersInv
  <2>3. IsFiniteSet(AddrsOf(allPeers)) /\ Cardinality(AddrsOf(allPeers)) = received
    BY <2>1, <2>2, ApartCount
  <2>4. Reporters \in SUBSET AddrsOf(allPeers)
    BY DEF FetchInv, GoroutinesInv, Reporters
  <2>5. /\ Cardinality(Reporters) <= received
        /\ Cardinality(AddrsOf(allPeers)) = Cardinality(Reporters) => AddrsOf(allPeers) = Reporters
    BY <2>3, <2>4, FS_Subset
  <2>6. Len(resCh) \in Nat /\ Cardinality(Reporters) = received + Len(resCh)
    BY DEF FetchInv, ResultsInv
  <2>7. Len(resCh) = 0 /\ Cardinality(Reporters) = received
    BY <2>1, <2>5, <2>6
  <2>8. AddrsOf(allPeers) = Reporters
    BY <2>3, <2>5, <2>7
  <2>9. "info" \notin Elements(resCh)
    BY <2>7 DEF Elements
  <2>10. \A p \in Reporters : got[p] # "info"
    BY <2>9 DEF FetchInv, SuccessInv
  <2>11. \A p \in Reporters : got[p] \in {"info", Failed}
    BY DEF FetchInv, GoroutinesInv, Reporters
  <2> QED  BY <2>8, <2>10, <2>11
<1> QED
  BY <1>1, TrackerInvInit, TrackerInvStep, PeersInvInit, PeersInvStep, FetchInvInit, FetchInvStep,
     PTL DEF Spec
=============================================================================
