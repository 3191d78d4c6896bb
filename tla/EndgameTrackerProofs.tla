------------------------ MODULE EndgameTrackerProofs ------------------------
(***************************************************************************)
(* Proofs about module EndgameTracker, for every set of pieces and of peer *)
(* bitfields.                                                              *)
(***************************************************************************)
EXTENDS EndgameTracker, FiniteSetTheorems, FunctionTheorems, SequenceTheorems,
        WellFoundedInduction, TLAPS

-----------------------------------------------------------------------------
(* Facts about numbers                                                     *)

\* A set of numbers has a least element.
LEMMA LeastNat ==
    ASSUME NEW T \in SUBSET Nat, T # {}
    PROVE  \E x \in T : \A y \in T : x <= y
<1> DEFINE R == OpToRel(<, Nat)
<1>1. IsWellFoundedOn(R, Nat)
  BY NatLessThanWellFounded
<1>2. \A x, y \in Nat : <<x, y>> \in R <=> x < y
  BY DEF OpToRel
<1> HIDE DEF R
<1>3. PICK x \in T : \A y \in T : ~(<<y, x>> \in R)
  BY <1>1, WFMin
<1>4. \A y \in T : x \in Nat /\ y \in Nat /\ ~(y < x)
  BY <1>2, <1>3
<1>5. \A y \in T : x <= y
  BY <1>4
<1> QED  BY <1>3, <1>5

\* The remainders of the offsets of one turn and of the next.
LEMMA ModTurn ==
    ASSUME NEW n \in Nat \ {0}, NEW a \in Nat
    PROVE  /\ a % n \in 0 .. n - 1
           /\ a < n => a % n = a
           /\ a >= n /\ a < n + n => a % n = a - n
<1>1. a % n \in 0 .. n - 1
  OBVIOUS
<1>2. a < n => a % n = a
  OBVIOUS
<1>3. a >= n /\ a < n + n => a % n = a - n
  OBVIOUS
<1> QED  BY <1>1, <1>2, <1>3

\* Quotient and remainder.
LEMMA DivMod ==
    ASSUME NEW n \in Int, n > 0, NEW a \in Int
    PROVE  a = n * (a \div n) + (a % n)
  OBVIOUS

\* Less than a whole turn apart, the remainders differ.
LEMMA ModApart ==
    ASSUME NEW n \in Int, n > 0, NEW a \in Int, NEW b \in Int, a < b, b < a + n
    PROVE  a % n # b % n
<1>1. a \div n \in Int /\ b \div n \in Int /\ a % n \in Int /\ b % n \in Int
  OBVIOUS
<1>2. a = n * (a \div n) + (a % n) /\ b = n * (b \div n) + (b % n)
  BY DivMod
<1>3. ASSUME NEW p \in Int, NEW q \in Int, NEW r \in Int, a = n * p + r, b = n * q + r
      PROVE  FALSE
  <2>1. b - a = n * (q - p)
    BY <1>3
  <2>2. CASE q - p <= 0
    <3>1. n * (q - p) <= 0
      BY <2>2
    <3> QED  BY <2>1, <3>1
  <2>3. CASE q - p >= 1
    <3>1. n * (q - p) >= n
      BY <2>3
    <3> QED  BY <2>1, <3>1
  <2> QED  BY <2>2, <2>3
<1> QED  BY <1>1, <1>2, <1>3

-----------------------------------------------------------------------------
(* The list                                                                *)

\* A list of pieces that are not completed, none of them twice.
ListInv ==
    /\ pieces \in Seq(Pieces) /\ completed \subseteq Pieces /\ offset \in Nat
    /\ \A i, j \in 1 .. Len(pieces) : i # j => pieces[i] # pieces[j]
    /\ \A i \in 1 .. Len(pieces) : pieces[i] \notin completed

\* The removal: the last piece takes the place of the removed one, and the list
\* holds the others, each once.
LEMMA WithoutPiece ==
    ASSUME ListInv, NEW p \in Listed
    PROVE  /\ Without(p) \in Seq(Pieces)
           /\ \A i, j \in 1 .. Len(Without(p)) : i # j => Without(p)[i] # Without(p)[j]
           /\ {Without(p)[i] : i \in 1 .. Len(Without(p))} = Listed \ {p}
<1> DEFINE n == Len(pieces)
           k == CHOOSE j \in 1 .. Len(pieces) : pieces[j] = p
           s == [pieces EXCEPT ![k] = pieces[Len(pieces)]]
           t == SubSeq(s, 1, Len(pieces) - 1)
<1>1. n \in Nat /\ n > 0 /\ pieces \in [1 .. n -> Pieces]
  BY DEF ListInv, Listed
<1>2. k \in 1 .. n /\ pieces[k] = p
  BY DEF Listed
<1>3. Without(p) = t
  BY DEF Without
<1>4. \A i \in 1 .. n : s[i] = IF i = k THEN pieces[n] ELSE pieces[i]
  BY <1>1, <1>2
<1> HIDE DEF k, s
<1>5. \A i \in 1 .. n - 1 : s[i] \in Pieces
  BY <1>1, <1>4
<1>6. /\ t \in Seq(Pieces) /\ Len(t) = n - 1
      /\ \A i \in 1 .. n - 1 : t[i] = s[i]
  <2>1. /\ SubSeq(s, 1, n - 1) \in Seq(Pieces)
        /\ Len(SubSeq(s, 1, n - 1)) = IF 1 <= n - 1 THEN n - 1 - 1 + 1 ELSE 0
        /\ \A i \in 1 .. n - 1 - 1 + 1 : SubSeq(s, 1, n - 1)[i] = s[1 + i - 1]
    BY <1>1, <1>5, SubSeqProperties
  <2>2. \A i \in 1 .. n - 1 : i \in 1 .. n - 1 - 1 + 1 /\ 1 + i - 1 = i
    BY <1>1
  <2> QED  BY <1>1, <2>1, <2>2
<1>7. \A i \in 1 .. n - 1 : t[i] = IF i = k THEN pieces[n] ELSE pieces[i]
  BY <1>1, <1>4, <1>6
<1> HIDE DEF t, n
<1>8. \A i, j \in 1 .. n : i # j => pieces[i] # pieces[j]
  BY DEF ListInv, n
<1>9. \A i, j \in 1 .. n - 1 : i # j => t[i] # t[j]
  BY <1>1, <1>7, <1>8
<1>10. ASSUME NEW i \in 1 .. n - 1 PROVE t[i] \in Listed \ {p}
  BY <1>1, <1>2, <1>7, <1>8 DEF Listed, n
<1>11. ASSUME NEW q \in Listed \ {p} PROVE \E i \in 1 .. n - 1 : t[i] = q
  <2>1. PICK j \in 1 .. n : pieces[j] = q
    BY DEF Listed, n
  <2>2. j # k
    BY <1>2, <2>1
  <2>3. CASE j = n
    <3>1. k \in 1 .. n - 1
      BY <1>1, <1>2, <2>2, <2>3
    <3>2. t[k] = q
      BY <1>7, <2>1, <2>3, <3>1
    <3> QED  BY <3>1, <3>2
  <2>4. CASE j # n
    <3>1. j \in 1 .. n - 1
      BY <1>1, <2>4
    <3>2. t[j] = q
      BY <1>7, <2>1, <2>2, <3>1
    <3> QED  BY <3>1, <3>2
  <2> QED  BY <2>3, <2>4
<1> QED  BY <1>3, <1>6, <1>9, <1>10, <1>11

\* PickPiece visits every position of the list in one turn.
LEMMA VisitsAll ==
    ASSUME ListInv, pieces # <<>>, NEW k \in Nat
    PROVE  /\ \A i \in Turn : Visit(k, i) \in 1 .. Len(pieces)
           /\ \A j \in 1 .. Len(pieces) : \E i \in Turn : Visit(k, i) = j
           /\ 0 \in Turn /\ Visit(k, 0) = 1 + (k % Len(pieces))
<1> DEFINE n == Len(pieces)
           a == k % n
<1>1. n \in Nat \ {0}
  BY EmptySeq, LenProperties DEF ListInv
<1>2. a \in 0 .. n - 1
  BY <1>1, ModTurn
<1>3. \A i \in 0 .. n - 1 : Visit(k, i) = 1 + ((a + i) % n)
  BY DEF Visit, Start
<1>4. Turn = 0 .. n - 1
  BY DEF Turn
<1> HIDE DEF a, n
<1>5. \A i \in 0 .. n - 1 : Visit(k, i) \in 1 .. n
  <2>1. ASSUME NEW i \in 0 .. n - 1 PROVE (a + i) % n \in 0 .. n - 1
    <3>1. a + i \in Nat
      BY <1>1, <1>2
    <3> QED  BY <1>1, <3>1, ModTurn
  <2>2. ASSUME NEW i \in 0 .. n - 1 PROVE 1 + ((a + i) % n) \in 1 .. n
    <3>1. \A x \in 0 .. n - 1 : 1 + x \in 1 .. n
      BY <1>1
    <3> QED  BY <2>1, <3>1
  <2> QED  BY <1>3, <2>2
<1>6. ASSUME NEW j \in 1 .. n PROVE \E i \in 0 .. n - 1 : Visit(k, i) = j
  <2>1. CASE j - 1 >= a
    <3>1. j - 1 - a \in 0 .. n - 1 /\ a + (j - 1 - a) = j - 1 /\ j - 1 \in Nat /\ j - 1 < n
      BY <1>1, <1>2, <2>1
    <3>2. (j - 1) % n = j - 1
      BY <1>1, <3>1, ModTurn
    <3>3. Visit(k, j - 1 - a) = j
      BY <1>3, <3>1, <3>2
    <3> QED  BY <3>1, <3>3
  <2>2. CASE j - 1 < a
    <3>1. PICK x \in Nat : x = j - 1 + n
      BY <1>1
    <3>2. x >= n /\ x < n + n
      BY <1>1, <1>2, <2>2, <3>1
    <3>3. x % n = x - n
      BY <1>1, <3>2, ModTurn
    <3>4. PICK i \in 0 .. n - 1 : i = x - a
      BY <1>1, <1>2, <2>2, <3>1
    <3>5. a + i = x
      BY <1>1, <1>2, <3>4
    <3>6. Visit(k, i) = j
      BY <1>1, <1>3, <3>1, <3>3, <3>5
    <3> QED  BY <3>6
  <2> QED  BY <1>1, <1>2, <2>1, <2>2
<1>7. 0 \in 0 .. n - 1 /\ Visit(k, 0) = 1 + a
  <2>1. a \in Nat /\ a < n /\ a + 0 = a /\ 0 \in 0 .. n - 1
    BY <1>1, <1>2
  <2>2. a % n = a
    BY <1>1, <2>1, ModTurn
  <2> QED  BY <1>3, <2>1, <2>2
<1> QED  BY <1>4, <1>5, <1>6, <1>7 DEF n, a

\* PickPiece returns a listed piece that the peer has, nil only if there is
\* none, and the piece at the offset to a peer that has every piece.
LEMMA ChosenPiece ==
    ASSUME ListInv, pieces # <<>>, NEW k \in Nat, NEW has
    PROVE  /\ Listed \cap has = {} => Chosen(k, has) = NoPiece
           /\ Listed \cap has # {} => Chosen(k, has) \in Listed \cap has
           /\ has = Pieces => Chosen(k, has) = pieces[1 + (k % Len(pieces))]
<1> DEFINE hits == {i \in Turn : pieces[Visit(k, i)] \in has}
           least == CHOOSE i \in hits : \A j \in hits : i <= j
<1>1. Chosen(k, has) = IF hits = {} THEN NoPiece ELSE pieces[Visit(k, least)]
  BY DEF Chosen
<1>2. hits \in SUBSET Nat /\ \A i \in Turn : i >= 0 /\ i \in Int
  BY DEF Turn
<1>3. hits = {} <=> Listed \cap has = {}
  BY VisitsAll DEF Listed
<1>4. ASSUME hits # {} PROVE least \in hits /\ \A j \in hits : least <= j
  <2>1. \E i \in hits : \A j \in hits : i <= j
    BY <1>2, <1>4, LeastNat
  <2> HIDE DEF hits
  <2> QED  BY <2>1
<1>5. ASSUME hits # {} PROVE pieces[Visit(k, least)] \in Listed \cap has
  <2> HIDE DEF least
  <2> QED  BY <1>4, <1>5, VisitsAll DEF Listed
<1>6. ASSUME has = Pieces PROVE hits # {} /\ least = 0
  <2>1. 0 \in hits
    BY <1>6, VisitsAll, ElementOfSeq DEF ListInv
  <2>2. least \in hits /\ least <= 0
    BY <1>4, <2>1
  <2> QED  BY <1>2, <2>1, <2>2
<1> HIDE DEF hits, least
<1> QED  BY <1>1, <1>3, <1>5, <1>6, VisitsAll

\* The list after AddPiece.
LEMMA AddedPiece ==
    ASSUME ListInv, NEW p \in Pieces, p \notin Listed
    PROVE  /\ Append(pieces, p) \in Seq(Pieces)
           /\ \A i, j \in 1 .. Len(Append(pieces, p)) :
                 i # j => Append(pieces, p)[i] # Append(pieces, p)[j]
           /\ {Append(pieces, p)[i] : i \in 1 .. Len(Append(pieces, p))} = Listed \cup {p}
<1> DEFINE n == Len(pieces)
           t == Append(pieces, p)
<1>1. n \in Nat
  BY LenProperties DEF ListInv
<1>2. /\ t \in Seq(Pieces) /\ Len(t) = n + 1
      /\ \A i \in 1 .. n : t[i] = pieces[i]
      /\ t[n + 1] = p
  BY AppendProperties DEF ListInv
<1>3. \A i, j \in 1 .. n : i # j => pieces[i] # pieces[j]
  BY DEF ListInv
<1>4. \A i \in 1 .. n : pieces[i] # p
  BY DEF Listed
<1>5. Listed = {pieces[i] : i \in 1 .. n}
  BY DEF Listed
<1> HIDE DEF n, t
<1>6. 1 .. n + 1 = (1 .. n) \cup {n + 1} /\ n + 1 \notin 1 .. n
  BY <1>1
<1>7. \A i, j \in 1 .. n + 1 : i # j => t[i] # t[j]
  BY <1>2, <1>3, <1>4, <1>6
<1>8. {t[i] : i \in 1 .. n + 1} = Listed \cup {p}
  BY <1>2, <1>5, <1>6
<1> QED  BY <1>2, <1>7, <1>8 DEF t

\* ListInv is inductive.
LEMMA ListStep == ListInv /\ [Next]_vars => ListInv'
<1> SUFFICES ASSUME ListInv, [Next]_vars PROVE ListInv'
  OBVIOUS
<1>1. \A i \in 1 .. Len(pieces) : pieces[i] \in Listed /\ pieces[i] \notin completed
  BY DEF ListInv, Listed
<1>2. ASSUME NEW p \in Pieces, AddPiece(p) PROVE ListInv'
  <2>1. CASE p \in completed
    BY <1>2, <2>1 DEF AddPiece, ListInv
  <2>2. CASE p \notin completed
    <3>1. pieces' = Append(pieces, p) /\ UNCHANGED <<completed, offset>> /\ p \notin Listed
      BY <1>2, <2>2 DEF AddPiece
    <3>2. \A i \in 1 .. Len(pieces') : pieces'[i] \in Listed \cup {p}
      BY <3>1, AddedPiece
    <3>3. \A i \in 1 .. Len(pieces') : pieces'[i] \notin completed
      BY <1>1, <2>2, <3>2 DEF Listed
    <3> QED  BY <3>1, <3>3, AddedPiece DEF ListInv
  <2> QED  BY <2>1, <2>2
<1>3. ASSUME NEW p \in Pieces, Complete(p) PROVE ListInv'
  <2>1. completed' = completed \cup {p} /\ UNCHANGED offset
    BY <1>3 DEF Complete
  <2>2. CASE p \in completed
    <3>1. UNCHANGED <<pieces, completed>>
      BY <1>3, <2>1, <2>2 DEF Complete
    <3> QED  BY <2>1, <3>1 DEF ListInv
  <2>3. CASE p \notin completed /\ p \in Listed
    <3>1. pieces' = Without(p)
      BY <1>3, <2>3 DEF Complete
    <3>2. \A i \in 1 .. Len(pieces') : pieces'[i] \in Listed \ {p}
      BY <2>3, <3>1, WithoutPiece
    <3>3. \A i \in 1 .. Len(pieces') : pieces'[i] \notin completed'
      BY <1>1, <2>1, <3>2 DEF Listed
    <3> QED  BY <2>1, <2>3, <3>1, <3>3, WithoutPiece DEF ListInv
  <2>4. CASE p \notin Listed /\ p \notin completed
    <3>1. pieces' = pieces
      BY <1>3, <2>4 DEF Complete, Without
    <3> QED  BY <1>1, <2>1, <2>4, <3>1 DEF ListInv, Listed
  <2> QED  BY <2>2, <2>3, <2>4
<1>4. ASSUME NEW has \in Bitfields, PickPiece(has) \/ PickEmpty(has) PROVE ListInv'
  BY <1>4 DEF PickPiece, PickEmpty, ListInv
<1>5. CASE UNCHANGED vars
  BY <1>5 DEF vars, ListInv
<1> QED  BY <1>2, <1>3, <1>4, <1>5 DEF Next

\* A list without repetitions is as long as the set of its pieces.
LEMMA ListedCount == ListInv => ListedOnce
<1> SUFFICES ASSUME ListInv PROVE ListedOnce
  OBVIOUS
<1> DEFINE n == Len(pieces)
<1>1. n \in Nat /\ pieces \in [1 .. n -> Pieces]
  BY LenProperties DEF ListInv
<1>2. IsFiniteSet(1 .. n) /\ Cardinality(1 .. n) = n
  BY <1>1, FS_Interval
<1>3. ExistsBijection(1 .. n, Listed)
  <2>1. pieces \in Injection(1 .. n, Listed)
    BY <1>1 DEF Listed, ListInv, Injection, IsInjective
  <2>2. pieces \in Surjection(1 .. n, Listed)
    BY <1>1 DEF Listed, Surjection
  <2> QED  BY <2>1, <2>2 DEF ExistsBijection, Bijection
<1>4. Cardinality(Listed) = n
  BY <1>2, <1>3, FS_Bijection
<1> QED  BY <1>4 DEF ListedOnce, ListInv, Listed

-----------------------------------------------------------------------------
(* The round robin                                                         *)

\* The picks since the last change of the list are the pieces at the last
\* offsets, at most one turn of them.
RoundInv ==
    /\ recent \in Seq(Pieces)
    /\ Len(recent) <= Len(pieces)
    /\ Len(recent) <= offset
    /\ \A i \in 1 .. Len(recent) :
          recent[i] = pieces[1 + ((offset - Len(recent) + i) % Len(pieces))]

\* RoundInv is inductive, given the list.
LEMMA RoundStep == ListInv /\ RoundInv /\ [Next]_vars => RoundInv'
<1> SUFFICES ASSUME ListInv, RoundInv, [Next]_vars PROVE RoundInv'
  OBVIOUS
<1>1. ListInv'
  BY ListStep
<1>2. Len(recent) \in Nat /\ Len(pieces) \in Nat /\ offset \in Nat
      /\ Len(pieces') \in Nat /\ offset' \in Nat
  BY <1>1, LenProperties DEF ListInv, RoundInv
<1>3. ASSUME recent' = <<>> PROVE RoundInv'
  BY <1>2, <1>3 DEF RoundInv
<1>4. ASSUME UNCHANGED <<pieces, offset, recent>> PROVE RoundInv'
  BY <1>4 DEF RoundInv
<1>5. ASSUME NEW has \in Bitfields, PickPiece(has), has = Pieces PROVE RoundInv'
  <2> DEFINE n == Len(pieces)
             p == Chosen(offset + 1, has)
  <2>1. /\ pieces # <<>> /\ offset' = offset + 1 /\ UNCHANGED pieces
        /\ recent' = IF Len(recent) = n THEN <<p>> ELSE Append(recent, p)
    BY <1>5 DEF PickPiece, Remember
  <2>2. n \in Nat \ {0} /\ n = Len(pieces) /\ n = Len(pieces')
    BY <2>1, EmptySeq, LenProperties DEF ListInv
  <2>3. p = pieces[1 + ((offset + 1) % n)]
    BY <1>2, <1>5, <2>1, ChosenPiece
  <2>4. p \in Pieces
    <3>1. offset + 1 \in Nat
      BY <1>2
    <3>2. (offset + 1) % n \in 0 .. n - 1
      BY <2>2, <3>1, ModTurn
    <3>3. 1 + ((offset + 1) % n) \in 1 .. n
      <4>1. \A x \in 0 .. n - 1 : 1 + x \in 1 .. n
        BY <2>2
      <4> QED  BY <3>2, <4>1
    <3> QED  BY <2>3, <3>3, ElementOfSeq DEF ListInv
  <2> HIDE DEF n, p
  <2>5. CASE Len(recent) = n
    <3>1. recent' = <<p>> /\ Len(recent') = 1 /\ recent'[1] = p /\ recent' \in Seq(Pieces)
      BY <2>1, <2>4, <2>5
    <3>2. offset' - 1 + 1 = offset + 1
      BY <1>2, <2>1
    <3>3. recent'[1] = pieces'[1 + ((offset' - Len(recent') + 1) % Len(pieces'))]
      BY <2>1, <2>2, <2>3, <3>1, <3>2
    <3>4. \A i \in 1 .. Len(recent') : i = 1
      BY <3>1
    <3>5. Len(recent') <= Len(pieces') /\ Len(recent') <= offset'
      BY <1>2, <2>1, <2>2, <3>1
    <3> QED  BY <3>1, <3>3, <3>4, <3>5 DEF RoundInv
  <2>6. CASE Len(recent) # n
    <3> DEFINE k == Len(recent)
    <3>1. /\ recent' \in Seq(Pieces) /\ Len(recent') = k + 1
          /\ \A i \in 1 .. k : recent'[i] = recent[i]
          /\ recent'[k + 1] = p
      BY <2>1, <2>4, <2>6, AppendProperties DEF RoundInv
    <3>2. k \in Nat /\ k <= n /\ k <= offset
      BY <1>2, <2>2 DEF RoundInv
    <3>3. \A i \in 1 .. k : recent[i] = pieces[1 + ((offset - k + i) % n)]
      BY <2>2 DEF RoundInv
    <3> HIDE DEF k
    <3>4. ASSUME NEW i \in 1 .. k + 1
          PROVE  recent'[i] = pieces[1 + ((offset' - (k + 1) + i) % n)]
      <4>1. offset' - (k + 1) + i = offset - k + i
        BY <1>2, <2>1, <3>2
      <4>2. CASE i \in 1 .. k
        BY <3>1, <3>3, <4>1, <4>2
      <4>3. CASE i = k + 1
        <5>1. offset - k + i = offset + 1
          BY <1>2, <3>2, <4>3
        <5> QED  BY <2>3, <3>1, <4>1, <4>3, <5>1
      <4> QED  BY <3>2, <4>2, <4>3
    <3>5. k + 1 <= n /\ k + 1 <= offset'
      BY <1>2, <2>1, <2>2, <2>6, <3>2 DEF k
    <3> QED  BY <2>1, <2>2, <3>1, <3>4, <3>5 DEF RoundInv
  <2> QED  BY <2>5, <2>6
<1>6. ASSUME NEW has \in Bitfields, PickPiece(has), has # Pieces PROVE RoundInv'
  BY <1>3, <1>6 DEF PickPiece
<1>7. ASSUME NEW has \in Bitfields, PickEmpty(has) PROVE RoundInv'
  BY <1>4, <1>7 DEF PickEmpty
<1>8. ASSUME NEW p \in Pieces, AddPiece(p) \/ Complete(p) PROVE RoundInv'
  BY <1>3, <1>8 DEF AddPiece, Complete
<1>9. CASE UNCHANGED vars
  BY <1>4, <1>9 DEF vars
<1> QED  BY <1>5, <1>6, <1>7, <1>8, <1>9 DEF Next

\* The last picks of a turn are different pieces.
LEMMA RoundApart == ListInv /\ RoundInv => RoundRobin
<1> SUFFICES ASSUME ListInv, RoundInv PROVE RoundRobin
  OBVIOUS
<1> DEFINE n == Len(pieces)
           k == Len(recent)
           pos(i) == offset - k + i
<1>1. n \in Nat /\ k \in Nat /\ offset \in Nat /\ k <= n /\ k <= offset
  BY LenProperties DEF ListInv, RoundInv
<1>2. \A i \in 1 .. k : recent[i] = pieces[1 + (pos(i) % n)]
  BY DEF RoundInv
<1>3. \A i, j \in 1 .. n : i # j => pieces[i] # pieces[j]
  BY DEF ListInv
<1> SUFFICES ASSUME NEW i \in 1 .. k, NEW j \in 1 .. k, i < j PROVE recent[i] # recent[j]
  <2>1. \A i, j \in 1 .. k : i # j => i < j \/ j < i
    BY <1>1
  <2> QED  BY <2>1, ListedCount DEF RoundRobin
<1> HIDE DEF n, k
<1>4. n \in Nat \ {0} /\ n > 0 /\ n \in Int
  BY <1>1
<1>5. PICK a \in Nat : a = pos(i)
  BY <1>1
<1>6. PICK b \in Nat : b = pos(j)
  BY <1>1
<1>7. a < b /\ b < a + n
  BY <1>1, <1>5, <1>6
<1>8. a % n # b % n
  BY <1>4, <1>7, ModApart
<1>9. a % n \in 0 .. n - 1 /\ b % n \in 0 .. n - 1
  BY <1>4, ModTurn
<1>10. \A x, y \in 0 .. n - 1 : x # y => 1 + x \in 1 .. n /\ 1 + y \in 1 .. n /\ 1 + x # 1 + y
  BY <1>4
<1>11. recent[i] = pieces[1 + (a % n)] /\ recent[j] = pieces[1 + (b % n)]
  BY <1>2, <1>5, <1>6
<1> QED  BY <1>3, <1>8, <1>9, <1>10, <1>11

\* At the start the list is empty.
LEMMA TrackerInit == Init => ListInv /\ RoundInv
  BY DEF Init, ListInv, RoundInv

\* The swap in Complete keeps a list without repetitions, and the offset sends
\* peers that have every piece to each listed piece once a turn.
THEOREM RoundRobinHolds == Spec => []RoundRobin
  BY TrackerInit, ListStep, RoundStep, RoundApart, PTL DEF Spec

-----------------------------------------------------------------------------
(* The refinement                                                          *)

\* Every call has the effect and the answer of its abstract one.
LEMMA TrackerRefines ==
    ListInv /\ [Next]_vars => [Abstract!Next]_<<Listed, completed, answer>>
<1> SUFFICES ASSUME ListInv, [Next]_vars
             PROVE  Abstract!Next \/ UNCHANGED <<Listed, completed, answer>>
  OBVIOUS
<1>1. ASSUME NEW p \in Pieces, AddPiece(p) PROVE Abstract!AddPiece(p)
  <2>1. p \in completed => Listed' = Listed
    BY <1>1 DEF AddPiece, Listed
  <2>2. p \notin completed => Listed' = Listed \cup {p}
    BY <1>1, AddedPiece DEF AddPiece, Listed
  <2> QED  BY <1>1, <2>1, <2>2 DEF AddPiece, Abstract!AddPiece
<1>2. ASSUME NEW p \in Pieces, Complete(p) PROVE Abstract!Complete(p)
  <2>1. Listed' = Listed \ {p}
    <3>1. CASE p \in completed
      BY <1>2, <3>1 DEF Complete, Listed, ListInv
    <3>2. CASE p \notin completed /\ p \in Listed
      BY <1>2, <3>2, WithoutPiece DEF Complete, Listed
    <3>3. CASE p \notin Listed /\ p \notin completed
      <4>1. pieces' = pieces
        BY <1>2, <3>3 DEF Complete, Without
      <4> QED  BY <3>3, <4>1 DEF Listed
    <3> QED  BY <3>1, <3>2, <3>3
  <2> QED  BY <1>2, <2>1 DEF Complete, Abstract!Complete
<1>3. ASSUME NEW has \in Bitfields, PickPiece(has) PROVE Abstract!PickPiece(has)
  <2> DEFINE p == Chosen(offset + 1, has)
  <2>1. pieces # <<>> /\ UNCHANGED <<pieces, completed>> /\ answer' = <<"pick", has, p>>
    BY <1>3 DEF PickPiece
  <2>2. offset + 1 \in Nat
    BY DEF ListInv
  <2>3. /\ Listed \cap has = {} => p = NoPiece
        /\ Listed \cap has # {} => p \in Listed \cap has
    BY <2>1, <2>2, ChosenPiece
  <2> HIDE DEF p
  <2>4. p \in IF Listed \cap has = {} THEN {NoPiece} ELSE Listed \cap has
    BY <2>3
  <2>5. Listed' = Listed
    BY <2>1 DEF Listed
  <2> QED  BY <2>1, <2>4, <2>5 DEF Abstract!PickPiece
<1>4. ASSUME NEW has \in Bitfields, PickEmpty(has) PROVE Abstract!PickPiece(has)
  <2>1. Listed = {} /\ UNCHANGED <<pieces, completed>> /\ answer' = <<"pick", has, NoPiece>>
    BY <1>4 DEF PickEmpty, Listed
  <2>2. Listed' = Listed
    BY <2>1 DEF Listed
  <2> QED  BY <2>1, <2>2 DEF Abstract!PickPiece
<1>5. CASE UNCHANGED vars
  BY <1>5 DEF vars, Listed
<1> QED  BY <1>1, <1>2, <1>3, <1>4, <1>5 DEF Next, Abstract!Next

\* The list with its offset and its swap implements the set of offered pieces
\* that module Download uses.
THEOREM TrackerImplementsSpec == Spec => ImplementsTrackerSpec
<1>1. Init => Abstract!Init
  BY DEF Init, Abstract!Init, Listed
<1> QED
  BY <1>1, TrackerInit, ListStep, TrackerRefines, PTL
  DEF Spec, ImplementsTrackerSpec, Abstract!Spec
=============================================================================
