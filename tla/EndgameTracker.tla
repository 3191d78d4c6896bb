--------------------------- MODULE EndgameTracker ---------------------------
(***************************************************************************)
(* endgameTracker: the list of pieces that all peers race for, its         *)
(* round-robin offset and its swap-with-the-last removal.  Every method    *)
(* holds e.mu for its whole body, so each is one action.                   *)
(***************************************************************************)
EXTENDS Integers, Sequences, FiniteSets

CONSTANTS
    Pieces,
    Bitfields,      \* the sets of pieces a peer may have
    NoPiece,        \* PickPiece returns nil
    MaxOffset       \* bound: number of picks

ASSUME TrackerAssumption ==
    /\ NoPiece \notin Pieces
    /\ Bitfields \subseteq SUBSET Pieces
    /\ MaxOffset \in Nat

VARIABLES
    pieces,         \* e.pieces
    completed,      \* e.completed
    offset,         \* e.offset
    answer,         \* the last call and what it returned
    recent          \* history: the last picks of peers that have every piece

vars == <<pieces, completed, offset, answer, recent>>

Listed == {pieces[i] : i \in 1 .. Len(pieces)}

Init ==
    /\ pieces = <<>>
    /\ completed = {}
    /\ offset = 0
    /\ answer = <<"new">>
    /\ recent = <<>>

\* transitionToEndgame adds each piece once.
AddPiece(p) ==
    /\ p \notin Listed
    /\ pieces' = IF p \in completed THEN pieces ELSE Append(pieces, p)
    /\ answer' = <<"add">>
    /\ recent' = <<>>
    /\ UNCHANGED <<completed, offset>>

\* The list positions in the order in which PickPiece visits them.
Start_Fixed(k) == 0
Start(k) == k % Len(pieces)
Visit(k, i) == 1 + ((Start(k) + i) % Len(pieces))

\* PickPiece makes one turn around the list.
Turn_Short == 0 .. Len(pieces) - 2
Turn == 0 .. Len(pieces) - 1

\* The first listed piece that the peer has.
Chosen(k, has) ==
    LET hits == {i \in Turn : pieces[Visit(k, i)] \in has}
    IN  IF hits = {} THEN NoPiece
        ELSE pieces[Visit(k, CHOOSE i \in hits : \A j \in hits : i <= j)]

\* The history is cut when the list is exhausted and a new round begins.
Remember(p) ==
    recent' = IF Len(recent) = Len(pieces) THEN <<p>> ELSE Append(recent, p)

PickPiece(has) ==
    /\ pieces # <<>>
    /\ offset < MaxOffset
    /\ offset' = offset + 1
    /\ answer' = <<"pick", has, Chosen(offset + 1, has)>>
    /\ IF has = Pieces THEN Remember(Chosen(offset + 1, has)) ELSE recent' = <<>>
    /\ UNCHANGED <<pieces, completed>>

PickEmpty(has) ==
    /\ pieces = <<>>
    /\ answer' = <<"pick", has, NoPiece>>
    /\ UNCHANGED <<pieces, completed, offset, recent>>

\* The last piece takes the place of the removed one.
Without(p) ==
    IF p \in Listed
    THEN LET i == CHOOSE j \in 1 .. Len(pieces) : pieces[j] = p
         IN  SubSeq([pieces EXCEPT ![i] = pieces[Len(pieces)]],
                    1, Len(pieces) - 1)
    ELSE pieces

Complete(p) ==
    /\ pieces' = IF p \in completed THEN pieces ELSE Without(p)
    /\ completed' = completed \cup {p}
    /\ answer' = <<"complete", p, p \notin completed>>
    /\ recent' = <<>>
    /\ UNCHANGED offset

Next ==
    \/ \E p \in Pieces : AddPiece(p) \/ Complete(p)
    \/ \E has \in Bitfields : PickPiece(has) \/ PickEmpty(has)

Spec == Init /\ [][Next]_vars

-----------------------------------------------------------------------------
(* Properties                                                              *)

\* A piece is listed once and never after it was completed, so one Complete
\* withdraws it.
ListedOnce ==
    /\ Cardinality(Listed) = Len(pieces)
    /\ Listed \cap completed = {}

\* The round robin spreads the workers: the swap in Complete leaves a list
\* without repetitions, and between two changes of it peers that have every
\* piece are sent to each listed piece once before any is offered again.
RoundRobin ==
    /\ ListedOnce
    /\ \A i, j \in 1 .. Len(recent) : i # j => recent[i] # recent[j]

\* The list implements the set of offered pieces.
Abstract == INSTANCE TrackerSpec WITH offered <- Listed, finished <- completed
ImplementsTrackerSpec == Abstract!Spec
=============================================================================
