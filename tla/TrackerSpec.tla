---------------------------- MODULE TrackerSpec -----------------------------
(***************************************************************************)
(* What the endgame tracker promises: a set of offered pieces, from which  *)
(* PickPiece returns some piece the peer has and nil only if there is none,*)
(* and Complete withdraws a piece and tells the first caller from the      *)
(* others.  Module Download uses the tracker through this set.             *)
(***************************************************************************)
CONSTANTS Pieces, Bitfields, NoPiece

VARIABLES
    offered,    \* the pieces that PickPiece may return
    finished,   \* the pieces for which Complete was called
    answer      \* the last call and what it returned

Init == offered = {} /\ finished = {} /\ answer = <<"new">>

AddPiece(p) ==
    /\ offered' = IF p \in finished THEN offered ELSE offered \cup {p}
    /\ answer' = <<"add">>
    /\ UNCHANGED finished

PickPiece(has) ==
    /\ answer' \in {<<"pick", has, p>> :
                      p \in IF offered \cap has = {} THEN {NoPiece}
                                                     ELSE offered \cap has}
    /\ UNCHANGED <<offered, finished>>

Complete(p) ==
    /\ offered' = offered \ {p}
    /\ finished' = finished \cup {p}
    /\ answer' = <<"complete", p, p \notin finished>>

Next ==
    \/ \E p \in Pieces : AddPiece(p) \/ Complete(p)
    \/ \E has \in Bitfields : PickPiece(has)

Spec == Init /\ [][Next]_<<offered, finished, answer>>
=============================================================================
