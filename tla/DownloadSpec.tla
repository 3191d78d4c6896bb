---------------------------- MODULE DownloadSpec ----------------------------
(***************************************************************************)
(* What downloadPieces promises to its caller, seen from the disk and the  *)
(* returned error only: pieces reach the disk one at a time and once each, *)
(* success is reported when every piece is there, an error when some piece *)
(* is missing, and nothing is written after the return.  Module Download   *)
(* implements this specification.                                          *)
(***************************************************************************)
EXTENDS Naturals

CONSTANT Pieces

VARIABLES
    disk,       \* how often each piece was written
    outcome     \* "running", then what downloadPieces returned

Init ==
    /\ disk = [p \in Pieces |-> 0]
    /\ outcome = "running"

Store(p) ==
    /\ outcome = "running"
    /\ disk[p] = 0
    /\ disk' = [disk EXCEPT ![p] = 1]
    /\ UNCHANGED outcome

Succeed ==
    /\ outcome = "running"
    /\ \A p \in Pieces : disk[p] = 1
    /\ outcome' = "ok"
    /\ UNCHANGED disk

Fail ==
    /\ outcome = "running"
    /\ \E p \in Pieces : disk[p] = 0
    /\ outcome' \in {"allFailed", "writeError"}
    /\ UNCHANGED disk

Next == (\E p \in Pieces : Store(p)) \/ Succeed \/ Fail

Spec == Init /\ [][Next]_<<disk, outcome>>
=============================================================================
