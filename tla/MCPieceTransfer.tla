-------------------------- MODULE MCPieceTransfer ---------------------------
(* Instances of PieceTransfer for TLC.                                     *)
EXTENDS PieceTransfer, TLC

CONSTANTS d1, d2, b1, b2, b3

OneDownload  == {d1}
TwoDownloads == {d1, d2}
TwoBuffers   == {b1, b2}
ThreeBuffers == {b1, b2, b3}

\* A full piece with a short last block, a shorter last piece, and a piece whose
\* hash lies behind the total length.
ThreeAndOne == (0 :> 3) @@ (1 :> 1) @@ (2 :> -2)
FiveAndTwo  == (0 :> 5) @@ (1 :> 2)

\* An honest peer beside one that sends anything.
HonestAndAny == {(d1 :> "honest") @@ (d2 :> "any")}
LatePeer     == [OneDownload -> {"late"}]

BufferSymmetry == Permutations(ThreeBuffers)
=============================================================================
