-------------------------- MODULE MCEndgameTracker --------------------------
(* An instance of EndgameTracker for TLC.                                  *)
EXTENDS EndgameTracker, TLC

CONSTANTS a, b, c

ThreePieces == {a, b, c}
AllBitfields == SUBSET ThreePieces
Symmetry == Permutations(ThreePieces)
=============================================================================
