---------------------------- MODULE MCDownload ----------------------------
(* Instances of Download for TLC.                                          *)
EXTENDS Download, TLC

CONSTANTS p1, p2    \* peer addresses

OnePeer  == {p1}
TwoPeers == {p1, p2}

\* The bitfields the peers of an instance may send.
SomePieces  == {{0}, Pieces}
NoBitfields == {}
NoPieces    == {{}}

\* The have messages they may send.
NoHaves  == {}
HaveZero == {0}
HaveLast == {NumPieces - 1}
=============================================================================
