--------------------------- MODULE MCMetadataRead ---------------------------
(* Instances of MetadataRead for TLC.                                      *)
EXTENDS MetadataRead

\* A multiple of the metadata piece size, and one with a short last piece.
TwoSizes == {4, 5}

\* No size, the true sizes, sizes one off, one with a piece too many, a negative
\* one, and one that is longer than MaxAlloc.
Declared == {-3, 0, 3, 4, 5, 6, 7, 9}
=============================================================================
