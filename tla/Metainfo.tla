------------------------------ MODULE Metainfo ------------------------------
(***************************************************************************)
(* Package metainfo: ParseUnverified, from the decoded dictionary to an    *)
(* Info, and the sizes the rest of the program computes from it.           *)
(*                                                                         *)
(* A dictionary is a record that has the keys whose value is present and   *)
(* of the expected type.  The string of hashes is its length; names are    *)
(* empty or not; the text of a path component does not matter.             *)
(***************************************************************************)
EXTENDS Integers, Sequences

CONSTANT HashLen    \* 20 in the code

ASSUME HashLenAssumption == HashLen \in Nat \ {0}

NotString == "not a string"

\* The path of a file: components that are no strings are left out.
Path(f) == SelectSeq(f.path, LAMBDA c : c # NotString)

FileOK(f) == {"length", "path"} \subseteq DOMAIN f /\ Path(f) # <<>>

SingleFile(dict) == "length" \in DOMAIN dict

\* ParseUnverified returns an Info; files are looked at only without a length.
Accepts(dict) ==
    /\ {"name", "pieceLength", "pieces"} \subseteq DOMAIN dict
    /\ dict.name # ""
    /\ dict.pieceLength > 0
    /\ dict.pieces % HashLen = 0
    /\ \/ SingleFile(dict)
       \/ /\ "files" \in DOMAIN dict
          /\ dict.files # <<>>
          /\ \A k \in DOMAIN dict.files : FileOK(dict.files[k])

ParseUnverified(dict) ==
    [pieceLength |-> dict.pieceLength,
     numPieces   |-> dict.pieces \div HashLen,
     length      |-> IF SingleFile(dict) THEN dict.length ELSE 0,
     files       |-> IF SingleFile(dict) THEN <<>>
                     ELSE [k \in DOMAIN dict.files |->
                             [length |-> dict.files[k].length,
                              path   |-> Path(dict.files[k])]]]

\* The sums of the first n lengths, as a loop over them adds them up.
PrefixSums(lens) ==
    LET sum[n \in 0 .. Len(lens)] == IF n = 0 THEN 0 ELSE sum[n - 1] + lens[n]
    IN  sum
Sum(lens) == PrefixSums(lens)[Len(lens)]

FileLengths(info) == [k \in DOMAIN info.files |-> info.files[k].length]

TotalLength(info) ==
    IF info.length > 0 THEN info.length ELSE Sum(FileLengths(info))

\* Piece i counts from 0; the last one may be smaller.
PieceSize_Modulo(info, i) ==
    IF i = info.numPieces - 1 THEN TotalLength(info) % info.pieceLength
                              ELSE info.pieceLength
PieceSize(info, i) ==
    LET remaining == TotalLength(info) - i * info.pieceLength
    IN  IF remaining < info.pieceLength THEN remaining ELSE info.pieceLength

\* The number of hashes is the number of pieces the data has.  The parser does
\* not check it.
HashesFit(info) ==
    info.numPieces =
        (TotalLength(info) + info.pieceLength - 1) \div info.pieceLength
=============================================================================
