------------------------------ MODULE MCWriter ------------------------------
(* Instances of Writer for TLC.                                            *)
EXTENDS Writer, FiniteSets

CONSTANTS MaxFiles, MaxFileLength

File(n) == [length |-> n, path |-> <<"dir", NotString>>]

\* One file, or up to MaxFiles files, with any piece length and with a number
\* of hashes that fits, or that is one too small or too large.
Layouts == {[length |-> n] : n \in 0 .. MaxFileLength} \cup
           {[files |-> [k \in DOMAIN s |-> File(s[k])]] :
              s \in UNION {[1 .. n -> 0 .. MaxFileLength] : n \in 1 .. MaxFiles}}

Dict(layout, pl, hashes) ==
    [k \in {"name", "pieceLength", "pieces"} \cup DOMAIN layout |->
        CASE k = "name" -> "name" [] k = "pieceLength" -> pl
          [] k = "pieces" -> hashes * HashLen [] OTHER -> layout[k]]

Fit(layout, pl) ==
    LET inf == ParseUnverified(Dict(layout, pl, 0))
    IN  (TotalLength(inf) + pl - 1) \div pl

Parsable ==
    UNION {{Dict(layout, pl, n) :
              n \in {Fit(layout, pl) + e : e \in {-1, 0, 1}} \cap Nat} :
              <<layout, pl>> \in Layouts \X (1 .. 3)}

\* A dictionary with one field broken.
Good == Dict([files |-> <<File(1), File(2)>>], 2, 2)
Broken ==
    {[k \in DOMAIN Good \ {key} |-> Good[k]] : key \in DOMAIN Good} \cup
    {[Good EXCEPT !.name = ""], [Good EXCEPT !.pieceLength = 0],
     [Good EXCEPT !.pieces = 3], [Good EXCEPT !.files = <<>>],
     [Good EXCEPT !.files[2] = [path |-> <<"dir">>]],
     [Good EXCEPT !.files[2] = [length |-> 1]],
     [Good EXCEPT !.files[1] = [length |-> 1, path |-> <<NotString>>]]}

SomeDicts == Parsable \cup Broken
=============================================================================
