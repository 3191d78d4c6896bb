------------------------------- MODULE Writer -------------------------------
(***************************************************************************)
(* From the metadata to the files: the parse of the info dictionary, the   *)
(* map from pieces to byte ranges of files (pieceSegments), the cached     *)
(* file handles, and WritePiece, which writes one segment after the other  *)
(* and may fail between two of them.                                       *)
(*                                                                         *)
(* A byte is named by its position in the torrent's data; a file by its    *)
(* place in the list, as if paths were distinct.                           *)
(***************************************************************************)
EXTENDS Metainfo

CONSTANT Dicts      \* the dictionaries considered, lengths not negative

IsSeq(s) == Len(s) \in Nat /\ s = [i \in 1 .. Len(s) |-> s[i]]

ASSUME WriterAssumption ==
    \A d \in Dicts :
        /\ "pieceLength" \in DOMAIN d => d.pieceLength \in Int
        /\ "pieces" \in DOMAIN d => d.pieces \in Nat
        /\ "length" \in DOMAIN d => d.length \in Nat
        /\ "files" \in DOMAIN d =>
              /\ IsSeq(d.files)
              /\ \A k \in 1 .. Len(d.files) :
                    "length" \in DOMAIN d.files[k] => d.files[k].length \in Nat

VARIABLES
    meta,                   \* the decoded info dictionary
    info,                   \* metainfo.Info, fixed once it is parsed
    wpc,                    \* "parse", "ready", "writing", "panic" or "closed"
    index,                  \* the piece of the running WritePiece
    todo, offset,           \* its segments left, and bytes of data written
    content,                \* per file, the byte written at each offset
    opened,                 \* per file, how often openFile opened it
    done                    \* the pieces WritePiece has returned nil for

vars == <<meta, info, wpc, index, todo, offset, content, opened, done>>

NoByte == -1
NoInfo == [pieceLength |-> 1, numPieces |-> 0, length |-> 0, files |-> <<>>]

-----------------------------------------------------------------------------
(* The layout of the torrent                                               *)

\* fileList: the lengths of the single file, or of the files.
FileList(inf) == IF inf.length > 0 THEN <<inf.length>> ELSE FileLengths(inf)
lengths == FileList(info)
Files == DOMAIN lengths

\* fileOffset and fileEnd of pieceSegments.
FileOffset(f) == PrefixSums(lengths)[f - 1]
FileEnd(f) == FileOffset(f) + lengths[f]

Pieces == 0 .. info.numPieces - 1
PieceStart(i) == i * info.pieceLength
PieceEnd(i) == PieceStart(i) + PieceSize(info, i)

Larger(a, b)  == IF a > b THEN a ELSE b
Smaller(a, b) == IF a < b THEN a ELSE b

Overlaps(f, i) == FileEnd(f) > PieceStart(i) /\ FileOffset(f) < PieceEnd(i)

Segment_FromPiece(f, i) ==
    [file   |-> f,
     offset |-> 0,
     length |-> Smaller(PieceEnd(i), FileEnd(f)) - Larger(PieceStart(i), FileOffset(f))]
Segment_WholeFile(f, i) ==
    [file |-> f, offset |-> 0, length |-> lengths[f]]
Segment(f, i) ==
    LET start == Larger(PieceStart(i), FileOffset(f))
        end   == Smaller(PieceEnd(i), FileEnd(f))
    IN  [file |-> f, offset |-> start - FileOffset(f), length |-> end - start]

\* The loop over the files adds a segment for each one that overlaps the piece.
\* It breaks at the first file behind the piece: none after it overlaps.
AddSegment(segments, f, i) ==
    IF Overlaps(f, i) THEN Append(segments, Segment(f, i)) ELSE segments
PieceSegments(i) ==
    LET segments[n \in 0 .. Len(lengths)] ==
            IF n = 0 THEN <<>> ELSE AddSegment(segments[n - 1], n, i)
    IN  segments[Len(lengths)]

-----------------------------------------------------------------------------
(* The writer                                                              *)

Empty(inf) == [f \in DOMAIN FileList(inf) |->
                 [o \in 0 .. FileList(inf)[f] - 1 |-> NoByte]]

Init ==
    /\ meta \in Dicts
    /\ info = NoInfo
    /\ wpc = "parse"
    /\ index = 0 /\ todo = <<>> /\ offset = 0
    /\ content = <<>> /\ opened = <<>> /\ done = {}

\* ParseUnverified; the download of the Info starts with NewWriter.
ParseInfo ==
    /\ wpc = "parse"
    /\ IF Accepts(meta)
       THEN /\ info' = ParseUnverified(meta)
            /\ wpc' = "ready"
            /\ content' = Empty(info')
            /\ opened' = [f \in DOMAIN content' |-> 0]
       ELSE wpc' = "closed" /\ UNCHANGED <<info, content, opened>>
    /\ UNCHANGED <<meta, index, todo, offset, done>>

\* The collector calls WritePiece once per piece, in any order.  DownloadPiece
\* cannot make a buffer for a piece of negative size.
WritePiece(i) ==
    /\ wpc = "ready"
    /\ i \notin done
    /\ PieceSize(info, i) >= 0
    /\ wpc' = "writing"
    /\ index' = i
    /\ todo' = PieceSegments(i)
    /\ offset' = 0
    /\ UNCHANGED <<meta, info, content, opened, done>>

\* openFile: a cached handle, or the file is created.
OpenFile(f) ==
    opened' = [opened EXCEPT ![f] = IF @ > 0 THEN @ ELSE 1]

\* WriteAt puts the first n bytes of a segment into its file.
WriteAt(seg, n) ==
    content' = [content EXCEPT ![seg.file] =
       [o \in 0 .. lengths[seg.file] - 1 |->
          IF o \in seg.offset .. seg.offset + n - 1
          THEN PieceStart(index) + offset + (o - seg.offset) ELSE @[o]]]

\* openFile and WriteAt for the next segment.  A slice of the data that is out
\* of bounds panics.
WriteSegment ==
    /\ wpc = "writing"
    /\ todo # <<>>
    /\ LET seg == Head(todo) IN
       /\ OpenFile(seg.file)
       /\ IF offset + seg.length <= PieceSize(info, index)
          THEN /\ WriteAt(seg, seg.length)
               /\ offset' = offset + seg.length
               /\ todo' = Tail(todo)
               /\ UNCHANGED wpc
          ELSE wpc' = "panic" /\ UNCHANGED <<content, offset, todo>>
    /\ UNCHANGED <<meta, info, index, done>>

PieceWritten ==
    /\ wpc = "writing"
    /\ todo = <<>>
    /\ done' = done \cup {index}
    /\ wpc' = "ready"
    /\ UNCHANGED <<meta, info, index, todo, offset, content, opened>>

\* mkdir or open fails, or WriteAt fails after some bytes: the error ends the
\* download, with the segments before it on disk, and the writer is closed.
SegmentFails ==
    /\ wpc = "writing"
    /\ todo # <<>>
    /\ \/ UNCHANGED <<content, opened>>
       \/ \E n \in 0 .. Head(todo).length - 1 :
             OpenFile(Head(todo).file) /\ WriteAt(Head(todo), n)
    /\ wpc' = "closed"
    /\ UNCHANGED <<meta, info, index, todo, offset, done>>

\* The deferred Close of a download that is complete, or that ran out of
\* workers.
Close ==
    /\ wpc = "ready"
    /\ wpc' = "closed"
    /\ UNCHANGED <<meta, info, index, todo, offset, content, opened, done>>

Closed == wpc = "closed" /\ UNCHANGED vars

Next ==
    \/ ParseInfo
    \/ \E i \in Pieces : WritePiece(i)
    \/ WriteSegment \/ PieceWritten \/ SegmentFails \/ Close \/ Closed

Spec == Init /\ [][Next]_vars

-----------------------------------------------------------------------------
(* Properties                                                              *)

\* Every byte that reaches a file is the byte that belongs there, also after
\* an error between two segments of a piece.
BytesInPlace ==
    \A f \in Files : \A o \in 0 .. lengths[f] - 1 :
        content[f][o] \in {NoByte, FileOffset(f) + o}

\* When every piece is written, the bytes that are missing are those behind the
\* last hash: none in a torrent whose hashes fit its length, also in one that
\* ends with a full piece.
FilesComplete ==
    done = Pieces =>
        \A f \in Files : \A o \in 0 .. lengths[f] - 1 :
            /\ content[f][o] = NoByte => FileOffset(f) + o >= PieceStart(info.numPieces)
            /\ HashesFit(info) => content[f][o] # NoByte

\* WritePiece uses its data exactly: the slices it takes end where the piece
\* ends and never reach behind it, which would panic.
DataUsedExactly ==
    /\ wpc # "panic"
    /\ wpc = "writing" =>
        /\ todo = <<>> => offset = PieceSize(info, index)
        /\ \A k \in 1 .. Len(todo) :
              todo[k].offset + todo[k].length <= lengths[todo[k].file]
=============================================================================
