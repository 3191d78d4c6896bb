---------------------------- MODULE ClientProofs ----------------------------
(***************************************************************************)
(* Proofs about module Client, for torrents of any number of pieces and    *)
(* links of any characters.                                                *)
(***************************************************************************)
EXTENDS Client, FiniteSetTheorems, SequenceTheorems, TLAPS

-----------------------------------------------------------------------------
(* The loads of a render, in their order                                   *)

\* Six loads, of four fields.
LEMMA LoadsInOrder ==
    /\ Len(Loads) = 6
    /\ Loads[1] = "TotalPieces" /\ Loads[2] = "Downloaded" /\ Loads[3] = "StartTime"
    /\ Loads[4] = "DownloadedBytes" /\ Loads[5] = "Downloaded" /\ Loads[6] = "TotalPieces"
<1> DEFINE F == {"TotalPieces", "Downloaded", "StartTime", "DownloadedBytes"}
<1>1. PICK a : a = ProgressLoads
  OBVIOUS
<1>2. PICK b : b = SpeedLoads
  OBVIOUS
<1>3. PICK c : c = StatsLoads
  OBVIOUS
<1>4. a \in Seq(F) /\ Len(a) = 2 /\ a[1] = "TotalPieces" /\ a[2] = "Downloaded"
  BY <1>1 DEF ProgressLoads
<1>5. b \in Seq(F) /\ Len(b) = 2 /\ b[1] = "StartTime" /\ b[2] = "DownloadedBytes"
  BY <1>2 DEF SpeedLoads
<1>6. c \in Seq(F) /\ Len(c) = 2 /\ c[1] = "Downloaded" /\ c[2] = "TotalPieces"
  BY <1>3 DEF StatsLoads
<1> HIDE DEF F
<1>7. PICK d : d = a \o b
  OBVIOUS
<1>8. d \in Seq(F) /\ Len(d) = 4 /\ d[1] = a[1] /\ d[2] = a[2] /\ d[3] = b[1] /\ d[4] = b[2]
  <2>1. /\ d \in Seq(F) /\ Len(d) = Len(a) + Len(b)
        /\ \A i \in 1 .. Len(a) + Len(b) : d[i] = IF i <= Len(a) THEN a[i] ELSE b[i - Len(a)]
    <3>1. a \in Seq(F) /\ b \in Seq(F)
      BY <1>4, <1>5
    <3> QED  BY <1>7, <3>1
  <2>2. \A i \in 1 .. 4 : d[i] = IF i <= 2 THEN a[i] ELSE b[i - 2]
    BY <1>4, <1>5, <2>1
  <2>3. d[1] = a[1] /\ d[2] = a[2] /\ d[3] = b[1] /\ d[4] = b[2]
    BY <2>2
  <2> QED  BY <1>4, <1>5, <2>1, <2>3
<1>9. PICK e : e = d \o c
  OBVIOUS
<1>10. Len(e) = 6 /\ (\A i \in 1 .. 4 : e[i] = d[i]) /\ e[5] = c[1] /\ e[6] = c[2]
  <2>1. /\ Len(e) = Len(d) + Len(c)
        /\ \A i \in 1 .. Len(d) + Len(c) : e[i] = IF i <= Len(d) THEN d[i] ELSE c[i - Len(d)]
    <3>1. d \in Seq(F) /\ c \in Seq(F)
      BY <1>6, <1>8
    <3> QED  BY <1>9, <3>1
  <2>2. \A i \in 1 .. 6 : e[i] = IF i <= 4 THEN d[i] ELSE c[i - 4]
    BY <1>6, <1>8, <2>1
  <2>3. (\A i \in 1 .. 4 : e[i] = d[i]) /\ e[5] = c[1] /\ e[6] = c[2]
    BY <2>2
  <2> QED  BY <1>6, <1>8, <2>1, <2>3
<1>11. Loads = e
  BY <1>1, <1>2, <1>3, <1>7, <1>9 DEF Loads
<1>12. e[1] = d[1] /\ e[2] = d[2] /\ e[3] = d[3] /\ e[4] = d[4]
  BY <1>10
<1> QED  BY <1>4, <1>5, <1>6, <1>8, <1>10, <1>11, <1>12, Zenon

\* What the line shows of them.
LEMMA ShownLoads == \A r : Downloaded(r) = r[5] /\ Total(r) = r[6]
<1>1. (CHOOSE i \in 1 .. 2 : StatsLoads[i] = "Downloaded") = 1
  <2>1. \A i \in 1 .. 2 : StatsLoads[i] = "Downloaded" <=> i = 1
    BY DEF StatsLoads
  <2>2. 1 \in 1 .. 2
    OBVIOUS
  <2> QED  BY <2>1, <2>2
<1>2. (CHOOSE i \in 1 .. 2 : StatsLoads[i] = "TotalPieces") = 2
  <2>1. \A i \in 1 .. 2 : StatsLoads[i] = "TotalPieces" <=> i = 2
    BY DEF StatsLoads
  <2>2. 2 \in 1 .. 2
    OBVIOUS
  <2> QED  BY <2>1, <2>2
<1>3. 4 + 1 = 5 /\ 4 + 2 = 6
  OBVIOUS
<1> QED  BY <1>1, <1>2, <1>3, Zenon DEF Downloaded, Total

\* What the two specifications of the download do, seen from run.
LEMMA StoreSeen ==
    ASSUME NEW S, NEW p, Downloading(S)!Store(p)
    PROVE  outcome = "running" /\ disk[p] = 0 /\ disk' = [disk EXCEPT ![p] = 1] /\ UNCHANGED outcome
  BY DEF Downloading!Store

\* It leaves the disk as it is, and returns "ok" only when it is complete.
LEMMA ReturnSeen ==
    ASSUME NEW S, Downloading(S)!Succeed \/ Downloading(S)!Fail
    PROVE  /\ UNCHANGED disk
           /\ \/ outcome' = "ok" /\ \A p \in S : disk[p] = 1
              \/ outcome' \in {"allFailed", "writeError"}
  BY DEF Downloading!Succeed, Downloading!Fail

-----------------------------------------------------------------------------
(* The invariants                                                          *)

StatsType == [TotalPieces : Nat, Downloaded : Nat, DownloadedBytes : Nat, StartTime : Nat]
InDownload == {"reset", "collect", "count", "bytes"}
Results == {"ok", "allFailed", "writeError"}
NumWritten == Cardinality(Written)

\* The Stats while run goes on: Downloaded is the number of pieces on the disk,
\* except between a write and its count, and TotalPieces is right from the end
\* of the reset on; until then nothing is counted.
StatsInv ==
    /\ IsFiniteSet(pieces)
    /\ disk \in [pieces -> {0, 1}]
    /\ stats \in StatsType
    /\ pc \in InDownload \cup {"start", "stop", "exit"}
    /\ pc = "start" => pieces = {} /\ stats.TotalPieces = 0
    /\ stats.TotalPieces \in {0, NumPieces}
    /\ pc # "reset" \/ "TotalPieces" \notin unset => stats.TotalPieces = NumPieces
    /\ NumWritten = IF pc = "count" THEN stats.Downloaded + 1 ELSE stats.Downloaded
    /\ pc = "reset" => stats.Downloaded = 0

\* What downloadPieces and run have returned.
OutcomeInv ==
    /\ pc \in InDownload \cup {"start"} => outcome = "running" /\ ~done
    /\ pc = "stop" => outcome \in Results
    /\ outcome = "ok" => Written = pieces
    /\ exit \in Results => pc = "exit" /\ dpc = "done" /\ exit = outcome

\* The loads of a render are below the counts, in the order that they have on
\* the line; in the last render they are the counts.
RegsOK(r, downloaded, total) ==
    /\ r \in Seq(Nat) /\ Len(r) <= 6
    /\ Len(r) >= 1 => r[1] \in {0, total}
    /\ Len(r) >= 2 => r[2] <= downloaded
    /\ Len(r) >= 5 => r[2] <= r[5] /\ r[5] <= downloaded
    /\ Len(r) = 6 => r[5] <= r[6]
RegsExact(r, downloaded, total) ==
    /\ Len(r) >= 1 => r[1] = total
    /\ Len(r) >= 2 => r[2] = downloaded
    /\ Len(r) >= 5 => r[5] = downloaded
    /\ Len(r) = 6 => r[6] = total

LineOK(l, downloaded) ==
    /\ l.downloaded \in Nat /\ l.total \in Nat /\ l.progress \in Nat
    /\ l.downloaded <= downloaded
    /\ l.downloaded <= l.total
    /\ l.progress <= l.downloaded
LineExact(l, downloaded, total) ==
    l.progress = downloaded /\ l.downloaded = downloaded /\ l.total = total

DisplayInv ==
    /\ dpc \in {"none", "select", "render", "done"}
    /\ pc = "start" => dpc = "none"
    /\ dpc = "none" => regs = <<>> /\ line = NoLine
    /\ RegsOK(regs, stats.Downloaded, NumPieces)
    /\ LineOK(line, stats.Downloaded)
    /\ line.eta = "done" => Written = pieces
    /\ last /\ dpc = "render" => done /\ RegsExact(regs, stats.Downloaded, NumPieces)
    /\ dpc = "done" => done /\ LineExact(line, stats.Downloaded, NumPieces)

RunInv == StatsInv /\ OutcomeInv /\ DisplayInv

-----------------------------------------------------------------------------

\* The pieces on the disk are pieces of the torrent.
LEMMA WrittenCount ==
    ASSUME StatsInv
    PROVE  /\ Written \subseteq pieces /\ IsFiniteSet(Written)
           /\ NumWritten \in Nat /\ NumPieces \in Nat /\ NumWritten <= NumPieces
           /\ NumWritten = NumPieces => Written = pieces
           /\ stats.Downloaded \in Nat /\ stats.Downloaded <= NumWritten
           /\ stats.Downloaded > 0 => stats.TotalPieces = NumPieces
<1>1. IsFiniteSet(pieces) /\ Written \in SUBSET pieces
  BY DEF StatsInv, Written
<1>2. /\ IsFiniteSet(Written) /\ Cardinality(Written) <= Cardinality(pieces)
      /\ Cardinality(pieces) = Cardinality(Written) => pieces = Written
  BY <1>1, FS_Subset
<1>3. NumWritten \in Nat /\ NumPieces \in Nat
  BY <1>1, <1>2, FS_CardinalityType DEF NumWritten, NumPieces
<1>4. stats.Downloaded \in Nat /\ stats.Downloaded <= NumWritten
  <2>1. stats.Downloaded \in Nat
    BY DEF StatsInv, StatsType
  <2> QED  BY <1>3, <2>1 DEF StatsInv
<1>5. stats.Downloaded > 0 => stats.TotalPieces = NumPieces
  <2>1. stats.Downloaded > 0 => stats.Downloaded # 0
    BY <1>4
  <2> QED  BY <2>1 DEF StatsInv
<1> QED  BY <1>1, <1>2, <1>3, <1>4, <1>5 DEF NumWritten, NumPieces

\* Nothing is written, shown or returned at the start.
LEMMA RunInit == Init => RunInv
<1> SUFFICES ASSUME Init PROVE RunInv
  OBVIOUS
<1>1. /\ pc = "start" /\ exit = "running" /\ pieces = {} /\ disk = <<>> /\ outcome = "running"
      /\ stats = NoStats /\ done = FALSE /\ dpc = "none" /\ last = FALSE /\ regs = <<>> /\ line = NoLine
  BY DEF Init
<1>2. IsFiniteSet({}) /\ Cardinality({}) = 0
  BY FS_EmptySet
<1>3. Written = {} /\ disk \in [pieces -> {0, 1}]
  <2>1. DOMAIN disk = {} /\ disk = [p \in {} |-> disk[p]]
    BY <1>1
  <2> QED  BY <1>1, <2>1 DEF Written
<1>4. NumWritten = 0 /\ NumPieces = 0
  BY <1>1, <1>2, <1>3 DEF NumWritten, NumPieces
<1>5. stats \in StatsType /\ stats.Downloaded = 0 /\ stats.TotalPieces = 0
  BY <1>1 DEF NoStats, StatsType
<1>6. StatsInv
  BY <1>1, <1>2, <1>3, <1>4, <1>5 DEF StatsInv
<1>7. OutcomeInv
  BY <1>1 DEF OutcomeInv, Results, InDownload
<1>8. DisplayInv
  <2>1. RegsOK(regs, 0, 0)
    BY <1>1 DEF RegsOK
  <2>2. LineOK(line, 0) /\ line.eta # "done"
    BY <1>1 DEF LineOK, NoLine
  <2> QED  BY <1>1, <1>4, <1>5, <2>1, <2>2 DEF DisplayInv
<1> QED  BY <1>6, <1>7, <1>8 DEF RunInv

\* The counts only grow, so the loads and the line stay below them.
LEMMA CountsGrow ==
    ASSUME NEW r, NEW l, NEW total, NEW d \in Nat, NEW e \in Nat, d <= e
    PROVE  /\ RegsOK(r, d, total) => RegsOK(r, e, total)
           /\ LineOK(l, d) => LineOK(l, e)
<1>1. RegsOK(r, d, total) => RegsOK(r, e, total)
  <2> SUFFICES ASSUME RegsOK(r, d, total) PROVE RegsOK(r, e, total)
    OBVIOUS
  <2>1. r \in Seq(Nat) /\ Len(r) \in Nat /\ \A i \in 1 .. Len(r) : r[i] \in Nat
    BY DEF RegsOK
  <2>2. Len(r) >= 2 => r[2] \in Nat /\ r[2] <= e
    BY <2>1 DEF RegsOK
  <2>3. Len(r) >= 5 => r[5] \in Nat /\ r[5] <= e
    BY <2>1 DEF RegsOK
  <2> QED  BY <2>2, <2>3 DEF RegsOK
<1>2. LineOK(l, d) => LineOK(l, e)
  BY DEF LineOK
<1> QED  BY <1>1, <1>2

\* A step of run that leaves the pieces and the counts alone.
LEMMA RunMoves ==
    ASSUME RunInv, UNCHANGED <<pieces, disk, stats, dispVars>>, pc' # "start", pc' # "reset", pc' # "count",
           pc # "reset" \/ "TotalPieces" \notin unset, pc # "count",
           pc' \in InDownload \cup {"stop", "exit"}
    PROVE  /\ StatsInv'
           /\ (done => done') => DisplayInv'
<1>1. UNCHANGED <<Written, NumWritten, NumPieces>>
  BY DEF Written, NumWritten, NumPieces
<1>2. StatsInv'
  BY <1>1 DEF RunInv, StatsInv
<1>3. (done => done') => DisplayInv'
  BY <1>1 DEF RunInv, DisplayInv, dispVars
<1> QED  BY <1>2, <1>3

\* The display goroutine does not see the parser and the early returns.
LEMMA EarlySteps ==
    ASSUME RunInv, Usage \/ ParseLink \/ BadLink \/ NothingToLoad
    PROVE  RunInv'
<1>1. /\ pc = "start" /\ UNCHANGED <<pieces, disk, outcome, stats, unset, done, dispVars>>
      /\ (UNCHANGED <<pc, exit>> \/ (pc' = "exit" /\ exit' \notin Results))
  BY DEF Usage, ParseLink, BadLink, NothingToLoad, Return, mainVars, Results
<1>2. UNCHANGED <<Written, NumWritten, NumPieces>>
  BY <1>1 DEF Written, NumWritten, NumPieces
<1>3. StatsInv'
  BY <1>1, <1>2 DEF RunInv, StatsInv
<1>4. OutcomeInv'
  BY <1>1, <1>2 DEF RunInv, OutcomeInv, dispVars, InDownload
<1>5. DisplayInv'
  BY <1>1, <1>2 DEF RunInv, DisplayInv, dispVars
<1> QED  BY <1>3, <1>4, <1>5 DEF RunInv

\* The torrent is known and the display starts.
LEMMA DisplayStarts ==
    ASSUME RunInv, NEW S \in PieceSets, StartDisplay(S)
    PROVE  RunInv'
<1>1. /\ pc = "start" /\ pieces' = S /\ disk' = [p \in S |-> 0] /\ pc' = "reset" /\ dpc' = "select"
      /\ unset' = DOMAIN NoStats /\ UNCHANGED <<exit, outcome, stats, done, last, regs, line>>
  BY DEF StartDisplay
<1>2. IsFiniteSet(S) /\ Written' = {} /\ NumWritten' = 0
  <2>1. IsFiniteSet(S) /\ Written' = {}
    BY <1>1, ClientAssumption DEF Written
  <2>2. Cardinality({}) = 0
    BY FS_EmptySet
  <2> QED  BY <2>1, <2>2 DEF NumWritten
<1>3. /\ NumWritten = stats.Downloaded /\ Written \subseteq {} /\ stats.TotalPieces = 0
      /\ outcome = "running" /\ ~done /\ dpc = "none"
  BY <1>1, WrittenCount DEF RunInv, StatsInv, OutcomeInv, DisplayInv
<1>4. stats.Downloaded = 0
  <2>1. Written = {} /\ Cardinality({}) = 0
    BY <1>3, FS_EmptySet
  <2> QED  BY <1>3, <2>1 DEF NumWritten
<1>5. "TotalPieces" \in unset'
  BY <1>1 DEF NoStats
<1>6. StatsInv'
  BY <1>1, <1>2, <1>3, <1>4, <1>5 DEF RunInv, StatsInv, InDownload
<1>7. OutcomeInv'
  BY <1>1, <1>3 DEF RunInv, OutcomeInv, InDownload
<1>8. DisplayInv'
  <2>1. regs = <<>> /\ line = NoLine
    BY <1>3 DEF RunInv, DisplayInv
  <2>2. RegsOK(regs, 0, NumPieces')
    BY <2>1 DEF RegsOK
  <2>3. LineOK(line, 0) /\ line.eta # "done"
    BY <2>1 DEF LineOK, NoLine
  <2> QED  BY <1>1, <1>4, <2>2, <2>3 DEF DisplayInv
<1> QED  BY <1>6, <1>7, <1>8 DEF RunInv

\* One field of the Stats is set, in whatever order.
LEMMA FieldSet ==
    ASSUME RunInv, NEW f \in DOMAIN NoStats, SetField(f)
    PROVE  RunInv'
<1>1. /\ pc = "reset" /\ unset' = unset \ {f} /\ UNCHANGED <<pc, exit, pieces, disk, outcome, done, dispVars>>
  BY DEF SetField
<1>2. UNCHANGED <<Written, NumWritten, NumPieces>>
  BY <1>1 DEF Written, NumWritten, NumPieces
<1>3. stats \in StatsType /\ stats.Downloaded = 0 /\ stats.TotalPieces \in {0, NumPieces}
  BY <1>1 DEF RunInv, StatsInv
<1>4. f \in {"TotalPieces", "Downloaded", "DownloadedBytes", "StartTime"}
  BY DEF NoStats
<1>5. NumPieces \in Nat
  BY WrittenCount DEF RunInv
<1>6. CASE f = "TotalPieces"
  <2>1. stats' = [stats EXCEPT !.TotalPieces = NumPieces]
    BY <1>6 DEF SetField
  <2>2. stats' \in StatsType /\ stats'.Downloaded = 0 /\ stats'.TotalPieces = NumPieces
    BY <1>3, <1>5, <2>1 DEF StatsType
  <2>3. StatsInv'
    BY <1>1, <1>2, <1>3, <2>2 DEF RunInv, StatsInv
  <2>4. OutcomeInv' /\ DisplayInv'
    BY <1>1, <1>2, <1>3, <2>2 DEF RunInv, OutcomeInv, DisplayInv, dispVars, InDownload
  <2> QED  BY <2>3, <2>4 DEF RunInv
<1>7. CASE f # "TotalPieces"
  <2>1. PICK v \in {0, 1} : stats' = [stats EXCEPT ![f] = v] /\ (f # "StartTime" => v = 0)
    BY <1>7 DEF SetField
  <2>2. stats' \in StatsType /\ stats'.Downloaded = 0 /\ stats'.TotalPieces = stats.TotalPieces
    <3>1. CASE f = "Downloaded"
      BY <1>3, <2>1, <3>1 DEF StatsType
    <3>2. CASE f = "DownloadedBytes"
      BY <1>3, <2>1, <3>2 DEF StatsType
    <3>3. CASE f = "StartTime"
      BY <1>3, <2>1, <3>3 DEF StatsType
    <3> QED  BY <1>4, <1>7, <3>1, <3>2, <3>3
  <2>3. "TotalPieces" \notin unset' => "TotalPieces" \notin unset
    BY <1>1, <1>7
  <2>4. StatsInv'
    BY <1>1, <1>2, <1>3, <2>2, <2>3 DEF RunInv, StatsInv
  <2>5. OutcomeInv' /\ DisplayInv'
    BY <1>1, <1>2, <1>3, <2>2 DEF RunInv, OutcomeInv, DisplayInv, dispVars, InDownload
  <2> QED  BY <2>4, <2>5 DEF RunInv
<1> QED  BY <1>6, <1>7

\* A piece reaches the disk.
LEMMA PieceStored ==
    ASSUME RunInv, StorePiece
    PROVE  RunInv'
<1>1. pc = "collect" /\ pc' = "count" /\ UNCHANGED <<exit, pieces, stats, unset, done, dispVars>>
  BY DEF StorePiece
<1>2. PICK S \in PieceSets : S = pieces /\ \E p \in S : Downloading(S)!Store(p)
  BY DEF StorePiece
<1>3. PICK p \in pieces : /\ outcome = "running" /\ disk[p] = 0
                          /\ disk' = [disk EXCEPT ![p] = 1] /\ UNCHANGED outcome
  BY <1>2, StoreSeen
<1>4. disk \in [pieces -> {0, 1}] /\ UNCHANGED NumPieces
  BY <1>1 DEF RunInv, StatsInv, NumPieces
<1>5. disk' \in [pieces -> {0, 1}] /\ Written' = Written \cup {p} /\ p \notin Written
  BY <1>3, <1>4 DEF Written
<1>6. NumWritten' = NumWritten + 1
  BY <1>5, WrittenCount, FS_AddElement DEF RunInv, NumWritten
<1>7. StatsInv'
  BY <1>1, <1>4, <1>5, <1>6, WrittenCount DEF RunInv, StatsInv, InDownload
<1>8. OutcomeInv'
  BY <1>1, <1>3 DEF RunInv, OutcomeInv, InDownload, Results, dispVars
<1>9. DisplayInv'
  <2>1. line.eta # "done"
    <3>1. Written # pieces
      BY <1>5
    <3> QED  BY <3>1 DEF RunInv, DisplayInv
  <2> QED  BY <1>1, <1>4, <2>1 DEF RunInv, DisplayInv, dispVars
<1> QED  BY <1>7, <1>8, <1>9 DEF RunInv

\* It is counted.
LEMMA PieceCounted ==
    ASSUME RunInv, CountPiece
    PROVE  RunInv'
<1>1. /\ pc = "count" /\ pc' = "bytes" /\ UNCHANGED <<exit, pieces, disk, outcome, unset, done, dispVars>>
      /\ stats' = [stats EXCEPT !.Downloaded = @ + 1]
  BY DEF CountPiece
<1>2. UNCHANGED <<Written, NumWritten, NumPieces>>
  BY <1>1 DEF Written, NumWritten, NumPieces
<1>3. stats \in StatsType
  BY DEF RunInv, StatsInv
<1>4. stats' \in StatsType /\ stats'.Downloaded = stats.Downloaded + 1 /\ stats'.TotalPieces = stats.TotalPieces
  BY <1>1, <1>3 DEF StatsType
<1>5. StatsInv'
  BY <1>1, <1>2, <1>4 DEF RunInv, StatsInv, InDownload
<1>6. OutcomeInv'
  BY <1>1, <1>2 DEF RunInv, OutcomeInv, InDownload, Results, dispVars
<1>7. DisplayInv'
  <2>1. stats.Downloaded \in Nat /\ stats'.Downloaded \in Nat /\ stats.Downloaded <= stats'.Downloaded
    BY <1>3, <1>4 DEF StatsType
  <2>2. RegsOK(regs, stats'.Downloaded, NumPieces) /\ LineOK(line, stats'.Downloaded)
    BY <2>1, CountsGrow DEF RunInv, DisplayInv
  <2>3. ~done
    BY <1>1 DEF RunInv, OutcomeInv, InDownload
  <2> QED  BY <1>1, <1>2, <2>2, <2>3 DEF RunInv, DisplayInv, dispVars
<1> QED  BY <1>5, <1>6, <1>7 DEF RunInv

\* So are its bytes.
LEMMA BytesCounted ==
    ASSUME RunInv, CountBytes
    PROVE  RunInv'
<1>1. /\ pc = "bytes" /\ pc' = "collect" /\ UNCHANGED <<exit, pieces, disk, outcome, unset, done, dispVars>>
      /\ stats' = [stats EXCEPT !.DownloadedBytes = @ + 1]
  BY DEF CountBytes
<1>2. UNCHANGED <<Written, NumWritten, NumPieces>>
  BY <1>1 DEF Written, NumWritten, NumPieces
<1>3. stats \in StatsType
  BY DEF RunInv, StatsInv
<1>4. stats' \in StatsType /\ stats'.Downloaded = stats.Downloaded /\ stats'.TotalPieces = stats.TotalPieces
  BY <1>1, <1>3 DEF StatsType
<1>5. StatsInv'
  BY <1>1, <1>2, <1>4 DEF RunInv, StatsInv, InDownload
<1>6. OutcomeInv'
  BY <1>1, <1>2 DEF RunInv, OutcomeInv, InDownload, Results, dispVars
<1>7. DisplayInv'
  BY <1>1, <1>2, <1>4 DEF RunInv, DisplayInv, dispVars
<1> QED  BY <1>5, <1>6, <1>7 DEF RunInv

\* The download starts, ends, and run returns.
LEMMA DownloadMoves ==
    ASSUME RunInv, StartPieces \/ DownloadReturns \/ Stopped
    PROVE  RunInv'
<1>1. CASE StartPieces
  <2>1. /\ pc = "reset" /\ unset = {} /\ pc' = "collect"
        /\ UNCHANGED <<exit, pieces, disk, outcome, stats, done, dispVars>>
    BY <1>1 DEF StartPieces
  <2>2. StatsInv' /\ DisplayInv'
    BY <2>1, RunMoves DEF InDownload
  <2>3. OutcomeInv'
    BY <2>1 DEF RunInv, OutcomeInv, InDownload, Results, dispVars
  <2> QED  BY <2>2, <2>3 DEF RunInv
<1>2. CASE DownloadReturns
  <2>1. /\ pc = "collect" /\ done' = TRUE /\ pc' = "stop"
        /\ UNCHANGED <<exit, pieces, stats, unset, dispVars>>
    BY <1>2 DEF DownloadReturns
  <2>2. PICK S \in PieceSets : S = pieces /\ (Downloading(S)!Succeed \/ Downloading(S)!Fail)
    BY <1>2 DEF DownloadReturns
  <2>3. /\ UNCHANGED disk
        /\ \/ outcome' = "ok" /\ \A p \in pieces : disk[p] = 1
           \/ outcome' \in {"allFailed", "writeError"}
    BY <2>2, ReturnSeen
  <2>4. StatsInv' /\ DisplayInv'
    BY <2>1, <2>3, RunMoves DEF InDownload
  <2>5. outcome' = "ok" => Written' = pieces
    <3>1. disk \in [pieces -> {0, 1}]
      BY DEF RunInv, StatsInv
    <3> QED  BY <2>1, <2>3, <3>1 DEF Written
  <2>6. OutcomeInv'
    BY <2>1, <2>3, <2>5 DEF RunInv, OutcomeInv, InDownload, Results, dispVars
  <2> QED  BY <2>4, <2>6 DEF RunInv
<1>3. CASE Stopped
  <2>1. /\ pc = "stop" /\ dpc = "done" /\ pc' = "exit" /\ exit' = outcome
        /\ UNCHANGED <<pieces, disk, outcome, stats, done, dispVars>>
    BY <1>3 DEF Stopped, DisplayOver, Return
  <2>2. StatsInv' /\ DisplayInv'
    BY <2>1, RunMoves DEF InDownload
  <2>3. OutcomeInv'
    BY <2>1 DEF RunInv, OutcomeInv, InDownload, dispVars, Written
  <2> QED  BY <2>2, <2>3 DEF RunInv
<1> QED  BY <1>1, <1>2, <1>3

-----------------------------------------------------------------------------
(* The display goroutine                                                   *)

\* What one more load has to satisfy.
NextLoadOK(r, v, downloaded, total) ==
    /\ v \in Nat
    /\ Len(r) = 0 => v \in {0, total}
    /\ Len(r) = 1 => v <= downloaded
    /\ Len(r) = 4 => v = downloaded
    /\ Len(r) = 5 => r[5] <= v
NextLoadExact(r, v, downloaded, total) ==
    /\ Len(r) \in {0, 5} => v = total
    /\ Len(r) \in {1, 4} => v = downloaded

\* The numbers of loads before the last one.
LEMMA BelowSix == \A n \in Nat : n < 6 => n \in 0 .. 5 /\ n \in {0, 1, 2, 3, 4, 5}
  OBVIOUS

\* The loads stay below the counts, and in the last render they are the counts.
LEMMA OneMoreLoad ==
    ASSUME NEW r, NEW v, NEW d \in Nat, NEW t \in Nat, RegsOK(r, d, t), Len(r) < 6, NextLoadOK(r, v, d, t)
    PROVE  /\ RegsOK(Append(r, v), d, t)
           /\ RegsExact(r, d, t) /\ NextLoadExact(r, v, d, t) => RegsExact(Append(r, v), d, t)
<1>1. r \in Seq(Nat) /\ Len(r) \in Nat /\ v \in Nat /\ \A i \in 1 .. Len(r) : r[i] \in Nat
  BY DEF RegsOK, NextLoadOK
<1>2. PICK q : q = Append(r, v)
  OBVIOUS
<1>3. /\ q \in Seq(Nat) /\ Len(q) = Len(r) + 1 /\ q[Len(r) + 1] = v
      /\ \A i \in 1 .. Len(r) : q[i] = r[i]
  BY <1>1, <1>2
<1>4. PICK n \in 0 .. 5 : n = Len(r) /\ Len(q) = n + 1 /\ q[n + 1] = v /\ \A i \in 1 .. n : q[i] = r[i]
  BY <1>1, <1>3, BelowSix, Zenon
<1>5. /\ n >= 1 => q[1] = r[1] /\ r[1] \in {0, t}
      /\ n >= 2 => q[2] = r[2] /\ r[2] \in Nat /\ r[2] <= d
      /\ n >= 5 => q[5] = r[5] /\ r[5] \in Nat /\ r[2] <= r[5] /\ r[5] <= d
  <2>1. \A i \in 1 .. n : q[i] = r[i] /\ r[i] \in Nat
    BY <1>1, <1>4
  <2>2. /\ n >= 1 => r[1] \in {0, t}
        /\ n >= 2 => r[2] <= d
        /\ n >= 5 => r[2] <= r[5] /\ r[5] <= d
    BY <1>4, Zenon DEF RegsOK
  <2> QED  BY <1>4, <2>1, <2>2
<1>6. /\ n = 0 => q[1] \in {0, t}
      /\ n = 1 => q[2] <= d
      /\ n = 4 => q[5] = d
      /\ n = 5 => r[5] <= q[6]
  <2>1. /\ n = 0 => v \in {0, t}
        /\ n = 1 => v <= d
        /\ n = 4 => v = d
        /\ n = 5 => r[5] <= v
    BY <1>4, Zenon DEF NextLoadOK
  <2> QED  BY <1>4, <2>1
<1>7. n \in {0, 1, 2, 3, 4, 5}
  BY <1>4
<1>8. RegsOK(q, d, t)
  <2>1. n + 1 >= 1 => q[1] \in {0, t}
    BY <1>5, <1>6, <1>7
  <2>2. n + 1 >= 2 => q[2] <= d
    BY <1>5, <1>6, <1>7
  <2>3. n + 1 >= 5 => q[2] <= q[5] /\ q[5] <= d
    BY <1>5, <1>6, <1>7
  <2>4. n + 1 = 6 => q[5] <= q[6]
    BY <1>5, <1>6, <1>7
  <2>5. n + 1 <= 6
    BY <1>7
  <2> QED  BY <1>3, <1>4, <2>1, <2>2, <2>3, <2>4, <2>5, Zenon DEF RegsOK
<1>9. RegsExact(r, d, t) /\ NextLoadExact(r, v, d, t) => RegsExact(q, d, t)
  <2> SUFFICES ASSUME RegsExact(r, d, t), NextLoadExact(r, v, d, t) PROVE RegsExact(q, d, t)
    OBVIOUS
  <2>1. /\ n >= 1 => r[1] = t
        /\ n >= 2 => r[2] = d
        /\ n >= 5 => r[5] = d
    BY <1>4, Zenon DEF RegsExact
  <2>2. (n \in {0, 5} => v = t) /\ (n \in {1, 4} => v = d)
    BY <1>4, Zenon DEF NextLoadExact
  <2>3. /\ n + 1 >= 1 => q[1] = t
        /\ n + 1 >= 2 => q[2] = d
        /\ n + 1 >= 5 => q[5] = d
        /\ n + 1 = 6 => q[6] = t
    BY <1>4, <1>5, <1>7, <2>1, <2>2
  <2> QED  BY <1>4, <2>3, Zenon DEF RegsExact
<1> QED  BY <1>2, <1>8, <1>9

\* The display changes nothing of run's, and run has not returned a result of
\* the download while it renders.
LEMMA DisplayAlone ==
    ASSUME RunInv, UNCHANGED mainVars, dpc \in {"select", "render"}
    PROVE  StatsInv' /\ OutcomeInv' /\ UNCHANGED <<Written, NumWritten, NumPieces>>
<1>1. UNCHANGED <<pc, exit, pieces, disk, outcome, stats, unset, done>>
  BY DEF mainVars
<1>2. UNCHANGED <<Written, NumWritten, NumPieces>>
  BY <1>1 DEF Written, NumWritten, NumPieces
<1>3. StatsInv'
  BY <1>1, <1>2 DEF RunInv, StatsInv
<1>4. OutcomeInv'
  <2>1. exit \notin Results
    BY DEF RunInv, OutcomeInv
  <2> QED  BY <1>1, <1>2, <2>1 DEF RunInv, OutcomeInv
<1> QED  BY <1>2, <1>3, <1>4

\* Once the channel is closed the counts are final.
LEMMA DoneIsFinal ==
    ASSUME RunInv, done
    PROVE  stats.TotalPieces = NumPieces
<1>1. pc # "reset"
  BY DEF RunInv, OutcomeInv, InDownload
<1> QED  BY <1>1 DEF RunInv, StatsInv

\* A render starts with no load.
LEMMA RenderStarts ==
    ASSUME RunInv, Tick \/ TakeDone
    PROVE  RunInv'
<1>1. /\ dpc = "select" /\ dpc' = "render" /\ regs' = <<>> /\ UNCHANGED <<mainVars, line>>
      /\ last' => done
  BY DEF Tick, TakeDone, StartRender
<1>2. StatsInv' /\ OutcomeInv' /\ UNCHANGED <<Written, NumWritten, NumPieces>>
  BY <1>1, DisplayAlone
<1>3. UNCHANGED <<pc, stats, done, pieces, line>>
  BY <1>1 DEF mainVars
<1>4. \A d, t : RegsOK(<<>>, d, t) /\ RegsExact(<<>>, d, t)
  BY DEF RegsOK, RegsExact
<1>5. pc # "start"
  BY <1>1 DEF RunInv, DisplayInv
<1>6. DisplayInv'
  BY <1>1, <1>2, <1>3, <1>4, <1>5 DEF RunInv, DisplayInv
<1> QED  BY <1>2, <1>6 DEF RunInv

\* One field is loaded, whatever run does between two loads.
LEMMA FieldLoaded ==
    ASSUME RunInv, Load
    PROVE  RunInv'
<1>1. dpc = "render" /\ UNCHANGED <<mainVars, dpc, last, line>>
  BY DEF Load
<1>2. StatsInv' /\ OutcomeInv' /\ UNCHANGED <<Written, NumWritten, NumPieces>>
  BY <1>1, DisplayAlone
<1>3. UNCHANGED <<pc, stats, done, pieces, line>>
  BY <1>1 DEF mainVars
<1>4. PICK d : d = stats.Downloaded
  OBVIOUS
<1>5. PICK t : t = NumPieces
  OBVIOUS
<1>6. RegsOK(regs, d, t) /\ (last => done /\ RegsExact(regs, d, t))
  BY <1>1, <1>4, <1>5 DEF RunInv, DisplayInv
<1>7. /\ d \in Nat /\ t \in Nat /\ d <= t /\ (d > 0 => stats.TotalPieces = t)
      /\ stats.TotalPieces \in {0, t} /\ stats \in StatsType
  BY <1>4, <1>5, WrittenCount DEF RunInv, StatsInv
<1>8. Len(regs) < 6 /\ Len(regs) \in Nat
  BY <1>6, LoadsInOrder DEF Load, RegsOK
<1>9. PICK v : /\ regs' = Append(regs, v)
               /\ v = IF regs = <<0>> THEN 0 ELSE stats[Loads[Len(regs) + 1]]
  BY DEF Load
<1>10. \A i \in 1 .. Len(regs) : regs[i] \in Nat
  BY <1>6 DEF RegsOK
<1>11. PICK n \in {0, 1, 2, 3, 4, 5} : /\ n = Len(regs) /\ (regs = <<0>> => n = 1)
                                       /\ v = IF regs = <<0>> THEN 0 ELSE stats[Loads[n + 1]]
  <2>1. Len(<<0>>) = 1
    OBVIOUS
  <2>2. Len(regs) \in {0, 1, 2, 3, 4, 5}
    BY <1>8, BelowSix, Zenon
  <2>3. regs = <<0>> => Len(regs) = 1
    BY <2>1
  <2> QED  BY <1>9, <2>2, <2>3, Zenon
<1>12. stats.TotalPieces \in Nat /\ stats.StartTime \in Nat /\ stats.DownloadedBytes \in Nat
  BY <1>7 DEF StatsType
<1>13. done => stats.TotalPieces = t
  BY <1>5, DoneIsFinal
<1>14. /\ v \in Nat
       /\ n = 0 => v \in {0, t}
       /\ n = 1 => v <= d
       /\ n = 4 => v = d
       /\ n = 5 => regs[5] <= v
       /\ last => (n \in {0, 5} => v = t) /\ (n \in {1, 4} => v = d)
  <2>1. CASE n = 0
    <3>1. v = stats[Loads[1]]
      BY <1>11, <2>1
    <3>2. v = stats.TotalPieces
      BY <3>1, LoadsInOrder
    <3> QED  BY <1>6, <1>7, <1>12, <1>13, <2>1, <3>2
  <2>2. CASE n = 1
    <3>1. CASE regs = <<0>>
      <4>1. v = 0 /\ regs[1] = 0
        BY <1>9, <3>1
      <4>2. last => d = 0
        <5>1. last => t = 0
          BY <1>6, <1>11, <2>2, <4>1 DEF RegsExact
        <5> QED  BY <1>7, <5>1
      <4> QED  BY <1>7, <2>2, <4>1, <4>2
    <3>2. CASE regs # <<0>>
      <4>1. v = stats[Loads[2]]
        BY <1>11, <2>2, <3>2
      <4>2. v = d
        BY <1>4, <4>1, LoadsInOrder
      <4> QED  BY <1>7, <2>2, <4>2
    <3> QED  BY <3>1, <3>2
  <2>3. CASE n \in {2, 3}
    <3>1. v = stats[Loads[n + 1]]
      BY <1>11, <2>3
    <3>2. n + 1 = 3 \/ n + 1 = 4
      BY <2>3
    <3>3. v = stats.StartTime \/ v = stats.DownloadedBytes
      BY <3>1, <3>2, LoadsInOrder, Zenon
    <3> QED  BY <1>12, <2>3, <3>3
  <2>4. CASE n = 4
    <3>1. v = stats[Loads[5]]
      BY <1>11, <2>4
    <3>2. v = d
      BY <1>4, <3>1, LoadsInOrder
    <3> QED  BY <1>7, <2>4, <3>2
  <2>5. CASE n = 5
    <3>1. v = stats[Loads[6]]
      BY <1>11, <2>5
    <3>2. v = stats.TotalPieces
      BY <3>1, LoadsInOrder
    <3>3. regs[5] \in Nat /\ regs[5] <= d
      <4>1. n >= 5 /\ 5 \in 1 .. n
        BY <2>5
      <4> QED  BY <1>6, <1>10, <1>11, <4>1, Zenon DEF RegsOK
    <3>4. regs[5] <= stats.TotalPieces
      BY <1>7, <1>12, <3>3
    <3> QED  BY <1>6, <1>12, <1>13, <2>5, <3>2, <3>4
  <2> QED  BY <2>1, <2>2, <2>3, <2>4, <2>5
<1>15. NextLoadOK(regs, v, d, t) /\ (last => NextLoadExact(regs, v, d, t))
  BY <1>11, <1>14, Zenon DEF NextLoadOK, NextLoadExact
<1>16. RegsOK(regs', d, t) /\ (last => RegsExact(regs', d, t))
  BY <1>6, <1>7, <1>8, <1>9, <1>15, OneMoreLoad
<1>17. DisplayInv'
  BY <1>1, <1>2, <1>3, <1>4, <1>5, <1>6, <1>16 DEF RunInv, DisplayInv
<1> QED  BY <1>2, <1>17 DEF RunInv

\* "done" is shown only for loads of all the pieces.
LEMMA DoneShown ==
    ASSUME NEW total, NEW downloaded, NEW bps, FormatETA(total, downloaded, bps) = "done"
    PROVE  total # 0 /\ downloaded >= total
  BY DEF FormatETA

\* The line is made of the six loads.
LEMMA LineShown ==
    ASSUME RunInv, NEW elapsed \in {0, 1}, ShowLine(elapsed)
    PROVE  RunInv'
<1>1. /\ dpc = "render" /\ dpc' = (IF last THEN "done" ELSE "select") /\ regs' = <<>>
      /\ UNCHANGED <<mainVars, last>>
  BY DEF ShowLine, AfterRender
<1>2. StatsInv' /\ OutcomeInv' /\ UNCHANGED <<Written, NumWritten, NumPieces>>
  BY <1>1, DisplayAlone
<1>3. UNCHANGED <<pc, stats, done, pieces>>
  BY <1>1 DEF mainVars
<1>4. PICK d : d = stats.Downloaded
  OBVIOUS
<1>5. PICK t : t = NumPieces
  OBVIOUS
<1>6. RegsOK(regs, d, t) /\ (last => done /\ RegsExact(regs, d, t))
  BY <1>1, <1>4, <1>5 DEF RunInv, DisplayInv
<1>7. Len(regs) = 6
  BY LoadsInOrder DEF ShowLine
<1>8. PICK eta : /\ line' = [progress |-> regs[2], downloaded |-> regs[5], total |-> regs[6], eta |-> eta]
                 /\ eta = "done" => regs[1] # 0 /\ regs[2] >= regs[1]
  <2>1. PICK eta : /\ line' = [progress |-> regs[2], downloaded |-> Downloaded(regs),
                               total |-> Total(regs), eta |-> eta]
                   /\ eta = FormatETA(regs[1], regs[2], IF elapsed = 0 THEN 0 ELSE regs[4])
    BY DEF ShowLine
  <2>2. eta = "done" => regs[1] # 0 /\ regs[2] >= regs[1]
    BY <2>1, DoneShown
  <2> QED  BY <2>1, <2>2, ShownLoads
<1>9. \A i \in 1 .. 6 : regs[i] \in Nat
  <2>1. regs \in Seq(Nat)
    BY <1>6 DEF RegsOK
  <2>2. \A i \in 1 .. Len(regs) : regs[i] \in Nat
    BY <2>1
  <2> QED  BY <1>7, <2>2, Zenon
<1>10. LineOK(line', d) /\ (last => LineExact(line', d, t))
  <2>1. line'.progress = regs[2] /\ line'.downloaded = regs[5] /\ line'.total = regs[6]
    BY <1>8
  <2> QED  BY <1>6, <1>7, <1>9, <2>1 DEF LineOK, LineExact, RegsOK, RegsExact
<1>11. line'.eta = "done" => Written = pieces
  <2> SUFFICES ASSUME line'.eta = "done" PROVE Written = pieces
    OBVIOUS
  <2>1. regs[1] # 0 /\ regs[2] >= regs[1]
    BY <1>8
  <2>2. regs[1] = t /\ regs[2] <= d /\ regs[1] \in Nat /\ regs[2] \in Nat
    BY <1>6, <1>7, <1>9, <2>1 DEF RegsOK
  <2>3. /\ d \in Nat /\ NumWritten \in Nat /\ t \in Nat /\ d <= NumWritten /\ NumWritten <= t
        /\ NumWritten = t => Written = pieces
    BY <1>4, <1>5, WrittenCount DEF RunInv
  <2>4. NumWritten = t
    BY <2>1, <2>2, <2>3
  <2> QED  BY <2>3, <2>4
<1>12. \A x, y : RegsOK(<<>>, x, y)
  BY DEF RegsOK
<1>13. pc # "start"
  BY <1>1 DEF RunInv, DisplayInv
<1>14. DisplayInv'
  BY <1>1, <1>2, <1>3, <1>4, <1>5, <1>6, <1>10, <1>11, <1>12, <1>13 DEF DisplayInv
<1> QED  BY <1>2, <1>14 DEF RunInv

-----------------------------------------------------------------------------
(* The theorems                                                            *)

\* Every step of run and of the display keeps the invariant.
LEMMA RunStep == RunInv /\ [Next]_vars => RunInv'
<1> SUFFICES ASSUME RunInv, [Next]_vars PROVE RunInv'
  OBVIOUS
<1>1. CASE Main
  <2>1. CASE \E S \in PieceSets : StartDisplay(S)
    BY <2>1, DisplayStarts
  <2>2. CASE \E f \in DOMAIN NoStats : SetField(f)
    BY <2>2, FieldSet
  <2> QED  BY <1>1, <2>1, <2>2, EarlySteps, PieceStored, PieceCounted, BytesCounted, DownloadMoves DEF Main
<1>2. CASE Tick \/ TakeDone
  BY <1>2, RenderStarts
<1>3. CASE Rendering
  BY <1>3, FieldLoaded, LineShown DEF Rendering
<1>4. CASE UNCHANGED vars
  <2>1. UNCHANGED <<pc, exit, pieces, disk, outcome, stats, unset, done, dpc, last, regs, line>>
    BY <1>4 DEF vars, mainVars, dispVars
  <2>2. UNCHANGED <<Written, NumWritten, NumPieces>>
    BY <2>1 DEF Written, NumWritten, NumPieces
  <2> QED  BY <2>1, <2>2 DEF RunInv, StatsInv, OutcomeInv, DisplayInv
<1> QED  BY <1>1, <1>2, <1>3, <1>4 DEF Next, Exited

\* RunInv holds in every reachable state of run and its display.
THEOREM RunInvHolds == Spec => []RunInv
  BY RunInit, RunStep, PTL DEF Spec

\* For torrents of any number of pieces, whatever loads of the display fall
\* between the stores of Download's reset and of its counting: no line claims
\* more pieces than the disk has or than its own total, no higher percentage
\* than its own count, and no "done" before every piece is there.
THEOREM LinesTrueHolds == Spec => []LinesTrue
<1>1. RunInv => LinesTrue
  <2> SUFFICES ASSUME RunInv PROVE LinesTrue
    OBVIOUS
  <2>1. stats.Downloaded \in Nat /\ NumWritten \in Nat /\ stats.Downloaded <= NumWritten
    BY WrittenCount DEF RunInv
  <2>2. LineOK(line, stats.Downloaded) /\ (line.eta = "done" => Written = pieces)
    BY DEF RunInv, DisplayInv
  <2>3. line.downloaded \in Nat /\ line.downloaded <= NumWritten
    BY <2>1, <2>2 DEF LineOK
  <2> QED  BY <2>2, <2>3 DEF LinesTrue, LineOK, NumWritten
<1> QED  BY <1>1, RunInvHolds, PTL

\* When run returns after a download, of any number of pieces, the terminal
\* shows the final counts, and "ok" is returned only with every piece written.
THEOREM FinalLineHolds == Spec => []FinalLine
<1>1. RunInv => FinalLine
  <2> SUFFICES ASSUME RunInv, exit \in Results
               PROVE  /\ dpc = "done" /\ line.downloaded = Cardinality(Written) /\ line.total = NumPieces
                      /\ line.progress = line.downloaded
                      /\ exit = "ok" => Written = pieces
    BY DEF FinalLine, Results
  <2>1. pc = "exit" /\ dpc = "done" /\ (exit = "ok" => Written = pieces)
    BY DEF RunInv, OutcomeInv
  <2>2. NumWritten = stats.Downloaded
    BY <2>1 DEF RunInv, StatsInv
  <2>3. LineExact(line, stats.Downloaded, NumPieces)
    BY <2>1 DEF RunInv, DisplayInv
  <2> QED  BY <2>1, <2>2, <2>3 DEF LineExact, NumWritten
<1> QED  BY <1>1, RunInvHolds, PTL

-----------------------------------------------------------------------------
(* The info hash: what decodeBase32 has read, in its bytes and its buffer   *)

Pow(k) == 2 ^ k

\* The n bits of b are those of the numbers v from the bit at on.
Buffered(v, at, b, n) ==
    /\ b \in Nat /\ b < Pow(n)
    /\ \A r \in 0 .. n - 1 : (b \div Pow(n - 1 - r)) % 2 = BitAt(5, v, at + r)

\* The first m characters, as the numbers v, are in o and in the n bits of b:
\* the buffer holds less than a byte, and no bit is lost, moved or doubled.
Decoded(v, m, o, b, n) ==
    /\ o \in Seq(0 .. 255)
    /\ n \in 0 .. 7
    /\ 5 * m = 8 * Len(o) + n
    /\ \A p \in 0 .. 8 * Len(o) - 1 : BitAt(8, o, p) = BitAt(5, v, p)
    /\ Buffered(v, 8 * Len(o), b, n)

\* The characters that decodeBase32 has consumed.
Taken == Len(text.hash) - Len(link.hash)

Reading ==
    /\ text.scheme /\ text.query /\ text.xt /\ text.urn
    /\ Len(text.hash) = Base32Len
    /\ Taken \in 0 .. Base32Len
    /\ \A k \in 1 .. Len(link.hash) : link.hash[k] = text.hash[Taken + k]
    /\ \A k \in 1 .. Taken : IndexRune(Alphabet, text.hash[k]) >= 0
    /\ Decoded(Values(Alphabet, text.hash), Taken, out, bits, nBits)

\* While run parses an argument: the part of the link that is left is a
\* suffix of it, and what is before it is decoded.
ParseInv ==
    pc = "start" /\ text # NoArgument =>
        /\ IsSeq(text.hash)
        /\ "hash" \in DOMAIN link /\ IsSeq(link.hash)
        /\ ppc = "parse" => link = text /\ bits = 0 /\ nBits = 0 /\ out = <<>>
        /\ ppc = "base32" => Reading
        /\ HashExact

\* The powers that the shifts of decodeBase32 meet.
LEMMA Powers ==
    /\ Pow(0) = 1 /\ Pow(1) = 2 /\ Pow(2) = 4 /\ Pow(3) = 8 /\ Pow(4) = 16
    /\ Pow(5) = 32 /\ Pow(6) = 64 /\ Pow(7) = 128 /\ Pow(8) = 256 /\ Pow(9) = 512
    /\ Pow(10) = 1024 /\ Pow(11) = 2048 /\ Pow(12) = 4096
  BY DEF Pow

\* They are positive, and multiply by the sum of their exponents.
LEMMA PowSum ==
    ASSUME NEW j \in 0 .. 7, NEW k \in 0 .. 7, j + k <= 12
    PROVE  Pow(j) \in Nat \ {0} /\ Pow(j + k) = Pow(j) * Pow(k)
<1>1. j \in {0, 1, 2, 3, 4, 5, 6, 7} /\ k \in {0, 1, 2, 3, 4, 5, 6, 7}
  OBVIOUS
<1>2. Pow(j) \in Nat \ {0}
  BY <1>1, Powers
<1>3. Pow(j + k) = Pow(j) * Pow(k)
  BY <1>1, Powers
<1> QED  BY <1>2, <1>3

\* Two shifts to the right are one.
LEMMA ShiftShift ==
    ASSUME NEW b \in Nat, NEW p \in Nat \ {0}, NEW q \in Nat \ {0}
    PROVE  (b \div p) \div q = b \div (p * q) /\ b \div p \in Nat
  OBVIOUS

\* bits<<5 | idx: the bits of the buffer move up, those of the digit are below.
LEMMA ShiftIn ==
    ASSUME NEW x \in Nat, NEW i \in 0 .. 31
    PROVE  /\ \A t \in 0 .. 7 : ((32 * x + i) \div Pow(t + 5)) % 2 = (x \div Pow(t)) % 2
           /\ \A t \in 0 .. 4 : ((32 * x + i) \div Pow(t)) % 2 = (i \div Pow(t)) % 2
<1>1. \A t \in 0 .. 7 : ((32 * x + i) \div Pow(t + 5)) % 2 = (x \div Pow(t)) % 2
  <2> SUFFICES ASSUME NEW t \in 0 .. 7 PROVE (32 * x + i) \div Pow(t + 5) = x \div Pow(t)
    OBVIOUS
  <2>1. PICK q : q = Pow(t)
    OBVIOUS
  <2>2. q \in Nat \ {0} /\ Pow(t + 5) = 32 * q
    <3>1. t \in {0, 1, 2, 3, 4, 5, 6, 7}
      OBVIOUS
    <3> QED  BY <2>1, <3>1, Powers
  <2>3. (32 * x + i) \div 32 = x /\ 32 * x + i \in Nat
    OBVIOUS
  <2>4. ((32 * x + i) \div 32) \div q = (32 * x + i) \div (32 * q)
    <3>1. 32 \in Nat \ {0}
      OBVIOUS
    <3> QED  BY <2>2, <2>3, <3>1, ShiftShift, Zenon
  <2> QED  BY <2>1, <2>2, <2>3, <2>4
<1>2. \A t \in 0 .. 4 : ((32 * x + i) \div Pow(t)) % 2 = (i \div Pow(t)) % 2
  <2> SUFFICES ASSUME NEW t \in 0 .. 4 PROVE ((32 * x + i) \div Pow(t)) % 2 = (i \div Pow(t)) % 2
    OBVIOUS
  <2>1. /\ ((32 * x + i) \div 1) % 2 = (i \div 1) % 2
        /\ ((32 * x + i) \div 2) % 2 = (i \div 2) % 2
        /\ ((32 * x + i) \div 4) % 2 = (i \div 4) % 2
        /\ ((32 * x + i) \div 8) % 2 = (i \div 8) % 2
        /\ ((32 * x + i) \div 16) % 2 = (i \div 16) % 2
    OBVIOUS
  <2>2. t \in {0, 1, 2, 3, 4}
    OBVIOUS
  <2> QED  BY <2>1, <2>2, Powers
<1> QED  BY <1>1, <1>2

\* bits &= (1 << nBits) - 1: the mask keeps the bits below nBits.
LEMMA Masked ==
    ASSUME NEW b \in Nat, NEW k \in 0 .. 4
    PROVE  /\ b % Pow(k) \in Nat /\ b % Pow(k) < Pow(k)
           /\ \A t \in 0 .. k - 1 : ((b % Pow(k)) \div Pow(t)) % 2 = (b \div Pow(t)) % 2
<1>1. k \in {0, 1, 2, 3, 4}
  OBVIOUS
<1>2. b % Pow(k) \in Nat /\ b % Pow(k) < Pow(k)
  BY <1>1, Powers
<1>3. /\ ((b % 2) \div 1) % 2 = (b \div 1) % 2
      /\ ((b % 4) \div 1) % 2 = (b \div 1) % 2
      /\ ((b % 8) \div 1) % 2 = (b \div 1) % 2
      /\ ((b % 16) \div 1) % 2 = (b \div 1) % 2
      /\ ((b % 4) \div 2) % 2 = (b \div 2) % 2
      /\ ((b % 8) \div 2) % 2 = (b \div 2) % 2
      /\ ((b % 16) \div 2) % 2 = (b \div 2) % 2
      /\ ((b % 8) \div 4) % 2 = (b \div 4) % 2
      /\ ((b % 16) \div 4) % 2 = (b \div 4) % 2
      /\ ((b % 16) \div 8) % 2 = (b \div 8) % 2
  OBVIOUS
<1>4. ASSUME NEW t \in 0 .. k - 1
      PROVE  ((b % Pow(k)) \div Pow(t)) % 2 = (b \div Pow(t)) % 2
  <2>1. t \in {0, 1, 2, 3} /\ t < k
    BY <1>1
  <2> QED  BY <1>1, <1>3, <2>1, Powers
<1> QED  BY <1>2, <1>4

\* byte(bits >> nBits): the upper eight bits, and nothing is cut off.
LEMMA ByteOut ==
    ASSUME NEW b \in Nat, NEW k \in 0 .. 4, b < Pow(k + 8)
    PROVE  /\ (b \div Pow(k)) % 256 = b \div Pow(k)
           /\ b \div Pow(k) \in 0 .. 255
           /\ \A t \in 0 .. 7 : (b \div Pow(k)) \div Pow(t) = b \div Pow(k + t)
<1>1. k \in {0, 1, 2, 3, 4}
  OBVIOUS
<1>2. PICK x : x = b \div Pow(k)
  OBVIOUS
<1>3. x \in 0 .. 255
  BY <1>1, <1>2, Powers
<1>4. x % 256 = x
  BY <1>3
<1>5. ASSUME NEW t \in 0 .. 7
      PROVE  x \div Pow(t) = b \div Pow(k + t)
  <2>1. PICK p : p = Pow(k)
    OBVIOUS
  <2>2. PICK q : q = Pow(t)
    OBVIOUS
  <2>3. p \in Nat \ {0} /\ q \in Nat \ {0}
    <3>1. t \in {0, 1, 2, 3, 4, 5, 6, 7}
      OBVIOUS
    <3> QED  BY <1>1, <2>1, <2>2, <3>1, Powers
  <2>4. Pow(k + t) = p * q
    <3>1. k \in 0 .. 7 /\ k + t <= 12
      BY <1>1
    <3> QED  BY <2>1, <2>2, <3>1, PowSum
  <2>5. (b \div p) \div q = b \div (p * q)
    BY <2>3, ShiftShift, Zenon
  <2> QED  BY <1>2, <2>1, <2>2, <2>4, <2>5, Zenon
<1> QED  BY <1>2, <1>3, <1>4, <1>5

\* After bits<<5 | idx the buffer holds the next five bits too.
LEMMA DigitRead ==
    ASSUME NEW v, NEW m \in Nat, NEW o, NEW b, NEW n, Decoded(v, m, o, b, n),
           NEW i \in 0 .. 31, i = v[m + 1], NEW c, c = 32 * b + i
    PROVE  Buffered(v, 8 * Len(o), c, n + 5)
<1>1. PICK L : L = Len(o)
  OBVIOUS
<1>2. /\ n \in 0 .. 7 /\ b \in Nat /\ b < Pow(n) /\ L \in Nat /\ 5 * m = 8 * L + n
      /\ \A r \in 0 .. n - 1 : (b \div Pow(n - 1 - r)) % 2 = BitAt(5, v, 8 * L + r)
  BY <1>1 DEF Decoded, Buffered
<1>3. c \in Nat /\ c < Pow(n + 5)
  <2>1. PICK q : q = Pow(n)
    OBVIOUS
  <2>2. q \in Nat /\ Pow(n + 5) = 32 * q
    <3>1. n \in {0, 1, 2, 3, 4, 5, 6, 7}
      BY <1>2
    <3> QED  BY <2>1, <3>1, Powers
  <2> QED  BY <1>2, <2>1, <2>2
<1>4. ASSUME NEW r \in 0 .. n + 4
      PROVE  (c \div Pow(n + 4 - r)) % 2 = BitAt(5, v, 8 * L + r)
  <2>1. CASE r < n
    <3>1. PICK t : t = n - 1 - r
      OBVIOUS
    <3>2. t \in 0 .. 7 /\ n + 4 - r = t + 5 /\ r \in 0 .. n - 1
      BY <1>2, <1>4, <2>1, <3>1
    <3>3. (c \div Pow(t + 5)) % 2 = (b \div Pow(t)) % 2
      BY <1>2, <3>2, ShiftIn
    <3> QED  BY <1>2, <3>1, <3>2, <3>3
  <2>2. CASE r >= n
    <3>1. PICK t : t = r - n
      OBVIOUS
    <3>2. PICK p : p = 8 * L + r
      OBVIOUS
    <3>3. t \in 0 .. 4 /\ n + 4 - r = 4 - t /\ 4 - t \in 0 .. 4 /\ p = 5 * m + t
      BY <1>2, <1>4, <2>2, <3>1, <3>2
    <3>4. p \div 5 + 1 = m + 1 /\ p % 5 = t
      BY <3>3
    <3>5. BitAt(5, v, p) = (i \div Pow(4 - t)) % 2
      <4>1. 5 - 1 - (p % 5) = 4 - t
        BY <3>3, <3>4
      <4> QED  BY <3>4, <4>1 DEF BitAt, Pow
    <3>6. (c \div Pow(4 - t)) % 2 = (i \div Pow(4 - t)) % 2
      BY <1>2, <3>3, ShiftIn
    <3> QED  BY <3>2, <3>3, <3>5, <3>6
  <2> QED  BY <1>2, <1>4, <2>1, <2>2
<1>5. PICK w : w = n + 5
  OBVIOUS
<1>6. ASSUME NEW r \in 0 .. w - 1
      PROVE  (c \div Pow(w - 1 - r)) % 2 = BitAt(5, v, 8 * L + r)
  <2>1. r \in 0 .. n + 4 /\ w - 1 - r = n + 4 - r
    BY <1>2, <1>5, <1>6
  <2> QED  BY <1>4, <2>1
<1>7. Buffered(v, 8 * L, c, w)
  BY <1>3, <1>5, <1>6 DEF Buffered
<1> QED  BY <1>1, <1>5, <1>7

\* When eight bits are there, they become the next byte and leave the buffer.
LEMMA ByteStored ==
    ASSUME NEW v, NEW m \in Nat, NEW o, NEW b, NEW n, Decoded(v, m, o, b, n),
           NEW i \in 0 .. 31, i = v[m + 1], NEW c, c = 32 * b + i, n + 5 >= 8
    PROVE  Decoded(v, m + 1, Append(o, (c \div 2 ^ ((n + 5) - 8)) % 2 ^ 8), c % 2 ^ ((n + 5) - 8), (n + 5) - 8)
<1>1. PICK L : L = Len(o)
  OBVIOUS
<1>2. PICK k : k = (n + 5) - 8
  OBVIOUS
<1>3. /\ n \in 0 .. 7 /\ L \in Nat /\ 5 * m = 8 * L + n /\ o \in Seq(0 .. 255)
      /\ \A p \in 0 .. 8 * L - 1 : BitAt(8, o, p) = BitAt(5, v, p)
  BY <1>1 DEF Decoded
<1>4. k \in 0 .. 4 /\ n + 4 = k + 7 /\ n + 5 = k + 8 /\ k \in 0 .. 7 /\ 5 * (m + 1) = 8 * (L + 1) + k
  BY <1>2, <1>3
<1>5. /\ c \in Nat /\ c < Pow(k + 8)
      /\ \A r \in 0 .. k + 7 : (c \div Pow(k + 7 - r)) % 2 = BitAt(5, v, 8 * L + r)
  <2>1. Buffered(v, 8 * L, c, k + 8)
    BY <1>1, <1>4, DigitRead
  <2>2. PICK w : w = k + 8
    OBVIOUS
  <2>3. /\ c \in Nat /\ c < Pow(w)
        /\ \A r \in 0 .. w - 1 : (c \div Pow(w - 1 - r)) % 2 = BitAt(5, v, 8 * L + r)
    BY <2>1, <2>2 DEF Buffered
  <2>4. ASSUME NEW r \in 0 .. k + 7
        PROVE  (c \div Pow(k + 7 - r)) % 2 = BitAt(5, v, 8 * L + r)
    <3>1. r \in 0 .. w - 1 /\ w - 1 - r = k + 7 - r
      BY <1>4, <2>2, <2>4
    <3> QED  BY <2>3, <3>1
  <2> QED  BY <2>2, <2>3, <2>4
<1>6. PICK x : x = c \div Pow(k)
  OBVIOUS
<1>7. x \in 0 .. 255 /\ x % 256 = x /\ \A t \in 0 .. 7 : x \div Pow(t) = c \div Pow(k + t)
  BY <1>4, <1>5, <1>6, ByteOut
<1>8. PICK e : e = Append(o, x)
  OBVIOUS
<1>9. e \in Seq(0 .. 255) /\ Len(e) = L + 1 /\ e[L + 1] = x /\ \A j \in 1 .. L : e[j] = o[j]
  BY <1>1, <1>3, <1>7, <1>8
<1>10. ASSUME NEW p \in 0 .. 8 * (L + 1) - 1
       PROVE  BitAt(8, e, p) = BitAt(5, v, p)
  <2>1. CASE p < 8 * L
    <3>1. p \in 0 .. 8 * L - 1 /\ p \div 8 + 1 \in 1 .. L
      BY <1>3, <1>10, <2>1
    <3>2. BitAt(8, e, p) = BitAt(8, o, p)
      BY <1>9, <3>1 DEF BitAt
    <3> QED  BY <1>3, <3>1, <3>2
  <2>2. CASE p >= 8 * L
    <3>1. PICK r : r = p - 8 * L
      OBVIOUS
    <3>2. r \in 0 .. 7 /\ 7 - r \in 0 .. 7 /\ p = 8 * L + r /\ p \div 8 + 1 = L + 1 /\ p % 8 = r
      BY <1>3, <1>10, <2>2, <3>1
    <3>3. BitAt(8, e, p) = (x \div Pow(7 - r)) % 2
      <4>1. 8 - 1 - (p % 8) = 7 - r
        BY <3>2
      <4> QED  BY <1>9, <3>2, <4>1 DEF BitAt, Pow
    <3>4. x \div Pow(7 - r) = c \div Pow(k + 7 - r)
      <4>1. k + (7 - r) = k + 7 - r
        BY <1>4, <3>2
      <4> QED  BY <1>7, <3>2, <4>1
    <3>5. r \in 0 .. k + 7
      BY <1>4, <3>2
    <3> QED  BY <1>5, <3>2, <3>3, <3>4, <3>5
  <2> QED  BY <1>3, <1>10, <2>1, <2>2
<1>11. PICK d : d = c % Pow(k)
  OBVIOUS
<1>12. d \in Nat /\ d < Pow(k) /\ \A t \in 0 .. k - 1 : (d \div Pow(t)) % 2 = (c \div Pow(t)) % 2
  BY <1>4, <1>5, <1>11, Masked
<1>13. ASSUME NEW r \in 0 .. k - 1
       PROVE  (d \div Pow(k - 1 - r)) % 2 = BitAt(5, v, 8 * (L + 1) + r)
  <2>1. k - 1 - r \in 0 .. k - 1 /\ 8 + r \in 0 .. k + 7 /\ k + 7 - (8 + r) = k - 1 - r
    BY <1>4, <1>13
  <2>2. 8 * L + (8 + r) = 8 * (L + 1) + r
    BY <1>3, <1>4, <1>13
  <2>3. (c \div Pow(k - 1 - r)) % 2 = BitAt(5, v, 8 * L + (8 + r))
    BY <1>5, <2>1
  <2> QED  BY <1>12, <2>1, <2>2, <2>3
<1>14. Decoded(v, m + 1, e, d, k)
  <2>1. Buffered(v, 8 * Len(e), d, k)
    BY <1>9, <1>12, <1>13 DEF Buffered
  <2> QED  BY <1>4, <1>9, <1>10, <2>1 DEF Decoded
<1>15. 2 ^ 8 = 256
  BY Powers DEF Pow
<1>16. e = Append(o, (c \div 2 ^ k) % 2 ^ 8) /\ d = c % 2 ^ k
  BY <1>6, <1>7, <1>8, <1>11, <1>15 DEF Pow
<1> QED  BY <1>2, <1>14, <1>16

\* With fewer than eight bits there is nothing to store.
LEMMA BitsKept ==
    ASSUME NEW v, NEW m \in Nat, NEW o, NEW b, NEW n, Decoded(v, m, o, b, n),
           NEW i \in 0 .. 31, i = v[m + 1], NEW c, c = 32 * b + i, ~(n + 5 >= 8)
    PROVE  Decoded(v, m + 1, o, c, n + 5)
<1>1. PICK L : L = Len(o)
  OBVIOUS
<1>2. PICK k : k = n + 5
  OBVIOUS
<1>3. /\ n \in 0 .. 7 /\ L \in Nat /\ 5 * m = 8 * L + n /\ o \in Seq(0 .. 255)
      /\ \A p \in 0 .. 8 * L - 1 : BitAt(8, o, p) = BitAt(5, v, p)
  BY <1>1 DEF Decoded
<1>4. k \in 0 .. 7 /\ n + 4 = k - 1 /\ 5 * (m + 1) = 8 * L + k
  BY <1>2, <1>3
<1>5. Buffered(v, 8 * L, c, k)
  BY <1>1, <1>2, DigitRead
<1>6. Decoded(v, m + 1, o, c, k)
  BY <1>1, <1>3, <1>4, <1>5 DEF Decoded
<1> QED  BY <1>2, <1>6

\* Before the first character.
LEMMA NothingDecoded == \A v : Decoded(v, 0, <<>>, 0, 0)
<1> SUFFICES ASSUME NEW v PROVE Decoded(v, 0, <<>>, 0, 0)
  OBVIOUS
<1>1. PICK o : o = <<>>
  OBVIOUS
<1>2. o \in Seq(0 .. 255) /\ Len(o) = 0
  BY <1>1
<1>3. Buffered(v, 0, 0, 0)
  BY Powers DEF Buffered
<1>4. Decoded(v, 0, o, 0, 0)
  BY <1>2, <1>3 DEF Decoded
<1> QED  BY <1>1, <1>4

\* A number of characters that makes whole bytes leaves the buffer empty, and
\* the bytes have all the bits.
LEMMA AllDecoded ==
    ASSUME NEW v, NEW m \in Nat, NEW o, NEW b, NEW n, Decoded(v, m, o, b, n),
           Len(v) = m, NEW H \in Nat, 5 * m = 8 * H
    PROVE  Len(o) = H /\ BitsOf(8, o) = BitsOf(5, v)
<1>1. PICK L : L = Len(o)
  OBVIOUS
<1>2. /\ n \in 0 .. 7 /\ L \in Nat /\ 5 * m = 8 * L + n
      /\ \A p \in 0 .. 8 * L - 1 : BitAt(8, o, p) = BitAt(5, v, p)
  BY <1>1 DEF Decoded
<1>3. L = H /\ 5 * m = 8 * L
  BY <1>2
<1>4. ASSUME NEW j \in 1 .. 8 * L PROVE BitAt(8, o, j - 1) = BitAt(5, v, j - 1)
  <2>1. j - 1 \in 0 .. 8 * L - 1
    BY <1>2, <1>4
  <2> QED  BY <1>2, <2>1
<1> QED  BY <1>1, <1>3, <1>4 DEF BitsOf

\* The two digits of a byte of hex.
LEMMA HexByte ==
    ASSUME NEW h \in 0 .. 15, NEW l \in 0 .. 15
    PROVE  /\ \A t \in 0 .. 3 : ((16 * h + l) \div Pow(t)) % 2 = (l \div Pow(t)) % 2
           /\ \A t \in 0 .. 3 : ((16 * h + l) \div Pow(t + 4)) % 2 = (h \div Pow(t)) % 2
<1>1. /\ ((16 * h + l) \div 1) % 2 = (l \div 1) % 2
      /\ ((16 * h + l) \div 2) % 2 = (l \div 2) % 2
      /\ ((16 * h + l) \div 4) % 2 = (l \div 4) % 2
      /\ ((16 * h + l) \div 8) % 2 = (l \div 8) % 2
  OBVIOUS
<1>2. /\ ((16 * h + l) \div 16) % 2 = (h \div 1) % 2
      /\ ((16 * h + l) \div 32) % 2 = (h \div 2) % 2
      /\ ((16 * h + l) \div 64) % 2 = (h \div 4) % 2
      /\ ((16 * h + l) \div 128) % 2 = (h \div 8) % 2
  OBVIOUS
<1>3. ASSUME NEW t \in 0 .. 3
      PROVE  /\ ((16 * h + l) \div Pow(t)) % 2 = (l \div Pow(t)) % 2
             /\ ((16 * h + l) \div Pow(t + 4)) % 2 = (h \div Pow(t)) % 2
  <2>1. t \in {0, 1, 2, 3}
    OBVIOUS
  <2> QED  BY <1>1, <1>2, <2>1, Powers
<1> QED  BY <1>3

\* hex.DecodeString: the bytes have the bits of the digits.
LEMMA HexDecoded ==
    ASSUME NEW H \in Nat, NEW v, Len(v) = 2 * H, \A k \in 1 .. 2 * H : v[k] \in 0 .. 15,
           NEW o, o = [k \in 1 .. H |-> 16 * v[2 * k - 1] + v[2 * k]]
    PROVE  Len(o) = H /\ BitsOf(8, o) = BitsOf(4, v)
<1>1. Len(o) = H
  <2>1. \A k \in 1 .. H : 16 * v[2 * k - 1] + v[2 * k] \in Nat
    <3> SUFFICES ASSUME NEW k \in 1 .. H PROVE 16 * v[2 * k - 1] + v[2 * k] \in Nat
      OBVIOUS
    <3>1. 2 * k - 1 \in 1 .. 2 * H /\ 2 * k \in 1 .. 2 * H
      OBVIOUS
    <3>2. PICK h : h = v[2 * k - 1]
      OBVIOUS
    <3>3. PICK l : l = v[2 * k]
      OBVIOUS
    <3>4. h \in 0 .. 15 /\ l \in 0 .. 15
      BY <3>1, <3>2, <3>3
    <3>5. 16 * h + l \in Nat
      BY <3>4
    <3> QED  BY <3>2, <3>3, <3>5
  <2>2. o \in [1 .. H -> Nat]
    BY <2>1
  <2>3. o \in Seq(Nat) /\ DOMAIN o = 1 .. H
    BY <2>2
  <2> QED  BY <2>3
<1>2. ASSUME NEW p \in 0 .. 8 * H - 1
      PROVE  BitAt(8, o, p) = BitAt(4, v, p)
  <2>1. PICK k : k = p \div 8 + 1
    OBVIOUS
  <2>2. PICK r : r = p % 8
    OBVIOUS
  <2>3. k \in 1 .. H /\ r \in 0 .. 7 /\ p = 8 * (k - 1) + r
    BY <1>2, <2>1, <2>2
  <2>4. PICK h : h = v[2 * k - 1]
    OBVIOUS
  <2>5. PICK l : l = v[2 * k]
    OBVIOUS
  <2>6. h \in 0 .. 15 /\ l \in 0 .. 15 /\ o[k] = 16 * h + l
    <3>1. 2 * k - 1 \in 1 .. 2 * H /\ 2 * k \in 1 .. 2 * H
      BY <2>3
    <3> QED  BY <2>3, <2>4, <2>5, <3>1
  <2>7. BitAt(8, o, p) = ((16 * h + l) \div Pow(7 - r)) % 2
    <3>1. 8 - 1 - r = 7 - r
      BY <2>3
    <3> QED  BY <2>1, <2>2, <2>6, <3>1 DEF BitAt, Pow
  <2>8. CASE r < 4
    <3>1. PICK t : t = 3 - r
      OBVIOUS
    <3>2. t \in 0 .. 3 /\ 7 - r = t + 4 /\ p \div 4 + 1 = 2 * k - 1 /\ 4 - 1 - (p % 4) = t
      <4>1. k \in Nat /\ p = 4 * (2 * k - 2) + r /\ r \in 0 .. 3 /\ 2 * k - 2 \in Nat
        BY <2>3, <2>8
      <4>2. p \div 4 = 2 * k - 2 /\ p % 4 = r
        BY <4>1
      <4> QED  BY <3>1, <4>1, <4>2
    <3>3. BitAt(4, v, p) = (h \div Pow(t)) % 2
      BY <2>4, <3>2 DEF BitAt, Pow
    <3>4. ((16 * h + l) \div Pow(t + 4)) % 2 = (h \div Pow(t)) % 2
      BY <2>6, <3>2, HexByte
    <3> QED  BY <2>7, <3>2, <3>3, <3>4
  <2>9. CASE r >= 4
    <3>1. PICK t : t = 7 - r
      OBVIOUS
    <3>2. t \in 0 .. 3 /\ p \div 4 + 1 = 2 * k /\ 4 - 1 - (p % 4) = t
      BY <2>3, <2>9, <3>1
    <3>3. BitAt(4, v, p) = (l \div Pow(t)) % 2
      BY <2>5, <3>2 DEF BitAt, Pow
    <3>4. ((16 * h + l) \div Pow(t)) % 2 = (l \div Pow(t)) % 2
      BY <2>6, <3>2, HexByte
    <3> QED  BY <2>7, <3>1, <3>3, <3>4
  <2> QED  BY <2>3, <2>8, <2>9
<1>3. ASSUME NEW j \in 1 .. 8 * H PROVE BitAt(8, o, j - 1) = BitAt(4, v, j - 1)
  <2>1. j - 1 \in 0 .. 8 * H - 1
    BY <1>3
  <2> QED  BY <1>2, <2>1
<1>4. 8 * Len(o) = 8 * H /\ 4 * Len(v) = 8 * H
  BY <1>1
<1> QED  BY <1>1, <1>3, <1>4 DEF BitsOf

\* A character that is there has its place as its number.
LEMMA DigitRange ==
    /\ \A c : IndexRune(Alphabet, c) = -1 \/ IndexRune(Alphabet, c) \in 0 .. 31
    /\ \A c : IndexRune(HexDigits, c) = -1 \/ IndexRune(HexDigits, c) \in 0 .. 15
<1>1. DOMAIN Alphabet = 1 .. 32
  BY DEF Alphabet
<1>2. DOMAIN HexDigits = 1 .. 16
  BY DEF HexDigits
<1>3. ASSUME NEW s, NEW N \in Nat, DOMAIN s = 1 .. N, NEW c
      PROVE  IndexRune(s, c) = -1 \/ IndexRune(s, c) \in 0 .. N - 1
  <2>1. CASE \E i \in 1 .. N : s[i] = ToUpper(c)
    <3>1. PICK i : i = CHOOSE j \in 1 .. N : s[j] = ToUpper(c)
      OBVIOUS
    <3>2. i \in 1 .. N
      BY <2>1, <3>1
    <3>3. IndexRune(s, c) = i - 1
      BY <1>3, <2>1, <3>1 DEF IndexRune
    <3> QED  BY <3>2, <3>3
  <2>2. CASE ~ \E i \in 1 .. N : s[i] = ToUpper(c)
    BY <1>3, <2>2 DEF IndexRune
  <2> QED  BY <2>1, <2>2
<1>4. \A c : IndexRune(Alphabet, c) = -1 \/ IndexRune(Alphabet, c) \in 0 .. 31
  <2> SUFFICES ASSUME NEW c PROVE IndexRune(Alphabet, c) = -1 \/ IndexRune(Alphabet, c) \in 0 .. 31
    OBVIOUS
  <2>1. IndexRune(Alphabet, c) = -1 \/ IndexRune(Alphabet, c) \in 0 .. 32 - 1
    BY <1>1, <1>3
  <2> QED  BY <2>1
<1>5. \A c : IndexRune(HexDigits, c) = -1 \/ IndexRune(HexDigits, c) \in 0 .. 15
  <2> SUFFICES ASSUME NEW c PROVE IndexRune(HexDigits, c) = -1 \/ IndexRune(HexDigits, c) \in 0 .. 15
    OBVIOUS
  <2>1. IndexRune(HexDigits, c) = -1 \/ IndexRune(HexDigits, c) \in 0 .. 16 - 1
    BY <1>2, <1>3
  <2> QED  BY <2>1
<1> QED  BY <1>4, <1>5

\* The numbers of the characters of a sequence.
LEMMA ValuesOfSeq ==
    ASSUME NEW digits, NEW s, IsSeq(s)
    PROVE  /\ Len(Values(digits, s)) = Len(s) /\ DOMAIN s = 1 .. Len(s)
           /\ \A k \in 1 .. Len(s) : Values(digits, s)[k] = IndexRune(digits, s[k])
<1>1. PICK N : N = Len(s)
  OBVIOUS
<1>2. N \in Nat /\ DOMAIN s = 1 .. N
  BY <1>1 DEF IsSeq
<1>3. PICK v : v = Values(digits, s)
  OBVIOUS
<1>4. v = [k \in 1 .. N |-> IndexRune(digits, s[k])]
  BY <1>2, <1>3 DEF Values
<1>5. Len(v) = N
  <2>1. DOMAIN v = 1 .. N
    BY <1>4
  <2> QED  BY <1>2, <2>1, <1>4
<1> QED  BY <1>1, <1>2, <1>3, <1>4, <1>5

\* Whole bytes in both encodings, which differ in length.
LEMMA Lengths ==
    /\ HashLen \in Nat /\ HexLen = 2 * HashLen /\ Base32Len \in Nat
    /\ 5 * Base32Len = 8 * HashLen /\ HexLen # Base32Len
<1>1. PICK H : H = HashLen
  OBVIOUS
<1>2. H \in Nat \ {0} /\ H % 5 = 0
  BY <1>1, MagnetAssumption
<1>3. PICK q : q = H \div 5
  OBVIOUS
<1>4. q \in Nat /\ H = 5 * q
  BY <1>2, <1>3
<1>5. (8 * H) \div 5 = 8 * q
  BY <1>4
<1> QED  BY <1>1, <1>2, <1>4, <1>5 DEF HexLen, Base32Len

\* The argument as it was given.
LEMMA ParseInit == Init => ParseInv
<1> SUFFICES ASSUME Init, pc = "start", text # NoArgument
             PROVE  /\ IsSeq(text.hash)
                    /\ "hash" \in DOMAIN link /\ IsSeq(link.hash)
                    /\ ppc = "parse" => link = text /\ bits = 0 /\ nBits = 0 /\ out = <<>>
                    /\ ppc = "base32" => Reading
                    /\ HashExact
  BY DEF ParseInv
<1>1. link \in Links /\ text = link /\ ppc = "parse" /\ bits = 0 /\ nBits = 0 /\ out = <<>>
  BY DEF Init, InitMagnet
<1>2. "hash" \in DOMAIN link /\ IsSeq(link.hash)
  BY <1>1, ClientAssumption
<1> QED  BY <1>1, <1>2 DEF HashExact

\* A step of the parser on an argument.
Parsing == pc = "start" /\ text # NoArgument /\ UNCHANGED <<pc, text>>

\* Hex: all the characters at once.
LEMMA HexStep ==
    ASSUME ParseInv, Parsing, DecodeHex
    PROVE  ParseInv'
<1>1. /\ ppc = "parse" /\ Prefixed /\ Len(link.hash) = HexLen
      /\ \A k \in DOMAIN link.hash : IndexRune(HexDigits, link.hash[k]) >= 0
      /\ out' = [k \in 1 .. HashLen |-> 16 * IndexRune(HexDigits, link.hash[2 * k - 1])
                                           + IndexRune(HexDigits, link.hash[2 * k])]
      /\ ppc' = "parsed" /\ link' = link
  BY DEF DecodeHex
<1>2. /\ IsSeq(text.hash) /\ "hash" \in DOMAIN link /\ IsSeq(link.hash) /\ link = text
      /\ pc' = "start" /\ text' = text /\ text # NoArgument
  BY <1>1 DEF ParseInv, Parsing
<1>3. PICK s : s = text.hash
  OBVIOUS
<1>4. PICK v : v = Values(HexDigits, s)
  OBVIOUS
<1>5. IsSeq(s) /\ Len(s) = 2 * HashLen /\ HashLen \in Nat
  BY <1>1, <1>2, <1>3, Lengths
<1>6. /\ Len(v) = 2 * HashLen /\ DOMAIN s = 1 .. 2 * HashLen
      /\ \A k \in 1 .. 2 * HashLen : v[k] = IndexRune(HexDigits, s[k])
  BY <1>4, <1>5, ValuesOfSeq
<1>7. \A k \in 1 .. 2 * HashLen : v[k] \in 0 .. 15
  <2> SUFFICES ASSUME NEW k \in 1 .. 2 * HashLen PROVE v[k] \in 0 .. 15
    OBVIOUS
  <2>1. PICK x : x = IndexRune(HexDigits, s[k])
    OBVIOUS
  <2>2. x >= 0
    BY <1>1, <1>2, <1>3, <1>6, <2>1
  <2>3. x = -1 \/ x \in 0 .. 15
    BY <2>1, DigitRange
  <2> QED  BY <1>6, <2>1, <2>2, <2>3
<1>8. out' = [k \in 1 .. HashLen |-> 16 * v[2 * k - 1] + v[2 * k]]
  <2>1. ASSUME NEW k \in 1 .. HashLen
        PROVE  v[2 * k - 1] = IndexRune(HexDigits, s[2 * k - 1]) /\ v[2 * k] = IndexRune(HexDigits, s[2 * k])
    <3>1. 2 * k - 1 \in 1 .. 2 * HashLen /\ 2 * k \in 1 .. 2 * HashLen
      BY <1>5, <2>1
    <3> QED  BY <1>6, <3>1
  <2> QED  BY <1>1, <1>2, <1>3, <2>1
<1>9. Len(out') = HashLen /\ BitsOf(8, out') = BitsOf(4, v)
  BY <1>5, <1>6, <1>7, <1>8, HexDecoded
<1>10. GoodLink'
  <2>1. text.scheme /\ text.query /\ text.xt /\ text.urn
    BY <1>1, <1>2 DEF Prefixed
  <2>2. GoodHash(HexDigits, HexLen)'
    BY <1>1, <1>2 DEF GoodHash
  <2> QED  BY <1>2, <2>1, <2>2 DEF GoodLink
<1>11. HashExact'
  BY <1>1, <1>2, <1>3, <1>4, <1>9, <1>10 DEF HashExact
<1> QED  BY <1>1, <1>2, <1>11 DEF ParseInv

\* What the parser refuses at once is no good link.
LEMMA RefuseStep ==
    ASSUME ParseInv, Parsing, ParseFails
    PROVE  ParseInv'
<1>1. /\ ppc = "parse" /\ ppc' = "bad" /\ link' = link
      /\ \/ ~Prefixed
         \/ Len(link.hash) \notin {HexLen, Base32Len}
         \/ /\ Len(link.hash) = HexLen
            /\ \E k \in DOMAIN link.hash : IndexRune(HexDigits, link.hash[k]) < 0
  BY DEF ParseFails
<1>2. /\ IsSeq(text.hash) /\ "hash" \in DOMAIN link /\ IsSeq(link.hash) /\ link = text
      /\ pc' = "start" /\ text' = text /\ text # NoArgument
  BY <1>1 DEF ParseInv, Parsing
<1>3. ~GoodLink
  <2> SUFFICES ASSUME GoodLink PROVE FALSE
    OBVIOUS
  <2>1. /\ Prefixed
        /\ \/ Len(link.hash) = Base32Len
           \/ /\ Len(link.hash) = HexLen
              /\ \A k \in DOMAIN link.hash : IndexRune(HexDigits, link.hash[k]) >= 0
    BY <1>2 DEF GoodLink, GoodHash, Prefixed
  <2>2. PICK k \in DOMAIN link.hash : IndexRune(HexDigits, link.hash[k]) < 0
    BY <1>1, <2>1
  <2>3. Len(link.hash) = HexLen
    BY <1>1, <2>1
  <2>4. IndexRune(HexDigits, link.hash[k]) >= 0
    BY <2>1, <2>3, Lengths
  <2>5. PICK x : x = IndexRune(HexDigits, link.hash[k])
    OBVIOUS
  <2>6. x = -1 \/ x \in 0 .. 15
    BY <2>5, DigitRange
  <2> QED  BY <2>2, <2>4, <2>5, <2>6
<1>4. ~GoodLink'
  BY <1>2, <1>3 DEF GoodLink, GoodHash
<1>5. HashExact'
  BY <1>1, <1>4 DEF HashExact
<1> QED  BY <1>1, <1>2, <1>5 DEF ParseInv

\* decodeBase32 is called, with nothing read.
LEMMA StartStep ==
    ASSUME ParseInv, Parsing, StartBase32
    PROVE  ParseInv'
<1>1. /\ ppc = "parse" /\ Prefixed /\ Len(link.hash) = Base32Len /\ ppc' = "base32"
      /\ UNCHANGED <<link, bits, nBits, out>>
  BY DEF StartBase32
<1>2. /\ IsSeq(text.hash) /\ "hash" \in DOMAIN link /\ IsSeq(link.hash) /\ link = text
      /\ pc' = "start" /\ text' = text /\ text # NoArgument
      /\ bits = 0 /\ nBits = 0 /\ out = <<>>
  BY <1>1 DEF ParseInv, Parsing
<1>3. text.scheme /\ text.query /\ text.xt /\ text.urn
  BY <1>1, <1>2 DEF Prefixed
<1>4. Taken' = 0 /\ Base32Len \in Nat
  BY <1>1, <1>2, Lengths DEF Taken
<1>5. PICK v : v = Values(Alphabet, text.hash)
  OBVIOUS
<1>6. Decoded(v, Taken', out', bits', nBits')
  <2>1. Decoded(v, 0, <<>>, 0, 0)
    BY NothingDecoded
  <2> QED  BY <1>1, <1>2, <1>4, <2>1
<1>7. Taken' \in 0 .. Base32Len /\ 1 .. Taken' = {}
  BY <1>4
<1>8. \A k \in 1 .. Len(link.hash) : link.hash[k] = text.hash[Taken' + k]
  <2> SUFFICES ASSUME NEW k \in 1 .. Len(link.hash) PROVE link.hash[k] = text.hash[Taken' + k]
    OBVIOUS
  <2>1. 0 + k = k
    OBVIOUS
  <2> QED  BY <1>2, <1>4, <2>1
<1>9. Reading'
  <2>1. Values(Alphabet, text.hash)' = v
    BY <1>2, <1>5 DEF Values
  <2> QED  BY <1>1, <1>2, <1>3, <1>6, <1>7, <1>8, <2>1 DEF Reading
<1>10. HashExact'
  BY <1>1 DEF HashExact
<1> QED  BY <1>1, <1>2, <1>9, <1>10 DEF ParseInv

\* One character of base32, good or bad.
LEMMA CharStep ==
    ASSUME ParseInv, Parsing, DecodeChar
    PROVE  ParseInv'
<1>1. ppc = "base32" /\ link.hash # <<>>
  BY DEF DecodeChar
<1>2. /\ IsSeq(text.hash) /\ "hash" \in DOMAIN link /\ IsSeq(link.hash) /\ Reading
      /\ pc' = "start" /\ text' = text /\ text # NoArgument
  BY <1>1 DEF ParseInv, Parsing
<1>3. PICK s : s = text.hash
  OBVIOUS
<1>4. PICK r : r = link.hash
  OBVIOUS
<1>5. PICK m : m = Taken
  OBVIOUS
<1>6. PICK v : v = Values(Alphabet, s)
  OBVIOUS
<1>7. PICK R : R = Len(r)
  OBVIOUS
<1>8. PICK N : N = Base32Len
  OBVIOUS
<1>9. /\ Len(s) = N /\ m = N - R /\ m \in 0 .. N /\ N \in Nat
      /\ \A k \in 1 .. R : r[k] = s[m + k]
      /\ \A k \in 1 .. m : IndexRune(Alphabet, s[k]) >= 0
      /\ Decoded(v, m, out, bits, nBits)
  BY <1>2, <1>3, <1>4, <1>5, <1>6, <1>7, <1>8, Lengths DEF Reading, Taken
<1>10. R \in Nat \ {0} /\ r = [k \in 1 .. R |-> r[k]]
  <2>1. R \in Nat /\ r = [k \in 1 .. R |-> r[k]] /\ r # <<>>
    BY <1>1, <1>2, <1>4, <1>7 DEF IsSeq
  <2>2. CASE R = 0
    <3>1. r = [k \in {} |-> r[k]]
      BY <2>1, <2>2
    <3>2. r = <<>>
      BY <3>1
    <3> QED  BY <2>1, <3>2
  <2> QED  BY <2>1, <2>2
<1>11. m + 1 \in 1 .. N /\ m \in Nat /\ 1 \in 1 .. R
  BY <1>9, <1>10
<1>12. PICK X : r \in Seq(X)
  <2>1. r \in [1 .. R -> {r[k] : k \in 1 .. R}]
    BY <1>10
  <2>2. r \in Seq({r[k] : k \in 1 .. R})
    BY <1>10, <2>1
  <2> QED  BY <2>2
<1>13. Head(r) = s[m + 1]
  <2>1. Head(r) = r[1]
    BY <1>12
  <2> QED  BY <1>9, <1>11, <2>1
<1>14. PICK i : i = IndexRune(Alphabet, s[m + 1])
  OBVIOUS
<1>15. i = -1 \/ i \in 0 .. 31
  BY <1>14, DigitRange
<1>16. DOMAIN s = 1 .. N /\ \A k \in 1 .. N : v[k] = IndexRune(Alphabet, s[k])
  BY <1>2, <1>3, <1>6, <1>9, ValuesOfSeq
<1>17. CASE i < 0
  <2>1. ppc' = "bad" /\ link' = link
    BY <1>4, <1>13, <1>14, <1>17 DEF DecodeChar
  <2>2. ~GoodLink
    <3> SUFFICES ASSUME GoodLink PROVE FALSE
      OBVIOUS
    <3>1. GoodHash(Alphabet, Base32Len)
      BY <1>3, <1>8, <1>9, Lengths DEF GoodLink, GoodHash
    <3>2. i >= 0
      BY <1>3, <1>11, <1>14, <1>16, <3>1 DEF GoodHash
    <3> QED  BY <1>15, <1>17, <3>2
  <2>3. ~GoodLink'
    BY <1>2, <2>2 DEF GoodLink, GoodHash
  <2>4. HashExact'
    BY <2>1, <2>3 DEF HashExact
  <2> QED  BY <1>2, <2>1, <2>4 DEF ParseInv
<1>18. CASE ~(i < 0)
  <2>1. i \in 0 .. 31 /\ i = v[m + 1]
    BY <1>11, <1>14, <1>15, <1>16, <1>18
  <2>2. PICK c : c = bits * 2 ^ 5 + i
    OBVIOUS
  <2>3. c = 32 * bits + i
    <3>1. 2 ^ 5 = 32 /\ bits \in Nat
      BY <1>9, Powers DEF Decoded, Buffered, Pow
    <3> QED  BY <2>1, <2>2, <3>1
  <2>4. /\ link' = [link EXCEPT !.hash = Tail(link.hash)] /\ ppc' = "base32"
        /\ IF nBits + 5 >= 8
           THEN /\ nBits' = (nBits + 5) - 8
                /\ out' = Append(out, (c \div 2 ^ ((nBits + 5) - 8)) % 2 ^ 8)
                /\ bits' = c % 2 ^ ((nBits + 5) - 8)
           ELSE nBits' = nBits + 5 /\ bits' = c /\ out' = out
    <3>1. i = IndexRune(Alphabet, Head(link.hash))
      BY <1>4, <1>13, <1>14
    <3>2. /\ link' = [link EXCEPT !.hash = Tail(@)] /\ UNCHANGED ppc
          /\ IF ByteReady(nBits + 5)
             THEN /\ nBits' = (nBits + 5) - 8
                  /\ out' = Append(out, (c \div 2 ^ ((nBits + 5) - 8)) % 2 ^ 8)
                  /\ bits' = c % 2 ^ ((nBits + 5) - 8)
             ELSE nBits' = nBits + 5 /\ bits' = c /\ UNCHANGED out
      BY <1>18, <2>2, <3>1, Zenon DEF DecodeChar
    <3> QED  BY <1>1, <3>2 DEF ByteReady
  <2>5. Decoded(v, m + 1, out', bits', nBits')
    <3>1. CASE nBits + 5 >= 8
      <4>1. Decoded(v, m + 1, Append(out, (c \div 2 ^ ((nBits + 5) - 8)) % 2 ^ 8),
                    c % 2 ^ ((nBits + 5) - 8), (nBits + 5) - 8)
        BY <1>9, <1>11, <2>1, <2>3, <3>1, ByteStored
      <4> QED  BY <2>4, <3>1, <4>1, Zenon
    <3>2. CASE ~(nBits + 5 >= 8)
      <4>1. Decoded(v, m + 1, out, c, nBits + 5)
        BY <1>9, <1>11, <2>1, <2>3, <3>2, BitsKept
      <4> QED  BY <2>4, <3>2, <4>1, Zenon
    <3> QED  BY <3>1, <3>2
  <2>6. PICK w : w = Tail(r)
    OBVIOUS
  <2>7. link'.hash = w /\ "hash" \in DOMAIN link'
    BY <1>2, <1>4, <2>4, <2>6
  <2>8. IsSeq(w) /\ Len(w) = R - 1 /\ \A k \in 1 .. R - 1 : w[k] = r[k + 1]
    <3>1. Len(r) = R /\ r # <<>>
      BY <1>1, <1>4, <1>7
    <3>2. w \in Seq(X) /\ Len(w) = Len(r) - 1 /\ \A k \in 1 .. Len(r) - 1 : w[k] = r[k + 1]
      BY <1>12, <2>6, <3>1
    <3>3. w = [k \in 1 .. Len(w) |-> w[k]] /\ Len(w) \in Nat
      BY <3>2
    <3> QED  BY <3>1, <3>2, <3>3 DEF IsSeq
  <2>9. Taken' = m + 1
    <3>1. Taken' = N - (R - 1)
      BY <1>2, <1>3, <1>9, <2>7, <2>8 DEF Taken
    <3> QED  BY <1>9, <1>10, <3>1
  <2>10. \A k \in 1 .. R - 1 : w[k] = s[(m + 1) + k]
    <3> SUFFICES ASSUME NEW k \in 1 .. R - 1 PROVE w[k] = s[(m + 1) + k]
      OBVIOUS
    <3>1. k + 1 \in 1 .. R /\ m + (k + 1) = (m + 1) + k
      BY <1>10, <1>11
    <3> QED  BY <1>9, <2>8, <3>1
  <2>11. \A k \in 1 .. m + 1 : IndexRune(Alphabet, s[k]) >= 0
    <3> SUFFICES ASSUME NEW k \in 1 .. m + 1 PROVE IndexRune(Alphabet, s[k]) >= 0
      OBVIOUS
    <3>1. k \in 1 .. m \/ k = m + 1
      BY <1>11
    <3>2. i >= 0
      BY <2>1
    <3> QED  BY <1>9, <1>14, <3>1, <3>2
  <2>12. Reading'
    <3>1. text.scheme /\ text.query /\ text.xt /\ text.urn
      BY <1>2 DEF Reading
    <3>2. Values(Alphabet, text.hash)' = v
      BY <1>2, <1>3, <1>6 DEF Values
    <3>3. Taken' \in 0 .. N /\ Len(s) = N
      BY <1>9, <1>11, <2>9
    <3> QED  BY <1>2, <1>3, <1>8, <2>5, <2>7, <2>8, <2>9, <2>10, <2>11, <3>1, <3>2, <3>3 DEF Reading
  <2>13. HashExact'
    BY <2>4 DEF HashExact
  <2> QED  BY <1>2, <2>4, <2>7, <2>8, <2>12, <2>13 DEF ParseInv
<1> QED  BY <1>17, <1>18

\* All characters are read: the bytes are the hash.
LEMMA DoneStep ==
    ASSUME ParseInv, Parsing, Base32Done
    PROVE  ParseInv'
<1>1. /\ ppc = "base32" /\ link.hash = <<>> /\ ppc' = "parsed" /\ UNCHANGED <<link, out>>
  BY DEF Base32Done
<1>2. /\ IsSeq(text.hash) /\ "hash" \in DOMAIN link /\ IsSeq(link.hash) /\ Reading
      /\ pc' = "start" /\ text' = text /\ text # NoArgument
  BY <1>1 DEF ParseInv, Parsing
<1>3. PICK s : s = text.hash
  OBVIOUS
<1>4. PICK v : v = Values(Alphabet, s)
  OBVIOUS
<1>5. PICK N : N = Base32Len
  OBVIOUS
<1>6. Len(s) = N /\ N \in Nat /\ Taken = N /\ Decoded(v, N, out, bits, nBits)
  <2>1. Len(s) = N /\ N \in Nat /\ Len(link.hash) = 0
    BY <1>1, <1>2, <1>3, <1>5, Lengths DEF Reading
  <2>2. Taken = N
    BY <1>3, <2>1 DEF Taken
  <2> QED  BY <1>2, <1>3, <1>4, <2>1, <2>2 DEF Reading
<1>7. Len(v) = N /\ DOMAIN s = 1 .. N
  BY <1>2, <1>3, <1>4, <1>6, ValuesOfSeq
<1>8. Len(out) = HashLen /\ BitsOf(8, out) = BitsOf(5, v)
  BY <1>5, <1>6, <1>7, Lengths, AllDecoded
<1>9. GoodLink'
  <2>1. GoodHash(Alphabet, Base32Len)'
    BY <1>2, <1>3, <1>5, <1>6, <1>7 DEF Reading, GoodHash
  <2>2. text.scheme /\ text.query /\ text.xt /\ text.urn
    BY <1>2 DEF Reading
  <2> QED  BY <1>2, <2>1, <2>2 DEF GoodLink
<1>10. Len(text'.hash) # HexLen
  BY <1>2, <1>3, <1>5, <1>6, Lengths
<1>11. HashExact'
  BY <1>1, <1>2, <1>3, <1>4, <1>8, <1>9, <1>10 DEF HashExact
<1> QED  BY <1>1, <1>2, <1>11 DEF ParseInv

\* Once run is past the link it never parses again.
LEMMA ParseStep == ParseInv /\ [Next]_vars => ParseInv'
<1> SUFFICES ASSUME ParseInv, [Next]_vars PROVE ParseInv'
  OBVIOUS
<1>1. CASE ParseLink
  <2>1. UNCHANGED <<pc, text>> /\ pc = "start" /\ Parse
    BY <1>1 DEF ParseLink, mainVars
  <2>2. CASE text = NoArgument
    BY <2>1, <2>2 DEF ParseInv
  <2>3. CASE text # NoArgument
    <3>1. Parsing
      BY <2>1, <2>3 DEF Parsing
    <3> QED  BY <2>1, <3>1, HexStep, StartStep, RefuseStep, CharStep, DoneStep DEF Parse
  <2> QED  BY <2>2, <2>3
<1>2. CASE UNCHANGED <<magnetVars, text, pc>>
  <2>1. UNCHANGED <<link, ppc, bits, nBits, out, text, pc>>
    BY <1>2 DEF magnetVars
  <2>2. UNCHANGED <<Taken, GoodLink>>
    BY <2>1 DEF Taken, GoodLink, GoodHash
  <2> QED  BY <2>1, <2>2 DEF ParseInv, Reading, HashExact
<1>3. CASE pc' # "start"
  BY <1>3 DEF ParseInv
<1>4. ASSUME Main PROVE ParseLink \/ pc' # "start"
  BY <1>4 DEF Main, Usage, BadLink, NothingToLoad, StartDisplay, SetField, StartPieces, StorePiece,
              CountPiece, CountBytes, DownloadReturns, Stopped, Return
<1>5. ASSUME Tick \/ TakeDone \/ Rendering PROVE UNCHANGED <<magnetVars, text, pc>>
  BY <1>5 DEF Tick, TakeDone, StartRender, Rendering, Load, ShowLine, mainVars
<1> QED  BY <1>1, <1>2, <1>3, <1>4, <1>5 DEF Next, Exited, vars, mainVars

\* For every link and every length of a hash that is whole rounds of base32:
\* the bytes that Parse returns have exactly the bits of the link's characters,
\* and a link is refused only when its characters are no such hash.
THEOREM HashExactHolds == Spec => []HashExact
<1>1. ParseInv => HashExact
  BY DEF ParseInv, HashExact
<1> QED  BY <1>1, ParseInit, ParseStep, PTL DEF Spec
=============================================================================
