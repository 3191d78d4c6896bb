------------------------------- MODULE Client -------------------------------
(***************************************************************************)
(* main.run: parse the link, find peers and metadata, start the display,   *)
(* download, stop the display.  The display goroutine renders the Stats    *)
(* while Download resets them, without synchronization, and then counts    *)
(* pieces in them; each of its loads is a step.                            *)
(*                                                                         *)
(* downloadPieces is its specification DownloadSpec, which module Download *)
(* implements; DiscoverAndFetchMetadata is the outcome module Discovery    *)
(* gives it.  The fields of Stats that no rendered number of this module   *)
(* depends on (TotalBytes, ActivePeers) are left out.                      *)
(***************************************************************************)
EXTENDS Magnet, FiniteSets

CONSTANTS
    PieceSets       \* the sets of pieces a torrent may have

NoArgument == [scheme |-> FALSE]

\* The characters of a link are a sequence.
IsSeq(s) == Len(s) \in Nat /\ s = [k \in 1 .. Len(s) |-> s[k]]

ASSUME ClientAssumption ==
    /\ \A S \in PieceSets : IsFiniteSet(S)
    /\ \A l \in Links \ {NoArgument} : "hash" \in DOMAIN l /\ IsSeq(l.hash)

VARIABLES
    text,           \* the link as it was given, while it is being parsed
    pc,             \* where run is
    exit,           \* what run returned
    pieces,         \* of the torrent
    disk, outcome,  \* of DownloadSpec
    stats,          \* t.Stats
    unset,          \* the fields that Download has still to set
    done,           \* d.done is closed
    dpc,            \* the display goroutine: "none", "select", "render", "done"
    last,           \* this render is the final one
    regs,           \* what it has loaded so far
    line            \* what the terminal shows

mainVars == <<text, pc, exit, pieces, disk, outcome, stats, unset, done>>
dispVars == <<dpc, last, regs, line>>
vars == <<magnetVars, mainVars, dispVars>>

Downloading(S) == INSTANCE DownloadSpec WITH Pieces <- S

NoStats == [TotalPieces |-> 0, Downloaded |-> 0, DownloadedBytes |-> 0, StartTime |-> 0]
NoLine == [progress |-> 0, downloaded |-> 0, total |-> 0, eta |-> "--:--"]

Written == {p \in DOMAIN disk : disk[p] = 1}
NumPieces == Cardinality(pieces)

Init ==
    /\ InitMagnet
    /\ text = link
    /\ pc = "start"
    /\ exit = "running"
    /\ pieces = {} /\ disk = <<>> /\ outcome = "running"
    /\ stats = NoStats /\ unset = {}
    /\ done = FALSE
    /\ dpc = "none" /\ last = FALSE /\ regs = <<>> /\ line = NoLine

-----------------------------------------------------------------------------
(* run, up to the display                                                  *)

Return(result) == pc' = "exit" /\ exit' = result

Usage ==
    /\ pc = "start" /\ link = NoArgument
    /\ Return("usage")
    /\ UNCHANGED <<magnetVars, text, pieces, disk, outcome, stats, unset, done, dispVars>>

ParseLink ==
    /\ pc = "start" /\ link # NoArgument
    /\ Parse
    /\ UNCHANGED <<mainVars, dispVars>>

BadLink ==
    /\ pc = "start" /\ ppc = "bad"
    /\ Return("badLink")
    /\ UNCHANGED <<magnetVars, text, pieces, disk, outcome, stats, unset, done, dispVars>>

\* The link is not looked at again: the parser's variables are forgotten.
Forget ==
    /\ link' = NoArgument /\ text' = NoArgument
    /\ ppc' = "parsed" /\ bits' = 0 /\ nBits' = 0 /\ out' = <<>>

\* os.Getwd or DiscoverAndFetchMetadata failed.
NothingToLoad ==
    /\ pc = "start" /\ ppc = "parsed"
    /\ Return("noTorrent")
    /\ Forget
    /\ UNCHANGED <<pieces, disk, outcome, stats, unset, done, dispVars>>

\* The metadata is there; display.New and Start come before Download.
StartDisplay(S) ==
    /\ pc = "start" /\ ppc = "parsed"
    /\ pieces' = S
    /\ disk' = [p \in S |-> 0]
    /\ unset' = DOMAIN NoStats
    /\ pc' = "reset"
    /\ dpc' = "select"
    /\ Forget
    /\ UNCHANGED <<exit, outcome, stats, done, last, regs, line>>

-----------------------------------------------------------------------------
(* Download                                                                *)

\* t.Stats = Stats{...} stores the fields in an order the compiler chooses,
\* and the display may load between two stores.  Every load of a StartTime of
\* which only some words are stored gives an elapsed time above zero, as the
\* zero time and the present do.
SetField(f) ==
    /\ pc = "reset" /\ f \in unset
    /\ unset' = unset \ {f}
    /\ stats' = [stats EXCEPT ![f] =
                     CASE f = "TotalPieces" -> NumPieces
                       [] f = "StartTime" -> 1
                       [] OTHER -> 0]
    /\ UNCHANGED <<magnetVars, text, pc, exit, pieces, disk, outcome, done, dispVars>>

StartPieces ==
    /\ pc = "reset" /\ unset = {}
    /\ pc' = "collect"
    /\ UNCHANGED <<magnetVars, text, exit, pieces, disk, outcome, stats, unset, done, dispVars>>

StorePiece ==
    /\ pc = "collect"
    /\ \E S \in PieceSets : S = pieces /\ \E p \in S : Downloading(S)!Store(p)
    /\ pc' = "count"
    /\ UNCHANGED <<magnetVars, text, exit, pieces, stats, unset, done, dispVars>>

CountPiece ==
    /\ pc = "count"
    /\ stats' = [stats EXCEPT !.Downloaded = @ + 1]
    /\ pc' = "bytes"
    /\ UNCHANGED <<magnetVars, text, exit, pieces, disk, outcome, unset, done, dispVars>>

\* In pieces.
CountBytes ==
    /\ pc = "bytes"
    /\ stats' = [stats EXCEPT !.DownloadedBytes = @ + 1]
    /\ pc' = "collect"
    /\ UNCHANGED <<magnetVars, text, exit, pieces, disk, outcome, unset, done, dispVars>>

-----------------------------------------------------------------------------
(* Stop: close(d.done), then d.wg.Wait()                                   *)

\* downloadPieces returns, with or without an error, and run calls Stop.
DownloadReturns ==
    /\ pc = "collect"
    /\ \E S \in PieceSets : S = pieces /\ (Downloading(S)!Succeed \/ Downloading(S)!Fail)
    /\ done' = TRUE
    /\ pc' = "stop"
    /\ UNCHANGED <<magnetVars, text, exit, pieces, stats, unset, dispVars>>

DisplayOver_NoWait == done
DisplayOver == dpc = "done"

Stopped ==
    /\ pc = "stop"
    /\ DisplayOver
    /\ Return(outcome)
    /\ UNCHANGED <<magnetVars, text, pieces, disk, outcome, stats, unset, done, dispVars>>

-----------------------------------------------------------------------------
(* The display goroutine                                                   *)

StartRender(isLast) ==
    /\ dpc = "select"
    /\ dpc' = "render"
    /\ last' = isLast
    /\ regs' = <<>>
    /\ UNCHANGED <<magnetVars, mainVars, line>>

Tick == StartRender(FALSE)
TakeDone == done /\ StartRender(TRUE)

\* The loads of Progress, BytesPerSecond and GetStats, in this order.
ProgressLoads == <<"TotalPieces", "Downloaded">>
SpeedLoads == <<"StartTime", "DownloadedBytes">>
StatsLoads_TotalFirst == <<"TotalPieces", "Downloaded">>
StatsLoads == <<"Downloaded", "TotalPieces">>
Loads == ProgressLoads \o SpeedLoads \o StatsLoads

\* Progress returns before its second load when the first gave zero.
Load ==
    /\ dpc = "render" /\ Len(regs) < Len(Loads)
    /\ LET f == Loads[Len(regs) + 1]
       IN  regs' = Append(regs, IF regs = <<0>> THEN 0 ELSE stats[f])
    /\ UNCHANGED <<magnetVars, mainVars, dpc, last, line>>

\* The loaded values by the order of Loads.  Progress is downloaded / total, so
\* at least 1 when downloaded >= total > 0; bps is above zero when some byte
\* was counted and time has passed.
Downloaded(r) == r[4 + (CHOOSE i \in 1 .. 2 : StatsLoads[i] = "Downloaded")]
Total(r) == r[4 + (CHOOSE i \in 1 .. 2 : StatsLoads[i] = "TotalPieces")]

FormatETA(total, downloaded, bps) ==
    IF bps = 0 \/ total = 0 \/ downloaded = 0 THEN "--:--"
    ELSE IF downloaded >= total THEN "done" ELSE "time"

AfterRender_Loop == "select"
AfterRender == IF last THEN "done" ELSE "select"

\* elapsed is zero only right after StartTime was taken, by the clock's grain.
ShowLine(elapsed) ==
    /\ dpc = "render" /\ Len(regs) = Len(Loads)
    /\ elapsed = 0 => regs[3] = 1
    /\ line' = [progress |-> regs[2], downloaded |-> Downloaded(regs), total |-> Total(regs),
                eta |-> FormatETA(regs[1], regs[2], IF elapsed = 0 THEN 0 ELSE regs[4])]
    /\ dpc' = AfterRender
    /\ regs' = <<>>
    /\ UNCHANGED <<magnetVars, mainVars, last>>

-----------------------------------------------------------------------------

Main ==
    \/ Usage \/ ParseLink \/ BadLink \/ NothingToLoad
    \/ \E S \in PieceSets : StartDisplay(S)
    \/ \E f \in DOMAIN NoStats : SetField(f)
    \/ StartPieces \/ StorePiece \/ CountPiece \/ CountBytes
    \/ DownloadReturns \/ Stopped

Rendering == Load \/ \E elapsed \in {0, 1} : ShowLine(elapsed)

Exited ==
    /\ pc = "exit"
    /\ UNCHANGED vars

Next == Main \/ Tick \/ TakeDone \/ Rendering \/ Exited

Spec == Init /\ [][Next]_vars

\* run goes on, but in downloadPieces: that it stores a piece or returns is not
\* assumed, as peers that choke in turn, re-announcements that always bring a
\* worker, or a torrent without pieces may keep it waiting for ever (module
\* Download says when it returns).  A select with two ready cases takes each
\* of them at random, so the closed channel is taken in the end.
FairSpec ==
    /\ Spec
    /\ WF_vars(Main /\ pc # "collect")
    /\ WF_vars(Rendering)
    /\ SF_vars(TakeDone)

-----------------------------------------------------------------------------
(* Properties                                                              *)

Values(digits, s) == [k \in DOMAIN s |-> IndexRune(digits, s[k])]
BitAt(width, s, p) == (s[p \div width + 1] \div 2 ^ (width - 1 - (p % width))) % 2
BitsOf(width, s) == [j \in 1 .. width * Len(s) |-> BitAt(width, s, j - 1)]

GoodHash(digits, n) ==
    Len(text.hash) = n /\ \A k \in DOMAIN text.hash : IndexRune(digits, text.hash[k]) >= 0
GoodLink ==
    /\ text.scheme /\ text.query /\ text.xt /\ text.urn
    /\ GoodHash(HexDigits, HexLen) \/ GoodHash(Alphabet, Base32Len)

\* The hash that Parse returns has HashLen bytes with the bits that the link's
\* characters stand for, in upper or lower case, and only a link without such
\* characters is refused.
HashExact ==
    pc = "start" /\ text # NoArgument =>
        /\ ppc = "bad" => ~GoodLink
        /\ ppc = "parsed" =>
             /\ GoodLink /\ Len(out) = HashLen
             /\ BitsOf(8, out) = IF Len(text.hash) = HexLen
                                 THEN BitsOf(4, Values(HexDigits, text.hash))
                                 ELSE BitsOf(5, Values(Alphabet, text.hash))

\* No line claims more than is there, although the Stats are reset and counted
\* under the display's loads: not more pieces than the disk has, not more than
\* the total on the same line, not a higher percentage than that number of
\* pieces, and "done" only when every piece is there.
LinesTrue ==
    /\ line.downloaded <= Cardinality(Written)
    /\ line.downloaded <= line.total
    /\ line.progress <= line.downloaded
    /\ line.eta = "done" => Written = pieces

\* When run returns after a download, the last line on the terminal has the
\* final numbers, after a failure as after a success, and nothing overwrites it
\* afterwards; success is returned only with every piece on the disk.
FinalLine ==
    exit \in {"ok", "allFailed", "writeError"} =>
        /\ dpc = "done"
        /\ line.downloaded = Cardinality(Written)
        /\ line.total = NumPieces
        /\ line.progress = line.downloaded
        /\ exit = "ok" => Written = pieces

\* run returns for every link, every torrent and every outcome of its download,
\* unless downloadPieces itself never returns: the display goroutine keeps
\* neither the counting of the pieces nor Stop waiting.
RunEnds == <>(pc = "exit") \/ <>[](pc = "collect")
=============================================================================
