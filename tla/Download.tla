------------------------------ MODULE Download ------------------------------
(***************************************************************************)
(* The piece download of torrent/: downloadPieces (the collector), the     *)
(* peerWorker goroutines it starts, the channels between them, the switch  *)
(* to endgame mode, and the goroutines that add workers for newly found    *)
(* peers and that close the results channel.                               *)
(*                                                                         *)
(* Each action is the code a goroutine runs between two points where       *)
(* another goroutine can observe or change what it uses: a channel         *)
(* operation, a mutex section, a network call.  What a peer sends, and how *)
(* DownloadPiece ends (module PieceTransfer), is a free choice.            *)
(***************************************************************************)
EXTENDS Integers, Sequences, FiniteSets

CONSTANTS
    NumPieces,          \* Info.NumPieces()
    Addrs,              \* peer addresses
    InitialPeers,       \* the addresses found before the download starts
    EndgameThreshold,   \* 20 in the code
    MaxWorkersPerPeer,  \* 2 in the code
    Slots,              \* bound: goroutines per address that a state can tell apart
    MaxReconnects,      \* 3 in the code
    MaxMisses,          \* 15 in the code
    NewPeerCap,         \* capacity of newPeerCh, 100 in the code
    BitfieldMsgs,       \* the bitfields a peer may announce
    HaveMsgs,           \* the pieces a peer may announce by have messages
    MaxInflight         \* bound: announcements of reannounceLoop under way
                        \* at a time, 0 for none ever

ASSUME DownloadAssumption ==
    /\ NumPieces \in Nat \ {0}
    /\ InitialPeers \subseteq Addrs
    /\ IsFiniteSet(Addrs)
    /\ EndgameThreshold \in Nat
    /\ MaxWorkersPerPeer \in Nat \ {0}
    /\ Slots \in Nat \ {0}
    /\ Slots >= MaxWorkersPerPeer
    /\ MaxReconnects \in Nat
    /\ MaxMisses \in Nat \ {0}
    /\ NewPeerCap \in Nat
    /\ BitfieldMsgs \subseteq SUBSET (0 .. NumPieces - 1)
    /\ HaveMsgs \subseteq 0 .. NumPieces - 1
    /\ MaxInflight \in Nat

Pieces == 0 .. NumPieces - 1

\* A goroutine slot: the k-th worker of an address.
Workers == Addrs \X (1 .. Slots)
Addr(w) == w[1]

NoPiece     == -1
NilBitfield == {NoPiece}    \* a Go nil slice, distinct from an empty bitfield

VARIABLES
    \* peerWorker and runPeerSession, per worker
    pc, pw, inEndgame, bitfield, attempt, misses,
    \* downloadCtx: the work queue and which channels are closed
    workCh, resultClosed, doneClosed, egClosed,
    \* endgameTracker (module EndgameTracker has its list and offset)
    egActive, egPieces, egCompleted,
    \* the collector loop of downloadPieces, and WritePiece calls per piece
    cpc, cur, completed, done, disk, ret,
    \* worker accounting and Stats.ActivePeers
    activeWorkers, wg, closer, activePeers,
    \* reannounceLoop, newPeerCh and the goroutine that reads it
    newPeerCh, inflight, announced, reannouncing, spawning,
    \* a run-time panic of the process
    panicked

workerVars == <<pc, pw, inEndgame, bitfield, attempt, misses, activePeers>>
chanVars   == <<resultClosed, doneClosed, egClosed>>
egVars     == <<egActive, egPieces, egCompleted>>
collVars   == <<cpc, cur, completed, done, disk, ret>>
poolVars   == <<activeWorkers, wg, closer>>
findVars   == <<newPeerCh, inflight, announced, reannouncing, spawning>>

vars == <<workerVars, workCh, chanVars, egVars, collVars, poolVars, findVars,
          panicked>>

\* The program points of runPeerSession after Stats.ActivePeers was raised.
InSession == {"loop", "mode", "pick", "select", "check", "download", "send",
              "waitUnchoke"}

\* The program points where a worker owns a piece.
Holding == {"check", "download", "send"}

PCs == InSession \cup {"idle", "starting", "attempt", "dial", "handshake",
                     "exit", "leaving"}

-----------------------------------------------------------------------------
(* downloadPieces up to the collector loop: the queue holds every piece in *)
(* order and each initial peer has one worker.                             *)
Init ==
    /\ pc = [w \in Workers |-> IF Addr(w) \in InitialPeers /\ w[2] = 1
                               THEN "attempt" ELSE "idle"]
    /\ pw = [w \in Workers |-> NoPiece]
    /\ inEndgame = [w \in Workers |-> FALSE]
    /\ bitfield = [w \in Workers |-> NilBitfield]
    /\ attempt = [w \in Workers |-> 0]
    /\ misses = [w \in Workers |-> 0]
    /\ workCh = [i \in 1 .. NumPieces |-> i - 1]
    /\ resultClosed = FALSE /\ doneClosed = FALSE /\ egClosed = FALSE
    /\ egActive = FALSE /\ egPieces = {} /\ egCompleted = {}
    /\ cpc = "recv" /\ cur = NoPiece /\ completed = {}
    /\ done = 0 /\ disk = [p \in Pieces |-> 0] /\ ret = "running"
    /\ activeWorkers = [a \in Addrs |-> IF a \in InitialPeers THEN 1 ELSE 0]
    /\ wg = Cardinality(InitialPeers)
    /\ closer = "wait" /\ activePeers = 0
    /\ newPeerCh = <<>> /\ inflight = 0 /\ announced = FALSE
    /\ reannouncing = TRUE /\ spawning = TRUE
    /\ panicked = "no"

-----------------------------------------------------------------------------
(* peerWorker.  Session(w) and Queue(w) below add the UNCHANGED of what     *)
(* the actions of a session leave alone.                                   *)

Goto(w, label) == pc' = [pc EXCEPT ![w] = label]

\* A step that changes nothing but the program point.
Advance(w, label) ==
    /\ Goto(w, label)
    /\ UNCHANGED <<pw, inEndgame, bitfield, attempt, misses, activePeers>>

\* The loop variables of runPeerSession, fresh at each turn of its loop.
NextTurn(w) ==
    /\ Goto(w, "loop")
    /\ pw' = [pw EXCEPT ![w] = NoPiece]
    /\ inEndgame' = [inEndgame EXCEPT ![w] = FALSE]

\* The reconnect loop makes attempts 0 .. maxReconnects.
LastAttempt_Late(w) == attempt[w] > MaxReconnects
LastAttempt(w) == attempt[w] = MaxReconnects

\* The ActivePeers decrement is deferred after the increment, so it runs only
\* for a session that was unchoked.
LeaveSession(w) ==
    activePeers' = IF pc[w] \in InSession THEN activePeers - 1
                                          ELSE activePeers

\* runPeerSession returns (or Dial failed): the deferred ActivePeers
\* decrement, conn.Close, and the next turn of the reconnect loop.
EndSession_NotCounted(w) ==
    /\ Goto(w, IF LastAttempt(w) THEN "exit" ELSE "attempt")
    /\ UNCHANGED attempt
    /\ pw' = [pw EXCEPT ![w] = NoPiece]
    /\ inEndgame' = [inEndgame EXCEPT ![w] = FALSE]
    /\ bitfield' = [bitfield EXCEPT ![w] = NilBitfield]
    /\ misses' = [misses EXCEPT ![w] = 0]
    /\ LeaveSession(w)
EndSession(w) ==
    /\ Goto(w, IF LastAttempt(w) THEN "exit" ELSE "attempt")
    /\ attempt' = [attempt EXCEPT ![w] = @ + 1]
    /\ pw' = [pw EXCEPT ![w] = NoPiece]
    /\ inEndgame' = [inEndgame EXCEPT ![w] = FALSE]
    /\ bitfield' = [bitfield EXCEPT ![w] = NilBitfield]
    /\ misses' = [misses EXCEPT ![w] = 0]
    /\ LeaveSession(w)

\* The doneCh check at the top of the reconnect loop.
StartAttempt(w) ==
    /\ pc[w] = "attempt"
    /\ Advance(w, IF doneClosed THEN "exit" ELSE "dial")

DialOK(w) ==
    /\ pc[w] = "dial"
    /\ Advance(w, "handshake")

\* Dial, the interested message, a read or the deadline fails.
ConnFail(w) ==
    /\ pc[w] \in {"dial", "handshake", "waitUnchoke"}
    /\ EndSession(w)

-----------------------------------------------------------------------------
(* runPeerSession: messages before the first unchoke                       *)

RecvBitfield(w, S) ==
    /\ pc[w] = "handshake"
    /\ bitfield' = [bitfield EXCEPT ![w] = S]
    /\ UNCHANGED <<pc, pw, inEndgame, attempt, misses, activePeers>>

\* A have message before the unchoke allocates the bitfield if there is
\* none; waitForUnchoke leaves a nil bitfield nil.
RecvHave(w, p) ==
    /\ pc[w] \in {"handshake", "waitUnchoke"}
    /\ bitfield' = [bitfield EXCEPT ![w] =
                       IF @ # NilBitfield THEN @ \cup {p}
                       ELSE IF pc[w] = "handshake" THEN {p} ELSE @]
    /\ UNCHANGED <<pc, pw, inEndgame, attempt, misses, activePeers>>

RecvUnchoke(w) ==
    /\ pc[w] = "handshake"
    /\ Goto(w, "loop")
    /\ activePeers' = activePeers + 1
    /\ UNCHANGED <<pw, inEndgame, bitfield, attempt, misses>>

-----------------------------------------------------------------------------
(* runPeerSession: choosing a piece                                        *)

HasPiece(w, p) == bitfield[w] = NilBitfield \/ p \in bitfield[w]

\* Where runPeerSession looks at doneCh: at the top of the loop and in the
\* blocking select.
StopPoints == {"loop", "select"}

\* Faulty: continue, as in the case of egCh, in place of return.
StopSession_Continue(w) ==
    /\ pc[w] \in StopPoints
    /\ doneClosed
    /\ NextTurn(w)
    /\ UNCHANGED <<bitfield, attempt, misses, activePeers>>
StopSession(w) ==
    /\ pc[w] \in StopPoints
    /\ doneClosed
    /\ EndSession(w)

LoopTop(w) ==
    /\ pc[w] = "loop"
    /\ ~doneClosed
    /\ Advance(w, "mode")

\* The non-blocking receive from egCh.
CheckMode(w) ==
    /\ pc[w] = "mode"
    /\ Goto(w, IF egClosed THEN "pick" ELSE "select")
    /\ inEndgame' = [inEndgame EXCEPT ![w] = egClosed]
    /\ UNCHANGED <<pw, bitfield, attempt, misses, activePeers>>

\* endgame.PickPiece finds a piece the peer has.
PickPiece(w, p) ==
    /\ pc[w] = "pick"
    /\ p \in egPieces
    /\ HasPiece(w, p)
    /\ Goto(w, "download")
    /\ pw' = [pw EXCEPT ![w] = p]
    /\ UNCHANGED <<inEndgame, bitfield, attempt, misses, activePeers>>

\* endgame.PickPiece returns nil.
PickNothing(w) ==
    /\ pc[w] = "pick"
    /\ \A p \in egPieces : ~HasPiece(w, p)
    /\ EndSession(w)

\* The blocking select: endgame started, back to the top of the loop.
SelectEndgame(w) ==
    /\ pc[w] = "select"
    /\ egClosed
    /\ NextTurn(w)
    /\ UNCHANGED <<bitfield, attempt, misses, activePeers>>

\* The blocking select: a piece of the work queue.
SelectWork(w) ==
    /\ pc[w] = "select"
    /\ workCh # <<>>
    /\ Goto(w, "check")
    /\ pw' = [pw EXCEPT ![w] = Head(workCh)]
    /\ workCh' = Tail(workCh)
    /\ UNCHANGED <<inEndgame, bitfield, attempt, misses, activePeers>>

\* ctx.workCh <- pw, which blocks when the channel is full.
Enqueue(p) ==
    /\ Len(workCh) < NumPieces
    /\ workCh' = Append(workCh, p)

Missed_NotCounted(w) == misses[w]
Missed(w) == misses[w] + 1

\* The peer lacks the piece: back into the queue, and the session is given
\* up after MaxMisses in a row.
MissPiece(w) ==
    /\ pc[w] = "check"
    /\ ~HasPiece(w, pw[w])
    /\ Enqueue(pw[w])
    /\ IF Missed(w) >= MaxMisses
       THEN EndSession(w)
       ELSE /\ NextTurn(w)
            /\ misses' = [misses EXCEPT ![w] = Missed(w)]
            /\ UNCHANGED <<bitfield, attempt, activePeers>>

AcceptPiece(w) ==
    /\ pc[w] = "check"
    /\ HasPiece(w, pw[w])
    /\ Goto(w, "download")
    /\ misses' = [misses EXCEPT ![w] = 0]
    /\ UNCHANGED <<pw, inEndgame, bitfield, attempt, activePeers>>

-----------------------------------------------------------------------------
(* runPeerSession: DownloadPiece and what follows it                       *)

DownloadOK(w) ==
    /\ pc[w] = "download"
    /\ Advance(w, "send")

\* A failed piece of the normal mode goes back into the queue.
Requeue_Never(w) == UNCHANGED workCh
Requeue_Always(w) == Enqueue(pw[w])
Requeue(w) ==
    IF inEndgame[w] THEN UNCHANGED workCh ELSE Enqueue(pw[w])

\* A request, read, deadline or hash failure ends the session.
DownloadErr(w) ==
    /\ pc[w] = "download"
    /\ Requeue(w)
    /\ EndSession(w)

\* ErrChoked: the piece is given back before waitForUnchoke.
DownloadChoked(w) ==
    /\ pc[w] = "download"
    /\ Requeue(w)
    /\ Goto(w, "waitUnchoke")
    /\ pw' = [pw EXCEPT ![w] = NoPiece]
    /\ inEndgame' = [inEndgame EXCEPT ![w] = FALSE]
    /\ UNCHANGED <<bitfield, attempt, misses, activePeers>>

\* waitForUnchoke returns true.
Unchoked(w) ==
    /\ pc[w] = "waitUnchoke"
    /\ NextTurn(w)
    /\ UNCHANGED <<bitfield, attempt, misses, activePeers>>

\* The actions of a worker that change nothing it shares.
Session(w) ==
    /\ \/ StartAttempt(w) \/ DialOK(w) \/ ConnFail(w) \/ RecvUnchoke(w)
       \/ StopSession(w) \/ LoopTop(w) \/ CheckMode(w)
       \/ \E p \in Pieces : PickPiece(w, p)
       \/ PickNothing(w) \/ SelectEndgame(w) \/ AcceptPiece(w)
       \/ DownloadOK(w) \/ Unchoked(w)
    /\ UNCHANGED <<workCh, chanVars, egVars, collVars, poolVars, findVars,
                   panicked>>

\* The messages a peer may or may not send.
Messages(w) ==
    /\ \/ \E S \in BitfieldMsgs : RecvBitfield(w, S)
       \/ \E p \in HaveMsgs : RecvHave(w, p)
    /\ UNCHANGED <<workCh, chanVars, egVars, collVars, poolVars, findVars,
                   panicked>>

\* The actions of a worker on the work queue.
Queue(w) ==
    /\ \/ SelectWork(w) \/ MissPiece(w) \/ DownloadErr(w) \/ DownloadChoked(w)
    /\ UNCHANGED <<chanVars, egVars, collVars, poolVars, findVars, panicked>>

-----------------------------------------------------------------------------
(* The collector loop of downloadPieces                                    *)

\* What the collector does with a result: a piece already completed is
\* discarded.
Collect_NoCheck(p) ==
    /\ cur' = p
    /\ completed' = completed \cup {p}
    /\ cpc' = "complete"
Collect(p) ==
    IF p \in completed
    THEN UNCHANGED <<cur, completed, cpc>>
    ELSE /\ cur' = p
         /\ completed' = completed \cup {p}
         /\ cpc' = "complete"

\* resultCh is unbuffered: the worker's send and the collector's receive are
\* one step.
SendResult(w) ==
    /\ pc[w] = "send"
    /\ cpc = "recv"
    /\ ~resultClosed
    /\ Collect(pw[w])
    /\ NextTurn(w)
    /\ UNCHANGED <<bitfield, attempt, misses, activePeers, workCh, chanVars,
                   egVars, done, disk, ret, poolVars, findVars, panicked>>

\* A send on a closed channel panics.
SendPanic(w) ==
    /\ pc[w] = "send"
    /\ resultClosed
    /\ panicked' = "send on closed channel"
    /\ UNCHANGED <<workerVars, workCh, chanVars, egVars, collVars, poolVars,
                   findVars>>

\* endgame.Complete: the piece is marked and leaves the list.
Complete_MarkOnly(p) ==
    /\ egCompleted' = egCompleted \cup {p}
    /\ UNCHANGED egPieces
Complete(p) ==
    /\ egCompleted' = egCompleted \cup {p}
    /\ egPieces' = egPieces \ {p}

CollectComplete ==
    /\ cpc = "complete"
    /\ IF egActive THEN Complete(cur) ELSE UNCHANGED <<egPieces, egCompleted>>
    /\ cpc' = "write"
    /\ UNCHANGED <<workCh, chanVars, egActive, cur, completed, done, disk, ret>>

\* writer.WritePiece succeeds and the counters go up.
WritePiece ==
    /\ cpc = "write"
    /\ disk' = [disk EXCEPT ![cur] = @ + 1]
    /\ done' = done + 1
    /\ cur' = NoPiece
    /\ cpc' = "check"
    /\ UNCHANGED <<workCh, chanVars, egVars, completed, ret>>

\* writer.WritePiece fails: downloadPieces returns without closing doneCh.
WriteFail ==
    /\ cpc = "write"
    /\ cpc' = "returned"
    /\ ret' = "writeError"
    /\ UNCHANGED <<workCh, chanVars, egVars, cur, completed, done, disk>>

AllDone_OneShort == done + 1 >= NumPieces
AllDone == done >= NumPieces

\* The last piece: close doneCh and return nil.
FinishAll ==
    /\ cpc = "check"
    /\ AllDone
    /\ doneClosed' = TRUE
    /\ cpc' = "returned"
    /\ ret' = "ok"
    /\ UNCHANGED <<workCh, resultClosed, egClosed, egVars, cur, completed,
                   done, disk>>

FewRemain == NumPieces - done <= EndgameThreshold /\ ~egActive

\* transitionToEndgame: AddPiece for every uncompleted piece, then Activate.
EnterEndgame ==
    /\ cpc = "check"
    /\ ~AllDone
    /\ FewRemain
    /\ egPieces' = egPieces \cup ((Pieces \ completed) \ egCompleted)
    /\ egActive' = TRUE
    /\ cpc' = "drain"
    /\ UNCHANGED <<workCh, chanVars, egCompleted, cur, completed, done, disk,
                   ret>>

KeepCollecting ==
    /\ cpc = "check"
    /\ ~AllDone
    /\ ~FewRemain
    /\ cpc' = "recv"
    /\ UNCHANGED <<workCh, chanVars, egVars, cur, completed, done, disk, ret>>

\* transitionToEndgame: one receive of the loop that drains workCh.
DrainOne ==
    /\ cpc = "drain"
    /\ workCh # <<>>
    /\ workCh' = Tail(workCh)
    /\ UNCHANGED <<chanVars, egVars, collVars>>

\* transitionToEndgame: the queue is empty, close egCh and collect again.
DrainEnd ==
    /\ cpc = "drain"
    /\ workCh = <<>>
    /\ egClosed' = TRUE
    /\ cpc' = "recv"
    /\ UNCHANGED <<workCh, resultClosed, doneClosed, egVars, cur, completed,
                   done, disk, ret>>

\* What downloadPieces returns after its loop.
FinalError_Dropped == "ok"
FinalError == IF AllDone THEN "ok" ELSE "allFailed"

\* resultCh was closed: the range loop ends.
ResultsEnd ==
    /\ cpc = "recv"
    /\ resultClosed
    /\ cpc' = "returned"
    /\ ret' = FinalError
    /\ UNCHANGED <<workCh, chanVars, egVars, cur, completed, done, disk>>

Collector ==
    /\ \/ CollectComplete \/ WritePiece \/ WriteFail \/ FinishAll
       \/ EnterEndgame \/ KeepCollecting \/ DrainOne \/ DrainEnd
       \/ ResultsEnd
    /\ UNCHANGED <<workerVars, poolVars, findVars, panicked>>

-----------------------------------------------------------------------------
(* The worker pool: startWorker, the deferred calls of a worker, and the   *)
(* goroutine that waits for all workers and closes resultCh.               *)

\* The deferred calls of the worker's goroutine: the slot of its address goes
\* first, then wg.Done.
FreeSlot(w) ==
    /\ pc[w] = "exit"
    /\ Goto(w, "leaving")
    /\ attempt' = [attempt EXCEPT ![w] = 0]
    /\ activeWorkers' = [activeWorkers EXCEPT ![Addr(w)] = @ - 1]
    /\ UNCHANGED wg

WgDone(w) ==
    /\ pc[w] = "leaving"
    /\ Goto(w, "idle")
    /\ wg' = wg - 1
    /\ UNCHANGED <<attempt, activeWorkers>>

ExitWorker(w) ==
    /\ FreeSlot(w) \/ WgDone(w)
    /\ UNCHANGED <<pw, inEndgame, bitfield, misses, activePeers, workCh,
                   chanVars, egVars, collVars, closer, findVars, panicked>>

HasSlot_OffByOne(a) == activeWorkers[a] <= MaxWorkersPerPeer
HasSlot(a) == activeWorkers[a] < MaxWorkersPerPeer

\* The goroutine that reads newPeerCh is not inside startWorker.
SpawnerReady == spawning /\ \A v \in Workers : pc[v] # "starting"

\* startWorker for a peer of newPeerCh whose address has a free slot: the slot
\* is taken under workerMu, wg.Add follows outside of it.
TakeSlot(w) ==
    /\ SpawnerReady
    /\ newPeerCh # <<>>
    /\ Addr(w) = Head(newPeerCh)
    /\ HasSlot(Addr(w))
    /\ pc[w] = "idle"
    /\ newPeerCh' = Tail(newPeerCh)
    /\ activeWorkers' = [activeWorkers EXCEPT ![Addr(w)] = @ + 1]
    /\ Goto(w, "starting")
    /\ UNCHANGED wg

WgAdd(w) ==
    /\ pc[w] = "starting"
    /\ wg' = wg + 1
    /\ Goto(w, "attempt")
    /\ UNCHANGED <<newPeerCh, activeWorkers>>

StartWorker(w) ==
    /\ TakeSlot(w) \/ WgAdd(w)
    /\ UNCHANGED <<pw, inEndgame, bitfield, attempt, misses, activePeers,
                   workCh, chanVars, egVars, collVars, closer, inflight,
                   announced, reannouncing, spawning, panicked>>

\* The counter reached zero and wakes wg.Wait.
WaitWoken_Early ==
    /\ closer = "wait"
    /\ wg <= 1
    /\ closer' = "woken"
    /\ UNCHANGED <<resultClosed, panicked>>
WaitWoken ==
    /\ closer = "wait"
    /\ wg = 0
    /\ closer' = "woken"
    /\ UNCHANGED <<resultClosed, panicked>>

\* wg.Wait panics if the counter went up again before it returns.
WaitReturns ==
    /\ closer = "woken"
    /\ closer' = "close"
    /\ panicked' = IF wg = 0 THEN panicked ELSE "WaitGroup is reused"
    /\ UNCHANGED resultClosed

CloseResults ==
    /\ closer = "close"
    /\ closer' = "closed"
    /\ resultClosed' = TRUE
    /\ UNCHANGED panicked

Closer ==
    /\ WaitWoken \/ WaitReturns \/ CloseResults
    /\ UNCHANGED <<workerVars, workCh, doneClosed, egClosed, egVars, collVars,
                   activeWorkers, wg, findVars>>

-----------------------------------------------------------------------------
(* New peers: reannounceLoop and the goroutine that reads newPeerCh        *)

\* The ticker fires and an announcement starts, again and again for as long
\* as doneCh is open.  The select may still take the tick when doneCh is
\* closed too.
ReannounceTick ==
    /\ reannouncing
    /\ inflight < MaxInflight
    /\ inflight' = inflight + 1
    /\ announced' = TRUE
    /\ UNCHANGED <<newPeerCh, reannouncing, spawning>>

ReannounceStop ==
    /\ reannouncing
    /\ doneClosed
    /\ reannouncing' = FALSE
    /\ UNCHANGED <<newPeerCh, inflight, announced, spawning>>

\* An announcement returns a peer, sent without blocking.  A response with k
\* peers stands for k announcements.
AnnouncePeer(a) ==
    /\ inflight > 0
    /\ inflight' = inflight - 1
    /\ newPeerCh' = IF Len(newPeerCh) < NewPeerCap THEN Append(newPeerCh, a)
                                                   ELSE newPeerCh
    /\ UNCHANGED <<announced, reannouncing, spawning>>

\* An announcement fails, or the tracker knows no peer.
AnnounceNothing ==
    /\ inflight > 0
    /\ inflight' = inflight - 1
    /\ UNCHANGED <<newPeerCh, announced, reannouncing, spawning>>

\* startWorker for an address that has MaxWorkersPerPeer workers.
SkipWorker ==
    /\ SpawnerReady
    /\ newPeerCh # <<>>
    /\ ~HasSlot(Head(newPeerCh))
    /\ newPeerCh' = Tail(newPeerCh)
    /\ UNCHANGED <<inflight, announced, reannouncing, spawning>>

SpawnerStop ==
    /\ SpawnerReady
    /\ doneClosed
    /\ spawning' = FALSE
    /\ UNCHANGED <<newPeerCh, inflight, announced, reannouncing>>

Finder ==
    /\ \/ ReannounceTick \/ ReannounceStop \/ AnnounceNothing
       \/ SkipWorker \/ SpawnerStop
       \/ \E a \in Addrs : AnnouncePeer(a)
    /\ UNCHANGED <<workerVars, workCh, chanVars, egVars, collVars, poolVars,
                   panicked>>

-----------------------------------------------------------------------------

\* What a worker does by itself or by a deadline: everything but receiving a
\* message that need not come.
WorkerStep(w) ==
    Session(w) \/ Queue(w) \/ SendResult(w) \/ SendPanic(w) \/ ExitWorker(w)

\* downloadPieces has returned, or the process has died of a panic.
Terminating ==
    /\ cpc = "returned" \/ panicked # "no"
    /\ UNCHANGED vars

Next ==
    \/ /\ panicked = "no"
       /\ \/ \E w \in Workers : WorkerStep(w) \/ Messages(w) \/ StartWorker(w)
          \/ Collector
          \/ Closer
          \/ Finder
    \/ Terminating

Spec == Init /\ [][Next]_vars

\* Every worker, the collector and the closer keep going while the process
\* lives.  A worker never waits for its peer for ever: Dial (10s), the
\* handshake (30s), DownloadPiece (5s a block, at least 10s) and
\* waitForUnchoke (60s) all run under a deadline.  Nothing is assumed
\* of the ticker and the trackers.
Fairness ==
    /\ \A w \in Workers : WF_vars(panicked = "no" /\ WorkerStep(w))
    /\ \A w \in Workers : WF_vars(panicked = "no" /\ StartWorker(w) /\ WgAdd(w))
    /\ WF_vars(panicked = "no" /\ Collector)
    /\ WF_vars(panicked = "no" /\ Closer)

FairSpec == Spec /\ Fairness

-----------------------------------------------------------------------------
(* Properties                                                              *)

WorkerType ==
    /\ pc \in [Workers -> PCs]
    /\ pw \in [Workers -> Pieces \cup {NoPiece}]
    /\ \A w \in Workers : pc[w] \in Holding => pw[w] \in Pieces
    /\ inEndgame \in [Workers -> BOOLEAN]
    /\ bitfield \in [Workers -> (SUBSET Pieces) \cup {NilBitfield}]
    /\ attempt \in [Workers -> 0 .. MaxReconnects + 1]
    /\ misses \in [Workers -> 0 .. MaxMisses - 1]
    /\ activePeers \in Int

ChannelType ==
    /\ workCh \in Seq(Pieces)
    /\ egPieces \subseteq Pieces
    /\ egCompleted \subseteq Pieces

CollectorType ==
    /\ cpc \in {"recv", "complete", "write", "check", "drain", "returned"}
    /\ cur \in Pieces \cup {NoPiece}
    /\ cpc \in {"complete", "write"} => cur \in Pieces
    /\ completed \subseteq Pieces
    /\ done \in Nat
    /\ disk \in [Pieces -> Nat]
    /\ ret \in {"running", "ok", "allFailed", "writeError"}

PoolType ==
    /\ activeWorkers \in [Addrs -> Int]
    /\ wg \in Int
    /\ closer \in {"wait", "woken", "close", "closed"}
    /\ newPeerCh \in Seq(Addrs)
    /\ inflight \in Nat
    /\ panicked \in {"no", "send on closed channel", "WaitGroup is reused"}

FlagType ==
    /\ resultClosed \in BOOLEAN /\ doneClosed \in BOOLEAN
    /\ egClosed \in BOOLEAN /\ egActive \in BOOLEAN
    /\ reannouncing \in BOOLEAN /\ spawning \in BOOLEAN
    /\ announced \in BOOLEAN

\* Every variable has its type; a worker that owns a piece, and a collector
\* about to store one, know which.
TypeOK ==
    WorkerType /\ ChannelType /\ CollectorType /\ PoolType /\ FlagType

\* A worker that took piece p from workCh and has not given it back.
Holds(w, p) == pc[w] \in Holding /\ ~inEndgame[w] /\ pw[w] = p

InQueue(s, p) == \E i \in 1 .. Len(s) : s[i] = p
Queued(p) == InQueue(workCh, p)

\* Every piece that is not completed can still be obtained: it is in the
\* work queue, owned by a worker, or in the endgame tracker.  A failed
\* download, a choke, a missing bitfield bit, or a worker that puts a piece
\* back while transitionToEndgame drains the queue, never loses one.
NoLostPiece ==
    \A p \in Pieces \ completed :
        Queued(p) \/ p \in egPieces \/ \E w \in Workers : Holds(w, p)

\* A worker that has to put its piece back finds room in workCh: the send at
\* peer_session.go:121 and :136 never blocks a worker on a full channel.
RequeueNeverBlocks ==
    \A w \in Workers :
        (pc[w] \in Holding /\ ~inEndgame[w]) => Len(workCh) < NumPieces

\* The collector calls WritePiece at most once per piece, whatever
\* duplicates endgame workers send.
WriteOnce == \A p \in Pieces : disk[p] <= 1

\* downloadPieces reports success only when every piece is on disk.
SuccessIsComplete == ret = "ok" => \A p \in Pieces : disk[p] = 1

\* Once workers can see the tracker it offers exactly the pieces the
\* collector still needs; a piece leaves it before it is written.
EndgameExact ==
    egClosed => egPieces = IF cpc = "complete"
                           THEN (Pieces \ completed) \cup {cur}
                           ELSE Pieces \ completed

\* The counters agree with the goroutines: an address has at most
\* MaxWorkersPerPeer, wg counts those between wg.Add and wg.Done, ActivePeers
\* those in a session.
WorkerAccounting ==
    /\ \A a \in Addrs :
          /\ activeWorkers[a] =
                Cardinality({w \in Workers :
                    Addr(w) = a /\ pc[w] \notin {"idle", "leaving"}})
          /\ activeWorkers[a] <= MaxWorkersPerPeer
    /\ wg = Cardinality({w \in Workers : pc[w] \notin {"idle", "starting"}})
    /\ activePeers = Cardinality({w \in Workers : pc[w] \in InSession})

\* Without re-announcement no worker starts late, and neither wg.Wait nor a
\* send on resultCh can panic: the channel is closed under no sender.
NoPanic == panicked = "no"

\* The comment of the goroutine that closes resultCh: "Close results channel
\* when all workers done."  A worker that startWorker adds after wg.Wait was
\* woken is still running when the channel is closed.
ClosedMeansDone == resultClosed => \A w \in Workers : pc[w] = "idle"

\* downloadPieces returns: with success, with ErrAllFailed or with a write
\* error.  Nothing bounds how often a peer may choke and unchoke a worker,
\* nor how often a re-announcement brings a peer whose worker leaves without
\* a piece, so the other ways out are that one of these goes on for ever.
Termination ==
    \/ <>(cpc = "returned" \/ panicked # "no")
    \/ []<><<\E w \in Workers : DownloadChoked(w)>>_vars
    \/ []<><<\E w \in Workers : StartWorker(w) /\ TakeSlot(w)>>_vars

\* Once the download is complete every worker leaves, also one that is in a
\* download, waits to be unchoked, or puts a piece back.  The exception is a
\* worker whose last result nobody receives any more: it blocks in its send
\* until the process exits.
WorkersQuiesce ==
    doneClosed ~> (panicked # "no" \/ \A w \in Workers : pc[w] \in {"idle", "send"})

\* downloadPieces implements its abstract specification.
Abstract == INSTANCE DownloadSpec WITH Pieces <- Pieces, disk <- disk,
                                       outcome <- ret
ImplementsDownloadSpec == Abstract!Spec
=============================================================================
