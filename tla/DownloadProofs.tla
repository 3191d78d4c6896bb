--------------------------- MODULE DownloadProofs ---------------------------
(***************************************************************************)
(* Proofs about module Download, for every number of pieces, peers and     *)
(* workers: the types, the counters of the pool and its panics; then what  *)
(* the collector stores and reports, and where the pieces are that it      *)
(* still needs.                                                            *)
(***************************************************************************)
EXTENDS Download, FiniteSetTheorems, FunctionTheorems, TLAPS

-----------------------------------------------------------------------------
(* Type correctness                                                        *)

\* The strengthening that makes TypeOK inductive: only a worker that is about
\* to exit has used up its reconnect attempts.
CoreInv ==
    /\ WorkerType /\ ChannelType /\ CollectorType /\ PoolType
    /\ \A w \in Workers : pc[w] # "exit" => attempt[w] <= MaxReconnects

\* The flags are kept apart from the rest.
TypeInv == CoreInv /\ FlagType

USE DEF NoPiece, NilBitfield

\* The initial state of downloadPieces has the right types.
LEMMA TypeInit == Init => CoreInv /\ FlagType
<1> SUFFICES ASSUME Init PROVE CoreInv /\ FlagType
  OBVIOUS
<1>1. WorkerType /\ \A w \in Workers : attempt[w] <= MaxReconnects
  BY DownloadAssumption
  DEF Init, WorkerType, PCs, Holding
<1>2. workCh \in Seq(Pieces)
  BY DownloadAssumption DEF Init, Pieces
<1>3. ChannelType /\ CollectorType
  BY <1>2, DownloadAssumption DEF Init, ChannelType, CollectorType
<1>4. wg \in Int
  <2>1. IsFiniteSet(InitialPeers)
    BY DownloadAssumption, FS_Subset
  <2> QED  BY <2>1, FS_CardinalityType DEF Init
<1>5. PoolType
  BY <1>4, DownloadAssumption DEF Init, PoolType
<1>6. FlagType
  BY DEF Init, FlagType
<1> QED  BY <1>1, <1>3, <1>5, <1>6 DEF CoreInv

\* No step gives a closed-channel flag or a loop flag another type.
LEMMA FlagStep == FlagType /\ [Next]_vars => FlagType'
<1> SUFFICES ASSUME FlagType, [Next]_vars PROVE FlagType'
  OBVIOUS
<1> USE DEF FlagType, chanVars, egVars, findVars
<1>1. CASE UNCHANGED vars
  BY <1>1 DEF vars
<1>2. ASSUME NEW w \in Workers, WorkerStep(w) \/ Messages(w) \/ StartWorker(w)
      PROVE  FlagType'
  BY <1>2
  DEF WorkerStep, Messages, Session, Queue, SendResult, SendPanic, ExitWorker,
      StartWorker
<1>3. CASE Collector
  BY <1>3
  DEF Collector, CollectComplete, Complete, WritePiece, WriteFail, FinishAll,
      EnterEndgame, KeepCollecting, DrainOne, DrainEnd, ResultsEnd
<1>4. CASE Closer
  BY <1>4 DEF Closer, WaitWoken, WaitReturns, CloseResults
<1>5. CASE Finder
  BY <1>5
  DEF Finder, ReannounceTick, ReannounceStop, SkipWorker, SpawnerStop,
      AnnouncePeer, AnnounceNothing
<1> QED  BY <1>1, <1>2, <1>3, <1>4, <1>5 DEF Next, Terminating

\* runPeerSession returning, or a turn of its loop, keeps the types.
LEMMA EndSessionType ==
    ASSUME CoreInv, NEW w \in Workers, EndSession(w), pc[w] # "exit"
    PROVE  /\ WorkerType'
           /\ \A v \in Workers : pc'[v] # "exit" => attempt'[v] <= MaxReconnects
BY DownloadAssumption
DEF CoreInv, WorkerType, EndSession, Goto, LastAttempt, LeaveSession,
    PCs, InSession, Holding

\* The private steps of a worker (dialling, messages, choosing a piece) keep
\* the types.
LEMMA SessionType ==
    ASSUME CoreInv, FlagType, NEW w \in Workers, Session(w)
    PROVE  CoreInv'
<1> USE DownloadAssumption DEF CoreInv
<1>1. ChannelType' /\ CollectorType' /\ PoolType'
  BY DEF Session, ChannelType, CollectorType, PoolType, chanVars, egVars,
         collVars, poolVars, findVars
<1>2. SUFFICES /\ WorkerType'
               /\ \A v \in Workers : pc'[v] # "exit" => attempt'[v] <= MaxReconnects
  BY <1>1
<1>3. CASE StartAttempt(w)
  BY <1>3 DEF StartAttempt, Advance, Goto, WorkerType, PCs, InSession, Holding
<1>4. CASE DialOK(w)
  BY <1>4 DEF DialOK, Advance, Goto, WorkerType, PCs, InSession, Holding
<1>5. CASE ConnFail(w) \/ StopSession(w) \/ PickNothing(w)
  BY <1>5, EndSessionType DEF ConnFail, StopSession, StopPoints, PickNothing
<1>6. CASE RecvUnchoke(w)
  BY <1>6 DEF RecvUnchoke, Goto, WorkerType, PCs, InSession, Holding
<1>7. CASE LoopTop(w)
  BY <1>7 DEF LoopTop, Advance, Goto, WorkerType, PCs, InSession, Holding
<1>8. CASE CheckMode(w)
  <2>1. egClosed \in BOOLEAN
    BY DEF FlagType
  <2>2. inEndgame' \in [Workers -> BOOLEAN]
    BY <1>8, <2>1 DEF CheckMode, WorkerType
  <2> QED
    BY <1>8, <2>2 DEF CheckMode, Goto, WorkerType, PCs, InSession, Holding
<1>9. ASSUME NEW p \in Pieces, PickPiece(w, p)
      PROVE  /\ WorkerType'
             /\ \A v \in Workers : pc'[v] # "exit" => attempt'[v] <= MaxReconnects
  BY <1>9 DEF PickPiece, Goto, WorkerType, PCs, InSession, Holding
<1>10. CASE SelectEndgame(w)
  BY <1>10 DEF SelectEndgame, NextTurn, Goto, WorkerType, PCs, InSession, Holding
<1>11. CASE AcceptPiece(w)
  BY <1>11 DEF AcceptPiece, Goto, WorkerType, PCs, InSession, Holding
<1>12. CASE DownloadOK(w)
  BY <1>12 DEF DownloadOK, Advance, Goto, WorkerType, PCs, InSession, Holding
<1>13. CASE Unchoked(w)
  BY <1>13 DEF Unchoked, NextTurn, Goto, WorkerType, PCs, InSession, Holding
<1> QED
  BY <1>3, <1>4, <1>5, <1>6, <1>7, <1>8, <1>9, <1>10, <1>11, <1>12, <1>13
  DEF Session

\* What a bitfield or have message may carry keeps the types.
LEMMA MessagesType ==
    ASSUME CoreInv, NEW w \in Workers, Messages(w)
    PROVE  CoreInv'
<1> USE DownloadAssumption DEF CoreInv
<1>1. ChannelType' /\ CollectorType' /\ PoolType'
  BY DEF Messages, ChannelType, CollectorType, PoolType, chanVars, egVars,
         collVars, poolVars, findVars
<1>2. ASSUME NEW S \in BitfieldMsgs, RecvBitfield(w, S)
      PROVE  CoreInv'
  BY <1>1, <1>2 DEF RecvBitfield, WorkerType, Pieces
<1>3. ASSUME NEW p \in HaveMsgs, RecvHave(w, p)
      PROVE  CoreInv'
  <2> p \in Pieces
    BY DEF Pieces
  <2>1. bitfield[w] \in SUBSET Pieces \/ bitfield[w] = {-1}
    BY DEF WorkerType
  <2>2. bitfield[w] \cup {p} \in SUBSET Pieces \/ bitfield[w] = {-1}
    BY <2>1
  <2>3. bitfield' \in [Workers -> (SUBSET Pieces) \cup {{-1}}]
    BY <1>3, <2>2 DEF RecvHave, WorkerType
  <2> QED  BY <1>1, <1>3, <2>3 DEF RecvHave, WorkerType
<1> QED  BY <1>2, <1>3 DEF Messages

\* Taking a piece from workCh and putting it back keep the types.
LEMMA QueueType ==
    ASSUME CoreInv, NEW w \in Workers, Queue(w)
    PROVE  CoreInv'
<1> USE DownloadAssumption DEF CoreInv
<1>1. CollectorType' /\ PoolType'
  BY DEF Queue, CollectorType, PoolType, collVars, poolVars, findVars
<1>2. ASSUME workCh' \in Seq(Pieces) PROVE ChannelType'
  BY <1>2 DEF Queue, ChannelType, chanVars, egVars
<1>3. ASSUME NEW p \in Pieces, Enqueue(p) PROVE workCh' \in Seq(Pieces)
  BY <1>3 DEF Enqueue, ChannelType
<1>4. ASSUME Requeue(w), pc[w] = "download" PROVE workCh' \in Seq(Pieces)
  BY <1>3, <1>4 DEF Requeue, WorkerType, ChannelType, Holding
<1>5. CASE SelectWork(w)
  <2>1. Head(workCh) \in Pieces /\ workCh' \in Seq(Pieces)
    BY <1>5 DEF SelectWork, ChannelType
  <2>2. ChannelType'
    BY <1>2, <2>1
  <2> QED
    BY <1>1, <1>5, <2>1, <2>2
    DEF SelectWork, Goto, WorkerType, PCs, InSession, Holding
<1>6. CASE MissPiece(w)
  <2>1. ChannelType'
    BY <1>2, <1>3, <1>6 DEF MissPiece, Missed, WorkerType, Holding
  <2>2. CASE misses[w] + 1 >= MaxMisses
    BY <1>1, <1>6, <2>1, <2>2, EndSessionType DEF MissPiece, Missed
  <2>3. CASE ~(misses[w] + 1 >= MaxMisses)
    <3>1. misses[w] \in 0 .. MaxMisses - 1 /\ misses \in [Workers -> 0 .. MaxMisses - 1]
      BY DEF WorkerType
    <3>2. misses[w] + 1 \in 0 .. MaxMisses - 1
      BY <2>3, <3>1
    <3>3. misses' \in [Workers -> 0 .. MaxMisses - 1]
      BY <1>6, <2>3, <3>1, <3>2 DEF MissPiece, Missed
    <3> QED
      BY <1>1, <1>6, <2>1, <2>3, <3>3
      DEF MissPiece, Missed, NextTurn, Goto, WorkerType, PCs, InSession, Holding
  <2> QED  BY <2>2, <2>3
<1>7. CASE DownloadErr(w)
  BY <1>1, <1>2, <1>4, <1>7, EndSessionType DEF DownloadErr
<1>8. CASE DownloadChoked(w)
  BY <1>1, <1>2, <1>4, <1>8
  DEF DownloadChoked, Goto, WorkerType, PCs, InSession, Holding
<1> QED  BY <1>5, <1>6, <1>7, <1>8 DEF Queue

\* Handing a result to the collector keeps the types.
LEMMA SendType ==
    ASSUME CoreInv, NEW w \in Workers, SendResult(w) \/ SendPanic(w)
    PROVE  CoreInv'
<1> USE DownloadAssumption DEF CoreInv
<1>1. CASE SendResult(w)
  <2>1. ChannelType' /\ PoolType'
    BY <1>1 DEF SendResult, ChannelType, PoolType, chanVars, egVars, poolVars,
                findVars
  <2>2. pw[w] \in Pieces
    BY <1>1 DEF SendResult, WorkerType, Holding
  <2>3. CollectorType'
    BY <1>1, <2>2 DEF SendResult, Collect, CollectorType
  <2>4. /\ WorkerType'
        /\ \A v \in Workers : pc'[v] # "exit" => attempt'[v] <= MaxReconnects
    BY <1>1
    DEF SendResult, NextTurn, Goto, WorkerType, PCs, InSession, Holding
  <2> QED  BY <2>1, <2>3, <2>4
<1>2. CASE SendPanic(w)
  BY <1>2
  DEF SendPanic, WorkerType, ChannelType, CollectorType, PoolType, workerVars,
      chanVars, egVars, collVars, poolVars, findVars
<1> QED  BY <1>1, <1>2

\* The collector keeps the types.
LEMMA CollectorTypeOK ==
    ASSUME CoreInv, Collector
    PROVE  CoreInv'
<1> USE DownloadAssumption DEF CoreInv
<1>1. /\ WorkerType' /\ PoolType'
      /\ \A v \in Workers : pc'[v] # "exit" => attempt'[v] <= MaxReconnects
  BY DEF Collector, WorkerType, PoolType, workerVars, poolVars, findVars
<1> SUFFICES ChannelType' /\ CollectorType'
  BY <1>1
<1>2. CASE CollectComplete
  BY <1>2 DEF CollectComplete, Complete, ChannelType, CollectorType, chanVars
<1>3. CASE WritePiece
  BY <1>3 DEF WritePiece, ChannelType, CollectorType, chanVars, egVars
<1>4. CASE WriteFail
  BY <1>4 DEF WriteFail, ChannelType, CollectorType, chanVars, egVars
<1>5. CASE FinishAll
  BY <1>5 DEF FinishAll, ChannelType, CollectorType, egVars
<1>6. CASE EnterEndgame
  BY <1>6 DEF EnterEndgame, ChannelType, CollectorType, chanVars
<1>7. CASE KeepCollecting
  BY <1>7 DEF KeepCollecting, ChannelType, CollectorType, chanVars, egVars
<1>8. CASE DrainOne
  BY <1>8 DEF DrainOne, ChannelType, CollectorType, chanVars, egVars, collVars
<1>9. CASE DrainEnd
  BY <1>9 DEF DrainEnd, ChannelType, CollectorType, egVars
<1>10. CASE ResultsEnd
  BY <1>10 DEF ResultsEnd, FinalError, ChannelType, CollectorType, chanVars, egVars
<1> QED
  BY <1>2, <1>3, <1>4, <1>5, <1>6, <1>7, <1>8, <1>9, <1>10 DEF Collector

\* The worker pool and the search for new peers keep the types.
LEMMA PoolTypeOK ==
    ASSUME CoreInv,
           \/ \E w \in Workers : ExitWorker(w) \/ StartWorker(w)
           \/ Closer \/ Finder
    PROVE  CoreInv'
<1> USE DownloadAssumption DEF CoreInv
<1>1. ASSUME NEW w \in Workers, ExitWorker(w) PROVE CoreInv'
  <2>1. Addr(w) \in Addrs
    BY DEF Workers, Addr
  <2>2. PoolType'
    <3>1. activeWorkers \in [Addrs -> Int] /\ wg \in Int
      BY DEF PoolType
    <3>2. /\ \/ activeWorkers' = [activeWorkers EXCEPT ![Addr(w)] = @ - 1]
             \/ activeWorkers' = activeWorkers
          /\ wg' = wg - 1 \/ wg' = wg
      BY <1>1 DEF ExitWorker, FreeSlot, WgDone
    <3>3. activeWorkers' \in [Addrs -> Int] /\ wg' \in Int
      BY <2>1, <3>1, <3>2
    <3> QED  BY <1>1, <3>3 DEF ExitWorker, PoolType, findVars
  <2>3. /\ \/ /\ pc' = [pc EXCEPT ![w] = "leaving"]
              /\ attempt' = [attempt EXCEPT ![w] = 0]
           \/ /\ pc[w] = "leaving"
              /\ pc' = [pc EXCEPT ![w] = "idle"]
              /\ attempt' = attempt
        /\ UNCHANGED <<pw, inEndgame, bitfield, misses, activePeers>>
    BY <1>1 DEF ExitWorker, FreeSlot, WgDone, Goto
  <2>4. /\ WorkerType'
        /\ \A v \in Workers : pc'[v] # "exit" => attempt'[v] <= MaxReconnects
    BY <2>3 DEF WorkerType, PCs, Holding
  <2>5. ChannelType' /\ CollectorType'
    BY <1>1 DEF ExitWorker, ChannelType, CollectorType, chanVars, egVars, collVars
  <2> QED  BY <2>2, <2>4, <2>5
<1>2. ASSUME NEW w \in Workers, StartWorker(w) PROVE CoreInv'
  <2>1. Addr(w) \in Addrs
    BY DEF Workers, Addr
  <2>2. PoolType'
    <3>1. activeWorkers \in [Addrs -> Int] /\ wg \in Int /\ newPeerCh \in Seq(Addrs)
      BY DEF PoolType
    <3>2. /\ \/ activeWorkers' = [activeWorkers EXCEPT ![Addr(w)] = @ + 1]
             \/ activeWorkers' = activeWorkers
          /\ wg' = wg + 1 \/ wg' = wg
          /\ \/ newPeerCh # <<>> /\ newPeerCh' = Tail(newPeerCh)
             \/ newPeerCh' = newPeerCh
      BY <1>2 DEF StartWorker, TakeSlot, WgAdd
    <3>3. activeWorkers' \in [Addrs -> Int]
      BY <2>1, <3>1, <3>2
    <3>4. wg' \in Int
      BY <3>1, <3>2
    <3>5. newPeerCh' \in Seq(Addrs)
      <4>1. CASE newPeerCh # <<>> /\ newPeerCh' = Tail(newPeerCh)
        BY <3>1, <4>1
      <4> QED  BY <3>1, <3>2, <4>1
    <3> QED  BY <1>2, <3>3, <3>4, <3>5 DEF StartWorker, PoolType
  <2> QED
    BY <1>2, <2>2
    DEF StartWorker, TakeSlot, WgAdd, Goto, WorkerType, ChannelType, CollectorType, chanVars,
        egVars, collVars, PCs, Holding
<1>3. CASE Closer
  BY <1>3
  DEF Closer, WaitWoken, WaitReturns, CloseResults, WorkerType, ChannelType,
      CollectorType, PoolType, workerVars, egVars, collVars, findVars
<1>4. CASE Finder
  <2>1. /\ WorkerType' /\ ChannelType' /\ CollectorType'
        /\ \A v \in Workers : pc'[v] # "exit" => attempt'[v] <= MaxReconnects
    BY <1>4
    DEF Finder, WorkerType, ChannelType, CollectorType, workerVars, chanVars,
        egVars, collVars
  <2>2. inflight \in Nat /\ newPeerCh \in Seq(Addrs)
    BY DEF PoolType
  <2>3. inflight' \in Nat /\ newPeerCh' \in Seq(Addrs)
    <3>1. CASE ReannounceTick
      <4>1. inflight' = inflight + 1 /\ newPeerCh' = newPeerCh
        BY <3>1 DEF ReannounceTick
      <4> QED  BY <2>2, <4>1
    <3>2. CASE ReannounceStop \/ SpawnerStop
      BY <2>2, <3>2 DEF ReannounceStop, SpawnerStop
    <3>3. CASE SkipWorker
      <4>1. /\ newPeerCh # <<>> /\ newPeerCh' = Tail(newPeerCh)
            /\ UNCHANGED inflight
        BY <3>3 DEF SkipWorker
      <4> QED  BY <2>2, <4>1
    <3>4. ASSUME NEW a \in Addrs, AnnouncePeer(a)
          PROVE  inflight' \in Nat /\ newPeerCh' \in Seq(Addrs)
      <4>1. /\ inflight > 0 /\ inflight' = inflight - 1
            /\ newPeerCh' = Append(newPeerCh, a) \/ newPeerCh' = newPeerCh
        BY <3>4 DEF AnnouncePeer
      <4> QED  BY <2>2, <4>1
    <3>5. CASE AnnounceNothing
      <4>1. inflight > 0 /\ inflight' = inflight - 1 /\ UNCHANGED newPeerCh
        BY <3>5 DEF AnnounceNothing
      <4> QED  BY <2>2, <4>1
    <3> QED  BY <1>4, <3>1, <3>2, <3>3, <3>4, <3>5 DEF Finder
  <2> QED  BY <1>4, <2>1, <2>3 DEF Finder, PoolType, poolVars
<1> QED  BY <1>1, <1>2, <1>3, <1>4

\* TypeInv is inductive.
LEMMA TypeStep == TypeInv /\ [Next]_vars => TypeInv'
<1> SUFFICES ASSUME CoreInv, FlagType, [Next]_vars PROVE CoreInv'
  BY FlagStep DEF TypeInv
<1>1. CASE UNCHANGED vars
  BY <1>1
  DEF vars, workerVars, chanVars, egVars, collVars, poolVars, findVars, CoreInv,
      WorkerType, ChannelType, CollectorType, PoolType
<1>2. ASSUME NEW w \in Workers, WorkerStep(w) PROVE CoreInv'
  BY <1>2, SessionType, QueueType, SendType, PoolTypeOK DEF WorkerStep
<1> QED
  BY <1>1, <1>2, MessagesType, CollectorTypeOK, PoolTypeOK
  DEF Next, Terminating

\* Every reachable state of the download has the declared types; in
\* particular a worker that sends or puts back a piece owns one, and the
\* collector never stores a piece it was not given.
THEOREM TypeCorrect == Spec => []TypeOK
<1>1. Init => TypeInv
  BY TypeInit DEF TypeInv
<1>2. TypeInv => TypeOK
  BY DEF TypeInv, CoreInv, TypeOK
<1> QED  BY <1>1, <1>2, TypeStep, PTL DEF Spec

-----------------------------------------------------------------------------
(* The worker pool: the counters and the goroutines                        *)

\* The program points of a goroutine between wg.Add and the release of its slot.
Running == PCs \ {"idle", "starting", "leaving"}

\* The program points where activeWorkers, and where wg, counts a goroutine.
SlotPCs    == PCs \ {"idle", "leaving"}
CountedPCs == PCs \ {"idle", "starting"}

\* How many workers of a set are at one of some program points.
Count(f, S, C) == Cardinality({v \in S : f[v] \in C})

At(l, C) == IF l \in C THEN 1 ELSE 0

WorkersOf(a) == {w \in Workers : Addr(w) = a}

\* WorkerAccounting with its sets in the form that Count takes.
AccountInv ==
    /\ \A a \in Addrs :
          /\ activeWorkers[a] = Count(pc, WorkersOf(a), SlotPCs)
          /\ activeWorkers[a] <= MaxWorkersPerPeer
    /\ wg = Count(pc, Workers, CountedPCs)
    /\ activePeers = Count(pc, Workers, InSession)

\* There are finitely many goroutines.
LEMMA WorkersFinite == IsFiniteSet(Workers)
<1>1. IsFiniteSet(1 .. Slots)
  BY FS_Interval, DownloadAssumption
<1> QED  BY <1>1, FS_Product, DownloadAssumption DEF Workers

\* The sets of WorkerAccounting are those of AccountInv.
LEMMA AccountSets ==
    ASSUME pc \in [Workers -> PCs]
    PROVE  AccountInv <=> WorkerAccounting
<1>1. ASSUME NEW a \in Addrs
      PROVE  {w \in Workers : Addr(w) = a /\ pc[w] \notin {"idle", "leaving"}}
                = {v \in WorkersOf(a) : pc[v] \in SlotPCs}
  BY DEF WorkersOf, SlotPCs
<1>2. {w \in Workers : pc[w] \notin {"idle", "starting"}}
        = {v \in Workers : pc[v] \in CountedPCs}
  BY DEF CountedPCs
<1> QED  BY <1>1, <1>2 DEF AccountInv, WorkerAccounting, Count

\* From f to h one worker moves to l; what that does to the counts.
Moved(f, h, w, l) == \A v \in Workers : h[v] = IF v = w THEN l ELSE f[v]
Recount(f, h, w, l) ==
    \A S \in SUBSET Workers : \A C :
        /\ Count(f, S, C) \in Nat
        /\ Count(h, S, C) = Count(f, S, C)
             + IF w \in S THEN At(l, C) - At(f[w], C) ELSE 0

\* When one worker moves, a count changes by that worker.
LEMMA CountMove ==
    ASSUME NEW f, NEW h, NEW w \in Workers, NEW l, Moved(f, h, w, l)
    PROVE  Recount(f, h, w, l)
<1> SUFFICES ASSUME NEW S \in SUBSET Workers, NEW C
             PROVE  /\ Count(f, S, C) \in Nat
                    /\ Count(h, S, C) = Count(f, S, C)
                         + IF w \in S THEN At(l, C) - At(f[w], C) ELSE 0
  BY DEF Recount
<1> DEFINE In == {v \in S : f[v] \in C}
           InP == {v \in S : h[v] \in C}
<1>1. IsFiniteSet(In) /\ Cardinality(In) \in Nat
  BY WorkersFinite, FS_Subset, FS_CardinalityType
<1>2. Count(f, S, C) = Cardinality(In) /\ Count(h, S, C) = Cardinality(InP)
  BY DEF Count
<1>3. \A v \in S : v # w => h[v] = f[v]
  BY DEF Moved
<1>4. h[w] = l
  BY DEF Moved
<1>5. CASE w \in S /\ l \in C
  <2>1. InP = In \cup {w}
    BY <1>3, <1>4, <1>5
  <2>2. w \in In <=> f[w] \in C
    BY <1>5
  <2> HIDE DEF In, InP
  <2>3. Cardinality(InP) = IF w \in In THEN Cardinality(In) ELSE Cardinality(In) + 1
    BY <1>1, <2>1, FS_AddElement
  <2>4. At(l, C) = 1 /\ At(f[w], C) = IF w \in In THEN 1 ELSE 0
    BY <1>5, <2>2 DEF At
  <2> QED  BY <1>1, <1>2, <1>5, <2>3, <2>4
<1>6. CASE w \in S /\ l \notin C
  <2>1. InP = In \ {w}
    BY <1>3, <1>4, <1>6
  <2>2. w \in In <=> f[w] \in C
    BY <1>6
  <2> HIDE DEF In, InP
  <2>3. Cardinality(InP) = IF w \in In THEN Cardinality(In) - 1 ELSE Cardinality(In)
    BY <1>1, <2>1, FS_RemoveElement
  <2>4. At(l, C) = 0 /\ At(f[w], C) = IF w \in In THEN 1 ELSE 0
    BY <1>6, <2>2 DEF At
  <2> QED  BY <1>1, <1>2, <1>6, <2>3, <2>4
<1>7. CASE w \notin S
  <2>1. InP = In
    BY <1>3, <1>7
  <2> HIDE DEF In, InP
  <2> QED  BY <1>1, <1>2, <1>7, <2>1
<1> QED  BY <1>5, <1>6, <1>7

\* A worker that runs goes to a point where it runs, and ActivePeers follows it
\* into a session and out of it.
Moves(w, l) ==
    /\ pc[w] \in Running
    /\ l \in Running
    /\ pc' = [pc EXCEPT ![w] = l]
    /\ activePeers' = activePeers + At(l, InSession) - At(pc[w], InSession)

\* Every step of a session is such a move, or moves nobody.
LEMMA SessionMoves ==
    ASSUME CoreInv, NEW w \in Workers,
           Session(w) \/ Messages(w) \/ Queue(w) \/ SendResult(w)
    PROVE  (\E l \in Running : Moves(w, l)) \/ UNCHANGED <<pc, activePeers>>
<1> DEFINE Goal == (\E l \in Running : Moves(w, l)) \/ UNCHANGED <<pc, activePeers>>
<1>1. activePeers \in Int
  BY DEF CoreInv, WorkerType
<1>2. ASSUME NEW l \in InSession, pc[w] \in InSession, Goto(w, l), UNCHANGED activePeers
      PROVE  Goal
  <2>1. Moves(w, l) /\ l \in Running
    BY <1>1, <1>2 DEF Moves, Running, PCs, InSession, At, Goto
  <2> QED  BY <2>1
<1>3. ASSUME NEW l \in Running \ InSession, pc[w] \in Running \ InSession,
             Goto(w, l), UNCHANGED activePeers
      PROVE  Goal
  <2>1. Moves(w, l)
    BY <1>1, <1>3 DEF Moves, At, Goto
  <2> QED  BY <2>1
<1>4. ASSUME EndSession(w), pc[w] \in Running
      PROVE  Goal
  <2>1. PICK l \in {"exit", "attempt"} : pc' = [pc EXCEPT ![w] = l]
    BY <1>4 DEF EndSession, Goto
  <2>2. l \in Running /\ l \notin InSession
    BY <2>1 DEF Running, PCs, InSession
  <2>3. Moves(w, l)
    BY <1>1, <1>4, <2>1, <2>2 DEF EndSession, LeaveSession, Moves, At
  <2> QED  BY <2>2, <2>3
<1>5. {"loop", "mode", "pick", "select", "check", "download", "send", "waitUnchoke"}
        \subseteq InSession
  BY DEF InSession
<1>6. {"exit", "attempt", "dial", "handshake"} \subseteq Running \ InSession
  BY DEF Running, PCs, InSession
<1>7. InSession \subseteq Running
  BY DEF Running, PCs, InSession
<1> SUFFICES Goal
  OBVIOUS
<1> HIDE DEF Goal
<1>8. CASE StartAttempt(w) \/ DialOK(w)
  <2>1. PICK l \in {"exit", "dial", "handshake"} : Goto(w, l)
    BY <1>8 DEF StartAttempt, DialOK, Advance
  <2>2. pc[w] \in {"attempt", "dial"} /\ UNCHANGED activePeers
    BY <1>8 DEF StartAttempt, DialOK, Advance
  <2> QED  BY <1>3, <1>6, <2>1, <2>2
<1>9. CASE ConnFail(w) \/ StopSession(w) \/ PickNothing(w) \/ DownloadErr(w)
  <2>1. EndSession(w) /\ pc[w] \in {"dial", "handshake", "waitUnchoke", "loop", "select",
                                    "pick", "download"}
    BY <1>9 DEF ConnFail, StopSession, StopPoints, PickNothing, DownloadErr
  <2> QED  BY <1>4, <1>5, <1>6, <1>7, <2>1
<1>10. CASE RecvUnchoke(w)
  <2>1. Moves(w, "loop")
    BY <1>1, <1>10 DEF RecvUnchoke, Moves, Goto, At, Running, PCs, InSession
  <2> QED  BY <1>5, <1>7, <2>1 DEF Goal
<1>11. CASE LoopTop(w) \/ CheckMode(w) \/ SelectEndgame(w) \/ AcceptPiece(w)
              \/ DownloadOK(w) \/ Unchoked(w) \/ SelectWork(w) \/ DownloadChoked(w)
              \/ SendResult(w) \/ \E p \in Pieces : PickPiece(w, p)
  <2>1. pc[w] \in {"loop", "mode", "pick", "select", "check", "download", "send",
                   "waitUnchoke"}
    BY <1>11
    DEF LoopTop, CheckMode, SelectEndgame, AcceptPiece, DownloadOK, Unchoked, SelectWork,
        DownloadChoked, SendResult, PickPiece
  <2>2. UNCHANGED activePeers
    BY <1>11
    DEF LoopTop, CheckMode, SelectEndgame, AcceptPiece, DownloadOK, Unchoked, SelectWork,
        DownloadChoked, SendResult, PickPiece, Advance
  <2>3. PICK l \in {"loop", "mode", "pick", "select", "check", "download", "send",
                    "waitUnchoke"} : Goto(w, l)
    BY <1>11
    DEF LoopTop, CheckMode, SelectEndgame, AcceptPiece, DownloadOK, Unchoked, SelectWork,
        DownloadChoked, SendResult, PickPiece, Advance, NextTurn
  <2> QED  BY <1>2, <1>5, <2>1, <2>2, <2>3
<1>12. CASE Messages(w)
  BY <1>12 DEF Messages, RecvBitfield, RecvHave, Goal
<1>13. CASE MissPiece(w)
  <2>1. CASE EndSession(w)
    BY <1>4, <1>5, <1>7, <1>13, <2>1 DEF MissPiece
  <2>2. CASE NextTurn(w) /\ UNCHANGED activePeers
    BY <1>2, <1>5, <1>13, <2>2 DEF MissPiece, NextTurn
  <2> QED  BY <1>13, <2>1, <2>2 DEF MissPiece
<1> QED
  BY <1>8, <1>9, <1>10, <1>11, <1>12, <1>13 DEF Session, Queue

\* At the start each initial peer has one worker, and wg counts them.
LEMMA AccountInit == Init => AccountInv
<1> SUFFICES ASSUME Init PROVE AccountInv
  OBVIOUS
<1> DEFINE First == {w \in Workers : Addr(w) \in InitialPeers /\ w[2] = 1}
<1>1. \A w \in Workers : pc[w] = IF w \in First THEN "attempt" ELSE "idle"
  BY DEF Init
<1>2. Slots \in Nat /\ Slots >= 1 /\ 1 \in 1 .. Slots
  BY DownloadAssumption
<1>3. ASSUME NEW a \in Addrs
      PROVE  /\ activeWorkers[a] = Count(pc, WorkersOf(a), SlotPCs)
             /\ activeWorkers[a] <= MaxWorkersPerPeer
  <2>1. {v \in WorkersOf(a) : pc[v] \in SlotPCs}
          = IF a \in InitialPeers THEN {<<a, 1>>} ELSE {}
    <3>1. ASSUME NEW v \in WorkersOf(a)
          PROVE  pc[v] \in SlotPCs <=> a \in InitialPeers /\ v[2] = 1
      BY <1>1 DEF WorkersOf, SlotPCs, PCs
    <3>2. ASSUME NEW v \in WorkersOf(a) PROVE v[2] = 1 <=> v = <<a, 1>>
      BY DEF WorkersOf, Workers, Addr
    <3>3. <<a, 1>> \in WorkersOf(a)
      BY <1>2 DEF WorkersOf, Workers, Addr
    <3> QED  BY <3>1, <3>2, <3>3
  <2>2. activeWorkers[a] = IF a \in InitialPeers THEN 1 ELSE 0
    BY DEF Init
  <2>3. Cardinality({<<a, 1>>}) = 1 /\ Cardinality({}) = 0
    BY FS_Singleton, FS_EmptySet
  <2>4. Count(pc, WorkersOf(a), SlotPCs) = IF a \in InitialPeers THEN 1 ELSE 0
    <3>1. CASE a \in InitialPeers
      BY <2>1, <2>3, <3>1 DEF Count
    <3>2. CASE a \notin InitialPeers
      BY <2>1, <2>3, <3>2 DEF Count
    <3> QED  BY <3>1, <3>2
  <2> QED  BY <2>2, <2>4, DownloadAssumption
<1>4. wg = Count(pc, Workers, CountedPCs)
  <2>1. {v \in Workers : pc[v] \in CountedPCs} = First
    BY <1>1 DEF CountedPCs, PCs
  <2>2. IsFiniteSet(InitialPeers)
    BY FS_Subset, DownloadAssumption
  <2>3. ExistsBijection(InitialPeers, First)
    <3> DEFINE f == [a \in InitialPeers |-> <<a, 1>>]
    <3>1. \A a \in InitialPeers : <<a, 1>> \in First
      BY <1>2, DownloadAssumption DEF Workers, Addr
    <3>2. f \in Injection(InitialPeers, First)
      BY <3>1 DEF Injection, IsInjective
    <3>3. f \in Surjection(InitialPeers, First)
      <4>1. ASSUME NEW w \in First PROVE w[1] \in InitialPeers /\ w = <<w[1], 1>>
        BY DEF Workers, Addr
      <4> QED  BY <3>1, <4>1 DEF Surjection
    <3> QED  BY <3>2, <3>3 DEF ExistsBijection, Bijection
  <2> QED  BY <2>1, <2>2, <2>3, FS_Bijection DEF Count, Init
<1>5. activePeers = Count(pc, Workers, InSession)
  <2>1. {v \in Workers : pc[v] \in InSession} = {}
    BY <1>1 DEF InSession
  <2> QED  BY <2>1, FS_EmptySet DEF Count, Init
<1> QED  BY <1>3, <1>4, <1>5 DEF AccountInv

\* The counters follow the goroutines: through a session, through the deferred
\* calls at its end and through startWorker.
LEMMA AccountStep == TypeInv /\ AccountInv /\ [Next]_vars => AccountInv'
<1> SUFFICES ASSUME CoreInv, AccountInv, [Next]_vars PROVE AccountInv'
  BY DEF TypeInv
<1>1. pc \in [Workers -> PCs]
  BY DEF CoreInv, WorkerType
<1>2. /\ activeWorkers \in [Addrs -> Int] /\ wg \in Int /\ activePeers \in Int
      /\ MaxWorkersPerPeer \in Nat
  BY DownloadAssumption DEF CoreInv, PoolType, WorkerType
<1>3. ASSUME NEW w \in Workers
      PROVE  Addr(w) \in Addrs /\ \A a \in Addrs : w \in WorkersOf(a) <=> a = Addr(w)
  BY DEF Workers, Addr, WorkersOf
<1>4. \A a \in Addrs : WorkersOf(a) \in SUBSET Workers
  BY DEF WorkersOf
<1>5. ASSUME UNCHANGED <<pc, activeWorkers, wg, activePeers>> PROVE AccountInv'
  BY <1>5 DEF AccountInv, Count
<1>6. ASSUME NEW w \in Workers, NEW l, pc' = [pc EXCEPT ![w] = l]
       PROVE  Recount(pc, pc', w, l)
  BY <1>1, <1>6, CountMove DEF Moved
<1>7. ASSUME NEW w \in Workers, NEW l \in Running, Moves(w, l),
             UNCHANGED <<activeWorkers, wg>>
      PROVE  AccountInv'
  <2>1. /\ pc[w] \in SlotPCs /\ l \in SlotPCs
        /\ pc[w] \in CountedPCs /\ l \in CountedPCs
        /\ pc' = [pc EXCEPT ![w] = l]
    BY <1>7 DEF Moves, Running, SlotPCs, CountedPCs
  <2>3. Recount(pc, pc', w, l)
    BY <1>6, <2>1
  <2>4. /\ At(l, SlotPCs) = 1 /\ At(pc[w], SlotPCs) = 1
        /\ At(l, CountedPCs) = 1 /\ At(pc[w], CountedPCs) = 1
        /\ At(l, InSession) \in Int /\ At(pc[w], InSession) \in Int
    BY <2>1 DEF At
  <2>5. \A a \in Addrs : Count(pc', WorkersOf(a), SlotPCs) = Count(pc, WorkersOf(a), SlotPCs)
    BY <1>4, <2>3, <2>4 DEF Recount
  <2>6. Count(pc', Workers, CountedPCs) = Count(pc, Workers, CountedPCs)
    BY <2>3, <2>4 DEF Recount
  <2>7. Count(pc', Workers, InSession)
          = Count(pc, Workers, InSession) + At(l, InSession) - At(pc[w], InSession)
    BY <2>3, <2>4 DEF Recount
  <2> QED  BY <1>7, <2>5, <2>6, <2>7 DEF AccountInv, Moves
\* A worker changes its place outside of a session.
<1>8. ASSUME NEW w \in Workers, NEW l, Goto(w, l),
             l \notin InSession, pc[w] \notin InSession, UNCHANGED activePeers,
             NEW n \in {-1, 0, 1}, NEW m \in {-1, 0, 1},
             \A a \in Addrs : activeWorkers'[a] = activeWorkers[a] + IF a = Addr(w) THEN n ELSE 0,
             wg' = wg + m,
             n = At(l, SlotPCs) - At(pc[w], SlotPCs),
             m = At(l, CountedPCs) - At(pc[w], CountedPCs),
             n = 1 => activeWorkers[Addr(w)] < MaxWorkersPerPeer
      PROVE  AccountInv'
  <2>5. Recount(pc, pc', w, l)
    BY <1>8, <1>6 DEF Goto
  <2>6. At(l, InSession) = 0 /\ At(pc[w], InSession) = 0
    BY <1>8 DEF At
  <2>2. Count(pc', Workers, InSession) = Count(pc, Workers, InSession)
    BY <2>5, <2>6 DEF Recount
  <2>3. Count(pc', Workers, CountedPCs)
          = Count(pc, Workers, CountedPCs) + m
    BY <1>8, <2>5 DEF Recount
  <2>4. ASSUME NEW a \in Addrs
        PROVE  /\ activeWorkers'[a] = Count(pc', WorkersOf(a), SlotPCs)
               /\ activeWorkers'[a] <= MaxWorkersPerPeer
    <3>1. Count(pc', WorkersOf(a), SlotPCs)
            = Count(pc, WorkersOf(a), SlotPCs) + IF a = Addr(w) THEN n ELSE 0
      BY <1>3, <1>4, <1>8, <2>5 DEF Recount
    <3>2. activeWorkers'[a] = activeWorkers[a] + IF a = Addr(w) THEN n ELSE 0
      BY <1>2, <1>3, <1>8
    <3>3. activeWorkers[a] = Count(pc, WorkersOf(a), SlotPCs)
          /\ activeWorkers[a] <= MaxWorkersPerPeer
      BY DEF AccountInv
    <3> QED  BY <1>2, <1>8, <3>1, <3>2, <3>3
  <2> QED  BY <1>8, <2>2, <2>3, <2>4 DEF AccountInv
<1> HIDE DEF AccountInv
<1>9. {"idle", "leaving", "starting", "exit", "attempt"} \cap InSession = {}
      /\ {"idle", "leaving", "starting", "exit", "attempt"} \subseteq PCs
  BY DEF PCs, InSession
<1>10. ASSUME NEW w \in Workers, Session(w) \/ Messages(w) \/ Queue(w) \/ SendResult(w)
      PROVE  AccountInv'
  <2>1. UNCHANGED <<activeWorkers, wg>>
    BY <1>10 DEF Session, Messages, Queue, SendResult, poolVars
  <2> QED  BY <1>5, <1>7, <1>10, <2>1, SessionMoves
<1>11. ASSUME NEW w \in Workers, FreeSlot(w), UNCHANGED activePeers PROVE AccountInv'
  <2>1. /\ Goto(w, "leaving") /\ pc[w] = "exit" /\ wg' = wg + 0
        /\ \A a \in Addrs : activeWorkers'[a] = activeWorkers[a] + (IF a = Addr(w) THEN -1 ELSE 0)
    BY <1>2, <1>3, <1>11 DEF FreeSlot
  <2>2. At("leaving", SlotPCs) = 0 /\ At("exit", SlotPCs) = 1
        /\ At("leaving", CountedPCs) = 1 /\ At("exit", CountedPCs) = 1
    BY <1>9 DEF At, SlotPCs, CountedPCs
  <2>3. "leaving" \notin InSession /\ "exit" \notin InSession
    BY <1>9
  <2> QED  BY <1>8, <1>11, <2>1, <2>2, <2>3
<1>12. ASSUME NEW w \in Workers, WgDone(w), UNCHANGED activePeers PROVE AccountInv'
  <2>1. /\ Goto(w, "idle") /\ pc[w] = "leaving" /\ wg' = wg + (-1)
        /\ \A a \in Addrs : activeWorkers'[a] = activeWorkers[a] + (IF a = Addr(w) THEN 0 ELSE 0)
    BY <1>2, <1>3, <1>12 DEF WgDone
  <2>2. At("idle", SlotPCs) = 0 /\ At("leaving", SlotPCs) = 0
        /\ At("idle", CountedPCs) = 0 /\ At("leaving", CountedPCs) = 1
    BY <1>9 DEF At, SlotPCs, CountedPCs
  <2>3. "idle" \notin InSession /\ "leaving" \notin InSession
    BY <1>9
  <2> QED  BY <1>8, <1>12, <2>1, <2>2, <2>3
<1>13. ASSUME NEW w \in Workers, TakeSlot(w), UNCHANGED activePeers PROVE AccountInv'
  <2>1. /\ Goto(w, "starting") /\ pc[w] = "idle" /\ wg' = wg + 0
        /\ \A a \in Addrs : activeWorkers'[a] = activeWorkers[a] + (IF a = Addr(w) THEN 1 ELSE 0)
        /\ activeWorkers[Addr(w)] < MaxWorkersPerPeer
    BY <1>2, <1>13 DEF TakeSlot, HasSlot
  <2>2. At("starting", SlotPCs) = 1 /\ At("idle", SlotPCs) = 0
        /\ At("starting", CountedPCs) = 0 /\ At("idle", CountedPCs) = 0
    BY <1>9 DEF At, SlotPCs, CountedPCs
  <2>3. "starting" \notin InSession /\ "idle" \notin InSession
    BY <1>9
  <2> QED  BY <1>8, <1>13, <2>1, <2>2, <2>3
<1>14. ASSUME NEW w \in Workers, WgAdd(w), UNCHANGED activePeers PROVE AccountInv'
  <2>1. /\ Goto(w, "attempt") /\ pc[w] = "starting" /\ wg' = wg + 1
        /\ \A a \in Addrs : activeWorkers'[a] = activeWorkers[a] + (IF a = Addr(w) THEN 0 ELSE 0)
    BY <1>2, <1>3, <1>14 DEF WgAdd
  <2>2. At("attempt", SlotPCs) = 1 /\ At("starting", SlotPCs) = 1
        /\ At("attempt", CountedPCs) = 1 /\ At("starting", CountedPCs) = 0
    BY <1>9 DEF At, SlotPCs, CountedPCs
  <2>3. "attempt" \notin InSession /\ "starting" \notin InSession
    BY <1>9
  <2> QED  BY <1>8, <1>14, <2>1, <2>2, <2>3
<1>15. ASSUME NEW w \in Workers, ExitWorker(w) \/ StartWorker(w) PROVE AccountInv'
  BY <1>11, <1>12, <1>13, <1>14, <1>15 DEF ExitWorker, StartWorker
<1>16. ASSUME \/ \E w \in Workers : SendPanic(w)
              \/ Collector \/ Closer \/ Finder \/ UNCHANGED vars
       PROVE  AccountInv'
  BY <1>5, <1>16 DEF SendPanic, Collector, Closer, Finder, vars, workerVars, poolVars
<1> QED
  BY <1>10, <1>15, <1>16 DEF Next, WorkerStep, Terminating

\* Under every order of starts, ends and failures the counters of the pool agree
\* with its goroutines: no address has more than maxWorkersPerPeer workers, wg
\* counts those that still have to call Done, and ActivePeers the open sessions.
THEOREM WorkerAccountingHolds == Spec => []WorkerAccounting
<1>1. Init => TypeInv
  BY TypeInit DEF TypeInv
<1>2. TypeInv /\ AccountInv => WorkerAccounting
  BY AccountSets DEF TypeInv, CoreInv, WorkerType
<1> QED  BY <1>1, <1>2, TypeStep, AccountInit, AccountStep, PTL DEF Spec

-----------------------------------------------------------------------------
(* The panics of the pool                                                  *)

\* As long as nobody was announced, no peer is on its way to startWorker and
\* no worker starts; so when wg.Wait was woken all workers are gone for good.
QuietInv ==
    ~announced =>
        /\ inflight = 0
        /\ newPeerCh = <<>>
        /\ \A w \in Workers : pc[w] # "starting"
        /\ closer # "wait" => \A w \in Workers : pc[w] = "idle"
        /\ resultClosed => closer = "closed"
        /\ panicked = "no"

\* A panic takes a re-announcement.
PanicNeedsAnnouncement == panicked # "no" => announced

\* wg is zero exactly when no goroutine is left that wg counts.
LEMMA WgZero ==
    ASSUME TypeInv, AccountInv
    PROVE  wg = 0 <=> \A w \in Workers : pc[w] \notin CountedPCs
<1> DEFINE In == {v \in Workers : pc[v] \in CountedPCs}
<1>1. IsFiniteSet(In)
  BY WorkersFinite, FS_Subset
<1>2. wg = Cardinality(In)
  BY DEF AccountInv, Count
<1>3. Cardinality(In) = 0 <=> In = {}
  BY <1>1, FS_EmptySet
<1> QED  BY <1>2, <1>3

\* No step of the pool, the collector or a worker breaks the quiet of a
\* download without announcements.
LEMMA QuietStep == TypeInv /\ AccountInv /\ QuietInv /\ [Next]_vars => QuietInv'
<1> SUFFICES ASSUME TypeInv, AccountInv, QuietInv, [Next]_vars, ~announced'
             PROVE  QuietInv'
  BY DEF QuietInv
<1>1. ~announced
  <2>2. CASE Finder
    BY <2>2
    DEF Finder, ReannounceTick, ReannounceStop, AnnouncePeer, AnnounceNothing, SkipWorker,
        SpawnerStop
  <2>3. CASE ~Finder
    BY <2>3
    DEF Next, WorkerStep, Messages, Session, Queue, SendResult, SendPanic, ExitWorker,
        StartWorker, Collector, Closer, Terminating, vars, findVars
  <2> QED  BY <2>2, <2>3
<1>2. /\ inflight = 0 /\ newPeerCh = <<>> /\ panicked = "no"
      /\ \A w \in Workers : pc[w] # "starting"
      /\ closer # "wait" => \A w \in Workers : pc[w] = "idle"
      /\ resultClosed => closer = "closed"
  BY <1>1 DEF QuietInv
<1>3. pc \in [Workers -> PCs] /\ resultClosed \in BOOLEAN
  BY DEF TypeInv, CoreInv, WorkerType, FlagType
<1>4. ASSUME UNCHANGED <<pc, inflight, newPeerCh, closer, resultClosed, panicked>>
      PROVE  QuietInv'
  BY <1>2, <1>4 DEF QuietInv
\* A worker that moves keeps the closer waiting.
<1>5. ASSUME NEW w \in Workers, NEW l \in PCs \ {"starting"}, Goto(w, l), pc[w] # "idle",
             UNCHANGED <<inflight, newPeerCh, closer, resultClosed, panicked>>
      PROVE  QuietInv'
  <2>1. closer = "wait" /\ ~resultClosed
    BY <1>2, <1>5
  <2> QED  BY <1>2, <1>3, <1>5, <2>1 DEF QuietInv, Goto
<1>6. ASSUME NEW w \in Workers, Session(w) \/ Messages(w) \/ Queue(w) \/ SendResult(w)
      PROVE  QuietInv'
  <2>1. UNCHANGED <<inflight, newPeerCh, closer, resultClosed, panicked>>
    BY <1>6 DEF Session, Messages, Queue, SendResult, poolVars, findVars, chanVars
  <2>2. CASE UNCHANGED pc
    BY <1>4, <2>1, <2>2
  <2>3. ASSUME NEW l \in Running, Moves(w, l) PROVE QuietInv'
    BY <1>5, <2>1, <2>3 DEF Moves, Running, Goto
  <2> QED  BY <1>6, <2>2, <2>3, SessionMoves DEF TypeInv
<1>7. ASSUME NEW w \in Workers, ExitWorker(w) PROVE QuietInv'
  BY <1>5, <1>7 DEF ExitWorker, FreeSlot, WgDone, PCs, findVars, chanVars
<1>8. ASSUME NEW w \in Workers, StartWorker(w) \/ SendPanic(w) PROVE FALSE
  BY <1>2, <1>8 DEF StartWorker, TakeSlot, WgAdd, SendPanic
<1>9. CASE Collector
  BY <1>4, <1>9
  DEF Collector, CollectComplete, WritePiece, WriteFail, FinishAll, EnterEndgame,
      KeepCollecting, DrainOne, DrainEnd, ResultsEnd, workerVars, poolVars, findVars, chanVars
<1>10. CASE Closer
  <2>1. UNCHANGED <<pc, inflight, newPeerCh, wg>>
    BY <1>10 DEF Closer, workerVars, findVars
  <2>2. wg = 0 <=> \A w \in Workers : pc[w] = "idle"
    BY <1>2, <1>3, WgZero DEF CountedPCs
  <2>3. CASE WaitWoken
    BY <1>2, <2>1, <2>2, <2>3 DEF WaitWoken, QuietInv
  <2>4. CASE WaitReturns
    BY <1>2, <2>1, <2>2, <2>4 DEF WaitReturns, QuietInv
  <2>5. CASE CloseResults
    BY <1>2, <2>1, <2>5 DEF CloseResults, QuietInv
  <2> QED  BY <1>10, <2>3, <2>4, <2>5 DEF Closer
<1>11. CASE Finder
  <2>1. UNCHANGED <<pc, closer, resultClosed, panicked>>
    BY <1>11 DEF Finder, workerVars, poolVars, chanVars
  <2>2. UNCHANGED <<inflight, newPeerCh>>
    BY <1>1, <1>2, <1>11
    DEF Finder, ReannounceTick, ReannounceStop, AnnouncePeer, AnnounceNothing, SkipWorker,
        SpawnerStop
  <2> QED  BY <1>4, <2>1, <2>2
<1>12. CASE UNCHANGED vars
  BY <1>4, <1>12 DEF vars, workerVars, poolVars, findVars, chanVars
<1> QED
  BY <1>6, <1>7, <1>8, <1>9, <1>10, <1>11, <1>12 DEF Next, WorkerStep, Terminating

\* Whatever peers do, the process can die of a reused WaitGroup or of a send on
\* the closed resultCh only after reannounceLoop has announced: only startWorker
\* for a newly found peer can race with wg.Wait.
THEOREM PanicNeedsAnnouncementHolds == Spec => []PanicNeedsAnnouncement
<1>1. Init => TypeInv
  BY TypeInit DEF TypeInv
<1>2. Init => QuietInv
  <2> SUFFICES ASSUME Init PROVE QuietInv
    OBVIOUS
  <2>1. \A w \in Workers : pc[w] # "starting"
    BY DEF Init
  <2> QED  BY <2>1 DEF Init, QuietInv
<1>3. TypeInv /\ QuietInv => PanicNeedsAnnouncement
  BY DEF QuietInv, PanicNeedsAnnouncement
<1> QED
  BY <1>1, <1>2, <1>3, TypeStep, AccountInit, AccountStep, QuietStep, PTL DEF Spec

\* Without re-announcement the download never panics.
THEOREM NoPanicHolds ==
    ASSUME MaxInflight = 0
    PROVE  Spec => []NoPanic
<1>0. MaxInflight = 0
  OBVIOUS
<1>1. Init => TypeInv
  BY TypeInit DEF TypeInv
<1>2. Init => ~announced
  BY DEF Init
<1>3. TypeInv /\ ~announced /\ [Next]_vars => ~announced'
  <2> SUFFICES ASSUME TypeInv, ~announced, [Next]_vars PROVE ~announced'
    OBVIOUS
  <2>1. CASE Finder
    <3>1. ~ReannounceTick
      <4>1. inflight \in Nat
        BY DEF TypeInv, CoreInv, PoolType
      <4>2. ~(inflight < MaxInflight)
        BY <1>0, <4>1
      <4> QED  BY <4>2 DEF ReannounceTick
    <3> QED
      BY <2>1, <3>1
      DEF Finder, ReannounceStop, AnnouncePeer, AnnounceNothing, SkipWorker, SpawnerStop
  <2>2. CASE ~Finder
    BY <2>2
    DEF Next, WorkerStep, Messages, Session, Queue, SendResult, SendPanic, ExitWorker,
        StartWorker, Collector, Closer, Terminating, vars, findVars
  <2> QED  BY <2>1, <2>2
<1>4. PanicNeedsAnnouncement /\ ~announced => NoPanic
  BY DEF PanicNeedsAnnouncement, NoPanic
<1> QED
  BY <1>1, <1>2, <1>3, <1>4, TypeStep, PanicNeedsAnnouncementHolds, PTL DEF Spec

-----------------------------------------------------------------------------
(* The collector: the inductive invariant                                  *)

Stored == {p \in Pieces : disk[p] = 1}

\* The collector's bookkeeping: done counts the pieces on disk, completed
\* holds them and the one being stored, and the result matches them.
CollectorInv ==
    /\ disk \in [Pieces -> {0, 1}]
    /\ done = Cardinality(Stored)
    /\ cpc \in {"complete", "write"} =>
          disk[cur] = 0 /\ completed = Stored \cup {cur}
    /\ cpc \in {"recv", "check", "drain"} => completed = Stored
    /\ cpc = "returned" <=> ret # "running"
    /\ ret = "ok" => Stored = Pieces

\* The mode switch: who may see the tracker, and what the tracker offers.
TrackerInv ==
    /\ egClosed => egActive
    /\ cpc = "drain" => egActive
    /\ egCompleted \subseteq completed
    /\ ~egActive => egPieces = {}
    /\ egActive => egPieces = IF cpc = "complete"
                              THEN (Pieces \ completed) \cup {cur}
                              ELSE Pieces \ completed

\* A worker acts in endgame mode only after egCh was closed, and picks from the
\* tracker only in that mode.
ModeInv ==
    \A w \in Workers :
        /\ inEndgame[w] => egClosed
        /\ pc[w] = "pick" => inEndgame[w]
        /\ pc[w] \in {"select", "check"} => ~inEndgame[w]

\* The workers that own a piece of the work queue.
NormalHolders == {w \in Workers : pc[w] \in Holding /\ ~inEndgame[w]}

NoRepeat(s) == \A i, j \in 1 .. Len(s) : s[i] = s[j] => i = j

\* A piece is in one place at most: once in the queue, or owned by one
\* worker of the normal mode.
UniqueInv ==
    /\ NoRepeat(workCh)
    /\ \A w \in Workers : w \in NormalHolders => ~Queued(pw[w])
    /\ \A v, w \in Workers :
          v \in NormalHolders /\ w \in NormalHolders /\ pw[v] = pw[w] => v = w

\* Before endgame, a piece is in one place at least.
SupplyInv ==
    ~egActive => \A p \in Pieces \ completed :
                    Queued(p) \/ \E w \in Workers : Holds(w, p)

-----------------------------------------------------------------------------
(* The collector                                                           *)

\* Counting the stored pieces decides whether all of them are stored.
LEMMA StoredCount ==
    /\ IsFiniteSet(Stored)
    /\ Cardinality(Stored) \in Nat
    /\ Cardinality(Stored) >= NumPieces => Stored = Pieces
    /\ Cardinality(Stored) < NumPieces => Stored # Pieces
<1>1. IsFiniteSet(Pieces) /\ Cardinality(Pieces) = NumPieces
  <2>1. 0 \in Int /\ NumPieces - 1 \in Int
    BY DownloadAssumption
  <2> QED  BY <2>1, FS_Interval, DownloadAssumption DEF Pieces
<1>2. Stored \subseteq Pieces
  BY DEF Stored
<1>3. /\ IsFiniteSet(Stored)
      /\ Cardinality(Stored) <= Cardinality(Pieces)
      /\ Cardinality(Stored) = Cardinality(Pieces) => Stored = Pieces
  BY <1>1, <1>2, FS_Subset
<1>4. Cardinality(Stored) \in Nat
  BY <1>3, FS_CardinalityType
<1> QED  BY <1>1, <1>3, <1>4, DownloadAssumption

\* The collector starts with nothing completed and nothing stored.
LEMMA CollectorInit == Init => CollectorInv
<1> SUFFICES ASSUME Init PROVE CollectorInv
  OBVIOUS
<1>1. Stored = {}
  BY DEF Init, Stored
<1>2. Cardinality({}) = 0
  BY FS_EmptySet
<1> QED  BY <1>1, <1>2 DEF Init, CollectorInv

\* The collector's variables decide the invariant.
LEMMA CollectorFrame ==
    ASSUME CollectorInv, UNCHANGED collVars
    PROVE  CollectorInv'
BY DEF CollectorInv, collVars, Stored

\* CollectorInv is inductive: only the collector writes, and it writes a piece
\* it has just marked as completed.
LEMMA CollectorStep == TypeInv /\ CollectorInv /\ [Next]_vars => CollectorInv'
<1> SUFFICES ASSUME CoreInv, CollectorInv, [Next]_vars PROVE CollectorInv'
  BY DEF TypeInv
<1>1. CASE UNCHANGED collVars
  BY <1>1, CollectorFrame
<1>2. ASSUME NEW w \in Workers, SendResult(w) PROVE CollectorInv'
  <2>1. /\ pw[w] \in Pieces /\ cpc = "recv" /\ Collect(pw[w])
        /\ UNCHANGED <<done, disk, ret>>
    BY <1>2 DEF SendResult, CoreInv, WorkerType, Holding
  <2>2. Stored' = Stored
    BY <2>1 DEF Stored
  <2> QED  BY <2>1, <2>2 DEF Collect, CollectorInv, Stored
<1>3. CASE Collector
  <2>1. CASE CollectComplete
    <3>1. UNCHANGED <<cur, completed, done, disk, ret>> /\ cpc = "complete" /\ cpc' = "write"
      BY <2>1 DEF CollectComplete
    <3> QED  BY <3>1 DEF CollectorInv, Stored
  <2>2. CASE WritePiece
    <3>1. /\ cpc = "write" /\ cpc' = "check" /\ done' = done + 1
          /\ disk' = [disk EXCEPT ![cur] = @ + 1] /\ UNCHANGED <<completed, ret>>
      BY <2>2 DEF WritePiece
    <3>2. cur \in Pieces /\ disk[cur] = 0
      BY <3>1 DEF CoreInv, CollectorType, CollectorInv
    <3>3. disk' \in [Pieces -> {0, 1}] /\ disk' = [disk EXCEPT ![cur] = 1]
      BY <3>1, <3>2 DEF CollectorInv
    <3>4. Stored' = Stored \cup {cur} /\ cur \notin Stored
      BY <3>2, <3>3 DEF Stored, CollectorInv
    <3>5. Cardinality(Stored') = Cardinality(Stored) + 1
      BY <3>4, StoredCount, FS_AddElement
    <3>6. completed = Stored \cup {cur}
      BY <3>1 DEF CollectorInv
    <3>7. ret = "running"
      BY <3>1 DEF CollectorInv
    <3> QED  BY <3>1, <3>3, <3>4, <3>5, <3>6, <3>7 DEF CollectorInv
  <2>3. CASE WriteFail
    <3>1. /\ cpc' = "returned" /\ ret' = "writeError"
          /\ UNCHANGED <<cur, completed, done, disk>>
      BY <2>3 DEF WriteFail
    <3> QED  BY <3>1 DEF CollectorInv, Stored
  <2>4. CASE FinishAll
    <3>1. /\ cpc' = "returned" /\ ret' = "ok" /\ done >= NumPieces
          /\ UNCHANGED <<cur, completed, done, disk>>
      BY <2>4 DEF FinishAll, AllDone
    <3>2. Stored = Pieces
      BY <3>1, StoredCount DEF CollectorInv
    <3> QED  BY <3>1, <3>2 DEF CollectorInv, Stored
  <2>5. CASE EnterEndgame \/ KeepCollecting \/ DrainEnd
    <3>1. /\ cpc \in {"check", "drain"} /\ cpc' \in {"recv", "drain"}
          /\ UNCHANGED <<cur, completed, done, disk, ret>>
      BY <2>5 DEF EnterEndgame, KeepCollecting, DrainEnd
    <3> QED  BY <3>1 DEF CollectorInv, Stored
  <2>6. CASE DrainOne
    BY <2>6, CollectorFrame DEF DrainOne
  <2>7. CASE ResultsEnd
    <3>1. /\ cpc = "recv" /\ cpc' = "returned" /\ ret' = FinalError
          /\ UNCHANGED <<cur, completed, done, disk>>
      BY <2>7 DEF ResultsEnd
    <3>2. FinalError = "ok" => Stored = Pieces
      BY StoredCount DEF FinalError, AllDone, CollectorInv
    <3>3. FinalError # "running"
      BY DEF FinalError
    <3> QED  BY <3>1, <3>2, <3>3 DEF CollectorInv, Stored
  <2> QED
    BY <1>3, <2>1, <2>2, <2>3, <2>4, <2>5, <2>6, <2>7 DEF Collector
<1>4. ASSUME NEW w \in Workers,
             Session(w) \/ Messages(w) \/ Queue(w) \/ SendPanic(w)
               \/ ExitWorker(w) \/ StartWorker(w)
      PROVE  UNCHANGED collVars
  BY <1>4 DEF Session, Messages, Queue, SendPanic, ExitWorker, StartWorker
<1>5. Closer \/ Finder \/ Terminating \/ UNCHANGED vars => UNCHANGED collVars
  BY DEF Closer, Finder, Terminating, vars
<1> QED
  BY <1>1, <1>2, <1>3, <1>4, <1>5 DEF Next, WorkerStep

\* The collector never writes a piece twice, whatever duplicate results the
\* endgame workers send.
THEOREM WriteOnceHolds == Spec => []WriteOnce
<1>1. CollectorInv => WriteOnce
  BY DEF CollectorInv, WriteOnce
<1>2. Init => TypeInv
  BY TypeInit DEF TypeInv
<1> QED  BY <1>1, <1>2, TypeStep, CollectorInit, CollectorStep, PTL DEF Spec

\* downloadPieces returns nil only when every piece is on disk.
THEOREM SuccessHolds == Spec => []SuccessIsComplete
<1>1. CollectorInv => SuccessIsComplete
  BY DEF CollectorInv, SuccessIsComplete, Stored
<1>2. Init => TypeInv
  BY TypeInit DEF TypeInv
<1> QED  BY <1>1, <1>2, TypeStep, CollectorInit, CollectorStep, PTL DEF Spec

\* downloadPieces implements its abstract specification: pieces reach the
\* disk once each while it runs, success means that all are there, an error
\* that one is missing, and nothing is stored after the return.
THEOREM Refinement == Spec => ImplementsDownloadSpec
<1>1. Init => Abstract!Init
  BY DEF Init, Abstract!Init
<1>2. ASSUME TypeInv, CollectorInv, [Next]_vars
      PROVE  [Abstract!Next]_<<disk, ret>>
  <2>1. CASE UNCHANGED <<disk, ret>>
    BY <2>1
  <2>2. CASE WritePiece
    <3>1. /\ cpc = "write" /\ disk' = [disk EXCEPT ![cur] = @ + 1]
          /\ UNCHANGED ret
      BY <2>2 DEF WritePiece
    <3>2. /\ cur \in Pieces /\ disk \in [Pieces -> {0, 1}] /\ disk[cur] = 0
          /\ ret = "running"
      BY <3>1, <1>2 DEF TypeInv, CoreInv, CollectorType, CollectorInv
    <3>3. disk' = [disk EXCEPT ![cur] = 1]
      BY <3>1, <3>2
    <3>4. Abstract!Store(cur)
      BY <3>1, <3>2, <3>3 DEF Abstract!Store
    <3> QED  BY <3>2, <3>4 DEF Abstract!Next
  <2>3. CASE WriteFail
    <3>1. cpc = "write" /\ ret' = "writeError" /\ UNCHANGED disk
      BY <2>3 DEF WriteFail
    <3>2. cur \in Pieces /\ disk[cur] = 0 /\ ret = "running"
      BY <3>1, <1>2 DEF TypeInv, CoreInv, CollectorType, CollectorInv
    <3> QED  BY <3>1, <3>2 DEF Abstract!Next, Abstract!Fail
  <2>4. CASE FinishAll
    <3>1. /\ cpc = "check" /\ ret' = "ok" /\ UNCHANGED disk
          /\ done >= NumPieces
      BY <2>4 DEF FinishAll, AllDone
    <3>2. Stored = Pieces /\ ret = "running"
      BY <3>1, <1>2, StoredCount DEF CollectorInv
    <3> QED  BY <3>1, <3>2 DEF Abstract!Next, Abstract!Succeed, Stored
  <2>5. CASE ResultsEnd
    <3>1. cpc = "recv" /\ ret' = FinalError /\ UNCHANGED disk
      BY <2>5 DEF ResultsEnd
    <3>2. ret = "running" /\ done = Cardinality(Stored) /\ disk \in [Pieces -> {0, 1}]
      BY <3>1, <1>2 DEF CollectorInv
    <3>3. CASE AllDone
      <4>1. Stored = Pieces
        BY <3>2, <3>3, StoredCount DEF AllDone
      <4> QED
        BY <3>1, <3>2, <3>3, <4>1
        DEF Abstract!Next, Abstract!Succeed, Stored, FinalError
    <3>4. CASE ~AllDone
      <4>1. Stored # Pieces
        BY <3>2, <3>4, StoredCount, DownloadAssumption DEF AllDone
      <4>2. \E p \in Pieces : disk[p] = 0
        BY <3>2, <4>1 DEF Stored
      <4> QED
        BY <3>1, <3>2, <3>4, <4>2 DEF Abstract!Next, Abstract!Fail, FinalError
    <3> QED  BY <3>3, <3>4
  <2>6. CASE Collector
    <3>1. CollectComplete \/ EnterEndgame \/ KeepCollecting \/ DrainOne
            \/ DrainEnd => UNCHANGED <<disk, ret>>
      BY DEF CollectComplete, EnterEndgame, KeepCollecting, DrainOne, DrainEnd,
             collVars
    <3> QED
      BY <2>1, <2>2, <2>3, <2>4, <2>5, <2>6, <3>1 DEF Collector
  <2>7. ASSUME NEW w \in Workers,
               WorkerStep(w) \/ Messages(w) \/ StartWorker(w)
        PROVE  UNCHANGED <<disk, ret>>
    BY <2>7
    DEF WorkerStep, Session, Messages, Queue, SendResult, SendPanic,
        ExitWorker, StartWorker, collVars
  <2>8. Closer \/ Finder \/ Terminating \/ UNCHANGED vars
          => UNCHANGED <<disk, ret>>
    BY DEF Closer, Finder, Terminating, vars, collVars
  <2> QED  BY <1>2, <2>1, <2>6, <2>7, <2>8 DEF Next
<1>3. Init => TypeInv
  BY TypeInit DEF TypeInv
<1> QED
  BY <1>1, <1>2, <1>3, TypeStep, CollectorInit, CollectorStep, PTL
  DEF Spec, ImplementsDownloadSpec, Abstract!Spec

-----------------------------------------------------------------------------
(* The endgame tracker                                                     *)

\* TrackerInv is inductive: transitionToEndgame fills the tracker before it
\* closes egCh, and Complete follows every new completed piece.
LEMMA TrackerStep ==
    TypeInv /\ CollectorInv /\ TrackerInv /\ [Next]_vars => TrackerInv'
<1> SUFFICES ASSUME CoreInv, CollectorInv, TrackerInv, [Next]_vars
             PROVE  TrackerInv'
  BY DEF TypeInv
<1>1. CASE UNCHANGED <<egVars, collVars, egClosed>>
  BY <1>1 DEF TrackerInv, egVars, collVars
<1>2. ASSUME NEW w \in Workers, SendResult(w) PROVE TrackerInv'
  <2>1. /\ cpc = "recv" /\ Collect(pw[w]) /\ pw[w] \in Pieces
        /\ UNCHANGED <<egVars, egClosed>>
    BY <1>2 DEF SendResult, chanVars, CoreInv, WorkerType, Holding
  <2>2. CASE pw[w] \in completed
    BY <2>1, <2>2 DEF Collect, TrackerInv, egVars
  <2>3. CASE pw[w] \notin completed
    BY <2>1, <2>3 DEF Collect, TrackerInv, egVars
  <2> QED  BY <2>2, <2>3
<1>3. CASE Collector
  <2>1. CASE CollectComplete
    <3>1. /\ cpc = "complete" /\ cpc' = "write"
          /\ UNCHANGED <<egClosed, egActive, cur, completed>>
          /\ cur \in completed
      BY <2>1 DEF CollectComplete, chanVars, CollectorInv
    <3>2. CASE egActive
      BY <2>1, <3>1, <3>2 DEF CollectComplete, Complete, TrackerInv
    <3>3. CASE ~egActive
      BY <2>1, <3>1, <3>3 DEF CollectComplete, TrackerInv
    <3> QED  BY <3>2, <3>3
  <2>2. CASE WritePiece \/ WriteFail \/ KeepCollecting \/ ResultsEnd
    BY <2>2
    DEF WritePiece, WriteFail, KeepCollecting, ResultsEnd, TrackerInv, chanVars,
        egVars
  <2>3. CASE FinishAll
    BY <2>3 DEF FinishAll, TrackerInv, egVars
  <2>4. CASE EnterEndgame
    <3>1. /\ cpc = "check" /\ cpc' = "drain" /\ ~egActive /\ egActive'
          /\ egPieces' = egPieces \cup ((Pieces \ completed) \ egCompleted)
          /\ UNCHANGED <<egClosed, egCompleted, completed>>
      BY <2>4 DEF EnterEndgame, FewRemain, chanVars
    <3>2. egPieces = {}
      BY <3>1 DEF TrackerInv
    <3>3. (Pieces \ completed) \ egCompleted = Pieces \ completed
      BY DEF TrackerInv
    <3> QED  BY <3>1, <3>2, <3>3 DEF TrackerInv
  <2>5. CASE DrainOne
    BY <1>1, <2>5 DEF DrainOne, chanVars
  <2>6. CASE DrainEnd
    BY <2>6 DEF DrainEnd, TrackerInv, egVars
  <2> QED
    BY <1>3, <2>1, <2>2, <2>3, <2>4, <2>5, <2>6 DEF Collector
<1>4. ASSUME NEW w \in Workers,
             Session(w) \/ Messages(w) \/ Queue(w) \/ SendPanic(w)
               \/ ExitWorker(w) \/ StartWorker(w)
      PROVE  UNCHANGED <<egVars, collVars, egClosed>>
  BY <1>4
  DEF Session, Messages, Queue, SendPanic, ExitWorker, StartWorker, chanVars
<1>5. Closer \/ Finder \/ Terminating \/ UNCHANGED vars
        => UNCHANGED <<egVars, collVars, egClosed>>
  BY DEF Closer, Finder, Terminating, vars, chanVars
<1> QED
  BY <1>1, <1>2, <1>3, <1>4, <1>5 DEF Next, WorkerStep

\* The tracker starts inactive and empty.
LEMMA TrackerInit == Init => TrackerInv
BY DEF Init, TrackerInv

\* Once endgame workers can see the tracker, it offers exactly the pieces
\* that are still missing.
THEOREM EndgameExactHolds == Spec => []EndgameExact
<1>1. TrackerInv => EndgameExact
  BY DEF TrackerInv, EndgameExact
<1>2. Init => TypeInv
  BY TypeInit DEF TypeInv
<1> QED
  BY <1>1, <1>2, TypeStep, CollectorInit, CollectorStep, TrackerInit,
     TrackerStep, PTL
  DEF Spec

-----------------------------------------------------------------------------
(* Where the pieces are                                                    *)

\* Receiving from a channel without repetitions.
LEMMA TailQueue ==
    ASSUME NEW s \in Seq(Pieces), s # <<>>
    PROVE  /\ Head(s) \in Pieces /\ Tail(s) \in Seq(Pieces)
           /\ NoRepeat(s) => NoRepeat(Tail(s)) /\ ~InQueue(Tail(s), Head(s))
           /\ \A p : InQueue(s, p) <=> p = Head(s) \/ InQueue(Tail(s), p)
<1> DEFINE t == Tail(s)
<1>1. /\ Head(s) \in Pieces /\ t \in Seq(Pieces) /\ Len(s) \in Nat \ {0}
      /\ Len(t) = Len(s) - 1 /\ Head(s) = s[1]
      /\ \A i \in 1 .. Len(t) : t[i] = s[i + 1]
  OBVIOUS
<1> HIDE DEF t
<1>2. NoRepeat(s) => NoRepeat(t) /\ ~InQueue(t, Head(s))
  <2> SUFFICES ASSUME NoRepeat(s) PROVE NoRepeat(t) /\ ~InQueue(t, Head(s))
    OBVIOUS
  <2>1. NoRepeat(t)
    <3> SUFFICES ASSUME NEW i \in 1 .. Len(t), NEW j \in 1 .. Len(t), t[i] = t[j]
                 PROVE  i = j
      BY DEF NoRepeat
    <3>1. i + 1 \in 1 .. Len(s) /\ j + 1 \in 1 .. Len(s) /\ s[i + 1] = s[j + 1]
      BY <1>1
    <3>2. i + 1 = j + 1
      BY <3>1 DEF NoRepeat
    <3> QED  BY <3>2
  <2>2. ~InQueue(t, Head(s))
    <3> SUFFICES ASSUME NEW i \in 1 .. Len(t), t[i] = Head(s) PROVE FALSE
      BY DEF InQueue
    <3>1. i + 1 \in 1 .. Len(s) /\ 1 \in 1 .. Len(s) /\ s[i + 1] = s[1]
      BY <1>1
    <3>2. i + 1 = 1
      BY <3>1 DEF NoRepeat
    <3> QED  BY <3>2
  <2> QED  BY <2>1, <2>2
<1>3. ASSUME NEW p PROVE InQueue(s, p) <=> p = Head(s) \/ InQueue(t, p)
  <2>1. ASSUME NEW i \in 1 .. Len(s), s[i] = p PROVE p = Head(s) \/ InQueue(t, p)
    <3>1. CASE i = 1
      BY <1>1, <2>1, <3>1
    <3>2. CASE i # 1
      <4>1. i - 1 \in 1 .. Len(t) /\ t[i - 1] = s[(i - 1) + 1] /\ (i - 1) + 1 = i
        BY <1>1, <3>2
      <4> QED  BY <2>1, <4>1 DEF InQueue
    <3> QED  BY <3>1, <3>2
  <2>2. ASSUME NEW i \in 1 .. Len(t), t[i] = p PROVE InQueue(s, p)
    <3>1. i + 1 \in 1 .. Len(s) /\ s[i + 1] = p
      BY <1>1, <2>2
    <3> QED  BY <3>1 DEF InQueue
  <2>3. ASSUME p = Head(s) PROVE InQueue(s, p)
    <3>1. 1 \in 1 .. Len(s) /\ s[1] = p
      BY <1>1, <2>3
    <3> QED  BY <3>1 DEF InQueue
  <2> QED  BY <2>1, <2>2, <2>3 DEF InQueue
<1> QED  BY <1>1, <1>2, <1>3 DEF t

\* Sending a piece that is not in the channel.
LEMMA AppendQueue ==
    ASSUME NEW s \in Seq(Pieces), NEW q \in Pieces
    PROVE  /\ NoRepeat(s) /\ ~InQueue(s, q) => NoRepeat(Append(s, q))
           /\ \A p : InQueue(Append(s, q), p) <=> p = q \/ InQueue(s, p)
<1> DEFINE t == Append(s, q)
<1>1. /\ Len(s) \in Nat /\ Len(t) = Len(s) + 1 /\ t[Len(s) + 1] = q
      /\ \A i \in 1 .. Len(s) : t[i] = s[i]
  OBVIOUS
<1>2. \A i \in 1 .. Len(t) : i \in 1 .. Len(s) \/ i = Len(s) + 1
  BY <1>1
<1>3. \A i \in 1 .. Len(s) : i \in 1 .. Len(t)
  BY <1>1
<1>4. Len(s) + 1 \in 1 .. Len(t)
  BY <1>1
<1> HIDE DEF t
<1>5. NoRepeat(s) /\ ~InQueue(s, q) => NoRepeat(t)
  BY <1>1, <1>2 DEF NoRepeat, InQueue
<1>6. \A p : InQueue(t, p) <=> p = q \/ InQueue(s, p)
  BY <1>1, <1>2, <1>3, <1>4 DEF InQueue
<1> QED  BY <1>5, <1>6 DEF t

\* A worker's mode follows egCh, and its program point the mode.
LEMMA ModeStep == TypeInv /\ ModeInv /\ [Next]_vars => ModeInv'
<1> SUFFICES ASSUME CoreInv, ModeInv, [Next]_vars PROVE ModeInv'
  BY DEF TypeInv
<1> USE DEF CoreInv
<1>1. CASE UNCHANGED <<pc, inEndgame>> /\ (egClosed => egClosed')
  BY <1>1 DEF ModeInv
<1>2. ASSUME NEW w \in Workers, UNCHANGED egClosed,
             \/ NextTurn(w) \/ EndSession(w)
             \/ \E l \in PCs \ {"pick", "select", "check"} :
                   Goto(w, l) /\ UNCHANGED inEndgame
      PROVE  ModeInv'
  BY <1>2 DEF NextTurn, EndSession, Goto, ModeInv, WorkerType
<1>3. ASSUME NEW w \in Workers, Session(w) PROVE ModeInv'
  <2>1. UNCHANGED egClosed
    BY <1>3 DEF Session, chanVars
  <2>2. CASE CheckMode(w)
    BY <2>1, <2>2 DEF CheckMode, Goto, ModeInv, WorkerType
  <2>3. CASE ConnFail(w) \/ StopSession(w) \/ PickNothing(w)
             \/ SelectEndgame(w) \/ Unchoked(w)
    BY <1>2, <2>1, <2>3
    DEF ConnFail, StopSession, PickNothing, SelectEndgame, Unchoked
  <2>4. CASE StartAttempt(w) \/ DialOK(w) \/ RecvUnchoke(w) \/ LoopTop(w)
             \/ AcceptPiece(w) \/ DownloadOK(w)
    BY <1>2, <2>1, <2>4
    DEF StartAttempt, DialOK, RecvUnchoke, LoopTop, AcceptPiece, DownloadOK,
        Advance, PCs, InSession
  <2>5. ASSUME NEW p \in Pieces, PickPiece(w, p) PROVE ModeInv'
    BY <1>2, <2>1, <2>5 DEF PickPiece, PCs, InSession
  <2> QED  BY <1>3, <2>2, <2>3, <2>4, <2>5 DEF Session
<1>4. ASSUME NEW w \in Workers, Queue(w) PROVE ModeInv'
  <2>1. UNCHANGED egClosed
    BY <1>4 DEF Queue, chanVars
  <2>2. CASE SelectWork(w)
    BY <2>1, <2>2 DEF SelectWork, Goto, ModeInv, WorkerType
  <2>3. CASE MissPiece(w) \/ DownloadErr(w)
    BY <1>2, <2>1, <2>3 DEF MissPiece, DownloadErr
  <2>4. CASE DownloadChoked(w)
    BY <2>1, <2>4 DEF DownloadChoked, Goto, ModeInv, WorkerType
  <2> QED  BY <1>4, <2>2, <2>3, <2>4 DEF Queue
<1>5. ASSUME NEW w \in Workers, SendResult(w) PROVE ModeInv'
  BY <1>2, <1>5 DEF SendResult, chanVars
<1>6. ASSUME NEW w \in Workers, ExitWorker(w) \/ StartWorker(w) PROVE ModeInv'
  BY <1>2, <1>6 DEF ExitWorker, FreeSlot, WgDone, StartWorker, TakeSlot, WgAdd, Goto,
      chanVars, PCs
<1>7. ASSUME NEW w \in Workers, Messages(w) \/ SendPanic(w) PROVE ModeInv'
  BY <1>1, <1>7
  DEF Messages, RecvBitfield, RecvHave, SendPanic, workerVars, chanVars
<1>8. CASE Collector
  <2>1. egClosed => egClosed'
    BY <1>8
    DEF Collector, CollectComplete, WritePiece, WriteFail, FinishAll,
        EnterEndgame, KeepCollecting, DrainOne, DrainEnd, ResultsEnd, chanVars
  <2> QED  BY <1>1, <1>8, <2>1 DEF Collector, workerVars
<1>9. CASE Closer \/ Finder \/ Terminating \/ UNCHANGED vars
  BY <1>1, <1>9 DEF Closer, Finder, Terminating, vars, workerVars, chanVars
<1> QED
  BY <1>3, <1>4, <1>5, <1>6, <1>7, <1>8, <1>9 DEF Next, WorkerStep

\* The normal-mode owners of pieces, and the pieces they own, are the same
\* after a step.
SameHolders ==
    \A w \in Workers : /\ w \in NormalHolders' <=> w \in NormalHolders
                       /\ w \in NormalHolders => pw'[w] = pw[w]

\* Only the work queue and the hand-over of a result move a piece.
LEMMA HoldersKept ==
    ASSUME TypeInv, ModeInv,
           \/ \E w \in Workers : Session(w) \/ Messages(w) \/ SendPanic(w)
                                 \/ ExitWorker(w) \/ StartWorker(w)
           \/ Collector \/ Closer \/ Finder \/ UNCHANGED vars
    PROVE  SameHolders
<1> USE DEF TypeInv, CoreInv, NormalHolders, Holding
<1>1. CASE UNCHANGED <<pc, pw, inEndgame>>
  BY <1>1 DEF SameHolders
<1>2. ASSUME NEW w \in Workers,
             pc[w] \notin Holding, NextTurn(w) \/ EndSession(w)
      PROVE  SameHolders
  BY <1>2 DEF NextTurn, EndSession, Goto, SameHolders, WorkerType
<1>3. ASSUME NEW w \in Workers, NEW l \in PCs, Goto(w, l),
             UNCHANGED <<pw, inEndgame>>, pc[w] \in Holding <=> l \in Holding
      PROVE  SameHolders
  BY <1>3 DEF Goto, SameHolders, WorkerType
<1>4. ASSUME NEW w \in Workers, Session(w) PROVE SameHolders
  <2>1. CASE CheckMode(w)
    BY <2>1 DEF CheckMode, Goto, SameHolders, WorkerType
  <2>2. CASE ConnFail(w) \/ StopSession(w) \/ PickNothing(w)
             \/ SelectEndgame(w) \/ Unchoked(w)
    BY <1>2, <2>2
    DEF ConnFail, StopSession, StopPoints, PickNothing, SelectEndgame, Unchoked
  <2>3. CASE StartAttempt(w) \/ DialOK(w) \/ RecvUnchoke(w) \/ LoopTop(w)
             \/ AcceptPiece(w) \/ DownloadOK(w)
    BY <1>3, <2>3
    DEF StartAttempt, DialOK, RecvUnchoke, LoopTop, AcceptPiece, DownloadOK,
        Advance, PCs, InSession
  <2>4. ASSUME NEW p \in Pieces, PickPiece(w, p) PROVE SameHolders
    <3>1. inEndgame[w] /\ pc[w] = "pick"
      BY <2>4 DEF PickPiece, ModeInv
    <3> QED  BY <2>4, <3>1 DEF PickPiece, Goto, SameHolders, WorkerType
  <2> QED  BY <1>4, <2>1, <2>2, <2>3, <2>4 DEF Session
<1>5. ASSUME NEW w \in Workers, ExitWorker(w) \/ StartWorker(w)
      PROVE  SameHolders
  BY <1>3, <1>5 DEF ExitWorker, FreeSlot, WgDone, StartWorker, TakeSlot, WgAdd, PCs
<1>6. ASSUME NEW w \in Workers, Messages(w) \/ SendPanic(w) PROVE SameHolders
  BY <1>1, <1>6 DEF Messages, RecvBitfield, RecvHave, SendPanic, workerVars
<1>7. CASE Collector \/ Closer \/ Finder \/ UNCHANGED vars
  BY <1>1, <1>7 DEF Collector, Closer, Finder, vars, workerVars
<1> QED  BY <1>4, <1>5, <1>6, <1>7

\* A step of a worker on the queue, or of its hand-over: it takes the head
\* of the queue, gives its piece back, or gives it up.
LEMMA QueueMoves ==
    ASSUME TypeInv, ModeInv, NEW w \in Workers, Queue(w) \/ SendResult(w)
    PROVE  /\ \A v \in Workers \ {w} :
                 /\ v \in NormalHolders' <=> v \in NormalHolders
                 /\ v \in NormalHolders => pw'[v] = pw[v]
           /\ \/ /\ workCh # <<>> /\ workCh' = Tail(workCh)
                 /\ w \notin NormalHolders
                 /\ w \in NormalHolders' /\ pw'[w] = Head(workCh)
              \/ /\ w \in NormalHolders /\ w \notin NormalHolders'
                 /\ workCh' = Append(workCh, pw[w])
                 /\ UNCHANGED completed
              \/ /\ w \notin NormalHolders' /\ UNCHANGED workCh
                 /\ w \in NormalHolders => SendResult(w)
<1> USE DEF TypeInv, CoreInv, NormalHolders, Holding
<1>1. CASE SelectWork(w)
  BY <1>1 DEF SelectWork, Goto, WorkerType, ModeInv
<1>2. CASE MissPiece(w) /\ Queue(w)
  <2>1. pc[w] = "check" /\ ~inEndgame[w]
    BY <1>2 DEF MissPiece, ModeInv
  <2> QED
    BY <1>2, <2>1
    DEF MissPiece, Missed, Enqueue, EndSession, NextTurn, Goto, WorkerType, Queue,
        collVars
<1>3. CASE DownloadErr(w) /\ Queue(w)
  BY <1>3
  DEF DownloadErr, Requeue, Enqueue, EndSession, Goto, WorkerType, Queue, collVars
<1>4. CASE DownloadChoked(w) /\ Queue(w)
  BY <1>4
  DEF DownloadChoked, Requeue, Enqueue, Goto, WorkerType, Queue, collVars
<1>5. CASE SendResult(w)
  BY <1>5 DEF SendResult, NextTurn, Goto, WorkerType
<1> QED  BY <1>1, <1>2, <1>3, <1>4, <1>5 DEF Queue

\* downloadPieces fills the queue with each piece once.
LEMMA UniqueInit == Init => UniqueInv /\ ModeInv
<1> SUFFICES ASSUME Init PROVE UniqueInv /\ ModeInv
  OBVIOUS
<1>1. \A w \in Workers : w \notin NormalHolders
  BY DEF Init, NormalHolders, Holding
<1>2. NoRepeat(workCh)
  BY DownloadAssumption DEF Init, NoRepeat
<1> QED  BY <1>1, <1>2 DEF UniqueInv, ModeInv, Init

\* UniqueInv is inductive: a piece is put back only by the worker that took
\* it.
LEMMA UniqueStep == TypeInv /\ ModeInv /\ UniqueInv /\ [Next]_vars => UniqueInv'
<1> SUFFICES ASSUME TypeInv, ModeInv, UniqueInv, [Next]_vars PROVE UniqueInv'
  OBVIOUS
<1>0. workCh \in Seq(Pieces)
  BY DEF TypeInv, CoreInv, ChannelType
<1>1. CASE SameHolders /\ UNCHANGED workCh
  BY <1>1 DEF SameHolders, UniqueInv, Queued
<1>2. CASE SameHolders /\ workCh # <<>> /\ workCh' = Tail(workCh)
  <2>1. NoRepeat(workCh') /\ \A p : InQueue(workCh', p) => InQueue(workCh, p)
    BY <1>0, <1>2, TailQueue DEF UniqueInv
  <2> QED  BY <1>2, <2>1 DEF SameHolders, UniqueInv, Queued
<1>3. ASSUME NEW w \in Workers, Queue(w) \/ SendResult(w) PROVE UniqueInv'
  <2>1. \A v \in Workers \ {w} :
            /\ v \in NormalHolders' <=> v \in NormalHolders
            /\ v \in NormalHolders => pw'[v] = pw[v]
    BY <1>3, QueueMoves
  <2>2. CASE /\ workCh # <<>> /\ workCh' = Tail(workCh)
             /\ w \in NormalHolders' /\ pw'[w] = Head(workCh)
    <3>1. NoRepeat(workCh') /\ ~InQueue(workCh', pw'[w])
      BY <1>0, <2>2, TailQueue DEF UniqueInv
    <3>2. \A v \in Workers \ {w} : v \in NormalHolders =>
             pw[v] # pw'[w] /\ ~InQueue(workCh', pw[v])
      BY <1>0, <2>2, TailQueue DEF UniqueInv, Queued
    <3>3. \A v \in Workers : v \in NormalHolders' => ~InQueue(workCh', pw'[v])
      BY <2>1, <3>1, <3>2
    <3>4. ASSUME NEW u \in Workers, NEW v \in Workers, u \in NormalHolders',
                 v \in NormalHolders', pw'[u] = pw'[v]
          PROVE  u = v
      BY <2>1, <3>2, <3>4 DEF UniqueInv
    <3> QED  BY <3>1, <3>3, <3>4 DEF UniqueInv, Queued
  <2>3. CASE /\ w \in NormalHolders /\ w \notin NormalHolders'
             /\ workCh' = Append(workCh, pw[w])
    <3>1. pw[w] \in Pieces
      BY <2>3 DEF NormalHolders, TypeInv, CoreInv, WorkerType
    <3>2. ~InQueue(workCh, pw[w]) /\ NoRepeat(workCh)
      BY <2>3 DEF UniqueInv, Queued
    <3>3. /\ NoRepeat(workCh')
          /\ \A p : InQueue(workCh', p) <=> p = pw[w] \/ InQueue(workCh, p)
      BY <1>0, <2>3, <3>1, <3>2, AppendQueue
    <3>4. \A v \in Workers \ {w} : v \in NormalHolders =>
             pw[v] # pw[w] /\ ~InQueue(workCh', pw[v])
      BY <2>3, <3>3 DEF UniqueInv, Queued
    <3>5. \A v \in Workers : v \in NormalHolders' => ~InQueue(workCh', pw'[v])
      BY <2>1, <2>3, <3>4
    <3>6. ASSUME NEW u \in Workers, NEW v \in Workers, u \in NormalHolders',
                 v \in NormalHolders', pw'[u] = pw'[v]
          PROVE  u = v
      BY <2>1, <2>3, <3>6 DEF UniqueInv
    <3> QED  BY <3>3, <3>5, <3>6 DEF UniqueInv, Queued
  <2>4. CASE w \notin NormalHolders' /\ UNCHANGED workCh
    <3>1. \A v \in Workers : v \in NormalHolders' => ~InQueue(workCh', pw'[v])
      BY <2>1, <2>4 DEF UniqueInv, Queued
    <3>2. ASSUME NEW u \in Workers, NEW v \in Workers, u \in NormalHolders',
                 v \in NormalHolders', pw'[u] = pw'[v]
          PROVE  u = v
      BY <2>1, <2>4, <3>2 DEF UniqueInv
    <3> QED  BY <2>4, <3>1, <3>2 DEF UniqueInv, Queued
  <2> QED  BY <1>3, <2>2, <2>3, <2>4, QueueMoves
<1>4. CASE Collector
  <2>1. UNCHANGED workCh \/ DrainOne
    BY <1>4
    DEF Collector, CollectComplete, WritePiece, WriteFail, FinishAll,
        EnterEndgame, KeepCollecting, DrainEnd, ResultsEnd
  <2> QED  BY <1>1, <1>2, <1>4, <2>1, HoldersKept DEF DrainOne
<1>5. ASSUME NEW w \in Workers,
             Session(w) \/ Messages(w) \/ SendPanic(w) \/ ExitWorker(w)
               \/ StartWorker(w)
      PROVE  UniqueInv'
  <2>1. UNCHANGED workCh
    BY <1>5 DEF Session, Messages, SendPanic, ExitWorker, StartWorker
  <2> QED  BY <1>1, <1>5, <2>1, HoldersKept
<1>6. CASE Closer \/ Finder \/ UNCHANGED vars
  BY <1>1, <1>6, HoldersKept DEF Closer, Finder, vars
<1> QED
  BY <1>3, <1>4, <1>5, <1>6 DEF Next, WorkerStep, Terminating

\* A channel without repetitions that lacks a piece is not full.
LEMMA RoomLeft ==
    ASSUME NEW s \in Seq(Pieces), NoRepeat(s), NEW p \in Pieces, ~InQueue(s, p)
    PROVE  Len(s) < NumPieces
<1>1. /\ Len(s) \in Nat /\ s \in [1 .. Len(s) -> Pieces]
      /\ \A i \in 1 .. Len(s) : s[i] \in Pieces
  OBVIOUS
<1>2. IsFiniteSet(Pieces) /\ Cardinality(Pieces) = NumPieces
  <2>1. 0 \in Int /\ NumPieces - 1 \in Int
    BY DownloadAssumption
  <2> QED  BY <2>1, FS_Interval, DownloadAssumption DEF Pieces
<1>3. Cardinality(1 .. Len(s)) = Len(s)
  <2>1. ASSUME NEW n \in Nat PROVE Cardinality(1 .. n) = n
    BY FS_Interval
  <2> QED  BY <1>1, <2>1
<1>4. s \in Injection(1 .. Len(s), Pieces)
  BY <1>1, Fun_IsInj DEF NoRepeat
<1>5. s \notin Surjection(1 .. Len(s), Pieces)
  BY Fun_SurjectionProperties DEF InQueue
<1>6. /\ Cardinality(1 .. Len(s)) <= Cardinality(Pieces)
      /\ Cardinality(1 .. Len(s)) # Cardinality(Pieces)
  BY <1>2, <1>4, <1>5, FS_Injection
<1> QED  BY <1>1, <1>2, <1>3, <1>6, DownloadAssumption

\* A worker that puts a piece back into workCh is never blocked by a full
\* channel.
THEOREM RequeueNeverBlocksHolds == Spec => []RequeueNeverBlocks
<1>1. TypeInv /\ UniqueInv => RequeueNeverBlocks
  <2> SUFFICES ASSUME TypeInv, UniqueInv, NEW w \in Workers, w \in NormalHolders
               PROVE  Len(workCh) < NumPieces
    BY DEF RequeueNeverBlocks, NormalHolders
  <2>1. workCh \in Seq(Pieces) /\ pw[w] \in Pieces
    BY DEF TypeInv, CoreInv, ChannelType, WorkerType, NormalHolders
  <2>2. NoRepeat(workCh) /\ ~InQueue(workCh, pw[w])
    BY DEF UniqueInv, Queued
  <2> QED  BY <2>1, <2>2, RoomLeft
<1>2. Init => TypeInv
  BY TypeInit DEF TypeInv
<1> QED
  BY <1>1, <1>2, TypeStep, UniqueInit, ModeStep, UniqueStep, PTL DEF Spec

\* Every piece starts in the queue.
LEMMA SupplyInit == Init => SupplyInv
<1> SUFFICES ASSUME Init, NEW p \in Pieces PROVE Queued(p)
  BY DEF SupplyInv
<1>1. p + 1 \in 1 .. NumPieces /\ (p + 1) - 1 = p
  BY DownloadAssumption DEF Pieces
<1>2. workCh = [i \in 1 .. NumPieces |-> i - 1]
  BY DEF Init
<1>3. Len(workCh) = NumPieces
  BY <1>2, DownloadAssumption
<1>4. workCh[p + 1] = p
  BY <1>1, <1>2
<1> QED  BY <1>1, <1>3, <1>4 DEF Queued, InQueue

\* SupplyInv is inductive: until endgame starts a piece leaves the queue only
\* into the hands of a worker, and a worker only into the queue or to the
\* collector.
LEMMA SupplyStep ==
    TypeInv /\ ModeInv /\ TrackerInv /\ SupplyInv /\ [Next]_vars => SupplyInv'
<1> SUFFICES ASSUME TypeInv, ModeInv, TrackerInv, SupplyInv, [Next]_vars,
                    ~egActive', NEW p \in Pieces \ completed'
             PROVE  Queued(p)' \/ \E w \in Workers : Holds(w, p)'
  BY DEF SupplyInv
<1>0. workCh \in Seq(Pieces)
  BY DEF TypeInv, CoreInv, ChannelType
<1>1. ~egActive /\ completed \subseteq completed'
  <2>1. ASSUME NEW w \in Workers,
               Session(w) \/ Messages(w) \/ Queue(w) \/ SendPanic(w)
                 \/ ExitWorker(w) \/ StartWorker(w)
        PROVE  ~egActive /\ completed \subseteq completed'
    <3>1. UNCHANGED <<egActive, completed>>
      BY <2>1
      DEF Session, Messages, Queue, SendPanic, ExitWorker, StartWorker, egVars,
          collVars
    <3> QED  BY <3>1
  <2>4. ASSUME NEW w \in Workers, SendResult(w)
        PROVE  ~egActive /\ completed \subseteq completed'
    BY <2>4 DEF SendResult, Collect, egVars
  <2>2. CASE Collector
    BY <2>2
    DEF Collector, CollectComplete, WritePiece, WriteFail, FinishAll,
        EnterEndgame, KeepCollecting, DrainOne, DrainEnd, ResultsEnd, egVars,
        collVars
  <2>3. CASE Closer \/ Finder \/ Terminating \/ UNCHANGED vars
    BY <2>3 DEF Closer, Finder, Terminating, vars, egVars, collVars
  <2> QED  BY <2>1, <2>2, <2>3, <2>4 DEF Next, WorkerStep
<1>2. Queued(p) \/ \E w \in Workers : Holds(w, p)
  BY <1>1 DEF SupplyInv
<1>3. \A w \in Workers : /\ Holds(w, p) <=> w \in NormalHolders /\ pw[w] = p
                         /\ Holds(w, p)' <=> w \in NormalHolders' /\ pw'[w] = p
  BY DEF Holds, NormalHolders
<1>4. CASE SameHolders /\ UNCHANGED workCh
  BY <1>2, <1>3, <1>4 DEF SameHolders, Queued
<1>5. ASSUME NEW w \in Workers, Queue(w) \/ SendResult(w)
      PROVE  Queued(p)' \/ \E v \in Workers : Holds(v, p)'
  <2>1. \A v \in Workers \ {w} : Holds(v, p) => Holds(v, p)'
    BY <1>3, <1>5, QueueMoves
  <2>2. CASE /\ workCh # <<>> /\ workCh' = Tail(workCh) /\ w \notin NormalHolders
             /\ w \in NormalHolders' /\ pw'[w] = Head(workCh)
    <3>1. InQueue(workCh, p) <=> p = Head(workCh) \/ InQueue(workCh', p)
      BY <1>0, <2>2, TailQueue
    <3> QED  BY <1>2, <1>3, <2>1, <2>2, <3>1 DEF Queued
  <2>3. CASE w \in NormalHolders /\ workCh' = Append(workCh, pw[w])
    <3>1. pw[w] \in Pieces
      BY <2>3 DEF NormalHolders, TypeInv, CoreInv, WorkerType
    <3>2. InQueue(workCh', p) <=> p = pw[w] \/ InQueue(workCh, p)
      BY <1>0, <2>3, <3>1, AppendQueue
    <3> QED  BY <1>2, <1>3, <2>1, <3>2 DEF Queued
  <2>4. CASE UNCHANGED workCh /\ (w \in NormalHolders => SendResult(w))
    <3>1. Holds(w, p) => FALSE
      BY <1>3, <2>4 DEF SendResult, Collect
    <3> QED  BY <1>2, <2>1, <2>4, <3>1 DEF Queued
  <2> QED  BY <1>5, <2>2, <2>3, <2>4, QueueMoves
<1>6. CASE Collector
  <2>1. ~DrainOne
    BY <1>1 DEF DrainOne, TrackerInv
  <2>2. UNCHANGED workCh
    BY <1>6, <2>1
    DEF Collector, CollectComplete, WritePiece, WriteFail, FinishAll,
        EnterEndgame, KeepCollecting, DrainEnd, ResultsEnd
  <2> QED  BY <1>4, <1>6, <2>2, HoldersKept
<1>7. ASSUME NEW w \in Workers,
             Session(w) \/ Messages(w) \/ SendPanic(w) \/ ExitWorker(w)
               \/ StartWorker(w)
      PROVE  Queued(p)' \/ \E v \in Workers : Holds(v, p)'
  <2>1. UNCHANGED workCh
    BY <1>7 DEF Session, Messages, SendPanic, ExitWorker, StartWorker
  <2> QED  BY <1>4, <1>7, <2>1, HoldersKept
<1>8. CASE Closer \/ Finder \/ UNCHANGED vars
  BY <1>4, <1>8, HoldersKept DEF Closer, Finder, vars
<1> QED
  BY <1>5, <1>6, <1>7, <1>8 DEF Next, WorkerStep, Terminating

\* No piece that is still needed is ever lost by a failure, a choke, a
\* missing bit or the switch to endgame mode.
THEOREM NoLostPieceHolds == Spec => []NoLostPiece
<1>1. TrackerInv /\ SupplyInv => NoLostPiece
  BY DEF TrackerInv, SupplyInv, NoLostPiece
<1>2. Init => TypeInv
  BY TypeInit DEF TypeInv
<1> QED
  BY <1>1, <1>2, TypeStep, CollectorInit, CollectorStep, TrackerInit,
     TrackerStep, UniqueInit, ModeStep, SupplyInit, SupplyStep, PTL
  DEF Spec
=============================================================================
