# A TLA+ verification of amish

amish is a BitTorrent client in Go. It runs in two phases: find peers and fetch
the torrent's metadata from them, then download the pieces from all peers
concurrently and write them to files. The modules here model the client from the
magnet link to the exit status: where goroutines, channels, unreliable peers and
trackers and index arithmetic meet, and the formats that are read from the outside.
TLC checks them on small instances. Of every part the TLA+ proof system proves the safety
properties for every number of pieces, peers, nodes, files and messages, all but one: that the
bencode decoder reads what was encoded is checked by TLC only.

Run one check with `tlc -workers 2 -config X.cfg M`, the proofs about a module `M` with
`tlapm MProofs.tla`; those about `MetadataRead` and `Wire` are in `PeerProofs`, those about
`Tracker` in `DiscoveryProofs`, those about `Magnet` in `ClientProofs`.

## 1. The system

| Part | Source | State | Operations | Talks to |
|---|---|---|---|---|
| collector, worker pool, re-announcement | `torrent/torrent.go` | `workCh`, `resultCh`, `doneCh`, `egCh`, `completed`, `done`, `activeWorkers`, `wg`, `newPeerCh` | `downloadPieces`, `startWorker`, `transitionToEndgame`, `reannounceLoop` | workers by channels, tracker of endgame pieces by a mutex, writer by calls |
| peer worker and session | `torrent/peer_session.go` | reconnect counter, bitfield, misses, the piece in hand | `peerWorker`, `runPeerSession`, `waitForUnchoke` | collector, peers over TCP, `DownloadPiece` |
| endgame tracker | `torrent/endgame.go` | `pieces`, `completed`, `offset`, `active` | `AddPiece`, `PickPiece`, `Complete`, `Activate` | called by workers and collector under one mutex |
| piece transfer, buffer pool | `torrent/piece.go` | `downloaded`, `requested`, `backlog`, a pooled buffer | `DownloadPiece`, `VerifyPiece` | a peer; the buffer travels to the collector |
| file writer | `torrent/writer.go` | open handles by path | `NewWriter`, `WritePiece`, `openFile`, `Close` | called by the collector only |
| peer discovery, metadata fetch | `torrent/torrent.go`, `torrent/metadata.go` | peer list, semaphore, result channel, `ctx` | `discoverPeers`, `DiscoverAndFetchMetadata`, `fetchMetadata`, `dedupPeers` | trackers, DHT, one goroutine per peer |
| metadata exchange | `torrent/metadata.go`, `peer/conn.go` | buffer, `received`, `got` | `readMetadataFromPeer`, `HandleExtensionHandshake`, `RequestMetadataPiece` | one peer |
| DHT client | `dht/dht.go` | node table, peer table, transaction table, socket | `Listen`, `Bootstrap`, `GetPeers`, `query`, `recvLoop`, `handle`, `Close` | nodes over UDP |
| tracker client | `tracker/tracker.go` | a UDP socket and the connection id during a call | `Announce` over HTTP and UDP, the formats of peer lists | trackers; one goroutine of `discoverPeers` each |
| peer wire protocol | `peer/conn.go`, `peer/message.go` | the connection, a bitfield | `Dial`, handshake, read, write and parse of messages | one peer |
| bencode | `bencode/bencode.go` | a reader | `Encode`, `DecodeBytes` | tracker, DHT, metadata |
| metainfo | `metainfo/metainfo.go` | `Info` | `ParseUnverified`, `TotalLength`, `PieceSize` | metadata fetch, writer, download |
| magnet, netaddr | `magnet/magnet.go`, `netaddr/peer.go` | none | `Parse`, `decodeBase32`; `Addr` | `main`; trackers and DHT |
| display | `display/display.go` | a ticker, `done` | `Start`, `Stop`, `render` | loads `Stats` from its own goroutine |
| stats | `torrent/torrent.go` | six counters | reset by `Download`, counted by the collector and the workers | the display |
| main | `main.go` | none | `run`: the phases in order, the exit status | all |

What is hard here:

* A piece is at any time in the work queue, in the hands of a worker, in the
  endgame tracker or with the collector. Failures, chokes, missing bits and the
  drain of the queue at the start of endgame all move it. It must not get lost, and
  in normal mode it must not be in two places, because the queue has room for each
  piece once and putting a piece back is a blocking send.
* In endgame several workers fetch the same piece. The collector must write it once
  and workers must stop being sent to it.
* Workers are started late, for peers that a re-announcement returned, by a goroutine
  that races with the one that waits for all workers and closes the results channel.
* Peers may choke, fail, repeat or delay anything at any time.
* Buffers are pooled and one is read by the collector after the worker went on.
* Pieces and files have unrelated boundaries, and the last of each is short.
* In the DHT a response may come after its query has timed out, and other nodes ask
  while the tables grow. A UDP tracker's datagrams may be lost, repeated, or left from an
  earlier exchange.
* A peer's stream may end at any byte, and metadata follows its bencoded header without a
  length of its own.
* The display loads the counters while `Download` replaces them and counts in them.

The list `hazards` in `PROJECT.json` has each of these at its line with the
properties that would catch it.

## 2. The modules

| Module | Models | Used by |
|---|---|---|
| `Download` | collector, workers, worker pool, re-announcement | `MCDownload`, the proof modules |
| `DownloadSpec` | what `downloadPieces` promises: disk and returned error | refined by `Download` |
| `DownloadProofs`, `EndgameTrackerProofs`, `PieceTransferProofs`, `WriterProofs`, `DHTProofs` | theorems about the module of that name | |
| `PeerProofs` | theorems about `MetadataRead` and `Wire` | |
| `ClientProofs` | theorems about `Client` and the parsing of `Magnet` in it | |
| `DiscoveryProofs` | theorems about `Discovery` and the announcements of `Tracker` in it | |
| `EndgameTracker` | the list, the offset and the swap removal | `MCEndgameTracker` |
| `TrackerSpec` | a set of offered pieces, the view `Download` has of the tracker | refined by `EndgameTracker` |
| `PieceTransfer` | `DownloadPiece`, the buffer pool, the way of a buffer to the collector | `MCPieceTransfer` |
| `Metainfo` | the checks of `ParseUnverified`, `TotalLength`, `PieceSize` | `Writer` |
| `Writer` | `fileList`, `pieceSegments`, file handles, `WritePiece`, for the `Info` that was parsed | `MCWriter` |
| `Tracker` | `Announce` over HTTP and UDP, compact and dictionary peer lists | `Discovery` |
| `Discovery` | `discoverPeers`, the merge with DHT peers, `fetchMetadata`; composes the announcements of `Tracker` | `MCDiscovery` |
| `MetadataRead` | `readMetadataFromPeer` | `MCMetadataRead` |
| `DHT` | the DHT client as `discoverDHTPeers` drives it, and as it answers other nodes | `MCDHT` |
| `Bencode` | `Encode` as a function, the decoder as steps over a reader and a stack | `Wire` |
| `Wire` | handshake, framing, parsers, bitfield, over a stream that ends anywhere | `MCWire` |
| `Magnet` | `Parse`, `parseInfoHash`, `decodeBase32` | `Client` |
| `Client` | `main.run`, `Stats`, the display; composes `Magnet` and, for the download, `DownloadSpec` | `MCClient` |

Definitions named `X_Something` next to a definition `X` are faulty versions of it.
They are used to see that each property can fail, and by nothing else.

### Download

One action is what a goroutine does between two points where another goroutine can
see or change what it uses. `pc[w]` is the program point of a worker:

* `attempt`, `dial`, `handshake`: the reconnect loop of `peerWorker` and the messages
  before the first unchoke;
* `loop`, `mode`: the look at `doneCh` and the non-blocking look at `egCh`;
* `pick`: `endgame.PickPiece`; `select`: the blocking select on `doneCh`, `egCh` and
  `workCh`; `check`: the test of the bitfield and the count of misses;
* `download`: `DownloadPiece`, which here succeeds, fails or is choked, as
  `PieceTransfer` shows it can; `waitUnchoke`: `waitForUnchoke`;
* `send`: the send on `resultCh`, which is unbuffered, so that send and receive are one
  step (`SendResult`);
* `exit`, `leaving`, `starting`: the deferred calls, which release the slot first and
  call `wg.Done` then, and `startWorker`, which takes the slot under `workerMu` and calls
  `wg.Add` outside it.

`cpc` is the collector: receive, `endgame.Complete`, `WritePiece`, the completion check,
the drain of `transitionToEndgame`. The closer goroutine has three steps: `wg.Wait` is
woken, `wg.Wait` returns (it panics if the counter has gone up in between, as the Go
runtime does), and the channel is closed. `panicked` ends the process.

The workers of the initial peers exist in `Init`: `downloadPieces` starts them all before
it starts the closer, so no action can tell. An answer of a tracker with k peers stands
for k announcements. Announcements come without end, as the ticker's do; `MaxInflight` bounds how
many are under way at a time (0: none is ever made), `announced` says that there was one, and
`AnnounceNothing` is one that returns no peer. A peer announces any of `BitfieldMsgs` and any
piece of `HaveMsgs`. Peers are their addresses. `disk` counts the `WritePiece` calls of a
piece; how the bytes get to files is `Writer`.

### EndgameTracker

Each method holds the mutex for its whole body and is one action. `answer` holds the last
call and its result, so that the refinement of `TrackerSpec` is about returned values and
not only about state. `recent` is a history of picks by peers that have every piece.

### PieceTransfer

A byte is the piece whose data it is, or junk; the hash matches when all bytes are the
piece's. A buffer leaves the pool, is filled, goes back on an error, or goes to the
collector with the result and never comes back. `kind` says what a download's peer does:
`honest` peers answer each request once, `late` peers may also answer a request after they
choked the client, `any` peers send any block. Blocks of length zero are left out: they
change the backlog and no data. The lengths of the pieces are any integers, since nothing checks
them against the number of hashes: for a negative one, and for one longer than `MaxAlloc`, the
buffer's `make` or slice expression panics, and `panicked` is the end of the whole process.
`Pieces` is the set of the others.

### Metainfo and Writer

`ParseInfo` takes a decoded dictionary to an `Info` or refuses it; a field that is missing
or of another type is not in the record. The parser compares the number of hashes with
nothing, so the writer is also driven with an `Info` that has one hash too few or too many.
A byte is its position in the torrent. `SegmentFails` covers `MkdirAll`, `OpenFile` and a
`WriteAt` that stops in the middle; `wpc = "panic"` is a slice of the data beyond its end.

### Tracker and Discovery

A datagram is a sequence of fields, a compact peer two of them. `net[t]` holds what may
still be delivered to the socket, at any time and in any order: answers of the tracker, sent
again as often as it likes, and datagrams of an earlier exchange. A datagram that is never
read is lost. `io.ReadFull` of the connect response joins and cuts datagrams. An IP from a
dictionary is a text, and `ParsedIP` says which texts stand for which address; any other gives
`NilIP`, which `Addr` prints as `<nil>` and which is appended like the rest. A parsed one has 16
bytes and one from a compact list 4; `Addr` prints both alike, and `dedupPeers` compares what
`Addr` prints.

`g[p]` is the goroutine of `fetchMetadata` for a peer: wait for a token, look at `ctx`, ask
the peer, report, release. Its deferred release comes after the report.

### MetadataRead

Bytes are good or bad. The peer's honesty and the true length are chosen in `Init`. The size that a
peer declares is any integer: the client takes a negative or a huge one, and `make` panics
(`panicked`); so may the bencode decoder on the header of any message (`DecoderPanics`). A message
that is skipped by the loop changes nothing and has no action.

### DHT

The caller is `discoverDHTPeers`. `query` draws a transaction id at random, so ids may collide, also
with a query that has timed out. `Receive` is a response to any query sent so far, at any time.
`handle` runs in a goroutine per packet: the lookup under the mutex and the non-blocking send are
two steps. A query of another node (`ReceiveQuery`) reads `c.peers` under its lock, `Reply` reads
the node table later, and `SendReply` sends; the search changes both tables in between. Which nodes
`closestNodes` returns is a free choice, as is the order of a Go map. In `decodePeers` an address
that does not parse is nil, as in `Tracker`, and items of a list that are not dictionaries with an
ip and a port, which it skips, are left out. Bootstrap nodes are known by name, and
`encodeCompactNodes` skips them.

### Bencode and Wire

The decoder is the recursive descent written as a machine: `open` is the stack of the lists and
dictionaries whose end was not read, `Yield` hands a complete value to the innermost of them. The
length of a string is allocated before its bytes are read, so a length beyond `MaxSlice` panics,
whatever the input has (state `panic`); beyond `MaxInt` it does not parse. A peer's side is a
`session`: a handshake, messages with what the peer means by each, and the byte at which the stream
ends. Lengths have two digits of base 6 in place of four of base 256, a byte of the bitfield has two
bits. In the code three loops read messages and each looks at some of them; the receiver of `Wire`
looks at all of them. `SentBy` is the stream of a session up to each of its messages, `Announced`
the pieces announced up to each. The sessions are those of peers that have this torrent's number of
pieces: their bitfields have a bit for each. The code takes a bitfield of any length; a short one
has no bits for the last pieces, and these are then never asked of that peer.

### Magnet and Client

`decodeBase32` runs its loop with the true widths of five and eight bits. Eight characters
give five bytes and leave the buffer empty, and a hash is four such rounds, so an instance
with one round has every state of the buffer that the code can have.

`Client` has one step for each store of `t.Stats = Stats{...}`, in any order, for each of the
collector's two atomic additions, and for each load of `Progress`, `BytesPerSecond` and
`GetStats`. `downloadPieces` is `DownloadSpec`, which `Download` is proved to implement; the
set of its pieces is the torrent's, and may be empty. Nothing is assumed of its return: at
`collect` the program may stay for ever.

## 3. What the runs check

Bounds are small, and chosen so that each case of the code occurs; numbers of distinct
states are given for orientation.

| Run | Instance | States | Shows |
|---|---|---|---|
| `download_core` | 2 peers, 3 pieces, two of them in endgame, bitfields {0} and all or none sent, have messages for the last piece, one failed attempt and one miss end a worker | 592,000 | types; each piece written once; tracker exact; no piece lost; a put-back never blocks; success is complete; no panic without re-announcement; refinement of `DownloadSpec`; termination; after the last piece workers end |
| `download_reannounce` | 1 address, up to 2 workers, announcements without end, one at a time, one reconnect, two misses, an empty bitfield or none sent | 710,000 | worker limit and counters when workers come and go; termination with reconnects, unless new workers come for ever |
| `download_late_worker` | 1 address, up to 2 workers, announcements one at a time | violation | see findings |
| `endgame_tracker` | 3 pieces, all bitfields, 7 picks | 625 | refinement of `TrackerSpec`; round robin over a list without repetitions |
| `piece_transfer` | an honest peer and one that sends anything, 3 buffers, pieces of 1½ blocks, of half a block and of a negative length, backlog 2 | 2,077,000 | accepted data reaches the disk intact; buffers have one owner; from the honest peer the backlog counts what is out, the loop never waits for nothing, and complete means verified |
| `piece_late_blocks` | one late peer | violation | see findings |
| `writer` | all layouts of up to 3 files of up to 3 bytes, piece lengths 1 to 3, the right number of hashes and one more or less; dictionaries with one broken field | 256,000 | every byte in its place, none missing, data used exactly |
| `discovery` | an HTTP, a UDP and an unsupported tracker, 3 addresses and one that does not parse, 2 tokens | 107,000 | peers kept once as they print, none dropped; tokens exact; no early give-up; the connection id is the one of this exchange; everything ends |
| `metadata_read` | 2 or 3 metadata pieces, declared sizes around the true one, negative and longer than `make` takes | 3,000 | pieces and not messages are counted; an honest peer is accepted |
| `dht` | 2 nodes, 2 transaction ids, 3 responses, channel of two, values of one and three peers | 1,242,000 | transaction table exact; answers match; nothing dropped below capacity, and beyond it the first peers kept in order; replies have true peers and nodes; all goroutines end |
| `wire` | every pair and triple of 11 messages, cut after every byte; metadata messages of every kind of value, malformed ones and string lengths at each limit, cut after every byte; 5 handshakes | 27,000 | framing, parsing and bitfield exact |
| `client` | 6561 base32 and 243 hex links, broken links, 0 to 3 pieces | 85,000 | the hash is the link's; no line claims too much; the last line is final; `run` returns unless the download does not |

Why these bounds are enough: two peers give every pair of racing workers, and no action involves
three. When the last piece is complete, the other worker may be anywhere: in a download or a send of
the other endgame piece or the same one, waiting to be unchoked, or putting back a piece that it
took before the endgame. One piece in normal mode and two in endgame give the mode switch with
something in the queue and in a worker's hands, and two results for one piece while another is
missing; for larger numbers of both the safety properties of this run are proved (section 4). In the
re-announcement instance `MaxReconnects` 1 lets a worker leave and come back, and `MaxMisses` 2 lets
it miss and go on, or miss and leave; in the core instance, where both would multiply the states, a
failed session or a miss ends the worker with pieces still open. `Slots` is in the former one more
than `MaxWorkersPerPeer`: a worker that has released its slot is still in `wg` when its successor
runs. Three bytes and three files give files inside a piece, pieces inside a file, common boundaries
and empty files. The UDP answers have fewer, as many and more peers than the buffer holds. Two bits
in a byte of the bitfield and three pieces give a spare bit, index 3, and one beyond the bitfield,
index 5. The channel of two is filled, drained in part, and overflown by the list of three, one
response after another; of two good nodes in one search the theorems speak, the run has one.
`MaxOffset`, `MaxInflight`, `MaxResponses`, `Slots`, `Buffers` and `MaxInt` are bounds of the
models, not of the code; `MaxAlloc` and `MaxSlice` stand for the limits of the Go runtime. Symmetry
is used for the buffers of `piece_transfer`, which are interchangeable, and no liveness is checked
there.

### Fairness

Weak fairness for each goroutine: the Go scheduler is fair, and every wait for a peer has a
deadline. In the download these are `Dial` (10 s), the handshake phase (30 s),
`DownloadPiece` (5 s for each block of the piece, at least 10 s) and `waitForUnchoke` (60 s); in
the metadata phase the 5 s of the dial and the 10 s of the exchange; in the DHT the timeout
of a query and the 3 s of the caller; for a tracker the 5 s of the dial and the 15 s of the
exchange. No message from outside is assumed to come: `Messages`, `Receive`, `TrackerSends`
and the tickers have no fairness. In `Client` the case of the closed channel has strong
fairness: a `select` with several ready cases takes one at random. At `collect`, where
`Client` waits for `downloadPieces`, no fairness is assumed.

`Termination` has two exceptions that are the code's own. A peer that chokes and unchokes a
worker for ever keeps it, and `downloadPieces`, running, since nothing counts these cycles. And
`reannounceLoop` announces every minute for as long as the download runs: if each announcement
brings a peer whose worker leaves without a piece, some worker is left whenever the next one
starts, `wg` need never be zero, and `downloadPieces` need not return. The property says that the
download goes on for ever only if workers are started, or choked, again and again.
`WorkersQuiesce` is checked in `download_core`, where workers are in endgame when `doneCh` closes;
there are no re-announcements there. It also names what the code leaves behind: workers whose last
result nobody receives stay blocked in their send until the process exits. `RunEnds` says that
`run` returns or stays in `downloadPieces` for ever, as it does in the two cases above and with a
torrent without pieces, which `ParseUnverified` accepts: the completion check of
`downloadPieces` follows a result, so with no piece it returns only when every worker has left, and
a worker whose peer keeps the connection waits in its `select` for ever. The display
meanwhile shows a total of zero, which `LinesTrue` covers.

## 4. What is proved

Each theorem holds for every value of the constants that satisfies the `ASSUME` of its module;
the runs evaluate the same `ASSUME` on their instances. `Inv` below is short for
`Spec => []Inv`.

| Module | Theorem | States |
|---|---|---|
| `Download` | `TypeCorrect` | `TypeOK` |
| | `WriteOnceHolds`, `SuccessHolds` | `WriteOnce`, `SuccessIsComplete` |
| | `Refinement` | `Spec => ImplementsDownloadSpec` |
| | `EndgameExactHolds`, `NoLostPieceHolds`, `RequeueNeverBlocksHolds` | `EndgameExact`, `NoLostPiece`, `RequeueNeverBlocks` |
| | `WorkerAccountingHolds` | `WorkerAccounting` |
| | `PanicNeedsAnnouncementHolds` | no panic before the first re-announcement |
| | `NoPanicHolds` | `NoPanic`, when `MaxInflight = 0` |
| `PieceTransfer` | `BuffersExclusiveHolds`, `WrittenIntactHolds`, `HonestPipelineHolds` | `BuffersExclusive`, `WrittenIntact`, `HonestPipeline` |
| `EndgameTracker` | `RoundRobinHolds` | `RoundRobin` |
| | `TrackerImplementsSpec` | `Spec => ImplementsTrackerSpec` |
| `Writer` | `BytesInPlaceHolds`, `DataUsedExactlyHolds`, `FilesCompleteHolds` | `BytesInPlace`, `DataUsedExactly`, `FilesComplete` |
| | `BytesStayHolds` | the action property that no step changes a byte on disk |
| `MetadataRead` | `CountsPiecesHolds`, `HonestAcceptedHolds` | `CountsPieces`, `HonestAccepted` |
| `Wire` | `FramingExactHolds`, `BitsExactHolds` | `FramingExact`, `BitsExact` |
| `DHT` | `TableExactHolds`, `AnswersMatchHolds`, `NothingDroppedHolds`, `RepliesTrueHolds` | `TableExact`, `AnswersMatch`, `NothingDropped`, `RepliesTrue` |
| `Tracker`, in `Discovery` | `ConnectionOfThisExchangeHolds` | `ConnectionOfThisExchange` |
| `Discovery` | `PeersExactHolds`, `SemaphoreExactHolds`, `GivesUpAfterAllHolds` | `PeersExact`, `SemaphoreExact`, `GivesUpAfterAll` |
| `Client` | `LinesTrueHolds`, `FinalLineHolds` | `LinesTrue`, `FinalLine` |
| `Magnet`, in `Client` | `HashExactHolds` | `HashExact` |

None of these properties is inductive as it stands. What each proof adds, and why:

**Download.**

* `TypeInv` is `TypeOK` with a bound on the reconnect counter of a worker that is not
  about to exit; without it the counter's own bound is not inductive.
* `CollectorInv` ties the counter `done`, the map `completed` and the disk together: `done`
  is the number of stored pieces and `completed` is the stored pieces plus the one between
  its receipt and its write. From it a new result is never on disk, and `done >= NumPieces`
  means that all are. `WriteOnce`, `SuccessIsComplete` and the refinement follow.
* `TrackerInv` says what the tracker holds from `Activate` on, also while the queue is being
  drained, which `EndgameExact` does not mention; `egClosed` comes later.
* `ModeInv` ties a worker's mode to `egCh`: who takes from the queue is in normal mode.
* `UniqueInv` says that a piece is at most once in the queue or in the hands of one worker of
  normal mode. That is why a put-back finds room: a queue without repetitions that lacks
  the worker's piece is shorter than its capacity (`RoomLeft`, by the injection theorem on
  finite sets).
* `SupplyInv` says that before endgame a piece that is not completed is in at least one of these
  places. After the switch `TrackerInv` takes over, so `NoLostPiece` needs both.
* `AccountInv` is `WorkerAccounting` with its sets of workers as counts of program points: a step
  of one worker then changes each count by one, by nothing, or by minus one.
* `QuietInv` says that before the first announcement no peer is on its way to `startWorker` and
  that once `wg.Wait` was woken every worker is gone. It needs `AccountInv`: `wg` is zero exactly
  when no worker is left. With announcements `NoPanic` is false, which is the finding
  `download_late_worker`; the theorem says that nothing else can cause a panic.

**PieceTransfer.** `BufferInv` adds to `BuffersExclusive` that a buffer which has passed the hash
check keeps its contents until it is written, that at most one result is handed over, and that
owed blocks lie within their piece. `PipelineInv` is the bookkeeping of the loop for an honest
peer: the owed blocks are apart and below `requested`, every other byte below `requested` is in the
buffer, and `requested - downloaded` is the length of the owed blocks, of which only one, the last
of the piece, may be short. Hence a complete download has every byte, and one that is not complete has
something to request or to receive. The pieces may be of any
length, negative ones included, if the ones with a buffer have a longest; a step that panics keeps every property.

**EndgameTracker.** `ListInv`: a list without repetitions and without completed pieces, which the
swap removal keeps. `RoundInv`: the picks since the last change of the list are the pieces at the
last offsets, at most one turn. `VisitsAll` shows that the loop over `Len(pieces)` offsets modulo the
length comes to every index, so that it returns none only when the peer has none of the pieces;
the refinement needs that.

**Writer.** `WriterInv`: what is on disk is at its own position (`InPlace`), no byte of a stored
piece is missing (`Covered`), and during a write the segments still to come are a `Chain`: each
begins in the torrent where the one before it ends, from the data used so far to the end of the
piece. `SegmentsExact` proves of the loop of `pieceSegments` that it returns such a chain from the
first to the last byte of the piece, for files of any number and length, empty ones included;
`BreakIsSound` that the `break` at the first file behind the piece leaves nothing out. Hence no slice
of the data is out of range, and with as many hashes as the length asks for every byte of every file
is in some piece (`PieceOf`), so all pieces stored means all files whole. The assumption is that lengths
are not negative; the piece length and the number of hashes may be anything the parser accepts.

**MetadataRead.** `CountInv` adds the range of `received`; `GoodInv` says that with an honest peer
the bytes of the received pieces are right. `PiecesCover` shows that `NumPieces`, the rounded-up
quotient, covers every byte, for all sizes that have
a buffer. The declared size is any integer; for one without a buffer there is no result, because the
process has ended.

**Wire.** `FrameInv` says where the reader is in the stream: before a header exactly at the end of
the messages returned so far, before a body two bytes behind it with the length of the next message,
and never behind the handshake of a peer with another torrent. `SentPrefix` shows that the whole
stream begins with the stream up to each message, so the bytes read next are those that `WriteMessage`
wrote for the next one, whatever comes later; a message that arrives whole finds its bytes available at
every step (`WholeAvailable`), so the connection does not close before it. `BitsInv` adds what the
bitfield has after each message, in every state, with its length and whether there is one.
`SetPieceExact` proves that `SetPiece` sets its own bit and no other, whatever is set before, which
is where an addition without the test would carry into the next bit; `NewIsEmpty` that the bitfield a have
message creates has room for every piece. The assumptions: lengths fit the header, a byte has at most eight bits, and
messages are well-formed, as above.

**DHT.** `QueryInv` (the table, and room for the serial numbers of all queries), `NodesInv`,
`ResponseInv` and `FlowInv`. `AnswersMatch` speaks of the open query only; `ResponseInv` says the
same of every query, timed out or not, and of every handler that has looked a channel up, because
a handler may keep that channel over any number of steps. `ServingInv` says that the peers a handler has
read are a prefix of `c.peers`, which only grows; `RoundTrip` proves that what another node decodes from
`encodePeerList` is the peers with an IPv4 address in their order, and `PrefixFound` that those of a
prefix are a prefix of those. The entries of a list of values have an ip and a port by
assumption. `FlowInv` says that what the caller has read, what is in the channel and what is
still to be offered are together the peers found, in order, or that more were found than the
channel holds and the first `ChanCap` of them have all been kept (`Overflown`); the caller
reads while the search goes on, so an overflow may come later than the channel's capacity.

**Tracker and Discovery.** `TrackerInv` says what a datagram on its way can be before the announce
request is sent: a stale one, which has not the transaction id of this exchange among its first two
fields, or an answer to the connect request. `ReadFull` may put two of them together, so `Harmless`
says of a buffer that is not full that nothing added to it makes it look like an answer to this
request. That a stale datagram has another transaction id is an assumption on `StaleDatagrams`: the code
draws the id from 32 random bits and relies on it. `PeersInv` says that `allPeers` has the addresses
found and, once merged, none of them twice; an
address is what `Addr` prints, `<nil>` and a port for a text that did not parse. `FetchInv` relates the goroutines, the results in
`resCh` and those received: their number is that of the goroutines that have reported, so when
`len(peers)` results were received all have, and a success that was reported is in `resCh` until it
is received.

**Client.** `StatsInv` relates the Stats to the disk at every point of `Download`, also between two
stores of its reset; `OutcomeInv` says what was returned and when; `DisplayInv` says of a render
under way that its loads are below the present counts and in the order of the line, and in the
last render equal to them (`RegsOK`, `RegsExact`). The counts only grow after the reset and are zero
during it, so loads of different moments still fit together; that fails with the loads of
`GetStats` in the other order. The zero total of a torrent without pieces is covered.

For the link, `ParseInv` says that what `decodeBase32` has consumed is in its bytes and its buffer:
`Decoded` compares them bit by bit with the characters, and the buffer holds the last bits, fewer
than eight. A character moves the buffer up by five bits, a byte is its upper eight (`ShiftIn`,
`ByteOut`, `Masked`). At the end the bits are a multiple of eight, because a hash is whole rounds of
five bytes, so the buffer is empty and the bytes are the hash; this is proved for every such length
and every link.

**Loops over data.** `dedupPeers`, `parseDictPeers`, the sums and segments of the writer, `encodePeerList`, the
stream of a peer and what it announces are written as recursive functions over the
index of the loop. `LoopRuns` proves that such a function exists and satisfies its equation,
`LoopInvariant` that what the body keeps holds at the end, both from the least number at which they
would fail (`LeastNumber`); `DedupExact` is then what `dedupPeers` computes for lists of any length.

Only model-checked:

* all liveness (`Termination`, `WorkersQuiesce`, `DiscoveryEnds`, `EverythingEnds`, `RunEnds`): the prover has
  no fairness and no `ENABLED`;
* `ParsedExact` of `Wire`: what the bencode decoder returns for the encoding of a value is an induction over
  the structure of values, for which none of the installed provers can use an induction theorem;
* `NoPanic` and `ClosedMeansDone` with re-announcement, and `FetchesAllBlocks` with late peers, which are false.

## 5. What the checks found

* `download_late_worker`: the comment at `torrent.go:310` says the results channel is closed
  "when all workers done". `startWorker` takes its slot, and calls `wg.Add` later, in a goroutine
  that `wg.Wait` does not know of. If the last worker leaves in between, the channel is closed
  and the new worker runs on; a piece it then completes is sent on a closed channel. The
  passing runs check the panic-free part (`NoPanic` without re-announcement).
* `piece_late_blocks`: `DownloadPiece` counts bytes. After a choke the piece is requested again;
  if the peer also answers a request from before the choke, a block counts twice, the loop ends
  with another block missing, and the hash check rejects data that no peer sent wrongly.

Observations without a run of their own: `MaxPieceTries` (`piece.go:41`) is read by a test only,
so nothing limits the attempts for a piece; a file of length zero whose offset is a piece
boundary has no segment and is never created (`FilesComplete` is about bytes);
`DiscoverAndFetchMetadata` gives up with `ErrNoPeers` when no tracker returned a peer, before
the DHT is asked.

In the parsers: `decodeDict` accepts keys in any order and repeated ones, although its comment
speaks of sorted order, and `decodeInt` accepts `i-01e` and `i+1e`; both are modelled as they are.
`udpAnnounceRequest` draws a transaction id and does not compare it, so an announce response of an
earlier exchange is taken, and a repeated connect response in its place makes the announcement fail;
neither is retried. `parseDictPeers` looks for port 0 before it cuts the port to 16 bits.
`ParseUnverified` accepts negative lengths and any number of hashes. An ip of a tracker's dictionary
list that does not parse is kept, as a peer `<nil>:port` that the client tries to dial. The `values`
of a get_peers reply are one string. In `ToUpper` of `decodeBase32` the few characters outside ASCII
whose upper case is a letter of the alphabet are left out.

Three lengths from outside reach `make` unchecked, and nothing recovers from its panic, so the
process ends: the `metadata_size` of a peer's extension handshake (`metadata.go:99`), the length of
a bencoded string, which is allocated before it is read (`bencode.go:131`), and the length of a
piece whose hash lies behind the total length (`piece.go:63`). The models have these steps, as
`Panic`, state `panic` and `BufferPanics`; the properties of these modules hold up to them.

## 6. What is not modelled, and why

* The text that `display` and `main` print: widths, units, truncation, the bar. The numbers in
  a line are modelled.
* `TotalBytes`, which only scales the estimate of the remaining time, and the value of the
  speed beyond its sign.
* The fields of requests to trackers, and the constructors of have, interested and request
  messages: they are written and nothing in the program reads them back.
* Node ids and tokens of the DHT (`genToken`): nothing in the program compares them.
* Negative file lengths, and files with equal paths, which the parser accepts.
* Items of a DHT peer list that are not dictionaries with an ip and a port; bitfield messages of
  another length than the torrent's; characters outside ASCII in a base32 hash.
* SHA-1 is a comparison of contents; `url.ParseQuery`, HTTP, sockets and the file system
  succeed or fail.
* Helpers that only tests use (`ReadN`, `BuildHandshakeBytes`, `EncodeUint32`, `ParseRequest`).

## 7. What is left

The models are complete but for the points of section 6. That a length from outside ends the
process with a panic is in the modules of the part where it happens (section 5); `Download`,
`Discovery`, `DHT` and `Client`, which are built over these parts, have no such end of the process,
and so speak of runs in which no length panics. Every invariant that a run shows to hold
is also proved, except `ParsedExact`. A proof of it would take an induction over nested values, as
would one that `DecodeStep` undoes `Encode`; liveness would take a prover with fairness.
