----------------------------- MODULE Discovery ------------------------------
(***************************************************************************)
(* DiscoverAndFetchMetadata: the announcements to all trackers at once,    *)
(* the DHT search, the merge of the peer lists, and fetchMetadata, where   *)
(* one goroutine per peer competes for sem and the first verified info     *)
(* wins.                                                                   *)
(*                                                                         *)
(* Module Tracker has the announcements.  What a goroutine of              *)
(* fetchMetadata learns from its peer is a free choice between a verified  *)
(* info and an error; module MetadataRead has the exchange.                *)
(***************************************************************************)
EXTENDS Tracker

CONSTANTS
    Addrs,          \* the addresses of all peers that can be found
    DHTLists,       \* the peers the DHT may return
    SemCap          \* capacity of sem, 10 in the code

ASSUME DiscoveryAssumption ==
    /\ IsFiniteSet(Addrs)
    /\ \A list \in DHTLists : IsSeq(list)
    /\ SemCap \in Nat \ {0}

VARIABLES
    main,           \* program point of DiscoverAndFetchMetadata
    results,        \* the channel of discoverPeers
    taken,          \* results received so far
    allPeers,       \* allPeers of discoverPeers, then t.peers
    ret,            \* what DiscoverAndFetchMetadata returns
    g,              \* program point of the goroutine of each peer
    sem,            \* number of tokens in sem
    ctxClosed,      \* ctx is closed
    resCh,          \* the results of fetchMetadata
    received,       \* results that fetchMetadata has received
    found, got      \* history: the addresses found, what each goroutine got

discVars  == <<results, taken, found>>
fetchVars == <<g, sem, ctxClosed, resCh, received, got>>
vars      == <<main, allPeers, ret, trackerVars, discVars, fetchVars>>

Failed == "error"
AddrsOf(list) == {Addr(list[i]) : i \in DOMAIN list}

Init ==
    /\ TrackerInit
    /\ main = "trackers"
    /\ results = <<>> /\ taken = 0 /\ allPeers = <<>>
    /\ found = {}
    /\ ret = "running"
    /\ g = [p \in Addrs |-> "none"] /\ sem = 0 /\ ctxClosed = FALSE
    /\ resCh = <<>> /\ received = 0
    /\ got = [p \in Addrs |-> "none"]

-----------------------------------------------------------------------------
(* discoverPeers and discoverDHTPeers                                      *)

\* The goroutine of a tracker sends what Announce returned; the channel has
\* room for every tracker.
SendResult(t) ==
    /\ apc[t] = "returned"
    /\ apc' = [apc EXCEPT ![t] = "done"]
    /\ results' = Append(results, outcome[t])
    /\ outcome' = [outcome EXCEPT ![t] = Error]
    /\ UNCHANGED <<net, resp, connID, main, allPeers, ret, taken, found, fetchVars>>

\* dedupPeers: the new addresses that are not there yet, in their order.
dedupPeers_NotSeen(existing, new) ==
    existing \o SelectSeq(new, LAMBDA p : Addr(p) \notin AddrsOf(existing))
AddPeer(list, p) == IF Addr(p) \in AddrsOf(list) THEN list ELSE Append(list, p)
dedupPeers(existing, new) ==
    LET list[n \in 0 .. Len(new)] ==
          IF n = 0 THEN existing ELSE AddPeer(list[n - 1], new[n])
    IN  list[Len(new)]

\* One turn of the loop that collects the answers.
TakeAnswer ==
    /\ main = "trackers"
    /\ taken < Cardinality(Trackers)
    /\ results # <<>>
    /\ results' = Tail(results)
    /\ taken' = taken + 1
    /\ IF Head(results).err
       THEN UNCHANGED <<allPeers, found>>
       ELSE /\ allPeers' = allPeers \o Head(results).peers
            /\ found' = found \cup AddrsOf(Head(results).peers)
    /\ UNCHANGED <<main, ret, trackerVars, fetchVars>>

\* Every tracker has answered: duplicates go, and without a peer the search
\* ends in ErrNoPeers.
TrackersDone ==
    /\ main = "trackers"
    /\ taken = Cardinality(Trackers)
    /\ allPeers' = dedupPeers(<<>>, allPeers)
    /\ IF allPeers' = <<>> THEN main' = "returned" /\ ret' = "noPeers"
                           ELSE main' = "dht" /\ UNCHANGED ret
    /\ UNCHANGED <<trackerVars, discVars, fetchVars>>

\* discoverDHTPeers returns what it found in three seconds, and fetchMetadata
\* starts a goroutine per peer.
SearchDHT(list) ==
    /\ main = "dht"
    /\ allPeers' = dedupPeers(allPeers, list)
    /\ found' = found \cup AddrsOf(list)
    /\ main' = "fetch"
    /\ g' = [p \in Addrs |-> IF p \in AddrsOf(allPeers') THEN "queued" ELSE "none"]
    /\ UNCHANGED <<ret, trackerVars, results, taken, sem, ctxClosed, resCh,
                   received, got>>

-----------------------------------------------------------------------------
(* fetchMetadata: the goroutine of peer p                                  *)

Step(p, from, to) == g[p] = from /\ g' = [g EXCEPT ![p] = to]

Acquire(p) ==
    /\ Step(p, "queued", "check")
    /\ sem < SemCap
    /\ sem' = sem + 1
    /\ UNCHANGED <<ctxClosed, resCh, received, got>>

\* The non-blocking look at ctx: after a success the goroutine leaves without
\* a result.
CheckCtx(p) ==
    /\ Step(p, "check", IF ctxClosed THEN "release" ELSE "busy")
    /\ UNCHANGED <<sem, ctxClosed, resCh, received, got>>

\* Dial, the extension handshake and readMetadataFromPeer.
AskPeer(p, answer) ==
    /\ Step(p, "busy", "report")
    /\ got' = [got EXCEPT ![p] = answer]
    /\ UNCHANGED <<sem, ctxClosed, resCh, received>>

\* Every path after the look at ctx sends a result; resCh has room for all.
ResCap_Unbuffered == 1
ResCap == Len(allPeers)

Report(p) ==
    /\ Step(p, "report", "release")
    /\ Len(resCh) < ResCap
    /\ resCh' = Append(resCh, got[p])
    /\ UNCHANGED <<sem, ctxClosed, received, got>>

Released_AfterResult(p) == IF got[p] = "none" THEN sem ELSE sem - 1
Released(p) == sem - 1

\* The deferred receive from sem.
Release(p) ==
    /\ Step(p, "release", "done")
    /\ sem' = Released(p)
    /\ UNCHANGED <<ctxClosed, resCh, received, got>>

Goroutine(p) ==
    /\ \/ Acquire(p) \/ CheckCtx(p) \/ Report(p) \/ Release(p)
       \/ \E answer \in {"info", Failed} : AskPeer(p, answer)
    /\ UNCHANGED <<main, allPeers, ret, trackerVars, discVars>>

-----------------------------------------------------------------------------
(* fetchMetadata: the loop over the results                                *)

NextResult ==
    /\ main = "fetch"
    /\ received < Len(allPeers)
    /\ resCh # <<>>
    /\ resCh' = Tail(resCh)
    /\ received' = received + 1
    /\ IF Head(resCh) = "info"
       THEN ctxClosed' = TRUE /\ ret' = "ok" /\ main' = "returned"
       ELSE UNCHANGED <<ctxClosed, ret, main>>
    /\ UNCHANGED <<allPeers, trackerVars, discVars, g, sem, got>>

AllHeard_OneShort == received >= Len(allPeers) - 1
AllHeard == received = Len(allPeers)

NoMetadata ==
    /\ main = "fetch"
    /\ AllHeard
    /\ ret' = "noMetadata"
    /\ main' = "returned"
    /\ UNCHANGED <<allPeers, trackerVars, discVars, fetchVars>>

Caller ==
    \/ TakeAnswer \/ TrackersDone \/ NextResult \/ NoMetadata
    \/ \E list \in DHTLists : SearchDHT(list)

\* The goroutine of a tracker, and the tracker itself.
Announcing(t) ==
    /\ TrackerClient(t) \/ TrackerSends(t)
    /\ UNCHANGED <<main, allPeers, ret, discVars, fetchVars>>

Terminating ==
    /\ main = "returned"
    /\ UNCHANGED vars

Next ==
    \/ \E t \in Trackers : Announcing(t) \/ SendResult(t)
    \/ \E p \in Addrs : Goroutine(p)
    \/ Caller
    \/ Terminating

Spec == Init /\ [][Next]_vars

\* Announcements, Dial and readMetadataFromPeer run under deadlines, so every
\* goroutine goes on.
FairSpec ==
    /\ Spec
    /\ \A t \in Trackers :
         WF_vars(SendResult(t) \/ (TrackerClient(t) /\ UNCHANGED <<main, allPeers, ret, discVars, fetchVars>>))
    /\ \A p \in Addrs : WF_vars(Goroutine(p))
    /\ WF_vars(Caller)

-----------------------------------------------------------------------------
(* Properties                                                              *)

\* t.peers has every address that some tracker or the DHT returned, once,
\* however the answers are ordered and however often they repeat it.  Addresses
\* are compared as Addr prints them, so of the entries whose ip could not be
\* parsed one is left for each port.
PeersExact ==
    main = "fetch" =>
        /\ AddrsOf(allPeers) = found
        /\ Len(allPeers) = Cardinality(found)

\* At most SemCap goroutines talk to their peers, and the tokens in sem are
\* those of the goroutines that hold one.
SemaphoreExact ==
    /\ sem = Cardinality({p \in Addrs : g[p] \in {"check", "busy", "report", "release"}})
    /\ sem <= SemCap

\* fetchMetadata gives up only when every peer was asked and none had the
\* metadata; a success that is still in resCh is never thrown away.
GivesUpAfterAll ==
    ret = "noMetadata" => \A p \in AddrsOf(allPeers) : got[p] = Failed

\* DiscoverAndFetchMetadata returns: every announcement does, also one whose
\* datagrams are lost, and the loop over len(peers) results never waits for one
\* that does not come, as a goroutine leaves without a result only after a
\* success.  And although nothing reads resCh after that, every goroutine comes
\* to its end.
DiscoveryEnds ==
    <>(/\ main = "returned"
       /\ \A t \in Trackers : apc[t] = "done"
       /\ \A p \in Addrs : g[p] \in {"none", "done"})
=============================================================================
