---------------------------- MODULE BLEWriteLink ----------------------------
(***************************************************************************)
(* BLEMeshTransport, central to peripheral: the flow-controlled write      *)
(* queue of one link (chunks of frames, one in flight, resent on a         *)
(* transient error, three failed frames in a row a dead link), the         *)
(* teardown with its reconnect holdoff, the scan sessions that report a    *)
(* peer once each, and the peer's sequential reassembly.                   *)
(*                                                                         *)
(* Every callback runs on one serial queue, so actions are whole           *)
(* callbacks; what interleaves is CoreBluetooth: completions, disconnects, *)
(* discoveries, timers, and a peer that vanishes without a callback.       *)
(***************************************************************************)
EXTENDS Naturals, Sequences, FiniteSets

CONSTANTS
    MaxFrames,        \* bound: frames handed to the link
    MaxChunks,        \* bound: chunks of a frame
    ChunkRetryLimit,  \* chunkRetryLimit
    TeardownThreshold,\* writeErrorTeardownThreshold
    MaxFaults         \* bound: radio toggles, drops and refused connections

ASSUME BLEAssumption ==
    /\ MaxFrames \in Nat /\ MaxChunks \in Nat \ {0} /\ MaxFaults \in Nat
    /\ ChunkRetryLimit \in Nat /\ TeardownThreshold \in Nat \ {0}

VARIABLES
    link,     \* "none", "connecting" (peers[id]) or "ready" (writeTargets[id])
    queue,    \* writeQueues[id]: frames with the chunks they have left
    inFlight, \* "none", "sent", or "taken" by the peer but not yet acked
    retries,  \* chunkRetriesLeft[id] (the limit when nil)
    strikes,  \* writeErrorCounts[id] (0 when nil)
    holdoff,  \* reconnectHoldoff[id] lies in the future
    due,      \* delayed rescans scheduled
    reported, \* this scan session has reported the peer
    powered,  \* our radio is on and the transport started
    peerOn,   \* the peer is in range with its radio on
    alive,    \* the connection behind the link still exists
    cancelled,\* a didDisconnectPeripheral is owed for our own cancel
    refused,  \* ghost: a connection attempt failed
    size,     \* chunks of each frame sent so far
    buffer,   \* the peer's reassembly: chunks since the last complete frame
    need,     \* chunks the peer's declaredLength waits for
    got,      \* frames the peer dispatched, in order
    torn,     \* ghost: frames failed after a chunk of them was taken
    faults

queueVars == <<queue, inFlight, retries, strikes>>
scanVars  == <<holdoff, due, reported, cancelled>>
worldVars == <<powered, peerOn, alive, refused, faults>>
peerVars  == <<buffer, need, got>>
vars == <<link, queueVars, scanVars, worldVars, peerVars, size, torn>>

Frames == 1 .. MaxFrames
Chunk(f, i) == [frame |-> f, index |-> i]
HeadChunk == Chunk(queue[1].frame, size[queue[1].frame] - queue[1].left + 1)

Fault == faults < MaxFaults /\ faults' = faults + 1

-----------------------------------------------------------------------------
(* The write engine *)

\* pumpWriteQueue after the queue became q.
Pump(q) == inFlight' = IF q = <<>> THEN "none" ELSE "sent"

\* writeFrameToPeer: enqueue the chunks; pump unless one is in flight.
WriteFrame(n) ==
    LET f == Len(size) + 1 IN
    /\ link = "ready"
    /\ f \in Frames
    /\ size' = Append(size, n)
    /\ queue' = Append(queue, [frame |-> f, left |-> n])
    /\ IF inFlight = "none" THEN Pump(queue') ELSE UNCHANGED inFlight
    /\ UNCHANGED <<link, retries, strikes, scanVars, worldVars, peerVars, torn>>

\* Fault: the next chunk is not sent.
AdvanceNoPump ==
    /\ queue' = IF queue[1].left > 1 THEN [queue EXCEPT ![1].left = @ - 1]
                ELSE Tail(queue)
    /\ inFlight' = "none"

\* Fault: a frame whose last chunk was acked stays at the head.
AdvanceKeepsFrame ==
    /\ queue' = IF queue[1].left > 1 THEN [queue EXCEPT ![1].left = @ - 1]
                ELSE queue
    /\ Pump(queue')

\* advanceWriteQueue: pop the acked chunk (and its frame once empty), pump.
Advance ==
    /\ queue' = IF queue[1].left > 1 THEN [queue EXCEPT ![1].left = @ - 1]
                ELSE Tail(queue)
    /\ Pump(queue')

\* didWriteValueFor without error.
WriteAcked ==
    /\ inFlight = "taken"
    /\ strikes' = 0
    /\ retries' = ChunkRetryLimit
    /\ Advance
    /\ UNCHANGED <<link, scanVars, worldVars, peerVars, size, torn>>

\* What didDisconnectPeripheral and the teardown clear alike.
ClearLink ==
    /\ link' = "none"
    /\ queue' = <<>> /\ inFlight' = "none"
    /\ retries' = ChunkRetryLimit /\ strikes' = 0

\* The peer's didUnsubscribeFrom drops its half-built frame with the link.
PeerForgets == buffer' = <<>> /\ need' = 0 /\ UNCHANGED got

\* A dead link is dropped and cancelled, and the next scan put off.
Teardown ==
    /\ ClearLink
    /\ alive' = FALSE
    /\ cancelled' = TRUE
    /\ holdoff' = TRUE /\ due' = due + 1
    /\ PeerForgets
    /\ UNCHANGED <<reported, powered, peerOn, refused, faults, size, torn>>

\* didWriteValueFor with a conclusive error: the connection is gone, or the
\* peer's stack refused the write with a status that is not backpressure.
WriteFailsDead ==
    /\ inFlight = "sent" \/ (inFlight = "taken" /\ ~alive)
    /\ Teardown

\* ... with a transient one (the peer did not take it), the head chunk still having a resend.
ChunkRetried ==
    /\ inFlight = "sent" /\ retries > 0
    /\ retries' = retries - 1
    /\ UNCHANGED <<link, queue, inFlight, strikes, scanVars, worldVars, peerVars,
                   size, torn>>

\* Fault: the streak of failed frames never reaches the teardown.
FrameFailsForever ==
    /\ inFlight = "sent" /\ retries = 0
    /\ retries' = ChunkRetryLimit
    /\ queue' = Tail(queue) /\ Pump(queue')
    /\ torn' = IF queue[1].left < size[queue[1].frame]
               THEN torn \cup {queue[1].frame} ELSE torn
    /\ UNCHANGED <<link, strikes, scanVars, worldVars, peerVars, size>>

\* ... with none left: the frame fails (failHeadFrame) and counts one strike;
\* the streak that reaches the threshold is a dead link.
FrameFails ==
    /\ inFlight = "sent" /\ retries = 0
    /\ IF strikes + 1 < TeardownThreshold
       THEN /\ strikes' = strikes + 1
            /\ retries' = ChunkRetryLimit
            /\ queue' = Tail(queue) /\ Pump(queue')
            /\ torn' = IF queue[1].left < size[queue[1].frame]
                       THEN torn \cup {queue[1].frame} ELSE torn
            /\ UNCHANGED <<link, scanVars, worldVars, peerVars, size>>
       ELSE Teardown

-----------------------------------------------------------------------------
(* The peer *)

\* ingest: a first chunk that is a frame's head declares the length; any other
\* first bytes are read as a header too, and are dropped or declare anything.
Declared(c) ==
    IF c.index = 1 THEN {size[c.frame]} ELSE 0 .. MaxChunks

Ingest(c, n) ==
    LET bytes == Append(buffer, c) IN
    IF n = 0 THEN buffer' = <<>> /\ need' = 0 /\ UNCHANGED got
    ELSE IF Len(bytes) >= n
    THEN buffer' = <<>> /\ need' = 0 /\ got' = Append(got, bytes)
    ELSE buffer' = bytes /\ need' = n /\ UNCHANGED got

\* didReceiveWrite on the other side; the response is still under way.
PeerTakes ==
    /\ inFlight = "sent" /\ alive
    /\ inFlight' = "taken"
    /\ \E n \in IF buffer = <<>> THEN Declared(HeadChunk) ELSE {need} :
         Ingest(HeadChunk, n)
    /\ UNCHANGED <<link, queue, retries, strikes, scanVars, worldVars, size, torn>>

-----------------------------------------------------------------------------
(* Scan, connect, disconnect *)

\* Fault: the scan session is not restarted when the holdoff ends.
RescanForgets ==
    /\ due > 0
    /\ due' = due - 1
    /\ holdoff' = (holdoff /\ due > 1)
    /\ UNCHANGED <<link, queueVars, reported, cancelled, worldVars, peerVars,
                   size, torn>>

\* The delayed rescan; the last one scheduled is the one the holdoff ends with.
Rescan ==
    /\ due > 0
    /\ due' = due - 1
    /\ holdoff' = (holdoff /\ due > 1)
    /\ reported' = (reported /\ ~powered)
    /\ UNCHANGED <<link, queueVars, cancelled, worldVars, peerVars, size, torn>>

\* didDiscover, once per scan session: a peer in holdoff is skipped.
Discover ==
    /\ powered /\ peerOn /\ ~reported
    /\ reported' = TRUE
    /\ link' = IF link = "none" /\ ~holdoff THEN "connecting" ELSE link
    /\ UNCHANGED <<queueVars, holdoff, due, cancelled, worldVars, peerVars, size,
                   torn>>

\* didConnect and the discovery of the mailbox characteristic.
LinkReady ==
    /\ link = "connecting" /\ powered /\ peerOn
    /\ link' = "ready"
    /\ alive' = TRUE
    /\ UNCHANGED <<queueVars, scanVars, powered, peerOn, refused, faults,
                   peerVars, size, torn>>

\* didFailToConnect: no rescan.
ConnectRefused ==
    /\ link = "connecting"
    /\ Fault
    /\ link' = "none"
    /\ refused' = TRUE
    /\ UNCHANGED <<queueVars, scanVars, powered, peerOn, alive, peerVars, size,
                   torn>>

\* didDisconnectPeripheral of a connection that was there: rescan at once.
Disconnected ==
    /\ link = "ready"
    /\ Fault
    /\ ClearLink
    /\ alive' = FALSE
    /\ reported' = FALSE
    /\ PeerForgets
    /\ UNCHANGED <<holdoff, due, cancelled, powered, peerOn, refused, size, torn>>

\* ... and of the one the teardown cancelled; it comes before the holdoff ends.
CancelCompletes ==
    /\ cancelled /\ link = "none"
    /\ cancelled' = FALSE
    /\ ClearLink
    /\ reported' = FALSE
    /\ UNCHANGED <<holdoff, due, worldVars, peerVars, size, torn>>

-----------------------------------------------------------------------------
(* The radios *)

\* Fault: the half-built frame outlives the link.
PowerOffKeepsBuffer ==
    /\ powered
    /\ Fault
    /\ powered' = FALSE
    /\ ClearLink
    /\ alive' = FALSE
    /\ holdoff' = FALSE /\ cancelled' = FALSE
    /\ UNCHANGED <<due, reported, peerOn, refused, peerVars, size, torn>>

\* centralManagerDidUpdateState not poweredOn, or stop(): everything is cleared.
PowerOff ==
    /\ powered
    /\ Fault
    /\ powered' = FALSE
    /\ ClearLink
    /\ alive' = FALSE
    /\ holdoff' = FALSE /\ cancelled' = FALSE
    /\ PeerForgets
    /\ UNCHANGED <<due, reported, peerOn, refused, size, torn>>

\* poweredOn: a new scan session.
PowerOn ==
    /\ ~powered
    /\ powered' = TRUE
    /\ reported' = FALSE
    /\ UNCHANGED <<link, queueVars, holdoff, due, cancelled, peerOn, alive,
                   refused, faults, peerVars, size, torn>>

\* The peer's radio goes off: CoreBluetooth says nothing, the link is a zombie.
PeerVanishes ==
    /\ peerOn
    /\ Fault
    /\ peerOn' = FALSE
    /\ alive' = FALSE
    /\ PeerForgets
    /\ UNCHANGED <<link, queueVars, scanVars, powered, refused, size, torn>>

PeerReturns ==
    /\ ~peerOn
    /\ peerOn' = TRUE
    /\ UNCHANGED <<link, queueVars, scanVars, powered, alive, refused, faults,
                   peerVars, size, torn>>

-----------------------------------------------------------------------------

Init ==
    /\ link = "none"
    /\ queue = <<>> /\ inFlight = "none"
    /\ retries = ChunkRetryLimit /\ strikes = 0
    /\ holdoff = FALSE /\ due = 0 /\ reported = FALSE /\ cancelled = FALSE
    /\ powered = TRUE /\ peerOn = TRUE /\ alive = FALSE /\ refused = FALSE
    /\ faults = 0
    /\ size = <<>> /\ buffer = <<>> /\ need = 0 /\ got = <<>> /\ torn = {}

WriteCompletes == WriteAcked \/ WriteFailsDead \/ ChunkRetried \/ FrameFails

Next ==
    \/ \E n \in 1 .. MaxChunks : WriteFrame(n)
    \/ WriteCompletes \/ PeerTakes
    \/ Rescan \/ Discover \/ LinkReady \/ ConnectRefused
    \/ Disconnected \/ CancelCompletes
    \/ PowerOff \/ PowerOn \/ PeerVanishes \/ PeerReturns

Spec == Init /\ [][Next]_vars

\* A write is answered, a scan session reports an advertising peer, a
\* connection to it is made, and delayed blocks run.
FairSpec ==
    /\ Spec
    /\ WF_vars(WriteCompletes)
    /\ WF_vars(Discover) /\ WF_vars(LinkReady)
    /\ WF_vars(Rescan) /\ WF_vars(CancelCompletes)

-----------------------------------------------------------------------------
(* Properties *)

\* Every variable has its shape; a frame in the queue has chunks left; only a
\* ready link has a queue.
TypeOK ==
    /\ link \in {"none", "connecting", "ready"}
    /\ queue \in Seq([frame : Frames, left : 1 .. MaxChunks])
    /\ inFlight \in {"none", "sent", "taken"}
    /\ retries \in 0 .. ChunkRetryLimit
    /\ strikes \in 0 .. TeardownThreshold - 1
    /\ holdoff \in BOOLEAN /\ reported \in BOOLEAN /\ cancelled \in BOOLEAN
    /\ due \in Nat
    /\ powered \in BOOLEAN /\ peerOn \in BOOLEAN /\ alive \in BOOLEAN
    /\ refused \in BOOLEAN
    /\ size \in Seq(1 .. MaxChunks)
    /\ need \in 0 .. MaxChunks
    /\ torn \subseteq Frames
    /\ link # "ready" => queue = <<>>

\* The completion-driven engine never stalls and never runs dry: a chunk is in
\* flight exactly when frames are queued.
NoStall == (inFlight = "none") <=> (queue = <<>>)

\* The write engine's tables agree with each other and with the link.
EngineConsistent == TypeOK /\ NoStall

Whole(bytes) ==
    /\ Len(bytes) = size[bytes[1].frame]
    /\ \A i \in DOMAIN bytes : bytes[i] = Chunk(bytes[1].frame, i)

\* Whole frames reach the peer in the order they were enqueued and none twice,
\* across resends, failed frames, teardowns and new links.
InOrderOnce ==
    \A i, j \in DOMAIN got :
        i < j /\ Whole(got[i]) /\ Whole(got[j])
          => got[i][1].frame < got[j][1].frame

\* What the peer dispatches is a frame as sent unless a frame was failed after
\* part of it had been taken: lost links, power cycles and resends alone never
\* corrupt the reassembly.
TornOnlyByFailure ==
    torn = {} => \A i \in DOMAIN got : Whole(got[i])

\* A zombie link (the connection is gone, CoreBluetooth is silent, only writes
\* fail) with enough unanswered frames to reach the threshold is dropped.
ZombieDropped ==
    (/\ link = "ready" /\ ~alive /\ inFlight = "sent"
     /\ strikes + Len(queue) >= TeardownThreshold) ~> link # "ready"

\* After any teardown or disconnect the peer, once it advertises, is linked
\* again: the holdoff and the once-per-session report do not lose it.  (A
\* refused connection does: didFailToConnect starts no scan.)
Relinks ==
    (powered /\ peerOn) ~> (link = "ready" \/ ~powered \/ ~peerOn \/ refused)
=============================================================================
