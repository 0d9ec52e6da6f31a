----------------------------- MODULE PTTSession -----------------------------
(***************************************************************************)
(* Live push-to-talk, one talker and one listener.  The talker: the hold   *)
(* of Conversation1View with its gated Task per press, PTTCaptureEngine,   *)
(* and the coordinator's openPTTInitiator / closePTTInitiator.  The        *)
(* listener: the coordinator's pttOpen / pttClose branches, PTTReceiver    *)
(* with its replay window, and PTTSessionOwner behind the inbox's event    *)
(* stream.  Between them the untracked rail, which may lose a message or   *)
(* let a later one pass it, and the audio frames, which may be lost,       *)
(* reordered or repeated.                                                  *)
(*                                                                         *)
(* A press is numbered by its hold token; the session it opens, minted     *)
(* afresh in the code, carries the same number.                            *)
(***************************************************************************)
EXTENDS Naturals, Sequences, FiniteSets

CONSTANTS
    MaxHolds,   \* bound: presses
    MaxFrames,  \* bound: audio frames sealed in any two sessions together
    WindowSize  \* PTTFrameOpener.windowSize (64 in the code)

ASSUME PTTAssumption ==
    MaxHolds \in Nat /\ MaxFrames \in Nat /\ WindowSize \in Nat \ {0}

VARIABLES
    pressed,   \* WalkieGlobeView.holding
    holding,   \* pttHolding
    token,     \* pttHoldToken
    sessionID, \* pttSessionID, 0 for nil
    stage,     \* where the Task of each press stands
    live,      \* the Task's PTTLiveSend: its session, 0 for nil
    mic,       \* PTTCaptureEngine.state
    owner,     \* currentHoldToken
    abort,     \* abortRequested
    denied,    \* permissionDenied
    sealer,    \* session of the pipeline's sealer, 0 when note-only or torn down
    slot,      \* pttInitiatorIDs[peer], 0 for nil
    closing,   \* closePTT calls that have not run
    calls,     \* ghost: closePTT calls made for each session
    sealed,    \* frames sealed in each session (the sealer's counter)
    rail,      \* pttOpen / pttClose under way
    clean,     \* ghost: the rail lost and reordered nothing
    ctx,       \* session of the contexts on the peer's links, 0 for none
    opener,    \* PTTFrameOpener of that context
    heard,     \* ghost: frames decoded in each session
    replayed,  \* ghost: a frame was decoded a second time
    events,    \* coordinator events the inbox has not handled
    open,      \* PTTSessionOwner.openSessions
    isLive,    \* PTTSessionOwner.isLive
    active     \* the audio session as the owner left it

holdVars    == <<pressed, holding, token, sessionID>>
taskVars    == <<stage, live>>
captureVars == <<mic, owner, abort, denied, sealer>>
wireVars    == <<rail, clean>>
receiveVars == <<ctx, opener, heard, replayed>>
ownerVars   == <<open, isLive, active>>
listenVars  == <<receiveVars, events, ownerVars>>
vars == <<holdVars, taskVars, captureVars, slot, closing, calls, sealed,
          wireVars, listenVars>>

Holds  == 1 .. MaxHolds
Frames == 0 .. MaxFrames - 1

\* The gates' test: my press is the one being held.
Current(h) == holding /\ token = h

FreshOpener == [seenAny |-> FALSE, highest |-> 0, bits |-> {}]

Init ==
    /\ pressed = FALSE /\ holding = FALSE /\ token = 0 /\ sessionID = 0
    /\ stage = [h \in Holds |-> "none"] /\ live = [h \in Holds |-> 0]
    /\ mic = "idle" /\ owner = 0 /\ abort = FALSE /\ denied = FALSE /\ sealer = 0
    /\ slot = 0 /\ closing = {} /\ calls = [h \in Holds |-> 0]
    /\ sealed = [h \in Holds |-> 0]
    /\ rail = <<>> /\ clean = TRUE
    /\ ctx = 0 /\ opener = FreshOpener
    /\ heard = [h \in Holds |-> {}] /\ replayed = FALSE
    /\ events = <<>> /\ open = {} /\ isLive = FALSE /\ active = FALSE

-----------------------------------------------------------------------------
(* The capture engine *)

\* Fault: a release that lands while start() waits is forgotten.
StopDuringStartIgnored ==
    /\ mic' = IF mic = "recording" THEN "idle" ELSE mic
    /\ sealer' = IF mic = "recording" THEN 0 ELSE sealer
    /\ UNCHANGED <<abort, owner, denied>>

\* cancelUnowned, and stop by the owner: a start in flight is only asked to
\* abort, a recording is torn down.
StopCapture ==
    /\ abort' = (abort \/ mic = "starting")
    /\ mic' = IF mic = "recording" THEN "idle" ELSE mic
    /\ sealer' = IF mic = "recording" THEN 0 ELSE sealer
    /\ UNCHANGED <<owner, denied>>

\* stop(holdToken:): only the hold that started the engine stops it.
Stop(h) == IF owner = h THEN StopCapture ELSE UNCHANGED captureVars

\* start(live:holdToken:) up to its one suspension, the permission.
StartBegins(h) ==
    IF mic = "idle"
    THEN /\ mic' = "starting" /\ owner' = h
         /\ stage' = [stage EXCEPT ![h] = "permission"]
         /\ UNCHANGED <<abort, denied, sealer>>
    ELSE /\ stage' = [stage EXCEPT ![h] = "gateC"]
         /\ UNCHANGED captureVars

\* The rest of start: refused, aborted, failed, or recording with the sealer.
PermissionAnswered(h) ==
    /\ stage[h] = "permission"
    /\ stage' = [stage EXCEPT ![h] = "gateC"]
    /\ \/ /\ denied' = TRUE /\ mic' = "idle"
          /\ UNCHANGED sealer
       \/ /\ denied' = FALSE
          /\ \/ mic' = "idle" /\ UNCHANGED sealer
             \/ ~abort /\ mic' = "recording" /\ sealer' = live[h]
    /\ abort' = FALSE
    /\ UNCHANGED <<holdVars, live, owner, slot, closing, calls, sealed, wireVars,
                   listenVars>>

\* PTTCapturePipeline.process: seal the next frame and hand it to the link.
SealFrame ==
    /\ mic = "recording" /\ sealer # 0
    /\ sealed[sealer] < MaxFrames
    /\ \A h \in Holds \ {sealer} : sealed[h] + sealed[sealer] < MaxFrames
    /\ sealed' = [sealed EXCEPT ![sealer] = @ + 1]
    /\ UNCHANGED <<holdVars, taskVars, captureVars, slot, closing, calls, wireVars,
                   listenVars>>

-----------------------------------------------------------------------------
(* The hold *)

\* closePTT for session s, 0 for none: the call waits for the coordinator.
CallClose(s) ==
    IF s = 0 THEN UNCHANGED <<closing, calls>>
    ELSE closing' = closing \cup {s} /\ calls' = [calls EXCEPT ![s] = @ + 1]

\* onPressDown: beginPTT mints a token and spawns its Task.
BeginPTT ==
    /\ ~pressed /\ token < MaxHolds
    /\ pressed' = TRUE /\ holding' = TRUE
    /\ token' = token + 1
    /\ stage' = [stage EXCEPT ![token + 1] = "entry"]
    /\ UNCHANGED <<sessionID, live, captureVars, slot, closing, calls, sealed,
                   wireVars, listenVars>>

\* What a release and a dismissal share once the capture was dealt with.
LetGo ==
    /\ pressed' = FALSE /\ holding' = FALSE
    /\ IF holding THEN sessionID' = 0 /\ CallClose(sessionID)
       ELSE UNCHANGED <<sessionID, closing, calls>>
    /\ UNCHANGED <<token, taskVars, slot, sealed, wireVars, listenVars>>

\* onPressUp: endPTT.
EndPTT ==
    /\ pressed
    /\ IF holding THEN Stop(token) ELSE UNCHANGED captureVars
    /\ LetGo

\* The cover goes away mid-hold: teardownPTTIfHolding.
Dismiss ==
    /\ pressed
    /\ IF holding THEN StopCapture ELSE UNCHANGED captureVars
    /\ LetGo

GateA(h) ==
    /\ stage[h] = "entry"
    /\ stage' = [stage EXCEPT ![h] = IF Current(h) THEN "opening" ELSE "done"]
    /\ UNCHANGED <<holdVars, live, captureVars, slot, closing, calls, sealed, wireVars,
                   listenVars>>

\* openPTTInitiator throws: no audio link, no session, or no route.
OpenFails(h) ==
    /\ stage[h] = "opening"
    /\ stage' = [stage EXCEPT ![h] = "gateB"]
    /\ UNCHANGED <<holdVars, live, captureVars, slot, closing, calls, sealed, wireVars,
                   listenVars>>

\* It routes the sealed pttOpen ...
OpenRouted(h) ==
    /\ stage[h] = "opening"
    /\ stage' = [stage EXCEPT ![h] = "routed"]
    /\ rail' = Append(rail, [kind |-> "open", id |-> h])
    /\ UNCHANGED <<holdVars, live, captureVars, slot, closing, calls, sealed, clean,
                   listenVars>>

\* ... and, resumed, records the session and hands out the sealer.
OpenReturns(h) ==
    /\ stage[h] = "routed"
    /\ slot' = h
    /\ live' = [live EXCEPT ![h] = h]
    /\ stage' = [stage EXCEPT ![h] = "gateB"]
    /\ UNCHANGED <<holdVars, captureVars, closing, calls, sealed, wireVars, listenVars>>

\* Fault: a stale task returns without closing what it opened.
GateBForgetsClose(h) ==
    /\ stage[h] = "gateB"
    /\ IF Current(h)
       THEN sessionID' = live[h] /\ StartBegins(h)
       ELSE /\ stage' = [stage EXCEPT ![h] = "done"]
            /\ UNCHANGED <<sessionID, captureVars>>
    /\ UNCHANGED <<pressed, holding, token, live, slot, closing, calls, sealed, wireVars,
                   listenVars>>

\* Gate B: a stale task closes its session; the current one arms it and starts.
GateB(h) ==
    /\ stage[h] = "gateB"
    /\ IF Current(h)
       THEN /\ sessionID' = live[h]
            /\ StartBegins(h)
            /\ UNCHANGED <<closing, calls>>
       ELSE /\ stage' = [stage EXCEPT ![h] = "done"]
            /\ CallClose(live[h])
            /\ UNCHANGED <<sessionID, captureVars>>
    /\ UNCHANGED <<pressed, holding, token, live, slot, sealed, wireVars, listenVars>>

\* Fault: the stale task closes without asking whether endPTT already did.
GateCClosesAgain(h) ==
    /\ stage[h] = "gateC" /\ ~Current(h)
    /\ stage' = [stage EXCEPT ![h] = "done"]
    /\ Stop(h)
    /\ CallClose(live[h])
    /\ sessionID' = IF sessionID = live[h] THEN 0 ELSE sessionID
    /\ UNCHANGED <<pressed, holding, token, live, slot, sealed, wireVars, listenVars>>

\* Gate C: released while start ran.
GateC(h) ==
    /\ stage[h] = "gateC" /\ ~Current(h)
    /\ stage' = [stage EXCEPT ![h] = "done"]
    /\ Stop(h)
    /\ IF live[h] # 0 /\ sessionID = live[h]
       THEN sessionID' = 0 /\ CallClose(live[h])
       ELSE UNCHANGED <<sessionID, closing, calls>>
    /\ UNCHANGED <<pressed, holding, token, live, slot, sealed, wireVars, listenVars>>

\* Gate D: still held, but the microphone was refused.
GateD(h) ==
    /\ stage[h] = "gateC" /\ Current(h)
    /\ stage' = [stage EXCEPT ![h] = "done"]
    /\ IF denied
       THEN holding' = FALSE /\ sessionID' = 0 /\ CallClose(live[h])
       ELSE UNCHANGED <<holding, sessionID, closing, calls>>
    /\ UNCHANGED <<pressed, token, live, captureVars, slot, sealed, wireVars, listenVars>>

\* slotAfterClose: only the session that owns the slot empties it.
SlotAfterClose(s) == IF slot = s THEN 0 ELSE slot

\* closePTTInitiator: the pttClose is routed, or fails and is given up.
CloseRuns(s) ==
    /\ s \in closing
    /\ closing' = closing \ {s}
    /\ slot' = SlotAfterClose(s)
    /\ \/ rail' = Append(rail, [kind |-> "close", id |-> s]) /\ UNCHANGED clean
       \/ clean' = FALSE /\ UNCHANGED rail
    /\ UNCHANGED <<holdVars, taskVars, captureVars, calls, sealed, listenVars>>

-----------------------------------------------------------------------------
(* The listener *)

\* Message i leaves the rail; taking one from behind the front reorders it.
Taken(i) == SubSeq(rail, 1, i - 1) \o SubSeq(rail, i + 1, Len(rail))

\* Lost, or dropped at the far side: not verified, malformed, no link yet.
RailLoses(i) ==
    /\ rail' = Taken(i) /\ clean' = FALSE
    /\ UNCHANGED <<holdVars, taskVars, captureVars, slot, closing, calls, sealed,
                   listenVars>>

\* Fault: the audio session's owner is not told.
ReceiveCloseUntold(i) ==
    /\ rail[i].kind = "close"
    /\ rail' = Taken(i) /\ clean' = (clean /\ i = 1)
    /\ ctx' = 0 /\ opener' = FreshOpener
    /\ UNCHANGED <<holdVars, taskVars, captureVars, slot, closing, calls, sealed,
                   heard, replayed, events, ownerVars>>

\* receive, pttOpen: a fresh context on every link of the peer, replacing any.
ReceiveOpen(i) ==
    /\ rail[i].kind = "open"
    /\ rail' = Taken(i) /\ clean' = (clean /\ i = 1)
    /\ ctx' = rail[i].id /\ opener' = FreshOpener
    /\ events' = Append(events, rail[i])
    /\ UNCHANGED <<holdVars, taskVars, captureVars, slot, closing, calls, sealed,
                   heard, replayed, ownerVars>>

\* receive, pttClose: every context of the peer goes, whatever its session.
ReceiveClose(i) ==
    /\ rail[i].kind = "close"
    /\ rail' = Taken(i) /\ clean' = (clean /\ i = 1)
    /\ ctx' = 0 /\ opener' = FreshOpener
    /\ events' = Append(events, rail[i])
    /\ UNCHANGED <<holdVars, taskVars, captureVars, slot, closing, calls, sealed,
                   heard, replayed, ownerVars>>

\* checkReplay lets counter q pass.
Fresh(q) ==
    \/ ~opener.seenAny
    \/ q > opener.highest
    \/ opener.highest - q < WindowSize /\ opener.highest - q \notin opener.bits

\* Fault: the window moves without its bits.
CommitUnshifted(q) ==
    IF ~opener.seenAny \/ q > opener.highest
    THEN [seenAny |-> TRUE, highest |-> q, bits |-> opener.bits \cup {0}]
    ELSE [opener EXCEPT !.bits = @ \cup {opener.highest - q}]

\* commit: the bits are offsets below highest; a shift drops those past the width.
Commit(q) ==
    IF ~opener.seenAny
    THEN [seenAny |-> TRUE, highest |-> q, bits |-> {0}]
    ELSE IF q > opener.highest
    THEN LET shift == q - opener.highest
         IN  [seenAny |-> TRUE, highest |-> q,
              bits |-> {0} \cup {b \in shift .. WindowSize - 1 : b - shift \in opener.bits}]
    ELSE [opener EXCEPT !.bits = @ \cup {opener.highest - q}]

\* ingestPTTAudio: a frame of the context's session that passes the window is
\* decoded (one of another session has no context or fails to authenticate).
ReceiveFrame(q) ==
    /\ ctx # 0 /\ q < sealed[ctx]
    /\ Fresh(q)
    /\ opener' = Commit(q)
    /\ heard' = [heard EXCEPT ![ctx] = @ \cup {q}]
    /\ replayed' = (replayed \/ q \in heard[ctx])
    /\ UNCHANGED <<holdVars, taskVars, captureVars, slot, closing, calls, sealed,
                   wireVars, ctx, events, ownerVars>>

\* PTTSessionOwner.opened: join a live audio session, else activate it and
\* commit only if that worked.
Opened(s) ==
    \/ /\ s \in open \/ open # {}
       /\ open' = open \cup {s} /\ UNCHANGED <<isLive, active>>
    \/ /\ open = {}
       /\ open' = {s} /\ isLive' = TRUE /\ active' = TRUE
    \/ /\ open = {}
       /\ UNCHANGED ownerVars

\* closed: the last session out lowers the flag and releases the audio session.
Closed(s) ==
    /\ open' = open \ {s}
    /\ IF open = {s} THEN isLive' = FALSE /\ active' = FALSE
       ELSE UNCHANGED <<isLive, active>>

\* MessageInbox.run hands the next event to onPTTSession.
HandleEvent ==
    /\ events # <<>>
    /\ events' = Tail(events)
    /\ IF Head(events).kind = "open" THEN Opened(Head(events).id)
       ELSE Closed(Head(events).id)
    /\ UNCHANGED <<holdVars, taskVars, captureVars, slot, closing, calls, sealed,
                   wireVars, receiveVars>>

\* interruptionBegan: every open session is closed; the wire is not told.
Interruption ==
    /\ open # {}
    /\ open' = {} /\ isLive' = FALSE /\ active' = FALSE
    /\ UNCHANGED <<holdVars, taskVars, captureVars, slot, closing, calls, sealed,
                   wireVars, receiveVars, events>>

\* The listener's app is killed and started again: nothing of this is stored.
ListenerRelaunch ==
    /\ ctx # 0 \/ events # <<>> \/ open # {}
    /\ ctx' = 0 /\ opener' = FreshOpener /\ events' = <<>>
    /\ open' = {} /\ isLive' = FALSE /\ active' = FALSE
    /\ UNCHANGED <<holdVars, taskVars, captureVars, slot, closing, calls, sealed,
                   wireVars, heard, replayed>>

-----------------------------------------------------------------------------
\* One step of the Task of press h.
TaskStep(h) ==
    \/ GateA(h) \/ OpenFails(h) \/ OpenRouted(h) \/ OpenReturns(h)
    \/ GateB(h) \/ PermissionAnswered(h) \/ GateC(h) \/ GateD(h)

RailStep(i) == RailLoses(i) \/ ReceiveOpen(i) \/ ReceiveClose(i)

Next ==
    \/ BeginPTT \/ EndPTT \/ Dismiss
    \/ \E h \in Holds : TaskStep(h) \/ CloseRuns(h)
    \/ SealFrame
    \/ \E i \in 1 .. Len(rail) : RailStep(i)
    \/ \E q \in Frames : ReceiveFrame(q)
    \/ HandleEvent \/ Interruption \/ ListenerRelaunch

Spec == Init /\ [][Next]_vars

\* Every Task and every closePTT call is scheduled, and the user answers the
\* permission prompt.  Nothing is assumed of presses, releases or the radio.
FairSpec ==
    /\ Spec
    /\ \A h \in Holds : WF_vars(TaskStep(h)) /\ WF_vars(CloseRuns(h))

-----------------------------------------------------------------------------
(* Properties *)

Message == [kind : {"open", "close"}, id : Holds]

\* Tokens and session ids name presses made so far or nobody, and the replay
\* bitmap never holds an offset past the window.
TypeOK ==
    /\ pressed \in BOOLEAN /\ holding \in BOOLEAN
    /\ token \in 0 .. MaxHolds /\ sessionID \in 0 .. MaxHolds
    /\ stage \in [Holds -> {"none", "entry", "opening", "routed", "gateB",
                            "permission", "gateC", "done"}]
    /\ live \in [Holds -> 0 .. MaxHolds]
    /\ mic \in {"idle", "starting", "recording"}
    /\ owner \in 0 .. MaxHolds /\ abort \in BOOLEAN /\ denied \in BOOLEAN
    /\ sealer \in 0 .. MaxHolds /\ slot \in 0 .. MaxHolds
    /\ closing \subseteq Holds /\ calls \in [Holds -> Nat]
    /\ sealed \in [Holds -> 0 .. MaxFrames]
    /\ rail \in Seq(Message) /\ clean \in BOOLEAN
    /\ ctx \in 0 .. MaxHolds
    /\ opener \in [seenAny : BOOLEAN, highest : Nat, bits : SUBSET (0 .. WindowSize - 1)]
    /\ heard \in [Holds -> SUBSET Frames] /\ replayed \in BOOLEAN
    /\ events \in Seq(Message)
    /\ open \subseteq Holds /\ isLive \in BOOLEAN /\ active \in BOOLEAN

\* The microphone records only for the press being held, in that press's
\* session and before that session is closed; a start that is still waiting
\* for the permission after its press ended is marked to abort.
MicOnlyWhileHeld ==
    /\ mic = "recording" =>
         /\ Current(owner)
         /\ sealer = sessionID
         /\ sealer # 0 => calls[sealer] = 0
    /\ mic = "starting" /\ ~abort => Current(owner)

\* Each session the talker opened is closed by one call at most, whichever
\* of the release, the dismissal and the gates gets to it; the record of the
\* open session never outlives the close of it.
ClosedOnce ==
    /\ \A s \in Holds : calls[s] <= (IF live[s] = s THEN 1 ELSE 0)
    /\ slot # 0 => (calls[slot] = 0 \/ slot \in closing)

\* A session whose press is over gets its pttClose sent or tried.
SessionsClosed ==
    \A s \in Holds :
        (live[s] = s /\ ~Current(s)) ~> (calls[s] = 1 /\ s \notin closing)

\* The anti-replay window remembers exactly the frames decoded in this
\* session that it still spans, so it rejects those and no others.
WindowExact ==
    opener.bits = {b \in 0 .. WindowSize - 1 :
                      ctx # 0 /\ b <= opener.highest /\ opener.highest - b \in heard[ctx]}

\* No audio frame is played twice, whatever is repeated on the air.
HeardOnce == ~replayed

\* The replay window does its work, no more and no less: nothing is played
\* twice, and nothing that was not played is rejected as a replay.
ReplayWindow == HeardOnce /\ WindowExact

\* The flag other audio clients obey is up exactly while a wire session holds
\* an audio session that was really activated.
LiveIsActive == isLive = (open # {}) /\ isLive = active

\* With a rail that lost and reordered nothing, a listener that has handled
\* everything the talker sent keeps no context and no live session once the
\* talker has closed all it opened, stale closes and overlaps included.
ListenerSettles ==
    (/\ clean /\ rail = <<>> /\ events = <<>>
     /\ \A h \in Holds : stage[h] # "routed" /\ (live[h] = h => calls[h] > 0 /\ h \notin closing))
    => ctx = 0 /\ open = {}
=============================================================================
