--------------------------- MODULE CallController ---------------------------
(***************************************************************************)
(* Calls: the two CallControllers of a conversation (each a main-actor     *)
(* state machine), the sealed signals between them, which are untracked    *)
(* and so may be lost or overtake one another (a replay does not open),    *)
(* and the WebRTC sessions each side makes.                                *)
(*                                                                         *)
(* An async operation of the controller occupies a slot from its first     *)
(* await to its last write; between them the controller serves taps,       *)
(* signals, timers and media callbacks in any order.                       *)
(***************************************************************************)
EXTENDS Naturals, FiniteSets

CONSTANTS
    Sides,     \* the two devices
    MaxCalls,  \* bound: call ids minted, by either side
    MaxOps,    \* bound: operations suspended at once on a side
    MaxTaps,   \* bound: accepts of one ring
    Patient    \* whether taps other than hang-up wait for a suspended operation

ASSUME CallAssumption ==
    /\ IsFiniteSet(Sides) /\ Cardinality(Sides) = 2
    /\ MaxCalls \in Nat
    /\ MaxOps \in Nat \ {0} /\ MaxTaps \in Nat \ {0}
    /\ Patient \in BOOLEAN

VARIABLES
    state,   \* CallController.state
    media,   \* the current session, or NoMedia
    timer,   \* the call the live ring timer was armed for
    op,      \* the suspended operation in each slot
    net,     \* signals under way (one that never arrives is lost)
    sess,    \* the status of every media session
    answered,\* the callee session whose answer the caller of a call applied
    caller,  \* ghost: the side that minted each call id
    taps,    \* accepts of each call
    missed,  \* ghost: onMissedCall firings of a side for a call
    talked   \* ghost: calls a side was .active in

vars == <<state, media, timer, op, net, sess, answered, caller, taps, missed,
          talked>>

Phases == {"idle", "outgoing", "incoming", "connecting", "active", "ended"}
OpKinds == {"none", "offer", "request", "answering", "answer", "cancel",
            "decline", "start"}
Sending == {"request", "answer", "cancel", "decline"}

Calls == 1 .. MaxCalls
NoCall == 0
Slots == 1 .. MaxOps

\* A media session belongs to a side and a call; accepts are numbered.
Sessions == Sides \X Calls \X (1 .. MaxTaps)
NoMedia == <<>>
SessionStates == {"none", "new", "offered", "checking", "connected", "dead",
                  "closed"}

Other(s) == CHOOSE t \in Sides : t # s
NoOp == [kind |-> "none", call |-> NoCall, session |-> NoMedia, sent |-> FALSE]
Signals == [kind : {"request", "answer", "decline"}, call : Calls, to : Sides,
            tap : 0 .. MaxTaps]

In(s, phase, c) == state[s] = [phase |-> phase, call |-> c]
Ringing(s, c) == In(s, "outgoing", c) \/ In(s, "incoming", c)
Become(s, phase, c) == state' = [state EXCEPT ![s] = [phase |-> phase, call |-> c]]
End(s) == Become(s, "ended", NoCall)
IsIdle(s) == In(s, "idle", NoCall)

\* teardownMedia: whatever session is current is closed.
TeardownMedia(s) ==
    /\ media' = [media EXCEPT ![s] = NoMedia]
    /\ sess' = IF media[s] = NoMedia THEN sess
               ELSE [sess EXCEPT ![media[s]] = "closed"]

StopRingTimer(s) == timer' = [timer EXCEPT ![s] = NoCall]
ArmRingTimer(s, c) == timer' = [timer EXCEPT ![s] = c]

\* An operation suspends for the first time, in the first free slot.
Begin(s, kind, c, x) ==
    \E o \in Slots :
        /\ op[s][o] = NoOp /\ \A lower \in 1 .. o - 1 : op[s][lower] # NoOp
        /\ op' = [op EXCEPT ![s][o] =
                     [kind |-> kind, call |-> c, session |-> x, sent |-> FALSE]]
Return(s, o) == op' = [op EXCEPT ![s][o] = NoOp]
Await(s, o, kind) == op' = [op EXCEPT ![s][o].kind = kind, ![s][o].sent = FALSE]

\* The user taps at any time; a patient one lets the side's suspended operations
\* finish before anything but a hang-up.
MayIntrude(s) == Patient => \A o \in Slots : op[s][o] = NoOp

Ghosts == <<caller, taps, missed, talked>>

-----------------------------------------------------------------------------
(* Outgoing *)

\* startCall up to makeOffer: the state is still .idle.
StartCall(s, c) ==
    LET x == <<s, c, 1>> IN
    /\ MayIntrude(s)
    /\ IsIdle(s)
    /\ caller[c] = {} /\ \A earlier \in 1 .. c - 1 : caller[earlier] # {}
    /\ caller' = [caller EXCEPT ![c] = {s}]
    /\ sess' = [sess EXCEPT ![x] = "new"]
    /\ media' = [media EXCEPT ![s] = x]
    /\ Begin(s, "offer", c, x)
    /\ UNCHANGED <<state, timer, net, answered, taps, missed, talked>>

\* makeOffer returned (a session closed meanwhile still has its description).
OfferReady(s, o) ==
    LET x == op[s][o].session IN
    /\ op[s][o].kind = "offer"
    /\ sess' = IF sess[x] = "new" THEN [sess EXCEPT ![x] = "offered"] ELSE sess
    /\ Become(s, "outgoing", op[s][o].call)
    /\ Await(s, o, "request")
    /\ UNCHANGED <<media, timer, net, answered, Ghosts>>

\* Fault: no timer is armed once the request is out.
RequestSentNoTimer(s, o) ==
    /\ op[s][o].kind = "request" /\ op[s][o].sent
    /\ Return(s, o)
    /\ UNCHANGED <<state, media, timer, net, sess, answered, Ghosts>>

\* sendSignal of the request returned.
RequestSent(s, o) ==
    /\ op[s][o].kind = "request" /\ op[s][o].sent
    /\ ArmRingTimer(s, op[s][o].call)
    /\ Return(s, o)
    /\ UNCHANGED <<state, media, net, sess, answered, Ghosts>>

\* makeOffer, makeAnswer, or the sending of either, threw.
SetupThrows(s, o) ==
    /\ op[s][o].kind \in {"offer", "request", "answering", "answer"}
    /\ ~op[s][o].sent
    /\ TeardownMedia(s)
    /\ End(s)
    /\ Return(s, o)
    /\ UNCHANGED <<timer, net, answered, Ghosts>>

\* cancelOutgoing up to its sendSignal.
CancelOutgoing(s, c) ==
    /\ MayIntrude(s)
    /\ In(s, "outgoing", c)
    /\ StopRingTimer(s)
    /\ TeardownMedia(s)
    /\ Begin(s, "cancel", c, NoMedia)
    /\ UNCHANGED <<state, net, answered, Ghosts>>

-----------------------------------------------------------------------------
(* Incoming *)

\* accept up to makeAnswer: the ring is still up.
Accept(s, c) ==
    LET x == <<s, c, taps[c] + 1>> IN
    /\ MayIntrude(s)
    /\ In(s, "incoming", c)
    /\ taps[c] < MaxTaps
    /\ taps' = [taps EXCEPT ![c] = @ + 1]
    /\ StopRingTimer(s)
    /\ sess' = [sess EXCEPT ![x] = "new"]
    /\ media' = [media EXCEPT ![s] = x]
    /\ Begin(s, "answering", c, x)
    /\ UNCHANGED <<state, net, answered, caller, missed, talked>>

\* makeAnswer returned, ICE is running.
AnswerReady(s, o) ==
    LET x == op[s][o].session IN
    /\ op[s][o].kind = "answering"
    /\ sess' = IF sess[x] = "new" THEN [sess EXCEPT ![x] = "checking"] ELSE sess
    /\ Become(s, "connecting", op[s][o].call)
    /\ Await(s, o, "answer")
    /\ UNCHANGED <<media, timer, net, answered, Ghosts>>

AnswerSent(s, o) ==
    /\ op[s][o].kind = "answer" /\ op[s][o].sent
    /\ Return(s, o)
    /\ UNCHANGED <<state, media, timer, net, sess, answered, Ghosts>>

\* decline up to its sendSignal.
Decline(s, c) ==
    /\ MayIntrude(s)
    /\ In(s, "incoming", c)
    /\ StopRingTimer(s)
    /\ Begin(s, "decline", c, NoMedia)
    /\ UNCHANGED <<state, media, net, sess, answered, Ghosts>>

\* The try? sendSignal of a cancel or a decline returned, sent or not.
GiveUpReturns(s, o) ==
    /\ op[s][o].kind \in {"cancel", "decline"}
    /\ End(s)
    /\ Return(s, o)
    /\ UNCHANGED <<media, timer, net, sess, answered, Ghosts>>

-----------------------------------------------------------------------------
(* Either side *)

\* hangUp (a tap, or endForExternalEvent).
HangUp(s, c) ==
    /\ In(s, "connecting", c) \/ In(s, "active", c)
    /\ TeardownMedia(s)
    /\ End(s)
    /\ UNCHANGED <<timer, op, net, answered, Ghosts>>

\* reset, by the button of the outcome screen.
Reset(s) ==
    /\ MayIntrude(s)
    /\ In(s, "ended", NoCall)
    /\ Become(s, "idle", NoCall)
    /\ UNCHANGED <<media, timer, op, net, sess, answered, Ghosts>>

\* sendCallSignal: a transport takes the sealed signal; the await resumes later.
SignalLeaves(s, o) ==
    LET p == op[s][o]
        kind == IF p.kind \in {"request", "answer"} THEN p.kind ELSE "decline"
    IN
    /\ p.kind \in Sending /\ ~p.sent
    /\ op' = [op EXCEPT ![s][o].sent = TRUE]
    /\ net' = net \cup {[kind |-> kind, call |-> p.call, to |-> Other(s),
                         tap |-> IF kind = "answer" THEN p.session[3] ELSE 0]}
    /\ UNCHANGED <<state, media, timer, sess, answered, Ghosts>>

-----------------------------------------------------------------------------
(* handleInbound, one action per case *)

Arrives(m, kind) == m \in net /\ m.kind = kind /\ net' = net \ {m}

InboundRing(m) ==
    /\ Arrives(m, "request")
    /\ IsIdle(m.to)
    /\ Become(m.to, "incoming", m.call)
    /\ ArmRingTimer(m.to, m.call)
    /\ UNCHANGED <<media, op, sess, answered, Ghosts>>

\* Busy: the new attempt is declined, the current one untouched.  Nothing
\* follows the await, so the decline just leaves (or is lost).
InboundBusy(m) ==
    /\ m \in net /\ m.kind = "request"
    /\ ~IsIdle(m.to)
    /\ net' = (net \ {m}) \cup {[kind |-> "decline", call |-> m.call,
                                 to |-> Other(m.to), tap |-> 0]}
    /\ UNCHANGED <<state, media, timer, op, sess, answered, Ghosts>>

\* Fault: an answer is applied to whatever ring is up.
InboundAnswerAnyCall(m) ==
    \E c \in Calls :
    /\ Arrives(m, "answer")
    /\ In(m.to, "outgoing", c)
    /\ StopRingTimer(m.to)
    /\ Become(m.to, "connecting", c)
    /\ Begin(m.to, "start", m.call, media[m.to])
    /\ answered' = [answered EXCEPT ![m.call] = m.tap]
    /\ UNCHANGED <<media, sess, Ghosts>>

\* Their answer to our ring, up to media.start.
InboundAnswer(m) ==
    /\ Arrives(m, "answer")
    /\ In(m.to, "outgoing", m.call)
    /\ StopRingTimer(m.to)
    /\ Become(m.to, "connecting", m.call)
    /\ Begin(m.to, "start", m.call, media[m.to])
    /\ answered' = [answered EXCEPT ![m.call] = m.tap]
    /\ UNCHANGED <<media, sess, Ghosts>>

\* media?.start returned: nothing to start, or the offer got its answer.
StartReturns(s, o) ==
    LET x == op[s][o].session IN
    /\ op[s][o].kind = "start"
    /\ \/ x = NoMedia /\ UNCHANGED sess
       \/ /\ x # NoMedia /\ sess[x] = "offered"
          /\ sess' = [sess EXCEPT ![x] = "checking"]
    /\ Return(s, o)
    /\ UNCHANGED <<state, media, timer, net, answered, Ghosts>>

\* ... or threw (always for a session that is closed or made no offer).
StartThrows(s, o) ==
    /\ op[s][o].kind = "start"
    /\ op[s][o].session # NoMedia
    /\ TeardownMedia(s)
    /\ End(s)
    /\ Return(s, o)
    /\ UNCHANGED <<timer, net, answered, Ghosts>>

\* Fault: the session of a declined ring is not closed.
InboundDeclinedKeepsMedia(m) ==
    /\ Arrives(m, "decline")
    /\ In(m.to, "outgoing", m.call)
    /\ StopRingTimer(m.to)
    /\ End(m.to)
    /\ UNCHANGED <<media, sess, op, answered, Ghosts>>

InboundDeclined(m) ==
    /\ Arrives(m, "decline")
    /\ In(m.to, "outgoing", m.call)
    /\ StopRingTimer(m.to)
    /\ TeardownMedia(m.to)
    /\ End(m.to)
    /\ UNCHANGED <<op, answered, Ghosts>>

\* The caller cancelled while our banner was up.
InboundCancelled(m) ==
    /\ Arrives(m, "decline")
    /\ In(m.to, "incoming", m.call)
    /\ StopRingTimer(m.to)
    /\ End(m.to)
    /\ missed' = [missed EXCEPT ![m.to][m.call] = @ + 1]
    /\ UNCHANGED <<media, op, sess, answered, caller, taps, talked>>

InboundStale(m) ==
    /\ m \in net /\ net' = net \ {m}
    /\ \/ m.kind = "answer" /\ ~In(m.to, "outgoing", m.call)
       \/ m.kind = "decline" /\ ~Ringing(m.to, m.call)
    /\ UNCHANGED <<state, media, timer, op, sess, answered, Ghosts>>

-----------------------------------------------------------------------------
(* Ring timer and media callbacks *)

\* makeOffer and makeAnswer end within gatherTimeout, far below ringTimeout: a
\* ring that came up meanwhile cannot time out before they return.
Gathering(s) == \E o \in Slots : op[s][o].kind \in {"offer", "answering"}

\* Fault: the timer does not ask which call is ringing.
RingTimerFiresBlindly(s) ==
    /\ timer[s] # NoCall /\ ~Gathering(s)
    /\ StopRingTimer(s)
    /\ TeardownMedia(s)
    /\ End(s)
    /\ missed' = [missed EXCEPT ![s][timer[s]] = @ + 1]
    /\ UNCHANGED <<op, net, answered, caller, taps, talked>>

RingTimerFires(s) ==
    LET c == timer[s] IN
    /\ c # NoCall /\ ~Gathering(s)
    /\ StopRingTimer(s)
    /\ IF Ringing(s, c)
       THEN /\ TeardownMedia(s)
            /\ End(s)
            /\ missed' = [missed EXCEPT ![s][c] = @ + 1]
       ELSE UNCHANGED <<state, media, sess, missed>>
    /\ UNCHANGED <<op, net, answered, caller, taps, talked>>

\* The session at the other end that x exchanged descriptions with.
Partner(x) ==
    IF caller[x[2]] = {x[1]} THEN <<Other(x[1]), x[2], answered[x[2]]>>
    ELSE <<Other(x[1]), x[2], 1>>
Joined(x) == IF caller[x[2]] = {x[1]} THEN answered[x[2]] # 0
             ELSE answered[x[2]] = x[3]

\* onConnected.
MediaConnects(x) ==
    LET s == x[1]  c == x[2] IN
    /\ sess[x] = "checking"
    /\ Joined(x) /\ sess[Partner(x)] \in {"checking", "connected"}
    /\ sess' = [sess EXCEPT ![x] = "connected"]
    /\ IF In(s, "connecting", c)
       THEN /\ Become(s, "active", c)
            /\ talked' = [talked EXCEPT ![s] = @ \cup {c}]
       ELSE UNCHANGED <<state, talked>>
    /\ UNCHANGED <<media, timer, op, net, answered, caller, taps, missed>>

\* A terminal callback ends the call it was wired for and closes the CURRENT
\* session.
MediaEnds(x, phases) ==
    LET s == x[1]  c == x[2] IN
    IF \E p \in phases : In(s, p, c)
    THEN /\ End(s)
         /\ media' = [media EXCEPT ![s] = NoMedia]
         /\ sess' = [y \in Sessions |-> IF y = media[s] THEN "closed"
                                        ELSE IF y = x THEN "dead" ELSE sess[y]]
    ELSE /\ sess' = [sess EXCEPT ![x] = "dead"]
         /\ UNCHANGED <<state, media>>

\* onFailed: ICE gave up.
MediaFails(x) ==
    /\ sess[x] = "checking"
    /\ MediaEnds(x, {"connecting", "active"})
    /\ UNCHANGED <<timer, op, net, answered, Ghosts>>

\* Fault: the end of the connection is only heeded while connecting.
MediaRemoteEndedUnheeded(x) ==
    /\ sess[x] = "connected"
    /\ MediaEnds(x, {"connecting"})
    /\ UNCHANGED <<timer, op, net, answered, Ghosts>>

\* onRemoteEnded: the far end closed, or the network died.
MediaRemoteEnded(x) ==
    /\ sess[x] = "connected"
    /\ MediaEnds(x, {"active"})
    /\ UNCHANGED <<timer, op, net, answered, Ghosts>>

-----------------------------------------------------------------------------

Init ==
    /\ state = [s \in Sides |-> [phase |-> "idle", call |-> NoCall]]
    /\ media = [s \in Sides |-> NoMedia]
    /\ timer = [s \in Sides |-> NoCall]
    /\ op = [s \in Sides |-> [o \in Slots |-> NoOp]]
    /\ net = {}
    /\ sess = [x \in Sessions |-> "none"]
    /\ answered = [c \in Calls |-> 0]
    /\ caller = [c \in Calls |-> {}]
    /\ taps = [c \in Calls |-> 0]
    /\ missed = [s \in Sides |-> [c \in Calls |-> 0]]
    /\ talked = [s \in Sides |-> {}]

Tap(s) ==
    \/ Reset(s)
    \/ \E c \in Calls : \/ StartCall(s, c) \/ CancelOutgoing(s, c)
                        \/ Accept(s, c) \/ Decline(s, c) \/ HangUp(s, c)

Resume(s, o) ==
    \/ OfferReady(s, o) \/ RequestSent(s, o) \/ SetupThrows(s, o)
    \/ AnswerReady(s, o) \/ AnswerSent(s, o) \/ GiveUpReturns(s, o)
    \/ StartReturns(s, o) \/ StartThrows(s, o)

Inbound(m) ==
    \/ InboundRing(m) \/ InboundDeclined(m) \/ InboundCancelled(m)
    \/ InboundStale(m) \/ InboundBusy(m) \/ InboundAnswer(m)

IceVerdict(x) == MediaConnects(x) \/ MediaFails(x)

Next ==
    \/ \E s \in Sides, o \in Slots : Resume(s, o) \/ SignalLeaves(s, o)
    \/ \E s \in Sides : Tap(s) \/ RingTimerFires(s)
    \/ \E m \in net : Inbound(m)
    \/ \E x \in Sessions : IceVerdict(x) \/ MediaRemoteEnded(x)

Spec == Init /\ [][Next]_vars

\* An outcome ICE owes: a verdict, or the news that the far end is gone.
IceProgress(x) ==
    \/ IceVerdict(x)
    \/ Joined(x) /\ sess[Partner(x)] \in {"dead", "closed"} /\ MediaRemoteEnded(x)

\* Awaits return, the ring timer runs and ICE reports.  Nobody has to tap
\* anything, and no signal has to arrive.  (Call ids being finite, every
\* behaviour settles, and fairness of the disjunction is fairness of each.)
Progress ==
    \/ \E s \in Sides : RingTimerFires(s) \/ \E o \in Slots : Resume(s, o)
    \/ \E x \in Sessions : IceProgress(x)

FairSpec == Spec /\ WF_vars(Progress)

-----------------------------------------------------------------------------
(* Properties *)

\* Every variable has its shape; a suspended operation and a state other than
\* idle and ended name their call.
TypeOK ==
    /\ state \in [Sides -> [phase : Phases, call : Calls \cup {NoCall}]]
    /\ media \in [Sides -> Sessions \cup {NoMedia}]
    /\ timer \in [Sides -> Calls \cup {NoCall}]
    /\ op \in [Sides -> [Slots -> [kind : OpKinds, call : Calls \cup {NoCall},
                 session : Sessions \cup {NoMedia}, sent : BOOLEAN]]]
    /\ net \subseteq Signals
    /\ sess \in [Sessions -> SessionStates]
    /\ answered \in [Calls -> 0 .. MaxTaps]
    /\ caller \in [Calls -> SUBSET Sides]
    /\ taps \in [Calls -> 0 .. MaxTaps]
    /\ missed \in [Sides -> [Calls -> Nat]]
    /\ talked \in [Sides -> SUBSET Calls]
    /\ \A s \in Sides :
         /\ state[s].call = NoCall <=> state[s].phase \in {"idle", "ended"}
         /\ \A o \in Slots : op[s][o].kind # "none" => op[s][o].call \in Calls

\* Nobody is connected to a call its callee did not accept, however late the
\* answer to an earlier attempt arrives.
ConnectedWasAccepted ==
    \A s \in Sides, c \in Calls :
        In(s, "connecting", c) \/ In(s, "active", c) => taps[c] > 0

\* onMissedCall: a side records a call as missed at most once, and never one it
\* talked on.
MissedIsMissed ==
    \A s \in Sides, c \in Calls :
        /\ missed[s][c] <= 1
        /\ missed[s][c] > 0 => c \notin talked[s]

\* States, operations and the record of missed calls are consistent.
CallsConsistent == TypeOK /\ MissedIsMissed

Open == {x \in Sessions : sess[x] \notin {"none", "closed"}}

\* startCall: "No-op unless idle (one call at a time)": a side never holds two
\* open media sessions (each has the microphone).
OneCallAtATime ==
    \A x, y \in Open : x[1] = y[1] => x = y

\* Once a side's operations have returned, a session is open only for the call
\* on the screen: no ended, idle or ringing-in side keeps the microphone.
MediaFollowsState ==
    \A s \in Sides :
        (\A o \in Slots : op[s][o] = NoOp)
          => \A x \in Open : x[1] = s
               => \E p \in {"outgoing", "connecting", "active"} : In(s, p, x[2])

\* A ring ends on both sides, and an accepted call connects or fails, whatever
\* signal is lost: nobody rings or connects for ever.
AttemptResolves ==
    \A s \in Sides, c \in Calls :
        Ringing(s, c) \/ In(s, "connecting", c)
          ~> ~(Ringing(s, c) \/ In(s, "connecting", c))

\* "closing the RTC connection IS the hang-up": a side is not left talking on a
\* call the other side has left.
HangUpReachesPeer ==
    \A s \in Sides, c \in Calls :
        (In(s, "active", c) /\ state[Other(s)].call # c) ~> ~In(s, "active", c)
=============================================================================
