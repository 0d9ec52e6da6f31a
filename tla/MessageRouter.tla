---------------------------- MODULE MessageRouter ----------------------------
(***************************************************************************)
(* Core/Protocol_Seam/MessageRouter.swift: the actor that routes sealed    *)
(* envelopes, tracks the delivery state of outbound messages, and dedups   *)
(* and relays inbound ones.                                                *)
(*                                                                         *)
(* A Swift actor runs one job at a time but releases itself at every       *)
(* `await`, so each async method is cut at the awaits that can suspend:    *)
(* `calls` holds the suspended outbound calls, `inb` the suspended inbound *)
(* handler of each transport.  What happens at the other end of the await  *)
(* (the radio, the relay pool) is a choice made when the call resumes.     *)
(*                                                                         *)
(* A stuck-send timer is a Task: it sleeps, checks Task.isCancelled OFF    *)
(* the actor, and only then asks the actor to run timeoutFired.  Hence     *)
(* "sleeping" (cancellable) and "elapsed" (past the check, no longer       *)
(* cancellable, its actor hop still queued).  `timeouts` is the            *)
(* dictionary of handles; a task can outlive its handle.                   *)
(***************************************************************************)
EXTENDS FifoCache, FiniteSets

CONSTANTS
    MsgIds,        \* wire ids of tracked messages (a text, a media transfer)
    ControlIds,    \* ids of untracked envelopes: acks, manifests, chunks
    ForeignIds,    \* ids of envelopes other nodes originate
    Peers,         \* raw identity keys of contacts
    NoPeer,        \* "peerKey == nil"
    NoId,          \* the id field of an idle call or a free task
    NoTask,        \* "timeouts[id] == nil"
    TaskIds,       \* bound: timer tasks alive at one time
    Calls,         \* bound: outbound async calls suspended at one time
    MaxReroutes,   \* bound: rerouteToNostr calls running at one time
    SeenCapacity,  \* SeenCache.capacity
    AddressedWired \* whether an AddressedTransport (Nostr) is wired in

ASSUME IdsAssumption ==
    /\ NoPeer \notin Peers
    /\ NoTask \notin TaskIds
    /\ NoId \notin MsgIds \cup ControlIds \cup ForeignIds
    /\ MsgIds \cap (ControlIds \cup ForeignIds) = {}
    /\ ControlIds \cap ForeignIds = {}

ASSUME BoundsAssumption ==
    /\ SeenCapacity \in Nat \ {0}
    /\ IsFiniteSet(Calls)
    /\ MaxReroutes \in Nat
    /\ AddressedWired \in BOOLEAN

VARIABLES
    outbox,    \* [MsgIds -> entry], st = "none" when there is no entry
    timeouts,  \* [MsgIds -> TaskIds \cup {NoTask}], the handles
    task,      \* the timer tasks
    calls,     \* suspended outbound calls
    seen,      \* SeenCache.order
    inb,       \* the inbound envelope each transport's consumer is handling
    phase,     \* "new", "running" after start, "stopped" after stop
    out,       \* output port: the DeliveryUpdate the last step yielded
    handoffs,  \* ghost: relay hand-offs rerouteToNostr made of this entry
    emitted,   \* ghost: own ids handed to a transport
    opened     \* ghost: times an id was handed to the EnvelopeReceiver

vars == <<outbox, timeouts, task, calls, seen, inb, phase, out, handoffs,
          emitted, opened>>

-----------------------------------------------------------------------------
(* Data *)

Ids == MsgIds \cup ControlIds \cup ForeignIds

Kinds == {"ble", "nostr"}

\* MessageDeliveryState; relayed(hops:) keeps only that hops >= 1.
DeliveryStates == {"waitingForRange", "sent", "cast", "delivered", "relayed",
                   "findingPath", "notDelivered"}

\* isTerminal
IsTerminal(s) == s \in {"delivered", "relayed", "notDelivered"}

\* OutboxEntry.  env: the sealed envelope is retained; npub: nostrRecipient is
\* known; peer: peerKey.
NoEntry == [st |-> "none", env |-> FALSE, peer |-> NoPeer, npub |-> FALSE,
            rerouted |-> FALSE]

OutboxEntry(env, peer, npub) ==
    [st |-> "sent", env |-> env, peer |-> peer, npub |-> npub,
     rerouted |-> FALSE]

FreeTask == [st |-> "free", id |-> NoId]
IdleCall == [op |-> "idle", id |-> NoId, npub |-> FALSE, todo |-> {}]
IdleInb  == [stage |-> "idle", id |-> NoId]
NoUpdate == [id |-> NoId, st |-> "none"]

Tracked(id) == outbox[id].st # "none"

\* entry.state is neither terminal nor .cast: the guard of both re-arm calls
Timeable(id) == outbox[id].st \in {"waitingForRange", "sent", "findingPath"}

Idle(c) == calls[c].op = "idle"

-----------------------------------------------------------------------------
(* Helpers: update, armTimeout, cancelTimeout *)

\* Task.cancel() on the handle: a sleeping task ends without effect; a task
\* that has already passed its isCancelled check is not stopped.
Cancelled(id) ==
    IF timeouts[id] # NoTask /\ task[timeouts[id]].st = "sleeping"
    THEN [task EXCEPT ![timeouts[id]] = FreeTask]
    ELSE task

CancelTimeout(id) ==
    /\ task' = Cancelled(id)
    /\ timeouts' = [timeouts EXCEPT ![id] = NoTask]

KeepTimers == UNCHANGED <<timeouts, task>>

\* armTimeout: cancel the old timer, start a new task, keep its handle.
ArmTimeout(id) ==
    \E t \in TaskIds :
        /\ Cancelled(id)[t] = FreeTask
        /\ task' = [Cancelled(id) EXCEPT ![t] = [st |-> "sleeping", id |-> id]]
        /\ timeouts' = [timeouts EXCEPT ![id] = t]

\* outbox[id]?.state = state; updates.yield(...)
SetState(id, s) ==
    /\ outbox' = [outbox EXCEPT ![id].st = s]
    /\ out' = [id |-> id, st |-> s]

Update(id, s) ==
    /\ SetState(id, s)
    /\ IF IsTerminal(s) THEN CancelTimeout(id) ELSE KeepTimers

Quiet == out' = NoUpdate

\* Fault: the sender does not mark its own envelope as seen.
MarkSeenNever(id) ==
    /\ seen' = seen
    /\ emitted' = emitted \cup {id}

\* `_ = seen.containsOrInsert(envelope.id)` on the sending side.
MarkSeen(id) ==
    /\ seen' = Insert(seen, SeenCapacity, id)
    /\ emitted' = emitted \cup {id}

Dedup == <<seen, emitted>>

Inbound == <<inb, phase, opened>>

-----------------------------------------------------------------------------
(* Outbound: send *)

\* Entry of send up to `await ble.send`: a tracked message gets a FRESH outbox
\* entry (whatever the old one said), and the id is marked seen either way.
Send(c, id, peer, npub) ==
    /\ Idle(c)
    /\ calls' = [calls EXCEPT ![c] =
                    [op |-> "ble", id |-> id, npub |-> npub, todo |-> {}]]
    /\ IF id \in MsgIds
       THEN /\ outbox' = [outbox EXCEPT ![id] = OutboxEntry(TRUE, peer, npub)]
            /\ handoffs' = [handoffs EXCEPT ![id] = 0]
       ELSE UNCHANGED <<outbox, handoffs>>
    /\ MarkSeen(id)
    /\ Quiet
    /\ UNCHANGED <<timeouts, task, Inbound>>

\* The tail of send once `resulting` is known.
FinishSend(c, resulting) ==
    LET id == calls[c].id IN
    /\ calls' = [calls EXCEPT ![c] = IdleCall]
    /\ IF id \in MsgIds
       THEN IF resulting = "sent"
            THEN SetState(id, "sent") /\ ArmTimeout(id)
            ELSE Update(id, resulting)
       ELSE UNCHANGED <<outbox, timeouts, task>> /\ Quiet
    /\ UNCHANGED <<Dedup, handoffs, Inbound>>

\* ble.send returned: handed to the radio.
BleSent(c) == calls[c].op = "ble" /\ FinishSend(c, "sent")

\* ble.send threw noReachablePeers and publishViaNostr's guard fails.
BleNoPeersNoRelay(c) ==
    /\ calls[c].op = "ble"
    /\ ~(calls[c].npub /\ AddressedWired)
    /\ FinishSend(c, "waitingForRange")

\* ble.send threw noReachablePeers: Tier 2, suspend on addressed.publish.
BleNoPeersTryRelay(c) ==
    /\ calls[c].op = "ble"
    /\ calls[c].npub /\ AddressedWired
    /\ calls' = [calls EXCEPT ![c].op = "relay"]
    /\ Quiet
    /\ UNCHANGED <<outbox, timeouts, task, Dedup, handoffs, Inbound>>

\* Any other transport error.
BleFailed(c) == calls[c].op = "ble" /\ FinishSend(c, "notDelivered")

\* The publish returned (>= 1 live relay took the wrap) or threw.
RelayTook(c)   == calls[c].op = "relay" /\ FinishSend(c, "cast")
RelayMissed(c) == calls[c].op = "relay" /\ FinishSend(c, "waitingForRange")

\* resend: the retained envelope again, with peerKey and nostrRecipient nil.
Resend(c, id) ==
    /\ outbox[id].env
    /\ Send(c, id, NoPeer, FALSE)

\* publishOverNostr: seen-mark, suspend on the publish; the outcome goes to
\* the caller, no outbox entry changes.
PublishOverNostr(c, id) ==
    /\ Idle(c)
    /\ AddressedWired
    /\ calls' = [calls EXCEPT ![c] =
                    [op |-> "publish", id |-> id, npub |-> TRUE, todo |-> {}]]
    /\ MarkSeen(id)
    /\ Quiet
    /\ UNCHANGED <<outbox, timeouts, task, handoffs, Inbound>>

PublishReturned(c) ==
    /\ calls[c].op = "publish"
    /\ calls' = [calls EXCEPT ![c] = IdleCall]
    /\ Quiet
    /\ UNCHANGED <<outbox, timeouts, task, Dedup, handoffs, Inbound>>

-----------------------------------------------------------------------------
(* Outbound: rerouteToNostr *)

\* The loop's guard.  `for (id, entry) in outbox` iterates a COPY of the
\* dictionary, so the guard reads the entries as they were when the call
\* began: the ids it will visit are fixed there.
Eligible(departed) ==
    {id \in MsgIds : /\ Tracked(id) /\ ~IsTerminal(outbox[id].st)
                     /\ ~outbox[id].rerouted
                     /\ outbox[id].peer \in departed
                     /\ outbox[id].env
                     /\ outbox[id].npub}

\* Fault: the entry is handed off without being marked rerouted.
HandOffUnmarked(c, entries, next, rest) ==
    /\ outbox' = entries
    /\ handoffs' = [handoffs EXCEPT ![next] = @ + 1]
    /\ calls' = [calls EXCEPT ![c] =
                    [op |-> "reroute", id |-> next, npub |-> TRUE,
                     todo |-> rest]]

\* Mark `next` rerouted and suspend on its publish; entries says what the
\* outbox is before the mark.
HandOff(c, entries, next, rest) ==
    /\ outbox' = [entries EXCEPT ![next].rerouted = TRUE]
    /\ handoffs' = [handoffs EXCEPT ![next] = @ + 1]
    /\ calls' = [calls EXCEPT ![c] =
                    [op |-> "reroute", id |-> next, npub |-> TRUE,
                     todo |-> rest]]

RerouteToNostr(c, departed) ==
    /\ Idle(c)
    /\ AddressedWired
    /\ Cardinality({d \in Calls : calls[d].op = "reroute"}) < MaxReroutes
    /\ \E next \in Eligible(departed) :
          HandOff(c, outbox, next, Eligible(departed) \ {next})
    /\ Quiet
    /\ UNCHANGED <<timeouts, task, Dedup, Inbound>>

\* Continue the loop after one publish, or return.
NextHandOff(c, entries) ==
    IF calls[c].todo = {}
    THEN /\ outbox' = entries
         /\ calls' = [calls EXCEPT ![c] = IdleCall]
         /\ UNCHANGED handoffs
    ELSE \E next \in calls[c].todo :
            HandOff(c, entries, next, calls[c].todo \ {next})

\* The publish succeeded: commitToRelay(id), whatever the entry says by now.
RerouteTook(c) ==
    LET id == calls[c].id IN
    /\ calls[c].op = "reroute"
    /\ NextHandOff(c, [outbox EXCEPT ![id].st = "cast"])
    /\ out' = [id |-> id, st |-> "cast"]
    /\ CancelTimeout(id)
    /\ UNCHANGED <<Dedup, Inbound>>

\* Fault: a missed publish gives up the radio's timer as well.
RerouteMissedUntimed(c) ==
    /\ calls[c].op = "reroute"
    /\ NextHandOff(c, outbox)
    /\ CancelTimeout(calls[c].id)
    /\ Quiet
    /\ UNCHANGED <<Dedup, Inbound>>

\* The publish failed: the entry and its timer stay as they are.
RerouteMissed(c) ==
    /\ calls[c].op = "reroute"
    /\ NextHandOff(c, outbox)
    /\ Quiet
    /\ UNCHANGED <<timeouts, task, Dedup, Inbound>>

-----------------------------------------------------------------------------
(* Outbound: the synchronous operations *)

\* beginTracking: media, and text committed to the relay up front.
BeginTracking(id) ==
    /\ ~Tracked(id)
    /\ outbox' = [outbox EXCEPT ![id] = OutboxEntry(FALSE, NoPeer, FALSE)]
    /\ handoffs' = [handoffs EXCEPT ![id] = 0]
    /\ Quiet
    /\ UNCHANGED <<timeouts, task, calls, Dedup, Inbound>>

Rearm(id) ==
    /\ Timeable(id)
    /\ ArmTimeout(id)
    /\ Quiet
    /\ UNCHANGED <<outbox, calls, Dedup, handoffs, Inbound>>

StartDeliveryTimeout(id) == Rearm(id)
ExtendTimeout(id)        == Rearm(id)

\* The shape shared by the confirmations: a tracked id, one update.
Confirm(id, s) ==
    /\ Tracked(id)
    /\ Update(id, s)
    /\ UNCHANGED <<calls, Dedup, handoffs, Inbound>>

MarkFindingPath(id)       == Confirm(id, "findingPath")
ConfirmDelivery(id, hops) ==
    Confirm(id, IF hops <= 0 THEN "delivered" ELSE "relayed")
ConfirmFailure(id)        == Confirm(id, "notDelivered")

CommitToRelay(id) ==
    /\ Tracked(id)
    /\ SetState(id, "cast")
    /\ CancelTimeout(id)
    /\ UNCHANGED <<calls, Dedup, handoffs, Inbound>>

-----------------------------------------------------------------------------
(* The timer task *)

\* The sleep ran out and `guard !Task.isCancelled` passed.
TimerElapses(t) ==
    /\ task[t].st = "sleeping"
    /\ task' = [task EXCEPT ![t].st = "elapsed"]
    /\ Quiet
    /\ UNCHANGED <<outbox, timeouts, calls, Dedup, handoffs, Inbound>>

\* Fault: timeoutFired leaves its own handle in the dictionary.
TimeoutFiredKeepsHandle(t) ==
    LET id == task[t].id IN
    /\ task[t].st = "elapsed"
    /\ task' = [task EXCEPT ![t] = FreeTask]
    /\ IF Tracked(id) /\ ~IsTerminal(outbox[id].st)
       THEN SetState(id, "notDelivered")
       ELSE Quiet /\ UNCHANGED outbox
    /\ UNCHANGED <<timeouts, calls, Dedup, handoffs, Inbound>>

\* timeoutFired: clears whatever handle is stored under the id (its own or a
\* newer one) without cancelling it, then fails a non-terminal entry.
TimeoutFired(t) ==
    LET id == task[t].id IN
    /\ task[t].st = "elapsed"
    /\ task' = [task EXCEPT ![t] = FreeTask]
    /\ timeouts' = [timeouts EXCEPT ![id] = NoTask]
    /\ IF Tracked(id) /\ ~IsTerminal(outbox[id].st)
       THEN SetState(id, "notDelivered")
       ELSE Quiet /\ UNCHANGED outbox
    /\ UNCHANGED <<calls, Dedup, handoffs, Inbound>>

-----------------------------------------------------------------------------
(* Inbound: handleInbound, one envelope at a time per transport *)

\* Dedup, then suspend: on the split-horizon relay for a BLE arrival that may
\* still be forwarded, otherwise on the receiver.
HandleInbound(kind, id, ttl) ==
    /\ phase = "running"
    /\ inb[kind] = IdleInb
    /\ id \in ForeignIds \cup emitted
    /\ seen' = Insert(seen, SeenCapacity, id)
    /\ IF Contains(seen, id)
       THEN UNCHANGED inb
       ELSE inb' = [inb EXCEPT ![kind] =
               [id |-> id,
                stage |-> IF kind = "ble" /\ ttl > 0 THEN "relay" ELSE "receive"]]
    /\ Quiet
    /\ UNCHANGED <<outbox, timeouts, task, calls, handoffs, phase, emitted, opened>>

\* t.relay(...) returned for every transport.
InboundRelayed(kind) ==
    /\ inb[kind].stage = "relay"
    /\ inb' = [inb EXCEPT ![kind].stage = "receive"]
    /\ Quiet
    /\ UNCHANGED <<outbox, timeouts, task, calls, Dedup, handoffs, phase,
                   opened>>

\* receiver.receive(envelope)
InboundReceived(kind) ==
    /\ inb[kind].stage = "receive"
    /\ opened' = [opened EXCEPT ![inb[kind].id] = @ + 1]
    /\ inb' = [inb EXCEPT ![kind] = IdleInb]
    /\ Quiet
    /\ UNCHANGED <<outbox, timeouts, task, calls, Dedup, handoffs, phase>>

-----------------------------------------------------------------------------
(* Lifecycle *)

Start ==
    /\ phase = "new"
    /\ phase' = "running"
    /\ Quiet
    /\ UNCHANGED <<outbox, timeouts, task, calls, Dedup, inb, handoffs, opened>>

\* stop: every held timer is cancelled; entries keep their state.
Stop ==
    /\ phase = "running"
    /\ phase' = "stopped"
    /\ task' = [t \in TaskIds |->
                  IF /\ task[t].st = "sleeping"
                     /\ timeouts[task[t].id] = t
                  THEN FreeTask ELSE task[t]]
    /\ timeouts' = [id \in MsgIds |-> NoTask]
    /\ Quiet
    /\ UNCHANGED <<outbox, calls, Dedup, inb, handoffs, opened>>

-----------------------------------------------------------------------------

Init ==
    /\ outbox = [id \in MsgIds |-> NoEntry]
    /\ timeouts = [id \in MsgIds |-> NoTask]
    /\ task = [t \in TaskIds |-> FreeTask]
    /\ calls = [c \in Calls |-> IdleCall]
    /\ seen = <<>>
    /\ inb = [k \in Kinds |-> IdleInb]
    /\ phase = "new"
    /\ out = NoUpdate
    /\ handoffs = [id \in MsgIds |-> 0]
    /\ emitted = {}
    /\ opened = [id \in Ids |-> 0]

CallResumes(c) ==
    \/ BleSent(c) \/ BleNoPeersNoRelay(c) \/ BleNoPeersTryRelay(c)
    \/ BleFailed(c) \/ RelayTook(c) \/ RelayMissed(c)
    \/ PublishReturned(c) \/ RerouteTook(c) \/ RerouteMissed(c)

Next ==
    \/ \E c \in Calls : CallResumes(c)
    \/ \E c \in Calls, id \in MsgIds \cup ControlIds,
          peer \in Peers \cup {NoPeer}, npub \in BOOLEAN :
             Send(c, id, peer, npub)
    \/ \E c \in Calls, id \in MsgIds : Resend(c, id)
    \/ \E c \in Calls, id \in MsgIds \cup ControlIds : PublishOverNostr(c, id)
    \/ \E c \in Calls, departed \in (SUBSET Peers) \ {{}} :
             RerouteToNostr(c, departed)
    \/ \E id \in MsgIds :
          \/ BeginTracking(id) \/ StartDeliveryTimeout(id) \/ ExtendTimeout(id)
          \/ MarkFindingPath(id) \/ ConfirmFailure(id) \/ CommitToRelay(id)
          \/ \E hops \in 0..1 : ConfirmDelivery(id, hops)
    \/ \E t \in TaskIds : TimerElapses(t) \/ TimeoutFired(t)
    \/ \E kind \in Kinds, id \in Ids, ttl \in 0..1 : HandleInbound(kind, id, ttl)
    \/ \E kind \in Kinds : InboundRelayed(kind) \/ InboundReceived(kind)
    \/ Start \/ Stop

Spec == Init /\ [][Next]_vars

\* A suspended call is resumed and a timer task runs: what the Swift runtime
\* guarantees.  Nothing is assumed of peers, relays or callers.
FairSpec ==
    /\ Spec
    /\ \A c \in Calls : WF_vars(CallResumes(c))
    /\ \A t \in TaskIds : WF_vars(TimerElapses(t)) /\ WF_vars(TimeoutFired(t))

-----------------------------------------------------------------------------
(* Properties *)

OutboxEntries == [st : DeliveryStates \cup {"none"}, env : BOOLEAN,
                  peer : Peers \cup {NoPeer}, npub : BOOLEAN,
                  rerouted : BOOLEAN]

TimerTasks == [st : {"free", "sleeping", "elapsed"}, id : MsgIds \cup {NoId}]

SuspendedCalls == [op : {"idle", "ble", "relay", "publish", "reroute"},
                   id : MsgIds \cup ControlIds \cup {NoId},
                   npub : BOOLEAN, todo : SUBSET MsgIds]

InboundSlots == [stage : {"idle", "relay", "receive"}, id : Ids \cup {NoId}]

\* Entry, timer task, suspended call and inbound slot have their shapes.
TypeOK ==
    /\ outbox \in [MsgIds -> OutboxEntries]
    /\ timeouts \in [MsgIds -> TaskIds \cup {NoTask}]
    /\ task \in [TaskIds -> TimerTasks]
    /\ calls \in [Calls -> SuspendedCalls]
    /\ seen \in Seq(Ids)
    /\ inb \in [Kinds -> InboundSlots]
    /\ phase \in {"new", "running", "stopped"}
    /\ out \in [id : MsgIds \cup {NoId}, st : DeliveryStates \cup {"none"}]
    /\ handoffs \in [MsgIds -> Nat]
    /\ emitted \subseteq MsgIds \cup ControlIds
    /\ opened \in [Ids -> Nat]

\* A timer task works for this message.
LiveFor(t, id) == task[t].st # "free" /\ task[t].id = id

\* A send of this message is suspended on the radio or the relay.
Sending(id) == \E c \in Calls : calls[c].op \in {"ble", "relay"}
                                /\ calls[c].id = id

\* Every handle in `timeouts` names a live task of that very message: a
\* cancel or a re-arm can never hit another message's timer, although
\* timeoutFired clears handles without looking whose they are.
HandlesAreLive ==
    \A id \in MsgIds : timeouts[id] # NoTask => LiveFor(timeouts[id], id)

\* A message in a terminal state holds no stuck-send timer, whichever of the
\* ack, the failure, the timer or a rejected send recorded the state and
\* however the re-arm calls raced with it.
TerminalHoldsNoTimer ==
    \A id \in MsgIds : IsTerminal(outbox[id].st) => timeouts[id] = NoTask

\* Outbox, handles and timer tasks agree at every suspension point of the actor.
TimersConsistent == HandlesAreLive /\ TerminalHoldsNoTimer

\* "The stuck-send timeout remains the last-resort backstop": a text that
\* reads .sent and has no send in progress is being timed by some task, so it
\* cannot sit on "handed to radio" for ever.  A stale timer that clears the
\* handle of its successor, a missed reroute, a re-arm during a reconnect
\* grace must all leave such a task.
SentHasBackstop ==
    phase # "stopped" =>
        \A id \in MsgIds :
            (outbox[id].st = "sent" /\ outbox[id].env /\ ~Sending(id))
                => \E t \in TaskIds : LiveFor(t, id)

\* The timer of this message is started over.
TimedAnew(id) ==
    \/ StartDeliveryTimeout(id) \/ ExtendTimeout(id)
    \/ \E c \in Calls, peer \in Peers \cup {NoPeer}, npub \in BOOLEAN :
          Send(c, id, peer, npub)

\* "A fired timer flips a still-unconfirmed message to .notDelivered": once a
\* text is no longer re-sent or re-armed (a reconnect grace must end), it does
\* not stay on .sent for ever unless the router is stopped, whatever reroutes
\* miss and however the timers' actor hops are delayed.
SentResolves ==
    \A id \in MsgIds :
        <>[][~TimedAnew(id)]_vars =>
            []<>(phase = "stopped" \/ ~(outbox[id].st = "sent" /\ outbox[id].env))

\* rerouteToNostr hands one outbox entry to the relay at most once, however
\* departures, acks, misses and re-sends interleave with its publishes.
ReroutedOnce == \A id \in MsgIds : handoffs[id] <= 1

\* The seen-cache is router-wide: an envelope that arrives over both
\* transports, or twice over one while the first is still being relayed, is
\* opened once; an echo of our own envelope is never opened.
InboundOnce ==
    \A id \in Ids : opened[id] <= IF id \in ForeignIds THEN 1 ELSE 0
=============================================================================
