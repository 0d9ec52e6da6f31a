---------------------------- MODULE MessageInbox ----------------------------
(***************************************************************************)
(* The life of an outbound text: Screens/MessageInbox.swift (main actor,   *)
(* persisted rows) driving FirstContactCoordinator's send path (actor),    *)
(* which drives MessageRouter (actor, in memory), with the transports, the *)
(* peer, its acknowledgements, departures, reconnections and relaunches.   *)
(*                                                                         *)
(* An inbox operation occupies one call slot from the composer (or the     *)
(* resend) to its last write to the row; op[c].stage is the await it is    *)
(* suspended on.  Three actors interleave at those awaits: the main actor  *)
(* (rows, stream consumer), the coordinator (transport choice) and the     *)
(* router (every action taken over from MessageRouter).                    *)
(***************************************************************************)
EXTENDS MessageRouter

CONSTANTS
    Rows,       \* outbound text rows of one conversation
    Peer,       \* the conversation's peer
    KnowsNpub,  \* whether the peer's Nostr key has been learned
    Hops,       \* hop counts an acknowledgement may carry
    MaxStream,  \* bound: delivery updates not yet consumed
    MaxBoots    \* bound: relaunches

ASSUME InboxAssumption ==
    /\ Peer \in Peers
    /\ KnowsNpub \in BOOLEAN
    /\ Hops \subseteq Nat
    /\ MaxStream \in Nat /\ MaxBoots \in Nat

VARIABLES
    rows,      \* the Message rows as the main actor sees them
    disk,      \* the rows as last saved
    op,        \* the inbox operation in each call slot
    taken,     \* whether the transport has taken the slot's envelope
    stream,    \* router.deliveryUpdates, not yet consumed
    reach,     \* Peer \in lastReachableKeys
    departed,  \* a departure diff whose rerouteToNostr has not begun
    minted,    \* wire ids in use
    air,       \* ids some transport took: the peer may get them
    atRelay,   \* ids a relay socket took
    ladder,    \* ids whose acceptance ladder is still running
    accepted,  \* ids the peer has stored
    acks,      \* acknowledgements under way to us
    sealedFor, \* ghost: the ids each row was sealed under
    boots      \* relaunches so far

world == <<air, atRelay, ladder, accepted, acks>>
inboxVars == <<rows, disk, op, taken, stream, reach, departed, minted, world,
               sealedFor, boots>>
allVars == <<vars, inboxVars>>

NoRow  == [st |-> "none", wire |-> NoId]
IdleOp == [stage |-> "idle", row |-> NoId, id |-> NoId, val |-> "none"]

Free(c) == op[c] = IdleOp /\ Idle(c)
At(c, stage) == op[c].stage = stage

\* The operation moves on to the next await.
Goto(c, stage) == op' = [op EXCEPT ![c].stage = stage]

\* save() writes the whole context.
Save == disk' = rows'

\* What the router yielded in this step joins the stream.
Emit ==
    /\ stream' = IF out'.st = "none" THEN stream ELSE Append(stream, out')
    /\ Len(stream') <= MaxStream

\* Steps of the inbox alone leave the router as it is.
RouterIdle == Quiet /\ UNCHANGED <<outbox, timeouts, task, calls, Dedup,
                                   handoffs, Inbound>>

RowsKept == UNCHANGED <<rows, disk>>

\* A stuck-send timer and the relay's acceptance ladder last tens of seconds,
\* the hops from a transport's answer to the row's last write milliseconds.  So
\* a timer or a ladder that ends belongs to an EARLIER copy of the id: it never
\* falls between an operation's own hand-off and its last write.
Landed(id) ==
    \A c \in Calls :
        /\ calls[c].id = id => ~taken[c]
        /\ op[c].id = id => /\ rows[op[c].row].wire = id
                            /\ op[c].stage \in {"seal", "route", "begun", "publish"}

-----------------------------------------------------------------------------
(* The main actor: composer and resend *)

\* send: the optimistic row is stored before anything is sealed.
Compose(c, r) ==
    /\ Free(c)
    /\ rows[r].st = "none"
    /\ rows' = [rows EXCEPT ![r] = [st |-> "sent", wire |-> NoId]]
    /\ Save
    /\ op' = [op EXCEPT ![c] =
                 [stage |-> "seal", row |-> r, id |-> NoId, val |-> "none"]]
    /\ RouterIdle
    /\ UNCHANGED <<taken, stream, reach, departed, minted, world, sealedFor,
                   boots>>

\* Fault: the retry is sealed under a fresh id.
ResendRowFresh(c, r) ==
    /\ Free(c)
    /\ rows[r].st = "notDelivered"
    /\ rows' = [rows EXCEPT ![r].st = "sent"]
    /\ Save
    /\ op' = [op EXCEPT ![c] =
                 [stage |-> "seal", row |-> r, id |-> NoId, val |-> "none"]]
    /\ RouterIdle
    /\ UNCHANGED <<taken, stream, reach, departed, minted, world, sealedFor,
                   boots>>

\* resend, by a tap or by flushUndelivered: only a .notDelivered row, flipped
\* to .sent up front, with the wire id it already has (if any).
ResendRow(c, r) ==
    /\ Free(c)
    /\ rows[r].st = "notDelivered"
    /\ rows' = [rows EXCEPT ![r].st = "sent"]
    /\ Save
    /\ op' = [op EXCEPT ![c] = [stage |-> "seal", row |-> r,
                                id |-> rows[r].wire, val |-> "none"]]
    /\ RouterIdle
    /\ UNCHANGED <<taken, stream, reach, departed, minted, world, sealedFor,
                   boots>>

-----------------------------------------------------------------------------
(* The coordinator: seal, then commit to a transport *)

\* The id of the sealed envelope: reuseID ?? .random().
SealAs(c, id) ==
    /\ IF op[c].id # NoId THEN id = op[c].id ELSE id \notin minted
    /\ minted' = minted \cup {id}
    /\ sealedFor' = [sealedFor EXCEPT ![op[c].row] = @ \cup {id}]

\* lastReachableKeys has the peer: routeOut.
SealAndRoute(c, id) ==
    /\ At(c, "seal")
    /\ reach
    /\ SealAs(c, id)
    /\ Send(c, id, Peer, KnowsNpub)
    /\ op' = [op EXCEPT ![c].stage = "route", ![c].id = id]
    /\ UNCHANGED <<rows, disk, taken, stream, reach, departed, world, boots>>

\* Not reachable, npub known: castOverNostr, first beginTracking (a no-op on
\* an id that already has an entry).
SealAndCast(c, id) ==
    /\ At(c, "seal")
    /\ ~reach /\ KnowsNpub
    /\ SealAs(c, id)
    /\ IF Tracked(id) THEN RouterIdle ELSE BeginTracking(id)
    /\ op' = [op EXCEPT ![c].stage = "begun", ![c].id = id]
    /\ UNCHANGED <<rows, disk, taken, stream, reach, departed, world, boots>>

\* Not reachable and no npub, or no session to seal with: throw.
SealThrows(c) ==
    /\ At(c, "seal")
    /\ Goto(c, "threw")
    /\ RouterIdle
    /\ UNCHANGED <<rows, disk, taken, stream, reach, departed, minted, world,
                   sealedFor, boots>>

\* castOverNostr: publishOverNostr ...
CastPublish(c) ==
    /\ At(c, "begun")
    /\ PublishOverNostr(c, op[c].id)
    /\ Goto(c, "publish")
    /\ UNCHANGED <<rows, disk, taken, stream, reach, departed, minted, world,
                   sealedFor, boots>>

\* ... whose result decides between commitToRelay and confirmFailure.
CastPublished(c) ==
    /\ At(c, "publish")
    /\ PublishReturned(c)
    /\ Goto(c, IF taken[c] THEN "commit" ELSE "fail")
    /\ taken' = [taken EXCEPT ![c] = FALSE]
    /\ UNCHANGED <<rows, disk, stream, reach, departed, minted, world,
                   sealedFor, boots>>

CastSettles(c) ==
    LET id == op[c].id IN
    /\ \/ At(c, "commit") /\ Goto(c, "returned")
          /\ IF Tracked(id) THEN CommitToRelay(id) ELSE RouterIdle
       \/ At(c, "fail") /\ Goto(c, "threw")
          /\ IF Tracked(id) THEN ConfirmFailure(id) ELSE RouterIdle
    /\ Emit
    /\ UNCHANGED <<rows, disk, taken, reach, departed, minted, world,
                   sealedFor, boots>>

\* routeOut: .sent and .cast return, anything else throws sendFailed.
RouteResumes(c) ==
    /\ At(c, "route")
    /\ \/ /\ taken[c]
          /\ BleSent(c) \/ RelayTook(c)
          /\ Goto(c, "returned")
       \/ /\ ~taken[c]
          /\ BleNoPeersNoRelay(c) \/ BleFailed(c) \/ RelayMissed(c)
          /\ Goto(c, "threw")
       \/ /\ ~taken[c]
          /\ BleNoPeersTryRelay(c)
          /\ UNCHANGED op
    /\ taken' = [taken EXCEPT ![c] = FALSE]
    /\ Emit
    /\ UNCHANGED <<rows, disk, reach, departed, minted, world, sealedFor, boots>>

-----------------------------------------------------------------------------
(* The main actor: what the operation writes to its row *)

\* The wire id is stamped on the row (saved only after the read-back).
Stamp(c) ==
    /\ At(c, "returned")
    /\ rows' = [rows EXCEPT ![op[c].row].wire = op[c].id]
    /\ Goto(c, "readback")
    /\ RouterIdle
    /\ UNCHANGED <<disk, taken, stream, reach, departed, minted, world,
                   sealedFor, boots>>

\* router.state(of:), evaluated on the router ...
ReadBack(c) ==
    /\ At(c, "readback")
    /\ op' = [op EXCEPT ![c].stage = "write", ![c].val = outbox[op[c].id].st]
    /\ RouterIdle
    /\ UNCHANGED <<rows, disk, taken, stream, reach, departed, minted, world,
                   sealedFor, boots>>

\* ... and written to the row when the main actor resumes.
WriteBack(c) ==
    /\ At(c, "write")
    /\ rows' = IF op[c].val = "none" THEN rows
               ELSE [rows EXCEPT ![op[c].row].st = op[c].val]
    /\ Save
    /\ op' = [op EXCEPT ![c] = IdleOp]
    /\ RouterIdle
    /\ UNCHANGED <<taken, stream, reach, departed, minted, world, sealedFor,
                   boots>>

\* catch: the row is kept as .notDelivered.
Caught(c) ==
    /\ At(c, "threw")
    /\ rows' = [rows EXCEPT ![op[c].row].st = "notDelivered"]
    /\ Save
    /\ op' = [op EXCEPT ![c] = IdleOp]
    /\ RouterIdle
    /\ UNCHANGED <<taken, stream, reach, departed, minted, world, sealedFor,
                   boots>>

-----------------------------------------------------------------------------
(* The main actor: the delivery-update stream *)

\* Fault: any row with a wire id takes the update.
MatchesAny(r, update) == rows[r].wire # NoId

Matches(r, update) == rows[r].wire = update.id

\* apply: the row of that wire id, if any; a terminal row takes no
\* non-terminal state.
Apply ==
    LET update == Head(stream)
        hit == {r \in Rows : Matches(r, update)}
    IN
    /\ stream # <<>>
    /\ stream' = Tail(stream)
    /\ IF hit = {} THEN RowsKept
       ELSE \E r \in hit :
              IF IsTerminal(rows[r].st) /\ ~IsTerminal(update.st) THEN RowsKept
              ELSE /\ rows' = [rows EXCEPT ![r].st = update.st]
                   /\ Save
    /\ RouterIdle
    /\ UNCHANGED <<op, taken, reach, departed, minted, world, sealedFor, boots>>

-----------------------------------------------------------------------------
(* Transports, relay and peer *)

\* The radio, or a live relay socket, takes the envelope of a suspended call.
\* The call resumes later: the peer may answer first.
TransportTakes(c) ==
    LET id == calls[c].id IN
    /\ ~taken[c]
    /\ calls[c].op \in {"ble", "relay", "publish", "reroute"}
    /\ taken' = [taken EXCEPT ![c] = TRUE]
    /\ air' = air \cup {id}
    /\ IF calls[c].op = "ble" THEN UNCHANGED <<atRelay, ladder>>
       ELSE atRelay' = atRelay \cup {id} /\ ladder' = ladder \cup {id}
    /\ RouterIdle
    /\ UNCHANGED <<rows, disk, op, stream, reach, departed, minted, accepted,
                   acks, sealedFor, boots>>

\* The peer stores an id once (seen-cache, alreadyStored) and acks it once.
PeerStores(id) ==
    /\ id \in air \ accepted
    /\ accepted' = accepted \cup {id}
    /\ acks' = acks \cup {id}
    /\ RouterIdle
    /\ UNCHANGED <<rows, disk, op, taken, stream, reach, departed, minted, air,
                   atRelay, ladder, sealedFor, boots>>

\* A .ack payload: confirmDelivery, a no-op on an untracked id.
AckArrives(id, hops) ==
    /\ id \in acks
    /\ acks' = acks \ {id}
    /\ IF Tracked(id) THEN ConfirmDelivery(id, hops) ELSE RouterIdle
    /\ Emit
    /\ UNCHANGED <<rows, disk, op, taken, reach, departed, minted, air, atRelay,
                   ladder, accepted, sealedFor, boots>>

\* The acceptance ladder ran out without a relay's OK: onPublishFailed.
LadderGivesUp(id) ==
    /\ id \in ladder
    /\ Landed(id)
    /\ ladder' = ladder \ {id}
    /\ IF Tracked(id) THEN ConfirmFailure(id) ELSE RouterIdle
    /\ Emit
    /\ UNCHANGED <<rows, disk, op, taken, reach, departed, minted, air, atRelay,
                   accepted, acks, sealedFor, boots>>

-----------------------------------------------------------------------------
(* Presence *)

PeerAppears ==
    /\ ~reach
    /\ reach' = TRUE
    /\ RouterIdle
    /\ UNCHANGED <<rows, disk, op, taken, stream, departed, minted, world,
                   sealedFor, boots>>

\* onReachable's diff lost the peer.
PeerDeparts ==
    /\ reach
    /\ reach' = FALSE
    /\ departed' = TRUE
    /\ RouterIdle
    /\ UNCHANGED <<rows, disk, op, taken, stream, minted, world, sealedFor,
                   boots>>

\* ... and hands the difference to rerouteToNostr.
RerouteDeparted(c) ==
    /\ departed
    /\ departed' = FALSE
    /\ \/ Free(c) /\ RerouteToNostr(c, {Peer})
       \/ (~AddressedWired \/ Eligible({Peer}) = {}) /\ RouterIdle
    /\ UNCHANGED <<rows, disk, op, taken, stream, reach, minted, world,
                   sealedFor, boots>>

RerouteResumes(c) ==
    /\ At(c, "idle")
    /\ IF taken[c] THEN RerouteTook(c) ELSE RerouteMissed(c)
    /\ taken' = [taken EXCEPT ![c] = FALSE]
    /\ Emit
    /\ UNCHANGED <<rows, disk, op, reach, departed, minted, world, sealedFor,
                   boots>>

\* handleReconnected: extendTimeout for a row still in flight (inFlightWireIDs).
Reconnected(r) ==
    /\ rows[r].wire # NoId
    /\ ~IsTerminal(rows[r].st) /\ rows[r].st # "cast"
    /\ ExtendTimeout(rows[r].wire)
    /\ UNCHANGED inboxVars

-----------------------------------------------------------------------------
(* Timers, relaunch *)

InboxTimer(t) ==
    /\ \/ TimerElapses(t) /\ Landed(task[t].id)
       \/ TimeoutFired(t)
    /\ Emit
    /\ UNCHANGED <<rows, disk, op, taken, reach, departed, minted, world,
                   sealedFor, boots>>

\* Fault: a stranded row is removed instead of given up.
ReconciledAway(r) ==
    IF disk[r].st \in {"sent", "waitingForRange", "findingPath"}
    THEN [disk[r] EXCEPT !.st = "none"] ELSE disk[r]

\* reconcileBootOrphans: what a row on disk becomes at the next boot.
Reconciled(r) ==
    IF disk[r].st \in {"sent", "waitingForRange", "findingPath"}
    THEN [disk[r] EXCEPT !.st = "notDelivered"] ELSE disk[r]

\* The process dies and is launched again: everything in memory is lost, the
\* saved rows are reclassified by reconcileBootOrphans.
Relaunch ==
    /\ boots < MaxBoots
    /\ boots' = boots + 1
    /\ rows' = [r \in Rows |-> Reconciled(r)]
    /\ Save
    /\ op' = [c \in Calls |-> IdleOp]
    /\ taken' = [c \in Calls |-> FALSE]
    /\ stream' = <<>>
    /\ reach' = FALSE /\ departed' = FALSE
    /\ ladder' = {}
    /\ outbox' = [id \in MsgIds |-> NoEntry]
    /\ timeouts' = [id \in MsgIds |-> NoTask]
    /\ task' = [t \in TaskIds |-> FreeTask]
    /\ calls' = [c \in Calls |-> IdleCall]
    /\ seen' = <<>>
    /\ handoffs' = [id \in MsgIds |-> 0]
    /\ Quiet
    /\ UNCHANGED <<emitted, Inbound, minted, air, atRelay, accepted, acks,
                   sealedFor>>

-----------------------------------------------------------------------------

InboxInit ==
    /\ Init
    /\ rows = [r \in Rows |-> NoRow]
    /\ disk = rows
    /\ op = [c \in Calls |-> IdleOp]
    /\ taken = [c \in Calls |-> FALSE]
    /\ stream = <<>>
    /\ reach = FALSE /\ departed = FALSE
    /\ minted = {} /\ air = {} /\ atRelay = {} /\ ladder = {}
    /\ accepted = {} /\ acks = {}
    /\ sealedFor = [r \in Rows |-> {}]
    /\ boots = 0

OpSteps(c) ==
    \/ \E id \in MsgIds : SealAndRoute(c, id) \/ SealAndCast(c, id)
    \/ SealThrows(c) \/ CastPublish(c) \/ CastPublished(c) \/ CastSettles(c)
    \/ RouteResumes(c) \/ Stamp(c) \/ ReadBack(c) \/ WriteBack(c) \/ Caught(c)
    \/ RerouteDeparted(c) \/ RerouteResumes(c)

InboxNext ==
    \/ \E c \in Calls, r \in Rows : Compose(c, r) \/ ResendRow(c, r)
    \/ \E c \in Calls : OpSteps(c) \/ TransportTakes(c)
    \/ \E id \in MsgIds : \/ PeerStores(id) \/ LadderGivesUp(id)
                          \/ \E hops \in Hops : AckArrives(id, hops)
    \/ \E r \in Rows : Reconnected(r)
    \/ \E t \in TaskIds : InboxTimer(t)
    \/ Apply \/ PeerAppears \/ PeerDeparts \/ Relaunch

InboxSpec == InboxInit /\ [][InboxNext]_allVars

-----------------------------------------------------------------------------
(* Properties *)

Stages == {"idle", "seal", "route", "begun", "publish", "commit", "fail",
           "returned", "readback", "write", "threw"}

RowStates == DeliveryStates \cup {"none"}

\* Rows, operations and stream have their shapes, and an operation past the
\* seal carries the id its router call is about.
InboxTypeOK ==
    /\ rows \in [Rows -> [st : RowStates, wire : MsgIds \cup {NoId}]]
    /\ disk \in [Rows -> [st : RowStates, wire : MsgIds \cup {NoId}]]
    /\ op \in [Calls -> [stage : Stages, row : Rows \cup {NoId},
                         id : MsgIds \cup {NoId}, val : RowStates]]
    /\ stream \in Seq([id : MsgIds, st : DeliveryStates])
    /\ \A c \in Calls : At(c, "route") \/ At(c, "publish")
                           => calls[c].id = op[c].id

\* ".cast is only ever stamped ... after a real relay commit": a row that
\* reads .cast, in memory or after a relaunch, has a relay that took its id,
\* whichever of the read-back, the stream or a reroute wrote the state.
CastIsHonest ==
    \A r \in Rows : /\ rows[r].st = "cast" => rows[r].wire \in atRelay
                    /\ disk[r].st = "cast" => disk[r].wire \in atRelay

\* A row reads delivered or relayed only if the peer stored the envelope of
\* the id the row carries: not an orphaned earlier seal, not another row's.
DeliveredIsHonest ==
    \A r \in Rows : rows[r].st \in {"delivered", "relayed"}
                       => rows[r].wire \in accepted

\* What a row claims, in memory or on disk, is so for the very id it carries.
RowsHonest == InboxTypeOK /\ CastIsHonest /\ DeliveredIsHonest

\* B2: a wire id once saved on a row is kept through every retry, reroute and
\* relaunch, so the receiver's dedup can recognise the retry.
WireIdIsKept ==
    [][\A r \in Rows : disk[r].wire # NoId => disk'[r].wire = disk[r].wire]_allVars

\* What a row's delivery state amounts to for the reader of the transcript.
Shown(r) ==
    CASE rows[r].st = "none" -> "none"
      [] rows[r].st = "cast" -> "cast"
      [] rows[r].st = "notDelivered" -> "failed"
      [] rows[r].st \in {"delivered", "relayed"} -> "delivered"
      [] OTHER -> "pending"

\* The inbox, the coordinator, the router and the stream between them implement
\* DeliveryStatus: whatever the interleaving of read-backs, updates, reroutes
\* and relaunches, one row changes at a time (a relaunch apart, which fails
\* exactly the pending ones), and no row claims a relay or a peer that does
\* not have one of the envelopes it was sealed in.
Status == INSTANCE DeliveryStatus WITH
    Messages <- Rows,
    shown    <- [r \in Rows |-> Shown(r)],
    relayed  <- {r \in Rows : sealedFor[r] \cap atRelay # {}},
    held     <- {r \in Rows : sealedFor[r] \cap accepted # {}}

ImplementsStatus == Status!StatusSpec
=============================================================================
