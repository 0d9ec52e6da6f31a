---------------------------- MODULE NostrPublish -----------------------------
(***************************************************************************)
(* Core/Routing/NostrTransport.swift, the publish side: fanning a gift     *)
(* wrap out to the live relays, counting their OK verdicts, and the        *)
(* re-publish ladder that ends in onPublishFailed.  Everything runs on one *)
(* serial queue, so each queue block is one action.                        *)
(*                                                                         *)
(* The two kinds of asyncAfter blocks (the acceptance deadline and the     *)
(* re-publish) are never cancelled: they are timers with the time `left`   *)
(* until they run.  The deadline block captures the event id only, not the *)
(* attempt it was armed for; `attempt` in it is a ghost.  Time advances    *)
(* only when no block is due: the queue runs due blocks in deadline order. *)
(* One unit stands for five seconds.                                       *)
(***************************************************************************)
EXTENDS Naturals, FiniteSets

CONSTANTS
    Relays,              \* relayURLs
    Events,              \* ids of the gift wraps this device publishes
    SummaryDeadline,     \* acceptanceSummaryDeadline (10 s)
    RepublishDelay,      \* republishDelay (15 s)
    MaxPublishAttempts   \* maxPublishAttempts

ASSUME LadderAssumption ==
    /\ SummaryDeadline \in Nat \ {0}
    /\ RepublishDelay \in Nat
    /\ SummaryDeadline < RepublishDelay
    /\ MaxPublishAttempts \in Nat \ {0}
    /\ IsFiniteSet(Relays)

VARIABLES
    started,    \* between start() and stop()
    live,       \* relays whose conn.task is non-nil
    sent,       \* [Relays -> frames on the current socket still unanswered]
    pending,    \* pendingAcceptance
    deadlines,  \* acceptance-deadline blocks on the queue
    republish,  \* re-publish blocks on the queue
    failures,   \* [Events -> times onPublishFailed was called]
    fanouts,    \* ghost: times the event's frame was fanned out
    counted     \* ghost: an accepting OK was folded into an entry

ladder == <<pending, deadlines, republish, failures, fanouts, counted>>
vars   == <<started, live, sent, ladder>>

-----------------------------------------------------------------------------

Attempts == 1..MaxPublishAttempts

\* PendingAcceptance; attempt 0 stands for an absent entry.
NoEntry == [relayCount |-> 0, attempt |-> 0, accepted |-> 0, rejected |-> 0]

Tracked(ev) == pending[ev].attempt > 0

\* Fault: the re-publish is scheduled as soon as the deadline would be.
RepublishOfHasty(ev, attempt) == [ev |-> ev, attempt |-> attempt, left |-> 1]

\* The two blocks recordPublishLocked and finalizeAcceptanceLocked queue.
Deadline(ev, attempt)    == [ev |-> ev, attempt |-> attempt, left |-> SummaryDeadline]
RepublishOf(ev, attempt) == [ev |-> ev, attempt |-> attempt, left |-> RepublishDelay]

\* Fault: one accepting relay is not enough.
AcceptanceOutcomeQuorum(accepted, attempt) ==
    IF accepted > 1 THEN "settled"
    ELSE IF attempt < MaxPublishAttempts THEN "retry" ELSE "giveUp"

\* Fault: the last attempt is not made.
AcceptanceOutcomeShort(accepted, attempt) ==
    IF accepted > 0 THEN "settled"
    ELSE IF attempt + 1 < MaxPublishAttempts THEN "retry" ELSE "giveUp"

\* acceptanceOutcome: one accept settles; zero accepts retry up to the cap.
AcceptanceOutcome(accepted, attempt) ==
    IF accepted > 0 THEN "settled"
    ELSE IF attempt < MaxPublishAttempts THEN "retry" ELSE "giveUp"

\* recordPublishLocked, after the fan-out to the sockets live right now.
FanOut(ev, attempt) ==
    /\ sent' = [r \in Relays |-> IF r \in live
                                 THEN sent[r] \cup {<<ev, attempt>>}
                                 ELSE sent[r]]
    /\ pending' = [pending EXCEPT ![ev] =
                     [relayCount |-> Cardinality(live), attempt |-> attempt,
                      accepted |-> 0, rejected |-> 0]]
    /\ fanouts' = [fanouts EXCEPT ![ev] = @ + 1]

\* finalizeAcceptanceLocked on the entry `p`: remove it first, then act.
Finalize(ev, p) ==
    /\ pending' = [pending EXCEPT ![ev] = NoEntry]
    /\ CASE AcceptanceOutcome(p.accepted, p.attempt) = "settled" ->
              UNCHANGED <<republish, failures>>
         [] AcceptanceOutcome(p.accepted, p.attempt) = "retry" ->
              /\ republish' = republish \cup {RepublishOf(ev, p.attempt)}
              /\ UNCHANGED failures
         [] OTHER ->
              /\ failures' = [failures EXCEPT ![ev] = @ + 1]
              /\ UNCHANGED republish

-----------------------------------------------------------------------------
(* Operations *)

\* publish: a fresh wrap (its id is a hash over a random key) to every live
\* relay.  With no live relay it throws notConnected and changes nothing.
Publish(ev) ==
    /\ fanouts[ev] = 0
    /\ live # {}
    /\ FanOut(ev, 1)
    /\ deadlines' = deadlines \cup {Deadline(ev, 1)}
    /\ UNCHANGED <<started, live, republish, failures, counted>>

\* noteAcceptanceLocked: an untracked id is ignored; the answers of all
\* relays together finalize the entry early.
NoteAcceptance(ev, ok) ==
    LET p == [pending[ev] EXCEPT !.accepted = IF ok THEN @ + 1 ELSE @,
                                 !.rejected = IF ok THEN @ ELSE @ + 1]
    IN  IF ~Tracked(ev)
        THEN UNCHANGED <<pending, republish, failures, counted>>
        ELSE /\ counted' = [counted EXCEPT ![ev] = @ \/ ok]
             /\ IF p.accepted + p.rejected >= p.relayCount
                THEN Finalize(ev, p)
                ELSE /\ pending' = [pending EXCEPT ![ev] = p]
                     /\ UNCHANGED <<republish, failures>>

\* handleFrameLocked, case .ok: a relay answers one of the frames it was sent.
RelayAnswers(r, ev, attempt, ok) ==
    /\ <<ev, attempt>> \in sent[r]
    /\ sent' = [sent EXCEPT ![r] = @ \ {<<ev, attempt>>}]
    /\ NoteAcceptance(ev, ok)
    /\ UNCHANGED <<started, live, deadlines, fanouts>>

\* The deadline block: finalize whatever entry the event has now, if any.
DeadlineFires(d) ==
    /\ d \in deadlines /\ d.left = 0
    /\ deadlines' = deadlines \ {d}
    /\ IF Tracked(d.ev)
       THEN Finalize(d.ev, pending[d.ev])
       ELSE UNCHANGED <<pending, republish, failures>>
    /\ UNCHANGED <<started, live, sent, fanouts, counted>>

\* Fault: with no live relay the re-publish is dropped.
RepublishFiresIfLive(t) ==
    /\ t \in republish /\ t.left = 0
    /\ republish' = republish \ {t}
    /\ IF started /\ live # {}
       THEN /\ FanOut(t.ev, t.attempt + 1)
            /\ deadlines' = deadlines \cup {Deadline(t.ev, t.attempt + 1)}
       ELSE UNCHANGED <<sent, pending, fanouts, deadlines>>
    /\ UNCHANGED <<started, live, failures, counted>>

\* republishLocked: only guarded by `started`; no live relay is fine.
RepublishFires(t) ==
    /\ t \in republish /\ t.left = 0
    /\ republish' = republish \ {t}
    /\ IF started
       THEN /\ FanOut(t.ev, t.attempt + 1)
            /\ deadlines' = deadlines \cup {Deadline(t.ev, t.attempt + 1)}
       ELSE UNCHANGED <<sent, pending, fanouts, deadlines>>
    /\ UNCHANGED <<started, live, failures, counted>>

\* scheduleReconnectLocked: the socket is torn down; the generation bump makes
\* whatever the relay still answers on it unheard.
SocketDrops(r) ==
    /\ r \in live
    /\ live' = live \ {r}
    /\ sent' = [sent EXCEPT ![r] = {}]
    /\ UNCHANGED <<started, ladder>>

\* connectLocked from the back-off timer, or reconnectNowLocked replacing a
\* socket that still looks alive.
SocketRebuilt(r) ==
    /\ started
    /\ live' = live \cup {r}
    /\ sent' = [sent EXCEPT ![r] = {}]
    /\ UNCHANGED <<started, ladder>>

Start ==
    /\ ~started
    /\ started' = TRUE
    /\ live' = Relays
    /\ UNCHANGED <<sent, ladder>>

\* stop(): sockets and registry are gone, the queued blocks stay.
Stop ==
    /\ started
    /\ started' = FALSE
    /\ live' = {}
    /\ sent' = [r \in Relays |-> {}]
    /\ pending' = [ev \in Events |-> NoEntry]
    /\ UNCHANGED <<deadlines, republish, failures, fanouts, counted>>

Elapsed(timers) == {[t EXCEPT !.left = @ - 1] : t \in timers}

Tick ==
    /\ deadlines \cup republish # {}
    /\ \A t \in deadlines \cup republish : t.left > 0
    /\ deadlines' = Elapsed(deadlines)
    /\ republish' = Elapsed(republish)
    /\ UNCHANGED <<started, live, sent, pending, failures, fanouts,
                   counted>>

-----------------------------------------------------------------------------

Init ==
    /\ started = FALSE
    /\ live = {}
    /\ sent = [r \in Relays |-> {}]
    /\ pending = [ev \in Events |-> NoEntry]
    /\ deadlines = {} /\ republish = {}
    /\ failures = [ev \in Events |-> 0]
    /\ fanouts = [ev \in Events |-> 0]
    /\ counted = [ev \in Events |-> FALSE]

QueueSteps ==
    \/ \E d \in deadlines : DeadlineFires(d)
    \/ \E t \in republish : RepublishFires(t)
    \/ Tick

Next ==
    \/ \E ev \in Events : Publish(ev)
    \/ \E r \in Relays, ev \in Events, a \in Attempts, ok \in BOOLEAN :
          RelayAnswers(r, ev, a, ok)
    \/ \E r \in Relays : SocketDrops(r) \/ SocketRebuilt(r)
    \/ Start \/ Stop
    \/ QueueSteps

Spec == Init /\ [][Next]_vars

\* The queue runs its blocks; nothing is assumed of relays or sockets.
FairSpec == Spec /\ WF_vars(QueueSteps)

-----------------------------------------------------------------------------
(* Properties *)

Entries == [relayCount : 0..Cardinality(Relays), attempt : 0..MaxPublishAttempts,
            accepted : Nat, rejected : Nat]

Timers(delay) == [ev : Events, attempt : Attempts, left : 0..delay]

\* Registry entries and queue blocks have their shapes; a re-publish is only
\* ever queued below the attempt cap.
TypeOK ==
    /\ started \in BOOLEAN
    /\ live \subseteq Relays
    /\ sent \in [Relays -> SUBSET (Events \X Attempts)]
    /\ pending \in [Events -> Entries]
    /\ deadlines \subseteq Timers(SummaryDeadline)
    /\ republish \subseteq Timers(RepublishDelay)
    /\ failures \in [Events -> Nat]
    /\ fanouts \in [Events -> Nat]
    /\ counted \in [Events -> BOOLEAN]

\* The deadline block knows the event, not the attempt.  Because the deadline
\* is shorter than the re-publish delay, the block of a finalized attempt is
\* always gone before the next attempt's entry exists: no attempt is ever cut
\* short by its predecessor's block, and every entry has its own block on the
\* queue ("entries self-expire").
DeadlineMatchesEntry ==
    \A ev \in Events : Tracked(ev) =>
        /\ \E d \in deadlines : d.ev = ev /\ d.attempt = pending[ev].attempt
        /\ \A d \in deadlines : d.ev = ev => d.attempt = pending[ev].attempt

\* onPublishFailed is called at most once per event, only after the frame was
\* fanned out MaxPublishAttempts times ("no rung is ever silently skipped"),
\* and when it has been called nothing of the event's ladder is left.
FailsAfterLastRung ==
    \A ev \in Events : failures[ev] > 0 =>
        /\ failures[ev] = 1
        /\ fanouts[ev] = MaxPublishAttempts
        /\ ~Tracked(ev)
        /\ \A t \in republish : t.ev # ev

\* An accept that was folded into an entry, in whichever attempt, is final:
\* the event is never reported failed afterwards, nor re-published again.
CountedAcceptSettles ==
    \A ev \in Events : counted[ev] =>
        /\ failures[ev] = 0
        /\ \A t \in republish : t.ev # ev

\* Every publish reaches a verdict: while the transport is not stopped, a
\* tracked event is in the end settled by an accept or reported failed,
\* whatever the relays and sockets do.
LadderEnds ==
    \A ev \in Events :
        Tracked(ev) ~> (counted[ev] \/ failures[ev] > 0 \/ ~started)
=============================================================================
