------------------------------ MODULE Presence ------------------------------
(***************************************************************************)
(* Presence of a paired contact over BLE: FirstContactCoordinator's        *)
(* onReachable, the beacon / it's-me handshake that names the peer of a    *)
(* link, the trust gates, and the hand-off to the relay when the contact   *)
(* goes.  One device in full, and of its contact the half of the handshake *)
(* that answers; between them Links, one per GATT role.                    *)
(*                                                                         *)
(* The coordinator is re-entered at every await: one consumer takes the    *)
(* transport's reachability snapshots, one its reconnect frames, and trust *)
(* changes come from a third.  Start-up is over: the coordinator is wired  *)
(* and the handshake enabled.                                              *)
(***************************************************************************)
EXTENDS Naturals, Sequences, FiniteSets

CONSTANTS
    Links,        \* links to the contact, one per GATT role
    MaxConnects,  \* bound: connections made
    MaxTrust,     \* bound: enrollments, verifications and revocations
    MaxLosses     \* bound: frames lost and relaunches

ASSUME PresenceAssumption ==
    MaxConnects \in Nat /\ MaxTrust \in Nat /\ MaxLosses \in Nat

VARIABLES
    up,        \* connections that exist
    held,      \* links the transport holds (writeTargets and subscribedCentrals)
    snaps,     \* reachabilityUpdates not consumed
    beacons,   \* our beacon sets the contact has not consumed
    hellos,    \* the contact's it's-me frames in reconnects, by link
    reachable, \* reachableLinks
    greeted,   \* greetedLinks
    known,     \* links of linkPeers (their peer is the contact)
    present,   \* lastReachableKeys holds the contact
    loop,      \* where onReachable stands
    enrolled,  \* reconnectAllowlistIdentities holds the contact
    verified,  \* verifiedIdentities holds the contact
    revoking,  \* a revoke waits between its two calls
    theirs,    \* the contact has enrolled us
    paired,    \* ghost: it did at some time
    calm,      \* ghost: links with no loss and no trust change since they came up
    connects, changes, losses

transportVars == <<up, held, connects>>
frameVars == <<beacons, hellos>>
stateVars == <<reachable, greeted, known, present, loop>>
trustVars == <<enrolled, verified, revoking, theirs, paired, changes>>
vars == <<transportVars, snaps, frameVars, stateVars, trustVars, calm, losses>>

Init ==
    /\ up = {} /\ held = {} /\ snaps = <<>> /\ beacons = <<>> /\ hellos = <<>>
    /\ reachable = {} /\ greeted = {} /\ known = {} /\ present = FALSE /\ loop = "idle"
    /\ enrolled \in BOOLEAN /\ verified \in {FALSE, enrolled} /\ revoking = FALSE
    /\ theirs \in BOOLEAN /\ paired = theirs
    /\ calm = {} /\ connects = 0 /\ changes = 0 /\ losses = 0

-----------------------------------------------------------------------------
(* The transport *)

\* A link forms (the subscribe reaches the peer before any frame does):
\* emitReachable.
Connect(l) ==
    /\ connects < MaxConnects
    /\ l \notin up \cup held
    /\ up' = up \cup {l} /\ calm' = calm \cup {l}
    /\ held' = held \cup {l} /\ snaps' = Append(snaps, held')
    /\ connects' = connects + 1
    /\ UNCHANGED <<frameVars, stateVars, trustVars, losses>>

\* A link breaks; we have not been told.
Drop(l) ==
    /\ l \in up
    /\ up' = up \ {l} /\ calm' = calm \ {l}
    /\ UNCHANGED <<held, connects, snaps, frameVars, stateVars, trustVars, losses>>

\* Fault: a teardown that does not emit.
NoticeSilently(l) ==
    /\ l \in held \ up
    /\ held' = held \ {l}
    /\ UNCHANGED <<up, connects, snaps, frameVars, stateVars, trustVars, calm, losses>>

\* The disconnect, the unsubscribe or a write failure tells us: emitReachable.
Notice(l) ==
    /\ l \in held \ up
    /\ held' = held \ {l} /\ snaps' = Append(snaps, held')
    /\ UNCHANGED <<up, connects, frameVars, stateVars, trustVars, calm, losses>>

\* sendReconnect over l, queue being the far end's before and after: a frame
\* on a broken link is gone, and one on a good link may be lost.
Send(l, frame, queue, queueAfter) ==
    \/ l \in up /\ queueAfter = Append(queue, frame) /\ UNCHANGED <<calm, losses>>
    \/ l \notin up /\ queueAfter = queue /\ UNCHANGED <<calm, losses>>
    \/ /\ l \in up /\ losses < MaxLosses
       /\ losses' = losses + 1 /\ calm' = calm \ {l}
       /\ queueAfter = queue

-----------------------------------------------------------------------------
(* Reachability *)

\* emitReachablePeers: a live link is the contact's, and the contact verified.
Near(links, ids, trusted) == trusted /\ links \cap ids # {}

\* Fault: the baseline of the departure test is read after the emit.
PublishLate(links) ==
    /\ present' = Near(links, known, verified)
    /\ loop' = "idle"

\* The end of onReachable: publish presence, and hand a departed contact's
\* messages to the relay (rerouteToNostr) before the next snapshot is taken.
Publish(links) ==
    /\ present' = Near(links, known, verified)
    /\ loop' = IF present /\ ~present' THEN "rerouting" ELSE "idle"

\* onReachable with the next snapshot: links to greet are the only reason to
\* suspend before presence is published.
OnReachable ==
    /\ loop = "idle" /\ snaps # <<>>
    /\ reachable' = Head(snaps) /\ snaps' = Tail(snaps)
    /\ greeted' = greeted \cap reachable'
    /\ IF reachable' \subseteq greeted THEN Publish(reachable')
       ELSE loop' = "greeting" /\ UNCHANGED present
    /\ UNCHANGED <<transportVars, frameVars, known, trustVars, calm, losses>>

\* Fault: a second link to somebody is taken for a duplicate.
GreetFirstLink(l) ==
    /\ loop = "greeting" /\ l \in reachable \ greeted
    /\ greeted' = greeted \cup {l}
    /\ IF greeted = {} THEN Send(l, [link |-> l, real |-> enrolled], beacons, beacons')
       ELSE UNCHANGED <<beacons, calm, losses>>
    /\ UNCHANGED <<transportVars, snaps, hellos, reachable, known, present, loop, trustVars>>

\* sendReconnectBeacons to a link not greeted yet; the set holds a real token
\* for the contact if it is enrolled.
Greet(l) ==
    /\ loop = "greeting" /\ l \in reachable \ greeted
    /\ greeted' = greeted \cup {l}
    /\ Send(l, [link |-> l, real |-> enrolled], beacons, beacons')
    /\ UNCHANGED <<transportVars, snaps, hellos, reachable, known, present, loop, trustVars>>

\* The last link was greeted.
FinishReachable ==
    /\ loop = "greeting" /\ reachable \subseteq greeted
    /\ Publish(reachable)
    /\ UNCHANGED <<transportVars, snaps, frameVars, reachable, greeted, known, trustVars,
                   calm, losses>>

RerouteDone ==
    /\ loop = "rerouting"
    /\ loop' = "idle"
    /\ UNCHANGED <<transportVars, snaps, frameVars, reachable, greeted, known, present,
                   trustVars, calm, losses>>

-----------------------------------------------------------------------------
(* The handshake *)

\* Fault: any token is answered.
OnReconnectBeaconAny ==
    /\ beacons # <<>>
    /\ beacons' = Tail(beacons)
    /\ Send(Head(beacons).link, Head(beacons).link, hellos, hellos')
    /\ UNCHANGED <<transportVars, snaps, stateVars, trustVars>>

\* onReconnectBeacon on the contact's side: our token is recognized if both
\* have enrolled each other; the answer is a sealed it's-me on that link.
OnReconnectBeacon ==
    /\ beacons # <<>>
    /\ beacons' = Tail(beacons)
    /\ IF Head(beacons).real /\ theirs
       THEN Send(Head(beacons).link, Head(beacons).link, hellos, hellos')
       ELSE UNCHANGED <<hellos, calm, losses>>
    /\ UNCHANGED <<transportVars, snaps, stateVars, trustVars>>

\* onReconnectItsMe: the hello opened; a verified contact is now known on the
\* link and presence is published.
OnReconnectItsMe ==
    /\ hellos # <<>>
    /\ hellos' = Tail(hellos)
    /\ IF verified
       THEN /\ known' = known \cup {Head(hellos)}
            /\ present' = Near(reachable, known', TRUE)
       ELSE UNCHANGED <<known, present>>
    /\ UNCHANGED <<transportVars, snaps, beacons, reachable, greeted, loop, trustVars, calm,
                   losses>>

-----------------------------------------------------------------------------
(* Trust *)

Change == changes < MaxTrust /\ changes' = changes + 1 /\ calm' = {}

\* addReconnectContact.
AddReconnectContact ==
    /\ Change /\ ~enrolled /\ ~revoking
    /\ enrolled' = TRUE
    /\ UNCHANGED <<transportVars, snaps, frameVars, stateVars, verified, revoking, theirs,
                   paired, losses>>

\* addVerifiedContact.
AddVerifiedContact ==
    /\ Change /\ enrolled /\ ~verified /\ ~revoking
    /\ verified' = TRUE
    /\ present' = Near(reachable, known, TRUE)
    /\ UNCHANGED <<transportVars, snaps, frameVars, reachable, greeted, known, loop, enrolled,
                   revoking, theirs, paired, losses>>

\* revoke's first call, removeReconnectContact: the contact's links are forgotten.
RemoveReconnectContact ==
    /\ Change /\ enrolled /\ ~revoking
    /\ enrolled' = FALSE
    /\ known' = {}
    /\ present' = Near(reachable, known', verified)
    /\ revoking' = TRUE
    /\ UNCHANGED <<transportVars, snaps, frameVars, reachable, greeted, loop, verified, theirs,
                   paired, losses>>

\* Its second, removeVerifiedContact; an it's-me may have come in between.
RemoveVerifiedContact ==
    /\ revoking
    /\ revoking' = FALSE
    /\ verified' = FALSE
    /\ present' = IF verified THEN Near(reachable, known, FALSE) ELSE present
    /\ UNCHANGED <<transportVars, snaps, frameVars, reachable, greeted, known, loop, enrolled,
                   theirs, paired, changes, calm, losses>>

\* The contact enrolls or revokes us.
TheirChange ==
    /\ Change
    /\ theirs' = ~theirs /\ paired' = TRUE
    /\ UNCHANGED <<transportVars, snaps, frameVars, stateVars, enrolled, verified, revoking,
                   losses>>

\* The app is killed and started again: links and memory go, trust is reloaded
\* from the store, where a revoke is already final.
Relaunch ==
    /\ losses < MaxLosses /\ losses' = losses + 1
    /\ up' = {} /\ held' = {} /\ calm' = {} /\ snaps' = <<>>
    /\ beacons' = <<>> /\ hellos' = <<>>
    /\ reachable' = {} /\ greeted' = {} /\ known' = {} /\ present' = FALSE /\ loop' = "idle"
    /\ revoking' = FALSE /\ verified' = (verified /\ enrolled)
    /\ UNCHANGED <<connects, enrolled, theirs, paired, changes>>

-----------------------------------------------------------------------------
\* The consumer of reachabilityUpdates.
LoopStep == OnReachable \/ FinishReachable \/ RerouteDone \/ \E l \in Links : Greet(l)

Next ==
    \/ \E l \in Links : Connect(l) \/ Drop(l) \/ Notice(l)
    \/ LoopStep \/ OnReconnectBeacon \/ OnReconnectItsMe
    \/ AddReconnectContact \/ AddVerifiedContact
    \/ RemoveReconnectContact \/ RemoveVerifiedContact \/ TheirChange
    \/ Relaunch

Spec == Init /\ [][Next]_vars

\* Both consumers and the contact's run, and a broken link is noticed.
FairSpec ==
    /\ Spec
    /\ WF_vars(LoopStep) /\ WF_vars(OnReconnectBeacon) /\ WF_vars(OnReconnectItsMe)
    /\ \A l \in Links : WF_vars(Notice(l))

-----------------------------------------------------------------------------
(* Properties *)

\* Types; a link stays greeted only while the coordinator counts it as live.
TypeOK ==
    /\ up \subseteq Links /\ held \subseteq Links /\ snaps \in Seq(SUBSET Links)
    /\ beacons \in Seq([link : Links, real : BOOLEAN]) /\ hellos \in Seq(Links)
    /\ reachable \subseteq Links /\ greeted \subseteq reachable /\ known \subseteq Links
    /\ present \in BOOLEAN /\ loop \in {"idle", "greeting", "rerouting"}
    /\ enrolled \in BOOLEAN /\ verified \in BOOLEAN /\ revoking \in BOOLEAN
    /\ theirs \in BOOLEAN /\ paired \in BOOLEAN
    /\ calm \subseteq up
    /\ connects \in 0 .. MaxConnects /\ changes \in 0 .. MaxTrust /\ losses \in 0 .. MaxLosses

\* Outside onReachable's greeting loop, what the coordinator last published,
\* and routes by, is what its links, their names and the gates say.
PresenceExact ==
    loop # "greeting" => present = (verified /\ reachable \cap known # {})

\* The contact shows as near only if it is verified and had enrolled us:
\* nobody else answers our beacons with a hello that opens.
PresentIsMutual == present => verified /\ paired

\* What the app shows and routes by is so.
PresenceHonest == PresenceExact /\ PresentIsMutual

\* A contact that stops being near while it is still trusted is handed to the
\* relay in the same step: nothing published during the greeting's awaits
\* moves the baseline of the departure test.  (A relaunch forgets everything.)
DepartureRerouted ==
    [][(present /\ ~present' /\ enrolled' /\ verified' /\ losses' = losses)
       => loop' = "rerouting"]_vars

\* On a link that stays, with no frame lost and no trust change since it came
\* up, two devices that trust each other find each other.
Reconnects ==
    \A l \in Links : (<>[](l \in calm /\ verified /\ ~revoking /\ theirs)) => <>[]present

\* A contact with no link left stops showing as near.
Departs == (up = {}) ~> (~present \/ up # {})
=============================================================================
