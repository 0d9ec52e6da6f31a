---------------------------- MODULE ContactGates ----------------------------
(* Who may reach the user: the persisted contact records of                  *)
(* EnrollmentService (allowlist, invite ledger) and PairingService           *)
(* (denylist), both on the main actor, and the live gates that the           *)
(* FirstContactCoordinator actor tests on every frame.  The records are the  *)
(* truth; each change of them is saved, adopted in memory, and only then     *)
(* pushed into the gates, one await on the coordinator per gate.             *)
(*                                                                           *)
(* An operation is suspended at every such await, and other operations run   *)
(* in the meantime.  `mail` holds the operations whose next job waits for    *)
(* the coordinator, `main` those whose job is done and that wait to resume   *)
(* on the main actor.  Both actors take jobs of equal priority in the order  *)
(* in which they were enqueued, and every caller runs at the priority of the *)
(* user interface.  Redeeming a remote invite also waits for the router and  *)
(* may stay away for any length of time.                                     *)
EXTENDS Naturals, Sequences, FiniteSets

CONSTANTS Peers,     \* identity keys of other people
          Invites,   \* ids of the invites this device may mint
          Calls,     \* operations that may be in flight at the same time
          NoInvite   \* an operation that carries no invite

ASSUME NoInviteAssumption == NoInvite \notin Invites

VARIABLES
    allowlist,     \* EnrollmentService.allowlist: the admission records
    allowStore,    \* ... as last sealed by ContactAllowlistStore
    pending,       \* EnrollmentService.pending: invites not yet burnt
    pendingStore,  \* ... as last sealed by PendingInvitesStore
    denied,        \* PairingService.blockedContacts, with the trust to restore
    deniedStore,   \* ... as last sealed by BlockedContactsStore
    enrolledGate,  \* coordinator.reconnectAllowlistIdentities
    verifiedGate,  \* coordinator.verifiedIdentities
    blockedGate,   \* coordinator.blockedIdentities
    calls,         \* the operation in each slot
    mail,          \* jobs enqueued on the coordinator
    main,          \* continuations enqueued on the main actor
    expired,       \* invites whose time, skew included, is over
    minted,        \* history: ids handed out
    burns,         \* history: how often an echo of the id was honoured
    vouched        \* history: peers the user scanned or compared words with

records == <<allowlist, allowStore, pending, pendingStore, denied, deniedStore>>
gates == <<enrolledGate, verifiedGate, blockedGate>>
history == <<expired, minted, burns, vouched>>
vars == <<records, gates, calls, mail, main, history>>

-----------------------------------------------------------------------------
(* The records.  A contact is absent, enrolled (invited, words not compared  *)
(* yet) or verified; a denylist entry remembers which of the two to restore. *)

Trust == {"none", "enrolled", "verified"}

Contacts == {p \in Peers : allowlist[p] # "none"}
Verified == {p \in Peers : allowlist[p] = "verified"}
IsBlocked(p) == denied[p] # "none"
BlockedKeys(d) == {p \in Peers : d[p] # "none"}

Ops == {"scan", "sas", "remove", "block", "unblock", "redeem", "echo"}

\* The await an operation is suspended at: a job of the coordinator, the
\* exchange with a remote minter, or the hop of an echo onto the main actor.
Awaits == {"addReconnect", "addVerified", "removeReconnect", "removeVerified",
           "setBlocked", "onBundle", "redeemInvite", "redeemEcho"}

Idle == [op |-> "idle", at |-> "none"]

Operation == [op : Ops, peer : Peers, at : Awaits, flag : BOOLEAN,
              keys : SUBSET Peers, invite : Invites \cup {NoInvite}]

\* `op` for peer p waits at `at`.  The flag says that the contact being
\* enrolled is verified, or that the scanned bundle was healthy; the keys are
\* the argument of setBlocked; the invite is the one an echo names.
Suspended(op, p, at, flag, keys, invite) ==
    [op |-> op, peer |-> p, at |-> at, flag |-> flag, keys |-> keys, invite |-> invite]

Awaiting(op, p, at) == Suspended(op, p, at, FALSE, {}, NoInvite)

Quiet == \A c \in Calls : calls[c] = Idle

TypeOK ==
    /\ allowlist \in [Peers -> Trust] /\ allowStore \in [Peers -> Trust]
    /\ pending \subseteq minted /\ pendingStore \subseteq minted
    /\ denied \in [Peers -> Trust] /\ deniedStore \in [Peers -> Trust]
    /\ enrolledGate \subseteq Peers
    /\ verifiedGate \subseteq Peers
    /\ blockedGate \subseteq Peers
    /\ calls \in [Calls -> Operation \cup {Idle}]
    /\ mail \in Seq(Calls) /\ main \in Seq(Calls)
    /\ expired \subseteq minted
    /\ minted \subseteq Invites
    /\ burns \in [Invites -> Nat]
    /\ vouched \subseteq Peers

Init ==
    /\ allowlist = [p \in Peers |-> "none"] /\ allowStore = allowlist
    /\ pending = {} /\ pendingStore = {}
    /\ denied = [p \in Peers |-> "none"] /\ deniedStore = denied
    /\ enrolledGate = {} /\ verifiedGate = {} /\ blockedGate = {}
    /\ calls = [c \in Calls |-> Idle]
    /\ mail = <<>> /\ main = <<>>
    /\ expired = {} /\ minted = {}
    /\ burns = [i \in Invites |-> 0]
    /\ vouched = {}

-----------------------------------------------------------------------------
(* Building blocks.                                                          *)

\* Suspend the operation on a job of the coordinator.
Hop(c, call) ==
    /\ calls' = [calls EXCEPT ![c] = call]
    /\ mail' = Append(mail, c)

\* The operation returns or throws to the user interface.
Finish(c) ==
    /\ calls' = [calls EXCEPT ![c] = Idle]
    /\ mail' = mail

\* Save-then-adopt of the allowlist.
SaveAllowlist(updated) ==
    /\ allowStore' = updated
    /\ allowlist' = updated

KeepAllowlist == UNCHANGED <<allowlist, allowStore>>

SaveDenied(updated) ==
    /\ deniedStore' = updated
    /\ denied' = updated

KeepDenied == UNCHANGED <<denied, deniedStore>>

SavePending(updated) ==
    /\ pendingStore' = updated
    /\ pending' = updated

KeepPending == UNCHANGED <<pending, pendingStore>>

\* EnrollmentService.enroll up to its first await; a persist failure throws
\* with nothing changed.
Enroll(c, op, p, verified) ==
    /\ SaveAllowlist([allowlist EXCEPT
           ![p] = IF verified THEN "verified" ELSE "enrolled"])
    /\ Hop(c, Suspended(op, p, "addReconnect", verified, {}, NoInvite))

EnrollFails(c) ==
    /\ KeepAllowlist
    /\ Finish(c)

\* EnrollmentService.revoke up to its first await.
Revoke(c, op, p) ==
    \/ /\ allowlist[p] # "none"
       /\ SaveAllowlist([allowlist EXCEPT ![p] = "none"])
       /\ Hop(c, Awaiting(op, p, "removeReconnect"))
    \/ \* not a contact, or the save throws
       /\ KeepAllowlist
       /\ Finish(c)

-----------------------------------------------------------------------------
(* Operations the user starts.  A person starts one at a time: the hops      *)
(* between the two actors take no time a finger could use.  Redeemed invites *)
(* and echoes return from the network and overlap with everything.           *)

Free(c) == calls[c] = Idle

Hopping(c) == calls[c] # Idle /\ calls[c].op \notin {"echo", "redeem"}

UserStarts(c) == Free(c) /\ \A d \in Calls : ~Hopping(d)

\* pairFromScanned: a blocked identity is refused; the scanned one is
\* enrolled as verified before its bundle is processed.
PairFromScanned(c, p) ==
    /\ UserStarts(c) /\ ~IsBlocked(p)
    /\ Enroll(c, "scan", p, TRUE)
    /\ vouched' = vouched \cup {p}
    /\ KeepPending /\ KeepDenied
    /\ UNCHANGED <<gates, main, expired, minted, burns>>

\* markVerified: the four words matched.
MarkVerified(c, p) ==
    /\ UserStarts(c) /\ allowlist[p] = "enrolled"
    /\ SaveAllowlist([allowlist EXCEPT ![p] = "verified"])
    /\ Hop(c, Awaiting("sas", p, "addVerified"))
    /\ vouched' = vouched \cup {p}
    /\ KeepPending /\ KeepDenied
    /\ UNCHANGED <<gates, main, expired, minted, burns>>

\* Remove Contact.
RemoveContact(c, p) ==
    /\ UserStarts(c) /\ allowlist[p] # "none"
    /\ Revoke(c, "remove", p)
    /\ KeepPending /\ KeepDenied
    /\ UNCHANGED <<gates, main, history>>

\* block: the denylist entry first, with the trust to restore.
Block(c, p) ==
    /\ UserStarts(c)
    /\ LET updated == [denied EXCEPT
               ![p] = IF allowlist[p] = "verified" THEN "verified" ELSE "enrolled"]
       IN  /\ SaveDenied(updated)
           /\ Hop(c, Suspended("block", p, "setBlocked", FALSE, BlockedKeys(updated), NoInvite))
    /\ KeepAllowlist /\ KeepPending
    /\ UNCHANGED <<gates, main, history>>

\* unblock: re-enroll with the trust of the entry, lift the entry afterwards.
Unblock(c, p) ==
    /\ UserStarts(c) /\ IsBlocked(p)
    /\ Enroll(c, "unblock", p, denied[p] = "verified")
    /\ KeepPending /\ KeepDenied
    /\ UNCHANGED <<gates, main, history>>

\* redeemInvite: a blocked identity is refused, a contact is left as it is;
\* anyone else is asked to honour the invite, over any distance.
RedeemInvite(c, p) ==
    /\ UserStarts(c) /\ ~IsBlocked(p) /\ allowlist[p] = "none"
    /\ calls' = [calls EXCEPT ![c] = Awaiting("redeem", p, "redeemInvite")]
    /\ UNCHANGED <<records, gates, mail, main, history>>

\* mintInvite: prune, register the fresh random id, persist, hand it out.
MintInvite(i) ==
    /\ i \notin minted
    /\ SavePending((pending \ expired) \cup {i})
    /\ minted' = minted \cup {i}
    /\ KeepAllowlist /\ KeepDenied
    /\ UNCHANGED <<gates, calls, mail, main, expired, burns, vouched>>

-----------------------------------------------------------------------------
(* The coordinator.                                                          *)

\* The job of the operation at the head of the mailbox.
CoordinatorRuns ==
    /\ mail # <<>>
    /\ LET c == Head(mail)
           call == calls[c]
           p == call.peer
       IN  /\ \/ call.at = "addReconnect"
                 /\ enrolledGate' = enrolledGate \cup {p}
                 /\ UNCHANGED <<verifiedGate, blockedGate, calls>>
              \/ call.at = "addVerified"
                 /\ verifiedGate' = verifiedGate \cup {p}
                 /\ UNCHANGED <<enrolledGate, blockedGate, calls>>
              \/ call.at = "removeReconnect"
                 /\ enrolledGate' = enrolledGate \ {p}
                 /\ UNCHANGED <<verifiedGate, blockedGate, calls>>
              \/ call.at = "removeVerified"
                 /\ verifiedGate' = verifiedGate \ {p}
                 /\ UNCHANGED <<enrolledGate, blockedGate, calls>>
              \/ call.at = "setBlocked"
                 /\ blockedGate' = call.keys
                 /\ UNCHANGED <<enrolledGate, verifiedGate, calls>>
              \/ \* onBundle: the closed-contact gate, then initiate (which may
                 \* fail) or wait for the peer to do so
                 /\ call.at = "onBundle"
                 /\ \E healthy \in BOOLEAN :
                       calls' = [calls EXCEPT ![c] =
                           Suspended("scan", p, "onBundle",
                                     healthy /\ p \in enrolledGate, {}, NoInvite)]
                 /\ UNCHANGED gates
           /\ mail' = Tail(mail)
           /\ main' = Append(main, c)
    /\ UNCHANGED <<records, history>>

\* redeemInvite of the coordinator: the session is established and the sealed
\* echo was routed to the minter, or one of the two threw.
RedeemReturns(c) ==
    /\ calls[c].at = "redeemInvite"
    /\ c \notin {main[k] : k \in DOMAIN main}
    /\ \/ main' = Append(main, c) /\ UNCHANGED calls
       \/ calls' = [calls EXCEPT ![c] = Idle] /\ UNCHANGED main
    /\ UNCHANGED <<records, gates, mail, history>>

\* An echo is opened.  The live denylist is tested here, then redeemEcho is
\* awaited on the main actor; any id may be named, any number of times.
EchoArrives(c, p, i) ==
    /\ Free(c) /\ p \notin blockedGate
    /\ calls' = [calls EXCEPT ![c] =
           Suspended("echo", p, "redeemEcho", FALSE, {}, i)]
    /\ main' = Append(main, c)
    /\ UNCHANGED <<records, gates, mail, history>>

-----------------------------------------------------------------------------
(* Continuations on the main actor.  Each takes the head of `main`.          *)

Resumes(c, at) ==
    /\ main # <<>> /\ c = Head(main)
    /\ calls[c].at \in at
    /\ main' = Tail(main)

\* enroll after addReconnect: a verified contact passes the second gate too.
EnrollContinues(c) ==
    /\ Resumes(c, {"addReconnect"}) /\ calls[c].flag
    /\ Hop(c, Awaiting(calls[c].op, calls[c].peer, "addVerified"))
    /\ UNCHANGED <<records, gates, history>>

\* enroll has returned to redeemInvite or redeemEcho, markVerified to the
\* sheet, revoke to its caller, unblock or a healthy scan to the user.
OperationEnds(c) ==
    /\ \/ Resumes(c, {"addReconnect"}) /\ ~calls[c].flag /\ calls[c].op # "unblock"
       \/ Resumes(c, {"addVerified"}) /\ calls[c].op = "sas"
       \/ Resumes(c, {"removeVerified"})
       \/ Resumes(c, {"setBlocked"}) /\ calls[c].op = "unblock"
       \/ Resumes(c, {"onBundle"}) /\ calls[c].flag
    /\ Finish(c)
    /\ UNCHANGED <<records, gates, history>>

\* pairFromScanned: establish from the scanned bundle.
ScanEstablishes(c) ==
    /\ Resumes(c, {"addVerified"}) /\ calls[c].op = "scan"
    /\ Hop(c, Awaiting("scan", calls[c].peer, "onBundle"))
    /\ UNCHANGED <<records, gates, history>>

\* pairFromScanned: the bundle was dropped or establishment failed, roll back.
\* block: the drop set is live, now revoke.
ThenRevoke(c) ==
    /\ \/ Resumes(c, {"onBundle"}) /\ ~calls[c].flag
       \/ Resumes(c, {"setBlocked"}) /\ calls[c].op = "block"
    /\ Revoke(c, calls[c].op, calls[c].peer)
    /\ KeepPending /\ KeepDenied
    /\ UNCHANGED <<gates, history>>

\* Fault: revoke leaves the verified gate alone.
RevokeForgetsVerified(c) ==
    /\ Resumes(c, {"removeReconnect"})
    /\ Finish(c)
    /\ UNCHANGED <<records, gates, history>>

\* revoke after removeReconnect.
RevokeContinues(c) ==
    /\ Resumes(c, {"removeReconnect"})
    /\ Hop(c, Awaiting(calls[c].op, calls[c].peer, "removeVerified"))
    /\ UNCHANGED <<records, gates, history>>

\* unblock: enroll has returned; the entry is lifted unless its save throws.
LiftDenial(c) ==
    /\ \/ Resumes(c, {"addReconnect"}) /\ ~calls[c].flag
       \/ Resumes(c, {"addVerified"})
    /\ calls[c].op = "unblock"
    /\ LET updated == [denied EXCEPT ![calls[c].peer] = "none"]
       IN  \/ /\ SaveDenied(updated)
              /\ Hop(c, Suspended("unblock", calls[c].peer, "setBlocked", FALSE,
                                  BlockedKeys(updated), NoInvite))
           \/ KeepDenied /\ Finish(c)
    /\ KeepAllowlist /\ KeepPending
    /\ UNCHANGED <<gates, history>>

\* Fault: a redeemed invite counts as proof of identity.
RedeemEnrollsVerified(c) ==
    /\ Resumes(c, {"redeemInvite"})
    /\ \/ Enroll(c, calls[c].op, calls[c].peer, TRUE)
       \/ EnrollFails(c)
    /\ KeepPending /\ KeepDenied
    /\ UNCHANGED <<gates, history>>

\* redeemInvite: the minter has our echo, enroll it as unverified.
RedeemEnrolls(c) ==
    /\ Resumes(c, {"redeemInvite"})
    /\ \/ Enroll(c, calls[c].op, calls[c].peer, FALSE)
       \/ EnrollFails(c)
    /\ KeepPending /\ KeepDenied
    /\ UNCHANGED <<gates, history>>

\* redeemEcho: burn the id exactly once, durably, before the contact is added.
Consumable(i) == i \in pending \ expired

\* Fault: the burn is adopted in memory and never saved.
RedeemEchoUnsaved(c) ==
    /\ Resumes(c, {"redeemEcho"})
    /\ Consumable(calls[c].invite)
    /\ pending' = pending \ {calls[c].invite}
    /\ burns' = [burns EXCEPT ![calls[c].invite] = @ + 1]
    /\ \/ Enroll(c, calls[c].op, calls[c].peer, FALSE)
       \/ EnrollFails(c)
    /\ KeepDenied
    /\ UNCHANGED <<pendingStore, gates, expired, minted, vouched>>

RedeemEcho(c) ==
    /\ Resumes(c, {"redeemEcho"})
    /\ Consumable(calls[c].invite)
    /\ \/ /\ SavePending(pending \ {calls[c].invite})
          /\ burns' = [burns EXCEPT ![calls[c].invite] = @ + 1]
          /\ \/ Enroll(c, calls[c].op, calls[c].peer, FALSE)
             \/ EnrollFails(c)
       \/ \* the burn cannot be saved
          /\ KeepPending /\ KeepAllowlist
          /\ Finish(c)
          /\ burns' = burns
    /\ KeepDenied
    /\ UNCHANGED <<gates, expired, minted, vouched>>

\* Unknown, replayed or expired: nothing changes.
RedeemEchoIgnored(c) ==
    /\ Resumes(c, {"redeemEcho"})
    /\ ~Consumable(calls[c].invite)
    /\ Finish(c)
    /\ UNCHANGED <<records, gates, history>>

-----------------------------------------------------------------------------
(* The environment.                                                          *)

\* Time passes the end of an invite.
Expire(i) ==
    /\ i \in minted \ expired
    /\ expired' = expired \cup {i}
    /\ UNCHANGED <<records, gates, calls, mail, main, minted, burns, vouched>>

\* The process dies and starts again.  A store that cannot be opened is
\* logged and its set boots empty, its file untouched.  The gates are seeded
\* from what was loaded before the transports start.
Relaunch(allowOk, pendingOk, deniedOk) ==
    /\ allowlist' = IF allowOk THEN allowStore ELSE [p \in Peers |-> "none"]
    /\ pending' = IF pendingOk THEN pendingStore \ expired ELSE {}
    /\ denied' = IF deniedOk THEN deniedStore ELSE [p \in Peers |-> "none"]
    /\ enrolledGate' = {p \in Peers : allowlist'[p] # "none"}
    /\ verifiedGate' = {p \in Peers : allowlist'[p] = "verified"}
    /\ blockedGate' = BlockedKeys(denied')
    /\ calls' = [c \in Calls |-> Idle]
    /\ mail' = <<>> /\ main' = <<>>
    /\ UNCHANGED <<allowStore, pendingStore, deniedStore, history>>

Next ==
    \/ \E c \in Calls, p \in Peers :
          \/ PairFromScanned(c, p) \/ MarkVerified(c, p) \/ RemoveContact(c, p)
          \/ Block(c, p) \/ Unblock(c, p) \/ RedeemInvite(c, p)
          \/ \E i \in Invites : EchoArrives(c, p, i)
    \/ \E c \in Calls :
          \/ RedeemReturns(c) \/ EnrollContinues(c) \/ OperationEnds(c)
          \/ ScanEstablishes(c) \/ ThenRevoke(c) \/ RevokeContinues(c)
          \/ LiftDenial(c) \/ RedeemEnrolls(c)
          \/ RedeemEcho(c) \/ RedeemEchoIgnored(c)
    \/ CoordinatorRuns
    \/ \E i \in Invites : MintInvite(i) \/ Expire(i)
    \/ \E allowOk, pendingOk, deniedOk \in BOOLEAN :
          Relaunch(allowOk, pendingOk, deniedOk)

Spec == Init /\ [][Next]_vars

-----------------------------------------------------------------------------
(* Properties.                                                               *)

\* Once every operation has returned, the live gates say what the records
\* say: exactly the contacts pass the enrolled gate, every verified contact
\* passes the verified one and nobody who is no contact does, and exactly the
\* blocked are dropped.  Operations overlap at each await on the coordinator.
GatesSettle ==
    Quiet =>
        /\ enrolledGate = Contacts
        /\ Verified \subseteq verifiedGate
        /\ verifiedGate \subseteq Contacts
        /\ blockedGate = BlockedKeys(denied)

\* redeemEcho honours an invite at most once, whatever is replayed and
\* whenever the process dies: the burn is on disk before the contact is added.
InviteBurnsOnce == \A i \in Invites : burns[i] <= 1

\* An identity passes as verified, in the records or in the live gate, only
\* if the user scanned its code or compared its words at some time: neither
\* half of an invite opens that gate, and unblocking restores no more trust
\* than was there.
VerifiedIsVouched ==
    \A p \in Peers :
        \/ allowlist[p] = "verified" \/ allowStore[p] = "verified"
        \/ denied[p] = "verified" \/ deniedStore[p] = "verified"
        \/ p \in verifiedGate
        => p \in vouched
=============================================================================
