------------------------- MODULE ContactGatesProofs -------------------------
(* Theorems about ContactGates for any sets of peers, invites and operation  *)
(* slots: an invite is honoured at most once across all crashes, nobody      *)
(* passes as verified whom the user did not vouch for, and the gates settle  *)
(* to what the records say.  The first inductive invariant has one part per  *)
(* piece of state, the second one part per gate.                             *)
EXTENDS ContactGates, SequenceTheorems, TLAPS

\* The records and gates name vouched peers as verified only.
RecordsInv ==
    /\ allowlist \in [Peers -> Trust] /\ allowStore \in [Peers -> Trust]
    /\ denied \in [Peers -> Trust] /\ deniedStore \in [Peers -> Trust]
    /\ enrolledGate \subseteq Peers
    /\ verifiedGate \subseteq Peers
    /\ blockedGate \subseteq Peers
    /\ vouched \subseteq Peers
    /\ VerifiedIsVouched

\* An invite that can still be burnt, by this process or by one that loads
\* the ledger later, was never burnt.
LedgerInv ==
    /\ pending \subseteq minted /\ pendingStore \subseteq minted
    /\ expired \subseteq minted
    /\ minted \subseteq Invites
    /\ burns \in [Invites -> Nat]
    /\ \A i \in pending \cup pendingStore : burns[i] = 0
    /\ \A i \in Invites \ minted : burns[i] = 0
    /\ InviteBurnsOnce

\* An operation about to open the verified gate acts for a vouched peer.
Opens(s) == s.at = "addVerified" \/ (s.at = "addReconnect" /\ s.flag)

CallsInv ==
    /\ calls \in [Calls -> Operation \cup {Idle}]
    /\ mail \in Seq(Calls) /\ main \in Seq(Calls)
    /\ \A c \in Calls : Opens(calls[c]) => calls[c].peer \in vouched

\* The inductive invariant.
ContactInv == RecordsInv /\ LedgerInv /\ CallsInv

-----------------------------------------------------------------------------
(* Facts about the building blocks.                                          *)

\* An operation that waits somewhere is an operation, with a peer.
LEMMA WaitingIsOperation ==
    ASSUME CallsInv, NEW c \in Calls, calls[c].at \in Awaits
    PROVE  /\ calls[c] \in Operation
           /\ calls[c].op \in Ops /\ calls[c].peer \in Peers
           /\ calls[c].flag \in BOOLEAN
           /\ calls[c].invite \in Invites \cup {NoInvite}
<1>1. calls[c] \in Operation BY DEF CallsInv, Awaits, Idle
<1> QED BY <1>1 DEF Operation

\* What Suspended builds is an operation, and its fields are what was put in.
LEMMA SuspendedFields ==
    ASSUME NEW op \in Ops, NEW p \in Peers, NEW at \in Awaits,
           NEW flag \in BOOLEAN, NEW keys \in SUBSET Peers,
           NEW invite \in Invites \cup {NoInvite}
    PROVE  LET s == Suspended(op, p, at, flag, keys, invite)
           IN  /\ s \in Operation
               /\ s.op = op /\ s.peer = p /\ s.at = at /\ s.flag = flag
BY DEF Suspended, Operation

\* The same for operations without arguments.
LEMMA AwaitingFields ==
    ASSUME NEW op \in Ops, NEW p \in Peers, NEW at \in Awaits
    PROVE  /\ Awaiting(op, p, at) \in Operation
           /\ Awaiting(op, p, at).peer = p
           /\ Awaiting(op, p, at).at = at
           /\ ~Awaiting(op, p, at).flag
BY DEF Awaiting, Suspended, Operation

\* And for the job that replaces the drop set by the keys of a denylist.
LEMMA DenialFields ==
    ASSUME NEW op \in Ops, NEW p \in Peers, NEW d
    PROVE  /\ Suspended(op, p, "setBlocked", FALSE, BlockedKeys(d), NoInvite) \in Operation
           /\ Suspended(op, p, "setBlocked", FALSE, BlockedKeys(d), NoInvite).at = "setBlocked"
BY DEF Suspended, Operation, BlockedKeys, Awaits

\* Putting an operation that opens the verified gate only for a vouched peer
\* into a slot keeps the slots well-formed and every opener vouched.
LEMMA SlotKeeps ==
    ASSUME CallsInv, NEW c \in Calls, NEW s \in Operation \cup {Idle},
           calls' = [calls EXCEPT ![c] = s],
           vouched \subseteq vouched',
           Opens(s) => s.peer \in vouched'
    PROVE  /\ calls' \in [Calls -> Operation \cup {Idle}]
           /\ \A d \in Calls : Opens(calls'[d]) => calls'[d].peer \in vouched'
<1>1. calls \in [Calls -> Operation \cup {Idle}] BY DEF CallsInv
<1>2. calls' \in [Calls -> Operation \cup {Idle}] BY <1>1
<1>3. ASSUME NEW d \in Calls, Opens(calls'[d])
      PROVE  calls'[d].peer \in vouched'
  <2>1. CASE d = c
    <3>1. calls'[d] = s BY <2>1, <1>1
    <3> QED BY <3>1, <1>3
  <2>2. CASE d # c
    <3>1. calls'[d] = calls[d] BY <2>2, <1>1
    <3> QED BY <3>1, <1>3 DEF CallsInv
  <2> QED BY <2>1, <2>2
<1> QED BY <1>2, <1>3

\* A finished operation opens nothing.
LEMMA FinishKeeps ==
    ASSUME CallsInv, NEW c \in Calls, Finish(c), vouched \subseteq vouched',
           main' \in Seq(Calls)
    PROVE  CallsInv'
<1>1. ~Opens(Idle) BY DEF Idle, Opens
<1>2. /\ calls' \in [Calls -> Operation \cup {Idle}]
      /\ \A d \in Calls : Opens(calls'[d]) => calls'[d].peer \in vouched'
  BY <1>1, SlotKeeps DEF Finish
<1> QED BY <1>2 DEF Finish, CallsInv

\* Neither does one that is suspended on the coordinator without opening.
LEMMA HopKeeps ==
    ASSUME CallsInv, NEW c \in Calls, NEW s \in Operation, Hop(c, s),
           vouched \subseteq vouched', main' \in Seq(Calls),
           Opens(s) => s.peer \in vouched'
    PROVE  CallsInv'
<1>1. /\ calls' \in [Calls -> Operation \cup {Idle}]
      /\ \A d \in Calls : Opens(calls'[d]) => calls'[d].peer \in vouched'
  BY SlotKeeps DEF Hop
<1>2. mail' \in Seq(Calls) BY DEF Hop, CallsInv
<1> QED BY <1>1, <1>2 DEF CallsInv

\* Enrolling verifies vouched peers only.
LEMMA EnrollKeeps ==
    ASSUME RecordsInv, CallsInv, NEW c \in Calls, NEW op \in Ops, NEW p \in Peers,
           NEW verified \in BOOLEAN, Enroll(c, op, p, verified),
           KeepDenied, UNCHANGED gates,
           vouched \subseteq vouched', vouched' \subseteq Peers, main' \in Seq(Calls),
           verified => p \in vouched'
    PROVE  RecordsInv' /\ CallsInv'
<1>1. RecordsInv'
  <2>1. /\ allowlist' \in [Peers -> Trust] /\ allowStore' \in [Peers -> Trust]
        /\ \A q \in Peers : allowlist'[q] = "verified" \/ allowStore'[q] = "verified"
                              => q \in vouched'
    BY DEF Enroll, SaveAllowlist, RecordsInv, VerifiedIsVouched, Trust
  <2> QED BY <2>1 DEF RecordsInv, VerifiedIsVouched, KeepDenied, gates
<1>2. CallsInv'
  <2> DEFINE s == Suspended(op, p, "addReconnect", verified, {}, NoInvite)
  <2>1. s \in Operation /\ s.peer = p /\ s.at = "addReconnect" /\ s.flag = verified
    BY SuspendedFields DEF Awaits
  <2>2. Opens(s) => s.peer \in vouched' BY <2>1 DEF Opens
  <2> QED BY <2>1, <2>2, HopKeeps DEF Enroll
<1> QED BY <1>1, <1>2

\* Revoking verifies nobody.
LEMMA RevokeKeeps ==
    ASSUME RecordsInv, CallsInv, NEW c \in Calls, NEW op \in Ops, NEW p \in Peers,
           Revoke(c, op, p), KeepDenied, UNCHANGED <<gates, vouched>>,
           main' \in Seq(Calls)
    PROVE  RecordsInv' /\ CallsInv'
<1>1. CASE /\ SaveAllowlist([allowlist EXCEPT ![p] = "none"])
           /\ Hop(c, Awaiting(op, p, "removeReconnect"))
  <2>1. RecordsInv'
    BY <1>1 DEF RecordsInv, VerifiedIsVouched, SaveAllowlist, KeepDenied, gates, Trust
  <2> DEFINE s == Awaiting(op, p, "removeReconnect")
  <2>2. s \in Operation /\ s.at = "removeReconnect" BY AwaitingFields DEF Awaits
  <2>3. ~Opens(s) BY <2>2 DEF Opens
  <2>4. CallsInv' BY <1>1, <2>2, <2>3, HopKeeps
  <2> QED BY <2>1, <2>4
<1>2. CASE KeepAllowlist /\ Finish(c)
  <2>1. RecordsInv'
    BY <1>2 DEF RecordsInv, VerifiedIsVouched, KeepAllowlist, KeepDenied, gates
  <2> QED BY <1>2, <2>1, FinishKeeps
<1> QED BY <1>1, <1>2 DEF Revoke

\* Steps that leave the records, or the ledger, alone.
LEMMA RecordsUntouched ==
    ASSUME RecordsInv, UNCHANGED <<records, gates, vouched>>
    PROVE  RecordsInv'
BY DEF RecordsInv, VerifiedIsVouched, records, gates

LEMMA LedgerUntouched ==
    ASSUME LedgerInv, KeepPending, UNCHANGED <<expired, minted, burns>>
    PROVE  LedgerInv'
BY DEF LedgerInv, InviteBurnsOnce, KeepPending

\* A continuation takes an operation off the main actor's queue.
LEMMA ResumesQueue ==
    ASSUME CallsInv, NEW c \in Calls, NEW at \in SUBSET Awaits, Resumes(c, at)
    PROVE  main' \in Seq(Calls) /\ calls[c].at \in Awaits
BY DEF CallsInv, Resumes


-----------------------------------------------------------------------------
(* One lemma per action that changes several parts, one step per part.       *)

\* The initial state.
LEMMA InitContact == Init => ContactInv
<1> SUFFICES ASSUME Init PROVE ContactInv OBVIOUS
<1>1. RecordsInv BY DEF Init, RecordsInv, VerifiedIsVouched, Trust
<1>2. LedgerInv BY DEF Init, LedgerInv, InviteBurnsOnce
<1>3. ~Opens(Idle) BY DEF Opens, Idle
<1>4. CallsInv BY <1>3 DEF Init, CallsInv
<1> QED BY <1>1, <1>2, <1>4 DEF ContactInv

\* Operations of the user on a contact.
LEMMA UserStep ==
    ASSUME ContactInv, NEW c \in Calls, NEW p \in Peers,
           \/ PairFromScanned(c, p) \/ MarkVerified(c, p) \/ RemoveContact(c, p)
           \/ Block(c, p) \/ Unblock(c, p) \/ RedeemInvite(c, p)
    PROVE  ContactInv'
<1> USE DEF ContactInv
<1>0. main' = main => main' \in Seq(Calls) BY DEF CallsInv
<1>1. CASE PairFromScanned(c, p)
  <2>1. RecordsInv' /\ CallsInv'
    <3>1. vouched' = vouched \cup {p} /\ main' = main BY <1>1 DEF PairFromScanned
    <3>2. vouched \subseteq vouched' /\ vouched' \subseteq Peers /\ p \in vouched'
      BY <3>1 DEF RecordsInv
    <3>3. Enroll(c, "scan", p, TRUE) /\ KeepDenied /\ UNCHANGED gates
      BY <1>1 DEF PairFromScanned, gates
    <3>4. "scan" \in Ops BY DEF Ops
    <3> QED BY <1>0, <3>1, <3>2, <3>3, <3>4, EnrollKeeps
  <2>2. LedgerInv' BY <1>1, LedgerUntouched DEF PairFromScanned
  <2> QED BY <2>1, <2>2
<1>2. CASE MarkVerified(c, p)
  <2>1. vouched' = vouched \cup {p} /\ main' = main BY <1>2 DEF MarkVerified
  <2>2. RecordsInv'
    BY <1>2, <2>1 DEF MarkVerified, RecordsInv, VerifiedIsVouched, SaveAllowlist,
                      KeepDenied, gates, Trust
  <2>3. CallsInv'
    <3> DEFINE s == Awaiting("sas", p, "addVerified")
    <3>1. s \in Operation /\ s.peer = p BY AwaitingFields DEF Ops, Awaits
    <3>2. Hop(c, s) /\ vouched \subseteq vouched' /\ p \in vouched'
      BY <1>2, <2>1 DEF MarkVerified
    <3> QED BY <1>0, <2>1, <3>1, <3>2, HopKeeps
  <2>4. LedgerInv' BY <1>2, LedgerUntouched DEF MarkVerified
  <2> QED BY <2>2, <2>3, <2>4
<1>3. CASE RemoveContact(c, p)
  <2>1. Revoke(c, "remove", p) /\ KeepDenied /\ UNCHANGED <<gates, vouched>> /\ main' = main
    BY <1>3 DEF RemoveContact, history
  <2>2. "remove" \in Ops BY DEF Ops
  <2>3. RecordsInv' /\ CallsInv' BY <1>0, <2>1, <2>2, RevokeKeeps
  <2>4. LedgerInv' BY <1>3, LedgerUntouched DEF RemoveContact, history
  <2> QED BY <2>3, <2>4
<1>4. CASE Block(c, p)
  <2> DEFINE updated == [denied EXCEPT
                 ![p] = IF allowlist[p] = "verified" THEN "verified" ELSE "enrolled"]
             s == Suspended("block", p, "setBlocked", FALSE, BlockedKeys(updated), NoInvite)
  <2>1. /\ SaveDenied(updated) /\ Hop(c, s) /\ KeepAllowlist
        /\ UNCHANGED <<gates, main, vouched>>
    BY <1>4 DEF Block, history
  <2>2. RecordsInv'
    BY <2>1 DEF RecordsInv, VerifiedIsVouched, SaveDenied, KeepAllowlist, gates, Trust
  <2>3. s \in Operation /\ s.at = "setBlocked"
    <3>1. "block" \in Ops BY DEF Ops
    <3> HIDE DEF updated
    <3> QED BY <3>1, DenialFields
  <2>4. ~Opens(s) BY <2>3 DEF Opens
  <2>5. CallsInv' BY <1>0, <2>1, <2>3, <2>4, HopKeeps
  <2>6. LedgerInv' BY <1>4, LedgerUntouched DEF Block, history
  <2> QED BY <2>2, <2>5, <2>6
<1>5. CASE Unblock(c, p)
  <2>1. /\ Enroll(c, "unblock", p, denied[p] = "verified")
        /\ KeepDenied /\ UNCHANGED <<gates, vouched>> /\ main' = main
    BY <1>5 DEF Unblock, history
  <2>2. denied[p] = "verified" => p \in vouched' BY <2>1 DEF RecordsInv, VerifiedIsVouched
  <2>3. "unblock" \in Ops BY DEF Ops
  <2>4. (denied[p] = "verified") \in BOOLEAN OBVIOUS
  <2>5. vouched \subseteq vouched' /\ vouched' \subseteq Peers BY <2>1 DEF RecordsInv
  <2>6. UNCHANGED gates BY <2>1
  <2>7. RecordsInv' /\ CallsInv'
    BY <1>0, <2>1, <2>2, <2>3, <2>4, <2>5, <2>6, EnrollKeeps
  <2>8. LedgerInv' BY <1>5, LedgerUntouched DEF Unblock, history
  <2> QED BY <2>7, <2>8
<1>6. CASE RedeemInvite(c, p)
  <2>1. RecordsInv' BY <1>6, RecordsUntouched DEF RedeemInvite, history
  <2>2. LedgerInv'
    BY <1>6, LedgerUntouched DEF RedeemInvite, history, records, KeepPending
  <2> DEFINE s == Awaiting("redeem", p, "redeemInvite")
  <2>3. s \in Operation /\ s.at = "redeemInvite" BY AwaitingFields DEF Ops, Awaits
  <2>4. ~Opens(s) BY <2>3 DEF Opens
  <2>5. /\ calls' = [calls EXCEPT ![c] = s]
        /\ UNCHANGED <<mail, main, vouched>>
    BY <1>6 DEF RedeemInvite, history
  <2>6. /\ calls' \in [Calls -> Operation \cup {Idle}]
        /\ \A d \in Calls : Opens(calls'[d]) => calls'[d].peer \in vouched'
    BY <2>3, <2>4, <2>5, SlotKeeps
  <2>7. CallsInv' BY <2>5, <2>6 DEF CallsInv
  <2> QED BY <2>1, <2>2, <2>7
<1> QED BY <1>1, <1>2, <1>3, <1>4, <1>5, <1>6

\* Minting and expiry touch the ledger only; a minted id is a fresh one.
LEMMA LedgerStep ==
    ASSUME ContactInv, NEW i \in Invites, MintInvite(i) \/ Expire(i)
    PROVE  ContactInv'
<1> USE DEF ContactInv
<1>1. CASE MintInvite(i)
  <2>1. RecordsInv'
    BY <1>1 DEF MintInvite, RecordsInv, VerifiedIsVouched, KeepAllowlist, KeepDenied, gates
  <2>2. LedgerInv'
    BY <1>1 DEF MintInvite, LedgerInv, InviteBurnsOnce, SavePending
  <2>3. CallsInv' BY <1>1 DEF MintInvite, CallsInv, Opens
  <2> QED BY <2>1, <2>2, <2>3
<1>2. CASE Expire(i)
  <2>1. RecordsInv' BY <1>2, RecordsUntouched DEF Expire
  <2>2. LedgerInv'
    BY <1>2 DEF Expire, LedgerInv, InviteBurnsOnce, records
  <2>3. CallsInv' BY <1>2 DEF Expire, CallsInv, Opens
  <2> QED BY <2>1, <2>2, <2>3
<1> QED BY <1>1, <1>2

\* Returns from the network reach the main actor's queue.
LEMMA NetworkStep ==
    ASSUME ContactInv, NEW c \in Calls,
           \/ RedeemReturns(c)
           \/ \E p \in Peers, i \in Invites : EchoArrives(c, p, i)
    PROVE  ContactInv'
<1> USE DEF ContactInv
<1>1. UNCHANGED <<records, gates, mail, history>> BY DEF RedeemReturns, EchoArrives
<1>2. RecordsInv' BY <1>1, RecordsUntouched DEF history
<1>3. LedgerInv' BY <1>1, LedgerUntouched DEF history, records, KeepPending
<1>4. vouched \subseteq vouched' BY <1>1 DEF history
<1>5. CallsInv'
  <2>1. main' \in Seq(Calls)
    <3>1. main' = main \/ main' = Append(main, c)
      BY Zenon DEF RedeemReturns, EchoArrives
    <3> QED BY <3>1 DEF CallsInv
  <2>2. CASE RedeemReturns(c) /\ UNCHANGED calls
    BY <1>1, <2>1, <2>2 DEF CallsInv, history, Opens
  <2>3. CASE RedeemReturns(c) /\ calls' = [calls EXCEPT ![c] = Idle]
    <3>1. ~Opens(Idle) BY DEF Opens, Idle
    <3>2. /\ calls' \in [Calls -> Operation \cup {Idle}]
          /\ \A d \in Calls : Opens(calls'[d]) => calls'[d].peer \in vouched'
      BY <2>3, <3>1, <1>4, SlotKeeps
    <3> QED BY <1>1, <2>1, <3>2 DEF CallsInv
  <2>4. CASE \E p \in Peers, i \in Invites : EchoArrives(c, p, i)
    <3>1. PICK p \in Peers, i \in Invites : EchoArrives(c, p, i) BY <2>4
    <3> DEFINE s == Suspended("echo", p, "redeemEcho", FALSE, {}, i)
    <3>2. s \in Operation /\ s.at = "redeemEcho" BY DEF Suspended, Operation, Ops, Awaits
    <3>3. ~Opens(s) BY <3>2 DEF Opens
    <3>4. calls' = [calls EXCEPT ![c] = s] BY <3>1 DEF EchoArrives
    <3> HIDE DEF s
    <3>5. /\ calls' \in [Calls -> Operation \cup {Idle}]
          /\ \A d \in Calls : Opens(calls'[d]) => calls'[d].peer \in vouched'
      BY <3>2, <3>3, <3>4, <1>4, SlotKeeps
    <3> QED BY <1>1, <2>1, <3>5 DEF CallsInv
  <2> QED BY <2>2, <2>3, <2>4 DEF RedeemReturns
<1> QED BY <1>2, <1>3, <1>5

\* The coordinator opens the verified gate for a vouched peer only.
LEMMA CoordinatorStep ==
    ASSUME ContactInv, CoordinatorRuns
    PROVE  ContactInv'
<1> USE DEF ContactInv
<1> DEFINE c == Head(mail)
<1>1. c \in Calls /\ mail' \in Seq(Calls) /\ main' \in Seq(Calls)
  BY DEF CoordinatorRuns, CallsInv
<1>2. UNCHANGED <<records, history>> BY DEF CoordinatorRuns
<1>3. LedgerInv' BY <1>2, LedgerUntouched DEF history, records, KeepPending
<1>4. calls[c].at \in Awaits BY DEF CoordinatorRuns, Awaits
<1>5. calls[c] \in Operation BY <1>1, <1>4, WaitingIsOperation
<1>6. calls[c].peer \in Peers /\ calls[c].keys \subseteq Peers BY <1>5 DEF Operation
<1>7. calls[c].at = "addVerified" => calls[c].peer \in vouched
  BY <1>1 DEF CallsInv, Opens
<1>8. RecordsInv'
  <2>1. /\ enrolledGate' \subseteq Peers /\ blockedGate' \subseteq Peers
        /\ verifiedGate' \subseteq Peers
        /\ \A q \in verifiedGate' : q \in verifiedGate \/ q \in vouched
    BY <1>6, <1>7 DEF CoordinatorRuns, RecordsInv, gates
  <2> QED BY <1>2, <2>1 DEF RecordsInv, VerifiedIsVouched, records, history
<1>9. CallsInv'
  <2>1. CASE UNCHANGED calls
    BY <1>1, <1>2, <2>1 DEF CallsInv, history, Opens
  <2>2. CASE \E healthy \in BOOLEAN :
                calls' = [calls EXCEPT ![c] =
                    Suspended("scan", calls[c].peer, "onBundle",
                              healthy /\ calls[c].peer \in enrolledGate, {}, NoInvite)]
    <3>1. PICK healthy \in BOOLEAN :
                calls' = [calls EXCEPT ![c] =
                    Suspended("scan", calls[c].peer, "onBundle",
                              healthy /\ calls[c].peer \in enrolledGate, {}, NoInvite)]
      BY <2>2
    <3> DEFINE flag == healthy /\ calls[c].peer \in enrolledGate
               s == Suspended("scan", calls[c].peer, "onBundle", flag, {}, NoInvite)
    <3>2. calls' = [calls EXCEPT ![c] = s] BY <3>1
    <3>3. flag \in BOOLEAN OBVIOUS
    <3> HIDE DEF flag
    <3>4. s \in Operation /\ s.at = "onBundle"
      BY <1>6, <3>3 DEF Suspended, Operation, Ops, Awaits
    <3>5. ~Opens(s) BY <3>4 DEF Opens
    <3> HIDE DEF s
    <3>6. /\ calls' \in [Calls -> Operation \cup {Idle}]
          /\ \A d \in Calls : Opens(calls'[d]) => calls'[d].peer \in vouched'
      BY <1>1, <1>2, <3>2, <3>4, <3>5, SlotKeeps DEF history
    <3> QED BY <1>1, <3>6 DEF CallsInv
  <2> QED BY <2>1, <2>2 DEF CoordinatorRuns
<1> QED BY <1>3, <1>8, <1>9


\* Continuations that change no record: what they wait for next opens the
\* verified gate only where enroll was told that the contact is verified.
LEMMA PlainContinuation ==
    ASSUME ContactInv, NEW c \in Calls,
           \/ EnrollContinues(c) \/ OperationEnds(c) \/ ScanEstablishes(c)
           \/ RevokeContinues(c) \/ RedeemEchoIgnored(c)
    PROVE  ContactInv'
<1> USE DEF ContactInv
<1>1. UNCHANGED <<records, gates, history>>
  BY DEF EnrollContinues, OperationEnds, ScanEstablishes, RevokeContinues, RedeemEchoIgnored
<1>2. RecordsInv' BY <1>1, RecordsUntouched DEF history
<1>3. LedgerInv' BY <1>1, LedgerUntouched DEF history, records, KeepPending
<1>4. PICK at \in SUBSET Awaits : Resumes(c, at)
  BY DEF EnrollContinues, OperationEnds, ScanEstablishes, RevokeContinues,
         RedeemEchoIgnored, Awaits
<1>5. main' \in Seq(Calls) /\ calls[c].at \in Awaits BY <1>4, ResumesQueue
<1>6. calls[c].op \in Ops /\ calls[c].peer \in Peers BY <1>5, WaitingIsOperation
<1>7. vouched \subseteq vouched' BY <1>1 DEF history
<1>8. ASSUME NEW op \in Ops, NEW next \in {"onBundle", "removeVerified"},
             Hop(c, Awaiting(op, calls[c].peer, next))
      PROVE  CallsInv'
  <2> DEFINE s == Awaiting(op, calls[c].peer, next)
  <2>1. next \in Awaits BY DEF Awaits
  <2>2. s \in Operation /\ s.at = next BY <1>6, <2>1, AwaitingFields
  <2>3. ~Opens(s) BY <2>2 DEF Opens
  <2> QED BY <1>5, <1>7, <1>8, <2>2, <2>3, HopKeeps
<1>9. CallsInv'
  <2>1. CASE OperationEnds(c) \/ RedeemEchoIgnored(c)
    <3>1. Finish(c) BY <2>1 DEF OperationEnds, RedeemEchoIgnored
    <3> QED BY <1>5, <1>7, <3>1, FinishKeeps
  <2>2. CASE EnrollContinues(c)
    <3> DEFINE s == Awaiting(calls[c].op, calls[c].peer, "addVerified")
    <3>1. "addVerified" \in Awaits BY DEF Awaits
    <3>2. s \in Operation /\ s.peer = calls[c].peer BY <1>6, <3>1, AwaitingFields
    <3>3. Opens(calls[c]) BY <2>2 DEF EnrollContinues, Resumes, Opens
    <3>4. calls[c].peer \in vouched BY <3>3 DEF CallsInv
    <3>5. Hop(c, s) BY <2>2 DEF EnrollContinues
    <3> QED BY <1>5, <1>7, <3>2, <3>4, <3>5, HopKeeps
  <2>3. CASE ScanEstablishes(c)
    <3>1. "scan" \in Ops BY DEF Ops
    <3>2. Hop(c, Awaiting("scan", calls[c].peer, "onBundle"))
      BY <2>3 DEF ScanEstablishes
    <3> QED BY <1>8, <3>1, <3>2
  <2>4. CASE RevokeContinues(c)
    <3>1. Hop(c, Awaiting(calls[c].op, calls[c].peer, "removeVerified"))
      BY <2>4 DEF RevokeContinues
    <3> QED BY <1>6, <1>8, <3>1
  <2> QED BY <2>1, <2>2, <2>3, <2>4
<1> QED BY <1>2, <1>3, <1>9

\* Continuations that change the records.
LEMMA RecordContinuation ==
    ASSUME ContactInv, NEW c \in Calls,
           ThenRevoke(c) \/ LiftDenial(c) \/ RedeemEnrolls(c)
    PROVE  ContactInv'
<1> USE DEF ContactInv
<1>1. KeepPending /\ UNCHANGED <<gates, history>>
  BY DEF ThenRevoke, LiftDenial, RedeemEnrolls
<1>2. LedgerInv' BY <1>1, LedgerUntouched DEF history
<1>3. PICK at \in SUBSET Awaits : Resumes(c, at)
  BY DEF ThenRevoke, LiftDenial, RedeemEnrolls, Awaits
<1>4. main' \in Seq(Calls) /\ calls[c].at \in Awaits BY <1>3, ResumesQueue
<1>5. calls[c].op \in Ops /\ calls[c].peer \in Peers BY <1>4, WaitingIsOperation
<1>6. UNCHANGED gates /\ vouched' = vouched BY <1>1 DEF history, gates
<1>7. CASE ThenRevoke(c)
  <2>1. Revoke(c, calls[c].op, calls[c].peer) /\ KeepDenied BY <1>7 DEF ThenRevoke
  <2>2. UNCHANGED <<gates, vouched>> BY <1>6
  <2> QED BY <1>2, <1>4, <1>5, <2>1, <2>2, RevokeKeeps
<1>8. CASE LiftDenial(c)
  <2> DEFINE p == calls[c].peer
             updated == [denied EXCEPT ![p] = "none"]
             s == Suspended("unblock", p, "setBlocked", FALSE, BlockedKeys(updated), NoInvite)
  <2>1. CASE SaveDenied(updated) /\ Hop(c, s) /\ KeepAllowlist
    <3>1. RecordsInv'
      BY <1>5, <1>6, <2>1 DEF RecordsInv, VerifiedIsVouched, SaveDenied, KeepAllowlist,
                              gates, Trust
    <3>2. "unblock" \in Ops BY DEF Ops
    <3>3. s \in Operation /\ s.at = "setBlocked"
      <4> HIDE DEF updated, p
      <4>1. p \in Peers BY <1>5 DEF p
      <4> QED BY <3>2, <4>1, DenialFields
    <3>4. ~Opens(s) BY <3>3 DEF Opens
    <3>5. Hop(c, s) BY <2>1
    <3> HIDE DEF s
    <3>6. CallsInv' BY <1>4, <1>6, <3>3, <3>4, <3>5, HopKeeps
    <3> QED BY <1>2, <3>1, <3>6
  <2>2. CASE KeepDenied /\ Finish(c) /\ KeepAllowlist
    <3>1. RecordsInv'
      BY <1>6, <2>2 DEF RecordsInv, VerifiedIsVouched, KeepDenied, KeepAllowlist, gates
    <3>2. CallsInv' BY <1>4, <1>6, <2>2, FinishKeeps
    <3> QED BY <1>2, <3>1, <3>2
  <2> QED BY <1>8, <2>1, <2>2 DEF LiftDenial
<1>9. CASE RedeemEnrolls(c)
  <2>1. KeepDenied BY <1>9 DEF RedeemEnrolls
  <2>2. CASE Enroll(c, calls[c].op, calls[c].peer, FALSE)
    <3>1. vouched' \subseteq Peers BY <1>6 DEF RecordsInv
    <3> QED BY <1>2, <1>4, <1>5, <1>6, <2>1, <2>2, <3>1, EnrollKeeps
  <2>3. CASE EnrollFails(c)
    <3>1. RecordsInv'
      BY <1>6, <2>1, <2>3 DEF RecordsInv, VerifiedIsVouched, KeepDenied, EnrollFails,
                              KeepAllowlist, gates
    <3>2. CallsInv' BY <1>4, <1>6, <2>3, FinishKeeps DEF EnrollFails
    <3> QED BY <1>2, <3>1, <3>2
  <2> QED BY <1>9, <2>2, <2>3 DEF RedeemEnrolls
<1> QED BY <1>7, <1>8, <1>9


\* An echo burns an id that was never burnt, and the id is off the disk in
\* the same step; the contact it adds is unverified.
LEMMA EchoContinuation ==
    ASSUME ContactInv, NEW c \in Calls, RedeemEcho(c)
    PROVE  ContactInv'
<1> USE DEF ContactInv
<1> DEFINE i == calls[c].invite
<1>1. KeepDenied /\ UNCHANGED <<gates, expired, minted, vouched>> BY DEF RedeemEcho
<1>2. Resumes(c, {"redeemEcho"}) /\ Consumable(i) BY DEF RedeemEcho
<1>3. {"redeemEcho"} \in SUBSET Awaits BY DEF Awaits
<1>4. main' \in Seq(Calls) /\ calls[c].at \in Awaits BY <1>2, <1>3, ResumesQueue
<1>5. calls[c].op \in Ops /\ calls[c].peer \in Peers BY <1>4, WaitingIsOperation
<1>6. i \in pending /\ i \in Invites /\ burns[i] = 0
  BY <1>2 DEF Consumable, LedgerInv
<1>7. vouched' = vouched /\ UNCHANGED gates BY <1>1 DEF gates
<1>8. LedgerInv'
  <2>1. CASE SavePending(pending \ {i}) /\ burns' = [burns EXCEPT ![i] = @ + 1]
    <3>1. burns' = [burns EXCEPT ![i] = 1] BY <1>6, <2>1 DEF LedgerInv
    <3>2. /\ burns' \in [Invites -> Nat]
          /\ \A j \in Invites : j # i => burns'[j] = burns[j]
          /\ burns'[i] = 1
      BY <1>6, <3>1 DEF LedgerInv
    <3> HIDE DEF i
    <3>3. pending' = pending \ {i} /\ pendingStore' = pending \ {i} BY <2>1 DEF SavePending
    <3>4. \A j \in pending' \cup pendingStore' : burns'[j] = 0
      BY <3>2, <3>3 DEF LedgerInv
    <3>5. \A j \in Invites \ minted' : burns'[j] = 0
      BY <1>1, <1>6, <3>2 DEF LedgerInv
    <3>6. InviteBurnsOnce'
      <4> SUFFICES ASSUME NEW j \in Invites PROVE burns'[j] <= 1 BY DEF InviteBurnsOnce
      <4>1. burns[j] <= 1 BY DEF LedgerInv, InviteBurnsOnce
      <4> QED BY <3>2, <4>1
    <3> QED BY <1>1, <3>2, <3>3, <3>4, <3>5, <3>6 DEF LedgerInv
  <2>2. CASE KeepPending /\ burns' = burns
    BY <1>1, <2>2, LedgerUntouched
  <2> QED BY <2>1, <2>2 DEF RedeemEcho
<1>9. RecordsInv' /\ CallsInv'
  <2>1. CASE Enroll(c, calls[c].op, calls[c].peer, FALSE)
    <3>1. vouched' \subseteq Peers BY <1>7 DEF RecordsInv
    <3> QED BY <1>1, <1>4, <1>5, <1>7, <2>1, <3>1, EnrollKeeps
  <2>2. CASE KeepAllowlist /\ Finish(c)
    <3>1. RecordsInv'
      BY <1>1, <1>7, <2>2 DEF RecordsInv, VerifiedIsVouched, KeepDenied, KeepAllowlist, gates
    <3> QED BY <1>4, <1>7, <2>2, <3>1, FinishKeeps
  <2> QED BY <2>1, <2>2 DEF RedeemEcho, EnrollFails
<1> QED BY <1>8, <1>9

\* A relaunch adopts what is on disk, or nothing.
LEMMA RelaunchStep ==
    ASSUME ContactInv, NEW allowOk \in BOOLEAN, NEW pendingOk \in BOOLEAN,
           NEW deniedOk \in BOOLEAN, Relaunch(allowOk, pendingOk, deniedOk)
    PROVE  ContactInv'
<1> USE DEF ContactInv
<1>1. UNCHANGED <<allowStore, pendingStore, deniedStore, expired, minted, burns, vouched>>
  BY DEF Relaunch, history
<1>2. \/ allowlist' = allowStore
      \/ allowlist' = [p \in Peers |-> "none"]
  BY DEF Relaunch
<1>3. \/ denied' = deniedStore
      \/ denied' = [p \in Peers |-> "none"]
  BY DEF Relaunch
<1>4. /\ enrolledGate' = {p \in Peers : allowlist'[p] # "none"}
      /\ verifiedGate' = {p \in Peers : allowlist'[p] = "verified"}
      /\ blockedGate' = {p \in Peers : denied'[p] # "none"}
  BY DEF Relaunch, BlockedKeys
<1>5. RecordsInv'
  <2>1. /\ allowlist' \in [Peers -> Trust]
        /\ \A p \in Peers : allowlist'[p] = "verified" => p \in vouched
    BY <1>2 DEF RecordsInv, VerifiedIsVouched, Trust
  <2>2. /\ denied' \in [Peers -> Trust]
        /\ \A p \in Peers : denied'[p] = "verified" => p \in vouched
    BY <1>3 DEF RecordsInv, VerifiedIsVouched, Trust
  <2> QED BY <1>1, <1>4, <2>1, <2>2 DEF RecordsInv, VerifiedIsVouched
<1>6. LedgerInv'
  <2>1. pending' \subseteq pendingStore BY DEF Relaunch
  <2> QED BY <1>1, <2>1 DEF LedgerInv, InviteBurnsOnce
<1>7. CallsInv'
  <2>1. ~Opens(Idle) BY DEF Opens, Idle
  <2>2. calls' = [d \in Calls |-> Idle] /\ mail' = <<>> /\ main' = <<>>
    BY DEF Relaunch
  <2> QED BY <2>1, <2>2 DEF CallsInv
<1> QED BY <1>5, <1>6, <1>7

-----------------------------------------------------------------------------
(* The theorems.                                                             *)

\* Every step of every actor keeps the inductive invariant.
LEMMA NextKeeps ==
    ASSUME ContactInv, [Next]_vars
    PROVE  ContactInv'
<1>1. ASSUME NEW c \in Calls, NEW p \in Peers,
             \/ PairFromScanned(c, p) \/ MarkVerified(c, p) \/ RemoveContact(c, p)
             \/ Block(c, p) \/ Unblock(c, p) \/ RedeemInvite(c, p)
      PROVE  ContactInv'
  BY <1>1, UserStep
<1>2. ASSUME NEW c \in Calls,
             \/ RedeemReturns(c)
             \/ \E p \in Peers, i \in Invites : EchoArrives(c, p, i)
      PROVE  ContactInv'
  BY <1>2, NetworkStep
<1>3. ASSUME NEW c \in Calls,
             \/ EnrollContinues(c) \/ OperationEnds(c) \/ ScanEstablishes(c)
             \/ RevokeContinues(c) \/ RedeemEchoIgnored(c)
      PROVE  ContactInv'
  BY <1>3, PlainContinuation
<1>4. ASSUME NEW c \in Calls, ThenRevoke(c) \/ LiftDenial(c) \/ RedeemEnrolls(c)
      PROVE  ContactInv'
  BY <1>4, RecordContinuation
<1>5. ASSUME NEW c \in Calls, RedeemEcho(c) PROVE ContactInv'
  BY <1>5, EchoContinuation
<1>6. CASE CoordinatorRuns BY <1>6, CoordinatorStep
<1>7. ASSUME NEW i \in Invites, MintInvite(i) \/ Expire(i) PROVE ContactInv'
  BY <1>7, LedgerStep
<1>8. ASSUME NEW allowOk \in BOOLEAN, NEW pendingOk \in BOOLEAN, NEW deniedOk \in BOOLEAN,
             Relaunch(allowOk, pendingOk, deniedOk)
      PROVE  ContactInv'
  BY <1>8, RelaunchStep
<1>9. CASE UNCHANGED vars
  BY <1>9 DEF ContactInv, RecordsInv, LedgerInv, CallsInv, Opens, VerifiedIsVouched,
              InviteBurnsOnce, vars, records, gates, history
<1> QED BY Zenon, <1>1, <1>2, <1>3, <1>4, <1>5, <1>6, <1>7, <1>8, <1>9 DEF Next

\* The inductive invariant holds in every reachable state.
LEMMA Inductive == Spec => []ContactInv
<1>1. Init => ContactInv BY InitContact
<1>2. ContactInv /\ [Next]_vars => ContactInv' BY NextKeeps
<1> QED BY <1>1, <1>2, PTL DEF Spec

\* Records, gates, queues and suspended operations keep their types, whatever
\* overlaps and whenever the process dies.
THEOREM ContactTypes == Spec => []TypeOK
<1>1. ContactInv => TypeOK
  BY DEF ContactInv, RecordsInv, LedgerInv, CallsInv, TypeOK
<1> QED BY <1>1, Inductive, PTL

\* redeemEcho honours no invite twice: replays, restarts between any two
\* steps and unreadable ledgers included.
THEOREM InviteIsOneTime == Spec => []InviteBurnsOnce
<1>1. ContactInv => InviteBurnsOnce BY DEF ContactInv, LedgerInv
<1> QED BY <1>1, Inductive, PTL

\* No path through invites, echoes, blocking, unblocking or a restart makes
\* an identity pass as verified that the user never scanned or compared words
\* with.
THEOREM VerificationIsVouched == Spec => []VerifiedIsVouched
<1>1. ContactInv => VerifiedIsVouched BY DEF ContactInv, RecordsInv
<1> QED BY <1>1, Inductive, PTL

-----------------------------------------------------------------------------
(* The gates against the records.  Each gate is what the records say, but    *)
(* for the jobs that still wait; the order of the coordinator's queue and    *)
(* the one operation of the user decide what those jobs leave behind.        *)

Jobs == {"addReconnect", "addVerified", "removeReconnect", "removeVerified",
         "setBlocked", "onBundle"}

InMail(c) == \E k \in 1 .. Len(mail) : mail[k] = c

\* An operation waits in one queue, once, and for what that queue does.
QueueInv ==
    /\ \A i, j \in 1 .. Len(mail) : mail[i] = mail[j] => i = j
    /\ \A i, j \in 1 .. Len(main) : main[i] = main[j] => i = j
    /\ \A i \in 1 .. Len(mail), j \in 1 .. Len(main) : mail[i] # main[j]
    /\ \A i \in 1 .. Len(mail) : calls[mail[i]].at \in Jobs
    /\ \A i \in 1 .. Len(main) : calls[main[i]].at \in Awaits

\* What an operation is about to do to the trust of its peer.
Revokes(s) == s.at \in {"removeReconnect", "removeVerified"}
Raises(s) == Opens(s) \/ s.at = "onBundle"
Remote(s) == s.at \in {"redeemInvite", "redeemEcho"}
Users(s) == s # Idle /\ s.op \notin {"echo", "redeem"}

\* Only the one operation of the user verifies, revokes or denies; what waits
\* for the network or comes from it is none of the user's.
UserInv ==
    /\ \A c \in Calls :
         Raises(calls[c]) \/ Revokes(calls[c]) \/ calls[c].at = "setBlocked"
           => Hopping(c)
    /\ \A c, d \in Calls : Hopping(c) /\ Hopping(d) => c = d
    /\ \A c \in Calls : Remote(calls[c]) => ~Hopping(c)

\* The last job on a peer that waits for the enrolled gate leaves it as the
\* records are; without one the gate is so already.
Enrols(s, p) == s.peer = p /\ s.at \in {"addReconnect", "removeReconnect"}

EnrolledInv ==
    \A p \in Peers :
        \/ /\ \A k \in 1 .. Len(mail) : ~Enrols(calls[mail[k]], p)
           /\ p \in enrolledGate <=> allowlist[p] # "none"
        \/ \E k \in 1 .. Len(mail) :
              /\ Enrols(calls[mail[k]], p)
              /\ \A j \in k + 1 .. Len(mail) : ~Enrols(calls[mail[j]], p)
              /\ calls[mail[k]].at = "addReconnect" <=> allowlist[p] # "none"

\* A verified contact missing from its gate has an operation that will add
\* it, a stranger left in it one that will remove it, and the two exclude
\* each other.
Opening(c, p) ==
    /\ calls[c].peer = p /\ Opens(calls[c])
    /\ calls[c].at = "addVerified" => InMail(c)

Revoking(c, p) ==
    /\ calls[c].peer = p /\ Revokes(calls[c])
    /\ calls[c].at = "removeVerified" => InMail(c)

VerifiedInv ==
    \A p \in Peers :
        /\ allowlist[p] = "verified" =>
             p \in verifiedGate \/ \E c \in Calls : Opening(c, p)
        /\ p \in verifiedGate =>
             allowlist[p] # "none" \/ \E c \in Calls : Revoking(c, p)
        /\ \A c \in Calls : calls[c].peer = p =>
             /\ Revokes(calls[c]) => allowlist[p] # "verified"
             /\ Raises(calls[c]) => allowlist[p] # "none"

\* The drop set is the denylist, or is about to become it.
Setting(c) == calls[c].at = "setBlocked" /\ InMail(c)

BlockedInv ==
    /\ \A c \in Calls : Setting(c) => calls[c].keys = BlockedKeys(denied)
    /\ (\A c \in Calls : ~Setting(c)) => blockedGate = BlockedKeys(denied)

GatesInv == QueueInv /\ UserInv /\ EnrolledInv /\ VerifiedInv /\ BlockedInv

LEMMA QueueElements ==
    ASSUME CallsInv
    PROVE  /\ Len(mail) \in Nat /\ \A k \in 1 .. Len(mail) : mail[k] \in Calls
           /\ Len(main) \in Nat /\ \A k \in 1 .. Len(main) : main[k] \in Calls
BY ElementOfSeq, LenProperties DEF CallsInv

\* The head of the main actor's queue leaves it.
LEMMA MainTail ==
    ASSUME CallsInv, main # <<>>, main' = Tail(main)
    PROVE  /\ 1 \in 1 .. Len(main) /\ Head(main) = main[1]
           /\ Len(main') = Len(main) - 1
           /\ \A k \in 1 .. Len(main') : k + 1 \in 1 .. Len(main) /\ main'[k] = main[k + 1]
<1>1. main \in Seq(Calls) /\ Len(main) \in Nat
  BY QueueElements DEF CallsInv
<1>2. /\ Len(main) # 0 /\ Head(main) = main[1] /\ Len(main') = Len(main) - 1
      /\ \A k \in 1 .. Len(main) - 1 : main'[k] = main[k + 1]
  BY <1>1, HeadTailProperties, EmptySeq
<1> QED
  BY <1>1, <1>2

\* The two ways an operation comes to act: it starts in a free slot, or it is
\* taken off the main actor's queue.
Acts(c) ==
    \/ Free(c) /\ main' = main
    \/ main # <<>> /\ c = Head(main) /\ main' = Tail(main)

\* Then it waits for nothing else.
LEMMA ActingIsAlone ==
    ASSUME CallsInv, QueueInv, NEW c \in Calls, Acts(c)
    PROVE  /\ \A k \in 1 .. Len(mail) : mail[k] # c
           /\ \A k \in 1 .. Len(main') : main'[k] # c
           /\ \A i, j \in 1 .. Len(main') : main'[i] = main'[j] => i = j
           /\ \A i \in 1 .. Len(mail), j \in 1 .. Len(main') : mail[i] # main'[j]
           /\ \A k \in 1 .. Len(main') : main'[k] \in Calls /\ calls[main'[k]].at \in Awaits
<1>1. CASE Free(c) /\ main' = main
  <2>1. calls[c].at \notin Awaits /\ calls[c].at \notin Jobs
    BY <1>1 DEF Free, Idle, Awaits, Jobs
  <2> QED
    BY <1>1, <2>1, QueueElements DEF QueueInv
<1>2. CASE main # <<>> /\ c = Head(main) /\ main' = Tail(main)
  <2>1. /\ 1 \in 1 .. Len(main) /\ c = main[1]
        /\ \A k \in 1 .. Len(main') : /\ k + 1 \in 1 .. Len(main) /\ main'[k] = main[k + 1]
                                      /\ k + 1 # 1 /\ k \in Nat
    BY <1>2, MainTail, QueueElements
  <2>2. \A i, j \in 1 .. Len(main') : i + 1 = j + 1 => i = j
    OBVIOUS
  <2>3. \A k \in 1 .. Len(mail) : mail[k] # c
    BY <2>1 DEF QueueInv
  <2>4. \A k \in 1 .. Len(main') : main'[k] # c
    BY <2>1 DEF QueueInv
  <2>5. \A i, j \in 1 .. Len(main') : main'[i] = main'[j] => i = j
    BY <2>1, <2>2 DEF QueueInv
  <2>6. \A i \in 1 .. Len(mail), j \in 1 .. Len(main') : mail[i] # main'[j]
    BY <2>1 DEF QueueInv
  <2>7. \A k \in 1 .. Len(main') : main'[k] \in Calls /\ calls[main'[k]].at \in Awaits
    BY <2>1, QueueElements DEF QueueInv
  <2> QED
    BY <2>3, <2>4, <2>5, <2>6, <2>7
<1> QED
  BY <1>1, <1>2 DEF Acts

\* An operation that acts suspends on a job of the coordinator.
LEMMA HopMoves ==
    ASSUME CallsInv, QueueInv, NEW c \in Calls, NEW s \in Operation, s.at \in Jobs,
           Acts(c), Hop(c, s)
    PROVE  /\ QueueInv'
           /\ \A d \in Calls : calls'[d] = IF d = c THEN s ELSE calls[d]
           /\ ~InMail(c) /\ InMail(c)'
           /\ \A d \in Calls : d # c => (InMail(d)' <=> InMail(d))
           /\ Len(mail') = Len(mail) + 1 /\ mail'[Len(mail) + 1] = c
           /\ \A k \in 1 .. Len(mail) : mail'[k] = mail[k] /\ mail[k] # c
<1>1. \A d \in Calls : calls'[d] = IF d = c THEN s ELSE calls[d]
  BY DEF Hop, CallsInv
<1>2. /\ Len(mail') = Len(mail) + 1 /\ mail'[Len(mail) + 1] = c
      /\ \A k \in 1 .. Len(mail) : mail'[k] = mail[k]
  <2>1. mail \in Seq(Calls) /\ mail' = Append(mail, c)
    BY DEF Hop, CallsInv
  <2> QED
    BY <2>1, AppendProperties
<1>3. /\ \A k \in 1 .. Len(mail) : mail[k] # c /\ mail[k] \in Calls
      /\ Len(mail) \in Nat
      /\ \A k \in 1 .. Len(main') : main'[k] # c
      /\ \A i, j \in 1 .. Len(main') : main'[i] = main'[j] => i = j
      /\ \A i \in 1 .. Len(mail), j \in 1 .. Len(main') : mail[i] # main'[j]
      /\ \A k \in 1 .. Len(main') : main'[k] \in Calls /\ calls[main'[k]].at \in Awaits
  BY ActingIsAlone, QueueElements
<1>4. \A k \in 1 .. Len(mail') : k \in 1 .. Len(mail) \/ (k = Len(mail) + 1 /\ mail'[k] = c)
  BY <1>2, <1>3
<1>5. QueueInv'
  <2>1. \A i, j \in 1 .. Len(mail') : mail'[i] = mail'[j] => i = j
    BY <1>2, <1>3, <1>4 DEF QueueInv
  <2>2. \A i \in 1 .. Len(mail'), j \in 1 .. Len(main') : mail'[i] # main'[j]
    BY <1>2, <1>3, <1>4
  <2>3. \A i \in 1 .. Len(mail') : calls'[mail'[i]].at \in Jobs
    BY <1>1, <1>2, <1>3, <1>4 DEF QueueInv
  <2>4. \A i \in 1 .. Len(main') : calls'[main'[i]].at \in Awaits
    BY <1>1, <1>3
  <2> QED
    BY <1>3, <2>1, <2>2, <2>3, <2>4 DEF QueueInv
<1>6. ~InMail(c)
  BY <1>3 DEF InMail
<1>7. Len(mail) + 1 \in 1 .. Len(mail') /\ \A k \in 1 .. Len(mail) : k \in 1 .. Len(mail')
  BY <1>2, <1>3
<1>8. InMail(c)'
  BY <1>2, <1>7 DEF InMail
<1>9. \A d \in Calls : d # c => (InMail(d)' <=> InMail(d))
  BY <1>2, <1>4, <1>7 DEF InMail
<1> QED
  BY <1>1, <1>2, <1>3, <1>5, <1>6, <1>8, <1>9

\* An operation that acts returns.
LEMMA FinishMoves ==
    ASSUME CallsInv, QueueInv, NEW c \in Calls, Acts(c), Finish(c)
    PROVE  /\ QueueInv'
           /\ \A d \in Calls : calls'[d] = IF d = c THEN Idle ELSE calls[d]
           /\ mail' = mail /\ ~InMail(c)
<1>1. \A d \in Calls : calls'[d] = IF d = c THEN Idle ELSE calls[d]
  BY DEF Finish, CallsInv
<1>2. /\ \A k \in 1 .. Len(mail) : mail[k] # c /\ mail[k] \in Calls
      /\ \A k \in 1 .. Len(main') : main'[k] # c
      /\ \A i, j \in 1 .. Len(main') : main'[i] = main'[j] => i = j
      /\ \A i \in 1 .. Len(mail), j \in 1 .. Len(main') : mail[i] # main'[j]
      /\ \A k \in 1 .. Len(main') : main'[k] \in Calls /\ calls[main'[k]].at \in Awaits
  BY ActingIsAlone, QueueElements
<1>3. mail' = mail
  BY DEF Finish
<1> QED
  BY <1>1, <1>2, <1>3 DEF QueueInv, InMail

\* The coordinator runs the head of its queue.
LEMMA JobMoves ==
    ASSUME CallsInv, QueueInv, NEW c \in Calls, mail # <<>>, c = Head(mail),
           mail' = Tail(mail), main' = Append(main, c),
           NEW s, \A d \in Calls : calls'[d] = IF d = c THEN s ELSE calls[d],
           s.at = calls[c].at
    PROVE  /\ QueueInv' /\ calls[c].at \in Jobs
           /\ InMail(c) /\ ~InMail(c)'
           /\ \A d \in Calls : d # c => (InMail(d)' <=> InMail(d))
           /\ 1 \in 1 .. Len(mail) /\ c = mail[1] /\ Len(mail') = Len(mail) - 1
           /\ \A k \in 1 .. Len(mail') : /\ mail'[k] = mail[k + 1] /\ mail'[k] # c
                                         /\ k + 1 \in 1 .. Len(mail)
<1>1. mail \in Seq(Calls) /\ Len(mail) \in Nat /\ Len(main) \in Nat /\ main \in Seq(Calls)
  BY QueueElements DEF CallsInv
<1>2. /\ Len(mail) # 0 /\ c = mail[1] /\ Len(mail') = Len(mail) - 1
      /\ \A k \in 1 .. Len(mail) - 1 : mail'[k] = mail[k + 1]
  BY <1>1, HeadTailProperties, EmptySeq
<1>3. 1 \in 1 .. Len(mail)
  BY <1>1, <1>2
<1>4. /\ Len(main') = Len(main) + 1 /\ main'[Len(main) + 1] = c
      /\ \A k \in 1 .. Len(main) : main'[k] = main[k]
  BY <1>1, <1>3, AppendProperties
<1>5. \A k \in 1 .. Len(mail') : /\ k + 1 \in 1 .. Len(mail) /\ mail'[k] = mail[k + 1]
                                 /\ k + 1 # 1 /\ k \in Nat
  BY <1>1, <1>2
<1>6. \A k \in 1 .. Len(mail') : mail'[k] # c /\ mail'[k] \in Calls
  BY <1>2, <1>3, <1>5, QueueElements DEF QueueInv
<1>7. \A k \in 1 .. Len(main') : k \in 1 .. Len(main) \/ (k = Len(main) + 1 /\ main'[k] = c)
  BY <1>1, <1>4
<1>8. \A k \in 1 .. Len(main) : main[k] # c /\ main[k] \in Calls
  BY <1>2, <1>3, QueueElements DEF QueueInv
<1>9. calls[c].at \in Jobs
  BY <1>2, <1>3 DEF QueueInv
<1>10. \A d \in Calls : calls'[d].at = calls[d].at
  OBVIOUS
<1>11. QueueInv'
  <2>1. \A i, j \in 1 .. Len(mail') : mail'[i] = mail'[j] => i = j
    BY <1>5 DEF QueueInv
  <2>2. \A i, j \in 1 .. Len(main') : main'[i] = main'[j] => i = j
    BY <1>4, <1>7, <1>8 DEF QueueInv
  <2>3. \A i \in 1 .. Len(mail'), j \in 1 .. Len(main') : mail'[i] # main'[j]
    BY <1>4, <1>5, <1>6, <1>7 DEF QueueInv
  <2>4. \A i \in 1 .. Len(mail') : calls'[mail'[i]].at \in Jobs
    BY <1>5, <1>6, <1>10 DEF QueueInv
  <2>5. \A i \in 1 .. Len(main') : calls'[main'[i]].at \in Awaits
    BY <1>3, <1>4, <1>7, <1>8, <1>9, <1>10 DEF QueueInv, Jobs, Awaits
  <2> QED
    BY <2>1, <2>2, <2>3, <2>4, <2>5 DEF QueueInv
<1>12. InMail(c)
  BY <1>2, <1>3 DEF InMail
<1>13. ~InMail(c)'
  BY <1>6 DEF InMail
<1>14. ASSUME NEW d \in Calls, d # c PROVE InMail(d)' <=> InMail(d)
  <2>1. ASSUME NEW k \in 1 .. Len(mail), mail[k] = d PROVE InMail(d)'
    <3>1. k - 1 \in 1 .. Len(mail') /\ mail'[k - 1] = mail[k]
      <4>1. k # 1
        BY <1>2, <1>14, <2>1
      <4> QED
        BY <4>1, <1>1, <1>2
    <3> QED
      BY <2>1, <3>1 DEF InMail
  <2>2. ASSUME NEW k \in 1 .. Len(mail'), mail'[k] = d PROVE InMail(d)
    BY <2>2, <1>5 DEF InMail
  <2> QED
    BY <2>1, <2>2 DEF InMail
<1> QED
  BY <1>2, <1>3, <1>5, <1>6, <1>9, <1>11, <1>12, <1>13, <1>14

\* Slot c takes s, the other operations stay where they were.
Replaces(c, s) ==
    /\ \A d \in Calls : calls'[d] = IF d = c THEN s ELSE calls[d]
    /\ \A d \in Calls : d # c => (InMail(d)' <=> InMail(d))

LEMMA UserKept ==
    ASSUME UserInv, NEW c \in Calls, NEW s, Replaces(c, s),
           Raises(s) \/ Revokes(s) \/ s.at = "setBlocked" => Users(s),
           Remote(s) => ~Users(s),
           Users(s) => \A d \in Calls : Hopping(d) => d = c
    PROVE  UserInv'
<1>1. \A d \in Calls : Hopping(d)' <=> IF d = c THEN Users(s) ELSE Hopping(d)
  BY DEF Replaces, Hopping, Users
<1>2. ASSUME NEW d \in Calls,
             Raises(calls'[d]) \/ Revokes(calls'[d]) \/ calls'[d].at = "setBlocked"
      PROVE  Hopping(d)'
  BY <1>1, <1>2 DEF Replaces, UserInv
<1>3. ASSUME NEW d \in Calls, NEW e \in Calls, Hopping(d)', Hopping(e)' PROVE d = e
  BY <1>1, <1>3 DEF UserInv
<1>4. ASSUME NEW d \in Calls, Remote(calls'[d]) PROVE ~Hopping(d)'
  BY <1>1, <1>4 DEF Replaces, UserInv
<1> QED
  BY <1>2, <1>3, <1>4 DEF UserInv, Raises, Opens, Revokes, Remote

\* Nothing of the verified gate changes, and c goes on with what it was doing to it.
LEMMA VerifiedKept ==
    ASSUME VerifiedInv, NEW c \in Calls, NEW s, Replaces(c, s),
           UNCHANGED <<allowlist, verifiedGate>>,
           \A p \in Peers : Opening(c, p) => Opening(c, p)',
           \A p \in Peers : Revoking(c, p) => Revoking(c, p)',
           Raises(s) => Raises(calls[c]) /\ s.peer = calls[c].peer,
           Revokes(s) => Revokes(calls[c]) /\ s.peer = calls[c].peer
    PROVE  VerifiedInv'
<1> SUFFICES ASSUME NEW p \in Peers
             PROVE  /\ allowlist[p] = "verified" =>
                         p \in verifiedGate \/ \E d \in Calls : Opening(d, p)'
                    /\ p \in verifiedGate =>
                         allowlist[p] # "none" \/ \E d \in Calls : Revoking(d, p)'
                    /\ \A d \in Calls : calls'[d].peer = p =>
                         /\ Revokes(calls'[d]) => allowlist[p] # "verified"
                         /\ Raises(calls'[d]) => allowlist[p] # "none"
  BY DEF VerifiedInv, Revokes, Raises, Opens
<1>1. \A d \in Calls : Opening(d, p) => Opening(d, p)'
  BY DEF Replaces, Opening, Opens
<1>2. \A d \in Calls : Revoking(d, p) => Revoking(d, p)'
  BY DEF Replaces, Revoking, Revokes
<1>3. /\ allowlist[p] = "verified" => p \in verifiedGate \/ \E d \in Calls : Opening(d, p)
      /\ p \in verifiedGate => allowlist[p] # "none" \/ \E d \in Calls : Revoking(d, p)
      /\ \A d \in Calls : calls[d].peer = p =>
           /\ Revokes(calls[d]) => allowlist[p] # "verified"
           /\ Raises(calls[d]) => allowlist[p] # "none"
  BY DEF VerifiedInv
<1>4. ASSUME NEW d \in Calls, calls'[d].peer = p
      PROVE  /\ Revokes(calls'[d]) => allowlist[p] # "verified"
             /\ Raises(calls'[d]) => allowlist[p] # "none"
  <2>1. CASE d = c
    BY <2>1, <1>3, <1>4 DEF Replaces
  <2>2. CASE d # c
    BY <2>2, <1>3, <1>4 DEF Replaces
  <2> QED
    BY <2>1, <2>2
<1> QED
  BY <1>1, <1>2, <1>3, <1>4

LEMMA BlockedKept ==
    ASSUME BlockedInv, NEW c \in Calls, NEW s, Replaces(c, s), UNCHANGED <<denied, blockedGate>>,
           ~Setting(c), ~Setting(c)'
    PROVE  BlockedInv'
<1>1. \A d \in Calls : Setting(d)' <=> Setting(d)
  BY DEF Replaces, Setting
<1>2. \A d \in Calls : Setting(d) => calls'[d] = calls[d]
  BY DEF Replaces
<1> QED
  BY <1>1, <1>2 DEF BlockedInv, BlockedKeys

\* The queue of the coordinator and what waits in it stay as they are.
LEMMA EnrolledKept ==
    ASSUME EnrolledInv, CallsInv, mail' = mail, UNCHANGED enrolledGate,
           \A k \in 1 .. Len(mail) : calls'[mail[k]] = calls[mail[k]],
           \A p \in Peers : allowlist'[p] = "none" <=> allowlist[p] = "none"
    PROVE  EnrolledInv'
<1> SUFFICES ASSUME NEW p \in Peers
             PROVE  \/ /\ \A k \in 1 .. Len(mail) : ~Enrols(calls[mail[k]], p)
                       /\ p \in enrolledGate <=> allowlist'[p] # "none"
                    \/ \E k \in 1 .. Len(mail) :
                          /\ Enrols(calls[mail[k]], p)
                          /\ \A j \in k + 1 .. Len(mail) : ~Enrols(calls'[mail[j]], p)
                          /\ calls[mail[k]].at = "addReconnect" <=> allowlist'[p] # "none"
  BY DEF EnrolledInv, Enrols
<1>1. Len(mail) \in Nat /\ \A k \in 1 .. Len(mail) : \A j \in k + 1 .. Len(mail) : j \in 1 .. Len(mail)
  BY QueueElements
<1> QED
  BY <1>1 DEF EnrolledInv

\* A job joins the queue: if it is for the enrolled gate it says what the
\* records now say, if not they say of every peer what they said.
LEMMA EnrolledHop ==
    ASSUME EnrolledInv, CallsInv, NEW c \in Calls, NEW s,
           \A d \in Calls : calls'[d] = IF d = c THEN s ELSE calls[d],
           Len(mail') = Len(mail) + 1, mail'[Len(mail) + 1] = c,
           \A k \in 1 .. Len(mail) : mail'[k] = mail[k] /\ mail[k] # c,
           UNCHANGED enrolledGate,
           \A p \in Peers :
             IF Enrols(s, p) THEN s.at = "addReconnect" <=> allowlist'[p] # "none"
             ELSE allowlist'[p] = "none" <=> allowlist[p] = "none"
    PROVE  EnrolledInv'
<1>1. /\ Len(mail) \in Nat /\ \A k \in 1 .. Len(mail) : mail[k] \in Calls
      /\ \A k \in 1 .. Len(mail') : k \in 1 .. Len(mail) \/ k = Len(mail) + 1
      /\ \A k \in 1 .. Len(mail) : k \in 1 .. Len(mail')
      /\ Len(mail) + 1 \in 1 .. Len(mail')
  BY QueueElements
<1>2. /\ \A k \in 1 .. Len(mail) : calls'[mail'[k]] = calls[mail[k]]
      /\ calls'[mail'[Len(mail) + 1]] = s
  BY <1>1
<1> SUFFICES ASSUME NEW p \in Peers
             PROVE  \/ /\ \A k \in 1 .. Len(mail') : ~Enrols(calls'[mail'[k]], p)
                       /\ p \in enrolledGate <=> allowlist'[p] # "none"
                    \/ \E k \in 1 .. Len(mail') :
                          /\ Enrols(calls'[mail'[k]], p)
                          /\ \A j \in k + 1 .. Len(mail') : ~Enrols(calls'[mail'[j]], p)
                          /\ calls'[mail'[k]].at = "addReconnect" <=> allowlist'[p] # "none"
  BY DEF EnrolledInv, Enrols
<1>3. CASE Enrols(s, p)
  <2>1. \A j \in Len(mail) + 1 + 1 .. Len(mail') : FALSE
    BY <1>1
  <2> QED
    BY <1>1, <1>2, <1>3, <2>1
<1>4. CASE ~Enrols(s, p)
  <2>1. CASE /\ \A k \in 1 .. Len(mail) : ~Enrols(calls[mail[k]], p)
             /\ p \in enrolledGate <=> allowlist[p] # "none"
    <3>1. \A k \in 1 .. Len(mail') : ~Enrols(calls'[mail'[k]], p)
      BY <1>1, <1>2, <1>4, <2>1
    <3> QED
      BY <1>4, <2>1, <3>1
  <2>2. ASSUME NEW k \in 1 .. Len(mail), Enrols(calls[mail[k]], p),
               \A j \in k + 1 .. Len(mail) : ~Enrols(calls[mail[j]], p),
               calls[mail[k]].at = "addReconnect" <=> allowlist[p] # "none"
        PROVE  \E i \in 1 .. Len(mail') :
                  /\ Enrols(calls'[mail'[i]], p)
                  /\ \A j \in i + 1 .. Len(mail') : ~Enrols(calls'[mail'[j]], p)
                  /\ calls'[mail'[i]].at = "addReconnect" <=> allowlist'[p] # "none"
    <3>1. ASSUME NEW j \in k + 1 .. Len(mail') PROVE ~Enrols(calls'[mail'[j]], p)
      <4>1. CASE j = Len(mail) + 1
        BY <4>1, <1>2, <1>4
      <4>2. CASE j # Len(mail) + 1
        <5>1. j \in k + 1 .. Len(mail) /\ j \in 1 .. Len(mail)
          BY <4>2, <1>1
        <5> QED
          BY <5>1, <1>2, <2>2
      <4> QED
        BY <4>1, <4>2
    <3> QED
      BY <3>1, <1>1, <1>2, <1>4, <2>2
  <2> QED
    BY <2>1, <2>2 DEF EnrolledInv
<1> QED
  BY <1>3, <1>4

\* The coordinator runs a job; if it is for the enrolled gate it sets that.
LEMMA EnrolledJob ==
    ASSUME EnrolledInv, CallsInv, NEW c \in Calls, NEW s,
           \A d \in Calls : calls'[d] = IF d = c THEN s ELSE calls[d],
           1 \in 1 .. Len(mail), c = mail[1], Len(mail') = Len(mail) - 1,
           \A k \in 1 .. Len(mail') : /\ mail'[k] = mail[k + 1] /\ mail'[k] # c
                                      /\ k + 1 \in 1 .. Len(mail),
           UNCHANGED allowlist,
           \A p \in Peers :
             p \in enrolledGate' <=> IF Enrols(calls[c], p) THEN calls[c].at = "addReconnect"
                                     ELSE p \in enrolledGate
    PROVE  EnrolledInv'
<1>1. Len(mail) \in Nat /\ \A k \in 1 .. Len(mail) : mail[k] \in Calls
  BY QueueElements
<1>2. \A k \in 1 .. Len(mail') : calls'[mail'[k]] = calls[mail[k + 1]]
  BY <1>1
<1>3. \A k \in 1 .. Len(mail) : k # 1 => k - 1 \in 1 .. Len(mail') /\ (k - 1) + 1 = k
  BY <1>1
<1> SUFFICES ASSUME NEW p \in Peers
             PROVE  \/ /\ \A k \in 1 .. Len(mail') : ~Enrols(calls'[mail'[k]], p)
                       /\ p \in enrolledGate' <=> allowlist[p] # "none"
                    \/ \E k \in 1 .. Len(mail') :
                          /\ Enrols(calls'[mail'[k]], p)
                          /\ \A j \in k + 1 .. Len(mail') : ~Enrols(calls'[mail'[j]], p)
                          /\ calls'[mail'[k]].at = "addReconnect" <=> allowlist[p] # "none"
  BY DEF EnrolledInv, Enrols
<1>4. CASE /\ \A k \in 1 .. Len(mail) : ~Enrols(calls[mail[k]], p)
           /\ p \in enrolledGate <=> allowlist[p] # "none"
  BY <1>1, <1>2, <1>4
<1>5. ASSUME NEW k \in 1 .. Len(mail), Enrols(calls[mail[k]], p),
             \A j \in k + 1 .. Len(mail) : ~Enrols(calls[mail[j]], p),
             calls[mail[k]].at = "addReconnect" <=> allowlist[p] # "none"
      PROVE  \/ /\ \A i \in 1 .. Len(mail') : ~Enrols(calls'[mail'[i]], p)
                /\ p \in enrolledGate' <=> allowlist[p] # "none"
             \/ \E i \in 1 .. Len(mail') :
                   /\ Enrols(calls'[mail'[i]], p)
                   /\ \A j \in i + 1 .. Len(mail') : ~Enrols(calls'[mail'[j]], p)
                   /\ calls'[mail'[i]].at = "addReconnect" <=> allowlist[p] # "none"
  <2>1. CASE k = 1
    <3>1. \A i \in 1 .. Len(mail') : i + 1 \in k + 1 .. Len(mail)
      BY <2>1, <1>1
    <3> QED
      BY <2>1, <3>1, <1>2, <1>5
  <2>2. CASE k # 1
    <3>1. \A j \in (k - 1) + 1 .. Len(mail') : j + 1 \in k + 1 .. Len(mail) /\ j \in 1 .. Len(mail')
      BY <2>2, <1>1, <1>3
    <3>2. k - 1 \in 1 .. Len(mail') /\ calls'[mail'[k - 1]] = calls[mail[k]]
      BY <2>2, <1>2, <1>3
    <3>3. \A j \in (k - 1) + 1 .. Len(mail') : ~Enrols(calls'[mail'[j]], p)
      BY <3>1, <1>2, <1>5
    <3>4. /\ Enrols(calls'[mail'[k - 1]], p)
          /\ calls'[mail'[k - 1]].at = "addReconnect" <=> allowlist[p] # "none"
      BY <3>2, <1>5
    <3> QED
      BY <3>2, <3>3, <3>4
  <2> QED
    BY <2>1, <2>2
<1> QED
  BY <1>4, <1>5 DEF EnrolledInv

-----------------------------------------------------------------------------
(* One lemma per way to change the records or the queues.                    *)

LEMMA IdleIsInert == ~Opens(Idle) /\ ~Raises(Idle) /\ ~Revokes(Idle) /\ ~Users(Idle)
                     /\ Idle.at \notin Jobs /\ Idle.at \notin Awaits
BY DEF Idle, Opens, Raises, Revokes, Users, Jobs, Awaits

LEMMA InertOfIdle == ASSUME UserInv, NEW c \in Calls, ~Hopping(c)
                     PROVE  ~Opens(calls[c]) /\ ~Revokes(calls[c]) /\ calls[c].at # "setBlocked"
BY DEF UserInv, Raises

LEMMA OperationUses ==
    ASSUME NEW s \in Operation
    PROVE  s.at \in Awaits /\ s # Idle /\ s.op \in Ops /\ s.peer \in Peers /\ s.flag \in BOOLEAN
           /\ (Users(s) <=> s.op \notin {"echo", "redeem"})
<1>1. s.at \in Awaits /\ s.op \in Ops /\ s.peer \in Peers /\ s.flag \in BOOLEAN
  BY DEF Operation
<1>2. s # Idle
  BY <1>1 DEF Idle, Awaits
<1> QED
  BY <1>1, <1>2 DEF Users

\* enroll: the record and the job that will adopt it come in one step.
LEMMA EnrollSettles ==
    ASSUME ContactInv, GatesInv, NEW c \in Calls, NEW op \in Ops, NEW p \in Peers,
           NEW verified \in BOOLEAN, Acts(c), Enroll(c, op, p, verified), KeepDenied,
           UNCHANGED gates, ~Hopping(c),
           verified \/ op \notin {"echo", "redeem"} =>
              op \notin {"echo", "redeem"} /\ \A d \in Calls : ~Hopping(d)
    PROVE  GatesInv'
<1> DEFINE s == Suspended(op, p, "addReconnect", verified, {}, NoInvite)
<1>1. s \in Operation /\ s.peer = p /\ s.at = "addReconnect" /\ s.flag = verified /\ s.op = op
  BY SuspendedFields DEF Awaits
<1>2. Hop(c, s)
  BY DEF Enroll
<1> HIDE DEF s
<1>3. s.at \in Jobs /\ CallsInv /\ QueueInv
  BY <1>1 DEF Jobs, ContactInv, GatesInv
<1>4. /\ QueueInv' /\ Replaces(c, s) /\ ~InMail(c)
      /\ \A d \in Calls : calls'[d] = IF d = c THEN s ELSE calls[d]
      /\ Len(mail') = Len(mail) + 1 /\ mail'[Len(mail) + 1] = c
      /\ \A k \in 1 .. Len(mail) : mail'[k] = mail[k] /\ mail[k] # c
  BY <1>1, <1>2, <1>3, HopMoves DEF Replaces
<1>5. /\ Opens(s) <=> verified
      /\ Raises(s) <=> verified
      /\ ~Revokes(s) /\ (Users(s) <=> op \notin {"echo", "redeem"})
  BY <1>1, OperationUses DEF Opens, Raises, Revokes
<1>6. ~Opens(calls[c]) /\ ~Revokes(calls[c]) /\ calls[c].at # "setBlocked"
  BY InertOfIdle DEF GatesInv
<1>7. allowlist \in [Peers -> Trust]
  BY DEF ContactInv, RecordsInv
<1>8. /\ \A q \in Peers : q # p => allowlist'[q] = allowlist[q]
      /\ allowlist'[p] = IF verified THEN "verified" ELSE "enrolled"
  BY <1>7 DEF Enroll, SaveAllowlist
<1>9. UserInv'
  <2>1. UserInv /\ s.at # "setBlocked"
    BY <1>1 DEF GatesInv
  <2>2. Users(s) => \A d \in Calls : Hopping(d) => d = c
    BY <1>5
  <2> QED
    BY <2>1, <2>2, <1>1, <1>4, <1>5, UserKept DEF Remote
<1>10. EnrolledInv'
  <2>1. UNCHANGED enrolledGate /\ EnrolledInv
    BY DEF gates, GatesInv
  <2>2. ASSUME NEW q \in Peers
        PROVE  IF Enrols(s, q) THEN s.at = "addReconnect" <=> allowlist'[q] # "none"
               ELSE allowlist'[q] = "none" <=> allowlist[q] = "none"
    BY <1>1, <1>8 DEF Enrols
  <2> QED
    BY <2>1, <2>2, <1>3, <1>4, EnrolledHop
<1>11. VerifiedInv'
  <2> SUFFICES ASSUME NEW q \in Peers
               PROVE  /\ allowlist'[q] = "verified" =>
                           q \in verifiedGate' \/ \E d \in Calls : Opening(d, q)'
                      /\ q \in verifiedGate' =>
                           allowlist'[q] # "none" \/ \E d \in Calls : Revoking(d, q)'
                      /\ \A d \in Calls : calls'[d].peer = q =>
                           /\ Revokes(calls'[d]) => allowlist'[q] # "verified"
                           /\ Raises(calls'[d]) => allowlist'[q] # "none"
    BY DEF VerifiedInv, Revokes, Raises, Opens
  <2>1. /\ allowlist[q] = "verified" => q \in verifiedGate \/ \E d \in Calls : Opening(d, q)
        /\ q \in verifiedGate => allowlist[q] # "none" \/ \E d \in Calls : Revoking(d, q)
        /\ \A d \in Calls : calls[d].peer = q =>
             /\ Revokes(calls[d]) => allowlist[q] # "verified"
             /\ Raises(calls[d]) => allowlist[q] # "none"
    BY DEF GatesInv, VerifiedInv
  <2>2. verifiedGate' = verifiedGate
    BY DEF gates
  <2>3. \A d \in Calls : Opening(d, q) => Opening(d, q)'
    BY <1>4, <1>6 DEF Replaces, Opening, Opens
  <2>4. \A d \in Calls : Revoking(d, q) => Revoking(d, q)'
    BY <1>4, <1>6 DEF Replaces, Revoking, Revokes
  <2>5. verified => Opening(c, p)'
    BY <1>1, <1>4, <1>5 DEF Opening, Opens
  <2>6. ASSUME NEW d \in Calls, calls'[d].peer = q, Revokes(calls'[d])
        PROVE  allowlist'[q] # "verified"
    <3>1. d # c /\ calls'[d] = calls[d]
      BY <2>6, <1>4, <1>5
    <3>2. Hopping(d)
      BY <3>1, <2>6 DEF GatesInv, UserInv
    <3>3. ~verified /\ allowlist[q] # "verified"
      BY <3>1, <3>2, <2>1, <2>6
    <3> QED
      BY <3>3, <1>8
  <2>7. ASSUME NEW d \in Calls, calls'[d].peer = q, Raises(calls'[d])
        PROVE  allowlist'[q] # "none"
    <3>1. CASE d = c
      BY <3>1, <2>7, <1>1, <1>4, <1>8
    <3>2. CASE d # c
      BY <3>2, <2>1, <2>7, <1>4, <1>8
    <3> QED
      BY <3>1, <3>2
  <2>8. CASE q = p
    BY <2>1, <2>2, <2>3, <2>4, <2>5, <2>6, <2>7, <2>8, <1>8
  <2>9. CASE q # p
    BY <2>1, <2>2, <2>3, <2>4, <2>5, <2>6, <2>7, <2>9, <1>8
  <2> QED
    BY <2>8, <2>9
<1>12. BlockedInv'
  <2>1. UNCHANGED <<denied, blockedGate>> /\ ~Setting(c) /\ BlockedInv
    BY <1>6 DEF KeepDenied, gates, Setting, GatesInv
  <2>2. ~Setting(c)'
    BY <1>1, <1>4 DEF Setting
  <2> QED
    BY <2>1, <2>2, <1>4, BlockedKept
<1> QED
  BY <1>4, <1>9, <1>10, <1>11, <1>12 DEF GatesInv

\* An operation that returns leaves no job of its own behind.
LEMMA FinishSettles ==
    ASSUME ContactInv, GatesInv, NEW c \in Calls, Acts(c), Finish(c),
           UNCHANGED <<allowlist, denied, gates>>,
           calls[c].at = "addReconnect" => ~calls[c].flag,
           calls[c].at # "removeReconnect"
    PROVE  GatesInv'
<1>1. CallsInv /\ QueueInv /\ UserInv /\ EnrolledInv /\ VerifiedInv /\ BlockedInv
  BY DEF ContactInv, GatesInv
<1>2. /\ QueueInv' /\ mail' = mail /\ ~InMail(c)
      /\ \A d \in Calls : calls'[d] = IF d = c THEN Idle ELSE calls[d]
  BY <1>1, FinishMoves
<1>3. Replaces(c, Idle)
  BY <1>2 DEF Replaces, InMail
<1>4. UserInv'
  BY <1>1, <1>3, IdleIsInert, UserKept DEF Jobs, Awaits, Remote
<1>5. EnrolledInv'
  <2>1. \A k \in 1 .. Len(mail) : calls'[mail[k]] = calls[mail[k]]
    BY <1>1, <1>2, QueueElements DEF InMail
  <2> QED
    BY <1>1, <1>2, <2>1, EnrolledKept DEF gates
<1>6. VerifiedInv'
  <2>1. \A p \in Peers : ~Opening(c, p) /\ ~Revoking(c, p)
    BY <1>2 DEF Opening, Revoking, Opens, Revokes
  <2> QED
    BY <1>1, <1>3, <2>1, IdleIsInert, VerifiedKept DEF gates
<1>7. BlockedInv'
  <2>1. ~Setting(c) /\ ~Setting(c)'
    BY <1>2 DEF Setting, InMail
  <2> QED
    BY <1>1, <1>3, <2>1, BlockedKept DEF gates
<1> QED
  BY <1>2, <1>4, <1>5, <1>6, <1>7 DEF GatesInv

\* revoke: the contact goes, and two jobs of the only user operation follow.
LEMMA RevokeSettles ==
    ASSUME ContactInv, GatesInv, NEW c \in Calls, NEW op \in Ops, NEW p \in Peers,
           Acts(c), Revoke(c, op, p), KeepDenied, UNCHANGED gates,
           op \notin {"echo", "redeem"}, \A d \in Calls : Hopping(d) => d = c,
           ~Opens(calls[c]), ~Revokes(calls[c])
    PROVE  GatesInv'
<1>1. CASE KeepAllowlist /\ Finish(c)
  <2>1. /\ calls[c].at = "addReconnect" => ~calls[c].flag
        /\ calls[c].at # "removeReconnect"
    BY DEF Opens, Revokes
  <2> QED
    BY <1>1, <2>1, FinishSettles DEF KeepAllowlist, KeepDenied
<1>2. CASE /\ allowlist[p] # "none"
           /\ SaveAllowlist([allowlist EXCEPT ![p] = "none"])
           /\ Hop(c, Awaiting(op, p, "removeReconnect"))
  <2> DEFINE s == Awaiting(op, p, "removeReconnect")
  <2>1. s \in Operation /\ s.at = "removeReconnect" /\ s.peer = p /\ s.op = op
    BY DEF Awaiting, Suspended, Operation, Awaits
  <2>2. Hop(c, s)
    BY <1>2
  <2> HIDE DEF s
  <2>3. CallsInv /\ QueueInv /\ UserInv /\ EnrolledInv /\ VerifiedInv /\ BlockedInv /\ s.at \in Jobs
    BY <2>1 DEF ContactInv, GatesInv, Jobs
  <2>4. /\ QueueInv' /\ Replaces(c, s) /\ ~InMail(c) /\ InMail(c)'
        /\ \A d \in Calls : calls'[d] = IF d = c THEN s ELSE calls[d]
        /\ Len(mail') = Len(mail) + 1 /\ mail'[Len(mail) + 1] = c
        /\ \A k \in 1 .. Len(mail) : mail'[k] = mail[k] /\ mail[k] # c
    BY <2>1, <2>2, <2>3, HopMoves DEF Replaces
  <2>5. ~Opens(s) /\ ~Raises(s) /\ Revokes(s) /\ Users(s)
    BY <2>1, OperationUses DEF Opens, Raises, Revokes
  <2>6. allowlist \in [Peers -> Trust]
    BY DEF ContactInv, RecordsInv
  <2>7. (\A q \in Peers : q # p => allowlist'[q] = allowlist[q]) /\ allowlist'[p] = "none"
    BY <1>2, <2>6 DEF SaveAllowlist
  <2>8. UserInv'
    BY <2>1, <2>3, <2>4, <2>5, UserKept DEF Remote
  <2>9. EnrolledInv'
    <3>1. ASSUME NEW q \in Peers
          PROVE  IF Enrols(s, q) THEN s.at = "addReconnect" <=> allowlist'[q] # "none"
                 ELSE allowlist'[q] = "none" <=> allowlist[q] = "none"
      BY <2>1, <2>7 DEF Enrols
    <3> QED
      BY <2>3, <2>4, <3>1, EnrolledHop DEF gates
  <2>10. VerifiedInv'
    <3> SUFFICES ASSUME NEW q \in Peers
                 PROVE  /\ allowlist'[q] = "verified" =>
                             q \in verifiedGate' \/ \E d \in Calls : Opening(d, q)'
                        /\ q \in verifiedGate' =>
                             allowlist'[q] # "none" \/ \E d \in Calls : Revoking(d, q)'
                        /\ \A d \in Calls : calls'[d].peer = q =>
                             /\ Revokes(calls'[d]) => allowlist'[q] # "verified"
                             /\ Raises(calls'[d]) => allowlist'[q] # "none"
      BY DEF VerifiedInv, Revokes, Raises, Opens
    <3>1. /\ allowlist[q] = "verified" => q \in verifiedGate \/ \E d \in Calls : Opening(d, q)
          /\ q \in verifiedGate => allowlist[q] # "none" \/ \E d \in Calls : Revoking(d, q)
          /\ \A d \in Calls : calls[d].peer = q => (Revokes(calls[d]) => allowlist[q] # "verified")
      BY <2>3 DEF VerifiedInv
    <3>2. verifiedGate' = verifiedGate
      BY DEF gates
    <3>3. \A d \in Calls : Opening(d, q) => Opening(d, q)'
      BY <2>4 DEF Replaces, Opening, Opens
    <3>4. \A d \in Calls : Revoking(d, q) => Revoking(d, q)'
      BY <2>4 DEF Replaces, Revoking, Revokes
    <3>5. Revoking(c, p)'
      BY <2>1, <2>4, <2>5 DEF Revoking, Revokes
    <3>6. \A d \in Calls : ~Raises(calls'[d])
      BY <2>3, <2>4, <2>5 DEF UserInv
    <3>7. \A d \in Calls : calls'[d].peer = q => (Revokes(calls'[d]) => allowlist'[q] # "verified")
      BY <2>1, <2>4, <2>7, <3>1
    <3> QED
      BY <3>1, <3>2, <3>3, <3>4, <3>5, <3>6, <3>7, <2>7
  <2>11. BlockedInv'
    <3>1. ~Setting(c) /\ ~Setting(c)'
      BY <2>1, <2>4 DEF Setting
    <3> QED
      BY <2>3, <2>4, <3>1, BlockedKept DEF KeepDenied, gates
  <2> QED
    BY <2>4, <2>8, <2>9, <2>10, <2>11 DEF GatesInv
<1> QED
  BY <1>1, <1>2 DEF Revoke

\* The user's operation goes on to its next job.
LEMMA HopSettles ==
    ASSUME ContactInv, GatesInv, NEW c \in Calls, NEW s \in Operation, Acts(c), Hop(c, s),
           UNCHANGED <<allowlist, denied, gates>>, Hopping(c), s.op = calls[c].op,
           s.peer = calls[c].peer, s.at \in {"addVerified", "onBundle", "removeVerified"},
           Raises(s) => Raises(calls[c]), Revokes(s) => Revokes(calls[c]),
           calls[c].at = "addReconnect" => s.at = "addVerified",
           calls[c].at = "removeReconnect" => s.at = "removeVerified"
    PROVE  GatesInv'
<1>1. CallsInv /\ QueueInv /\ UserInv /\ EnrolledInv /\ VerifiedInv /\ BlockedInv /\ s.at \in Jobs
  BY DEF ContactInv, GatesInv, Jobs
<1>2. /\ QueueInv' /\ Replaces(c, s) /\ ~InMail(c) /\ InMail(c)'
      /\ \A d \in Calls : calls'[d] = IF d = c THEN s ELSE calls[d]
      /\ Len(mail') = Len(mail) + 1 /\ mail'[Len(mail) + 1] = c
      /\ \A k \in 1 .. Len(mail) : mail'[k] = mail[k] /\ mail[k] # c
  BY <1>1, HopMoves DEF Replaces
<1>3. UserInv'
  <2>1. s.at # "setBlocked" /\ Users(s)
    BY OperationUses DEF Hopping
  <2>2. \A d \in Calls : Hopping(d) => d = c
    BY <1>1 DEF UserInv
  <2> QED
    BY <1>1, <1>2, <2>1, <2>2, UserKept DEF Remote
<1>4. EnrolledInv'
  <2>1. \A p \in Peers : ~Enrols(s, p)
    BY DEF Enrols
  <2> QED
    BY <1>1, <1>2, <2>1, EnrolledHop DEF gates
<1>5. VerifiedInv'
  <2>1. ASSUME NEW p \in Peers, Opening(c, p) PROVE Opening(c, p)'
    <3>1. s.at = "addVerified" /\ s.peer = p
      BY <2>1, <1>2 DEF Opening, Opens
    <3> QED
      BY <3>1, <1>2 DEF Opening, Opens
  <2>2. ASSUME NEW p \in Peers, Revoking(c, p) PROVE Revoking(c, p)'
    <3>1. s.at = "removeVerified" /\ s.peer = p
      BY <2>2, <1>2 DEF Revoking, Revokes
    <3> QED
      BY <3>1, <1>2 DEF Revoking, Revokes
  <2> QED
    BY <1>1, <1>2, <2>1, <2>2, VerifiedKept DEF gates
<1>6. BlockedInv'
  <2>1. ~Setting(c) /\ ~Setting(c)'
    BY <1>2 DEF Setting
  <2> QED
    BY <1>1, <1>2, <2>1, BlockedKept DEF gates
<1> QED
  BY <1>2, <1>3, <1>4, <1>5, <1>6 DEF GatesInv

\* markVerified: the record first, the gate a job later.
LEMMA MarkSettles ==
    ASSUME ContactInv, GatesInv, NEW c \in Calls, NEW p \in Peers, MarkVerified(c, p)
    PROVE  GatesInv'
<1> DEFINE s == Awaiting("sas", p, "addVerified")
<1>1. s \in Operation /\ s.at = "addVerified" /\ s.peer = p /\ s.op = "sas"
  BY DEF Awaiting, Suspended, Operation, Awaits, Ops
<1>2. /\ Hop(c, s) /\ Acts(c) /\ UNCHANGED <<gates, denied>> /\ allowlist[p] = "enrolled"
      /\ SaveAllowlist([allowlist EXCEPT ![p] = "verified"])
      /\ \A d \in Calls : ~Hopping(d)
  BY DEF MarkVerified, UserStarts, Acts, KeepDenied
<1> HIDE DEF s
<1>3. CallsInv /\ QueueInv /\ UserInv /\ EnrolledInv /\ VerifiedInv /\ BlockedInv /\ s.at \in Jobs
  BY <1>1 DEF ContactInv, GatesInv, Jobs
<1>4. /\ QueueInv' /\ Replaces(c, s) /\ ~InMail(c) /\ InMail(c)'
      /\ \A d \in Calls : calls'[d] = IF d = c THEN s ELSE calls[d]
      /\ Len(mail') = Len(mail) + 1 /\ mail'[Len(mail) + 1] = c
      /\ \A k \in 1 .. Len(mail) : mail'[k] = mail[k] /\ mail[k] # c
  BY <1>1, <1>2, <1>3, HopMoves DEF Replaces
<1>5. Opens(s) /\ Raises(s) /\ ~Revokes(s) /\ Users(s)
  BY <1>1, OperationUses DEF Opens, Raises, Revokes
<1>6. allowlist \in [Peers -> Trust]
  BY DEF ContactInv, RecordsInv
<1>7. (\A q \in Peers : q # p => allowlist'[q] = allowlist[q]) /\ allowlist'[p] = "verified"
  BY <1>2, <1>6 DEF SaveAllowlist
<1>8. UserInv'
  BY <1>1, <1>2, <1>3, <1>4, <1>5, UserKept DEF Remote
<1>9. EnrolledInv'
  <2>1. \A q \in Peers : ~Enrols(s, q) /\ (allowlist'[q] = "none" <=> allowlist[q] = "none")
    BY <1>1, <1>2, <1>7 DEF Enrols
  <2> QED
    BY <1>2, <1>3, <1>4, <2>1, EnrolledHop DEF gates
<1>10. VerifiedInv'
  <2> SUFFICES ASSUME NEW q \in Peers
               PROVE  /\ allowlist'[q] = "verified" =>
                           q \in verifiedGate' \/ \E d \in Calls : Opening(d, q)'
                      /\ q \in verifiedGate' =>
                           allowlist'[q] # "none" \/ \E d \in Calls : Revoking(d, q)'
                      /\ \A d \in Calls : calls'[d].peer = q =>
                           /\ Revokes(calls'[d]) => allowlist'[q] # "verified"
                           /\ Raises(calls'[d]) => allowlist'[q] # "none"
    BY DEF VerifiedInv, Revokes, Raises, Opens
  <2>1. /\ allowlist[q] = "verified" => q \in verifiedGate \/ \E d \in Calls : Opening(d, q)
        /\ q \in verifiedGate => allowlist[q] # "none" \/ \E d \in Calls : Revoking(d, q)
    BY <1>3 DEF VerifiedInv
  <2>2. verifiedGate' = verifiedGate
    BY <1>2 DEF gates
  <2>3. \A d \in Calls : ~Opens(calls[d]) /\ ~Revokes(calls[d]) /\ ~Raises(calls[d])
    BY <1>2, <1>3 DEF UserInv, Raises
  <2>4. \A d \in Calls : ~Opening(d, q) /\ ~Revoking(d, q)
    BY <2>3 DEF Opening, Revoking
  <2>5. Opening(c, p)'
    BY <1>1, <1>4, <1>5 DEF Opening, Opens
  <2>6. \A d \in Calls : ~Revokes(calls'[d]) /\ (Raises(calls'[d]) => d = c)
    BY <1>4, <1>5, <2>3
  <2>7. calls'[c].peer = p
    BY <1>1, <1>4
  <2> QED
    BY <2>1, <2>2, <2>4, <2>5, <2>6, <2>7, <1>7
<1>11. BlockedInv'
  <2>1. ~Setting(c) /\ ~Setting(c)'
    BY <1>1, <1>4 DEF Setting
  <2> QED
    BY <1>2, <1>3, <1>4, <2>1, BlockedKept DEF gates
<1> QED
  BY <1>4, <1>8, <1>9, <1>10, <1>11 DEF GatesInv

\* block and the end of unblock: the denylist, and the job with its keys.
LEMMA DenialSettles ==
    ASSUME ContactInv, GatesInv, NEW c \in Calls, NEW op \in Ops, NEW p \in Peers, NEW updated,
           Acts(c), Hop(c, Suspended(op, p, "setBlocked", FALSE, BlockedKeys(updated), NoInvite)),
           SaveDenied(updated), UNCHANGED <<allowlist, gates>>,
           op \notin {"echo", "redeem"}, \A d \in Calls : Hopping(d) => d = c,
           calls[c].at = "addReconnect" => ~calls[c].flag, calls[c].at # "removeReconnect"
    PROVE  GatesInv'
<1> DEFINE s == Suspended(op, p, "setBlocked", FALSE, BlockedKeys(updated), NoInvite)
<1>1. /\ s \in Operation /\ s.at = "setBlocked" /\ s.op = op
      /\ s.keys = BlockedKeys(updated)
  BY DEF Suspended, Operation, Awaits, BlockedKeys
<1>2. Hop(c, s) /\ denied' = updated
  BY DEF SaveDenied
<1> HIDE DEF s
<1>3. CallsInv /\ QueueInv /\ UserInv /\ EnrolledInv /\ VerifiedInv /\ BlockedInv /\ s.at \in Jobs
  BY <1>1 DEF ContactInv, GatesInv, Jobs
<1>4. /\ QueueInv' /\ Replaces(c, s) /\ ~InMail(c) /\ InMail(c)'
      /\ \A d \in Calls : calls'[d] = IF d = c THEN s ELSE calls[d]
      /\ Len(mail') = Len(mail) + 1 /\ mail'[Len(mail) + 1] = c
      /\ \A k \in 1 .. Len(mail) : mail'[k] = mail[k] /\ mail[k] # c
  BY <1>1, <1>2, <1>3, HopMoves DEF Replaces
<1>5. ~Raises(s) /\ ~Revokes(s) /\ Users(s)
  BY <1>1, OperationUses DEF Opens, Raises, Revokes
<1>6. UserInv'
  BY <1>1, <1>3, <1>4, <1>5, UserKept DEF Remote
<1>7. EnrolledInv'
  <2>1. \A q \in Peers : ~Enrols(s, q)
    BY <1>1 DEF Enrols
  <2> QED
    BY <1>3, <1>4, <2>1, EnrolledHop DEF gates
<1>8. VerifiedInv'
  <2>1. \A q \in Peers : ~Opening(c, q) /\ ~Revoking(c, q)
    BY <1>4 DEF Opening, Revoking, Opens, Revokes
  <2> QED
    BY <1>3, <1>4, <1>5, <2>1, VerifiedKept DEF gates
<1>9. BlockedInv'
  <2>1. \A d \in Calls : Setting(d)' => d = c
    <3>1. ASSUME NEW d \in Calls, Setting(d)', d # c PROVE FALSE
      <4>1. Hopping(d)
        BY <3>1, <1>3, <1>4 DEF Setting, UserInv
      <4> QED
        BY <3>1, <4>1
    <3> QED
      BY <3>1
  <2>2. Setting(c)' /\ calls'[c].keys = BlockedKeys(updated)
    BY <1>1, <1>4 DEF Setting
  <2>3. BlockedKeys(denied)' = BlockedKeys(updated)
    BY <1>2 DEF BlockedKeys
  <2> QED
    BY <2>1, <2>2, <2>3 DEF BlockedInv
<1> QED
  BY <1>4, <1>6, <1>7, <1>8, <1>9 DEF GatesInv

\* Something comes back from the network, or an invite goes out: no job of the
\* coordinator, and no record yet.
LEMMA ArrivalSettles ==
    ASSUME ContactInv, GatesInv, NEW c \in Calls, NEW s, UNCHANGED <<records, gates, mail>>,
           \A d \in Calls : calls'[d] = IF d = c THEN s ELSE calls[d],
           calls[c].at \notin Jobs, \A k \in 1 .. Len(main) : main[k] # c,
           main' = main \/ (main' = Append(main, c) /\ s.at \in Awaits),
           ~Raises(s), ~Revokes(s), s.at # "setBlocked", Users(s) => s = calls[c],
           Remote(s) => ~Users(s)
    PROVE  GatesInv'
<1>1. CallsInv /\ QueueInv /\ UserInv /\ EnrolledInv /\ VerifiedInv /\ BlockedInv
  BY DEF ContactInv, GatesInv
<1>2. \A k \in 1 .. Len(mail) : mail[k] # c /\ mail[k] \in Calls
  BY <1>1, QueueElements DEF QueueInv
<1>3. Replaces(c, s) /\ ~InMail(c) /\ ~InMail(c)'
  BY <1>2 DEF Replaces, InMail
<1>4. QueueInv'
  <2>1. CASE main' = main
    BY <2>1, <1>1, <1>2, QueueElements DEF QueueInv
  <2>2. CASE main' = Append(main, c) /\ s.at \in Awaits
    <3>1. main \in Seq(Calls) /\ Len(main) \in Nat
      BY <1>1, QueueElements DEF CallsInv
    <3>2. /\ Len(main') = Len(main) + 1 /\ main'[Len(main) + 1] = c
          /\ \A k \in 1 .. Len(main) : main'[k] = main[k] /\ main[k] \in Calls
      BY <2>2, <3>1, <1>1, AppendProperties, QueueElements
    <3>3. \A k \in 1 .. Len(main') : k \in 1 .. Len(main) \/ (k = Len(main) + 1 /\ main'[k] = c)
      BY <3>1, <3>2
    <3>4. \A i, j \in 1 .. Len(main') : main'[i] = main'[j] => i = j
      BY <1>1, <3>2, <3>3 DEF QueueInv
    <3>5. \A i \in 1 .. Len(mail), j \in 1 .. Len(main') : mail[i] # main'[j]
      BY <1>1, <1>2, <3>2, <3>3 DEF QueueInv
    <3>6. \A i \in 1 .. Len(main') : calls'[main'[i]].at \in Awaits
      BY <1>1, <2>2, <3>2, <3>3 DEF QueueInv
    <3>7. \A i \in 1 .. Len(mail) : calls'[mail[i]].at \in Jobs
      BY <1>1, <1>2 DEF QueueInv
    <3> QED
      BY <1>1, <3>4, <3>5, <3>6, <3>7 DEF QueueInv
  <2> QED
    BY <2>1, <2>2
<1>5. UserInv'
  <2>1. Users(s) => \A d \in Calls : Hopping(d) => d = c
    BY <1>1 DEF Users, Hopping, UserInv
  <2> QED
    BY <1>1, <1>3, <2>1, UserKept
<1>6. EnrolledInv'
  <2>1. \A k \in 1 .. Len(mail) : calls'[mail[k]] = calls[mail[k]]
    BY <1>2
  <2> QED
    BY <1>1, <2>1, EnrolledKept DEF records, gates
<1>7. VerifiedInv'
  <2>1. \A p \in Peers : ~Opening(c, p) /\ ~Revoking(c, p)
    BY DEF Opening, Revoking, Opens, Revokes, Jobs
  <2> QED
    BY <1>1, <1>3, <2>1, VerifiedKept DEF records, gates
<1>8. BlockedInv'
  <2>1. ~Setting(c) /\ ~Setting(c)'
    BY <1>3 DEF Setting
  <2> QED
    BY <1>1, <1>3, <2>1, BlockedKept DEF records, gates
<1> QED
  BY <1>4, <1>5, <1>6, <1>7, <1>8 DEF GatesInv

LEMMA NetworkSettles ==
    ASSUME ContactInv, GatesInv, NEW c \in Calls,
           \/ RedeemReturns(c)
           \/ \E p \in Peers : RedeemInvite(c, p)
           \/ \E p \in Peers, i \in Invites : EchoArrives(c, p, i)
    PROVE  GatesInv'
<1>1. CallsInv /\ QueueInv
  BY DEF ContactInv, GatesInv
<1>2. calls \in [Calls -> Operation \cup {Idle}] /\ Len(main) \in Nat /\ main \in Seq(Calls)
  BY <1>1, QueueElements DEF CallsInv
<1>3. Free(c) => calls[c].at \notin Jobs /\ \A k \in 1 .. Len(main) : main[k] # c
  BY <1>1, IdleIsInert DEF Free, QueueInv
<1>4. CASE RedeemReturns(c)
  <2>1. /\ calls[c].at = "redeemInvite" /\ UNCHANGED <<records, gates, mail>>
        /\ \/ main' = Append(main, c) /\ calls' = calls
           \/ calls' = [calls EXCEPT ![c] = Idle] /\ main' = main
    BY <1>4 DEF RedeemReturns
  <2>2. \A k \in 1 .. Len(main) : main[k] # c
    BY <1>2, <1>4 DEF RedeemReturns
  <2>3. CASE main' = Append(main, c) /\ calls' = calls
    <3> DEFINE s == calls[c]
    <3>1. /\ ~Raises(s) /\ ~Revokes(s) /\ s.at # "setBlocked" /\ s.at \in Awaits
          /\ s.at \notin Jobs /\ (Remote(s) => ~Users(s))
      BY <2>1 DEF Raises, Opens, Revokes, Awaits, Jobs, GatesInv, UserInv, Users, Hopping
    <3>2. \A d \in Calls : calls'[d] = IF d = c THEN s ELSE calls[d]
      BY <2>3
    <3> HIDE DEF s
    <3>3. s = calls[c]
      BY DEF s
    <3> QED
      BY <2>1, <2>2, <2>3, <3>1, <3>2, <3>3, ArrivalSettles
  <2>4. CASE calls' = [calls EXCEPT ![c] = Idle] /\ main' = main
    <3>1. \A d \in Calls : calls'[d] = IF d = c THEN Idle ELSE calls[d]
      BY <2>4, <1>2
    <3>2. calls[c].at \notin Jobs /\ Idle.at # "setBlocked"
      BY <2>1, IdleIsInert DEF Jobs
    <3> QED
      BY <2>1, <2>2, <2>4, <3>1, <3>2, IdleIsInert, ArrivalSettles
  <2> QED
    BY <2>1, <2>3, <2>4
<1>5. ASSUME NEW p \in Peers, RedeemInvite(c, p) PROVE GatesInv'
  <2> DEFINE s == Awaiting("redeem", p, "redeemInvite")
  <2>1. /\ Free(c) /\ calls' = [calls EXCEPT ![c] = s] /\ UNCHANGED <<records, gates, mail, main>>
    BY <1>5 DEF RedeemInvite, UserStarts
  <2>2. s.at = "redeemInvite" /\ s.op = "redeem"
    BY DEF Awaiting, Suspended
  <2>3. ~Raises(s) /\ ~Revokes(s) /\ s.at # "setBlocked" /\ ~Users(s)
    BY <2>2 DEF Raises, Opens, Revokes, Users
  <2> HIDE DEF s
  <2>4. \A d \in Calls : calls'[d] = IF d = c THEN s ELSE calls[d]
    BY <2>1, <1>2
  <2> QED
    BY <2>1, <2>3, <2>4, <1>3, ArrivalSettles
<1>6. ASSUME NEW p \in Peers, NEW i \in Invites, EchoArrives(c, p, i) PROVE GatesInv'
  <2> DEFINE s == Suspended("echo", p, "redeemEcho", FALSE, {}, i)
  <2>1. /\ Free(c) /\ calls' = [calls EXCEPT ![c] = s] /\ main' = Append(main, c)
        /\ UNCHANGED <<records, gates, mail>>
    BY <1>6 DEF EchoArrives
  <2>2. s.at = "redeemEcho" /\ s.op = "echo"
    BY DEF Suspended
  <2>3. ~Raises(s) /\ ~Revokes(s) /\ s.at # "setBlocked" /\ ~Users(s) /\ s.at \in Awaits
    BY <2>2 DEF Raises, Opens, Revokes, Users, Awaits
  <2> HIDE DEF s
  <2>4. \A d \in Calls : calls'[d] = IF d = c THEN s ELSE calls[d]
    BY <2>1, <1>2
  <2> QED
    BY <2>1, <2>3, <2>4, <1>3, ArrivalSettles
<1> QED
  BY <1>4, <1>5, <1>6

\* The coordinator's job: what was about to happen to a gate has happened.
LEMMA JobSettles ==
    ASSUME ContactInv, GatesInv, CoordinatorRuns
    PROVE  GatesInv'
<1>1. CallsInv /\ QueueInv /\ UserInv /\ EnrolledInv /\ VerifiedInv /\ BlockedInv
  BY DEF ContactInv, GatesInv
<1>2. mail # <<>> /\ UNCHANGED <<records, history>>
      /\ mail' = Tail(mail) /\ main' = Append(main, Head(mail))
  BY DEF CoordinatorRuns
<1>3. PICK c \in Calls : c = Head(mail)
  <2>1. Head(mail) \in Calls
    BY <1>1, <1>2 DEF CallsInv
  <2> QED
    BY <2>1
<1> DEFINE p == calls[c].peer
<1>4. PICK s : /\ \A d \in Calls : calls'[d] = IF d = c THEN s ELSE calls[d]
               /\ s.at = calls[c].at /\ s.peer = calls[c].peer
               /\ s = calls[c] \/ (s.at = "onBundle" /\ Users(s))
  <2>1. ASSUME UNCHANGED calls
        PROVE  \A d \in Calls : calls'[d] = IF d = c THEN calls[c] ELSE calls[d]
    BY <2>1
  <2>2. ASSUME NEW healthy \in BOOLEAN, calls[c].at = "onBundle",
               calls' = [calls EXCEPT ![c] =
                           Suspended("scan", p, "onBundle", healthy /\ p \in enrolledGate, {}, NoInvite)]
        PROVE  \E s : /\ \A d \in Calls : calls'[d] = IF d = c THEN s ELSE calls[d]
                      /\ s.at = calls[c].at /\ s.peer = calls[c].peer /\ s.at = "onBundle"
                      /\ Users(s)
    <3> DEFINE s == Suspended("scan", p, "onBundle", healthy /\ p \in enrolledGate, {}, NoInvite)
    <3>1. s.at = "onBundle" /\ s.peer = p /\ s.op = "scan"
      BY DEF Suspended
    <3>2. calls' = [calls EXCEPT ![c] = s]
      BY <2>2
    <3> HIDE DEF s
    <3>3. \A d \in Calls : calls'[d] = IF d = c THEN s ELSE calls[d]
      BY <3>2, <1>1 DEF CallsInv
    <3>4. Users(s)
      BY <3>1 DEF Users, Idle
    <3> QED
      BY <2>2, <3>1, <3>3, <3>4
  <2> QED
    BY <2>1, <2>2, <1>3 DEF CoordinatorRuns
<1>5. s.at = calls[c].at /\ s.peer = calls[c].peer
  BY <1>4
<1>6. /\ QueueInv' /\ calls[c].at \in Jobs
      /\ InMail(c) /\ ~InMail(c)' /\ Replaces(c, s)
      /\ 1 \in 1 .. Len(mail) /\ c = mail[1] /\ Len(mail') = Len(mail) - 1
      /\ \A k \in 1 .. Len(mail') : /\ mail'[k] = mail[k + 1] /\ mail'[k] # c
                                    /\ k + 1 \in 1 .. Len(mail)
  BY <1>1, <1>2, <1>3, <1>4, <1>5, JobMoves DEF Replaces
<1>7. UNCHANGED <<allowlist, denied>>
  BY <1>2 DEF records
<1>8. /\ calls[c].at = "addReconnect" => enrolledGate' = enrolledGate \cup {p}
      /\ calls[c].at = "removeReconnect" => enrolledGate' = enrolledGate \ {p}
      /\ calls[c].at \notin {"addReconnect", "removeReconnect"} => enrolledGate' = enrolledGate
      /\ calls[c].at = "addVerified" => verifiedGate' = verifiedGate \cup {p}
      /\ calls[c].at = "removeVerified" => verifiedGate' = verifiedGate \ {p}
      /\ calls[c].at \notin {"addVerified", "removeVerified"} => verifiedGate' = verifiedGate
      /\ calls[c].at = "setBlocked" => blockedGate' = calls[c].keys
      /\ calls[c].at # "setBlocked" => blockedGate' = blockedGate
  BY <1>3 DEF CoordinatorRuns, gates
<1>9. UserInv'
  <2>1. \/ s = calls[c]
        \/ Users(s) /\ s.at = "onBundle" /\ Hopping(c)
    BY <1>1, <1>4, <1>5 DEF UserInv, Raises
  <2>2. Raises(s) \/ Revokes(s) \/ s.at = "setBlocked" => Users(s)
    BY <1>1, <2>1 DEF UserInv, Users, Hopping
  <2>3. Users(s) => \A d \in Calls : Hopping(d) => d = c
    BY <1>1, <2>1 DEF UserInv, Users, Hopping
  <2> QED
    BY <1>1, <1>5, <1>6, <2>2, <2>3, UserKept DEF Remote, Jobs
<1>10. EnrolledInv'
  <2>1. ASSUME NEW q \in Peers
        PROVE  q \in enrolledGate' <=> IF Enrols(calls[c], q) THEN calls[c].at = "addReconnect"
                                       ELSE q \in enrolledGate
    BY <1>8 DEF Enrols
  <2> QED
    BY <1>1, <1>4, <1>6, <1>7, <2>1, EnrolledJob, ZenonT(60)
<1>11. VerifiedInv'
  <2>1. CASE calls[c].at \notin {"addVerified", "removeVerified"}
    <3>1. s = calls[c] \/ s.at = "onBundle"
      BY <1>4
    <3>2. \A q \in Peers : Opening(c, q) => Opening(c, q)'
      BY <2>1, <3>1, <1>4, <1>5 DEF Opening, Opens
    <3>3. \A q \in Peers : Revoking(c, q) => Revoking(c, q)'
      BY <2>1, <3>1, <1>4, <1>5 DEF Revoking, Revokes
    <3>4. (Raises(s) => Raises(calls[c])) /\ (Revokes(s) => Revokes(calls[c]))
      BY <3>1, <1>5 DEF Raises, Revokes
    <3> QED
      BY <1>1, <1>5, <1>6, <1>7, <1>8, <2>1, <3>2, <3>3, <3>4, VerifiedKept
  <2>2. CASE calls[c].at \in {"addVerified", "removeVerified"}
    <3>1. s = calls[c] /\ \A d \in Calls : calls'[d] = calls[d]
      BY <2>2, <1>4, <1>5
    <3> SUFFICES ASSUME NEW q \in Peers
                 PROVE  /\ allowlist[q] = "verified" =>
                             q \in verifiedGate' \/ \E d \in Calls : Opening(d, q)'
                        /\ q \in verifiedGate' =>
                             allowlist[q] # "none" \/ \E d \in Calls : Revoking(d, q)'
                        /\ \A d \in Calls : calls[d].peer = q =>
                             /\ Revokes(calls[d]) => allowlist[q] # "verified"
                             /\ Raises(calls[d]) => allowlist[q] # "none"
      BY <1>7, <3>1 DEF VerifiedInv, Revokes, Raises, Opens
    <3>2. /\ allowlist[q] = "verified" => q \in verifiedGate \/ \E d \in Calls : Opening(d, q)
          /\ q \in verifiedGate => allowlist[q] # "none" \/ \E d \in Calls : Revoking(d, q)
          /\ \A d \in Calls : calls[d].peer = q =>
               /\ Revokes(calls[d]) => allowlist[q] # "verified"
               /\ Raises(calls[d]) => allowlist[q] # "none"
      BY <1>1 DEF VerifiedInv
    <3>3. \A d \in Calls : d # c /\ Opening(d, q) => Opening(d, q)'
      BY <3>1, <1>6 DEF Replaces, Opening, Opens
    <3>4. \A d \in Calls : d # c /\ Revoking(d, q) => Revoking(d, q)'
      BY <3>1, <1>6 DEF Replaces, Revoking, Revokes
    <3>5. CASE calls[c].at = "addVerified"
      <4>1. verifiedGate' = verifiedGate \cup {p} /\ ~Revoking(c, q)
        BY <3>5, <1>8 DEF Revoking, Revokes
      <4>2. Raises(calls[c]) /\ (Opening(c, q) => p = q)
        BY <3>5 DEF Raises, Opens, Opening
      <4>3. p = q => allowlist[q] # "none"
        BY <3>2, <4>2
      <4> QED
        BY <3>2, <3>3, <3>4, <4>1, <4>2, <4>3
    <3>6. CASE calls[c].at = "removeVerified"
      <4>1. verifiedGate' = verifiedGate \ {p} /\ ~Opening(c, q)
        BY <3>6, <1>8 DEF Opening, Opens
      <4>2. Revokes(calls[c]) /\ (Revoking(c, q) => p = q)
        BY <3>6 DEF Revokes, Revoking
      <4>3. p = q => allowlist[q] # "verified"
        BY <3>2, <4>2
      <4> QED
        BY <3>2, <3>3, <3>4, <4>1, <4>2, <4>3
    <3> QED
      BY <2>2, <3>5, <3>6
  <2> QED
    BY <2>1, <2>2
<1>12. BlockedInv'
  <2>1. CASE calls[c].at # "setBlocked"
    <3>1. ~Setting(c) /\ ~Setting(c)'
      BY <2>1, <1>6 DEF Setting
    <3> QED
      BY <1>1, <1>6, <1>7, <1>8, <2>1, <3>1, BlockedKept
  <2>2. CASE calls[c].at = "setBlocked"
    <3>1. blockedGate' = BlockedKeys(denied)
      BY <2>2, <1>1, <1>6, <1>8 DEF BlockedInv, Setting
    <3>2. BlockedKeys(denied)' = BlockedKeys(denied)
      BY <1>7 DEF BlockedKeys
    <3>3. ASSUME NEW d \in Calls, Setting(d)' PROVE FALSE
      <4>1. d # c
        BY <3>3, <1>6 DEF Setting
      <4>2. calls'[d] = calls[d] /\ calls[d].at = "setBlocked"
        BY <3>3, <4>1, <1>6 DEF Replaces, Setting
      <4> QED
        BY <4>1, <4>2, <2>2, <1>1 DEF UserInv
    <3> QED
      BY <3>1, <3>2, <3>3 DEF BlockedInv
  <2> QED
    BY <2>1, <2>2
<1> QED
  BY <1>6, <1>9, <1>10, <1>11, <1>12 DEF GatesInv

\* Minting, expiry and stuttering touch nothing the gates depend on.
LEMMA GatesUntouched ==
    ASSUME GatesInv,
           UNCHANGED <<allowlist, denied, gates, calls, mail, main>>
    PROVE  GatesInv'
<1> USE DEF gates
<1>1. QueueInv'
  BY DEF GatesInv, QueueInv
<1>2. UserInv'
  BY DEF GatesInv, UserInv, Raises, Opens, Revokes, Remote, Hopping
<1>3. EnrolledInv'
  BY DEF GatesInv, EnrolledInv, Enrols
<1>4. VerifiedInv'
  BY DEF GatesInv, VerifiedInv, Opening, Revoking, Raises, Opens, Revokes, InMail
<1>5. BlockedInv'
  BY DEF GatesInv, BlockedInv, Setting, InMail, BlockedKeys
<1> QED
  BY <1>1, <1>2, <1>3, <1>4, <1>5 DEF GatesInv

\* With no operation, gates seeded from the records agree with them: the
\* initial state and a relaunch.
LEMMA GatesSeeded ==
    ASSUME calls = [c \in Calls |-> Idle], mail = <<>>, main = <<>>,
           enrolledGate = {p \in Peers : allowlist[p] # "none"},
           verifiedGate = {p \in Peers : allowlist[p] = "verified"},
           blockedGate = BlockedKeys(denied)
    PROVE  GatesInv
<1>1. \A c \in Calls : calls[c] = Idle
  OBVIOUS
<1>2. QueueInv
  BY DEF QueueInv
<1>3. UserInv
  BY <1>1, IdleIsInert DEF UserInv, Hopping, Remote, Jobs, Awaits
<1>4. EnrolledInv
  BY DEF EnrolledInv
<1>5. VerifiedInv
  BY <1>1, IdleIsInert DEF VerifiedInv
<1>6. BlockedInv
  BY <1>1 DEF BlockedInv, Setting, InMail
<1> QED
  BY <1>2, <1>3, <1>4, <1>5, <1>6 DEF GatesInv

LEMMA RelaunchSettles ==
    ASSUME NEW allowOk \in BOOLEAN, NEW pendingOk \in BOOLEAN, NEW deniedOk \in BOOLEAN,
           Relaunch(allowOk, pendingOk, deniedOk)
    PROVE  GatesInv'
<1>1. /\ calls' = [c \in Calls |-> Idle] /\ mail' = <<>> /\ main' = <<>>
      /\ enrolledGate' = {p \in Peers : allowlist'[p] # "none"}
      /\ verifiedGate' = {p \in Peers : allowlist'[p] = "verified"}
      /\ blockedGate' = BlockedKeys(denied')
  BY DEF Relaunch
<1>2. \A c \in Calls : calls'[c] = Idle
  BY <1>1
<1>3. QueueInv'
  BY <1>1 DEF QueueInv
<1>4. UserInv'
  BY <1>2, IdleIsInert DEF UserInv, Hopping, Raises, Opens, Revokes, Remote, Jobs, Awaits
<1>5. EnrolledInv'
  BY <1>1 DEF EnrolledInv
<1>6. VerifiedInv'
  BY <1>1, <1>2, IdleIsInert DEF VerifiedInv, Raises, Opens, Revokes
<1>7. BlockedInv'
  BY <1>1, <1>2 DEF BlockedInv, Setting, InMail, BlockedKeys
<1> QED
  BY <1>3, <1>4, <1>5, <1>6, <1>7 DEF GatesInv

\* The operations of the user.
LEMMA UserSettles ==
    ASSUME ContactInv, GatesInv, NEW c \in Calls, NEW p \in Peers,
           \/ PairFromScanned(c, p) \/ MarkVerified(c, p) \/ RemoveContact(c, p)
           \/ Block(c, p) \/ Unblock(c, p)
    PROVE  GatesInv'
<1>1. UserInv
  BY DEF GatesInv
<1>2. Free(c) /\ main' = main /\ \A d \in Calls : ~Hopping(d)
  BY DEF PairFromScanned, MarkVerified, RemoveContact, Block, Unblock, UserStarts
<1>3. Acts(c) /\ ~Hopping(c) /\ ~Opens(calls[c]) /\ ~Revokes(calls[c])
      /\ calls[c].at \notin {"addReconnect", "removeReconnect"}
  BY <1>1, <1>2, IdleIsInert DEF Acts, Free, Jobs
<1>4. CASE PairFromScanned(c, p)
  <2>1. Enroll(c, "scan", p, TRUE) /\ KeepDenied /\ UNCHANGED gates /\ "scan" \in Ops
    BY <1>4 DEF PairFromScanned, gates, Ops
  <2> QED
    BY <2>1, <1>2, <1>3, EnrollSettles
<1>5. CASE MarkVerified(c, p)
  BY <1>5, MarkSettles
<1>6. CASE RemoveContact(c, p)
  <2>1. Revoke(c, "remove", p) /\ KeepDenied /\ UNCHANGED gates /\ "remove" \in Ops
    BY <1>6 DEF RemoveContact, gates, Ops
  <2> QED
    BY <2>1, <1>2, <1>3, RevokeSettles
<1>7. CASE Block(c, p)
  <2> DEFINE updated == [denied EXCEPT
                 ![p] = IF allowlist[p] = "verified" THEN "verified" ELSE "enrolled"]
  <2>1. /\ Hop(c, Suspended("block", p, "setBlocked", FALSE, BlockedKeys(updated), NoInvite))
        /\ SaveDenied(updated) /\ UNCHANGED <<allowlist, gates>> /\ "block" \in Ops
    BY <1>7 DEF Block, KeepAllowlist, gates, Ops
  <2> HIDE DEF updated
  <2> QED
    BY <2>1, <1>2, <1>3, DenialSettles
<1>8. CASE Unblock(c, p)
  <2>1. /\ Enroll(c, "unblock", p, denied[p] = "verified") /\ KeepDenied /\ UNCHANGED gates
        /\ "unblock" \in Ops /\ (denied[p] = "verified") \in BOOLEAN
    BY <1>8 DEF Unblock, gates, Ops
  <2> QED
    BY <2>1, <1>2, <1>3, EnrollSettles
<1> QED
  BY <1>4, <1>5, <1>6, <1>7, <1>8

\* What an operation does when it is resumed on the main actor.
LEMMA ContinuationSettles ==
    ASSUME ContactInv, GatesInv, NEW c \in Calls,
           \/ EnrollContinues(c) \/ OperationEnds(c) \/ ScanEstablishes(c) \/ ThenRevoke(c)
           \/ RevokeContinues(c) \/ LiftDenial(c) \/ RedeemEnrolls(c)
           \/ RedeemEcho(c) \/ RedeemEchoIgnored(c)
    PROVE  GatesInv'
<1>1. UserInv /\ CallsInv
  BY DEF GatesInv, ContactInv
<1>2. PICK at \in SUBSET Awaits : Resumes(c, at)
  BY DEF EnrollContinues, OperationEnds, ScanEstablishes, ThenRevoke, RevokeContinues, LiftDenial,
         RedeemEnrolls, RedeemEcho, RedeemEchoIgnored, Awaits
<1>3. Acts(c) /\ calls[c].at \in Awaits
  BY <1>2 DEF Acts, Resumes
<1>4. /\ calls[c] \in Operation /\ calls[c].op \in Ops /\ calls[c].peer \in Peers
      /\ (Hopping(c) <=> calls[c].op \notin {"echo", "redeem"})
  BY <1>1, <1>3, WaitingIsOperation, OperationUses DEF Hopping, Users
<1>5. Hopping(c) => \A d \in Calls : Hopping(d) => d = c
  BY <1>1 DEF UserInv
<1>6. CASE EnrollContinues(c)
  <2> DEFINE s == Awaiting(calls[c].op, calls[c].peer, "addVerified")
  <2>1. /\ calls[c].at = "addReconnect" /\ calls[c].flag /\ Hop(c, s)
        /\ UNCHANGED <<allowlist, denied, gates>>
    BY <1>6 DEF EnrollContinues, Resumes, records
  <2>2. Raises(calls[c]) /\ Hopping(c)
    BY <2>1, <1>1 DEF Raises, Opens, UserInv
  <2>3. s \in Operation /\ s.op = calls[c].op /\ s.peer = calls[c].peer /\ s.at = "addVerified"
    BY <1>4 DEF Awaiting, Suspended, Operation, Awaits
  <2>4. ~Revokes(s)
    BY <2>3 DEF Revokes
  <2> HIDE DEF s
  <2> QED
    BY <2>1, <2>2, <2>3, <2>4, <1>3, HopSettles
<1>7. CASE OperationEnds(c) \/ RedeemEchoIgnored(c)
  <2>1. /\ Finish(c) /\ UNCHANGED <<allowlist, denied, gates>>
        /\ calls[c].at = "addReconnect" => ~calls[c].flag
        /\ calls[c].at # "removeReconnect"
    BY <1>7 DEF OperationEnds, RedeemEchoIgnored, Resumes, records
  <2> QED
    BY <2>1, <1>3, FinishSettles
<1>8. CASE ScanEstablishes(c)
  <2> DEFINE s == Awaiting("scan", calls[c].peer, "onBundle")
  <2>1. /\ calls[c].at = "addVerified" /\ calls[c].op = "scan" /\ Hop(c, s)
        /\ UNCHANGED <<allowlist, denied, gates>>
    BY <1>8 DEF ScanEstablishes, Resumes, records
  <2>2. Raises(calls[c]) /\ Hopping(c)
    BY <2>1, <1>1 DEF Raises, Opens, UserInv
  <2>3. s \in Operation /\ s.op = calls[c].op /\ s.peer = calls[c].peer /\ s.at = "onBundle"
    BY <1>4, <2>1 DEF Awaiting, Suspended, Operation, Awaits
  <2>4. ~Revokes(s)
    BY <2>3 DEF Revokes
  <2> HIDE DEF s
  <2> QED
    BY <2>1, <2>2, <2>3, <2>4, <1>3, HopSettles
<1>9. CASE ThenRevoke(c)
  <2>1. /\ Revoke(c, calls[c].op, calls[c].peer) /\ KeepDenied /\ UNCHANGED gates
        /\ calls[c].at \in {"onBundle", "setBlocked"}
    BY <1>9 DEF ThenRevoke, Resumes
  <2>2. Hopping(c) /\ ~Opens(calls[c]) /\ ~Revokes(calls[c])
    BY <2>1, <1>1 DEF UserInv, Raises, Opens, Revokes
  <2> QED
    BY <2>1, <2>2, <1>3, <1>4, <1>5, RevokeSettles
<1>10. CASE RevokeContinues(c)
  <2> DEFINE s == Awaiting(calls[c].op, calls[c].peer, "removeVerified")
  <2>1. /\ calls[c].at = "removeReconnect" /\ Hop(c, s)
        /\ UNCHANGED <<allowlist, denied, gates>>
    BY <1>10 DEF RevokeContinues, Resumes, records
  <2>2. Revokes(calls[c]) /\ Hopping(c)
    BY <2>1, <1>1 DEF Revokes, UserInv
  <2>3. s \in Operation /\ s.op = calls[c].op /\ s.peer = calls[c].peer /\ s.at = "removeVerified"
    BY <1>4 DEF Awaiting, Suspended, Operation, Awaits
  <2>4. ~Raises(s)
    BY <2>3 DEF Raises, Opens
  <2> HIDE DEF s
  <2> QED
    BY <2>1, <2>2, <2>3, <2>4, <1>3, HopSettles
<1>11. CASE LiftDenial(c)
  <2> DEFINE updated == [denied EXCEPT ![calls[c].peer] = "none"]
  <2>1. /\ UNCHANGED <<allowlist, gates>> /\ calls[c].op = "unblock"
        /\ calls[c].at \in {"addReconnect", "addVerified"}
        /\ calls[c].at = "addReconnect" => ~calls[c].flag
        /\ \/ /\ SaveDenied(updated)
              /\ Hop(c, Suspended("unblock", calls[c].peer, "setBlocked", FALSE,
                                  BlockedKeys(updated), NoInvite))
           \/ KeepDenied /\ Finish(c)
    BY <1>11 DEF LiftDenial, Resumes, KeepAllowlist
  <2> HIDE DEF updated
  <2>2. Hopping(c) /\ "unblock" \in Ops
    BY <2>1, <1>4 DEF Ops
  <2>3. CASE KeepDenied /\ Finish(c)
    BY <2>1, <2>3, <1>3, FinishSettles DEF KeepDenied
  <2>4. CASE /\ SaveDenied(updated)
             /\ Hop(c, Suspended("unblock", calls[c].peer, "setBlocked", FALSE,
                                 BlockedKeys(updated), NoInvite))
    BY <2>1, <2>2, <2>4, <1>3, <1>4, <1>5, DenialSettles
  <2> QED
    BY <2>1, <2>3, <2>4
<1>12. CASE RedeemEnrolls(c) \/ RedeemEcho(c)
  <2>1. /\ calls[c].at \in {"redeemInvite", "redeemEcho"} /\ KeepDenied /\ UNCHANGED gates
        /\ \/ Enroll(c, calls[c].op, calls[c].peer, FALSE)
           \/ KeepAllowlist /\ Finish(c)
    BY <1>12 DEF RedeemEnrolls, RedeemEcho, Resumes, EnrollFails
  <2>2. CASE KeepAllowlist /\ Finish(c)
    BY <2>1, <2>2, <1>3, FinishSettles DEF KeepAllowlist, KeepDenied
  <2>3. CASE Enroll(c, calls[c].op, calls[c].peer, FALSE)
    <3>1. calls[c].op \in {"echo", "redeem"} /\ ~Hopping(c)
      BY <2>1, <1>1, <1>4 DEF UserInv, Remote
    <3> QED
      BY <2>1, <2>3, <3>1, <1>3, <1>4, EnrollSettles
  <2> QED
    BY <2>1, <2>2, <2>3
<1> QED
  BY <1>6, <1>7, <1>8, <1>9, <1>10, <1>11, <1>12

LEMMA GatesStep == ContactInv /\ GatesInv /\ [Next]_vars => GatesInv'
<1> SUFFICES ASSUME ContactInv, GatesInv, [Next]_vars PROVE GatesInv'
  OBVIOUS
<1>1. ASSUME NEW c \in Calls, NEW p \in Peers,
             \/ PairFromScanned(c, p) \/ MarkVerified(c, p) \/ RemoveContact(c, p)
             \/ Block(c, p) \/ Unblock(c, p)
      PROVE  GatesInv'
  BY <1>1, UserSettles
<1>2. ASSUME NEW c \in Calls,
             \/ RedeemReturns(c)
             \/ \E p \in Peers : RedeemInvite(c, p)
             \/ \E p \in Peers, i \in Invites : EchoArrives(c, p, i)
      PROVE  GatesInv'
  BY <1>2, NetworkSettles
<1>3. ASSUME NEW c \in Calls,
             \/ EnrollContinues(c) \/ OperationEnds(c) \/ ScanEstablishes(c) \/ ThenRevoke(c)
             \/ RevokeContinues(c) \/ LiftDenial(c) \/ RedeemEnrolls(c)
             \/ RedeemEcho(c) \/ RedeemEchoIgnored(c)
      PROVE  GatesInv'
  BY <1>3, ContinuationSettles
<1>4. CASE CoordinatorRuns BY <1>4, JobSettles
<1>5. ASSUME NEW i \in Invites, MintInvite(i) \/ Expire(i) PROVE GatesInv'
  <2>1. UNCHANGED <<allowlist, denied, gates, calls, mail, main>>
    BY <1>5 DEF MintInvite, Expire, KeepAllowlist, KeepDenied, records
  <2> QED
    BY <2>1, GatesUntouched
<1>6. ASSUME NEW allowOk \in BOOLEAN, NEW pendingOk \in BOOLEAN, NEW deniedOk \in BOOLEAN,
             Relaunch(allowOk, pendingOk, deniedOk)
      PROVE  GatesInv'
  BY <1>6, RelaunchSettles
<1>7. CASE UNCHANGED vars
  <2>1. UNCHANGED <<allowlist, denied, gates, calls, mail, main>>
    BY <1>7 DEF vars, records
  <2> QED
    BY <2>1, GatesUntouched
<1> QED
  BY Zenon, <1>1, <1>2, <1>3, <1>4, <1>5, <1>6, <1>7 DEF Next

\* With nothing under way every gate a transport asks is what the records say:
\* the enrolled set is the allowlist, the drop set is the denylist, and the
\* verified set lies between the verified contacts and all contacts.  However
\* blocking, scanning, redeemed invites, echoes and restarts overlapped before.
THEOREM GatesAreSettled == Spec => []GatesSettle
<1>1. Init => GatesInv
  <2> SUFFICES ASSUME Init PROVE GatesInv
    OBVIOUS
  <2>1. \A p \in Peers : allowlist[p] = "none" /\ denied[p] = "none"
    BY DEF Init
  <2> QED
    BY <2>1, GatesSeeded DEF Init, BlockedKeys
<1>2. ContactInv /\ GatesInv => GatesSettle
  <2> SUFFICES ASSUME ContactInv, GatesInv, Quiet PROVE GatesSettle
    BY DEF GatesSettle
  <2>1. \A c \in Calls : calls[c] = Idle
    BY DEF Quiet
  <2>2. mail = <<>>
    <3>1. \A k \in 1 .. Len(mail) : FALSE
      BY <2>1, IdleIsInert, QueueElements DEF GatesInv, QueueInv, ContactInv
    <3>2. mail \in Seq(Calls) /\ Len(mail) \in Nat
      BY QueueElements DEF ContactInv, CallsInv
    <3>3. Len(mail) = 0
      BY <3>1, <3>2
    <3> QED
      BY <3>2, <3>3, EmptySeq
  <2>3. \A c \in Calls : ~Setting(c) /\ \A p \in Peers : ~Opening(c, p) /\ ~Revoking(c, p)
    BY <2>1, IdleIsInert DEF Setting, Opening, Revoking, Jobs
  <2>4. Len(mail) = 0
    BY <2>2
  <2>5. \A p \in Peers : p \in enrolledGate <=> allowlist[p] # "none"
    BY <2>4 DEF GatesInv, EnrolledInv
  <2>6. enrolledGate = Contacts
    BY <2>5 DEF ContactInv, RecordsInv, Contacts
  <2>7. Verified \subseteq verifiedGate
    BY <2>3 DEF GatesInv, VerifiedInv, Verified
  <2>8. verifiedGate \subseteq Contacts
    BY <2>3 DEF GatesInv, VerifiedInv, ContactInv, RecordsInv, Contacts
  <2>9. blockedGate = BlockedKeys(denied)
    BY <2>3 DEF GatesInv, BlockedInv
  <2> QED
    BY <2>6, <2>7, <2>8, <2>9 DEF GatesSettle
<1> QED
  BY <1>1, <1>2, Inductive, GatesStep, PTL DEF Spec
=============================================================================
