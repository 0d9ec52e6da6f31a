--------------------------- MODULE PresenceProofs ---------------------------
(***************************************************************************)
(* Theorems about Presence, for any number of links, connections, trust    *)
(* changes and losses: what is published is exact outside the greeting     *)
(* loop, only a mutual and verified contact shows as near, and a departure *)
(* is always handed to the relay.                                          *)
(***************************************************************************)
EXTENDS Presence, SequenceTheorems, TLAPS

\* Nobody is known, answers or shows as near without having enrolled us.
TrustInv ==
    /\ theirs => paired
    /\ hellos # <<>> => paired
    /\ known # {} => paired
    /\ present => verified

\* While onReachable is not greeting, all live links are greeted and presence
\* is exact; while it is, presence has only links to gain.
LoopInv ==
    /\ loop # "greeting" =>
         reachable \subseteq greeted /\ (present <=> verified /\ reachable \cap known # {})
    /\ loop = "greeting" /\ present => reachable \cap known # {}

Comparable(a, b) == a \subseteq b \/ b \subseteq a

\* The snapshots still to come lead from the links the coordinator counts to
\* those the transport holds, each adding links or removing some.
ChainInv ==
    /\ snaps = <<>> => reachable = held
    /\ snaps # <<>> => Comparable(reachable, snaps[1]) /\ snaps[Len(snaps)] = held
    /\ \A k \in 1 .. Len(snaps) - 1 : Comparable(snaps[k], snaps[k + 1])

PresenceInv == TypeOK /\ TrustInv /\ LoopInv /\ ChainInv

LEMMA PresenceInit == Init => PresenceInv
<1> SUFFICES ASSUME Init PROVE PresenceInv
  OBVIOUS
<1>1. TypeOK
  <2>1. /\ snaps \in Seq(SUBSET Links) /\ hellos \in Seq(Links)
        /\ beacons \in Seq([link : Links, real : BOOLEAN])
    BY EmptySeq DEF Init
  <2>2. /\ present \in BOOLEAN /\ enrolled \in BOOLEAN /\ verified \in BOOLEAN
        /\ revoking \in BOOLEAN /\ theirs \in BOOLEAN /\ paired \in BOOLEAN
    BY Zenon DEF Init
  <2>3. connects \in 0 .. MaxConnects /\ changes \in 0 .. MaxTrust /\ losses \in 0 .. MaxLosses
    BY PresenceAssumption DEF Init
  <2>4. /\ up = {} /\ held = {} /\ reachable = {} /\ greeted = {} /\ known = {} /\ calm = {}
        /\ loop = "idle"
    BY DEF Init
  <2> QED
    BY <2>1, <2>2, <2>3, <2>4 DEF TypeOK
<1>2. TrustInv
  BY DEF Init, TrustInv
<1>3. LoopInv
  BY DEF Init, LoopInv
<1>4. ChainInv
  BY DEF Init, ChainInv
<1> QED
  BY <1>1, <1>2, <1>3, <1>4 DEF PresenceInv

-----------------------------------------------------------------------------
(* The transport *)

\* A snapshot of the links joins the stream.
LEMMA ChainGrows ==
    ASSUME PresenceInv, NEW new \in SUBSET Links, Comparable(held, new),
           held' = new, snaps' = Append(snaps, new), reachable' = reachable
    PROVE  snaps' \in Seq(SUBSET Links) /\ ChainInv'
<1>1. snaps \in Seq(SUBSET Links) /\ Len(snaps) \in Nat
  BY DEF PresenceInv, TypeOK
<1>2. /\ snaps' \in Seq(SUBSET Links) /\ Len(snaps') = Len(snaps) + 1
      /\ \A k \in 1 .. Len(snaps) : snaps'[k] = snaps[k]
      /\ snaps'[Len(snaps) + 1] = new
  BY <1>1, AppendProperties
<1>3. snaps' # <<>> /\ snaps'[Len(snaps')] = held'
  BY <1>1, <1>2
<1>4. CASE snaps = <<>>
  <2>1. Len(snaps) = 0 /\ reachable = held
    BY <1>4 DEF PresenceInv, ChainInv
  <2> QED
    BY <2>1, <1>2, <1>3 DEF ChainInv
<1>5. CASE snaps # <<>>
  <2>1. Len(snaps) > 0
    BY <1>1, <1>5, EmptySeq
  <2>2. Comparable(reachable', snaps'[1])
    BY <1>5, <2>1, <1>1, <1>2 DEF PresenceInv, ChainInv
  <2>3. ASSUME NEW k \in 1 .. Len(snaps') - 1 PROVE Comparable(snaps'[k], snaps'[k + 1])
    <3>1. CASE k < Len(snaps)
      BY <3>1, <1>1, <1>2 DEF PresenceInv, ChainInv
    <3>2. CASE k = Len(snaps)
      BY <3>2, <1>1, <1>2, <1>5, <2>1 DEF PresenceInv, ChainInv
    <3> QED
      BY <3>1, <3>2, <1>1, <1>2
  <2>4. snaps' # <<>> => Comparable(reachable', snaps'[1]) /\ snaps'[Len(snaps')] = held'
    BY <1>3, <2>2
  <2>5. \A k \in 1 .. Len(snaps') - 1 : Comparable(snaps'[k], snaps'[k + 1])
    BY <2>3
  <2>6. snaps' = <<>> => reachable' = held'
    BY <1>3
  <2>7. ChainInv'
    BY <2>4, <2>5, <2>6, Zenon DEF ChainInv
  <2> QED
    BY <1>2, <2>7
<1> QED
  BY <1>2, <1>4, <1>5

LEMMA TransportSteps ==
    ASSUME PresenceInv, NEW l \in Links, Connect(l) \/ Drop(l) \/ Notice(l)
    PROVE  PresenceInv'
<1> USE DEF frameVars, stateVars, trustVars, transportVars
<1>1. /\ UNCHANGED <<beacons, hellos, reachable, greeted, known, present, loop, enrolled, verified,
                     revoking, theirs, paired, changes, losses>>
  BY DEF Connect, Drop, Notice
<1>2. snaps' \in Seq(SUBSET Links) /\ ChainInv'
  <2>1. CASE Drop(l)
    BY <2>1, <1>1 DEF Drop, PresenceInv, TypeOK, ChainInv
  <2>2. CASE Connect(l) \/ Notice(l)
    <3>1. PICK new \in SUBSET Links :
            Comparable(held, new) /\ held' = new /\ snaps' = Append(snaps, new)
      BY <2>2 DEF Connect, Notice, PresenceInv, TypeOK, Comparable
    <3> QED
      BY <3>1, <1>1, ChainGrows
  <2> QED
    BY <2>1, <2>2
<1>3. /\ up' \subseteq Links /\ held' \subseteq Links /\ calm' \subseteq up'
      /\ connects' \in 0 .. MaxConnects
  BY PresenceAssumption DEF Connect, Drop, Notice, PresenceInv, TypeOK
<1>4. TypeOK'
  BY <1>1, <1>2, <1>3 DEF PresenceInv, TypeOK
<1>5. TrustInv' /\ LoopInv'
  BY <1>1 DEF PresenceInv, TrustInv, LoopInv
<1> QED
  BY <1>2, <1>4, <1>5 DEF PresenceInv
-----------------------------------------------------------------------------
(* onReachable *)

LEMMA NoneBelowOne == 1 .. 0 - 1 = {} /\ Len(<<>>) = 0
OBVIOUS

LEMMA MoreThanOne ==
    ASSUME NEW n \in Nat, n > 0, n # 1
    PROVE  n - 1 \in Nat /\ n - 1 > 0 /\ n - 1 # 0 /\ 1 \in 1 .. n - 1 /\ 1 + 1 = 2
OBVIOUS

\* The next snapshot leaves the stream.
LEMMA ChainShrinks ==
    ASSUME PresenceInv, snaps # <<>>, reachable' = Head(snaps), snaps' = Tail(snaps), held' = held
    PROVE  /\ snaps' \in Seq(SUBSET Links) /\ reachable' \subseteq Links
           /\ ChainInv' /\ Comparable(reachable, reachable')
<1>1. snaps \in Seq(SUBSET Links) /\ Len(snaps) \in Nat
  BY DEF PresenceInv, TypeOK
<1>2. /\ Head(snaps) \in SUBSET Links /\ Head(snaps) = snaps[1]
      /\ Tail(snaps) \in Seq(SUBSET Links) /\ Len(Tail(snaps)) = Len(snaps) - 1
      /\ \A k \in 1 .. Len(Tail(snaps)) : Tail(snaps)[k] = snaps[k + 1]
  BY <1>1, HeadTailProperties
<1>3. Len(snaps) > 0 /\ reachable' = snaps[1]
  BY <1>1, <1>2, EmptySeq
<1>4. Comparable(reachable, reachable')
  BY <1>3 DEF PresenceInv, ChainInv, Comparable
<1>5. CASE Len(snaps) = 1
  <2>1. snaps' = <<>> /\ Len(snaps') = 0 /\ reachable' = held'
    BY <1>2, <1>3, <1>5, EmptySeq DEF PresenceInv, ChainInv
  <2>2. \A k \in 1 .. Len(snaps') - 1 : FALSE
    BY <2>1, NoneBelowOne, Zenon
  <2>3. ChainInv'
    BY <2>1, <2>2, Zenon DEF ChainInv
  <2> QED
    BY <1>2, <1>4, <2>3
<1>6. CASE Len(snaps) # 1
  <2>0. /\ Len(snaps) - 1 \in Nat /\ Len(snaps) - 1 > 0 /\ Len(snaps) - 1 # 0
        /\ 1 \in 1 .. Len(snaps) - 1 /\ 1 + 1 = 2
    BY <1>1, <1>3, <1>6, MoreThanOne, Zenon
  <2>1. Len(snaps') = Len(snaps) - 1 /\ snaps' # <<>>
    BY <1>2, <2>0, NoneBelowOne, Zenon
  <2>2. Comparable(snaps[1], snaps[2])
    BY <2>0 DEF PresenceInv, ChainInv
  <2>3. snaps'[1] = snaps[2] /\ snaps'[Len(snaps')] = snaps[Len(snaps)]
    BY <1>1, <1>2, <2>0, <2>1
  <2>4. snaps'[Len(snaps')] = held'
    BY <2>3 DEF PresenceInv, ChainInv
  <2>5. ASSUME NEW k \in 1 .. Len(snaps') - 1 PROVE Comparable(snaps'[k], snaps'[k + 1])
    <3>1. snaps'[k] = snaps[k + 1] /\ snaps'[k + 1] = snaps[k + 2]
      BY <1>1, <1>2, <2>0, <2>1
    <3>2. k + 1 \in 1 .. Len(snaps) - 1 /\ (k + 1) + 1 = k + 2
      BY <1>1, <1>2, <2>0, <2>1
    <3> QED
      BY <3>1, <3>2 DEF PresenceInv, ChainInv
  <2>6. Comparable(reachable', snaps'[1])
    BY <1>3, <2>2, <2>3
  <2>7. \A k \in 1 .. Len(snaps') - 1 : Comparable(snaps'[k], snaps'[k + 1])
    BY <2>5
  <2>8. ChainInv'
    BY <2>1, <2>4, <2>6, <2>7, Zenon DEF ChainInv
  <2> QED
    BY <1>2, <1>4, <2>8
<1> QED
  BY <1>5, <1>6

LEMMA ReachableStep == PresenceInv /\ OnReachable => PresenceInv'
<1> SUFFICES ASSUME PresenceInv, OnReachable PROVE PresenceInv'
  OBVIOUS
<1>1. /\ loop = "idle" /\ snaps # <<>>
      /\ reachable' = Head(snaps) /\ snaps' = Tail(snaps)
      /\ greeted' = greeted \cap reachable'
      /\ UNCHANGED <<up, held, connects, beacons, hellos, known, enrolled, verified, revoking,
                     theirs, paired, changes, calm, losses>>
  BY DEF OnReachable, transportVars, frameVars, trustVars
<1>2. /\ snaps' \in Seq(SUBSET Links) /\ reachable' \subseteq Links
      /\ ChainInv' /\ Comparable(reachable, reachable')
  BY <1>1, ChainShrinks
<1>3. greeted = reachable /\ (present <=> verified /\ reachable \cap known # {})
  BY <1>1 DEF PresenceInv, LoopInv, TypeOK
<1>4. CASE reachable' \subseteq greeted
  <2>1. /\ present' = (verified /\ reachable' \cap known # {})
        /\ loop' \in {"idle", "rerouting"}
    BY <1>4 DEF OnReachable, Publish, Near
  <2>2. TypeOK'
    BY <1>1, <1>2, <2>1 DEF PresenceInv, TypeOK
  <2>3. TrustInv'
    BY <1>1, <2>1 DEF PresenceInv, TrustInv
  <2>4. LoopInv'
    BY <1>1, <1>4, <2>1 DEF LoopInv
  <2> QED
    BY <1>2, <2>2, <2>3, <2>4 DEF PresenceInv
<1>5. CASE ~(reachable' \subseteq greeted)
  <2>1. loop' = "greeting" /\ present' = present
    BY <1>5 DEF OnReachable
  <2>2. TypeOK'
    BY <1>1, <1>2, <2>1 DEF PresenceInv, TypeOK
  <2>3. TrustInv'
    BY <1>1, <2>1 DEF PresenceInv, TrustInv
  <2>4. reachable \subseteq reachable'
    BY <1>2, <1>3, <1>5 DEF Comparable
  <2>5. LoopInv'
    BY <1>1, <1>3, <2>1, <2>4 DEF LoopInv
  <2> QED
    BY <1>2, <2>2, <2>3, <2>5 DEF PresenceInv
<1> QED
  BY <1>4, <1>5

\* The steps that leave the transport's stream and the coordinator's links alone.
LEMMA ChainKept ==
    ASSUME ChainInv, UNCHANGED <<held, snaps, reachable>> PROVE ChainInv'
BY DEF ChainInv, Comparable

LEMMA SendEffect ==
    ASSUME PresenceInv, NEW S, NEW l \in Links, NEW frame \in S, NEW queue \in Seq(S), NEW after,
           Send(l, frame, queue, after)
    PROVE  after \in Seq(S) /\ calm' \subseteq up /\ losses' \in 0 .. MaxLosses
<1>1. Append(queue, frame) \in Seq(S)
  BY AppendProperties
<1>2. calm \subseteq up /\ losses \in 0 .. MaxLosses
  BY DEF PresenceInv, TypeOK
<1>3. CASE UNCHANGED <<calm, losses>> /\ after \in {queue, Append(queue, frame)}
  BY <1>1, <1>2, <1>3
<1>4. CASE losses < MaxLosses /\ losses' = losses + 1 /\ calm' = calm \ {l} /\ after = queue
  BY <1>2, <1>4, PresenceAssumption
<1> QED
  BY <1>3, <1>4 DEF Send

LEMMA GreetStep ==
    ASSUME PresenceInv, NEW l \in Links, Greet(l) PROVE PresenceInv'
<1>1. /\ loop = "greeting" /\ l \in reachable
      /\ greeted' = greeted \cup {l}
      /\ UNCHANGED <<up, held, connects, snaps, hellos, reachable, known, present, loop, enrolled,
                     verified, revoking, theirs, paired, changes>>
  BY DEF Greet, transportVars, trustVars
<1>2. /\ beacons' \in Seq([link : Links, real : BOOLEAN])
      /\ calm' \subseteq up /\ losses' \in 0 .. MaxLosses
  <2>1. [link |-> l, real |-> enrolled] \in [link : Links, real : BOOLEAN]
    BY DEF PresenceInv, TypeOK
  <2> QED
    BY <2>1, SendEffect DEF Greet, PresenceInv, TypeOK
<1>3. TypeOK'
  BY <1>1, <1>2 DEF PresenceInv, TypeOK
<1>4. TrustInv' /\ LoopInv'
  BY <1>1 DEF PresenceInv, TrustInv, LoopInv
<1> QED
  BY <1>1, <1>3, <1>4, ChainKept DEF PresenceInv

LEMMA FinishStep == PresenceInv /\ (FinishReachable \/ RerouteDone) => PresenceInv'
<1> SUFFICES ASSUME PresenceInv, FinishReachable \/ RerouteDone PROVE PresenceInv'
  OBVIOUS
<1>1. /\ UNCHANGED <<up, held, connects, snaps, beacons, hellos, reachable, greeted, known,
                     enrolled, verified, revoking, theirs, paired, changes, calm, losses>>
  BY DEF FinishReachable, RerouteDone, transportVars, frameVars, trustVars
<1>2. /\ loop' \in {"idle", "rerouting"} /\ reachable \subseteq greeted
      /\ present' <=> (verified /\ reachable \cap known # {})
      /\ present' \in BOOLEAN
  BY DEF FinishReachable, RerouteDone, Publish, Near, PresenceInv, LoopInv, TypeOK
<1>3. TypeOK'
  BY <1>1, <1>2 DEF PresenceInv, TypeOK
<1>4. TrustInv' /\ LoopInv'
  BY <1>1, <1>2 DEF PresenceInv, TrustInv, LoopInv
<1> QED
  BY <1>1, <1>3, <1>4, ChainKept DEF PresenceInv

-----------------------------------------------------------------------------
(* The handshake *)

LEMMA BeaconStep == PresenceInv /\ OnReconnectBeacon => PresenceInv'
<1> SUFFICES ASSUME PresenceInv, OnReconnectBeacon PROVE PresenceInv'
  OBVIOUS
<1>1. /\ UNCHANGED <<up, held, connects, snaps, reachable, greeted, known, present, loop, enrolled,
                     verified, revoking, theirs, paired, changes>>
      /\ beacons # <<>> /\ beacons' = Tail(beacons)
  BY DEF OnReconnectBeacon, transportVars, stateVars, trustVars
<1>2. /\ beacons' \in Seq([link : Links, real : BOOLEAN])
      /\ Head(beacons) \in [link : Links, real : BOOLEAN]
  BY <1>1, HeadTailProperties DEF PresenceInv, TypeOK
<1>3. /\ hellos' \in Seq(Links) /\ calm' \subseteq up /\ losses' \in 0 .. MaxLosses
      /\ hellos' # hellos => theirs
  <2>1. CASE Head(beacons).real /\ theirs
    <3>1. Head(beacons).link \in Links
      BY <1>2
    <3> QED
      BY <2>1, <3>1, SendEffect DEF OnReconnectBeacon, PresenceInv, TypeOK
  <2>2. CASE ~(Head(beacons).real /\ theirs)
    BY <2>2 DEF OnReconnectBeacon, PresenceInv, TypeOK
  <2> QED
    BY <2>1, <2>2
<1>4. TypeOK'
  BY <1>1, <1>2, <1>3 DEF PresenceInv, TypeOK
<1>5. TrustInv' /\ LoopInv'
  BY <1>1, <1>3 DEF PresenceInv, TrustInv, LoopInv
<1> QED
  BY <1>1, <1>4, <1>5, ChainKept DEF PresenceInv

LEMMA ItsMeStep == PresenceInv /\ OnReconnectItsMe => PresenceInv'
<1> SUFFICES ASSUME PresenceInv, OnReconnectItsMe PROVE PresenceInv'
  OBVIOUS
<1>1. /\ UNCHANGED <<up, held, connects, snaps, beacons, reachable, greeted, loop, enrolled,
                     verified, revoking, theirs, paired, changes, calm, losses>>
      /\ hellos # <<>> /\ hellos' = Tail(hellos)
  BY DEF OnReconnectItsMe, transportVars, trustVars
<1>2. hellos' \in Seq(Links) /\ Head(hellos) \in Links /\ paired
  BY <1>1, HeadTailProperties DEF PresenceInv, TypeOK, TrustInv
<1>3. \/ UNCHANGED <<known, present>> /\ ~verified
      \/ /\ verified /\ known' = known \cup {Head(hellos)}
         /\ present' = (reachable \cap known' # {})
  BY DEF OnReconnectItsMe, Near
<1>4. known' \subseteq Links /\ present' \in BOOLEAN
  BY <1>2, <1>3 DEF PresenceInv, TypeOK
<1>5. TypeOK'
  BY <1>1, <1>2, <1>4 DEF PresenceInv, TypeOK
<1>6. TrustInv' /\ LoopInv'
  <2>1. CASE UNCHANGED <<known, present>>
    BY <1>1, <1>2, <2>1 DEF PresenceInv, TrustInv, LoopInv
  <2>2. CASE verified /\ (present' <=> reachable \cap known' # {})
    <3>1. TrustInv'
      BY <1>1, <1>2, <2>2 DEF PresenceInv, TrustInv
    <3>2. LoopInv'
      BY <1>1, <2>2 DEF PresenceInv, LoopInv
    <3> QED
      BY <3>1, <3>2
  <2> QED
    BY <1>3, <2>1, <2>2
<1> QED
  BY <1>1, <1>5, <1>6, ChainKept DEF PresenceInv

-----------------------------------------------------------------------------
(* Trust *)

LEMMA TrustSteps ==
    ASSUME PresenceInv,
           \/ AddReconnectContact \/ AddVerifiedContact
           \/ RemoveReconnectContact \/ RemoveVerifiedContact \/ TheirChange
    PROVE  PresenceInv'
<1>1. UNCHANGED <<up, held, connects, snaps, beacons, hellos, reachable, greeted, loop, losses>>
  BY DEF AddReconnectContact, AddVerifiedContact, RemoveReconnectContact, RemoveVerifiedContact,
         TheirChange, transportVars, frameVars, stateVars
<1>2. changes' \in 0 .. MaxTrust /\ calm' \subseteq up
  <2>1. Change \/ UNCHANGED <<changes, calm>>
    BY DEF AddReconnectContact, AddVerifiedContact, RemoveReconnectContact, RemoveVerifiedContact,
           TheirChange
  <2> QED
    BY <2>1, PresenceAssumption DEF Change, PresenceInv, TypeOK
<1>3. /\ present' \in BOOLEAN /\ enrolled' \in BOOLEAN /\ verified' \in BOOLEAN
      /\ revoking' \in BOOLEAN /\ theirs' \in BOOLEAN /\ paired' \in BOOLEAN
      /\ known' \subseteq Links
  BY DEF AddReconnectContact, AddVerifiedContact, RemoveReconnectContact, RemoveVerifiedContact,
         TheirChange, Near, PresenceInv, TypeOK, stateVars
<1>4. TypeOK'
  BY <1>1, <1>2, <1>3 DEF PresenceInv, TypeOK
<1>5. TrustInv' /\ LoopInv'
  <2>1. CASE AddReconnectContact \/ TheirChange
    BY <2>1, <1>1 DEF AddReconnectContact, TheirChange, PresenceInv, TrustInv, LoopInv, stateVars
  <2>2. CASE AddVerifiedContact
    BY <2>2, <1>1 DEF AddVerifiedContact, Near, PresenceInv, TrustInv, LoopInv
  <2>3. CASE RemoveReconnectContact
    BY <2>3, <1>1 DEF RemoveReconnectContact, Near, PresenceInv, TrustInv, LoopInv
  <2>4. CASE RemoveVerifiedContact
    BY <2>4, <1>1 DEF RemoveVerifiedContact, Near, PresenceInv, TrustInv, LoopInv
  <2> QED
    BY <2>1, <2>2, <2>3, <2>4
<1> QED
  BY <1>1, <1>4, <1>5, ChainKept DEF PresenceInv

LEMMA RelaunchStep == PresenceInv /\ Relaunch => PresenceInv'
<1> SUFFICES ASSUME PresenceInv, Relaunch PROVE PresenceInv'
  OBVIOUS
<1>1. /\ snaps' \in Seq(SUBSET Links) /\ hellos' \in Seq(Links)
      /\ beacons' \in Seq([link : Links, real : BOOLEAN])
  BY EmptySeq DEF Relaunch
<1>2. losses' \in 0 .. MaxLosses /\ verified' \in BOOLEAN
  BY PresenceAssumption DEF Relaunch, PresenceInv, TypeOK
<1>3. TypeOK'
  BY <1>1, <1>2 DEF Relaunch, PresenceInv, TypeOK
<1>4. TrustInv' /\ LoopInv'
  BY DEF Relaunch, PresenceInv, TrustInv, LoopInv
<1>5. ChainInv'
  BY DEF Relaunch, ChainInv
<1> QED
  BY <1>3, <1>4, <1>5 DEF PresenceInv

LEMMA PresenceStep == PresenceInv /\ [Next]_vars => PresenceInv'
<1> SUFFICES ASSUME PresenceInv, [Next]_vars PROVE PresenceInv'
  OBVIOUS
<1>1. CASE UNCHANGED vars
  BY <1>1, ChainKept DEF vars, transportVars, frameVars, stateVars, trustVars, PresenceInv, TypeOK,
     TrustInv, LoopInv
<1>2. CASE LoopStep
  BY <1>2, ReachableStep, FinishStep, GreetStep DEF LoopStep
<1>3. CASE \E l \in Links : Connect(l) \/ Drop(l) \/ Notice(l)
  BY <1>3, TransportSteps
<1> QED
  BY <1>1, <1>2, <1>3, BeaconStep, ItsMeStep, TrustSteps, RelaunchStep DEF Next

LEMMA PresenceAlways == Spec => []PresenceInv
<1>1. Init => PresenceInv
  BY PresenceInit
<1>2. PresenceInv /\ [Next]_vars => PresenceInv'
  BY PresenceStep
<1> QED
  BY <1>1, <1>2, PTL DEF Spec

-----------------------------------------------------------------------------
(* Theorems *)

\* Links, queues, gates and presence keep their types, and a link stays
\* greeted only while the coordinator counts it as live (onReachable).
THEOREM PresenceTypes == Spec => []TypeOK
<1>1. PresenceInv => TypeOK
  BY DEF PresenceInv
<1> QED
  BY <1>1, PresenceAlways, PTL

\* Outside the greeting loop of onReachable, lastReachableKeys is what the
\* links, linkPeers and the verified gate say, however the two consumers and the
\* trust changes interleave; and a contact shows as near only if we verified it
\* and it had enrolled us (onReconnectBeacon answers nobody else, and
\* onReconnectItsMe admits nobody else).
THEOREM PresenceIsHonest == Spec => []PresenceHonest
<1>1. PresenceInv => PresenceExact
  BY DEF PresenceInv, LoopInv, TypeOK, PresenceExact
<1>2. PresenceInv => PresentIsMutual
  BY DEF PresenceInv, TrustInv, LoopInv, PresentIsMutual
<1> QED
  BY <1>1, <1>2, PresenceAlways, PTL DEF PresenceHonest

\* A trusted contact that stops being near is handed to the relay in that very
\* step: only onReachable's own emit can lower presence, because snapshots that
\* make it suspend only add links.
THEOREM DeparturesRerouted == Spec => DepartureRerouted
<1> DEFINE A == (present /\ ~present' /\ enrolled' /\ verified' /\ losses' = losses)
                  => loop' = "rerouting"
<1>1. PresenceInv /\ [Next]_vars => [A]_vars
  <2> SUFFICES ASSUME PresenceInv, Next, present, ~present', enrolled', verified',
                      losses' = losses
               PROVE  loop' = "rerouting"
    OBVIOUS
  <2>1. CASE OnReachable \/ FinishReachable
    BY <2>1 DEF OnReachable, FinishReachable, Publish
  <2>2. CASE OnReconnectItsMe
    <3>1. reachable \cap known # {}
      BY DEF PresenceInv, LoopInv
    <3> QED
      BY <2>2, <3>1 DEF OnReconnectItsMe, Near
  <2>3. ~AddVerifiedContact
    BY DEF AddVerifiedContact, PresenceInv, TrustInv
  <2>4. ~RemoveReconnectContact /\ ~RemoveVerifiedContact
    BY DEF RemoveReconnectContact, RemoveVerifiedContact
  <2>5. ~Relaunch
    <3>1. losses \in Nat
      BY PresenceAssumption DEF PresenceInv, TypeOK
    <3>2. losses' # losses + 1
      BY <3>1
    <3> QED
      BY <3>2 DEF Relaunch
  <2>6. ASSUME \/ \E l \in Links : Connect(l) \/ Drop(l) \/ Notice(l) \/ Greet(l)
               \/ RerouteDone \/ OnReconnectBeacon \/ AddReconnectContact \/ TheirChange
        PROVE  FALSE
    BY <2>6 DEF Connect, Drop, Notice, Greet, RerouteDone, OnReconnectBeacon, AddReconnectContact,
                TheirChange, stateVars
  <2> QED
    BY <2>1, <2>2, <2>3, <2>4, <2>5, <2>6 DEF Next, LoopStep
<1> QED
  BY <1>1, PresenceAlways, PTL DEF Spec, DepartureRerouted
=============================================================================
