--------------------------- MODULE EraseEverything ---------------------------
(***************************************************************************)
(* Boot routing and the erase flow: Beacon/BootRouter.swift, bootstrap,    *)
(* enter, completeOnboarding and eraseEverything of Beacon/ContentView,    *)
(* EmergencyWipe.perform and SwiftDataStoreWipe.  The erase is one task    *)
(* with an await at every step, so the process may be killed between any   *)
(* two of them; what survives is the Keychain, the Enclave key and the     *)
(* stores on disk.                                                         *)
(*                                                                         *)
(* A store's content is the number of the identity it belongs to, 0 when   *)
(* it is empty or crypto-erased.                                           *)
(***************************************************************************)
EXTENDS Naturals

CONSTANTS
    Stores,        \* sessions, contacts, invites, blocked, ledger, messages, ...
    Messages,      \* the SwiftData store
    DoorStores,    \* the stores eraseEverything wipes itself
    MaxIdentities, \* bound: identities created by onboarding
    MaxFailures,   \* bound: steps that fail
    MaxKills       \* bound: process deaths

ASSUME EraseAssumption ==
    /\ Messages \in DoorStores /\ DoorStores \subseteq Stores
    /\ MaxIdentities \in Nat /\ MaxFailures \in Nat /\ MaxKills \in Nat

VARIABLES
    phase,      \* ContentView.Phase
    held,       \* the BootRoute that .eula holds
    accepted,   \* EULA.isAccepted
    identity,   \* the identity item in the Keychain, 0 when there is none
    enclave,    \* the Enclave key that wraps it exists
    data,       \* [Stores -> owner]
    assembled,  \* emergencyWipe # nil, in this process
    pc,         \* where eraseEverything is suspended
    todo,       \* stores the running sweep has not reached
    errors,     \* wipeErrors is not empty
    made,       \* ghost: identities created so far
    failures,   \* ghost: steps that failed so far
    kills       \* ghost: process deaths so far

eraseVars == <<phase, held, accepted, identity, enclave, data, assembled, pc,
               todo, errors, made, failures, kills>>

Bounds  == <<made, failures, kills>>
Outside == <<held, accepted, assembled, made, kills>>

-----------------------------------------------------------------------------
(* Boot *)

\* Fault: any load error is taken for a fresh install.
RoutesLenient ==
    IF identity = 0 THEN {"onboarding"}
    ELSE {"ready"} \cup IF failures < MaxFailures
                        THEN {"onboarding", "stackFailed"} ELSE {}

\* BootRouter.route: onboarding only when there is no identity item at all.
Routes ==
    IF identity = 0 THEN {"onboarding"}
    ELSE {"ready"} \cup IF failures < MaxFailures
                        THEN {"identityUnreadable", "stackFailed"} ELSE {}

IsDoor(p) == p \in {"identityUnreadable", "stackFailed"}

\* The stack opens every store it finds and provisions the missing ones.
BuildStack(route) ==
    IF route = "ready"
    THEN /\ data' = [s \in Stores |-> IF data[s] = 0 THEN identity ELSE data[s]]
         /\ assembled' = TRUE
    ELSE UNCHANGED <<data, assembled>>

\* bootstrap(): at launch, and again from the door's "Try again".
Bootstrap ==
    /\ phase = "launching" \/ IsDoor(phase)
    /\ \E route \in Routes :
          /\ BuildStack(route)
          /\ IF IsDoor(route) \/ accepted
             THEN phase' = route /\ UNCHANGED held
             ELSE phase' = "eula" /\ held' = route
          /\ failures' = IF IsDoor(route) THEN failures + 1 ELSE failures
    /\ UNCHANGED <<accepted, identity, enclave, pc, todo, errors, made, kills>>

AcceptEULA ==
    /\ phase = "eula"
    /\ accepted' = TRUE
    /\ phase' = held
    /\ UNCHANGED <<held, identity, enclave, data, assembled, pc, todo, errors, Bounds>>

\* completeOnboarding: save refuses to overwrite an item; then bootstrap().
CompleteOnboarding ==
    /\ phase = "onboarding"
    /\ made < MaxIdentities
    /\ IF identity = 0
       THEN /\ identity' = made + 1 /\ made' = made + 1
            /\ enclave' = TRUE
            /\ phase' = "launching"
       ELSE /\ phase' = "identityUnreadable"
            /\ UNCHANGED <<identity, enclave, made>>
    /\ UNCHANGED <<held, accepted, data, assembled, pc, todo, errors, failures, kills>>

-----------------------------------------------------------------------------
(* eraseEverything *)

\* Flip to .wiping and wait for that arm to appear.
EraseBegins ==
    /\ phase = "ready" \/ IsDoor(phase)
    /\ phase' = "wiping"
    /\ pc' = "gate"
    /\ errors' = FALSE
    /\ UNCHANGED <<held, accepted, identity, enclave, data, assembled, todo, Bounds>>

\* The gate: delete the identity item ...
IdentityDeleted ==
    /\ pc = "gate"
    /\ identity' = 0
    /\ pc' = IF assembled THEN "enclaveKey" ELSE "doorSweep"
    /\ todo' = IF assembled THEN Stores ELSE DoorStores
    /\ UNCHANGED <<phase, enclave, data, errors, failures, Outside>>

\* ... or stay on the door.
IdentityDeleteFails ==
    /\ pc = "gate"
    /\ failures < MaxFailures
    /\ failures' = failures + 1
    /\ pc' = "idle"
    /\ phase' = "identityUnreadable"
    /\ UNCHANGED <<identity, enclave, data, todo, errors, Outside>>

\* perform(): the shared Enclave key; an error is collected.
PerformEnclave(ok) ==
    /\ pc = "enclaveKey"
    /\ ok \/ failures < MaxFailures
    /\ failures' = IF ok THEN failures ELSE failures + 1
    /\ enclave' = IF ok THEN FALSE ELSE enclave
    /\ errors' = (errors \/ ~ok)
    /\ pc' = "sweep"
    /\ UNCHANGED <<phase, identity, data, todo, Outside>>

\* Fault: a failed step is logged, not collected.
WipeStoreUncollected(s, ok) ==
    /\ pc \in {"sweep", "doorSweep"}
    /\ s \in todo
    /\ ok \/ failures < MaxFailures
    /\ failures' = IF ok THEN failures ELSE failures + 1
    /\ data' = IF ok THEN [data EXCEPT ![s] = 0] ELSE data
    /\ todo' = todo \ {s}
    /\ UNCHANGED <<phase, identity, enclave, errors, pc, Outside>>

\* One step of perform() or of the door sweep: every store is attempted
\* whatever happened to the ones before.
WipeStore(s, ok) ==
    /\ pc \in {"sweep", "doorSweep"}
    /\ s \in todo
    /\ ok \/ failures < MaxFailures
    /\ failures' = IF ok THEN failures ELSE failures + 1
    /\ data' = IF ok THEN [data EXCEPT ![s] = 0] ELSE data
    /\ errors' = (errors \/ ~ok)
    /\ todo' = todo \ {s}
    /\ UNCHANGED <<phase, identity, enclave, pc, Outside>>

SweepEnds ==
    /\ pc \in {"sweep", "doorSweep"}
    /\ todo = {}
    /\ pc' = IF pc = "sweep" THEN "doorSweep" ELSE "teardown"
    /\ todo' = IF pc = "sweep" THEN DoorStores ELSE {}
    /\ UNCHANGED <<phase, identity, enclave, data, errors, failures, Outside>>

\* Enclave teardown: not gating, an error is only logged.
Teardown(ok) ==
    /\ pc = "teardown"
    /\ ok \/ failures < MaxFailures
    /\ failures' = IF ok THEN failures ELSE failures + 1
    /\ enclave' = IF ok THEN FALSE ELSE enclave
    /\ pc' = "verify"
    /\ UNCHANGED <<phase, identity, data, todo, errors, Outside>>

\* Verify, then route.
Verify ==
    /\ pc = "verify"
    /\ phase' = IF ~errors /\ data[Messages] = 0
                THEN "onboarding" ELSE "identityUnreadable"
    /\ pc' = "idle"
    /\ UNCHANGED <<identity, enclave, data, todo, errors, failures, Outside>>

\* A live container's late write re-creates a file of the message store.
LateWrite ==
    /\ phase = "wiping" /\ assembled
    /\ data[Messages] = 0
    /\ failures < MaxFailures
    /\ failures' = failures + 1
    /\ data' = [data EXCEPT ![Messages] = made]
    /\ UNCHANGED <<phase, identity, enclave, todo, errors, pc, Outside>>

Kill ==
    /\ kills < MaxKills
    /\ kills' = kills + 1
    /\ phase' = "launching"
    /\ assembled' = FALSE
    /\ pc' = "idle" /\ todo' = {} /\ errors' = FALSE
    /\ UNCHANGED <<held, accepted, identity, enclave, data, made, failures>>

-----------------------------------------------------------------------------

EraseInit ==
    /\ phase = "launching" /\ held = "onboarding"
    /\ accepted = FALSE
    /\ identity = 0 /\ enclave = FALSE
    /\ data = [s \in Stores |-> 0]
    /\ assembled = FALSE
    /\ pc = "idle" /\ todo = {} /\ errors = FALSE
    /\ made = 0 /\ failures = 0 /\ kills = 0

EraseSteps ==
    \/ IdentityDeleted \/ IdentityDeleteFails
    \/ \E ok \in BOOLEAN : PerformEnclave(ok) \/ Teardown(ok)
    \/ \E s \in Stores, ok \in BOOLEAN : WipeStore(s, ok)
    \/ SweepEnds \/ Verify

EraseNext ==
    \/ Bootstrap \/ AcceptEULA \/ CompleteOnboarding
    \/ EraseBegins \/ EraseSteps \/ LateWrite \/ Kill

EraseSpec == EraseInit /\ [][EraseNext]_eraseVars

-----------------------------------------------------------------------------
(* Properties *)

Phases == {"launching", "eula", "onboarding", "ready", "wiping",
           "identityUnreadable", "stackFailed"}

\* The erase task runs exactly while the wiping screen is shown, and a sweep
\* only ever has stores of its own list left.
EraseTypeOK ==
    /\ phase \in Phases /\ held \in Phases
    /\ accepted \in BOOLEAN /\ enclave \in BOOLEAN /\ assembled \in BOOLEAN
    /\ errors \in BOOLEAN
    /\ identity \in 0..made /\ data \in [Stores -> 0..made]
    /\ (pc = "idle") = (phase # "wiping")
    /\ todo \subseteq IF pc = "doorSweep" THEN DoorStores ELSE Stores

\* Onboarding, whose last tap writes an identity, is never on screen (nor held
\* behind the terms) while an identity item exists: across failed deletes,
\* unreadable identities, retries from the door and kills in mid-erase.
OnboardingHasNoIdentity ==
    (phase = "onboarding" \/ (phase = "eula" /\ held = "onboarding"))
        => identity = 0

\* The Enclave key is never torn down under an identity item that still
\* exists: no failed delete strands a blob nothing can unwrap.
NoBlobUnderDeadKey == identity # 0 => enclave

\* The screen, the erase task and the identity agree: onboarding only without an
\* identity, and no identity without the key that unwraps it.
BootConsistent == EraseTypeOK /\ OnboardingHasNoIdentity /\ NoBlobUnderDeadKey

\* The erase of a running app ends in onboarding only with every store empty,
\* whichever steps failed and whatever the live container wrote meanwhile.
EraseOnboardsClean ==
    [][(phase = "wiping" /\ phase' = "onboarding" /\ assembled)
          => \A s \in Stores : data[s] = 0]_eraseVars

\* What the erase flow promises of its routing: "never on onboarding over
\* surviving data".
NoSurvivingData == phase = "onboarding" => \A s \in Stores : data[s] = 0
=============================================================================
