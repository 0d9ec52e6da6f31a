----------------------------- MODULE NostrIngest -----------------------------
(***************************************************************************)
(* The inbound side of Core/Routing/NostrTransport.swift with its replay   *)
(* guard: gift wraps replayed by every relay at every subscription, the    *)
(* ProcessedEventLedger, its debounced save, and the sealed file behind it *)
(* (ProcessedEventLedgerStore, SessionStoreKey) across kills, relaunches   *)
(* and an emergency wipe.                                                  *)
(*                                                                         *)
(* The save runs OFF the transport's queue, on a concurrent utility queue: *)
(* `writes` is the set of dispatched saves, which finish in any order.  A  *)
(* sealed file can be opened only under the key that sealed it.            *)
(***************************************************************************)
EXTENDS FifoCache, FiniteSets

CONSTANTS
    Wraps,          \* ids of the kind-1059 events addressed to this device
    LedgerCapacity, \* ProcessedEventLedger.capacity
    FailedWrapsCap, \* failedWrapsCap
    MaxWrites,      \* bound: saves in flight at one time
    MaxBoots,       \* bound: launches
    MaxKeys         \* bound: keys ever created

ASSUME IngestAssumption ==
    /\ IsFiniteSet(Wraps)
    /\ LedgerCapacity \in Nat \ {0} /\ FailedWrapsCap \in Nat \ {0}
    /\ MaxWrites \in Nat /\ MaxBoots \in Nat /\ MaxKeys \in Nat \ {0}

VARIABLES
    ledger,     \* processedLedger.order
    failed,     \* failedWrapsThisSession
    dirty,      \* ledgerDirty
    scheduled,  \* ledgerSaveScheduled
    block,      \* the debounced save block is on the queue
    writes,     \* dispatched saves, each a sealed snapshot
    disk,       \* the sealed file
    key,        \* the ledger key in the Keychain, 0 when there is none
    dek,        \* the key the running store was built with
    keys,       \* ghost: keys created so far
    started,    \* between start() and stop()
    boots,      \* ghost: launches so far
    broken,     \* wraps that do not validate or unwrap in this launch
    yields,     \* ghost: times a wrap was yielded in this launch
    since,      \* ghost: wraps yielded since the last wipe
    wiped       \* ghost: a wipe completed and no new stack was built yet

guard  == <<ledger, failed, dirty, scheduled, block>>
store  == <<writes, disk>>
keyst  == <<key, dek, keys>>
ghosts == <<yields, since, wiped>>
vars   == <<guard, store, keyst, started, boots, broken, ghosts>>

-----------------------------------------------------------------------------

NoFile == [key |-> 0, order |-> <<>>]

\* ChaChaPoly.seal of the encoded ledger
Sealed(order, k) == [key |-> k, order |-> order]

\* init(from:): first occurrences in order, then the oldest overflow dropped.
Firsts(order) == {i \in 1..Len(order) : \A j \in 1..(i - 1) : order[j] # order[i]}

Increasing(f) == \A i, j \in DOMAIN f : i < j => f[i] < f[j]

Sorted(positions) ==
    CHOOSE f \in [1..Cardinality(positions) -> positions] : Increasing(f)

Decode(order) ==
    LET index == Sorted(Firsts(order))
        kept  == Cardinality(Firsts(order))
        drop  == IF kept > LedgerCapacity THEN kept - LedgerCapacity ELSE 0
    IN  [i \in 1..(kept - drop) |-> order[index[i + drop]]]

\* load(): a missing file is an empty ledger; a file that does not open throws
\* and the composition root boots with an empty ledger.
Load(k) == IF disk.key = k THEN Decode(disk.order) ELSE <<>>

-----------------------------------------------------------------------------
(* handleInboundEventLocked *)

\* Neither guard skips the event.
Admitted(w) == started /\ ~Contains(ledger, w) /\ w \notin failed

\* Fault: recorded on first sight, as before the F2 revision.
WrapFailsRecorded(w) ==
    /\ Admitted(w)
    /\ w \in broken
    /\ ledger' = Insert(ledger, LedgerCapacity, w)
    /\ dirty' = TRUE /\ scheduled' = TRUE /\ block' = TRUE
    /\ UNCHANGED <<failed, store, keyst, started, boots, broken, ghosts>>

\* Validation or unwrap fails: noteFailedWrapLocked.
WrapFails(w) ==
    /\ Admitted(w)
    /\ w \in broken
    /\ failed' = {w} \cup IF Cardinality(failed) >= FailedWrapsCap THEN {} ELSE failed
    /\ UNCHANGED <<ledger, dirty, scheduled, block, store, keyst, started,
                   boots, broken, ghosts>>

\* scheduleLedgerSaveLocked
ScheduleLedgerSave ==
    /\ dirty' = TRUE
    /\ scheduled' = TRUE
    /\ block' = (block \/ ~scheduled)

\* Fault: the wrap is yielded without being recorded.
WrapUnwrapsUnrecorded(w) ==
    /\ Admitted(w)
    /\ w \notin broken
    /\ ScheduleLedgerSave
    /\ yields' = [yields EXCEPT ![w] = IF @ < 2 THEN @ + 1 ELSE @]
    /\ since' = since \cup {w}
    /\ UNCHANGED <<ledger, failed, store, keyst, started, boots, broken, wiped>>

\* Unwrapped: record, schedule the save, yield to the router.
WrapUnwraps(w) ==
    /\ Admitted(w)
    /\ w \notin broken
    /\ ledger' = Insert(ledger, LedgerCapacity, w)
    /\ ScheduleLedgerSave
    /\ yields' = [yields EXCEPT ![w] = @ + 1]
    /\ since' = since \cup {w}
    /\ UNCHANGED <<failed, store, keyst, started, boots, broken, wiped>>

-----------------------------------------------------------------------------
(* The save *)

\* Fault: the block forgets to lower ledgerSaveScheduled.
SaveBlockKeepsFlag ==
    /\ block
    /\ Cardinality(writes) < MaxWrites
    /\ block' = FALSE /\ dirty' = FALSE
    /\ writes' = IF dirty THEN writes \cup {Sealed(ledger, dek)} ELSE writes
    /\ UNCHANGED <<ledger, failed, scheduled, disk, keyst, started, boots,
                   broken, ghosts>>

\* The debounced block: snapshot on the queue, dispatch the save off it.
SaveBlock ==
    /\ block
    /\ Cardinality(writes) < MaxWrites
    /\ block' = FALSE /\ scheduled' = FALSE /\ dirty' = FALSE
    /\ writes' = IF dirty THEN writes \cup {Sealed(ledger, dek)} ELSE writes
    /\ UNCHANGED <<ledger, failed, disk, keyst, started, boots, broken, ghosts>>

\* save(): one atomic file replacement ...
WriteLands(s) ==
    /\ s \in writes
    /\ writes' = writes \ {s}
    /\ disk' = s
    /\ UNCHANGED <<guard, keyst, started, boots, broken, ghosts>>

\* ... or an error, which `try?` drops.
WriteFails(s) ==
    /\ s \in writes
    /\ writes' = writes \ {s}
    /\ UNCHANGED <<guard, disk, keyst, started, boots, broken, ghosts>>

-----------------------------------------------------------------------------
(* Lifecycle *)

Start ==
    /\ ~started
    /\ started' = TRUE
    /\ UNCHANGED <<guard, store, keyst, boots, broken, ghosts>>

\* stop(): flush what is dirty; a queued save block stays queued.
Stop ==
    /\ started
    /\ Cardinality(writes) < MaxWrites
    /\ started' = FALSE
    /\ dirty' = FALSE
    /\ writes' = IF dirty THEN writes \cup {Sealed(ledger, dek)} ELSE writes
    /\ UNCHANGED <<ledger, failed, scheduled, block, disk, keyst, boots,
                   broken, ghosts>>

\* makeSessionStack: loadOrCreate the key, load the ledger, build a transport.
Boot ==
    LET k == IF key = 0 THEN keys + 1 ELSE key IN
    /\ boots < MaxBoots /\ boots' = boots + 1
    /\ k <= MaxKeys
    /\ keys' = IF key = 0 THEN k ELSE keys
    /\ key' = k /\ dek' = k
    /\ ledger' = Load(k)
    /\ failed' = {} /\ dirty' = FALSE /\ scheduled' = FALSE /\ block' = FALSE
    /\ broken' \in SUBSET Wraps
    /\ started' = FALSE
    /\ yields' = [w \in Wraps |-> 0]
    /\ since' = IF wiped THEN {} ELSE since
    /\ wiped' = FALSE
    /\ UNCHANGED disk

\* The process dies, with whatever was queued, and is launched again.
Relaunch == Boot /\ writes' = {}

\* After a wipe the stack is rebuilt in the same process: dispatched saves of
\* the old stack may still land.
Onboard == wiped /\ Boot /\ UNCHANGED writes

\* Fault: only the file is removed.
WipeFileOnly ==
    /\ ~wiped
    /\ disk' = NoFile
    /\ wiped' = TRUE
    /\ UNCHANGED <<guard, writes, keyst, started, boots, broken, yields, since>>

\* ProcessedEventLedgerStore.wipe: remove the file, destroy the key.
Wipe ==
    /\ ~wiped
    /\ disk' = NoFile
    /\ key' = 0
    /\ wiped' = TRUE
    /\ UNCHANGED <<guard, writes, dek, keys, started, boots, broken, yields,
                   since>>

-----------------------------------------------------------------------------

Init ==
    /\ ledger = <<>> /\ failed = {}
    /\ dirty = FALSE /\ scheduled = FALSE /\ block = FALSE
    /\ writes = {} /\ disk = NoFile
    /\ key = 1 /\ dek = 1 /\ keys = 1
    /\ started = FALSE
    /\ boots = 1
    /\ broken \in SUBSET Wraps
    /\ yields = [w \in Wraps |-> 0]
    /\ since = {}
    /\ wiped = FALSE

Next ==
    \/ \E w \in Wraps : WrapFails(w) \/ WrapUnwraps(w)
    \/ SaveBlock
    \/ \E s \in writes : WriteLands(s) \/ WriteFails(s)
    \/ Start \/ Stop
    \/ Relaunch \/ Onboard \/ Wipe

Spec == Init /\ [][Next]_vars

\* Every relay replays its stored events at every subscription, so a wrap that
\* is still on a relay is delivered again and again.
FairSpec == Spec /\ \A w \in Wraps : WF_vars(WrapUnwraps(w))

-----------------------------------------------------------------------------
(* Properties *)

Snapshots == [key : 0..MaxKeys,
              order : UNION {[1..n -> Wraps] : n \in 0..LedgerCapacity}]

\* The ledger and every snapshot of it are within capacity and free of
\* duplicates; the session's failure set respects its cap.
TypeOK ==
    /\ ledger \in Seq(Wraps) /\ WellFormed(ledger, LedgerCapacity)
    /\ failed \subseteq Wraps /\ Cardinality(failed) <= FailedWrapsCap
    /\ dirty \in BOOLEAN /\ scheduled \in BOOLEAN /\ block \in BOOLEAN
    /\ writes \subseteq Snapshots /\ disk \in Snapshots
    /\ key \in 0..keys /\ dek \in 1..keys /\ keys \in 1..MaxKeys
    /\ yields \in [Wraps -> Nat]

\* With room in the ledger, no wrap reaches the router twice in one launch,
\* however often and from however many relays it is replayed, and whatever the
\* save, its failure or a stop do meanwhile.
OncePerLaunch ==
    LedgerCapacity >= Cardinality(Wraps) => \A w \in Wraps : yields[w] <= 1

\* An id is in the ledger only if its wrap was unwrapped and yielded since the
\* last wipe: a wrap that failed is not consumed, and nothing a wiped device
\* knew comes back into a later ledger, although a save dispatched before the
\* wipe can re-create the file after it.
RecordedWasYielded ==
    ~wiped => \A w \in Wraps : Contains(ledger, w) => w \in since

\* New ids are never left without a save on its way: while the ledger is dirty
\* the debounced block is on the queue.
DirtyHasSave == dirty => block

\* The ledger, its snapshots and its pending save are consistent.
LedgerConsistent == TypeOK /\ DirtyHasSave

\* A wrap that fails in one launch gets its fresh try in the next: a wrap that
\* unwraps in this launch and was not yielded before is yielded, unless the
\* transport stops or the process ends.
FreshTry ==
    \A w \in Wraps :
        (started /\ w \notin broken /\ w \notin since)
            ~> (w \in since \/ ~started \/ w \in broken)
=============================================================================
