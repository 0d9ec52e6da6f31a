------------------------ MODULE IngestAndEraseProofs ------------------------
(***************************************************************************)
(* What the replay ledger and the erase of the device promise: theorems    *)
(* about FifoCache, about NostrIngest, which keeps its ledger in one and   *)
(* survives a wipe, and about EraseEverything, the flow that wipes.  They  *)
(* hold for any wraps, capacities, launches, keys and saves in flight, and *)
(* for any stores, identities, failed steps and process deaths.            *)
(***************************************************************************)
EXTENDS NostrIngest, EraseEverything, SequenceTheorems, FiniteSetTheorems, FunctionTheorems, TLAPS

-----------------------------------------------------------------------------
(* What containsOrInsert guarantees of a cache, for every capacity and content *)

\* Inserting an id of the right kind keeps the cache a sequence of such ids.
LEMMA InsertType ==
    ASSUME NEW S, NEW cache \in Seq(S), NEW capacity \in Nat, NEW id \in S
    PROVE  Insert(cache, capacity, id) \in Seq(S)
<1>1. Append(cache, id) \in Seq(S) /\ Append(cache, id) # <<>>
  BY AppendProperties
<1>2. Tail(Append(cache, id)) \in Seq(S)
  BY <1>1, HeadTailProperties
<1> QED
  BY <1>1, <1>2 DEF Insert

\* SeenCache and ProcessedEventLedger: after any insertion the cache is within
\* its capacity and holds no id twice, so that `order` and `present` remain
\* mirrors of one another and an eviction removes the only copy.
THEOREM InsertWellFormed ==
    ASSUME NEW S, NEW cache \in Seq(S), NEW capacity \in Nat \ {0}, NEW id \in S,
           WellFormed(cache, capacity)
    PROVE  WellFormed(Insert(cache, capacity, id), capacity)
<1>1. CASE Contains(cache, id)
  BY <1>1 DEF Insert
<1>2. CASE ~Contains(cache, id)
  <2> DEFINE grown == Append(cache, id)
  <2>1. /\ Len(cache) \in Nat
        /\ grown \in Seq(S) /\ Len(grown) = Len(cache) + 1
        /\ \A i \in 1..Len(cache) : grown[i] = cache[i]
        /\ grown[Len(cache) + 1] = id
    OBVIOUS
  <2>2. \A i \in 1..Len(cache) : cache[i] # id
    BY <1>2 DEF Contains
  <2>3. \A i, j \in 1..Len(grown) : grown[i] = grown[j] => i = j
    <3> SUFFICES ASSUME NEW i \in 1..Len(grown), NEW j \in 1..Len(grown),
                        grown[i] = grown[j]
                 PROVE  i = j
      OBVIOUS
    <3>1. i \in 1..Len(cache) \/ i = Len(cache) + 1
      BY <2>1
    <3>2. j \in 1..Len(cache) \/ j = Len(cache) + 1
      BY <2>1
    <3>3. CASE i \in 1..Len(cache) /\ j \in 1..Len(cache)
      BY <2>1, <3>3 DEF WellFormed
    <3>4. CASE i = Len(cache) + 1 \/ j = Len(cache) + 1
      BY <2>1, <2>2, <3>1, <3>2, <3>4
    <3> QED
      BY <3>1, <3>2, <3>3, <3>4
  <2>4. CASE Len(grown) > capacity
    <3>1. Insert(cache, capacity, id) = Tail(grown)
      BY <1>2, <2>4 DEF Insert
    <3>2. /\ Len(Tail(grown)) = Len(cache)
          /\ \A i \in 1..Len(cache) : Tail(grown)[i] = grown[i + 1]
      BY <2>1
    <3>3. \A i \in 1..Len(cache) : i + 1 \in 1..Len(grown)
      BY <2>1
    <3>4. \A i, j \in 1..Len(Tail(grown)) :
             Tail(grown)[i] = Tail(grown)[j] => i = j
      BY <2>1, <2>3, <3>2, <3>3, SMTT(60)
    <3> QED
      BY <3>1, <3>2, <3>4 DEF WellFormed
  <2>5. CASE ~(Len(grown) > capacity)
    BY <1>2, <2>1, <2>3, <2>5 DEF Insert, WellFormed
  <2> QED
    BY <2>4, <2>5
<1> QED
  BY <1>1, <1>2

\* The id just handled is remembered: the very next copy is a duplicate.
THEOREM InsertRemembers ==
    ASSUME NEW S, NEW cache \in Seq(S), NEW capacity \in Nat \ {0}, NEW id \in S
    PROVE  Contains(Insert(cache, capacity, id), id)
<1> DEFINE grown == Append(cache, id)
<1>1. /\ Len(cache) \in Nat
      /\ grown \in Seq(S) /\ Len(grown) = Len(cache) + 1
      /\ grown[Len(cache) + 1] = id
  OBVIOUS
<1>2. CASE Contains(cache, id)
  BY <1>2 DEF Insert
<1>3. CASE ~Contains(cache, id) /\ Len(grown) > capacity
  <2>1. Insert(cache, capacity, id) = Tail(grown)
    BY <1>3 DEF Insert
  <2>2. Len(cache) \in 1..Len(Tail(grown)) /\ Tail(grown)[Len(cache)] = id
    BY <1>1, <1>3
  <2> QED
    BY <2>1, <2>2 DEF Contains
<1>4. CASE ~Contains(cache, id) /\ ~(Len(grown) > capacity)
  BY <1>1, <1>4 DEF Insert, Contains
<1> QED
  BY <1>2, <1>3, <1>4

\* While the cache has room nothing is forgotten.
LEMMA InsertKeeps ==
    ASSUME NEW S, NEW cache \in Seq(S), NEW capacity \in Nat, NEW id \in S,
           NEW old \in S, Contains(cache, old), Len(cache) < capacity
    PROVE  Contains(Insert(cache, capacity, id), old)
<1>1. CASE Contains(cache, id)
  BY <1>1 DEF Insert
<1>2. CASE ~Contains(cache, id)
  <2>1. /\ Len(cache) \in Nat
        /\ Len(Append(cache, id)) = Len(cache) + 1
        /\ \A i \in 1..Len(cache) : Append(cache, id)[i] = cache[i]
    OBVIOUS
  <2>2. Insert(cache, capacity, id) = Append(cache, id)
    BY <1>2, <2>1 DEF Insert
  <2> QED
    BY <2>1, <2>2 DEF Contains
<1> QED
  BY <1>1, <1>2

-----------------------------------------------------------------------------
(* The inductive invariant *)

\* A ledger, live or in a snapshot: no id twice, within capacity.
Ledger(order) == order \in Seq(Wraps) /\ WellFormed(order, LedgerCapacity)

\* Sealed under a key that was created (none for the missing file).
Snapshot(s) ==
    /\ s \in [key : 0..keys, order : Seq(Wraps)]
    /\ WellFormed(s.order, LedgerCapacity)

Shapes ==
    /\ Ledger(ledger)
    /\ failed \in SUBSET Wraps /\ IsFiniteSet(failed)
    /\ Cardinality(failed) <= FailedWrapsCap
    /\ dirty \in BOOLEAN /\ scheduled \in BOOLEAN /\ block \in BOOLEAN
    /\ wiped \in BOOLEAN
    /\ \A s \in writes : Snapshot(s)
    /\ Snapshot(disk)
    /\ key \in 0..keys /\ dek \in 1..keys /\ keys \in 1..MaxKeys
    /\ yields \in [Wraps -> Nat]

\* ledgerSaveScheduled is raised only with the block on the queue.
SavePending == (scheduled => block) /\ (dirty => block)

\* What a ledger that can still be opened says was yielded since the wipe.
Honest(order) == \A w \in Wraps : Contains(order, w) => w \in since

\* Between wipes the running store seals under the Keychain's key, and what is
\* sealed under it is honest; after a wipe no key opens what is left.
KeyGuards ==
    /\ wiped => key = 0
    /\ ~wiped => /\ key # 0 /\ dek = key
                 /\ Honest(ledger)
                 /\ disk.key = key => Honest(disk.order)
                 /\ \A s \in writes : s.key = key => Honest(s.order)

\* With room in the ledger, what was yielded in this launch is recorded.
YieldedIsRecorded ==
    LedgerCapacity >= Cardinality(Wraps)
      => \A w \in Wraps : /\ yields[w] <= 1
                          /\ yields[w] = 1 => Contains(ledger, w)

IngestInv == Shapes /\ SavePending /\ KeyGuards /\ YieldedIsRecorded

-----------------------------------------------------------------------------
(* Lemmas on ledgers *)

\* The number of positions of a ledger.
LEMMA IntervalCount ==
    ASSUME NEW n \in Nat
    PROVE  Cardinality(1..n) = n
<1>1. Cardinality(1..n) = IF 1 > n THEN 0 ELSE n - 1 + 1
  BY FS_Interval
<1> QED
  BY <1>1

\* A duplicate-free ledger that misses an id has room for it when the capacity
\* covers every id there is.
LEMMA RoomLeft ==
    ASSUME NEW order, Ledger(order), NEW w \in Wraps, ~Contains(order, w),
           LedgerCapacity >= Cardinality(Wraps), IngestAssumption
    PROVE  Len(order) < LedgerCapacity
<1>1. order \in [1..Len(order) -> Wraps \ {w}] /\ Len(order) \in Nat
  BY DEF Ledger, Contains
<1>2. order \in Injection(1..Len(order), Wraps \ {w})
  BY <1>1 DEF Ledger, WellFormed, Injection, IsInjective
<1>3. /\ IsFiniteSet(Wraps \ {w})
      /\ Cardinality(Wraps \ {w}) = Cardinality(Wraps) - 1
      /\ Cardinality(Wraps) \in Nat
  BY FS_RemoveElement, FS_CardinalityType DEF IngestAssumption
<1>4. Cardinality(1..Len(order)) <= Cardinality(Wraps \ {w})
  BY <1>2, <1>3, FS_Injection
<1>5. Cardinality(1..Len(order)) = Len(order)
  BY <1>1, IntervalCount
<1> QED
  BY <1>1, <1>3, <1>4, <1>5 DEF IngestAssumption

\* Inserting claims nothing but the id inserted.
LEMMA InsertAddsOne ==
    ASSUME NEW order, Ledger(order), NEW w \in Wraps, IngestAssumption, NEW v,
           Contains(Insert(order, LedgerCapacity, w), v)
    PROVE  Contains(order, v) \/ v = w
<1> DEFINE grown == Append(order, w)
<1>1. /\ order \in Seq(Wraps) /\ Len(order) \in Nat
      /\ grown \in Seq(Wraps) /\ Len(grown) = Len(order) + 1
      /\ \A i \in 1..Len(order) : grown[i] = order[i]
      /\ grown[Len(order) + 1] = w
  BY DEF Ledger
<1>2. \A i \in 1..Len(grown) : grown[i] = w \/ Contains(order, grown[i])
  <2> SUFFICES ASSUME NEW i \in 1..Len(grown) PROVE grown[i] = w \/ Contains(order, grown[i])
    OBVIOUS
  <2>1. i = Len(order) + 1 \/ i \in 1..Len(order)
    BY <1>1
  <2> QED
    BY <1>1, <2>1 DEF Contains
<1>3. /\ Len(Tail(grown)) = Len(order)
      /\ \A i \in 1..Len(order) : Tail(grown)[i] = grown[i + 1] /\ i + 1 \in 1..Len(grown)
  BY <1>1
<1>4. CASE Contains(order, w)
  BY <1>4 DEF Insert
<1>5. CASE ~Contains(order, w) /\ Len(grown) > LedgerCapacity
  <2>1. Insert(order, LedgerCapacity, w) = Tail(grown)
    BY <1>5 DEF Insert
  <2>2. PICK i \in 1..Len(Tail(grown)) : Tail(grown)[i] = v
    BY <2>1 DEF Contains
  <2> QED
    BY <1>2, <1>3, <2>2
<1>6. CASE ~Contains(order, w) /\ ~(Len(grown) > LedgerCapacity)
  <2>1. Insert(order, LedgerCapacity, w) = grown
    BY <1>6 DEF Insert
  <2>2. PICK i \in 1..Len(grown) : grown[i] = v
    BY <2>1 DEF Contains
  <2> QED
    BY <1>2, <2>2
<1> QED
  BY <1>4, <1>5, <1>6

\* Picking entries by increasing positions repeats none.
LEMMA Rearranged ==
    ASSUME NEW order, Ledger(order), NEW n \in Nat, n = Len(order),
           NEW index \in [1..n -> 1..n], Increasing(index),
           NEW new, new = [i \in 1..n |-> order[index[i]]]
    PROVE  /\ Ledger(new)
           /\ \A w : Contains(new, w) => Contains(order, w)
<1>1. order \in [1..n -> Wraps] /\ n <= LedgerCapacity
  BY DEF Ledger, WellFormed
<1>2. new \in [1..n -> Wraps]
  BY <1>1
<1>3. new \in Seq(Wraps) /\ Len(new) = n
  BY <1>2
<1>4. \A i, j \in 1..n : index[i] \in 1..n /\ index[j] \in 1..n /\ (i < j => index[i] < index[j])
  BY DEF Increasing
<1>5. \A i, j \in 1..n : index[i] = index[j] => i = j
  <2> SUFFICES ASSUME NEW i \in 1..n, NEW j \in 1..n, index[i] = index[j], i # j
               PROVE  FALSE
    OBVIOUS
  <2>1. CASE i < j
    BY <1>4, <2>1
  <2>2. CASE j < i
    BY <1>4, <2>2
  <2> QED
    BY <2>1, <2>2
<1>6. \A i, j \in 1..n : new[i] = new[j] => i = j
  BY <1>4, <1>5 DEF Ledger, WellFormed
<1>7. \A w : Contains(new, w) => Contains(order, w)
  BY <1>3, <1>4 DEF Contains
<1> QED
  BY <1>1, <1>3, <1>6, <1>7 DEF Ledger, WellFormed

\* init(from:) on a ledger that encode(to:) wrote: duplicate-free, within
\* capacity, and nothing in it that was not in the file.
LEMMA DecodeLedger ==
    ASSUME NEW order, Ledger(order), IngestAssumption
    PROVE  /\ Ledger(Decode(order))
           /\ \A w : Contains(Decode(order), w) => Contains(order, w)
<1>1. PICK n \in Nat : n = Len(order)
  BY DEF Ledger
<1>2. n <= LedgerCapacity
  BY <1>1 DEF Ledger, WellFormed
<1>3. Firsts(order) = 1..n
  <2>1. \A i \in 1..n : \A j \in 1..(i - 1) : j \in 1..n /\ j # i
    OBVIOUS
  <2> QED
    BY <1>1, <2>1 DEF Firsts, Ledger, WellFormed
<1>4. Cardinality(Firsts(order)) = n
  BY <1>3, IntervalCount
<1>5. PICK index : index = Sorted(1..n)
  OBVIOUS
<1>6. index \in [1..n -> 1..n] /\ Increasing(index)
  <2>1. [i \in 1..n |-> i] \in [1..n -> 1..n] /\ Increasing([i \in 1..n |-> i])
    BY DEF Increasing
  <2>2. Cardinality(1..n) = n
    BY IntervalCount
  <2> QED
    BY <1>5, <2>1, <2>2 DEF Sorted
<1>7. PICK drop : drop = IF n > LedgerCapacity THEN n - LedgerCapacity ELSE 0
  OBVIOUS
<1>8. drop = 0
  BY <1>2, <1>7 DEF IngestAssumption
<1>9. Decode(order) = [i \in 1..(n - drop) |-> order[index[i + drop]]]
  BY <1>3, <1>4, <1>5, <1>7 DEF Decode
<1>10. Decode(order) = [i \in 1..n |-> order[index[i]]]
  BY <1>8, <1>9
<1> QED
  BY <1>1, <1>6, <1>10, Rearranged, SMTT(60)

-----------------------------------------------------------------------------
(* The invariant is inductive *)

LEMMA InitEstablishes == ASSUME Init PROVE IngestInv
<1>1. Ledger(<<>>) /\ \A w : ~Contains(<<>>, w)
  BY IngestAssumption DEF Ledger, WellFormed, Contains, IngestAssumption
<1>2. IsFiniteSet({}) /\ Cardinality({}) = 0
  BY FS_EmptySet
<1>3. Shapes
  <2>1. Snapshot(disk)
    BY <1>1 DEF Init, Snapshot, NoFile, Ledger
  <2>2. key \in 0..keys /\ dek \in 1..keys /\ keys \in 1..MaxKeys
    BY IngestAssumption DEF Init, IngestAssumption
  <2>3. Cardinality(failed) <= FailedWrapsCap
    BY <1>2, IngestAssumption DEF Init, IngestAssumption
  <2> QED
    BY <1>1, <1>2, <2>1, <2>2, <2>3 DEF Init, Shapes
<1>4. SavePending /\ KeyGuards /\ YieldedIsRecorded
  BY <1>1 DEF Init, SavePending, KeyGuards, Honest, NoFile, YieldedIsRecorded
<1> QED
  BY <1>3, <1>4 DEF IngestInv

\* The set of failed wraps is emptied before it would exceed its cap.
LEMMA FailedCapped ==
    ASSUME Shapes, NEW w \in Wraps, WrapFails(w)
    PROVE  /\ failed' \in SUBSET Wraps /\ IsFiniteSet(failed')
           /\ Cardinality(failed') <= FailedWrapsCap
<1>1. PICK rest \in SUBSET Wraps :
         /\ failed' = rest \cup {w} /\ IsFiniteSet(rest)
         /\ Cardinality(rest) \in Nat /\ Cardinality(rest) < FailedWrapsCap
  <2>1. Cardinality(failed) \in Nat /\ IsFiniteSet({}) /\ Cardinality({}) = 0
    BY FS_CardinalityType, FS_EmptySet DEF Shapes
  <2>2. CASE Cardinality(failed) >= FailedWrapsCap
    <3>1. failed' = {} \cup {w}
      BY <2>2 DEF WrapFails
    <3> QED
      BY <2>1, <3>1, IngestAssumption DEF IngestAssumption
  <2>3. CASE ~(Cardinality(failed) >= FailedWrapsCap)
    <3>1. failed' = failed \cup {w}
      BY <2>3 DEF WrapFails
    <3> QED
      BY <2>1, <2>3, <3>1, IngestAssumption DEF IngestAssumption, Shapes
  <2> QED
    BY <2>2, <2>3
<1>2. /\ IsFiniteSet(rest \cup {w})
      /\ Cardinality(rest \cup {w}) <= Cardinality(rest) + 1
  BY <1>1, FS_AddElement
<1> QED
  BY <1>1, <1>2, FS_CardinalityType, IngestAssumption DEF IngestAssumption

\* A snapshot stays one when keys are only added.
LEMMA SnapshotsStay ==
    ASSUME Shapes, keys' \in 1..MaxKeys, keys' >= keys, NEW s, Snapshot(s)
    PROVE  Snapshot(s)'
  BY DEF Shapes, Snapshot

LEMMA FailsKeeps ==
    ASSUME IngestInv, NEW w \in Wraps, WrapFails(w)
    PROVE  IngestInv'
<1>1. Shapes'
  BY FailedCapped DEF IngestInv, Shapes, WrapFails, Snapshot, store, keyst, ghosts, Ledger
<1>2. SavePending' /\ KeyGuards' /\ YieldedIsRecorded'
  BY DEF IngestInv, WrapFails, SavePending, KeyGuards, Honest, YieldedIsRecorded,
         store, keyst, ghosts
<1> QED
  BY <1>1, <1>2 DEF IngestInv

LEMMA UnwrapKeeps ==
    ASSUME IngestInv, NEW w \in Wraps, WrapUnwraps(w)
    PROVE  IngestInv'
<1> USE IngestAssumption DEF IngestInv
<1>1. /\ Ledger(ledger) /\ ~Contains(ledger, w) /\ LedgerCapacity \in Nat \ {0}
      /\ ledger' = Insert(ledger, LedgerCapacity, w)
  BY DEF Shapes, WrapUnwraps, Admitted, IngestAssumption
<1>2. Ledger(ledger')
  BY <1>1, InsertType, InsertWellFormed DEF Ledger
<1>3. Contains(ledger', w)
  BY <1>1, InsertRemembers DEF Ledger
<1>4. \A v \in Wraps : Contains(ledger', v) => Contains(ledger, v) \/ v = w
  BY <1>1, InsertAddsOne
<1>5. Shapes'
  BY <1>2 DEF Shapes, WrapUnwraps, ScheduleLedgerSave, Ledger, Snapshot, store, keyst
<1>6. SavePending'
  BY DEF SavePending, WrapUnwraps, ScheduleLedgerSave, Shapes
<1>7. KeyGuards'
  BY <1>4 DEF KeyGuards, Honest, WrapUnwraps, store, keyst
<1>8. YieldedIsRecorded'
  <2> SUFFICES ASSUME LedgerCapacity >= Cardinality(Wraps), NEW v \in Wraps
               PROVE  yields'[v] <= 1 /\ (yields'[v] = 1 => Contains(ledger', v))
    BY DEF YieldedIsRecorded
  <2>1. yields[w] = 0 /\ yields \in [Wraps -> Nat]
    BY <1>1 DEF YieldedIsRecorded, Shapes
  <2>2. yields' = [yields EXCEPT ![w] = @ + 1]
    BY DEF WrapUnwraps
  <2>3. CASE v = w
    BY <1>3, <2>1, <2>2, <2>3
  <2>4. CASE v # w
    <3>1. yields'[v] = yields[v]
      BY <2>1, <2>2, <2>4
    <3>2. Len(ledger) < LedgerCapacity
      BY <1>1, RoomLeft
    <3>3. Contains(ledger, v) => Contains(ledger', v)
      BY <1>1, <3>2, InsertKeeps DEF Ledger
    <3> QED
      BY <3>1, <3>3 DEF YieldedIsRecorded
  <2> QED
    BY <2>3, <2>4
<1> QED
  BY <1>5, <1>6, <1>7, <1>8

\* A snapshot of the running ledger, dispatched by the block or by stop().
LEMMA SavesKeep ==
    ASSUME IngestInv, SaveBlock \/ Stop
    PROVE  IngestInv'
<1> USE DEF IngestInv
<1>1. Snapshot(Sealed(ledger, dek))
  BY IngestAssumption DEF Shapes, Snapshot, Sealed, Ledger, IngestAssumption
<1>2. writes' \subseteq writes \cup {Sealed(ledger, dek)}
  BY DEF SaveBlock, Stop
<1>3. /\ UNCHANGED <<ledger, failed, disk, key, dek, keys, yields, since, wiped>>
      /\ dirty' = FALSE
      /\ \/ scheduled' = FALSE /\ block' = FALSE
         \/ UNCHANGED <<scheduled, block>>
  BY DEF SaveBlock, Stop, keyst, ghosts
<1>4. Shapes'
  BY <1>1, <1>2, <1>3 DEF Shapes, Ledger, Snapshot
<1>5. KeyGuards'
  <2>1. ~wiped => Honest(Sealed(ledger, dek).order)
    BY DEF KeyGuards, Sealed
  <2> QED
    BY <1>2, <1>3, <2>1 DEF KeyGuards, Honest
<1>6. SavePending' /\ YieldedIsRecorded'
  BY <1>3 DEF SavePending, YieldedIsRecorded
<1> QED
  BY <1>4, <1>5, <1>6

LEMMA LandingKeeps ==
    ASSUME IngestInv, NEW s \in writes, WriteLands(s) \/ WriteFails(s)
    PROVE  IngestInv'
<1> USE DEF IngestInv
<1>1. /\ UNCHANGED <<ledger, failed, dirty, scheduled, block, key, dek, keys, yields, since, wiped>>
      /\ writes' \subseteq writes
      /\ disk' = s \/ disk' = disk
  BY DEF WriteLands, WriteFails, guard, keyst, ghosts
<1>2. Shapes'
  BY <1>1 DEF Shapes, Ledger, Snapshot
<1>3. SavePending' /\ KeyGuards' /\ YieldedIsRecorded'
  BY <1>1 DEF SavePending, KeyGuards, Honest, YieldedIsRecorded
<1> QED
  BY <1>2, <1>3

\* The new stack's ledger: what the file says if the key opens it.  After a
\* wipe the key is a new one, and nothing on disk or in flight is under it.
LEMMA BootKeeps ==
    ASSUME IngestInv, Boot, writes' = {} \/ UNCHANGED writes
    PROVE  IngestInv'
<1> USE IngestAssumption DEF IngestInv
<1>1. PICK k : /\ k = IF key = 0 THEN keys + 1 ELSE key
               /\ k <= MaxKeys
               /\ keys' = IF key = 0 THEN k ELSE keys
               /\ key' = k /\ dek' = k
               /\ ledger' = Load(k)
  BY DEF Boot
<1>2. /\ failed' = {} /\ dirty' = FALSE /\ scheduled' = FALSE /\ block' = FALSE
      /\ yields' = [w \in Wraps |-> 0] /\ wiped' = FALSE /\ disk' = disk
      /\ since' = IF wiped THEN {} ELSE since
      /\ writes' \subseteq writes
  BY DEF Boot
<1>3. /\ keys' \in 1..MaxKeys /\ keys' >= keys /\ k \in 1..keys'
  BY <1>1 DEF Shapes, IngestAssumption
<1>4. Ledger(disk.order)
  BY DEF Shapes, Snapshot, Ledger
<1>5. Ledger(<<>>) /\ \A w : ~Contains(<<>>, w)
  BY DEF Ledger, WellFormed, Contains, IngestAssumption
<1>6. /\ Ledger(Load(k))
      /\ \A w : Contains(Load(k), w) => disk.key = k /\ Contains(disk.order, w)
  BY <1>4, <1>5, DecodeLedger DEF Load
<1>7. Shapes'
  <2>1. \A s : Snapshot(s) => Snapshot(s)'
    BY <1>3, SnapshotsStay
  <2>2. (\A s \in writes : Snapshot(s))' /\ Snapshot(disk)'
    BY <1>2, <2>1 DEF Shapes, Snapshot
  <2>3. IsFiniteSet({}) /\ Cardinality({}) = 0
    BY FS_EmptySet
  <2>4. Ledger(ledger)'
    BY <1>1, <1>6 DEF Ledger
  <2>5. (key \in 0..keys /\ dek \in 1..keys /\ keys \in 1..MaxKeys)'
    BY <1>1, <1>3
  <2>6. (failed \in SUBSET Wraps /\ IsFiniteSet(failed) /\ Cardinality(failed) <= FailedWrapsCap)'
    BY <1>2, <2>3 DEF IngestAssumption
  <2> QED
    BY <1>2, <2>2, <2>4, <2>5, <2>6 DEF Shapes
<1>8. KeyGuards'
  <2>1. CASE wiped
    <3>1. k = keys + 1 /\ keys \in Nat
      BY <1>1, <2>1 DEF KeyGuards, Shapes
    <3>2. disk.key # k /\ \A s \in writes : s.key # k
      BY <3>1 DEF Shapes, Snapshot
    <3> QED
      BY <1>1, <1>2, <1>3, <1>6, <3>2 DEF KeyGuards, Honest
  <2>2. CASE ~wiped
    BY <1>1, <1>2, <1>3, <1>6, <2>2 DEF KeyGuards, Honest
  <2> QED
    BY <2>1, <2>2 DEF Shapes
<1>9. SavePending' /\ YieldedIsRecorded'
  BY <1>2 DEF SavePending, YieldedIsRecorded
<1> QED
  BY <1>7, <1>8, <1>9

LEMMA WipeKeeps == ASSUME IngestInv, Wipe PROVE IngestInv'
<1> USE DEF IngestInv
<1>1. Snapshot(NoFile)
  BY IngestAssumption DEF Shapes, Snapshot, NoFile, WellFormed, IngestAssumption
<1>2. Shapes'
  BY <1>1 DEF Shapes, Wipe, guard, Ledger, Snapshot
<1>3. SavePending' /\ KeyGuards' /\ YieldedIsRecorded'
  BY DEF SavePending, KeyGuards, Honest, YieldedIsRecorded, Wipe, guard, Shapes
<1> QED
  BY <1>2, <1>3

LEMMA IngestInvStep ==
    ASSUME IngestInv, [Next]_vars
    PROVE  IngestInv'
<1>1. CASE UNCHANGED <<guard, store, keyst, ghosts>>
  <2>1. Shapes'
    BY <1>1 DEF IngestInv, Shapes, Ledger, Snapshot, guard, store, keyst, ghosts
  <2>2. SavePending' /\ KeyGuards' /\ YieldedIsRecorded'
    BY <1>1 DEF IngestInv, SavePending, KeyGuards, Honest, YieldedIsRecorded,
                guard, store, keyst, ghosts
  <2> QED
    BY <2>1, <2>2 DEF IngestInv
<1>2. CASE Start \/ UNCHANGED vars
  BY <1>1, <1>2 DEF Start, vars
<1>3. CASE \E w \in Wraps : WrapFails(w) \/ WrapUnwraps(w)
  BY <1>3, FailsKeeps, UnwrapKeeps
<1>4. CASE SaveBlock \/ Stop
  BY <1>4, SavesKeep
<1>5. CASE \E s \in writes : WriteLands(s) \/ WriteFails(s)
  BY <1>5, LandingKeeps
<1>6. CASE Relaunch \/ Onboard
  BY <1>6, BootKeeps DEF Relaunch, Onboard
<1>7. CASE Wipe
  BY <1>7, WipeKeeps
<1> QED
  BY <1>2, <1>3, <1>4, <1>5, <1>6, <1>7 DEF Next

\* The invariant holds in every state of every behaviour.
THEOREM IngestInductive == Spec => []IngestInv
  BY InitEstablishes, IngestInvStep, PTL DEF Spec

-----------------------------------------------------------------------------
(* Results *)

\* handleInboundEventLocked with scheduleLedgerSaveLocked: the ledger and every
\* snapshot of it stay within capacity and free of duplicates, and new ids
\* never wait without a save on its way, stops and relaunches included.
THEOREM LedgerIsConsistent == Spec => []LedgerConsistent
<1>1. ASSUME NEW order, Ledger(order)
      PROVE  order \in UNION {[1..n -> Wraps] : n \in 0..LedgerCapacity}
  <2>1. Len(order) \in 0..LedgerCapacity /\ order \in [1..Len(order) -> Wraps]
    BY <1>1, IngestAssumption DEF Ledger, WellFormed, IngestAssumption
  <2> QED
    BY <2>1
<1>2. IngestInv => LedgerConsistent
  <2> SUFFICES ASSUME IngestInv PROVE LedgerConsistent
    OBVIOUS
  <2>1. ASSUME NEW s, Snapshot(s) PROVE s \in Snapshots
    <3>1. s.order \in UNION {[1..n -> Wraps] : n \in 0..LedgerCapacity}
      BY <1>1, <2>1 DEF Snapshot, Ledger
    <3>2. s.key \in 0..MaxKeys
      BY <2>1, IngestAssumption DEF Snapshot, IngestInv, Shapes, IngestAssumption
    <3> QED
      BY <2>1, <3>1, <3>2 DEF Snapshot, Snapshots
  <2>2. writes \subseteq Snapshots /\ disk \in Snapshots
    BY <2>1 DEF IngestInv, Shapes
  <2> QED
    BY <2>2 DEF IngestInv, Shapes, SavePending, LedgerConsistent, TypeOK,
                DirtyHasSave, Ledger
<1> QED
  BY <1>2, IngestInductive, PTL

\* handleInboundEventLocked: with room in the ledger a wrap reaches the router
\* at most once in a launch, however often the relays replay it.
THEOREM YieldedOnce == Spec => []OncePerLaunch
<1>1. IngestInv => OncePerLaunch
  BY DEF IngestInv, YieldedIsRecorded, OncePerLaunch
<1> QED
  BY <1>1, IngestInductive, PTL

\* ProcessedEventLedgerStore.wipe with saves still in flight: an id is in the
\* ledger only if its wrap was yielded since the last wipe, although an old
\* snapshot may re-create the file after it.
THEOREM NothingReturnsAfterWipe == Spec => []RecordedWasYielded
<1>1. IngestInv => RecordedWasYielded
  BY DEF IngestInv, KeyGuards, Honest, RecordedWasYielded
<1> QED
  BY <1>1, IngestInductive, PTL

-----------------------------------------------------------------------------
(* The flow that wipes: EraseEverything, of which Wipe above is the step     *)
(* that takes the ledger.  The theorems are about any stores, any number of  *)
(* identities, failed steps and process deaths.                              *)

\* What waits behind the terms is a screen without an erase task, and past its
\* gate the erase task has no identity left to strand.
FlowInv ==
    /\ held \in {"onboarding", "ready"} /\ made \in Nat
    /\ pc \in {"idle", "gate", "enclaveKey", "sweep", "doorSweep", "teardown", "verify"}
    /\ pc \notin {"idle", "gate"} => identity = 0

\* The message store is looked at again before the erase routes; a store that
\* could not be wiped leaves an error behind.
Cleared(s) == s = Messages \/ errors \/ data[s] = 0

\* Of a running app, the sweep has cleared every store it reached.
SweepInv ==
    assembled =>
        /\ pc = "enclaveKey" => todo = Stores
        /\ pc = "sweep" => \A s \in Stores \ todo : Cleared(s)
        /\ pc \in {"doorSweep", "teardown", "verify"} => \A s \in Stores : Cleared(s)

EraseInv == BootConsistent /\ FlowInv /\ SweepInv

LEMMA EraseStarts == EraseInit => EraseInv
<1> SUFFICES ASSUME EraseInit PROVE EraseInv
  OBVIOUS
<1>1. identity \in 0 .. made /\ data \in [Stores -> 0 .. made]
  BY DEF EraseInit
<1> QED
  BY <1>1 DEF EraseInit, EraseInv, BootConsistent, EraseTypeOK, Phases, FlowInv,
              SweepInv, OnboardingHasNoIdentity, NoBlobUnderDeadKey

\* Launch, terms, onboarding and process death.
LEMMA RoutingKeeps ==
    ASSUME EraseInv, Bootstrap \/ AcceptEULA \/ CompleteOnboarding \/ Kill
    PROVE  EraseInv'
<1> USE DEF EraseInv, BootConsistent, EraseTypeOK, Phases, FlowInv, SweepInv,
            OnboardingHasNoIdentity, NoBlobUnderDeadKey, Bounds
<1>1. CASE Bootstrap
  <2>1. PICK route \in Routes :
           /\ BuildStack(route)
           /\ IF IsDoor(route) \/ accepted
              THEN phase' = route /\ UNCHANGED held
              ELSE phase' = "eula" /\ held' = route
    BY <1>1 DEF Bootstrap
  <2>2. /\ route \in {"onboarding", "ready", "identityUnreadable", "stackFailed"}
        /\ route = "onboarding" => identity = 0
        /\ IsDoor(route) <=> route \in {"identityUnreadable", "stackFailed"}
    BY DEF Routes, IsDoor
  <2>3. /\ phase \in {"launching", "identityUnreadable", "stackFailed"} /\ pc = "idle"
        /\ UNCHANGED <<accepted, identity, enclave, pc, todo, errors, made>>
    BY <1>1 DEF Bootstrap, IsDoor
  <2>4. data' \in [Stores -> 0 .. made] /\ assembled' \in BOOLEAN
    BY <2>1 DEF BuildStack
  <2> QED
    BY <2>1, <2>2, <2>3, <2>4
<1>2. CASE AcceptEULA
  BY <1>2 DEF AcceptEULA
<1>3. CASE CompleteOnboarding
  <2>1. identity = 0 /\ phase = "onboarding" /\ phase' = "launching" /\ pc = "idle"
        /\ identity' = made + 1 /\ made' = made + 1 /\ enclave' = TRUE
        /\ UNCHANGED <<held, accepted, data, assembled, pc, todo, errors>>
    BY <1>3 DEF CompleteOnboarding
  <2>2. data \in [Stores -> 0 .. made + 1]
    <3>1. 0 .. made \subseteq 0 .. made + 1
      OBVIOUS
    <3> QED
      BY <3>1
  <2> QED
    BY <2>1, <2>2
<1>4. CASE Kill
  BY <1>4 DEF Kill
<1> QED
  BY <1>1, <1>2, <1>3, <1>4

\* One step of the erase of a store, whose list is the one of its sweep.
LEMMA StoreWipeKeeps ==
    ASSUME EraseInv, NEW s \in Stores, NEW ok \in BOOLEAN, WipeStore(s, ok)
    PROVE  EraseInv'
<1> USE DEF EraseInv, BootConsistent, EraseTypeOK, Phases, FlowInv, SweepInv,
            OnboardingHasNoIdentity, NoBlobUnderDeadKey, Outside
<1>1. /\ pc \in {"sweep", "doorSweep"} /\ s \in todo /\ todo' = todo \ {s}
      /\ errors' = (errors \/ ~ok)
      /\ data' = IF ok THEN [data EXCEPT ![s] = 0] ELSE data
      /\ UNCHANGED <<phase, identity, enclave, pc, held, accepted, assembled, made>>
  BY DEF WipeStore
<1>2. data' \in [Stores -> 0 .. made] /\ \A t \in Stores : data[t] = 0 => data'[t] = 0
  BY <1>1
<1>3. ok => data'[s] = 0
  BY <1>1
<1>4. \A t \in Stores : Cleared(t) => Cleared(t)'
  BY <1>1, <1>2 DEF Cleared
<1>5. Cleared(s)'
  BY <1>1, <1>3 DEF Cleared
<1>6. SweepInv'
  BY <1>1, <1>4, <1>5
<1> QED
  BY <1>1, <1>2, <1>6

\* The other steps of the erase, and the late write that races it.
LEMMA EraseFlowKeeps ==
    ASSUME EraseInv,
           \/ EraseBegins \/ IdentityDeleted \/ IdentityDeleteFails
           \/ \E ok \in BOOLEAN : PerformEnclave(ok) \/ Teardown(ok)
           \/ SweepEnds \/ Verify \/ LateWrite
    PROVE  EraseInv'
<1> USE DEF EraseInv, BootConsistent, EraseTypeOK, Phases, FlowInv, SweepInv,
            OnboardingHasNoIdentity, NoBlobUnderDeadKey, Outside,
            Bounds, Cleared
<1>1. CASE EraseBegins
  BY <1>1 DEF EraseBegins, IsDoor
<1>2. CASE IdentityDeleted
  BY <1>2 DEF IdentityDeleted
<1>3. CASE IdentityDeleteFails
  BY <1>3 DEF IdentityDeleteFails
<1>4. ASSUME NEW ok \in BOOLEAN, PerformEnclave(ok) PROVE EraseInv'
  BY <1>4 DEF PerformEnclave
<1>5. ASSUME NEW ok \in BOOLEAN, Teardown(ok) PROVE EraseInv'
  BY <1>5 DEF Teardown
<1>6. CASE SweepEnds
  BY <1>6 DEF SweepEnds
<1>7. CASE Verify
  BY <1>7 DEF Verify
<1>8. CASE LateWrite
  BY <1>8, EraseAssumption DEF LateWrite, EraseAssumption
<1> QED
  BY <1>1, <1>2, <1>3, <1>4, <1>5, <1>6, <1>7, <1>8

LEMMA EraseStep ==
    EraseInv /\ [EraseNext]_eraseVars => EraseInv'
<1> SUFFICES ASSUME EraseInv, [EraseNext]_eraseVars PROVE EraseInv'
  OBVIOUS
<1>1. CASE EraseNext
  BY <1>1, RoutingKeeps, StoreWipeKeeps, EraseFlowKeeps DEF EraseNext, EraseSteps
<1>2. CASE UNCHANGED eraseVars
  BY <1>2 DEF eraseVars, EraseInv, BootConsistent, EraseTypeOK, FlowInv, SweepInv,
              Cleared, OnboardingHasNoIdentity, NoBlobUnderDeadKey
<1> QED
  BY <1>1, <1>2

\* bootstrap, completeOnboarding and eraseEverything, killed between any two
\* steps: onboarding is never shown, nor held behind the terms, over an identity
\* item, and no identity item outlives the Enclave key that unwraps it.
THEOREM BootIsConsistent == EraseSpec => []BootConsistent
<1>1. EraseInv => BootConsistent
  BY DEF EraseInv
<1> QED
  BY <1>1, EraseStarts, EraseStep, PTL DEF EraseSpec

\* eraseEverything of a running app: it routes to onboarding only with every
\* store empty, whichever steps failed and whatever was written meanwhile.
THEOREM EraseLeavesNothing == EraseSpec => EraseOnboardsClean
<1>1. ASSUME EraseInv, EraseNext, phase = "wiping", phase' = "onboarding", assembled
      PROVE  \A s \in Stores : data[s] = 0
  <2>1. pc # "idle"
    BY <1>1 DEF EraseInv, BootConsistent, EraseTypeOK
  <2>2. Verify
    BY <1>1 DEF EraseNext, EraseSteps, Bootstrap, AcceptEULA,
                CompleteOnboarding, EraseBegins, IsDoor, IdentityDeleted,
                IdentityDeleteFails, PerformEnclave, Teardown,
                WipeStore, SweepEnds, LateWrite, Kill
  <2>3. pc = "verify" /\ ~errors /\ data[Messages] = 0
    BY <1>1, <2>2 DEF Verify
  <2> QED
    BY <1>1, <2>3 DEF EraseInv, SweepInv, Cleared
<1>2. EraseInv /\ [EraseNext]_eraseVars =>
        [(phase = "wiping" /\ phase' = "onboarding" /\ assembled)
           => \A s \in Stores : data[s] = 0]_eraseVars
  BY <1>1
<1> QED
  BY <1>2, EraseStarts, EraseStep, PTL DEF EraseSpec, EraseOnboardsClean
=============================================================================
