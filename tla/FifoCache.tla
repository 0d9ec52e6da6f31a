------------------------------ MODULE FifoCache ------------------------------
(***************************************************************************)
(* The bounded first-in-first-out identifier cache that the program keeps  *)
(* twice: MessageRouter's SeenCache (envelope ids, loop breaking and       *)
(* de-duplication) and NostrTransport's ProcessedEventLedger (gift-wrap    *)
(* event ids, persisted across launches).  Both structs hold an ordered    *)
(* array and a Set that mirrors it; the array alone determines the value,  *)
(* so a cache is a sequence here, oldest first, and `present` its range.   *)
(***************************************************************************)
EXTENDS Naturals, Sequences

\* present.contains(id)
Contains(cache, id) == \E i \in 1..Len(cache) : cache[i] = id

\* containsOrInsert on an absent id: append, then drop the oldest when the
\* count exceeds the capacity.  On a present id the cache is unchanged: a hit
\* does not refresh its position (FIFO, not LRU).
Insert(cache, capacity, id) ==
    IF Contains(cache, id)
    THEN cache
    ELSE LET grown == Append(cache, id)
         IN  IF Len(grown) > capacity THEN Tail(grown) ELSE grown

\* No identifier occurs twice and the capacity is respected: what both structs
\* rely on for `order` and `present` to stay mirrors of one another.
WellFormed(cache, capacity) ==
    /\ Len(cache) <= capacity
    /\ \A i, j \in 1..Len(cache) : cache[i] = cache[j] => i = j
=============================================================================
