------------------------- MODULE BLEWriteLinkProofs -------------------------
(***************************************************************************)
(* Machine-checked safety of BLEWriteLink, for every number and size of    *)
(* frames, every retry limit and teardown threshold, and any faults.       *)
(***************************************************************************)
EXTENDS BLEWriteLink, SequenceTheorems, TLAPS

-----------------------------------------------------------------------------
(* The inductive invariant *)

Chunks == [frame : Frames, index : 1 .. MaxChunks]
QueueEntries == [frame : Frames, left : 1 .. MaxChunks]

\* The queue holds the latest frames in the order they were handed over, and
\* only the head has been worked on.
QueueInOrder ==
    /\ queue \in Seq(QueueEntries) /\ size \in Seq(1 .. MaxChunks)
    /\ Len(queue) <= Len(size) /\ Len(size) <= MaxFrames
    /\ \A i \in 1 .. Len(queue) :
         /\ queue[i].frame = Len(size) - Len(queue) + i
         /\ queue[i].left <= size[queue[i].frame]
         /\ i > 1 => queue[i].left = size[queue[i].frame]

\* The flags, the counters, and what they say of the link.
LinkShape ==
    /\ link \in {"none", "connecting", "ready"}
    /\ inFlight \in {"none", "sent", "taken"}
    /\ retries \in 0 .. ChunkRetryLimit
    /\ strikes \in 0 .. TeardownThreshold - 1
    /\ holdoff \in BOOLEAN /\ reported \in BOOLEAN /\ cancelled \in BOOLEAN
    /\ due \in Nat
    /\ powered \in BOOLEAN /\ peerOn \in BOOLEAN /\ alive \in BOOLEAN
    /\ refused \in BOOLEAN
    /\ torn \subseteq Frames
    /\ link # "ready" => queue = <<>> /\ ~alive
    /\ NoStall

PeerShape ==
    /\ buffer \in Seq(Chunks) /\ got \in Seq(Seq(Chunks)) /\ need \in 0 .. MaxChunks
    /\ \A i \in 1 .. Len(got) : got[i] # <<>>
    /\ ~alive => buffer = <<>>

\* Chunks of the head frame the peer has taken.
Taken == size[queue[1].frame] - queue[1].left + (IF inFlight = "taken" THEN 1 ELSE 0)

\* The chunk was taken before everything that is still to be taken.
Passed(c) ==
    /\ c.frame <= Len(size)
    /\ queue # <<>> => \/ c.frame < queue[1].frame
                       \/ c.frame = queue[1].frame /\ c.index <= Taken

Earlier(c, d) == c.frame < d.frame \/ (c.frame = d.frame /\ c.index < d.index)

\* The peer's reassembly sees first chunks in the order of the frames.
FirstsInOrder ==
    /\ \A i \in 1 .. Len(got) : Passed(got[i][1])
    /\ \A i, j \in 1 .. Len(got) : i < j => Earlier(got[i][1], got[j][1])
    /\ buffer # <<>> => /\ Passed(buffer[1])
                        /\ \A i \in 1 .. Len(got) : Earlier(got[i][1], buffer[1])

\* The buffer holds just the head frame's chunks taken so far ...
HalfBuilt ==
    /\ Len(buffer) = Taken /\ need = size[queue[1].frame]
    /\ \A i \in 1 .. Taken : buffer[i] = Chunk(queue[1].frame, i)

\* ... as long as no frame was abandoned halfway.
Aligned ==
    torn = {} =>
      /\ \A i \in 1 .. Len(got) : Whole(got[i])
      /\ alive => IF queue = <<>> THEN buffer = <<>>
                  ELSE IF Taken \in {0, size[queue[1].frame]} THEN buffer = <<>>
                  ELSE HalfBuilt

LinkInv == QueueInOrder /\ LinkShape /\ PeerShape /\ FirstsInOrder /\ Aligned

-----------------------------------------------------------------------------
(* What an enqueue, a pop and a chunk off the head do to the queue *)

LEMMA HeadFacts ==
    ASSUME QueueInOrder, queue # <<>>, BLEAssumption
    PROVE  /\ Len(queue) \in Nat \ {0} /\ Len(size) \in Nat
           /\ queue[1] \in QueueEntries
           /\ queue[1].frame \in 1 .. Len(size)
           /\ queue[1].frame = Len(size) - Len(queue) + 1
           /\ size[queue[1].frame] \in 1 .. MaxChunks
           /\ queue[1].left \in 1 .. size[queue[1].frame]
<1>1. Len(queue) \in Nat \ {0} /\ Len(size) \in Nat
  BY DEF QueueInOrder
<1>2. queue[1] \in QueueEntries /\ queue[1].frame = Len(size) - Len(queue) + 1
      /\ queue[1].left <= size[queue[1].frame]
  BY <1>1 DEF QueueInOrder
<1>3. queue[1].frame \in 1 .. Len(size)
  BY <1>1, <1>2 DEF QueueInOrder
<1>4. size[queue[1].frame] \in 1 .. MaxChunks
  BY <1>3 DEF QueueInOrder
<1> QED
  BY <1>1, <1>2, <1>3, <1>4, BLEAssumption DEF QueueEntries, BLEAssumption

\* An entry of the queue, wherever it stands.
LEMMA EntryFacts ==
    ASSUME QueueInOrder, BLEAssumption, NEW i \in 1 .. Len(queue)
    PROVE  /\ queue[i] \in QueueEntries
           /\ queue[i].frame = Len(size) - Len(queue) + i
           /\ queue[i].frame \in 1 .. Len(size)
           /\ queue[i].left \in 1 .. MaxChunks
           /\ size[queue[i].frame] \in 1 .. MaxChunks
           /\ queue[i].left <= size[queue[i].frame]
           /\ i > 1 => queue[i].left = size[queue[i].frame]
<1>1. Len(queue) \in Nat /\ Len(size) \in Nat /\ Len(queue) <= Len(size)
  BY DEF QueueInOrder
<1>2. queue[i] \in QueueEntries
  BY <1>1 DEF QueueInOrder
<1>3. /\ queue[i].frame = Len(size) - Len(queue) + i
      /\ queue[i].left <= size[queue[i].frame]
      /\ i > 1 => queue[i].left = size[queue[i].frame]
  BY DEF QueueInOrder
<1>4. queue[i].frame \in 1 .. Len(size)
  BY <1>1, <1>3
<1>5. size[queue[i].frame] \in 1 .. MaxChunks
  <2>1. size \in Seq(1 .. MaxChunks)
    BY DEF QueueInOrder
  <2> QED
    BY <1>4, <2>1, ElementOfSeq
<1>6. queue[i].left \in 1 .. MaxChunks
  BY <1>2 DEF QueueEntries
<1> QED
  BY <1>2, <1>3, <1>4, <1>5, <1>6

LEMMA Enqueued ==
    ASSUME QueueInOrder, BLEAssumption, NEW n \in 1 .. MaxChunks, WriteFrame(n)
    PROVE  /\ QueueInOrder'
           /\ Len(size') = Len(size) + 1 /\ Len(size) \in Nat
           /\ \A f \in 1 .. Len(size) : size'[f] = size[f]
           /\ queue' # <<>>
           /\ queue = <<>> => queue'[1] = [frame |-> Len(size) + 1, left |-> n]
                              /\ size'[Len(size) + 1] = n
           /\ queue # <<>> => queue'[1] = queue[1]
<1> DEFINE f == Len(size) + 1
           e == [frame |-> f, left |-> n]
<1>1. /\ size' = Append(size, n) /\ queue' = Append(queue, e) /\ f \in Frames
      /\ size \in Seq(1 .. MaxChunks) /\ queue \in Seq(QueueEntries)
      /\ e \in QueueEntries
      /\ Len(size) \in Nat /\ Len(queue) \in Nat
  BY DEF WriteFrame, QueueInOrder, QueueEntries
<1> HIDE DEF e
<1>2. /\ size' \in Seq(1 .. MaxChunks) /\ Len(size') = Len(size) + 1
      /\ \A i \in 1 .. Len(size) : size'[i] = size[i]
      /\ size'[Len(size) + 1] = n
  BY <1>1
<1>3. /\ queue' \in Seq(QueueEntries) /\ Len(queue') = Len(queue) + 1
      /\ \A i \in 1 .. Len(queue) : queue'[i] = queue[i]
      /\ queue'[Len(queue) + 1] = e
  BY <1>1
<1>4. Len(size') <= MaxFrames /\ Len(queue') <= Len(size')
  BY <1>1, <1>2, <1>3, BLEAssumption DEF Frames, QueueInOrder, BLEAssumption
<1>5. e.frame = Len(size) + 1 /\ e.left = n
  BY DEF e
<1>6. ASSUME NEW i \in 1 .. Len(queue')
      PROVE  /\ queue'[i].frame = Len(size') - Len(queue') + i
             /\ queue'[i].left <= size'[queue'[i].frame]
             /\ i > 1 => queue'[i].left = size'[queue'[i].frame]
  <2>1. CASE i \in 1 .. Len(queue)
    <3>1. /\ queue[i].frame = Len(size) - Len(queue) + i
          /\ queue[i].frame \in 1 .. Len(size)
          /\ queue[i].left <= size[queue[i].frame]
          /\ i > 1 => queue[i].left = size[queue[i].frame]
      BY <2>1, EntryFacts
    <3>2. queue'[i] = queue[i]
      BY <1>3, <2>1
    <3>3. size'[queue[i].frame] = size[queue[i].frame]
      BY <1>2, <3>1
    <3>4. Len(size') - Len(queue') + i = Len(size) - Len(queue) + i
      BY <1>1, <1>2, <1>3
    <3> QED
      BY <3>1, <3>2, <3>3, <3>4
  <2>2. CASE i = Len(queue) + 1
    BY <1>1, <1>2, <1>3, <1>5, <2>2
  <2>3. i \in 1 .. Len(queue) \/ i = Len(queue) + 1
    BY <1>1, <1>3
  <2> QED
    BY <2>1, <2>2, <2>3
<1>7. QueueInOrder'
  BY <1>2, <1>3, <1>4, <1>6 DEF QueueInOrder
<1>8. queue = <<>> => Len(queue) = 0
  OBVIOUS
<1>9. queue # <<>> => 1 \in 1 .. Len(queue)
  BY <1>1
<1> QED
  BY <1>1, <1>2, <1>3, <1>7, <1>8, <1>9, SMTT(60) DEF e

LEMMA Popped ==
    ASSUME QueueInOrder, BLEAssumption, queue # <<>>, queue' = Tail(queue),
           UNCHANGED size
    PROVE  /\ QueueInOrder'
           /\ queue' # <<>> => /\ queue'[1].frame = queue[1].frame + 1
                               /\ queue'[1].left = size[queue'[1].frame]
<1>1. /\ queue \in Seq(QueueEntries) /\ Len(queue) \in Nat \ {0}
      /\ size \in Seq(1 .. MaxChunks) /\ Len(size) \in Nat
  BY DEF QueueInOrder
<1>2. /\ queue' \in Seq(QueueEntries) /\ Len(queue') = Len(queue) - 1
      /\ \A i \in 1 .. Len(queue') : queue'[i] = queue[i + 1] /\ i + 1 \in 1 .. Len(queue)
  BY <1>1
<1>3. \A i \in 1 .. Len(queue') :
         /\ queue'[i].frame = Len(size) - Len(queue') + i
         /\ queue'[i].left <= size[queue'[i].frame]
         /\ queue'[i].left = size[queue'[i].frame]
  <2> SUFFICES ASSUME NEW i \in 1 .. Len(queue')
               PROVE  /\ queue'[i].frame = Len(size) - Len(queue') + i
                      /\ queue'[i].left <= size[queue'[i].frame]
                      /\ queue'[i].left = size[queue'[i].frame]
    OBVIOUS
  <2>1. queue'[i] = queue[i + 1] /\ i + 1 \in 1 .. Len(queue) /\ i + 1 > 1
    BY <1>1, <1>2
  <2>2. /\ queue[i + 1].frame = Len(size) - Len(queue) + (i + 1)
        /\ queue[i + 1].left <= size[queue[i + 1].frame]
        /\ queue[i + 1].left = size[queue[i + 1].frame]
    BY <2>1, EntryFacts
  <2>3. Len(size) - Len(queue') + i = Len(size) - Len(queue) + (i + 1)
    BY <1>1, <1>2
  <2> QED
    BY <2>1, <2>2, <2>3
<1>4. QueueInOrder'
  BY <1>1, <1>2, <1>3 DEF QueueInOrder
<1>5. ASSUME queue' # <<>>
      PROVE  /\ queue'[1].frame = queue[1].frame + 1
             /\ queue'[1].left = size[queue'[1].frame]
  <2>1. 1 \in 1 .. Len(queue')
    BY <1>1, <1>2, <1>5
  <2> QED
    BY <1>1, <1>2, <1>3, <2>1, SMTT(60) DEF QueueInOrder
<1> QED
  BY <1>4, <1>5

LEMMA Shortened ==
    ASSUME QueueInOrder, BLEAssumption, queue # <<>>, queue[1].left > 1,
           queue' = [queue EXCEPT ![1].left = @ - 1], UNCHANGED size
    PROVE  /\ QueueInOrder' /\ queue' # <<>>
           /\ queue'[1].frame = queue[1].frame
           /\ queue'[1].left = queue[1].left - 1
<1>1. /\ queue \in Seq(QueueEntries) /\ Len(queue) \in Nat \ {0}
      /\ size \in Seq(1 .. MaxChunks) /\ Len(size) \in Nat
      /\ Len(queue) <= Len(size) /\ Len(size) <= MaxFrames
  BY DEF QueueInOrder
<1>2. /\ queue[1] \in QueueEntries /\ queue[1].left \in 1 .. MaxChunks
      /\ queue[1].frame \in Frames
      /\ queue[1].left <= size[queue[1].frame]
      /\ queue[1].frame = Len(size) - Len(queue) + 1
      /\ size[queue[1].frame] \in 1 .. MaxChunks
  BY HeadFacts, BLEAssumption DEF QueueEntries, BLEAssumption
<1>3. PICK e \in QueueEntries : e = [queue[1] EXCEPT !.left = @ - 1]
                            /\ e.frame = queue[1].frame
                            /\ e.left = queue[1].left - 1
  <2>1. [queue[1] EXCEPT !.left = @ - 1] =
          [frame |-> queue[1].frame, left |-> queue[1].left - 1]
    BY <1>2 DEF QueueEntries
  <2>2. queue[1].left - 1 \in 1 .. MaxChunks
    BY <1>2, BLEAssumption DEF BLEAssumption
  <2> QED
    BY <1>2, <2>1, <2>2 DEF QueueEntries
<1>4. queue' = [queue EXCEPT ![1] = e]
  BY <1>3
<1>5. /\ queue' \in Seq(QueueEntries) /\ Len(queue') = Len(queue)
      /\ queue'[1] = e
      /\ \A i \in 1 .. Len(queue) : i > 1 => queue'[i] = queue[i]
  <2>1. 1 \in 1 .. Len(queue)
    BY <1>1
  <2>2. /\ queue' \in Seq(QueueEntries) /\ Len(queue') = Len(queue)
        /\ \A i \in 1 .. Len(queue) : queue'[i] = IF i = 1 THEN e ELSE queue[i]
    BY <1>1, <1>4, <2>1, ExceptSeq, SMTT(60)
  <2> QED
    BY <1>1, <2>1, <2>2
<1>6. \A i \in 1 .. Len(queue') :
         /\ queue'[i].frame = Len(size) - Len(queue') + i
         /\ queue'[i].left <= size[queue'[i].frame]
         /\ i > 1 => queue'[i].left = size[queue'[i].frame]
  <2> SUFFICES ASSUME NEW i \in 1 .. Len(queue')
               PROVE  /\ queue'[i].frame = Len(size) - Len(queue') + i
                      /\ queue'[i].left <= size[queue'[i].frame]
                      /\ i > 1 => queue'[i].left = size[queue'[i].frame]
    OBVIOUS
  <2>1. CASE i = 1
    <3>1. queue'[i] = e /\ ~(i > 1) /\ Len(queue') = Len(queue)
      BY <1>5, <2>1
    <3>2. e.left <= size[e.frame]
      BY <1>1, <1>2, <1>3, SMTT(60)
    <3> QED
      BY <1>1, <1>2, <1>3, <3>1, <3>2, <2>1
  <2>2. CASE i > 1
    <3>1. queue'[i] = queue[i] /\ i \in 1 .. Len(queue) /\ Len(queue') = Len(queue)
      BY <1>1, <1>5, <2>2
    <3>2. /\ queue[i].frame = Len(size) - Len(queue) + i
          /\ queue[i].left <= size[queue[i].frame]
          /\ i > 1 => queue[i].left = size[queue[i].frame]
      BY <3>1, EntryFacts
    <3> QED
      BY <3>1, <3>2
  <2> QED
    BY <1>1, <1>5, <2>1, <2>2
<1>7. queue' # <<>>
  BY <1>1, <1>5
<1> QED
  BY <1>1, <1>3, <1>5, <1>6, <1>7 DEF QueueInOrder

-----------------------------------------------------------------------------
(* Init and the steps that empty the queue or leave it alone *)

LEMMA InitLinkInv ==
    ASSUME BLEAssumption, Init PROVE LinkInv
<1>1. /\ queue = <<>> /\ size = <<>> /\ buffer = <<>> /\ got = <<>>
      /\ Len(queue) = 0 /\ Len(size) = 0 /\ Len(got) = 0
  BY DEF Init
<1>2. QueueInOrder
  BY <1>1, BLEAssumption DEF QueueInOrder, BLEAssumption
<1>3. LinkShape
  <2>1. 0 \in 0 .. TeardownThreshold - 1 /\ ChunkRetryLimit \in 0 .. ChunkRetryLimit
    BY BLEAssumption DEF BLEAssumption
  <2>2. 0 \in Nat /\ {} \subseteq Frames
    OBVIOUS
  <2> QED
    BY <2>1, <2>2, Zenon DEF Init, LinkShape, NoStall
<1>4. PeerShape
  BY <1>1, BLEAssumption DEF Init, PeerShape, BLEAssumption
<1>5. FirstsInOrder
  BY <1>1 DEF FirstsInOrder
<1>6. Aligned
  BY <1>1 DEF Aligned, Init
<1> QED
  BY <1>2, <1>3, <1>4, <1>5, <1>6 DEF LinkInv

\* The link goes, and the peer's half-built frame with it.
LEMMA Cleared ==
    ASSUME LinkInv, BLEAssumption, ClearLink, alive' = FALSE, buffer' = <<>>,
           need' \in 0 .. MaxChunks, UNCHANGED <<got, size, torn>>
    PROVE  QueueInOrder' /\ PeerShape' /\ FirstsInOrder' /\ Aligned'
<1>1. queue' = <<>> /\ Len(queue') = 0
  BY DEF ClearLink
<1>2. QueueInOrder'
  BY <1>1 DEF LinkInv, QueueInOrder
<1>3. PeerShape'
  BY DEF LinkInv, PeerShape
<1>4. FirstsInOrder'
  BY <1>1 DEF LinkInv, FirstsInOrder, Passed, Earlier
<1>5. Aligned'
  BY DEF LinkInv, Aligned, Whole
<1> QED
  BY <1>2, <1>3, <1>4, <1>5

\* A step on the scan, the connection or the radios; at most the connection is
\* made (there is no queue then) or lost (with the peer's buffer).
LEMMA Unmoved ==
    ASSUME LinkInv, BLEAssumption,
           UNCHANGED <<queue, inFlight, size, torn, got>>,
           \/ UNCHANGED <<buffer, need, alive>>
           \/ UNCHANGED <<buffer, need>> /\ queue = <<>> /\ buffer = <<>>
           \/ buffer' = <<>> /\ need' = 0 /\ alive' = FALSE
    PROVE  QueueInOrder' /\ PeerShape' /\ FirstsInOrder' /\ Aligned'
<1>1. QueueInOrder'
  BY DEF LinkInv, QueueInOrder
<1>2. PeerShape'
  <2>1. 0 \in 0 .. MaxChunks /\ <<>> \in Seq(Chunks)
    BY BLEAssumption DEF BLEAssumption
  <2>2. buffer' \in Seq(Chunks) /\ need' \in 0 .. MaxChunks
    BY <2>1 DEF LinkInv, PeerShape
  <2>3. ~alive' => buffer' = <<>>
    BY DEF LinkInv, PeerShape
  <2> QED
    BY <2>2, <2>3 DEF LinkInv, PeerShape
<1>3. FirstsInOrder'
  BY DEF LinkInv, FirstsInOrder, Passed, Earlier, Taken
<1>4. Aligned'
  BY DEF LinkInv, Aligned, Whole, HalfBuilt, Taken
<1> QED
  BY <1>1, <1>2, <1>3, <1>4

-----------------------------------------------------------------------------
(* The write engine *)

\* What the peer has taken stays behind what is still to come.
LEMMA FirstsStay ==
    ASSUME LinkInv, UNCHANGED <<got, buffer>>,
           \A c \in Chunks : Passed(c) => Passed(c)'
    PROVE  FirstsInOrder'
<1>1. \A i \in 1 .. Len(got) : got[i][1] \in Chunks
  BY DEF LinkInv, PeerShape
<1>2. buffer # <<>> => buffer[1] \in Chunks
  BY DEF LinkInv, PeerShape
<1> QED
  BY <1>1, <1>2 DEF LinkInv, FirstsInOrder, Earlier

\* A dispatched frame starts with a chunk of a frame that was handed over.
LEMMA FirstsHandedOver ==
    ASSUME LinkInv, NEW i \in 1 .. Len(got)
    PROVE  /\ got[i] \in Seq(Chunks) /\ got[i] # <<>>
           /\ got[i][1] \in Chunks /\ got[i][1].frame \in 1 .. Len(size)
<1>1. got[i] \in Seq(Chunks) /\ got[i] # <<>>
  BY DEF LinkInv, PeerShape
<1>2. got[i][1] \in Chunks
  BY <1>1
<1>3. got[i][1].frame <= Len(size)
  BY DEF LinkInv, FirstsInOrder, Passed
<1>4. Len(size) \in Nat
  BY DEF LinkInv, QueueInOrder
<1> QED
  BY <1>1, <1>2, <1>3, <1>4 DEF Chunks, Frames

LEMMA WriteFrameStep ==
    ASSUME LinkInv, BLEAssumption, NEW n \in 1 .. MaxChunks, WriteFrame(n)
    PROVE  LinkInv'
<1>0. /\ QueueInOrder' /\ Len(size') = Len(size) + 1 /\ Len(size) \in Nat
      /\ \A f \in 1 .. Len(size) : size'[f] = size[f]
      /\ queue' # <<>>
      /\ queue = <<>> => queue'[1] = [frame |-> Len(size) + 1, left |-> n]
                         /\ size'[Len(size) + 1] = n
      /\ queue # <<>> => queue'[1] = queue[1]
  BY Enqueued DEF LinkInv
<1>1. /\ UNCHANGED <<alive, buffer, need, got, torn>>
      /\ queue = <<>> => inFlight' = "sent"
      /\ queue # <<>> => inFlight' = inFlight
  BY <1>0 DEF WriteFrame, Pump, LinkInv, LinkShape, NoStall, worldVars, peerVars
<1>2. LinkShape'
  BY <1>0, <1>1 DEF LinkInv, LinkShape, NoStall, WriteFrame, scanVars, worldVars
<1>3. PeerShape'
  BY <1>1 DEF LinkInv, PeerShape
<1>4. queue # <<>> => /\ queue[1].frame \in 1 .. Len(size)
                      /\ size'[queue'[1].frame] = size[queue[1].frame]
                      /\ Taken' = Taken
  <2> SUFFICES ASSUME queue # <<>>
               PROVE  /\ queue[1].frame \in 1 .. Len(size)
                      /\ size'[queue'[1].frame] = size[queue[1].frame]
                      /\ Taken' = Taken
    OBVIOUS
  <2>1. queue[1].frame \in 1 .. Len(size)
    BY HeadFacts DEF LinkInv
  <2>2. size'[queue'[1].frame] = size[queue[1].frame]
    BY <1>0, <2>1
  <2> QED
    BY <1>0, <1>1, <2>1, <2>2 DEF Taken
<1>5. queue = <<>> => Taken' = 0
  BY <1>0, <1>1 DEF Taken
<1>6. FirstsInOrder'
  <2> SUFFICES ASSUME NEW c \in Chunks, Passed(c)
               PROVE  Passed(c)'
    BY <1>1, FirstsStay
  <2>1. c.frame \in Nat /\ c.frame <= Len(size) /\ c.frame <= Len(size')
    BY <1>0 DEF Passed, Chunks, Frames
  <2>2. CASE queue = <<>>
    BY <1>0, <2>1, <2>2 DEF Passed
  <2>3. CASE queue # <<>>
    BY <1>0, <1>4, <2>1, <2>3 DEF Passed
  <2> QED
    BY <2>2, <2>3
<1>7. Aligned'
  <2> SUFFICES ASSUME torn = {}
               PROVE  /\ \A i \in 1 .. Len(got) : Whole(got[i])'
                      /\ alive => IF Taken' \in {0, size'[queue'[1].frame]}
                                  THEN buffer = <<>> ELSE HalfBuilt'
    BY <1>0, <1>1 DEF Aligned
  <2>1. ASSUME NEW i \in 1 .. Len(got) PROVE Whole(got[i])'
    <3>1. size'[got[i][1].frame] = size[got[i][1].frame]
      BY <1>0, FirstsHandedOver
    <3> QED
      BY <1>1, <3>1 DEF LinkInv, Aligned, Whole
  <2>2. CASE queue = <<>>
    BY <1>5, <2>1, <2>2 DEF LinkInv, Aligned
  <2>3. CASE queue # <<>>
    <3>1. HalfBuilt => HalfBuilt'
      BY <1>0, <1>1, <1>4, <2>3 DEF HalfBuilt, Chunk
    <3> QED
      BY <1>0, <1>4, <2>1, <2>3, <3>1 DEF LinkInv, Aligned
  <2> QED
    BY <2>2, <2>3
<1> QED
  BY <1>0, <1>2, <1>3, <1>6, <1>7 DEF LinkInv

\* A frame leaves the queue acked or failed: whole as far as the peer is
\* concerned, or torn.
LEMMA PopStep ==
    ASSUME LinkInv, BLEAssumption, queue # <<>>, queue' = Tail(queue), Pump(queue'),
           UNCHANGED <<size, alive, buffer, need, got>>,
           torn' = {} => torn = {} /\ Taken \in {0, size[queue[1].frame]}
    PROVE  QueueInOrder' /\ PeerShape' /\ FirstsInOrder' /\ Aligned'
<1>1. /\ QueueInOrder'
      /\ queue' # <<>> => /\ queue'[1].frame = queue[1].frame + 1
                          /\ queue'[1].left = size[queue'[1].frame]
  BY Popped DEF LinkInv
<1>2. /\ queue[1].frame \in 1 .. Len(size) /\ Len(size) \in Nat
  BY HeadFacts DEF LinkInv
<1>3. PeerShape'
  BY DEF LinkInv, PeerShape
<1>4. FirstsInOrder'
  <2> SUFFICES ASSUME NEW c \in Chunks, Passed(c)
               PROVE  Passed(c)'
    BY FirstsStay
  <2>1. c.frame \in Nat /\ c.frame <= Len(size) /\ c.frame <= queue[1].frame
    BY <1>2 DEF Passed, Chunks, Frames
  <2> QED
    BY <1>1, <1>2, <2>1 DEF Passed
<1>5. queue' # <<>> => Taken' = 0
  <2> SUFFICES ASSUME queue' # <<>> PROVE Taken' = 0
    OBVIOUS
  <2>0. Len(queue') \in Nat \ {0} /\ 1 \in 1 .. Len(queue')
    BY <1>1 DEF QueueInOrder
  <2>1. queue'[1].frame = Len(size') - Len(queue') + 1 /\ Len(queue') <= Len(size')
    BY <1>1, <2>0 DEF QueueInOrder
  <2>2. queue'[1].frame \in 1 .. Len(size)
    BY <1>2, <2>0, <2>1
  <2>3. size[queue'[1].frame] \in 1 .. MaxChunks
    <3>1. size \in Seq(1 .. MaxChunks)
      BY DEF LinkInv, QueueInOrder
    <3> QED
      BY <2>2, <3>1, ElementOfSeq
  <2> QED
    BY <1>1, <2>3 DEF Taken, Pump
<1>6. Aligned'
  <2> SUFFICES ASSUME torn' = {}
               PROVE  /\ \A i \in 1 .. Len(got) : Whole(got[i])'
                      /\ alive => buffer = <<>>
    BY <1>5 DEF Aligned
  <2>1. torn = {} /\ Taken \in {0, size[queue[1].frame]}
    OBVIOUS
  <2> QED
    BY <2>1 DEF LinkInv, Aligned, Whole
<1> QED
  BY <1>1, <1>3, <1>4, <1>6

LEMMA WriteAckedStep ==
    ASSUME LinkInv, BLEAssumption, WriteAcked PROVE LinkInv'
<1>1. /\ inFlight = "taken" /\ queue # <<>> /\ link = "ready"
      /\ UNCHANGED <<size, alive, buffer, need, got, torn>>
  BY DEF WriteAcked, LinkInv, LinkShape, NoStall, worldVars, peerVars
<1>2. LinkShape'
  <2>1. retries' \in 0 .. ChunkRetryLimit /\ strikes' \in 0 .. TeardownThreshold - 1
    BY BLEAssumption DEF WriteAcked, BLEAssumption
  <2> QED
    BY <1>1, <2>1 DEF WriteAcked, Advance, Pump, LinkInv, LinkShape, NoStall,
       scanVars, worldVars
<1>3. /\ size[queue[1].frame] \in 1 .. MaxChunks
      /\ queue[1].left \in 1 .. size[queue[1].frame]
  BY <1>1, HeadFacts DEF LinkInv
<1>4. CASE queue[1].left > 1
  <2>1. queue' = [queue EXCEPT ![1].left = @ - 1] /\ Pump(queue')
    BY <1>4 DEF WriteAcked, Advance
  <2>2. /\ QueueInOrder' /\ queue' # <<>> /\ queue'[1].frame = queue[1].frame
        /\ queue'[1].left = queue[1].left - 1
    BY <1>1, <1>4, <2>1, Shortened DEF LinkInv
  <2>3. Taken' = Taken
    BY <1>1, <1>3, <2>1, <2>2, BLEAssumption DEF Taken, Pump, BLEAssumption
  <2>4. PeerShape'
    BY <1>1 DEF LinkInv, PeerShape
  <2>5. FirstsInOrder'
    BY <1>1, <2>2, <2>3, FirstsStay DEF Passed
  <2>6. Aligned'
    BY <1>1, <2>2, <2>3 DEF LinkInv, Aligned, Whole, HalfBuilt, Chunk
  <2> QED
    BY <1>2, <2>2, <2>4, <2>5, <2>6 DEF LinkInv
<1>5. CASE ~(queue[1].left > 1)
  <2>1. queue' = Tail(queue) /\ Pump(queue')
    BY <1>5 DEF WriteAcked, Advance
  <2>2. Taken = size[queue[1].frame]
    BY <1>1, <1>3, <1>5, BLEAssumption DEF Taken, BLEAssumption
  <2> QED
    BY <1>1, <1>2, <2>1, <2>2, PopStep DEF LinkInv
<1> QED
  BY <1>4, <1>5

LEMMA TeardownStep ==
    ASSUME LinkInv, BLEAssumption, Teardown PROVE LinkInv'
<1>1. /\ ClearLink /\ alive' = FALSE /\ buffer' = <<>> /\ need' = 0
      /\ UNCHANGED <<got, size, torn>>
  BY DEF Teardown, PeerForgets
<1>2. need' \in 0 .. MaxChunks /\ retries' \in 0 .. ChunkRetryLimit
      /\ strikes' \in 0 .. TeardownThreshold - 1
  BY <1>1, BLEAssumption DEF ClearLink, BLEAssumption
<1>3. due' \in Nat
  BY DEF Teardown, LinkInv, LinkShape
<1>4. LinkShape'
  BY <1>1, <1>2, <1>3, Zenon DEF Teardown, ClearLink, LinkInv, LinkShape, NoStall
<1> QED
  BY <1>1, <1>2, <1>4, Cleared DEF LinkInv

LEMMA FrameFailsStep ==
    ASSUME LinkInv, BLEAssumption, FrameFails PROVE LinkInv'
<1>1. CASE ~(strikes + 1 < TeardownThreshold)
  BY <1>1, TeardownStep DEF FrameFails
<1>2. CASE strikes + 1 < TeardownThreshold
  <2>1. /\ inFlight = "sent" /\ queue # <<>> /\ link = "ready"
        /\ queue' = Tail(queue) /\ Pump(queue')
        /\ UNCHANGED <<size, alive, buffer, need, got>>
    BY <1>2 DEF FrameFails, LinkInv, LinkShape, NoStall, worldVars, peerVars
  <2>2. /\ size[queue[1].frame] \in 1 .. MaxChunks
        /\ queue[1].left \in 1 .. size[queue[1].frame]
        /\ queue[1].frame \in Frames
    BY <2>1, HeadFacts DEF LinkInv, QueueEntries
  <2>3. torn' = IF queue[1].left < size[queue[1].frame]
                THEN torn \cup {queue[1].frame} ELSE torn
    BY <1>2 DEF FrameFails
  <2>4. torn' = {} => torn = {} /\ Taken \in {0, size[queue[1].frame]}
    <3>1. CASE queue[1].left < size[queue[1].frame]
      BY <2>3, <3>1
    <3>2. CASE ~(queue[1].left < size[queue[1].frame])
      <4>1. queue[1].left = size[queue[1].frame]
        BY <2>2, <3>2, BLEAssumption DEF BLEAssumption
      <4>2. Taken = 0
        BY <2>1, <2>2, <4>1, BLEAssumption DEF Taken, BLEAssumption
      <4> QED
        BY <2>3, <3>2, <4>2
    <3> QED
      BY <3>1, <3>2
  <2>5. retries' \in 0 .. ChunkRetryLimit /\ strikes' \in 0 .. TeardownThreshold - 1
    BY <1>2, BLEAssumption DEF FrameFails, LinkInv, LinkShape, BLEAssumption
  <2>6. torn' \subseteq Frames
    BY <2>2, <2>3 DEF LinkInv, LinkShape
  <2>7. LinkShape'
    BY <1>2, <2>1, <2>5, <2>6 DEF FrameFails, Pump, LinkInv, LinkShape, NoStall,
       scanVars, worldVars
  <2> QED
    BY <2>1, <2>4, <2>7, PopStep DEF LinkInv
<1> QED
  BY <1>1, <1>2

-----------------------------------------------------------------------------
(* The peer *)

\* The chunk in flight comes after everything the peer has taken.
LEMMA HeadChunkFacts ==
    ASSUME LinkInv, BLEAssumption, queue # <<>>, inFlight = "sent"
    PROVE  /\ Taken \in 0 .. size[queue[1].frame] - 1
           /\ HeadChunk = Chunk(queue[1].frame, Taken + 1)
           /\ HeadChunk \in Chunks
           /\ HeadChunk.frame = queue[1].frame /\ HeadChunk.index = Taken + 1
           /\ \A c \in Chunks : Passed(c) => Earlier(c, HeadChunk)
<1>1. /\ queue[1] \in QueueEntries
      /\ queue[1].frame \in 1 .. Len(size)
      /\ size[queue[1].frame] \in 1 .. MaxChunks
      /\ queue[1].left \in 1 .. size[queue[1].frame]
  BY HeadFacts DEF LinkInv
<1>2. Taken = size[queue[1].frame] - queue[1].left
  BY <1>1, BLEAssumption DEF Taken, BLEAssumption
<1>3. /\ Taken \in 0 .. size[queue[1].frame] - 1 /\ Taken + 1 \in 1 .. MaxChunks
  BY <1>1, <1>2, BLEAssumption DEF BLEAssumption
<1>4. HeadChunk = Chunk(queue[1].frame, Taken + 1)
  BY <1>2 DEF HeadChunk
<1>5. /\ HeadChunk \in Chunks
      /\ HeadChunk.frame = queue[1].frame /\ HeadChunk.index = Taken + 1
  BY <1>1, <1>3, <1>4 DEF Chunk, Chunks, QueueEntries
<1>6. ASSUME NEW c \in Chunks, Passed(c) PROVE Earlier(c, HeadChunk)
  <2>1. c.index \in Nat /\ Taken \in Nat
    BY <1>3 DEF Chunks
  <2> QED
    BY <1>5, <1>6, <2>1 DEF Passed, Earlier
<1> QED
  BY <1>3, <1>4, <1>5, <1>6

LEMMA PeerTakesStep ==
    ASSUME LinkInv, BLEAssumption, PeerTakes PROVE LinkInv'
<1> DEFINE bytes == Append(buffer, HeadChunk)
           first == bytes[1]
<1>1. /\ inFlight = "sent" /\ inFlight' = "taken" /\ alive /\ alive'
      /\ queue # <<>>
      /\ UNCHANGED <<queue, size, torn, link>>
  BY DEF PeerTakes, LinkInv, LinkShape, NoStall, worldVars
<1>2. /\ Taken \in 0 .. size[queue[1].frame] - 1
      /\ HeadChunk = Chunk(queue[1].frame, Taken + 1)
      /\ HeadChunk \in Chunks
      /\ HeadChunk.frame = queue[1].frame /\ HeadChunk.index = Taken + 1
      /\ \A c \in Chunks : Passed(c) => Earlier(c, HeadChunk)
  BY <1>1, HeadChunkFacts
<1>3. /\ queue[1].frame \in 1 .. Len(size) /\ Len(size) \in Nat
      /\ size[queue[1].frame] \in 1 .. MaxChunks
      /\ queue[1].left \in 1 .. size[queue[1].frame]
  BY <1>1, HeadFacts DEF LinkInv
<1>4. Taken' = Taken + 1 /\ Taken \in Nat /\ MaxChunks \in Nat
  BY <1>1, <1>2, <1>3, BLEAssumption DEF Taken, BLEAssumption
<1>5. PICK n \in IF buffer = <<>> THEN Declared(HeadChunk) ELSE {need} :
        Ingest(HeadChunk, n)
  BY DEF PeerTakes
<1>6. n \in 0 .. MaxChunks
  <2>1. need \in 0 .. MaxChunks
    BY DEF LinkInv, PeerShape
  <2>2. size[HeadChunk.frame] \in 0 .. MaxChunks
    BY <1>2, <1>3, <1>4
  <2> QED
    BY <1>5, <2>1, <2>2 DEF Declared
<1>7. /\ buffer \in Seq(Chunks) /\ Len(buffer) \in Nat
      /\ got \in Seq(Seq(Chunks)) /\ Len(got) \in Nat
      /\ \A i \in 1 .. Len(got) : got[i] # <<>>
  BY DEF LinkInv, PeerShape
<1>8. /\ bytes \in Seq(Chunks) /\ Len(bytes) = Len(buffer) + 1
      /\ \A i \in 1 .. Len(buffer) : bytes[i] = buffer[i]
      /\ bytes[Len(buffer) + 1] = HeadChunk
  BY <1>2, <1>7
<1> HIDE DEF bytes
<1>9. bytes # <<>> /\ first \in Chunks
  BY <1>7, <1>8
<1>10. /\ buffer = <<>> => first = HeadChunk
       /\ buffer # <<>> => first = buffer[1]
  BY <1>7, <1>8
<1>11. \/ n = 0 /\ buffer' = <<>> /\ need' = 0 /\ got' = got
       \/ n # 0 /\ Len(bytes) >= n /\ buffer' = <<>> /\ need' = 0 /\ got' = Append(got, bytes)
       \/ n # 0 /\ ~(Len(bytes) >= n) /\ buffer' = bytes /\ need' = n /\ got' = got
  BY <1>5 DEF Ingest, bytes
<1> HIDE DEF first
<1>12. QueueInOrder'
  BY <1>1 DEF LinkInv, QueueInOrder
<1>13. LinkShape'
  BY <1>1 DEF PeerTakes, LinkInv, LinkShape, NoStall, scanVars, worldVars
<1>14. PeerShape'
  <2>1. 0 \in 0 .. MaxChunks /\ <<>> \in Seq(Chunks)
    BY <1>4
  <2>2. buffer' \in Seq(Chunks) /\ need' \in 0 .. MaxChunks
    BY <1>6, <1>8, <1>11, <2>1
  <2>3. got' = got \/ got' = Append(got, bytes)
    BY <1>11
  <2>4. got' \in Seq(Seq(Chunks)) /\ \A i \in 1 .. Len(got') : got'[i] # <<>>
    <3>1. CASE got' = got
      BY <1>7, <3>1
    <3>2. CASE got' = Append(got, bytes)
      BY <1>7, <1>8, <1>9, <3>2
    <3> QED
      BY <2>3, <3>1, <3>2
  <2> QED
    BY <1>1, <2>2, <2>4 DEF PeerShape
<1>15. \A c \in Chunks : Passed(c) => Passed(c)'
  <2> SUFFICES ASSUME NEW c \in Chunks, Passed(c) PROVE Passed(c)'
    OBVIOUS
  <2>1. c.index \in Nat /\ c.frame \in Nat
    BY DEF Chunks, Frames
  <2> QED
    BY <1>1, <1>4, <2>1 DEF Passed
<1>16. ASSUME NEW i \in 1 .. Len(got)
       PROVE  got[i][1] \in Chunks /\ Passed(got[i][1]) /\ Earlier(got[i][1], first)
  <2>1. got[i][1] \in Chunks /\ Passed(got[i][1])
    BY FirstsHandedOver DEF LinkInv, FirstsInOrder
  <2>2. CASE buffer = <<>>
    BY <1>2, <1>10, <2>1, <2>2
  <2>3. CASE buffer # <<>>
    BY <1>10, <2>1, <2>3 DEF LinkInv, FirstsInOrder
  <2> QED
    BY <2>1, <2>2, <2>3
<1>17. PICK d \in Chunks : d = first
  BY <1>9
<1>18. Passed(d)'
  <2>1. CASE buffer = <<>>
    BY <1>1, <1>2, <1>3, <1>4, <1>10, <1>17, <2>1 DEF Passed
  <2>2. CASE buffer # <<>>
    BY <1>10, <1>15, <1>17, <2>2 DEF LinkInv, FirstsInOrder
  <2> QED
    BY <2>1, <2>2
<1>19. FirstsInOrder'
  <2>1. CASE buffer' = <<>> /\ got' = got
    BY <1>15, <1>16, <2>1 DEF LinkInv, FirstsInOrder, Earlier
  <2>2. CASE buffer' = bytes /\ got' = got
    <3>1. buffer'[1] = d
      BY <1>17, <2>2 DEF first
    <3>2. \A i \in 1 .. Len(got') :
            \E c \in Chunks : c = got'[i][1] /\ Passed(c)' /\ Earlier(c, d)
      BY <1>15, <1>16, <1>17, <2>2
    <3> QED
      BY <1>18, <2>2, <3>1, <3>2 DEF LinkInv, FirstsInOrder, Earlier, Passed
  <2>3. CASE buffer' = <<>> /\ got' = Append(got, bytes)
    <3>1. /\ Len(got') = Len(got) + 1 /\ got'[Len(got) + 1] = bytes
          /\ \A i \in 1 .. Len(got) : got'[i] = got[i]
      BY <1>7, <1>8, <2>3
    <3>2. got'[Len(got) + 1][1] = d
      BY <1>17, <3>1 DEF first
    <3>3. \A i \in 1 .. Len(got) :
            \E c \in Chunks : c = got'[i][1] /\ Passed(c)' /\ Earlier(c, d)
      <4> SUFFICES ASSUME NEW i \in 1 .. Len(got)
                   PROVE  \E c \in Chunks : c = got'[i][1] /\ Passed(c)' /\ Earlier(c, d)
        OBVIOUS
      <4>1. got'[i][1] = got[i][1]
        BY <3>1
      <4>2. PICK c \in Chunks : c = got[i][1]
        BY <1>16
      <4>3. Passed(c) /\ Earlier(c, d)
        BY <1>16, <1>17, <4>2
      <4>4. Passed(c)'
        BY <1>15, <4>3
      <4> QED
        BY <4>1, <4>2, <4>3, <4>4
    <3>4. \A i \in 1 .. Len(got') : i \in 1 .. Len(got) \/ i = Len(got) + 1
      BY <1>7, <3>1
    <3>5. \A i \in 1 .. Len(got') : \E c \in Chunks : c = got'[i][1] /\ Passed(c)'
      BY <1>18, <3>2, <3>3, <3>4
    <3>6. ASSUME NEW i \in 1 .. Len(got'), NEW j \in 1 .. Len(got'), i < j
          PROVE  Earlier(got'[i][1], got'[j][1])
      <4>1. i \in 1 .. Len(got)
        BY <1>7, <3>1, <3>6
      <4>2. CASE j = Len(got) + 1
        BY <3>2, <3>3, <4>1, <4>2
      <4>3. CASE j \in 1 .. Len(got)
        <5>1. Earlier(got[i][1], got[j][1])
          BY <3>6, <4>1, <4>3 DEF LinkInv, FirstsInOrder
        <5> QED
          BY <3>1, <4>1, <4>3, <5>1
      <4> QED
        BY <3>4, <4>2, <4>3
    <3> QED
      BY <2>3, <3>5, <3>6 DEF FirstsInOrder, Earlier, Passed
  <2> QED
    BY <1>11, <2>1, <2>2, <2>3
<1>20. Aligned'
  <2> SUFFICES ASSUME torn = {}
               PROVE  /\ \A i \in 1 .. Len(got') :
                           \E b \in Seq(Chunks) : b = got'[i] /\ Whole(b)'
                      /\ IF Taken' \in {0, size[queue[1].frame]}
                         THEN buffer' = <<>> ELSE HalfBuilt'
    <3>1. ASSUME NEW i \in 1 .. Len(got'),
                 \E b \in Seq(Chunks) : b = got'[i] /\ Whole(b)'
          PROVE  (Len(got[i]) = size[got[i][1].frame]
                  /\ \A k \in DOMAIN got[i] : got[i][k] = Chunk(got[i][1].frame, k))'
      BY <3>1 DEF Whole
    <3> QED
      BY <1>1, <3>1 DEF Aligned, Whole
  <2>1. \A i \in 1 .. Len(got) : \E b \in Seq(Chunks) : b = got[i] /\ Whole(b)'
    <3> SUFFICES ASSUME NEW i \in 1 .. Len(got)
                 PROVE  \E b \in Seq(Chunks) : b = got[i] /\ Whole(b)'
      OBVIOUS
    <3>1. PICK b \in Seq(Chunks) : b = got[i]
      BY <1>7
    <3>2. Whole(b)
      BY <3>1 DEF LinkInv, Aligned
    <3>3. Whole(b)'
      BY <1>1, <3>2 DEF Whole, Chunk
    <3> QED
      BY <3>1, <3>3
  <2>2. /\ Len(buffer) = Taken /\ n = size[queue[1].frame]
        /\ \A i \in 1 .. Taken : buffer[i] = Chunk(queue[1].frame, i)
    <3>1. CASE Taken = 0
      <4>1. buffer = <<>>
        BY <1>1, <3>1 DEF LinkInv, Aligned
      <4>2. n = size[queue[1].frame]
        BY <1>2, <1>5, <3>1, <4>1 DEF Declared
      <4> QED
        BY <3>1, <4>1, <4>2
    <3>2. CASE Taken # 0
      <4>1. HalfBuilt
        BY <1>1, <1>2, <1>3, <1>4, <3>2 DEF LinkInv, Aligned
      <4>2. buffer # <<>>
        BY <1>7, <3>2, <4>1 DEF HalfBuilt
      <4> QED
        BY <1>5, <4>1, <4>2 DEF HalfBuilt
    <3> QED
      BY <3>1, <3>2
  <2>3. /\ Len(bytes) = Taken' 
        /\ \A i \in 1 .. Taken' : bytes[i] = Chunk(queue[1].frame, i)
    <3>1. Len(bytes) = Taken'
      BY <1>4, <1>8, <2>2
    <3>2. ASSUME NEW i \in 1 .. Taken' PROVE bytes[i] = Chunk(queue[1].frame, i)
      <4>1. i \in 1 .. Taken \/ i = Taken + 1
        BY <1>4
      <4> QED
        BY <1>2, <1>8, <2>2, <4>1
    <3> QED
      BY <3>1, <3>2
  <2>4. n # 0 /\ Taken' \in 1 .. n
    BY <1>2, <1>3, <1>4, <2>2
  <2>5. CASE Len(bytes) >= n
    <3>1. Taken' = n /\ buffer' = <<>> /\ got' = Append(got, bytes)
      BY <1>6, <1>11, <2>3, <2>4, <2>5
    <3>2. /\ bytes[1] = Chunk(queue[1].frame, 1) /\ bytes[1].frame = queue[1].frame
      BY <2>3, <2>4, <3>1 DEF Chunk
    <3>3. DOMAIN bytes = 1 .. n
      BY <1>8, <2>3, <3>1
    <3>4. /\ Len(bytes) = size'[bytes[1].frame]
          /\ \A i \in DOMAIN bytes : bytes[i] = Chunk(bytes[1].frame, i)
      BY <1>1, <2>2, <2>3, <3>1, <3>2, <3>3
    <3>5. PICK b \in Seq(Chunks) : b = bytes
      BY <1>8
    <3>6. Whole(b)'
      BY <3>4, <3>5 DEF Whole, Chunk
    <3>7. /\ Len(got') = Len(got) + 1 /\ got'[Len(got) + 1] = b
          /\ \A i \in 1 .. Len(got) : got'[i] = got[i]
      BY <1>7, <1>8, <3>1, <3>5
    <3>8. \A i \in 1 .. Len(got') : i \in 1 .. Len(got) \/ i = Len(got) + 1
      BY <1>7, <3>7
    <3>9. \A i \in 1 .. Len(got') : \E x \in Seq(Chunks) : x = got'[i] /\ Whole(x)'
      BY <2>1, <3>6, <3>7, <3>8
    <3> QED
      BY <2>2, <3>1, <3>9
  <2>6. CASE ~(Len(bytes) >= n)
    <3>1. Taken' # n /\ Taken' # 0 /\ buffer' = bytes /\ need' = n /\ got' = got
      BY <1>6, <1>11, <2>3, <2>4, <2>6
    <3>2. HalfBuilt'
      BY <1>1, <2>2, <2>3, <3>1 DEF HalfBuilt, Chunk
    <3> QED
      BY <2>1, <2>2, <3>1, <3>2
  <2> QED
    BY <2>5, <2>6
<1> QED
  BY <1>12, <1>13, <1>14, <1>19, <1>20 DEF LinkInv

-----------------------------------------------------------------------------
(* Every step *)

LEMMA LinkStep ==
    ASSUME LinkInv, BLEAssumption, [Next]_vars PROVE LinkInv'
<1> USE BLEAssumption
<1>1. ASSUME NEW n \in 1 .. MaxChunks, WriteFrame(n) PROVE LinkInv'
  BY <1>1, WriteFrameStep
<1>2. CASE WriteAcked
  BY <1>2, WriteAckedStep
<1>3. CASE WriteFailsDead
  BY <1>3, TeardownStep DEF WriteFailsDead
<1>4. CASE ChunkRetried
  <2>1. UNCHANGED <<queue, inFlight, size, torn, got, buffer, need, alive>>
    BY <1>4 DEF ChunkRetried, worldVars, peerVars
  <2>2. retries' \in 0 .. ChunkRetryLimit
    BY <1>4 DEF ChunkRetried, LinkInv, LinkShape, BLEAssumption
  <2>3. LinkShape'
    BY <1>4, <2>2 DEF ChunkRetried, LinkInv, LinkShape, NoStall, scanVars, worldVars
  <2> QED
    BY <2>1, <2>3, Unmoved DEF LinkInv
<1>5. CASE FrameFails
  BY <1>5, FrameFailsStep
<1>6. CASE PeerTakes
  BY <1>6, PeerTakesStep
<1>7. CASE Rescan
  <2>1. UNCHANGED <<queue, inFlight, size, torn, got, buffer, need, alive>>
    BY <1>7 DEF Rescan, queueVars, worldVars, peerVars
  <2>2. due' \in Nat /\ holdoff' \in BOOLEAN /\ reported' \in BOOLEAN
    BY <1>7 DEF Rescan, LinkInv, LinkShape
  <2>3. LinkShape'
    BY <1>7, <2>2 DEF Rescan, LinkInv, LinkShape, NoStall, queueVars, worldVars
  <2> QED
    BY <2>1, <2>3, Unmoved DEF LinkInv
<1>8. CASE Discover
  <2>1. UNCHANGED <<queue, inFlight, size, torn, got, buffer, need, alive>>
    BY <1>8 DEF Discover, queueVars, worldVars, peerVars
  <2>2. LinkShape'
    BY <1>8 DEF Discover, LinkInv, LinkShape, NoStall, queueVars, worldVars
  <2> QED
    BY <2>1, <2>2, Unmoved DEF LinkInv
<1>9. CASE LinkReady
  <2>1. /\ UNCHANGED <<queue, inFlight, size, torn, got, buffer, need>>
        /\ queue = <<>> /\ buffer = <<>>
    BY <1>9 DEF LinkReady, queueVars, peerVars, LinkInv, LinkShape, PeerShape
  <2>2. LinkShape'
    BY <1>9 DEF LinkReady, LinkInv, LinkShape, NoStall, queueVars, scanVars
  <2> QED
    BY <2>1, <2>2, Unmoved DEF LinkInv
<1>10. CASE ConnectRefused
  <2>1. UNCHANGED <<queue, inFlight, size, torn, got, buffer, need, alive>>
    BY <1>10 DEF ConnectRefused, queueVars, peerVars
  <2>2. LinkShape'
    BY <1>10 DEF ConnectRefused, LinkInv, LinkShape, NoStall, queueVars, scanVars
  <2> QED
    BY <2>1, <2>2, Unmoved DEF LinkInv
<1>11. retries' = ChunkRetryLimit /\ strikes' = 0 =>
         /\ retries' \in 0 .. ChunkRetryLimit
         /\ strikes' \in 0 .. TeardownThreshold - 1
  BY DEF BLEAssumption
<1>12. 0 \in 0 .. MaxChunks
  BY DEF BLEAssumption
<1>13. CASE Disconnected
  <2>1. /\ ClearLink /\ alive' = FALSE /\ buffer' = <<>> /\ need' \in 0 .. MaxChunks
        /\ UNCHANGED <<got, size, torn>>
    BY <1>12, <1>13 DEF Disconnected, PeerForgets
  <2>2. LinkShape'
    BY <1>11, <1>13, <2>1, Zenon
       DEF Disconnected, ClearLink, LinkInv, LinkShape, NoStall
  <2> QED
    BY <2>1, <2>2, Cleared DEF LinkInv
<1>14. CASE CancelCompletes
  <2>1. /\ ClearLink /\ alive' = FALSE /\ buffer' = <<>> /\ need' \in 0 .. MaxChunks
        /\ UNCHANGED <<got, size, torn>>
    BY <1>14, Zenon
       DEF CancelCompletes, worldVars, peerVars, LinkInv, LinkShape, PeerShape
  <2>2. LinkShape'
    BY <1>11, <1>14, <2>1, Zenon
       DEF CancelCompletes, ClearLink, worldVars, LinkInv, LinkShape, NoStall
  <2> QED
    BY <2>1, <2>2, Cleared DEF LinkInv
<1>15. CASE PowerOff
  <2>1. /\ ClearLink /\ alive' = FALSE /\ buffer' = <<>> /\ need' \in 0 .. MaxChunks
        /\ UNCHANGED <<got, size, torn>>
    BY <1>12, <1>15 DEF PowerOff, PeerForgets
  <2>2. LinkShape'
    BY <1>11, <1>15, <2>1, Zenon
       DEF PowerOff, ClearLink, LinkInv, LinkShape, NoStall
  <2> QED
    BY <2>1, <2>2, Cleared DEF LinkInv
<1>16. CASE PowerOn
  <2>1. UNCHANGED <<queue, inFlight, size, torn, got, buffer, need, alive>>
    BY <1>16 DEF PowerOn, queueVars, peerVars
  <2>2. LinkShape'
    BY <1>16 DEF PowerOn, LinkInv, LinkShape, NoStall, queueVars
  <2> QED
    BY <2>1, <2>2, Unmoved DEF LinkInv
<1>17. CASE PeerVanishes
  <2>1. /\ UNCHANGED <<queue, inFlight, size, torn, got>>
        /\ buffer' = <<>> /\ need' = 0 /\ alive' = FALSE
    BY <1>17 DEF PeerVanishes, PeerForgets, queueVars
  <2>2. LinkShape'
    BY <1>17 DEF PeerVanishes, LinkInv, LinkShape, NoStall, queueVars, scanVars
  <2> QED
    BY <2>1, <2>2, Unmoved DEF LinkInv
<1>18. CASE PeerReturns
  <2>1. UNCHANGED <<queue, inFlight, size, torn, got, buffer, need, alive>>
    BY <1>18 DEF PeerReturns, queueVars, peerVars
  <2>2. LinkShape'
    BY <1>18 DEF PeerReturns, LinkInv, LinkShape, NoStall, queueVars, scanVars
  <2> QED
    BY <2>1, <2>2, Unmoved DEF LinkInv
<1>19. CASE UNCHANGED vars
  <2>1. UNCHANGED <<queue, inFlight, size, torn, got, buffer, need, alive>>
    BY <1>19 DEF vars, queueVars, worldVars, peerVars
  <2>2. LinkShape'
    BY <1>19 DEF vars, LinkInv, LinkShape, NoStall, queueVars, scanVars, worldVars
  <2> QED
    BY <2>1, <2>2, Unmoved DEF LinkInv
<1> QED
  BY <1>1, <1>2, <1>3, <1>4, <1>5, <1>6, <1>7, <1>8, <1>9, <1>10, <1>13, <1>14,
     <1>15, <1>16, <1>17, <1>18, <1>19 DEF Next, WriteCompletes

-----------------------------------------------------------------------------
(* The theorems *)

\* The strengthening all the safety results rest on: the queue is a suffix of
\* the frames handed to writeFrameToPeer, the peer's first chunks follow the
\* order of the frames, and without a torn frame the reassembly holds just
\* the head frame's chunks.
THEOREM LinkInductive == Spec => []LinkInv
<1>1. Init => LinkInv
  BY BLEAssumption, InitLinkInv
<1>2. LinkInv /\ [Next]_vars => LinkInv'
  BY BLEAssumption, LinkStep
<1> QED
  BY <1>1, <1>2, PTL DEF Spec

\* advanceWriteQueue, failHeadFrame and the teardown never leave frames queued
\* with nothing in flight, nor a completion outstanding with nothing queued,
\* nor a queue on a link that is not ready.
THEOREM WriteEngineConsistent == Spec => []EngineConsistent
<1>1. LinkInv => EngineConsistent
  <2> SUFFICES ASSUME LinkInv PROVE EngineConsistent
    OBVIOUS
  <2>1. /\ queue \in Seq([frame : Frames, left : 1 .. MaxChunks])
        /\ size \in Seq(1 .. MaxChunks) /\ need \in 0 .. MaxChunks
    BY DEF LinkInv, QueueInOrder, QueueEntries, PeerShape
  <2> QED
    BY <2>1, Zenon DEF LinkInv, LinkShape, EngineConsistent, TypeOK
<1> QED
  BY <1>1, LinkInductive, PTL

\* ingest dispatches whole frames in the order writeFrameToPeer was handed
\* them and none twice, whatever is resent, failed, torn down or relinked.
THEOREM FramesInOrderOnce == Spec => []InOrderOnce
<1>1. LinkInv => InOrderOnce
  <2> SUFFICES ASSUME LinkInv, NEW i \in DOMAIN got, NEW j \in DOMAIN got, i < j,
                      Whole(got[i]), Whole(got[j])
               PROVE  got[i][1].frame < got[j][1].frame
    BY DEF InOrderOnce
  <2>1. i \in 1 .. Len(got) /\ j \in 1 .. Len(got)
    BY DEF LinkInv, PeerShape
  <2>2. Earlier(got[i][1], got[j][1])
    BY <2>1 DEF LinkInv, FirstsInOrder
  <2>3. ASSUME NEW k \in 1 .. Len(got), Whole(got[k]) PROVE got[k][1].index = 1
    <3>1. got[k] \in Seq(Chunks) /\ got[k] # <<>>
      BY FirstsHandedOver
    <3>2. 1 \in DOMAIN got[k]
      BY <3>1
    <3>3. got[k][1] = Chunk(got[k][1].frame, 1)
      BY <2>3, <3>2 DEF Whole
    <3> QED
      BY <3>3 DEF Chunk
  <2> QED
    BY <2>1, <2>2, <2>3 DEF Earlier
<1> QED
  BY <1>1, LinkInductive, PTL

\* Lost links, power cycles, resends and teardowns alone never corrupt what
\* the peer reassembles; only failHeadFrame on a half-taken frame can.
THEOREM OnlyFailuresTear == Spec => []TornOnlyByFailure
<1>1. LinkInv => TornOnlyByFailure
  <2> SUFFICES ASSUME LinkInv PROVE TornOnlyByFailure
    OBVIOUS
  <2>1. DOMAIN got = 1 .. Len(got)
    BY DEF LinkInv, PeerShape
  <2> QED
    BY <2>1 DEF LinkInv, Aligned, TornOnlyByFailure
<1> QED
  BY <1>1, LinkInductive, PTL
=============================================================================
