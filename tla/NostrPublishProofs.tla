-------------------------- MODULE NostrPublishProofs --------------------------
(***************************************************************************)
(* The acceptance ladder, for any number of relays, events and attempts.   *)
(* The safety invariants of NostrPublish are not inductive by themselves:  *)
(* that the un-cancelled deadline block of a finished attempt cannot reach *)
(* the next attempt's entry rests on the order of the two delays, and that *)
(* a rung is never skipped or repeated on there being one re-publish block *)
(* per event, in step with the fan-outs.  LadderInv says so.               *)
(***************************************************************************)
EXTENDS NostrPublish, FiniteSetTheorems, TLAPS

NoRepublish(ev) == \A t \in republish : t.ev # ev

\* An event that was never fanned out has left no trace.
Fresh ==
    \A ev \in Events : fanouts[ev] = 0 =>
        /\ ~Tracked(ev) /\ failures[ev] = 0 /\ ~counted[ev]
        /\ \A d \in deadlines : d.ev # ev
        /\ NoRepublish(ev)

\* An entry stands for the latest fan-out, and nothing waits to repeat it.
EntryIsCurrent ==
    \A ev \in Events : Tracked(ev) =>
        /\ fanouts[ev] = pending[ev].attempt
        /\ NoRepublish(ev)
        /\ counted[ev] => pending[ev].accepted > 0

\* A re-publish block is the event's only one, is in step with the fan-outs,
\* and is due after every deadline block the event still has on the queue.
RepublishIsCurrent ==
    \A t \in republish :
        /\ fanouts[t.ev] = t.attempt
        /\ t.attempt < MaxPublishAttempts
        /\ \A u \in republish : u.ev = t.ev => u = t
        /\ \A d \in deadlines : d.ev = t.ev => d.left < t.left

Rungs == Fresh /\ EntryIsCurrent /\ RepublishIsCurrent

Promises == DeadlineMatchesEntry /\ FailsAfterLastRung /\ CountedAcceptSettles

LadderInv == TypeOK /\ Rungs /\ Promises

-----------------------------------------------------------------------------

\* The number of live relays is within the type of an entry's relayCount.
LEMMA LiveCount ==
    ASSUME live \subseteq Relays
    PROVE  Cardinality(live) \in 0..Cardinality(Relays)
<1>1. IsFiniteSet(Relays) BY LadderAssumption
<1>2. /\ Cardinality(Relays) \in Nat /\ Cardinality(live) \in Nat
      /\ Cardinality(live) <= Cardinality(Relays)
  BY <1>1, FS_Subset, FS_CardinalityType
<1> QED BY <1>2

\* finalizeAcceptanceLocked on an event's current entry (its verdict counts
\* already updated, and its deadline block possibly just consumed) keeps the
\* ladder consistent.
LEMMA FinalizeKeeps ==
    ASSUME LadderInv, NEW ev \in Events, NEW p \in Entries, NEW c \in BOOLEAN,
           Tracked(ev), p.attempt = pending[ev].attempt, c => p.accepted > 0,
           Finalize(ev, p), counted' = [counted EXCEPT ![ev] = c],
           deadlines' \subseteq deadlines,
           \A d \in deadlines : d.ev # ev => d \in deadlines',
           UNCHANGED fanouts
    PROVE  /\ pending' \in [Events -> Entries]
           /\ republish' \subseteq Timers(RepublishDelay)
           /\ failures' \in [Events -> Nat]
           /\ Rungs' /\ Promises'
<1> USE LadderAssumption
<1> DEFINE out == AcceptanceOutcome(p.accepted, p.attempt)
<1>0. /\ p.attempt \in 1..MaxPublishAttempts /\ p.accepted \in Nat
      /\ fanouts[ev] = p.attempt /\ failures[ev] = 0 /\ NoRepublish(ev)
      /\ NoEntry \in Entries /\ NoEntry.attempt = 0
  <2>1. p.attempt \in 0..MaxPublishAttempts /\ p.attempt > 0 /\ p.accepted \in Nat
    BY DEF Entries, Tracked
  <2>2. fanouts[ev] = p.attempt /\ NoRepublish(ev)
    BY DEF LadderInv, Rungs, EntryIsCurrent
  <2>3. failures[ev] = 0
    <3>1. failures[ev] \in Nat BY DEF LadderInv, TypeOK
    <3> QED BY <3>1 DEF LadderInv, Promises, FailsAfterLastRung
  <2>4. IsFiniteSet(Relays) /\ Cardinality(Relays) \in Nat
    BY FS_CardinalityType
  <2>5. NoEntry \in Entries BY <2>4 DEF NoEntry, Entries
  <2> QED BY <2>1, <2>2, <2>3, <2>5 DEF NoEntry
<1>1. /\ pending' = [pending EXCEPT ![ev] = NoEntry]
      /\ \A e \in Events : pending'[e] = IF e = ev THEN NoEntry ELSE pending[e]
      /\ \A e \in Events : counted'[e] = IF e = ev THEN c ELSE counted[e]
  BY DEF Finalize, LadderInv, TypeOK
<1>2. pending' \in [Events -> Entries]
  BY <1>0, <1>1 DEF LadderInv, TypeOK
<1>3. \A e \in Events : Tracked(e)' => e # ev /\ Tracked(e)
  BY <1>0, <1>1 DEF Tracked
<1>4. DeadlineMatchesEntry'
  BY <1>1, <1>3 DEF DeadlineMatchesEntry, LadderInv, Promises
<1>5. out \in {"settled", "retry", "giveUp"}
  BY DEF AcceptanceOutcome
<1>6. CASE out = "settled"
  <2>1. UNCHANGED <<republish, failures>> BY <1>6 DEF Finalize
  <2>2. Fresh'
    BY <2>1, <1>0, <1>1, <1>3 DEF Fresh, NoRepublish, LadderInv, Rungs
  <2>3. EntryIsCurrent'
    BY <2>1, <1>1, <1>3 DEF EntryIsCurrent, NoRepublish, LadderInv, Rungs
  <2>4. RepublishIsCurrent'
    BY <2>1 DEF RepublishIsCurrent, LadderInv, Rungs
  <2>5. FailsAfterLastRung'
    BY <2>1, <1>3 DEF FailsAfterLastRung, LadderInv, Promises
  <2>6. CountedAcceptSettles'
    BY <2>1, <1>0, <1>1 DEF CountedAcceptSettles, NoRepublish, LadderInv, Promises
  <2> QED
    BY <1>2, <1>4, <2>1, <2>2, <2>3, <2>4, <2>5, <2>6
    DEF LadderInv, TypeOK, Rungs, Promises
<1>7. CASE out = "retry"
  <2>1. /\ republish' = republish \cup {RepublishOf(ev, p.attempt)}
        /\ UNCHANGED failures
    BY <1>7 DEF Finalize
  <2>2. p.accepted = 0 /\ p.attempt < MaxPublishAttempts
    BY <1>7, <1>0 DEF AcceptanceOutcome
  <2>3. ~c BY <2>2
  <2> DEFINE t == RepublishOf(ev, p.attempt)
  <2>4. /\ t.ev = ev /\ t.attempt = p.attempt /\ t.left = RepublishDelay
        /\ t \in Timers(RepublishDelay)
    BY <1>0 DEF RepublishOf, Timers, Attempts
  <2>5. republish' = republish \cup {t} BY <2>1
  <2> HIDE DEF t
  <2>6. Fresh'
    BY <2>1, <2>4, <2>5, <1>0, <1>1, <1>3 DEF Fresh, NoRepublish, LadderInv, Rungs
  <2>7. EntryIsCurrent'
    BY <2>4, <2>5, <1>1, <1>3 DEF EntryIsCurrent, NoRepublish, LadderInv, Rungs
  <2>8. \A d \in deadlines : d.left \in 0..SummaryDeadline
    BY DEF LadderInv, TypeOK, Timers
  <2>9. RepublishIsCurrent'
    BY <2>2, <2>4, <2>5, <2>8, <1>0
    DEF RepublishIsCurrent, NoRepublish, LadderInv, Rungs
  <2>10. FailsAfterLastRung'
    BY <2>1, <2>4, <2>5, <1>0, <1>3 DEF FailsAfterLastRung, LadderInv, Promises
  <2>11. CountedAcceptSettles'
    BY <2>1, <2>3, <2>4, <2>5, <1>1 DEF CountedAcceptSettles, LadderInv, Promises
  <2>12. republish' \subseteq Timers(RepublishDelay)
    BY <2>4, <2>5 DEF LadderInv, TypeOK
  <2> QED
    BY <1>2, <1>4, <2>1, <2>6, <2>7, <2>9, <2>10, <2>11, <2>12
    DEF LadderInv, TypeOK, Rungs, Promises
<1>8. CASE out = "giveUp"
  <2>1. /\ failures' = [failures EXCEPT ![ev] = @ + 1]
        /\ UNCHANGED republish
    BY <1>8 DEF Finalize
  <2>2. p.accepted = 0 /\ p.attempt = MaxPublishAttempts
    BY <1>8, <1>0 DEF AcceptanceOutcome
  <2>3. ~c BY <2>2
  <2>4. /\ failures' \in [Events -> Nat]
        /\ \A e \in Events : failures'[e] = IF e = ev THEN 1 ELSE failures[e]
    BY <2>1, <1>0 DEF LadderInv, TypeOK
  <2>5. Fresh'
    BY <2>1, <2>4, <1>0, <1>1, <1>3 DEF Fresh, NoRepublish, LadderInv, Rungs
  <2>6. EntryIsCurrent'
    BY <2>1, <1>1, <1>3 DEF EntryIsCurrent, NoRepublish, LadderInv, Rungs
  <2>7. RepublishIsCurrent'
    BY <2>1 DEF RepublishIsCurrent, LadderInv, Rungs
  <2>8. FailsAfterLastRung'
    BY <2>1, <2>2, <2>4, <1>0, <1>3
    DEF FailsAfterLastRung, NoRepublish, LadderInv, Promises
  <2>9. CountedAcceptSettles'
    BY <2>1, <2>3, <2>4, <1>1 DEF CountedAcceptSettles, LadderInv, Promises
  <2> QED
    BY <1>2, <1>4, <2>1, <2>4, <2>5, <2>6, <2>7, <2>8, <2>9
    DEF LadderInv, TypeOK, Rungs, Promises
<1> QED BY <1>5, <1>6, <1>7, <1>8

\* A fan-out of the event's next attempt, once no block of an earlier attempt
\* is left on the queue, keeps the ladder consistent.
LEMMA FanOutKeeps ==
    ASSUME LadderInv, NEW ev \in Events, NEW a \in Attempts,
           FanOut(ev, a), deadlines' = deadlines \cup {Deadline(ev, a)},
           fanouts[ev] = a - 1, ~counted[ev], failures[ev] = 0,
           \A d \in deadlines : d.ev # ev,
           republish' \subseteq republish,
           \A t \in republish' : t.ev # ev,
           UNCHANGED <<live, failures, counted>>
    PROVE  /\ sent' \in [Relays -> SUBSET (Events \X Attempts)]
           /\ pending' \in [Events -> Entries]
           /\ fanouts' \in [Events -> Nat]
           /\ deadlines' \subseteq Timers(SummaryDeadline)
           /\ Rungs' /\ Promises'
<1> USE LadderAssumption
<1> DEFINE entry == [relayCount |-> Cardinality(live), attempt |-> a,
                     accepted |-> 0, rejected |-> 0]
           d0 == Deadline(ev, a)
<1>0. a \in 1..MaxPublishAttempts BY DEF Attempts
<1>1. entry \in Entries /\ entry.attempt = a /\ entry.accepted = 0
  BY <1>0, LiveCount DEF Entries, LadderInv, TypeOK
<1>2. /\ d0 \in Timers(SummaryDeadline)
      /\ d0.ev = ev /\ d0.attempt = a /\ deadlines' = deadlines \cup {d0}
  BY DEF Deadline, Timers
<1>3. pending' = [pending EXCEPT ![ev] = entry]
  BY DEF FanOut
<1> HIDE DEF entry, d0
<1>4. /\ pending' \in [Events -> Entries]
      /\ \A e \in Events : pending'[e] = IF e = ev THEN entry ELSE pending[e]
  BY <1>1, <1>3 DEF LadderInv, TypeOK
<1>5. /\ fanouts' \in [Events -> Nat]
      /\ \A e \in Events : fanouts'[e] = IF e = ev THEN a ELSE fanouts[e]
  BY <1>0 DEF FanOut, LadderInv, TypeOK
<1>7. sent' \in [Relays -> SUBSET (Events \X Attempts)]
  BY DEF FanOut, LadderInv, TypeOK
<1>8. deadlines' \subseteq Timers(SummaryDeadline)
  BY <1>2 DEF LadderInv, TypeOK
<1>9. Fresh'
  BY <1>0, <1>2, <1>4, <1>5 DEF Fresh, Tracked, NoRepublish, LadderInv, Rungs
<1>10. EntryIsCurrent'
  BY <1>1, <1>4, <1>5 DEF EntryIsCurrent, Tracked, NoRepublish, LadderInv, Rungs
<1>11. \A t \in republish : t.ev \in Events
  BY DEF LadderInv, TypeOK, Timers
<1>12. RepublishIsCurrent'
  BY <1>2, <1>5, <1>11 DEF RepublishIsCurrent, LadderInv, Rungs
<1>13. DeadlineMatchesEntry'
  BY <1>1, <1>2, <1>4
  DEF DeadlineMatchesEntry, Tracked, LadderInv, Promises
<1>14. FailsAfterLastRung'
  BY <1>4, <1>5 DEF FailsAfterLastRung, Tracked, LadderInv, Promises
<1>15. CountedAcceptSettles'
  BY DEF CountedAcceptSettles, LadderInv, Promises
<1> QED
  BY <1>4, <1>5, <1>7, <1>8, <1>9, <1>10, <1>12, <1>13, <1>14, <1>15
  DEF Rungs, Promises

-----------------------------------------------------------------------------
(* One lemma per operation. *)

\* Nothing is on the queue before the first fan-out.
LEMMA InitEstablishes == Init => LadderInv
<1> SUFFICES ASSUME Init PROVE LadderInv OBVIOUS
<1> USE LadderAssumption DEF Init
<1>1. Cardinality(Relays) \in Nat BY FS_CardinalityType
<1>2. NoEntry \in Entries /\ NoEntry.attempt = 0
  BY <1>1 DEF NoEntry, Entries
<1>3. \A ev \in Events : ~Tracked(ev) BY <1>2 DEF Tracked
<1>4. TypeOK BY <1>2 DEF TypeOK
<1>5. Rungs
  BY <1>3 DEF Rungs, Fresh, EntryIsCurrent, RepublishIsCurrent, NoRepublish
<1>6. Promises
  BY <1>3 DEF Promises, DeadlineMatchesEntry, FailsAfterLastRung, CountedAcceptSettles
<1> QED BY <1>4, <1>5, <1>6 DEF LadderInv

\* publish fans a fresh id out, so no block of it exists.
LEMMA PublishKeeps ==
    ASSUME LadderInv, NEW ev \in Events, Publish(ev) PROVE LadderInv'
<1> USE LadderAssumption
<1>1. 1 \in Attempts BY DEF Attempts
<1>2. /\ failures[ev] = 0 /\ ~counted[ev]
      /\ \A d \in deadlines : d.ev # ev
      /\ \A t \in republish : t.ev # ev
  BY DEF Publish, LadderInv, Rungs, Fresh, NoRepublish
<1>3. /\ FanOut(ev, 1) /\ deadlines' = deadlines \cup {Deadline(ev, 1)}
      /\ fanouts[ev] = 1 - 1
      /\ UNCHANGED <<started, live, republish, failures, counted>>
  BY DEF Publish
<1>4. /\ sent' \in [Relays -> SUBSET (Events \X Attempts)]
      /\ pending' \in [Events -> Entries]
      /\ fanouts' \in [Events -> Nat]
      /\ deadlines' \subseteq Timers(SummaryDeadline)
      /\ Rungs' /\ Promises'
  BY <1>1, <1>2, <1>3, FanOutKeeps
<1>5. TypeOK' BY <1>3, <1>4 DEF LadderInv, TypeOK
<1> QED BY <1>4, <1>5 DEF LadderInv

\* Counting one verdict leaves a well-formed entry of the same attempt.
LEMMA CountVerdict ==
    ASSUME NEW q \in Entries, NEW ok \in BOOLEAN
    PROVE  LET p == [q EXCEPT !.accepted = IF ok THEN @ + 1 ELSE @,
                              !.rejected = IF ok THEN @ ELSE @ + 1]
           IN  /\ p \in Entries /\ p.attempt = q.attempt
               /\ p.accepted = IF ok THEN q.accepted + 1 ELSE q.accepted
<1>1. /\ q.accepted \in Nat /\ q.rejected \in Nat
      /\ q.accepted + 1 \in Nat /\ q.rejected + 1 \in Nat
  BY DEF Entries
<1>2. ASSUME NEW x \in Nat, NEW y \in Nat
      PROVE  LET p == [q EXCEPT !.accepted = x, !.rejected = y]
             IN  p \in Entries /\ p.attempt = q.attempt /\ p.accepted = x
  BY DEF Entries
<1> DEFINE x == IF ok THEN q.accepted + 1 ELSE q.accepted
           y == IF ok THEN q.rejected ELSE q.rejected + 1
<1>3. x \in Nat /\ y \in Nat BY <1>1
<1>4. SUFFICES LET p == [q EXCEPT !.accepted = x, !.rejected = y]
               IN  p \in Entries /\ p.attempt = q.attempt /\ p.accepted = x
  OBVIOUS
<1> HIDE DEF x, y
<1> QED BY <1>2, <1>3

\* An OK frame is counted, finalizes, or is ignored.
LEMMA AnswerKeeps ==
    ASSUME LadderInv, NEW r \in Relays, NEW ev \in Events, NEW a \in Attempts,
           NEW ok \in BOOLEAN, RelayAnswers(r, ev, a, ok)
    PROVE  LadderInv'
<1> DEFINE p == [pending[ev] EXCEPT !.accepted = IF ok THEN @ + 1 ELSE @,
                                    !.rejected = IF ok THEN @ ELSE @ + 1]
           c == counted[ev] \/ ok
<1>1. /\ sent' \in [Relays -> SUBSET (Events \X Attempts)]
      /\ UNCHANGED <<started, live, deadlines, fanouts>>
      /\ NoteAcceptance(ev, ok)
  BY DEF RelayAnswers, LadderInv, TypeOK
<1>2. SUFFICES /\ pending' \in [Events -> Entries]
               /\ republish' \subseteq Timers(RepublishDelay)
               /\ failures' \in [Events -> Nat]
               /\ counted' \in [Events -> BOOLEAN]
               /\ Rungs' /\ Promises'
  BY <1>1 DEF LadderInv, TypeOK
<1>3. CASE ~Tracked(ev)
  <2>1. UNCHANGED <<pending, republish, failures, counted, deadlines, fanouts>>
    BY <1>1, <1>3 DEF NoteAcceptance
  <2> QED
    BY <2>1 DEF LadderInv, TypeOK, Rungs, Promises, Fresh, EntryIsCurrent, NoRepublish,
                RepublishIsCurrent, DeadlineMatchesEntry, FailsAfterLastRung,
                CountedAcceptSettles, Tracked
<1>4. CASE Tracked(ev)
  <2>1. /\ p \in Entries /\ p.attempt = pending[ev].attempt
        /\ p.accepted = IF ok THEN pending[ev].accepted + 1 ELSE pending[ev].accepted
        /\ pending[ev].accepted \in Nat
    <3>1. pending[ev] \in Entries BY DEF LadderInv, TypeOK
    <3> QED BY <3>1, CountVerdict DEF Entries
  <2>2. /\ counted' = [counted EXCEPT ![ev] = c] /\ c \in BOOLEAN
        /\ counted' \in [Events -> BOOLEAN]
    <3>1. counted \in [Events -> BOOLEAN] BY DEF LadderInv, TypeOK
    <3>2. counted' = [counted EXCEPT ![ev] = c]
      BY <1>1, <1>4, <3>1 DEF NoteAcceptance
    <3> QED BY <3>1, <3>2
  <2>3. c => p.accepted > 0
    BY <2>1, <1>4 DEF LadderInv, Rungs, EntryIsCurrent
  <2>4. \/ Finalize(ev, p)
        \/ pending' = [pending EXCEPT ![ev] = p] /\ UNCHANGED <<republish, failures>>
    BY <1>1, <1>4 DEF NoteAcceptance
  <2> HIDE DEF p, c
  <2>5. CASE Finalize(ev, p)
    <3>1. deadlines' \subseteq deadlines /\ \A d \in deadlines : d.ev # ev => d \in deadlines'
      BY <1>1
    <3>2. UNCHANGED fanouts BY <1>1
    <3> QED BY <1>4, <2>1, <2>2, <2>3, <2>5, <3>1, <3>2, FinalizeKeeps
  <2>6. CASE pending' = [pending EXCEPT ![ev] = p] /\ UNCHANGED <<republish, failures>>
    <3>1. /\ pending' \in [Events -> Entries]
          /\ \A e \in Events : pending'[e] = IF e = ev THEN p ELSE pending[e]
          /\ \A e \in Events : counted'[e] = IF e = ev THEN c ELSE counted[e]
      BY <2>1, <2>2, <2>6 DEF LadderInv, TypeOK
    <3>2. \A e \in Events : /\ Tracked(e)' <=> Tracked(e)
                            /\ pending'[e].attempt = pending[e].attempt
      BY <2>1, <3>1 DEF Tracked
    <3>3. Rungs'
      BY <1>1, <1>4, <2>3, <2>6, <3>1, <3>2
      DEF LadderInv, Rungs, Fresh, EntryIsCurrent, NoRepublish, RepublishIsCurrent
    <3>4. DeadlineMatchesEntry' /\ FailsAfterLastRung'
      BY <1>1, <2>6, <3>2
      DEF LadderInv, Promises, DeadlineMatchesEntry, FailsAfterLastRung
    <3>5. failures[ev] = 0 /\ NoRepublish(ev)
      <4>1. failures[ev] \in Nat BY DEF LadderInv, TypeOK
      <4> QED
        BY <4>1, <1>4 DEF LadderInv, Promises, FailsAfterLastRung, Rungs, EntryIsCurrent
    <3>6. CountedAcceptSettles'
      BY <2>6, <3>1, <3>5 DEF LadderInv, Promises, CountedAcceptSettles, NoRepublish
    <3> QED
      BY <2>2, <2>6, <3>1, <3>3, <3>4, <3>6 DEF LadderInv, TypeOK, Promises
  <2> QED BY <2>4, <2>5, <2>6
<1> QED BY <1>3, <1>4

\* The deadline block belongs to the entry it finalizes.
LEMMA DeadlineKeeps ==
    ASSUME LadderInv, NEW d \in deadlines, DeadlineFires(d) PROVE LadderInv'
<1>0. d.ev \in Events BY DEF LadderInv, TypeOK, Timers
<1>1. /\ deadlines' = deadlines \ {d}
      /\ UNCHANGED <<started, live, sent, fanouts, counted>>
  BY DEF DeadlineFires
<1>2. deadlines' \subseteq deadlines /\ \A e \in deadlines : e.ev # d.ev => e \in deadlines'
  BY <1>1
<1>3. CASE Tracked(d.ev)
  <2> DEFINE ev == d.ev  p == pending[ev]  c == counted[ev]
  <2>1. Finalize(ev, p) BY <1>3 DEF DeadlineFires
  <2>2. /\ ev \in Events /\ p \in Entries /\ c \in BOOLEAN
        /\ counted' = [counted EXCEPT ![ev] = c]
    BY <1>0, <1>1 DEF LadderInv, TypeOK
  <2>3. c => p.accepted > 0
    BY <1>0, <1>3 DEF LadderInv, Rungs, EntryIsCurrent
  <2>4. UNCHANGED fanouts BY <1>1
  <2>5. /\ pending' \in [Events -> Entries]
        /\ republish' \subseteq Timers(RepublishDelay)
        /\ failures' \in [Events -> Nat]
        /\ Rungs' /\ Promises'
    BY <1>2, <1>3, <2>1, <2>2, <2>3, <2>4, FinalizeKeeps
  <2>6. TypeOK' BY <1>1, <2>5 DEF LadderInv, TypeOK
  <2> QED BY <2>5, <2>6 DEF LadderInv
<1>4. CASE ~Tracked(d.ev)
  <2>1. UNCHANGED <<pending, republish, failures>> BY <1>4 DEF DeadlineFires
  <2>2. TypeOK' BY <1>1, <2>1 DEF LadderInv, TypeOK
  <2>3. Rungs'
    BY <1>1, <2>1 DEF LadderInv, Rungs, Fresh, EntryIsCurrent, RepublishIsCurrent,
                      NoRepublish, Tracked
  <2>4. DeadlineMatchesEntry'
    BY <1>1, <1>4, <2>1 DEF LadderInv, Promises, DeadlineMatchesEntry, Tracked
  <2>5. FailsAfterLastRung' /\ CountedAcceptSettles'
    BY <1>1, <2>1 DEF LadderInv, Promises, FailsAfterLastRung, CountedAcceptSettles, Tracked
  <2> QED BY <2>2, <2>3, <2>4, <2>5 DEF LadderInv, Promises
<1> QED BY <1>3, <1>4

\* A due re-publish block is the event's last block: every deadline block it
\* had was due strictly earlier.
LEMMA RepublishKeeps ==
    ASSUME LadderInv, NEW t \in republish, RepublishFires(t) PROVE LadderInv'
<1> USE LadderAssumption
<1>0. /\ t.ev \in Events /\ t.attempt \in Attempts /\ t.left = 0
      /\ republish' = republish \ {t}
      /\ UNCHANGED <<started, live, failures, counted>>
  BY DEF LadderInv, TypeOK, Timers, RepublishFires
<1>1. CASE started
  <2> DEFINE ev == t.ev  a == t.attempt + 1
  <2>1. FanOut(ev, a) /\ deadlines' = deadlines \cup {Deadline(ev, a)}
    BY <1>1 DEF RepublishFires
  <2>2. ev \in Events /\ a \in Attempts /\ fanouts[ev] = a - 1
    BY <1>0 DEF LadderInv, Rungs, RepublishIsCurrent, Attempts
  <2>3. \A d \in deadlines : d.left \in Nat BY DEF LadderInv, TypeOK, Timers
  <2>4. \A d \in deadlines : d.ev # ev
    BY <1>0, <2>3 DEF LadderInv, Rungs, RepublishIsCurrent
  <2>5. ~counted[ev] /\ failures[ev] = 0
    <3>1. failures[ev] \in Nat BY <2>2 DEF LadderInv, TypeOK
    <3> QED BY <2>2, <3>1 DEF LadderInv, Promises, CountedAcceptSettles, FailsAfterLastRung
  <2>6. republish' \subseteq republish /\ \A u \in republish' : u.ev # ev
    BY <1>0 DEF LadderInv, Rungs, RepublishIsCurrent
  <2>7. UNCHANGED <<live, failures, counted>> BY <1>0
  <2> HIDE DEF ev, a
  <2>8. /\ sent' \in [Relays -> SUBSET (Events \X Attempts)]
        /\ pending' \in [Events -> Entries]
          /\ fanouts' \in [Events -> Nat]
        /\ deadlines' \subseteq Timers(SummaryDeadline)
        /\ Rungs' /\ Promises'
    BY <2>1, <2>2, <2>4, <2>5, <2>6, <2>7, FanOutKeeps
  <2>9. TypeOK' BY <1>0, <2>8 DEF LadderInv, TypeOK
  <2> QED BY <2>8, <2>9 DEF LadderInv
<1>2. CASE ~started
  <2>1. UNCHANGED <<sent, pending, fanouts, deadlines>>
    BY <1>2 DEF RepublishFires
  <2>2. TypeOK' BY <1>0, <2>1 DEF LadderInv, TypeOK
  <2>3. Rungs'
    BY <1>0, <2>1 DEF LadderInv, Rungs, Fresh, EntryIsCurrent, RepublishIsCurrent,
                      NoRepublish, Tracked
  <2>4. Promises'
    BY <1>0, <2>1 DEF LadderInv, Promises, DeadlineMatchesEntry, FailsAfterLastRung,
                      CountedAcceptSettles, Tracked
  <2> QED BY <2>2, <2>3, <2>4 DEF LadderInv
<1> QED BY <1>1, <1>2

\* Steps that leave the ladder alone: sockets coming and going, start().
LEMMA SocketsKeep ==
    ASSUME LadderInv, UNCHANGED ladder,
           started' \in BOOLEAN, live' \subseteq Relays,
           sent' \in [Relays -> SUBSET (Events \X Attempts)]
    PROVE  LadderInv'
<1>1. TypeOK' BY DEF LadderInv, TypeOK, ladder
<1>2. Rungs'
  BY DEF LadderInv, Rungs, Fresh, EntryIsCurrent, RepublishIsCurrent, NoRepublish,
         Tracked, ladder
<1>3. Promises'
  BY DEF LadderInv, Promises, DeadlineMatchesEntry, FailsAfterLastRung,
         CountedAcceptSettles, Tracked, ladder
<1> QED BY <1>1, <1>2, <1>3 DEF LadderInv

\* stop() clears the registry and leaves the queued blocks.
LEMMA StopKeeps == ASSUME LadderInv, Stop PROVE LadderInv'
<1> USE LadderAssumption
<1>1. Cardinality(Relays) \in Nat BY FS_CardinalityType
<1>2. NoEntry \in Entries /\ NoEntry.attempt = 0
  BY <1>1 DEF NoEntry, Entries
<1>3. \A ev \in Events : ~Tracked(ev)' BY <1>2 DEF Tracked, Stop
<1>4. TypeOK' BY <1>2 DEF LadderInv, TypeOK, Stop
<1>5. Rungs'
  BY <1>3 DEF LadderInv, Rungs, Fresh, EntryIsCurrent, RepublishIsCurrent, NoRepublish, Stop
<1>6. Promises'
  BY <1>3 DEF LadderInv, Promises, DeadlineMatchesEntry, FailsAfterLastRung,
              CountedAcceptSettles, Stop
<1> QED BY <1>4, <1>5, <1>6 DEF LadderInv

\* A queue block one unit of time later.
Later(t) == [t EXCEPT !.left = @ - 1]

\* A block that is not due yet only loses time.
LEMMA LaterBlock ==
    ASSUME NEW n \in Nat, NEW t \in Timers(n), t.left > 0
    PROVE  /\ Later(t) \in Timers(n)
           /\ Later(t).ev = t.ev /\ Later(t).attempt = t.attempt
           /\ Later(t).left = t.left - 1 /\ t.left \in Nat
<1> DEFINE x == t.left - 1
<1>1. x \in 0..n /\ t.left \in Nat BY DEF Timers
<1>2. Later(t) = [t EXCEPT !.left = x] BY DEF Later
<1> HIDE DEF x
<1>3. LET u == [t EXCEPT !.left = x]
      IN  u \in Timers(n) /\ u.ev = t.ev /\ u.attempt = t.attempt /\ u.left = x
  BY <1>1 DEF Timers
<1> QED BY <1>1, <1>2, <1>3 DEF x

\* Time passing keeps the order of the blocks.
LEMMA TickKeeps == ASSUME LadderInv, Tick PROVE LadderInv'
<1> USE LadderAssumption
<1>0. /\ \A t \in deadlines : t.left > 0
      /\ \A t \in republish : t.left > 0
      /\ deadlines' = Elapsed(deadlines) /\ republish' = Elapsed(republish)
      /\ UNCHANGED <<started, live, sent, pending, failures, fanouts,
                     counted>>
  BY DEF Tick
<1>1. /\ deadlines' = {Later(d) : d \in deadlines}
      /\ republish' = {Later(t) : t \in republish}
  BY <1>0 DEF Elapsed, Later
<1>2. /\ \A d \in deadlines : d \in Timers(SummaryDeadline)
      /\ \A t \in republish : t \in Timers(RepublishDelay)
  BY DEF LadderInv, TypeOK
<1>3. \A u \in deadlines' : \E d \in deadlines :
         /\ u = Later(d) /\ u \in Timers(SummaryDeadline)
         /\ u.ev = d.ev /\ u.attempt = d.attempt
         /\ u.left = d.left - 1 /\ d.left \in Nat
  BY <1>0, <1>1, <1>2, LaterBlock
<1>4. \A u \in republish' : \E t \in republish :
         /\ u = Later(t) /\ u \in Timers(RepublishDelay)
         /\ u.ev = t.ev /\ u.attempt = t.attempt
         /\ u.left = t.left - 1 /\ t.left \in Nat
  BY <1>0, <1>1, <1>2, LaterBlock
<1>5. \A d \in deadlines : \E u \in deadlines' : u.ev = d.ev /\ u.attempt = d.attempt
  BY <1>0, <1>1, <1>2, LaterBlock
<1>6. TypeOK' BY <1>0, <1>3, <1>4 DEF LadderInv, TypeOK
<1>7. Fresh' /\ EntryIsCurrent'
  BY <1>0, <1>3, <1>4
  DEF LadderInv, Rungs, Fresh, EntryIsCurrent, NoRepublish, Tracked
<1>8. RepublishIsCurrent'
  <2> SUFFICES ASSUME NEW u \in republish'
               PROVE  /\ fanouts'[u.ev] = u.attempt
                      /\ u.attempt < MaxPublishAttempts
                      /\ \A v \in republish' : v.ev = u.ev => v = u
                      /\ \A d \in deadlines' : d.ev = u.ev => d.left < u.left
    BY DEF RepublishIsCurrent
  <2>1. PICK t \in republish : /\ u = Later(t)
                               /\ u.ev = t.ev /\ u.attempt = t.attempt
                               /\ u.left = t.left - 1 /\ t.left \in Nat
    BY <1>4
  <2>2. \A v \in republish : v.ev = t.ev => v = t
    BY DEF LadderInv, Rungs, RepublishIsCurrent
  <2>3. \A v \in republish' : v.ev = u.ev => v = u
    <3> SUFFICES ASSUME NEW v \in republish', v.ev = u.ev PROVE v = u OBVIOUS
    <3>1. PICK w \in republish : v = Later(w) /\ v.ev = w.ev
      BY <1>4
    <3>2. w = t BY <2>1, <2>2, <3>1
    <3> QED BY <2>1, <3>1, <3>2
  <2>4. \A d \in deadlines' : d.ev = u.ev => d.left < u.left
    BY <1>3, <2>1 DEF LadderInv, Rungs, RepublishIsCurrent
  <2> QED
    BY <1>0, <2>1, <2>3, <2>4 DEF LadderInv, Rungs, RepublishIsCurrent
<1>9. Promises'
  BY <1>0, <1>3, <1>4, <1>5
  DEF LadderInv, Promises, DeadlineMatchesEntry, FailsAfterLastRung,
      CountedAcceptSettles, Tracked
<1> QED BY <1>6, <1>7, <1>8, <1>9 DEF LadderInv, Rungs

-----------------------------------------------------------------------------

\* Every queue block and every socket event preserves LadderInv.
LEMMA LadderInvStep == LadderInv /\ [Next]_vars => LadderInv'
<1> SUFFICES ASSUME LadderInv, [Next]_vars PROVE LadderInv' OBVIOUS
<1>0. /\ started \in BOOLEAN /\ live \subseteq Relays
      /\ sent \in [Relays -> SUBSET (Events \X Attempts)]
  BY DEF LadderInv, TypeOK
<1>1. ASSUME NEW ev \in Events, Publish(ev) PROVE LadderInv'
  BY <1>1, PublishKeeps
<1>2. ASSUME NEW r \in Relays, NEW ev \in Events, NEW a \in Attempts,
             NEW ok \in BOOLEAN, RelayAnswers(r, ev, a, ok)
      PROVE  LadderInv'
  BY <1>2, AnswerKeeps
<1>3. ASSUME NEW r \in Relays, SocketDrops(r) \/ SocketRebuilt(r) PROVE LadderInv'
  <2>1. /\ UNCHANGED ladder
        /\ started' \in BOOLEAN /\ live' \subseteq Relays
        /\ sent' \in [Relays -> SUBSET (Events \X Attempts)]
    BY <1>0, <1>3 DEF SocketDrops, SocketRebuilt
  <2> QED BY <2>1, SocketsKeep
<1>4. CASE Start
  <2>1. /\ UNCHANGED ladder
        /\ started' \in BOOLEAN /\ live' \subseteq Relays
        /\ sent' \in [Relays -> SUBSET (Events \X Attempts)]
    BY <1>0, <1>4 DEF Start
  <2> QED BY <2>1, SocketsKeep
<1>5. CASE Stop BY <1>5, StopKeeps
<1>6. CASE QueueSteps
  BY <1>6, DeadlineKeeps, RepublishKeeps, TickKeeps DEF QueueSteps
<1>7. CASE UNCHANGED vars
  <2>1. /\ UNCHANGED ladder
        /\ started' \in BOOLEAN /\ live' \subseteq Relays
        /\ sent' \in [Relays -> SUBSET (Events \X Attempts)]
    BY <1>0, <1>7 DEF vars
  <2> QED BY <2>1, SocketsKeep
<1> QED BY <1>1, <1>2, <1>3, <1>4, <1>5, <1>6, <1>7 DEF Next

\* LadderInv holds in every reachable state.
THEOREM LadderInductive == Spec => []LadderInv
<1> QED BY InitEstablishes, LadderInvStep, PTL DEF Spec

\* Entries, frames and queue blocks keep their shapes: in particular no block
\* is ever queued for an attempt beyond maxPublishAttempts.
THEOREM LadderType == Spec => []TypeOK
<1>1. LadderInv => TypeOK BY DEF LadderInv
<1> QED BY <1>1, LadderInductive, PTL

\* finalizeAcceptanceLocked is only ever run by the deadline block of the very
\* attempt whose entry it finalizes, although the block names only the event.
THEOREM DeadlineOwnsEntry == Spec => []DeadlineMatchesEntry
<1>1. LadderInv => DeadlineMatchesEntry BY DEF LadderInv, Promises
<1> QED BY <1>1, LadderInductive, PTL

\* onPublishFailed fires at most once, after all maxPublishAttempts fan-outs.
THEOREM FailureIsLast == Spec => []FailsAfterLastRung
<1>1. LadderInv => FailsAfterLastRung BY DEF LadderInv, Promises
<1> QED BY <1>1, LadderInductive, PTL

\* Once an accept is counted the publish is neither repeated nor failed.
THEOREM AcceptIsFinal == Spec => []CountedAcceptSettles
<1>1. LadderInv => CountedAcceptSettles BY DEF LadderInv, Promises
<1> QED BY <1>1, LadderInductive, PTL
=============================================================================
