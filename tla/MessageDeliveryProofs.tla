------------------------- MODULE MessageDeliveryProofs ------------------------
(***************************************************************************)
(* Machine-checked safety of MessageRouter, alone and inside MessageInbox, *)
(* and the refinement of DeliveryStatus by MessageInbox, for every set of  *)
(* messages, rows, peers, timer tasks and concurrent calls.                *)
(***************************************************************************)
EXTENDS MessageInbox, SequenceTheorems, FiniteSetTheorems, FunctionTheorems, TLAPS

-----------------------------------------------------------------------------
(* The seen-cache *)

\* Inserting an id of the right kind keeps the cache a sequence of such ids.
LEMMA InsertType ==
    ASSUME NEW S, NEW cache \in Seq(S), NEW capacity \in Nat, NEW id \in S
    PROVE  Insert(cache, capacity, id) \in Seq(S)
<1>1. Append(cache, id) \in Seq(S) /\ Append(cache, id) # <<>>
  BY AppendProperties
<1>2. Tail(Append(cache, id)) \in Seq(S)
  BY <1>1, HeadTailProperties
<1> QED
  BY <1>1, <1>2 DEF Insert

-----------------------------------------------------------------------------
(* The inductive invariant *)

\* A task that is not free works for a message; a suspended call is about an
\* id it can be about, and what it will later update is in the outbox.
TaskShape == \A t \in TaskIds : task[t].st # "free" => task[t].id \in MsgIds

CallShape ==
    \A c \in Calls :
        /\ calls[c].op # "idle" => calls[c].id \in MsgIds \cup ControlIds
        /\ calls[c].op = "reroute" => calls[c].id \in MsgIds

InboundShape == \A k \in Kinds : inb[k].stage # "idle" => inb[k].id \in Ids

TimerInv ==
    /\ timeouts \in [MsgIds -> TaskIds \cup {NoTask}]
    /\ task \in [TaskIds -> TimerTasks]
    /\ TaskShape
    /\ HandlesAreLive

\* What the timers and the outbox owe each other...
Core ==
    /\ outbox \in [MsgIds -> OutboxEntries]
    /\ TimerInv
    /\ TerminalHoldsNoTimer
    /\ SentHasBackstop

\* ... and the shape of everything else.
Shapes ==
    /\ calls \in [Calls -> SuspendedCalls]
    /\ CallShape
    /\ seen \in Seq(Ids)
    /\ inb \in [Kinds -> InboundSlots]
    /\ InboundShape
    /\ phase \in {"new", "running", "stopped"}
    /\ out \in [id : MsgIds \cup {NoId}, st : DeliveryStates \cup {"none"}]
    /\ handoffs \in [MsgIds -> Nat]
    /\ emitted \subseteq MsgIds \cup ControlIds
    /\ opened \in [Ids -> Nat]

IndInv == Core /\ Shapes

-----------------------------------------------------------------------------
(* What the timer helpers do *)

\* The messages whose live tasks and handle a helper leaves alone.
OthersKeepTimers(id) ==
    \A j \in MsgIds \ {id} :
        /\ timeouts'[j] = timeouts[j]
        /\ \A t \in TaskIds : LiveFor(t, j) => LiveFor(t, j)'

\* cancelTimeout touches only the named message's task, because its handle
\* names a task of that message.
LEMMA CancelEffect ==
    ASSUME TimerInv, IdsAssumption, NEW id \in MsgIds, CancelTimeout(id)
    PROVE  TimerInv' /\ timeouts'[id] = NoTask /\ OthersKeepTimers(id)
<1> USE DEF CancelTimeout, Cancelled, TimerInv, TaskShape, HandlesAreLive,
            LiveFor, FreeTask, TimerTasks
<1>1. timeouts' \in [MsgIds -> TaskIds \cup {NoTask}]
  OBVIOUS
<1>2. task' \in [TaskIds -> TimerTasks]
  OBVIOUS
<1>3. TaskShape'
  OBVIOUS
<1>4. timeouts'[id] = NoTask
  OBVIOUS
<1>5. OthersKeepTimers(id)
  BY DEF OthersKeepTimers
<1>6. HandlesAreLive'
  BY <1>4, <1>5 DEF OthersKeepTimers
<1> QED
  BY <1>1, <1>2, <1>3, <1>4, <1>5, <1>6

\* armTimeout leaves the message with a handle on a live task of its own.
LEMMA ArmEffect ==
    ASSUME TimerInv, IdsAssumption, NEW id \in MsgIds, ArmTimeout(id)
    PROVE  /\ TimerInv'
           /\ \E t \in TaskIds : LiveFor(t, id)'
           /\ OthersKeepTimers(id)
<1>1. PICK t \in TaskIds :
          /\ Cancelled(id)[t] = FreeTask
          /\ task' = [Cancelled(id) EXCEPT ![t] = [st |-> "sleeping", id |-> id]]
          /\ timeouts' = [timeouts EXCEPT ![id] = t]
  BY DEF ArmTimeout
<1>2. Cancelled(id) \in [TaskIds -> TimerTasks]
  BY DEF Cancelled, TimerInv, FreeTask, TimerTasks
<1>3. \A u \in TaskIds : Cancelled(id)[u] # task[u] => task[u].id = id
  BY DEF Cancelled, TimerInv, HandlesAreLive, LiveFor
<1>4. \A u \in TaskIds : Cancelled(id)[u].st # "free"
                            => Cancelled(id)[u] = task[u]
  BY DEF Cancelled, TimerInv, FreeTask
<1>5. /\ timeouts' \in [MsgIds -> TaskIds \cup {NoTask}]
      /\ task' \in [TaskIds -> TimerTasks]
      /\ task'[t] = [st |-> "sleeping", id |-> id]
      /\ timeouts'[id] = t
  BY <1>1, <1>2 DEF TimerInv, TimerTasks
<1>6. LiveFor(t, id)'
  BY <1>5 DEF LiveFor
<1>7. TaskShape'
  BY <1>1, <1>2, <1>4, <1>5 DEF TaskShape, TimerInv
<1>8. OthersKeepTimers(id)
  <2> SUFFICES ASSUME NEW j \in MsgIds \ {id}
               PROVE  /\ timeouts'[j] = timeouts[j]
                      /\ \A u \in TaskIds : LiveFor(u, j) => LiveFor(u, j)'
    BY DEF OthersKeepTimers
  <2>1. timeouts'[j] = timeouts[j]
    BY <1>1 DEF TimerInv
  <2>2. ASSUME NEW u \in TaskIds, LiveFor(u, j) PROVE LiveFor(u, j)'
    <3>1. Cancelled(id)[u] = task[u]
      BY <1>3, <2>2 DEF LiveFor
    <3>2. u # t
      BY <1>1, <2>2, <3>1 DEF LiveFor, FreeTask
    <3> QED
      BY <1>1, <1>2, <2>2, <3>1, <3>2 DEF LiveFor
  <2> QED
    BY <2>1, <2>2
<1>9. HandlesAreLive'
  BY <1>5, <1>6, <1>8 DEF HandlesAreLive, OthersKeepTimers, TimerInv
<1> QED
  BY <1>5, <1>6, <1>7, <1>8, <1>9 DEF TimerInv

-----------------------------------------------------------------------------
(* Preservation of Core, by kind of step *)

\* The entries other than id's keep what Core reads of them.
OthersKeepEntries(id) ==
    \A j \in MsgIds \ {id} : /\ outbox'[j].st = outbox[j].st
                             /\ outbox'[j].env = outbox[j].env

\* A step that leaves state, envelope and timers of every entry alone.
LEMMA FrameEffect ==
    ASSUME Core, KeepTimers, outbox' \in [MsgIds -> OutboxEntries],
           \A j \in MsgIds : /\ outbox'[j].st = outbox[j].st
                             /\ outbox'[j].env = outbox[j].env,
           \A j \in MsgIds : Sending(j) => Sending(j)',
           phase = "stopped" => phase' = "stopped"
    PROVE  Core'
<1>1. TimerInv'
  BY DEF Core, KeepTimers, TimerInv, TaskShape, HandlesAreLive, LiveFor
<1>2. TerminalHoldsNoTimer'
  BY DEF Core, KeepTimers, TerminalHoldsNoTimer
<1>3. SentHasBackstop'
  BY DEF Core, KeepTimers, SentHasBackstop, LiveFor
<1> QED
  BY <1>1, <1>2, <1>3 DEF Core

\* Steps that set one entry to a state other than .sent and cancel its timer
\* if the state is terminal: the confirmations, commitToRelay, the end of a
\* send that did not reach the radio.
LEMMA SettleEffect ==
    ASSUME Core, IdsAssumption, NEW id \in MsgIds,
           NEW s \in DeliveryStates \ {"sent"},
           outbox' \in [MsgIds -> OutboxEntries],
           outbox'[id].st = s, OthersKeepEntries(id),
           CancelTimeout(id) \/ (KeepTimers /\ ~IsTerminal(s)),
           \A j \in MsgIds \ {id} : Sending(j) => Sending(j)',
           phase' = phase
    PROVE  Core'
<1>1. /\ TimerInv'
      /\ OthersKeepTimers(id)
      /\ IsTerminal(s) => timeouts'[id] = NoTask
  <2>1. CASE CancelTimeout(id)
    BY <2>1, CancelEffect DEF Core
  <2>2. CASE KeepTimers /\ ~IsTerminal(s)
    BY <2>2 DEF Core, KeepTimers, TimerInv, TaskShape, HandlesAreLive,
                LiveFor, OthersKeepTimers
  <2> QED
    BY <2>1, <2>2
<1>2. TerminalHoldsNoTimer'
  BY <1>1 DEF Core, TerminalHoldsNoTimer, OthersKeepTimers, OthersKeepEntries
<1>3. SentHasBackstop'
  <2> SUFFICES ASSUME phase' # "stopped", NEW j \in MsgIds,
                      outbox'[j].st = "sent", outbox'[j].env, ~Sending(j)'
               PROVE  \E t \in TaskIds : LiveFor(t, j)'
    BY DEF SentHasBackstop
  <2>1. j # id /\ outbox[j].st = "sent" /\ outbox[j].env /\ ~Sending(j)
    BY DEF OthersKeepEntries
  <2> QED
    BY <1>1, <2>1 DEF Core, SentHasBackstop, OthersKeepTimers
<1> QED
  BY <1>1, <1>2, <1>3 DEF Core

\* Steps that leave an entry in a non-terminal state with a fresh timer: the
\* end of a send that reached the radio, and the two re-arm calls.
LEMMA TimedEffect ==
    ASSUME Core, IdsAssumption, NEW id \in MsgIds,
           outbox' \in [MsgIds -> OutboxEntries],
           ~IsTerminal(outbox'[id].st), OthersKeepEntries(id),
           ArmTimeout(id),
           \A j \in MsgIds \ {id} : Sending(j) => Sending(j)',
           phase' = phase
    PROVE  Core'
<1>1. TimerInv' /\ OthersKeepTimers(id) /\ \E t \in TaskIds : LiveFor(t, id)'
  BY ArmEffect DEF Core
<1>2. TerminalHoldsNoTimer'
  BY <1>1 DEF Core, TerminalHoldsNoTimer, OthersKeepTimers, OthersKeepEntries
<1>3. SentHasBackstop'
  <2> SUFFICES ASSUME phase' # "stopped", NEW j \in MsgIds, j # id,
                      outbox'[j].st = "sent", outbox'[j].env, ~Sending(j)'
               PROVE  \E t \in TaskIds : LiveFor(t, j)'
    BY <1>1 DEF SentHasBackstop
  <2>1. outbox[j].st = "sent" /\ outbox[j].env /\ ~Sending(j)
    BY DEF OthersKeepEntries
  <2> QED
    BY <1>1, <2>1 DEF Core, SentHasBackstop, OthersKeepTimers
<1> QED
  BY <1>1, <1>2, <1>3 DEF Core

\* A fresh entry: .sent, and either its send is now suspended or it retains
\* no envelope (beginTracking).
LEMMA FreshEffect ==
    ASSUME Core, KeepTimers, NEW id \in MsgIds,
           outbox' \in [MsgIds -> OutboxEntries],
           outbox'[id].st = "sent", OthersKeepEntries(id),
           ~outbox'[id].env \/ Sending(id)',
           \A j \in MsgIds \ {id} : Sending(j) => Sending(j)',
           phase' = phase
    PROVE  Core'
<1>1. TimerInv'
  BY DEF Core, KeepTimers, TimerInv, TaskShape, HandlesAreLive, LiveFor
<1>2. TerminalHoldsNoTimer'
  BY DEF Core, KeepTimers, TerminalHoldsNoTimer, OthersKeepEntries, IsTerminal
<1>3. SentHasBackstop'
  BY DEF Core, KeepTimers, SentHasBackstop, LiveFor, OthersKeepEntries
<1> QED
  BY <1>1, <1>2, <1>3 DEF Core

\* What assigning one field of one entry does.
LEMMA SetStateEffect ==
    ASSUME NEW entries \in [MsgIds -> OutboxEntries], NEW id \in MsgIds,
           NEW s \in DeliveryStates
    PROVE  LET new == [entries EXCEPT ![id].st = s] IN
           /\ new \in [MsgIds -> OutboxEntries]
           /\ new[id].st = s /\ new[id].env = entries[id].env
           /\ new[id].rerouted = entries[id].rerouted
           /\ \A j \in MsgIds \ {id} : new[j] = entries[j]
<1>1. entries[id] \in OutboxEntries
  OBVIOUS
<1>2. /\ [entries[id] EXCEPT !.st = s] \in OutboxEntries
      /\ [entries[id] EXCEPT !.st = s].st = s
      /\ [entries[id] EXCEPT !.st = s].env = entries[id].env
      /\ [entries[id] EXCEPT !.st = s].rerouted = entries[id].rerouted
  BY <1>1 DEF OutboxEntries
<1> QED
  BY <1>2

\* Marking an entry as rerouted changes nothing else of the outbox.
LEMMA SetReroutedEffect ==
    ASSUME NEW entries \in [MsgIds -> OutboxEntries], NEW id \in MsgIds
    PROVE  LET new == [entries EXCEPT ![id].rerouted = TRUE] IN
           /\ new \in [MsgIds -> OutboxEntries]
           /\ new[id].st = entries[id].st /\ new[id].env = entries[id].env
           /\ new[id].rerouted = TRUE
           /\ \A j \in MsgIds \ {id} : new[j] = entries[j]
<1>1. entries[id] \in OutboxEntries
  OBVIOUS
<1>2. /\ [entries[id] EXCEPT !.rerouted = TRUE] \in OutboxEntries
      /\ [entries[id] EXCEPT !.rerouted = TRUE].st = entries[id].st
      /\ [entries[id] EXCEPT !.rerouted = TRUE].env = entries[id].env
      /\ [entries[id] EXCEPT !.rerouted = TRUE].rerouted = TRUE
  BY <1>1 DEF OutboxEntries
<1> QED
  BY <1>2

\* The hand-off that continues or begins a reroute changes no state.
LEMMA HandOffEffect ==
    ASSUME NEW entries \in [MsgIds -> OutboxEntries], NEW c, NEW next \in MsgIds,
           NEW rest, HandOff(c, entries, next, rest)
    PROVE  /\ outbox' \in [MsgIds -> OutboxEntries]
           /\ \A j \in MsgIds : /\ outbox'[j].st = entries[j].st
                                /\ outbox'[j].env = entries[j].env
<1>1. outbox' = [entries EXCEPT ![next].rerouted = TRUE]
  BY DEF HandOff
<1>2. /\ outbox' \in [MsgIds -> OutboxEntries]
      /\ outbox'[next].st = entries[next].st
      /\ outbox'[next].env = entries[next].env
      /\ \A j \in MsgIds \ {next} : outbox'[j] = entries[j]
  BY <1>1, SetReroutedEffect
<1> QED
  BY <1>2

\* The next hand-off of a reroute leaves states and envelopes alone.
LEMMA NextHandOffEffect ==
    ASSUME Shapes, NEW entries \in [MsgIds -> OutboxEntries], NEW c \in Calls,
           calls[c].op = "reroute", NextHandOff(c, entries)
    PROVE  /\ outbox' \in [MsgIds -> OutboxEntries]
           /\ \A j \in MsgIds : /\ outbox'[j].st = entries[j].st
                                /\ outbox'[j].env = entries[j].env
           /\ \A j \in MsgIds : Sending(j) => Sending(j)'
<1>1. calls \in [Calls -> SuspendedCalls] /\ calls[c].todo \subseteq MsgIds
  BY DEF Shapes, SuspendedCalls
<1>2. \A j \in MsgIds : Sending(j) => Sending(j)'
  BY <1>1 DEF NextHandOff, HandOff, Sending
<1> QED
  BY <1>1, <1>2, HandOffEffect DEF NextHandOff

-----------------------------------------------------------------------------
(* Preservation of Core, by action *)

\* `update` records the state in the named entry and touches no other.
LEMMA SetStateSettles ==
    ASSUME Core, NEW id \in MsgIds, NEW s \in DeliveryStates, SetState(id, s)
    PROVE  /\ outbox' \in [MsgIds -> OutboxEntries]
           /\ outbox'[id].st = s
           /\ OthersKeepEntries(id)
<1>1. outbox' = [outbox EXCEPT ![id].st = s] /\ outbox \in [MsgIds -> OutboxEntries]
  BY DEF SetState, Core
<1>2. /\ outbox' \in [MsgIds -> OutboxEntries]
      /\ outbox'[id].st = s
      /\ \A j \in MsgIds \ {id} : outbox'[j] = outbox[j]
  BY <1>1, SetStateEffect
<1> QED
  BY <1>2 DEF OthersKeepEntries

\* send() writes the entry and leaves the timers alone; while the call is in
\* flight the message needs none.
LEMMA SendKeepsCore ==
    ASSUME IndInv, IdsAssumption, NEW c \in Calls, NEW id \in MsgIds \cup ControlIds,
           NEW peer \in Peers \cup {NoPeer}, NEW npub \in BOOLEAN,
           Send(c, id, peer, npub)
    PROVE  Core'
<1>1. /\ \A j \in MsgIds : Sending(j) => Sending(j)'
      /\ id \in MsgIds => Sending(id)'
  BY DEF Send, Sending, Idle, IndInv, Shapes
<1>2. KeepTimers /\ phase' = phase
  BY DEF Send, KeepTimers, Inbound
<1>3. CASE id \in MsgIds
  <2>1. outbox' = [outbox EXCEPT ![id] = OutboxEntry(TRUE, peer, npub)]
    BY <1>3 DEF Send
  <2>2. /\ OutboxEntry(TRUE, peer, npub) \in OutboxEntries
        /\ OutboxEntry(TRUE, peer, npub).st = "sent"
    BY DEF OutboxEntry, OutboxEntries, DeliveryStates
  <2>3. /\ outbox' \in [MsgIds -> OutboxEntries]
        /\ outbox'[id].st = "sent"
        /\ OthersKeepEntries(id)
    BY <1>3, <2>1, <2>2 DEF IndInv, Core, OthersKeepEntries
  <2> QED
    BY <1>1, <1>2, <1>3, <2>3, FreshEffect DEF IndInv
<1>4. CASE id \notin MsgIds
  <2>1. outbox' = outbox
    BY <1>4 DEF Send
  <2> QED
    BY <1>1, <1>2, <2>1, FrameEffect DEF IndInv, Core
<1> QED
  BY <1>3, <1>4

\* The outcome of a send, whichever transport it came from.
LEMMA FinishSendKeepsCore ==
    ASSUME IndInv, IdsAssumption, NEW c \in Calls, NEW s \in DeliveryStates,
           calls[c].op \in {"ble", "relay"}, FinishSend(c, s)
    PROVE  Core'
<1> DEFINE id == calls[c].id
<1>1. /\ \A j \in MsgIds \ {id} : Sending(j) => Sending(j)'
      /\ phase' = phase
  BY DEF FinishSend, Sending, Inbound, IndInv, Shapes
<1>2. CASE id \in MsgIds /\ s = "sent"
  <2>1. SetState(id, s) /\ ArmTimeout(id)
    BY <1>2 DEF FinishSend
  <2>2. /\ outbox' \in [MsgIds -> OutboxEntries]
        /\ ~IsTerminal(outbox'[id].st)
        /\ OthersKeepEntries(id)
    BY <1>2, <2>1, SetStateSettles DEF IndInv, IsTerminal
  <2> HIDE DEF id
  <2> QED
    BY <1>1, <1>2, <2>1, <2>2, TimedEffect DEF IndInv
<1>3. CASE id \in MsgIds /\ s # "sent"
  <2>1. SetState(id, s) /\ (CancelTimeout(id) \/ (KeepTimers /\ ~IsTerminal(s)))
    BY <1>3 DEF FinishSend, Update
  <2>2. /\ outbox' \in [MsgIds -> OutboxEntries]
        /\ outbox'[id].st = s
        /\ OthersKeepEntries(id)
    BY <1>3, <2>1, SetStateSettles DEF IndInv
  <2> HIDE DEF id
  <2> QED
    BY <1>1, <1>3, <2>1, <2>2, SettleEffect DEF IndInv
<1>4. CASE id \notin MsgIds
  <2>1. KeepTimers /\ outbox' = outbox
    BY <1>4 DEF FinishSend, KeepTimers
  <2>2. \A j \in MsgIds : Sending(j) => Sending(j)'
    BY <1>1, <1>4
  <2> QED
    BY <1>1, <2>1, <2>2, FrameEffect DEF IndInv, Core
<1> QED
  BY <1>2, <1>3, <1>4

\* An ack or a publish failure cancels the timer with the state it records.
LEMMA ConfirmKeepsCore ==
    ASSUME IndInv, IdsAssumption, NEW id \in MsgIds,
           NEW s \in DeliveryStates \ {"sent"},
           SetState(id, s), CancelTimeout(id) \/ (KeepTimers /\ ~IsTerminal(s)),
           UNCHANGED <<calls, Inbound>>
    PROVE  Core'
<1>1. /\ outbox' \in [MsgIds -> OutboxEntries]
      /\ outbox'[id].st = s
      /\ OthersKeepEntries(id)
  BY SetStateSettles DEF IndInv
<1>2. (\A j \in MsgIds : Sending(j) => Sending(j)') /\ phase' = phase
  BY DEF Sending, Inbound
<1> QED
  BY <1>1, <1>2, SettleEffect DEF IndInv

\* A reroute the relay took commits the entry to the relay.
LEMMA RerouteTookKeepsCore ==
    ASSUME IndInv, IdsAssumption, NEW c \in Calls, RerouteTook(c)
    PROVE  Core'
<1> DEFINE id == calls[c].id
           committed == [outbox EXCEPT ![id].st = "cast"]
<1>1. id \in MsgIds /\ outbox \in [MsgIds -> OutboxEntries]
  BY DEF RerouteTook, IndInv, Core, Shapes, CallShape
<1>2. /\ committed \in [MsgIds -> OutboxEntries]
      /\ committed[id].st = "cast"
      /\ \A j \in MsgIds \ {id} : committed[j] = outbox[j]
  <2>1. committed = [outbox EXCEPT ![id].st = "cast"] /\ "cast" \in DeliveryStates
    BY DEF DeliveryStates
  <2> HIDE DEF committed, id
  <2> QED
    BY <1>1, <2>1, SetStateEffect
<1>3. /\ outbox' \in [MsgIds -> OutboxEntries]
      /\ outbox'[id].st = "cast"
      /\ OthersKeepEntries(id)
      /\ \A j \in MsgIds : Sending(j) => Sending(j)'
  <2>1. NextHandOff(c, committed) /\ calls[c].op = "reroute"
    BY DEF RerouteTook
  <2> HIDE DEF committed, id
  <2>2. /\ outbox' \in [MsgIds -> OutboxEntries]
        /\ \A j \in MsgIds : /\ outbox'[j].st = committed[j].st
                             /\ outbox'[j].env = committed[j].env
        /\ \A j \in MsgIds : Sending(j) => Sending(j)'
    BY <1>2, <2>1, NextHandOffEffect DEF IndInv
  <2> QED
    BY <1>1, <1>2, <2>2 DEF OthersKeepEntries
<1>4. CancelTimeout(id) /\ phase' = phase
  BY DEF RerouteTook, Inbound
<1> HIDE DEF committed, id
<1> QED
  BY <1>1, <1>3, <1>4, SettleEffect DEF IndInv, DeliveryStates

\* A timer elapsing, firing late, or finding its message already settled.
LEMMA TimerKeepsCore ==
    ASSUME IndInv, IdsAssumption, NEW t \in TaskIds,
           TimerElapses(t) \/ TimeoutFired(t)
    PROVE  Core'
<1>1. CASE TimerElapses(t)
  <2>1. /\ task \in [TaskIds -> TimerTasks]
        /\ task' = [task EXCEPT ![t] = [task[t] EXCEPT !.st = "elapsed"]]
        /\ task[t].st = "sleeping"
    BY <1>1 DEF TimerElapses, IndInv, Core, TimerInv
  <2>2. /\ [task[t] EXCEPT !.st = "elapsed"] \in TimerTasks
        /\ [task[t] EXCEPT !.st = "elapsed"].id = task[t].id
        /\ [task[t] EXCEPT !.st = "elapsed"].st = "elapsed"
    BY <2>1 DEF TimerTasks
  <2>3. /\ task' \in [TaskIds -> TimerTasks]
        /\ \A u \in TaskIds : task'[u].id = task[u].id
        /\ \A u \in TaskIds : task'[u].st = "free" <=> task[u].st = "free"
    BY <2>1, <2>2
  <2>4. UNCHANGED <<outbox, timeouts, calls, phase>>
    BY <1>1 DEF TimerElapses, Inbound
  <2>5. \A u \in TaskIds, j \in MsgIds : LiveFor(u, j) <=> LiveFor(u, j)'
    BY <2>3 DEF LiveFor
  <2>6. TimerInv'
    BY <2>3, <2>4, <2>5 DEF IndInv, Core, TimerInv, TaskShape, HandlesAreLive
  <2>7. TerminalHoldsNoTimer' /\ SentHasBackstop'
    BY <2>4, <2>5 DEF IndInv, Core, TerminalHoldsNoTimer, SentHasBackstop,
                      Sending
  <2> QED
    BY <2>4, <2>6, <2>7 DEF IndInv, Core
<1>2. CASE TimeoutFired(t)
  <2> DEFINE id == task[t].id
  <2>1. id \in MsgIds
    BY <1>2 DEF TimeoutFired, IndInv, Core, TimerInv, TaskShape
  <2>2. /\ outbox' \in [MsgIds -> OutboxEntries]
        /\ outbox'[id].st # "sent"
        /\ OthersKeepEntries(id)
    <3>1. CASE Tracked(id) /\ ~IsTerminal(outbox[id].st)
      <4>1. SetState(id, "notDelivered")
        BY <1>2, <3>1 DEF TimeoutFired
      <4> QED
        BY <2>1, <4>1, SetStateSettles DEF IndInv, DeliveryStates
    <3>2. CASE ~(Tracked(id) /\ ~IsTerminal(outbox[id].st))
      BY <1>2, <3>2 DEF TimeoutFired, IndInv, Core, OthersKeepEntries,
                        Tracked, IsTerminal
    <3> QED
      BY <3>1, <3>2
  <2>3. /\ timeouts \in [MsgIds -> TaskIds \cup {NoTask}]
        /\ task \in [TaskIds -> TimerTasks]
        /\ task' = [task EXCEPT ![t] = FreeTask]
        /\ timeouts' = [timeouts EXCEPT ![id] = NoTask]
        /\ UNCHANGED <<calls, phase>>
    BY <1>2 DEF TimeoutFired, IndInv, Core, TimerInv, Inbound
  <2>4. OthersKeepTimers(id) /\ timeouts'[id] = NoTask
    BY <2>1, <2>3 DEF OthersKeepTimers, LiveFor
  <2>5. TimerInv'
    <3>1. /\ timeouts' \in [MsgIds -> TaskIds \cup {NoTask}]
          /\ task' \in [TaskIds -> TimerTasks]
      BY <2>3 DEF TimerTasks, FreeTask
    <3>2. TaskShape'
      BY <2>3 DEF TaskShape, FreeTask, IndInv, Core, TimerInv
    <3>3. HandlesAreLive'
      BY <2>4, <3>1 DEF HandlesAreLive, OthersKeepTimers, IndInv, Core, TimerInv
    <3> QED
      BY <3>1, <3>2, <3>3 DEF TimerInv
  <2> HIDE DEF id
  <2>6. TerminalHoldsNoTimer'
    BY <2>2, <2>4 DEF IndInv, Core, TerminalHoldsNoTimer, OthersKeepTimers,
                      OthersKeepEntries
  <2>7. SentHasBackstop'
    <3> SUFFICES ASSUME phase' # "stopped", NEW j \in MsgIds,
                        outbox'[j].st = "sent", outbox'[j].env, ~Sending(j)'
                 PROVE  \E u \in TaskIds : LiveFor(u, j)'
      BY DEF SentHasBackstop
    <3>1. /\ j # id /\ outbox[j].st = "sent" /\ outbox[j].env
          /\ ~Sending(j) /\ phase # "stopped"
      BY <2>2, <2>3 DEF OthersKeepEntries, Sending
    <3> QED
      BY <2>4, <3>1 DEF IndInv, Core, SentHasBackstop, OthersKeepTimers
  <2> QED
    BY <2>2, <2>5, <2>6, <2>7 DEF Core
<1> QED
  BY <1>1, <1>2

\* stop() cancels every handle.
LEMMA StopKeepsCore ==
    ASSUME IndInv, IdsAssumption, Stop
    PROVE  Core'
<1>1. /\ timeouts' \in [MsgIds -> TaskIds \cup {NoTask}]
      /\ \A id \in MsgIds : timeouts'[id] = NoTask
      /\ outbox' = outbox /\ phase' = "stopped"
  BY DEF Stop
<1>2. /\ task' \in [TaskIds -> TimerTasks]
      /\ \A t \in TaskIds : task'[t].st # "free" => task'[t] = task[t]
  BY DEF Stop, FreeTask, TimerTasks, IndInv, Core, TimerInv
<1>3. TimerInv'
  BY <1>1, <1>2 DEF IndInv, Core, TimerInv, TaskShape, HandlesAreLive
<1> QED
  BY <1>1, <1>3 DEF IndInv, Core, TerminalHoldsNoTimer, SentHasBackstop

-----------------------------------------------------------------------------
(* Preservation of Shapes *)

\* Only the four actions that hear of an id put it in the seen-cache.
LEMMA SeenStep ==
    ASSUME Shapes, BoundsAssumption, Next
    PROVE  /\ seen' \in Seq(Ids)
           /\ emitted' \subseteq MsgIds \cup ControlIds
<1>1. ASSUME NEW id \in Ids
      PROVE  Insert(seen, SeenCapacity, id) \in Seq(Ids)
  BY <1>1, InsertType DEF Shapes, BoundsAssumption
<1>2. CASE UNCHANGED Dedup
  BY <1>2 DEF Dedup, Shapes
<1>3. ASSUME NEW id \in MsgIds \cup ControlIds, MarkSeen(id)
      PROVE  /\ seen' \in Seq(Ids)
             /\ emitted' \subseteq MsgIds \cup ControlIds
  BY <1>1, <1>3 DEF MarkSeen, Shapes, Ids
<1>4. ASSUME NEW kind \in Kinds, NEW id \in Ids, NEW ttl \in 0..1,
             HandleInbound(kind, id, ttl)
      PROVE  /\ seen' \in Seq(Ids)
             /\ emitted' \subseteq MsgIds \cup ControlIds
  BY <1>1, <1>4 DEF HandleInbound, Shapes
<1>5. \/ UNCHANGED Dedup
      \/ \E id \in MsgIds \cup ControlIds : MarkSeen(id)
      \/ \E kind \in Kinds, id \in Ids, ttl \in 0..1 : HandleInbound(kind, id, ttl)
  BY DEF Next, CallResumes, BleSent, BleNoPeersNoRelay, BleNoPeersTryRelay,
         BleFailed, RelayTook, RelayMissed, FinishSend, PublishReturned,
         RerouteTook, RerouteMissed, Send, Resend, PublishOverNostr,
         RerouteToNostr, BeginTracking, StartDeliveryTimeout, ExtendTimeout,
         Rearm, MarkFindingPath, ConfirmFailure, ConfirmDelivery, Confirm,
         CommitToRelay, TimerElapses, TimeoutFired, InboundRelayed,
         InboundReceived, Start, Stop
<1> QED
  BY <1>2, <1>3, <1>4, <1>5

\* The inbound pipeline and the life cycle.
LEMMA InboundStep ==
    ASSUME Shapes, Next
    PROVE  /\ inb' \in [Kinds -> InboundSlots]
           /\ InboundShape'
           /\ phase' \in {"new", "running", "stopped"}
           /\ opened' \in [Ids -> Nat]
<1>1. CASE UNCHANGED Inbound
  BY <1>1 DEF Inbound, Shapes, InboundShape
<1>2. ASSUME NEW kind \in Kinds, NEW id \in Ids, NEW ttl \in 0..1,
             HandleInbound(kind, id, ttl)
      PROVE  /\ inb' \in [Kinds -> InboundSlots]
             /\ InboundShape'
             /\ phase' = phase /\ opened' = opened
  <2>1. CASE UNCHANGED inb
    BY <1>2, <2>1 DEF HandleInbound, Shapes, InboundShape
  <2>2. CASE ~UNCHANGED inb
    <3>1. PICK stage \in {"relay", "receive"} :
              inb' = [inb EXCEPT ![kind] = [id |-> id, stage |-> stage]]
      BY <1>2, <2>2 DEF HandleInbound
    <3>2. [id |-> id, stage |-> stage] \in InboundSlots
      BY DEF InboundSlots
    <3>3. inb' \in [Kinds -> InboundSlots]
      BY <3>1, <3>2 DEF Shapes
    <3>4. InboundShape'
      BY <3>1 DEF Shapes, InboundShape
    <3> QED
      BY <1>2, <3>3, <3>4 DEF HandleInbound
  <2> QED
    BY <2>1, <2>2
<1>3. ASSUME NEW kind \in Kinds, InboundRelayed(kind) \/ InboundReceived(kind)
      PROVE  /\ inb' \in [Kinds -> InboundSlots]
             /\ InboundShape'
             /\ phase' = phase /\ opened' \in [Ids -> Nat]
  <2>1. CASE InboundRelayed(kind)
    <3>1. /\ inb[kind].stage = "relay" /\ opened' = opened /\ phase' = phase
          /\ inb' = [inb EXCEPT ![kind] = [inb[kind] EXCEPT !.stage = "receive"]]
      BY <2>1 DEF InboundRelayed
    <3>2. inb[kind].id \in Ids
      BY <3>1 DEF Shapes, InboundShape
    <3>3. [inb[kind] EXCEPT !.stage = "receive"]
             = [stage |-> "receive", id |-> inb[kind].id]
      BY DEF Shapes, InboundSlots
    <3>4. [stage |-> "receive", id |-> inb[kind].id] \in InboundSlots
      BY <3>2 DEF InboundSlots
    <3> QED
      BY <3>1, <3>2, <3>3, <3>4 DEF Shapes, InboundShape
  <2>2. CASE InboundReceived(kind)
    BY <2>2 DEF InboundReceived, Shapes, InboundShape, IdleInb, InboundSlots
  <2> QED
    BY <1>3, <2>1, <2>2
<1>4. CASE Start \/ Stop
  BY <1>4 DEF Start, Stop, Shapes, InboundShape
<1>5. \/ UNCHANGED Inbound
      \/ \E kind \in Kinds, id \in Ids, ttl \in 0..1 : HandleInbound(kind, id, ttl)
      \/ \E kind \in Kinds : InboundRelayed(kind) \/ InboundReceived(kind)
      \/ Start \/ Stop
  BY DEF Next, CallResumes, BleSent, BleNoPeersNoRelay, BleNoPeersTryRelay,
         BleFailed, RelayTook, RelayMissed, FinishSend, PublishReturned,
         RerouteTook, RerouteMissed, Send, Resend, PublishOverNostr,
         RerouteToNostr, BeginTracking, StartDeliveryTimeout, ExtendTimeout,
         Rearm, MarkFindingPath, ConfirmFailure, ConfirmDelivery, Confirm,
         CommitToRelay, TimerElapses, TimeoutFired
<1> QED
  BY <1>1, <1>2, <1>3, <1>4, <1>5 DEF Shapes

\* A call slot given a well-shaped call keeps the table of calls well shaped.
LEMMA CallUpdate ==
    ASSUME Shapes, NEW c \in Calls, NEW call \in SuspendedCalls,
           call.id \in MsgIds \cup ControlIds,
           call.op = "reroute" => call.id \in MsgIds,
           calls' = [calls EXCEPT ![c] = call]
    PROVE  calls' \in [Calls -> SuspendedCalls] /\ CallShape'
<1>1. calls' \in [Calls -> SuspendedCalls]
  BY DEF Shapes
<1>2. \A d \in Calls : calls'[d] = IF d = c THEN call ELSE calls[d]
  BY DEF Shapes
<1> QED
  BY <1>1, <1>2 DEF Shapes, CallShape

\* A call that returns is idle again.
LEMMA CallReturn ==
    ASSUME Shapes, NEW c \in Calls, calls' = [calls EXCEPT ![c] = IdleCall]
    PROVE  calls' \in [Calls -> SuspendedCalls] /\ CallShape'
<1>1. IdleCall \in SuspendedCalls /\ IdleCall.op = "idle"
  BY DEF SuspendedCalls, IdleCall
<1> QED
  BY <1>1 DEF Shapes, CallShape

\* What the hand-off of a reroute does to the calls and to the ghost count.
LEMMA NextHandOffCalls ==
    ASSUME Shapes, NEW c \in Calls, calls[c].op = "reroute",
           NEW entries, NextHandOff(c, entries)
    PROVE  /\ calls' \in [Calls -> SuspendedCalls] /\ CallShape'
           /\ handoffs' \in [MsgIds -> Nat]
<1>1. calls[c].todo \subseteq MsgIds
  BY DEF Shapes, SuspendedCalls
<1>2. CASE calls[c].todo = {}
  BY <1>2, CallReturn DEF NextHandOff, Shapes
<1>3. CASE calls[c].todo # {}
  <2>1. PICK next \in calls[c].todo :
            HandOff(c, entries, next, calls[c].todo \ {next})
    BY <1>3 DEF NextHandOff
  <2>2. next \in MsgIds /\ calls[c].todo \ {next} \in SUBSET MsgIds
    BY <1>1
  <2>3. [op |-> "reroute", id |-> next, npub |-> TRUE,
         todo |-> calls[c].todo \ {next}] \in SuspendedCalls
    BY <2>2 DEF SuspendedCalls
  <2>4. calls' \in [Calls -> SuspendedCalls] /\ CallShape'
    BY <2>1, <2>2, <2>3, CallUpdate DEF HandOff
  <2> QED
    BY <2>1, <2>2, <2>4 DEF HandOff, Shapes
<1> QED
  BY <1>2, <1>3

\* The calls, the update port and the ghost count.
CallsOK ==
    /\ calls \in [Calls -> SuspendedCalls]
    /\ CallShape
    /\ out \in [id : MsgIds \cup {NoId}, st : DeliveryStates \cup {"none"}]
    /\ handoffs \in [MsgIds -> Nat]

\* A step without a delivery update publishes none.
LEMMA QuietOut ==
    ASSUME Quiet
    PROVE  out' \in [id : MsgIds \cup {NoId}, st : DeliveryStates \cup {"none"}]
  BY DEF Quiet, NoUpdate

\* A step with one publishes a delivery state of a message.
LEMMA SetStateOut ==
    ASSUME NEW id \in MsgIds, NEW s \in DeliveryStates, out' = [id |-> id, st |-> s]
    PROVE  out' \in [id : MsgIds \cup {NoId}, st : DeliveryStates \cup {"none"}]
  OBVIOUS

\* Every step keeps the shape of the suspended calls.
LEMMA CallStep ==
    ASSUME IndInv, Next
    PROVE  CallsOK'
<1> USE DEF IndInv
<1>1. ASSUME NEW c \in Calls, NEW id \in MsgIds \cup ControlIds,
             NEW peer \in Peers \cup {NoPeer}, NEW npub \in BOOLEAN,
             Send(c, id, peer, npub)
      PROVE  CallsOK'
  <2>1. [op |-> "ble", id |-> id, npub |-> npub, todo |-> {}] \in SuspendedCalls
    BY DEF SuspendedCalls
  <2>2. calls' \in [Calls -> SuspendedCalls] /\ CallShape'
    BY <1>1, <2>1, CallUpdate DEF Send
  <2>3. handoffs' = handoffs \/ handoffs' = [handoffs EXCEPT ![id] = 0]
    BY <1>1 DEF Send
  <2>4. handoffs' \in [MsgIds -> Nat]
    BY <2>3 DEF Shapes
  <2> QED
    BY <1>1, <2>2, <2>4, QuietOut DEF Send, CallsOK
<1>2. ASSUME NEW c \in Calls, NEW s \in DeliveryStates, FinishSend(c, s)
      PROVE  CallsOK'
  <2>1. calls' \in [Calls -> SuspendedCalls] /\ CallShape'
    BY <1>2, CallReturn DEF FinishSend
  <2>2. handoffs' \in [MsgIds -> Nat]
    BY <1>2 DEF FinishSend, Shapes
  <2>3. Quiet \/ (calls[c].id \in MsgIds /\ out' = [id |-> calls[c].id, st |-> s])
    BY <1>2 DEF FinishSend, SetState, Update
  <2>4. out' \in [id : MsgIds \cup {NoId}, st : DeliveryStates \cup {"none"}]
    BY <2>3, QuietOut, SetStateOut
  <2> QED
    BY <2>1, <2>2, <2>4 DEF CallsOK
<1>3. ASSUME NEW c \in Calls, CallResumes(c) PROVE CallsOK'
  <2>1. CASE BleNoPeersTryRelay(c)
    <3>1. /\ calls[c].op = "ble" /\ calls[c].npub
          /\ calls' = [calls EXCEPT ![c] = [calls[c] EXCEPT !.op = "relay"]]
      BY <2>1 DEF BleNoPeersTryRelay
    <3>2. /\ [calls[c] EXCEPT !.op = "relay"] \in SuspendedCalls
          /\ [calls[c] EXCEPT !.op = "relay"].id \in MsgIds \cup ControlIds
          /\ [calls[c] EXCEPT !.op = "relay"].op = "relay"
      BY <3>1 DEF Shapes, CallShape, SuspendedCalls
    <3>3. calls' \in [Calls -> SuspendedCalls] /\ CallShape'
      BY <3>1, <3>2, CallUpdate
    <3> QED
      BY <2>1, <3>3, QuietOut DEF BleNoPeersTryRelay, CallsOK, Shapes
  <2>2. CASE PublishReturned(c)
    BY <2>2, CallReturn, QuietOut DEF PublishReturned, CallsOK, Shapes
  <2>3. CASE RerouteTook(c)
    <3>1. calls[c].id \in MsgIds
      BY <2>3 DEF RerouteTook, Shapes, CallShape
    <3>2. out' \in [id : MsgIds \cup {NoId}, st : DeliveryStates \cup {"none"}]
      BY <2>3, <3>1, SetStateOut DEF RerouteTook, DeliveryStates
    <3> QED
      BY <2>3, <3>2, NextHandOffCalls DEF RerouteTook, CallsOK
  <2>4. CASE RerouteMissed(c)
    BY <2>4, NextHandOffCalls, QuietOut DEF RerouteMissed, CallsOK
  <2>5. CASE \E s \in DeliveryStates : FinishSend(c, s)
    BY <1>2, <2>5
  <2> QED
    BY <1>3, <2>1, <2>2, <2>3, <2>4, <2>5
    DEF CallResumes, BleSent, BleNoPeersNoRelay, BleFailed, RelayTook,
        RelayMissed, DeliveryStates
<1>4. ASSUME NEW c \in Calls, NEW id \in MsgIds \cup ControlIds,
             PublishOverNostr(c, id)
      PROVE  CallsOK'
  <2>1. [op |-> "publish", id |-> id, npub |-> TRUE, todo |-> {}] \in SuspendedCalls
    BY DEF SuspendedCalls
  <2>2. calls' \in [Calls -> SuspendedCalls] /\ CallShape'
    BY <1>4, <2>1, CallUpdate DEF PublishOverNostr
  <2> QED
    BY <1>4, <2>2, QuietOut DEF PublishOverNostr, CallsOK, Shapes
<1>5. ASSUME NEW c \in Calls, NEW gone, RerouteToNostr(c, gone)
      PROVE  CallsOK'
  <2>1. PICK next \in Eligible(gone) :
            HandOff(c, outbox, next, Eligible(gone) \ {next})
    BY <1>5 DEF RerouteToNostr
  <2>2. next \in MsgIds /\ Eligible(gone) \ {next} \in SUBSET MsgIds
    BY DEF Eligible
  <2>3. [op |-> "reroute", id |-> next, npub |-> TRUE,
         todo |-> Eligible(gone) \ {next}] \in SuspendedCalls
    BY <2>2 DEF SuspendedCalls
  <2>4. calls' \in [Calls -> SuspendedCalls] /\ CallShape'
    BY <2>1, <2>2, <2>3, CallUpdate DEF HandOff
  <2>5. handoffs' \in [MsgIds -> Nat]
    BY <2>1, <2>2 DEF HandOff, Shapes
  <2> QED
    BY <1>5, <2>4, <2>5, QuietOut DEF RerouteToNostr, CallsOK
<1>6. ASSUME NEW id \in MsgIds, BeginTracking(id) PROVE CallsOK'
  BY <1>6, QuietOut DEF BeginTracking, CallsOK, Shapes, CallShape
<1>7. ASSUME NEW id \in MsgIds, NEW s \in DeliveryStates, SetState(id, s),
             UNCHANGED <<calls, handoffs>>
      PROVE  CallsOK'
  BY <1>7, SetStateOut DEF SetState, CallsOK, Shapes, CallShape
<1>8. CASE Quiet /\ UNCHANGED <<calls, handoffs>>
  BY <1>8, QuietOut DEF CallsOK, Shapes, CallShape
<1>9. ASSUME NEW t \in TaskIds, TimeoutFired(t) PROVE CallsOK'
  <2>1. task[t].id \in MsgIds
    BY <1>9 DEF TimeoutFired, Core, TimerInv, TaskShape
  <2> QED
    BY <1>7, <1>8, <1>9, <2>1 DEF TimeoutFired, DeliveryStates
<1>10. ASSUME NEW id \in MsgIds,
              \/ StartDeliveryTimeout(id) \/ ExtendTimeout(id)
              \/ MarkFindingPath(id) \/ ConfirmFailure(id) \/ CommitToRelay(id)
              \/ \E hops \in 0..1 : ConfirmDelivery(id, hops)
       PROVE  CallsOK'
  <2>1. \/ Quiet
        \/ \E s \in DeliveryStates : SetState(id, s)
    BY <1>10 DEF StartDeliveryTimeout, ExtendTimeout, Rearm, MarkFindingPath,
                 ConfirmFailure, ConfirmDelivery, Confirm, Update,
                 CommitToRelay, DeliveryStates
  <2>2. UNCHANGED <<calls, handoffs>>
    BY <1>10 DEF StartDeliveryTimeout, ExtendTimeout, Rearm, MarkFindingPath,
                 ConfirmFailure, ConfirmDelivery, Confirm, CommitToRelay
  <2> QED
    BY <1>7, <1>8, <2>1, <2>2
<1>11. ASSUME \/ \E t \in TaskIds : TimerElapses(t)
              \/ \E kind \in Kinds, id \in Ids, ttl \in 0..1 :
                    HandleInbound(kind, id, ttl)
              \/ \E kind \in Kinds : InboundRelayed(kind) \/ InboundReceived(kind)
              \/ Start \/ Stop
       PROVE  CallsOK'
  <2>1. Quiet /\ UNCHANGED <<calls, handoffs>>
    BY <1>11 DEF TimerElapses, HandleInbound, InboundRelayed, InboundReceived,
                 Start, Stop
  <2> QED
    BY <1>8, <2>1
<1>12. ASSUME NEW c \in Calls, NEW id \in MsgIds, Resend(c, id) PROVE CallsOK'
  BY <1>1, <1>12 DEF Resend
<1> QED
  BY <1>1, <1>3, <1>4, <1>5, <1>6, <1>9, <1>10, <1>11, <1>12 DEF Next

-----------------------------------------------------------------------------
(* The invariant is inductive *)

\* A router with an empty outbox satisfies the invariant.
LEMMA InitEstablishes == ASSUME Init PROVE IndInv
<1> USE DEF Init
<1>1. outbox \in [MsgIds -> OutboxEntries]
  <2>1. NoEntry \in OutboxEntries
    BY DEF NoEntry, OutboxEntries
  <2> QED
    BY <2>1
<1>2. TimerInv
  BY DEF TimerInv, TaskShape, HandlesAreLive, FreeTask, TimerTasks
<1>3. TerminalHoldsNoTimer /\ SentHasBackstop
  BY DEF TerminalHoldsNoTimer, SentHasBackstop, NoEntry
<1>4. calls \in [Calls -> SuspendedCalls] /\ CallShape
  <2>1. IdleCall \in SuspendedCalls /\ IdleCall.op = "idle"
    BY DEF IdleCall, SuspendedCalls
  <2> QED
    BY <2>1 DEF CallShape
<1>5. inb \in [Kinds -> InboundSlots] /\ InboundShape
  BY DEF InboundSlots, InboundShape, IdleInb
<1>6. out \in [id : MsgIds \cup {NoId}, st : DeliveryStates \cup {"none"}]
  BY DEF NoUpdate
<1>7. seen \in Seq(Ids)
  OBVIOUS
<1>8. Shapes
  BY <1>4, <1>5, <1>6, <1>7 DEF Shapes
<1> QED
  BY <1>1, <1>2, <1>3, <1>8 DEF IndInv, Core

\* Every step keeps the outbox and the timers in agreement.
LEMMA CoreStep ==
    ASSUME IndInv, IdsAssumption, Next
    PROVE  Core'
<1>1. ASSUME NEW c \in Calls, CallResumes(c) PROVE Core'
  <2>1. CASE BleSent(c)
    BY <2>1, FinishSendKeepsCore DEF BleSent, DeliveryStates
  <2>2. CASE BleNoPeersNoRelay(c)
    BY <2>2, FinishSendKeepsCore DEF BleNoPeersNoRelay, DeliveryStates
  <2>3. CASE BleFailed(c)
    BY <2>3, FinishSendKeepsCore DEF BleFailed, DeliveryStates
  <2>4. CASE RelayTook(c)
    BY <2>4, FinishSendKeepsCore DEF RelayTook, DeliveryStates
  <2>5. CASE RelayMissed(c)
    BY <2>5, FinishSendKeepsCore DEF RelayMissed, DeliveryStates
  <2>6. CASE BleNoPeersTryRelay(c)
    <3>1. \A j \in MsgIds : Sending(j) => Sending(j)'
      <4>1. \A d \in Calls : /\ calls'[d].id = calls[d].id
                             /\ calls[d].op \in {"ble", "relay"}
                                  => calls'[d].op \in {"ble", "relay"}
        BY <2>6 DEF BleNoPeersTryRelay, IndInv, Shapes, SuspendedCalls
      <4> QED
        BY <4>1 DEF Sending
    <3> QED
      BY <2>6, <3>1, FrameEffect
      DEF BleNoPeersTryRelay, KeepTimers, Inbound, IndInv, Core
  <2>7. CASE PublishReturned(c)
    <3>1. \A j \in MsgIds : Sending(j) => Sending(j)'
      BY <2>7 DEF PublishReturned, Sending, IndInv, Shapes
    <3> QED
      BY <2>7, <3>1, FrameEffect
      DEF PublishReturned, KeepTimers, Inbound, IndInv, Core
  <2>8. CASE RerouteTook(c)
    BY <2>8, RerouteTookKeepsCore
  <2>9. CASE RerouteMissed(c)
    BY <2>9, NextHandOffEffect, FrameEffect
    DEF RerouteMissed, KeepTimers, Inbound, IndInv, Core
  <2> QED
    BY <1>1, <2>1, <2>2, <2>3, <2>4, <2>5, <2>6, <2>7, <2>8, <2>9
    DEF CallResumes
<1>2. ASSUME NEW c \in Calls, NEW id \in MsgIds \cup ControlIds,
             NEW peer \in Peers \cup {NoPeer}, NEW npub \in BOOLEAN,
             Send(c, id, peer, npub)
      PROVE  Core'
  BY <1>2, SendKeepsCore
<1>3. ASSUME NEW c \in Calls, NEW id \in MsgIds, Resend(c, id) PROVE Core'
  BY <1>2, <1>3 DEF Resend
<1>4. ASSUME NEW c \in Calls, NEW id \in MsgIds \cup ControlIds,
             PublishOverNostr(c, id)
      PROVE  Core'
  <2>1. \A j \in MsgIds : Sending(j) => Sending(j)'
    BY <1>4 DEF PublishOverNostr, Sending, Idle, IndInv, Shapes
  <2> QED
    BY <1>4, <2>1, FrameEffect
    DEF PublishOverNostr, KeepTimers, Inbound, IndInv, Core
<1>5. ASSUME NEW c \in Calls, NEW gone, RerouteToNostr(c, gone)
      PROVE  Core'
  <2>1. PICK next \in Eligible(gone) :
            HandOff(c, outbox, next, Eligible(gone) \ {next})
    BY <1>5 DEF RerouteToNostr
  <2>2. next \in MsgIds
    BY DEF Eligible
  <2>3. /\ outbox' \in [MsgIds -> OutboxEntries]
        /\ \A j \in MsgIds : /\ outbox'[j].st = outbox[j].st
                             /\ outbox'[j].env = outbox[j].env
    BY <2>1, <2>2, HandOffEffect DEF IndInv, Core
  <2>4. \A j \in MsgIds : Sending(j) => Sending(j)'
    BY <1>5, <2>1 DEF RerouteToNostr, HandOff, Sending, Idle, IndInv, Shapes
  <2> QED
    BY <1>5, <2>3, <2>4, FrameEffect
    DEF RerouteToNostr, KeepTimers, Inbound, IndInv
<1>6. ASSUME NEW id \in MsgIds, BeginTracking(id) PROVE Core'
  <2>1. outbox' = [outbox EXCEPT ![id] = OutboxEntry(FALSE, NoPeer, FALSE)]
    BY <1>6 DEF BeginTracking
  <2>2. /\ OutboxEntry(FALSE, NoPeer, FALSE) \in OutboxEntries
        /\ OutboxEntry(FALSE, NoPeer, FALSE).st = "sent"
        /\ ~OutboxEntry(FALSE, NoPeer, FALSE).env
    BY DEF OutboxEntry, OutboxEntries, DeliveryStates
  <2>3. /\ outbox' \in [MsgIds -> OutboxEntries]
        /\ outbox'[id].st = "sent" /\ ~outbox'[id].env
        /\ OthersKeepEntries(id)
    BY <2>1, <2>2 DEF IndInv, Core, OthersKeepEntries
  <2>4. (\A j \in MsgIds : Sending(j) => Sending(j)') /\ KeepTimers /\ phase' = phase
    BY <1>6 DEF BeginTracking, Sending, KeepTimers, Inbound
  <2> QED
    BY <2>3, <2>4, FreshEffect DEF IndInv
<1>7. ASSUME NEW id \in MsgIds, Rearm(id) PROVE Core'
  <2>1. /\ ArmTimeout(id) /\ outbox' = outbox /\ phase' = phase
        /\ ~IsTerminal(outbox'[id].st)
        /\ \A j \in MsgIds : Sending(j) => Sending(j)'
    BY <1>7 DEF Rearm, Timeable, IsTerminal, Inbound, Sending
  <2> QED
    BY <2>1, TimedEffect DEF IndInv, Core, OthersKeepEntries
<1>8. ASSUME NEW id \in MsgIds,
             \/ MarkFindingPath(id) \/ ConfirmFailure(id) \/ CommitToRelay(id)
             \/ \E hops \in 0..1 : ConfirmDelivery(id, hops)
      PROVE  Core'
  <2>1. PICK s \in DeliveryStates \ {"sent"} :
            /\ SetState(id, s)
            /\ CancelTimeout(id) \/ (KeepTimers /\ ~IsTerminal(s))
    BY <1>8 DEF MarkFindingPath, ConfirmFailure, ConfirmDelivery, Confirm,
                Update, CommitToRelay, DeliveryStates
  <2>2. UNCHANGED <<calls, Inbound>>
    BY <1>8 DEF MarkFindingPath, ConfirmFailure, ConfirmDelivery, Confirm,
                CommitToRelay
  <2> QED
    BY <2>1, <2>2, ConfirmKeepsCore
<1>9. ASSUME NEW t \in TaskIds, TimerElapses(t) \/ TimeoutFired(t) PROVE Core'
  BY <1>9, TimerKeepsCore
<1>10. ASSUME \/ \E kind \in Kinds, id \in Ids, ttl \in 0..1 :
                    HandleInbound(kind, id, ttl)
              \/ \E kind \in Kinds : InboundRelayed(kind) \/ InboundReceived(kind)
              \/ Start
       PROVE  Core'
  <2>1. /\ UNCHANGED <<outbox, timeouts, task, calls>>
        /\ phase = "stopped" => phase' = "stopped"
    BY <1>10 DEF HandleInbound, InboundRelayed, InboundReceived, Start
  <2> QED
    BY <2>1, FrameEffect DEF KeepTimers, Sending, IndInv, Core
<1>11. CASE Stop
  BY <1>11, StopKeepsCore
<1> QED
  BY <1>1, <1>2, <1>3, <1>4, <1>5, <1>6, <1>7, <1>8, <1>9, <1>10, <1>11
  DEF Next, StartDeliveryTimeout, ExtendTimeout

\* IndInv is preserved by every step.
LEMMA IndInvStep ==
    ASSUME IndInv, [Next]_vars
    PROVE  IndInv'
<1>1. CASE Next
  BY <1>1, CoreStep, CallStep, InboundStep, SeenStep, IdsAssumption,
     BoundsAssumption
  DEF IndInv, Shapes, CallsOK
<1>2. CASE UNCHANGED vars
  BY <1>2 DEF vars, IndInv, Core, Shapes, TimerInv, TaskShape, HandlesAreLive,
              LiveFor, TerminalHoldsNoTimer, SentHasBackstop, Sending,
              CallShape, InboundShape
<1> QED
  BY <1>1, <1>2

\* The inductive invariant holds in every reachable state of the router.
THEOREM Inductive == Spec => []IndInv
  BY InitEstablishes, IndInvStep, PTL DEF Spec

\* Every state the router actor reaches is well typed: in particular an
\* outbox entry only ever holds one of the delivery states, whatever the hop
\* count an acknowledgement carries.
THEOREM TypeCorrect == Spec => []TypeOK
<1>1. IndInv => TypeOK
  BY DEF IndInv, Core, Shapes, TimerInv, TypeOK
<1> QED
  BY <1>1, Inductive, PTL

\* Outbox, handles and tasks agree: every stored timer handle is a live task of
\* its own message, so cancelTimeout and armTimeout never stop another message's
\* timer, and no terminal entry holds a handle.
THEOREM TimersAgree == Spec => []TimersConsistent
<1>1. IndInv => TimersConsistent
  BY DEF IndInv, Core, TimerInv, TimersConsistent
<1> QED
  BY <1>1, Inductive, PTL

\* A text that reads .sent is timed by a live task or still being sent.
THEOREM SentTimed == Spec => []SentHasBackstop
<1>1. IndInv => SentHasBackstop
  BY DEF IndInv, Core
<1> QED
  BY <1>1, Inductive, PTL

-----------------------------------------------------------------------------
(* At most one hand-off per entry, when one rerouteToNostr runs at a time *)

RerouteInv ==
    /\ \A id \in MsgIds : handoffs[id] <= IF outbox[id].rerouted THEN 1 ELSE 0
    /\ \A c \in Calls : calls[c].op = "reroute" =>
          \A id \in calls[c].todo : ~outbox[id].rerouted
    /\ \A c, d \in Calls : (calls[c].op = "reroute" /\ calls[d].op = "reroute")
                              => c = d

\* A step keeps an entry's reroute record or starts a fresh one.
RecordKept(id) ==
    \/ handoffs'[id] = handoffs[id] /\ outbox'[id].rerouted = outbox[id].rerouted
    \/ handoffs'[id] = 0 /\ ~outbox'[id].rerouted

\* A step that hands nothing off and resets no mark keeps RerouteInv.
LEMMA RecordsKept ==
    ASSUME IndInv, RerouteInv, \A id \in MsgIds : RecordKept(id),
           \A c \in Calls : calls'[c].op = "reroute" => calls'[c] = calls[c]
    PROVE  RerouteInv'
<1>1. \A c \in Calls : calls[c].todo \subseteq MsgIds
  BY DEF IndInv, Shapes, SuspendedCalls
<1>2. \A id \in MsgIds : outbox'[id].rerouted => outbox[id].rerouted
  BY DEF RecordKept
<1>3. \A id \in MsgIds : handoffs'[id] <= IF outbox'[id].rerouted THEN 1 ELSE 0
  BY DEF RecordKept, RerouteInv
<1>4. \A c \in Calls : calls'[c].op = "reroute" =>
          calls[c].op = "reroute" /\ calls'[c].todo = calls[c].todo
  OBVIOUS
<1>5. \A c \in Calls : calls'[c].op = "reroute" =>
          \A id \in calls'[c].todo : ~outbox'[id].rerouted
  BY <1>1, <1>2, <1>4 DEF RerouteInv
<1>6. \A c, d \in Calls :
          (calls'[c].op = "reroute" /\ calls'[d].op = "reroute") => c = d
  BY <1>4 DEF RerouteInv
<1> QED
  BY <1>3, <1>5, <1>6 DEF RerouteInv

\* A hand-off is recorded in the entry before the loop suspends.
LEMMA HandOffRecords ==
    ASSUME IndInv, RerouteInv, NEW c \in Calls, NEW next \in MsgIds,
           NEW entries \in [MsgIds -> OutboxEntries],
           \A id \in MsgIds : entries[id].rerouted = outbox[id].rerouted,
           NEW rest \in SUBSET (MsgIds \ {next}), HandOff(c, entries, next, rest),
           \A id \in rest \cup {next} : ~outbox[id].rerouted,
           \A d \in Calls : calls[d].op = "reroute" => d = c
    PROVE  RerouteInv'
<1>1. outbox' = [entries EXCEPT ![next].rerouted = TRUE]
  BY DEF HandOff
<1>2. /\ outbox'[next].rerouted = TRUE
      /\ \A id \in MsgIds \ {next} : outbox'[id].rerouted = outbox[id].rerouted
  BY <1>1, SetReroutedEffect
<1>3. /\ handoffs'[next] = handoffs[next] + 1
      /\ \A id \in MsgIds \ {next} : handoffs'[id] = handoffs[id]
      /\ handoffs[next] \in Nat /\ handoffs[next] <= 0
  BY DEF HandOff, IndInv, Shapes, RerouteInv
<1>4. \A d \in Calls : calls'[d] =
          IF d = c THEN [op |-> "reroute", id |-> next, npub |-> TRUE,
                         todo |-> rest]
          ELSE calls[d]
  BY DEF HandOff, IndInv, Shapes
<1>5. \A id \in MsgIds : handoffs'[id] <= IF outbox'[id].rerouted THEN 1 ELSE 0
  BY <1>2, <1>3 DEF RerouteInv
<1>6. ASSUME NEW d \in Calls, calls'[d].op = "reroute"
      PROVE  d = c /\ \A id \in calls'[d].todo : ~outbox'[id].rerouted
  BY <1>2, <1>4, <1>6
<1> QED
  BY <1>5, <1>6 DEF RerouteInv

\* Going on to the next entry of the loop keeps the record.
LEMMA NextHandOffRecords ==
    ASSUME IndInv, RerouteInv, NEW c \in Calls, calls[c].op = "reroute",
           NEW entries \in [MsgIds -> OutboxEntries],
           \A id \in MsgIds : entries[id].rerouted = outbox[id].rerouted,
           NextHandOff(c, entries)
    PROVE  RerouteInv'
<1>1. calls[c].todo \subseteq MsgIds /\ \A id \in calls[c].todo : ~outbox[id].rerouted
  BY DEF IndInv, Shapes, SuspendedCalls, RerouteInv
<1>2. \A d \in Calls : calls[d].op = "reroute" => d = c
  BY DEF RerouteInv
<1>3. CASE calls[c].todo = {}
  <2>1. outbox' = entries /\ handoffs' = handoffs
    BY <1>3 DEF NextHandOff
  <2>2. \A d \in Calls : calls'[d].op = "reroute" => calls'[d] = calls[d]
    BY <1>3 DEF NextHandOff, IdleCall, IndInv, Shapes
  <2> QED
    BY <2>1, <2>2, RecordsKept DEF RecordKept
<1>4. CASE calls[c].todo # {}
  <2>1. PICK next \in calls[c].todo :
            HandOff(c, entries, next, calls[c].todo \ {next})
    BY <1>4 DEF NextHandOff
  <2>2. /\ next \in MsgIds
        /\ calls[c].todo \ {next} \in SUBSET (MsgIds \ {next})
        /\ \A id \in (calls[c].todo \ {next}) \cup {next} : ~outbox[id].rerouted
    BY <1>1
  <2> QED
    BY <1>2, <2>1, <2>2, HandOffRecords
<1> QED
  BY <1>3, <1>4

\* With MaxReroutes = 1 a reroute begins only when no other is running.
LEMMA RerouteAlone ==
    ASSUME MaxReroutes = 1, BoundsAssumption, NEW c, NEW gone,
           RerouteToNostr(c, gone)
    PROVE  \A d \in Calls : calls[d].op # "reroute"
<1> DEFINE running == {d \in Calls : calls[d].op = "reroute"}
<1>1. IsFiniteSet(running)
  BY FS_Subset DEF BoundsAssumption
<1>2. Cardinality(running) < 1
  BY DEF RerouteToNostr
<1>3. Cardinality(running) \in Nat
  BY <1>1, FS_CardinalityType
<1>4. Cardinality(running) = 0
  BY <1>2, <1>3
<1>5. running = {}
  BY <1>1, <1>4, FS_EmptySet
<1> QED
  BY <1>5

\* With one reroute at a time every step keeps the record of hand-offs.
LEMMA RerouteInvStep ==
    ASSUME MaxReroutes = 1, IndInv, RerouteInv, [Next]_vars
    PROVE  RerouteInv'
<1> USE DEF IndInv
<1>1. CASE UNCHANGED <<outbox, handoffs, calls>>
  BY <1>1 DEF RerouteInv
<1>2. ASSUME NEW id \in MsgIds, NEW s \in DeliveryStates, SetState(id, s),
             handoffs' = handoffs,
             \A c \in Calls : calls'[c].op = "reroute" => calls'[c] = calls[c]
      PROVE  RerouteInv'
  <2>1. outbox' = [outbox EXCEPT ![id].st = s] /\ outbox \in [MsgIds -> OutboxEntries]
    BY <1>2 DEF SetState, Core
  <2>2. \A j \in MsgIds : outbox'[j].rerouted = outbox[j].rerouted
    BY <2>1, SetStateEffect
  <2> QED
    BY <1>2, <2>2, RecordsKept DEF RecordKept
<1>3. ASSUME NEW c \in Calls, NEW id \in MsgIds \cup ControlIds,
             NEW peer \in Peers \cup {NoPeer}, NEW npub \in BOOLEAN,
             Send(c, id, peer, npub)
      PROVE  RerouteInv'
  <2>1. \A d \in Calls : calls'[d].op = "reroute" => calls'[d] = calls[d]
    BY <1>3 DEF Send, Shapes
  <2>2. CASE id \in MsgIds
    <3>1. /\ outbox' = [outbox EXCEPT ![id] = OutboxEntry(TRUE, peer, npub)]
          /\ handoffs' = [handoffs EXCEPT ![id] = 0]
      BY <1>3, <2>2 DEF Send
    <3>2. \A j \in MsgIds : RecordKept(j)
      BY <3>1 DEF RecordKept, OutboxEntry, Core, Shapes
    <3> QED
      BY <2>1, <3>2, RecordsKept
  <2>3. CASE id \notin MsgIds
    <3>1. \A j \in MsgIds : RecordKept(j)
      BY <1>3, <2>3 DEF Send, RecordKept
    <3> QED
      BY <2>1, <3>1, RecordsKept
  <2> QED
    BY <2>2, <2>3
<1>4. ASSUME NEW id \in MsgIds, BeginTracking(id) PROVE RerouteInv'
  <2>1. \A j \in MsgIds : RecordKept(j)
    BY <1>4 DEF BeginTracking, RecordKept, OutboxEntry, Core, Shapes
  <2> QED
    BY <1>4, <2>1, RecordsKept DEF BeginTracking
<1>5. ASSUME NEW c \in Calls, NEW s \in DeliveryStates, FinishSend(c, s)
      PROVE  RerouteInv'
  <2>1. \A d \in Calls : calls'[d].op = "reroute" => calls'[d] = calls[d]
    BY <1>5 DEF FinishSend, IdleCall, Shapes
  <2>2. \/ calls[c].id \in MsgIds /\ SetState(calls[c].id, s)
        \/ outbox' = outbox
    BY <1>5 DEF FinishSend, Update
  <2>3. handoffs' = handoffs
    BY <1>5 DEF FinishSend
  <2>4. CASE outbox' = outbox
    BY <2>1, <2>3, <2>4, RecordsKept DEF RecordKept
  <2> QED
    BY <1>2, <2>1, <2>2, <2>3, <2>4
<1>6. ASSUME NEW c \in Calls, RerouteTook(c) PROVE RerouteInv'
  <2> DEFINE id == calls[c].id
             committed == [outbox EXCEPT ![id].st = "cast"]
  <2>1. id \in MsgIds /\ outbox \in [MsgIds -> OutboxEntries]
    BY <1>6 DEF RerouteTook, Core, Shapes, CallShape
  <2>2. NextHandOff(c, committed) /\ calls[c].op = "reroute"
    BY <1>6 DEF RerouteTook
  <2>3. /\ committed \in [MsgIds -> OutboxEntries]
        /\ \A j \in MsgIds : committed[j].rerouted = outbox[j].rerouted
    <3>1. committed = [outbox EXCEPT ![id].st = "cast"] /\ "cast" \in DeliveryStates
      BY DEF DeliveryStates
    <3> HIDE DEF committed, id
    <3> QED
      BY <2>1, <3>1, SetStateEffect
  <2> HIDE DEF committed, id
  <2> QED
    BY <2>2, <2>3, NextHandOffRecords
<1>7. ASSUME NEW c \in Calls, RerouteMissed(c) PROVE RerouteInv'
  BY <1>7, NextHandOffRecords DEF RerouteMissed, Core
<1>8. ASSUME NEW c \in Calls, NEW gone, RerouteToNostr(c, gone)
      PROVE  RerouteInv'
  <2>1. PICK next \in Eligible(gone) :
            HandOff(c, outbox, next, Eligible(gone) \ {next})
    BY <1>8 DEF RerouteToNostr
  <2>2. /\ next \in MsgIds
        /\ Eligible(gone) \ {next} \in SUBSET (MsgIds \ {next})
        /\ \A id \in (Eligible(gone) \ {next}) \cup {next} : ~outbox[id].rerouted
    BY DEF Eligible
  <2>3. \A d \in Calls : calls[d].op = "reroute" => d = c
    BY <1>8, RerouteAlone, BoundsAssumption
  <2> QED
    BY <2>1, <2>2, <2>3, HandOffRecords DEF Core
<1>9. ASSUME NEW c \in Calls,
             \/ BleNoPeersTryRelay(c) \/ PublishReturned(c)
             \/ \E id \in MsgIds \cup ControlIds : PublishOverNostr(c, id)
      PROVE  RerouteInv'
  <2>1. \A d \in Calls : calls'[d].op = "reroute" => calls'[d] = calls[d]
    BY <1>9 DEF BleNoPeersTryRelay, PublishReturned, PublishOverNostr,
                IdleCall, Shapes, SuspendedCalls
  <2>2. UNCHANGED <<outbox, handoffs>>
    BY <1>9 DEF BleNoPeersTryRelay, PublishReturned, PublishOverNostr
  <2> QED
    BY <2>1, <2>2, RecordsKept DEF RecordKept
<1>10. ASSUME NEW id \in MsgIds,
             \/ MarkFindingPath(id) \/ ConfirmFailure(id) \/ CommitToRelay(id)
             \/ \E hops \in 0..1 : ConfirmDelivery(id, hops)
       PROVE  RerouteInv'
  <2>1. PICK s \in DeliveryStates : SetState(id, s)
    BY <1>10 DEF MarkFindingPath, ConfirmFailure, ConfirmDelivery, Confirm,
                 Update, CommitToRelay, DeliveryStates
  <2>2. UNCHANGED <<calls, handoffs>>
    BY <1>10 DEF MarkFindingPath, ConfirmFailure, ConfirmDelivery, Confirm,
                 CommitToRelay
  <2> QED
    BY <1>2, <2>1, <2>2
<1>11. ASSUME NEW t \in TaskIds, TimeoutFired(t) PROVE RerouteInv'
  <2>1. task[t].id \in MsgIds
    BY <1>11 DEF TimeoutFired, Core, TimerInv, TaskShape
  <2>2. UNCHANGED <<calls, handoffs>>
    BY <1>11 DEF TimeoutFired
  <2>3. outbox' = outbox \/ SetState(task[t].id, "notDelivered")
    BY <1>11 DEF TimeoutFired
  <2> QED
    BY <1>1, <1>2, <2>1, <2>2, <2>3 DEF DeliveryStates
<1>12. ASSUME \/ \E id \in MsgIds : Rearm(id)
              \/ \E t \in TaskIds : TimerElapses(t)
              \/ \E kind \in Kinds, id \in Ids, ttl \in 0..1 :
                    HandleInbound(kind, id, ttl)
              \/ \E kind \in Kinds : InboundRelayed(kind) \/ InboundReceived(kind)
              \/ Start \/ Stop \/ UNCHANGED vars
       PROVE  RerouteInv'
  <2>1. UNCHANGED <<outbox, handoffs, calls>>
    BY <1>12 DEF Rearm, TimerElapses, HandleInbound, InboundRelayed,
                 InboundReceived, Start, Stop, vars
  <2> QED
    BY <1>1, <2>1
<1>13. ASSUME NEW c \in Calls, CallResumes(c) PROVE RerouteInv'
  BY <1>5, <1>6, <1>7, <1>9, <1>13
  DEF CallResumes, BleSent, BleNoPeersNoRelay, BleFailed, RelayTook,
      RelayMissed, DeliveryStates
<1>14. ASSUME NEW c \in Calls, NEW id \in MsgIds, Resend(c, id) PROVE RerouteInv'
  BY <1>3, <1>14 DEF Resend
<1> QED
  BY <1>3, <1>4, <1>8, <1>9, <1>10, <1>11, <1>12, <1>13, <1>14
  DEF Next, StartDeliveryTimeout, ExtendTimeout

\* When calls of rerouteToNostr do not overlap, one outbox entry is handed to
\* the relay at most once between two sends of it, however many messages,
\* peers, timers and concurrent sends there are.
THEOREM RerouteAtMostOnce ==
    ASSUME MaxReroutes = 1
    PROVE  Spec => []ReroutedOnce
<1>1. Init => RerouteInv
  BY DEF Init, RerouteInv, IdleCall, NoEntry
<1>2. IndInv /\ RerouteInv /\ [Next]_vars => RerouteInv'
  BY RerouteInvStep
<1>3. IndInv /\ RerouteInv => ReroutedOnce
  BY DEF IndInv, Core, Shapes, OutboxEntries, RerouteInv, ReroutedOnce
<1> QED
  BY <1>1, <1>2, <1>3, Inductive, PTL DEF Spec
-----------------------------------------------------------------------------
(* De-duplication of inbound envelopes, while the cache has room for every id *)

\* With room, an insertion adds its id, keeps every other, and repeats none.
LEMMA SeenInsert ==
    ASSUME NEW cache \in Seq(Ids), WellFormed(cache, SeenCapacity), NEW id \in Ids,
           BoundsAssumption, IsFiniteSet(Ids), Cardinality(Ids) <= SeenCapacity
    PROVE  /\ WellFormed(Insert(cache, SeenCapacity, id), SeenCapacity)
           /\ \A v : Contains(Insert(cache, SeenCapacity, id), v)
                       <=> Contains(cache, v) \/ v = id
<1>1. CASE Contains(cache, id)
  BY <1>1 DEF Insert, Contains
<1>2. CASE ~Contains(cache, id)
  <2> DEFINE grown == Append(cache, id)
  <2>1. /\ Len(cache) \in Nat /\ Len(grown) = Len(cache) + 1
        /\ \A i \in 1..Len(cache) : grown[i] = cache[i]
        /\ grown[Len(cache) + 1] = id
        /\ SeenCapacity \in Nat
    BY DEF BoundsAssumption
  <2>2. Len(cache) < SeenCapacity
    <3>1. cache \in Injection(1..Len(cache), Ids \ {id})
      BY <1>2 DEF Contains, WellFormed, Injection, IsInjective
    <3>2. /\ IsFiniteSet(Ids \ {id}) /\ Cardinality(Ids \ {id}) = Cardinality(Ids) - 1
          /\ Cardinality(Ids) \in Nat
      BY FS_RemoveElement, FS_CardinalityType
    <3>3. Cardinality(1..Len(cache)) <= Cardinality(Ids \ {id})
      BY <3>1, <3>2, FS_Injection
    <3>4. Cardinality(1..Len(cache)) = IF 1 > Len(cache) THEN 0 ELSE Len(cache) - 1 + 1
      BY <2>1, FS_Interval
    <3> QED
      BY <2>1, <3>2, <3>3, <3>4
  <2>3. Insert(cache, SeenCapacity, id) = grown
    BY <1>2, <2>1, <2>2 DEF Insert
  <2>4. \A i \in 1..Len(grown) : i \in 1..Len(cache) \/ i = Len(cache) + 1
    BY <2>1
  <2>5. \A i \in 1..Len(cache) : cache[i] # id /\ i \in 1..Len(grown)
    BY <1>2, <2>1 DEF Contains
  <2> HIDE DEF grown
  <2>6. \A v : Contains(grown, v) <=> Contains(cache, v) \/ v = id
    <3>1. Len(cache) + 1 \in 1..Len(grown)
      BY <2>1
    <3> QED
      BY <2>1, <2>4, <2>5, <3>1 DEF Contains
  <2>7. \A i, j \in 1..Len(grown) : grown[i] = grown[j] => i = j
    BY <2>1, <2>4, <2>5 DEF WellFormed
  <2> QED
    BY <2>1, <2>2, <2>3, <2>6, <2>7 DEF WellFormed
<1> QED
  BY <1>1, <1>2

\* Our own ids are in the cache before they leave; an envelope being handled is
\* someone else's, in the cache and not opened yet; no two slots handle one.
SeenInv ==
    /\ WellFormed(seen, SeenCapacity)
    /\ \A id \in emitted : Contains(seen, id)
    /\ \A k \in Kinds : inb[k].stage # "idle" =>
         /\ inb[k].id \in ForeignIds /\ Contains(seen, inb[k].id)
         /\ opened[inb[k].id] = 0
         /\ \A l \in Kinds : l # k /\ inb[l].stage # "idle" => inb[l].id # inb[k].id
    /\ \A id \in Ids : /\ opened[id] <= 1
                       /\ opened[id] > 0 => id \in ForeignIds /\ Contains(seen, id)

\* The ids the cache holds are those it held and one more.
Noted(id) ==
    /\ WellFormed(seen', SeenCapacity)
    /\ \A v : Contains(seen', v) <=> Contains(seen, v) \/ v = id

LEMMA SeenInvStep ==
    ASSUME IndInv, SeenInv, [Next]_vars, IdsAssumption, BoundsAssumption,
           IsFiniteSet(Ids), Cardinality(Ids) <= SeenCapacity
    PROVE  SeenInv'
<1>0. seen \in Seq(Ids) /\ inb \in [Kinds -> InboundSlots] /\ opened \in [Ids -> Nat]
      /\ emitted \subseteq MsgIds \cup ControlIds
  BY DEF IndInv, Shapes
<1>1. ASSUME NEW id \in Ids PROVE seen' = Insert(seen, SeenCapacity, id) => Noted(id)
  BY <1>0, <1>1, SeenInsert DEF SeenInv, Noted
<1>2. CASE UNCHANGED <<seen, emitted, inb, opened>>
  BY <1>2 DEF SeenInv
<1>3. ASSUME NEW id \in MsgIds \cup ControlIds, MarkSeen(id), UNCHANGED <<inb, opened>>
      PROVE  SeenInv'
  <2>1. Noted(id) /\ emitted' = emitted \cup {id}
    BY <1>1, <1>3 DEF MarkSeen, Ids
  <2> QED
    BY <1>3, <2>1 DEF SeenInv, Noted
<1>4. ASSUME NEW kind \in Kinds, NEW id \in Ids, NEW ttl \in 0..1,
             HandleInbound(kind, id, ttl)
      PROVE  SeenInv'
  <2>1. /\ Noted(id) /\ id \in ForeignIds \cup emitted /\ inb[kind] = IdleInb
        /\ UNCHANGED <<emitted, opened>>
    BY <1>1, <1>4 DEF HandleInbound
  <2>2. CASE Contains(seen, id)
    <3>1. UNCHANGED inb
      BY <1>4, <2>2 DEF HandleInbound
    <3> QED
      BY <2>1, <3>1 DEF SeenInv, Noted
  <2>3. CASE ~Contains(seen, id)
    <3>1. PICK stage \in {"relay", "receive"} :
              inb' = [inb EXCEPT ![kind] = [id |-> id, stage |-> stage]]
      BY <1>4, <2>3 DEF HandleInbound
    <3>2. id \in ForeignIds /\ opened[id] = 0
      <4>1. id \notin emitted
        BY <2>3 DEF SeenInv
      <4>2. ~(opened[id] > 0) /\ opened[id] \in Nat
        BY <1>0, <2>3 DEF SeenInv
      <4> QED
        BY <2>1, <4>1, <4>2
    <3>3. /\ inb'[kind].id = id
          /\ \A k \in Kinds : k # kind => inb'[k] = inb[k]
      BY <1>0, <3>1
    <3>4. \A k \in Kinds : k # kind /\ inb[k].stage # "idle" => inb[k].id # id
      BY <2>3 DEF SeenInv
    <3>5. ASSUME NEW k \in Kinds, inb'[k].stage # "idle"
          PROVE  /\ inb'[k].id \in ForeignIds /\ Contains(seen', inb'[k].id)
                 /\ opened'[inb'[k].id] = 0
                 /\ \A l \in Kinds : l # k /\ inb'[l].stage # "idle"
                                       => inb'[l].id # inb'[k].id
      <4>1. CASE k = kind
        BY <2>1, <3>2, <3>3, <3>4, <4>1 DEF Noted
      <4>2. CASE k # kind
        BY <2>1, <3>3, <3>4, <3>5, <4>2 DEF Noted, SeenInv
      <4> QED
        BY <4>1, <4>2
    <3> QED
      BY <2>1, <3>5 DEF SeenInv, Noted
  <2> QED
    BY <2>2, <2>3
<1>5. ASSUME NEW kind \in Kinds, InboundRelayed(kind) PROVE SeenInv'
  <2>1. /\ inb[kind].stage = "relay" /\ UNCHANGED <<seen, emitted, opened>>
        /\ inb' = [inb EXCEPT ![kind].stage = "receive"]
    BY <1>5 DEF InboundRelayed, Dedup
  <2>2. \A k \in Kinds : inb'[k].id = inb[k].id
                         /\ (inb'[k].stage # "idle" => inb[k].stage # "idle")
    BY <1>0, <2>1 DEF InboundSlots
  <2> QED
    BY <2>1, <2>2 DEF SeenInv
<1>6. ASSUME NEW kind \in Kinds, InboundReceived(kind) PROVE SeenInv'
  <2> DEFINE id == inb[kind].id
  <2>1. /\ inb[kind].stage = "receive" /\ UNCHANGED <<seen, emitted>>
        /\ opened' = [opened EXCEPT ![id] = @ + 1]
        /\ inb' = [inb EXCEPT ![kind] = IdleInb]
    BY <1>6 DEF InboundReceived, Dedup
  <2>2. /\ id \in ForeignIds /\ Contains(seen, id) /\ opened[id] = 0
        /\ \A l \in Kinds : l # kind /\ inb[l].stage # "idle" => inb[l].id # id
    BY <2>1 DEF SeenInv
  <2>3. id \in Ids /\ IdleInb.stage = "idle"
    BY <2>2 DEF Ids, IdleInb
  <2> HIDE DEF id
  <2>4. opened'[id] = 1 /\ \A v \in Ids : v # id => opened'[v] = opened[v]
    BY <1>0, <2>1, <2>2, <2>3
  <2>5. \A k \in Kinds : inb'[k].stage # "idle" => k # kind /\ inb'[k] = inb[k]
    BY <1>0, <2>1, <2>3
  <2>6. \A k \in Kinds : inb'[k].stage # "idle" => opened'[inb'[k].id] = 0
    BY <2>2, <2>4, <2>5 DEF SeenInv, Ids
  <2> QED
    BY <2>1, <2>2, <2>4, <2>5, <2>6 DEF SeenInv
<1>7. CASE Start \/ Stop
  BY <1>2, <1>7 DEF Start, Stop, Dedup
<1>8. CASE UNCHANGED vars
  BY <1>2, <1>8 DEF vars
<1>9. CASE Next
  <2>1. \/ UNCHANGED <<seen, emitted, inb, opened>>
        \/ \E id \in MsgIds \cup ControlIds : MarkSeen(id) /\ UNCHANGED <<inb, opened>>
        \/ \E kind \in Kinds, id \in Ids, ttl \in 0..1 : HandleInbound(kind, id, ttl)
        \/ \E kind \in Kinds : InboundRelayed(kind) \/ InboundReceived(kind)
        \/ Start \/ Stop
    BY <1>9 DEF Next, CallResumes, BleSent, BleNoPeersNoRelay, BleNoPeersTryRelay,
         BleFailed, RelayTook, RelayMissed, FinishSend, PublishReturned,
         RerouteTook, RerouteMissed, Send, Resend, PublishOverNostr,
         RerouteToNostr, BeginTracking, StartDeliveryTimeout, ExtendTimeout,
         Rearm, MarkFindingPath, ConfirmFailure, ConfirmDelivery, Confirm,
         CommitToRelay, TimerElapses, TimeoutFired, Dedup, Inbound
  <2> QED
    BY <1>2, <1>3, <1>4, <1>5, <1>6, <1>7, <2>1
<1> QED
  BY <1>8, <1>9

\* An envelope that arrives over both transports, or again while its first copy
\* is still being relayed, is opened once, and an echo of our own never, as long
\* as the seen-cache has room for the ids in use: eviction alone can reopen one.
THEOREM InboundOpenedOnce ==
    ASSUME IsFiniteSet(Ids), Cardinality(Ids) <= SeenCapacity
    PROVE  Spec => []InboundOnce
<1>1. Init => SeenInv
  <2>1. ASSUME Init PROVE SeenInv
    <3>1. seen = <<>> /\ Len(seen) = 0 /\ emitted = {} /\ \A k \in Kinds : inb[k].stage = "idle"
      BY <2>1 DEF Init, IdleInb
    <3>2. \A id \in Ids : opened[id] = 0
      BY <2>1 DEF Init
    <3>3. WellFormed(seen, SeenCapacity)
      BY <3>1, BoundsAssumption DEF WellFormed, BoundsAssumption
    <3> QED
      BY <3>1, <3>2, <3>3 DEF SeenInv
  <2> QED
    BY <2>1
<1>2. IndInv /\ SeenInv /\ [Next]_vars => SeenInv'
  BY SeenInvStep, IdsAssumption, BoundsAssumption
<1>3. IndInv /\ SeenInv => InboundOnce
  <2>1. ASSUME IndInv, SeenInv, NEW id \in Ids
        PROVE  opened[id] <= IF id \in ForeignIds THEN 1 ELSE 0
    BY <2>1 DEF IndInv, Shapes, SeenInv
  <2> QED
    BY <2>1 DEF InboundOnce
<1> QED
  BY <1>1, <1>2, <1>3, Inductive, PTL DEF Spec

-----------------------------------------------------------------------------
(* The inbox: the inductive invariant *)

Active(c) == op[c].stage # "idle"

\* What a delivery state claims of an id is so.
Claims(id, s) ==
    /\ s = "cast" => id \in atRelay
    /\ s \in {"delivered", "relayed"} => id \in accepted

RowRecords == [st : RowStates, wire : MsgIds \cup {NoId}]
OpRecords  == [stage : Stages, row : Rows \cup {NoId}, id : MsgIds \cup {NoId},
               val : RowStates]

InboxShape ==
    /\ rows \in [Rows -> RowRecords] /\ disk \in [Rows -> RowRecords]
    /\ op \in [Calls -> OpRecords]
    /\ taken \in [Calls -> BOOLEAN]
    /\ stream \in Seq([id : MsgIds, st : DeliveryStates])
    /\ sealedFor \in [Rows -> SUBSET MsgIds]

\* An operation works for a stored row.  Once the row has its wire id the
\* operation uses that id; until then it is the only one of its row, which
\* still reads .sent.
OpFits(c) ==
    /\ op[c].row \in Rows
    /\ rows[op[c].row].st # "none"
    /\ op[c].id # NoId => op[c].id \in sealedFor[op[c].row]
    /\ rows[op[c].row].wire # NoId => op[c].id = rows[op[c].row].wire
    /\ rows[op[c].row].wire = NoId =>
         /\ rows[op[c].row].st = "sent"
         /\ op[c].stage \notin {"readback", "write"}
         /\ \A d \in Calls : Active(d) /\ op[d].row = op[c].row => d = c

OpsInv ==
    \A c \in Calls :
        /\ Active(c) => OpFits(c)
        /\ op[c].stage \notin {"idle", "seal", "threw"} => op[c].id \in MsgIds
        /\ At(c, "route") \/ At(c, "publish") => calls[c].id = op[c].id
        /\ At(c, "commit") => op[c].id \in atRelay
        /\ At(c, "write") => Claims(op[c].id, op[c].val)

\* The row's wire id is one it was sealed under, what the row reads is so of
\* that id, and the disk lags behind memory in nothing but a stamp.
RowsInv ==
    \A r \in Rows :
        /\ rows[r].wire # NoId => rows[r].wire \in sealedFor[r]
        /\ sealedFor[r] # {} => rows[r].st # "none"
        /\ Claims(rows[r].wire, rows[r].st)
        /\ disk[r] # rows[r] => /\ disk[r] = [st |-> "sent", wire |-> NoId]
                                /\ rows[r].st = "sent"

\* An id is minted once, for one row, and the world knows no other.
WorldInv ==
    /\ minted \subseteq MsgIds
    /\ air \subseteq minted /\ atRelay \subseteq minted
    /\ accepted \subseteq minted /\ acks \subseteq accepted
    /\ \A r \in Rows : sealedFor[r] \subseteq minted
    /\ \A r, q \in Rows : r # q => sealedFor[r] \cap sealedFor[q] = {}

\* The outbox and the stream say of minted ids what is so.
OutboxHonest ==
    \A id \in MsgIds : /\ Claims(id, outbox[id].st)
                       /\ Tracked(id) => id \in minted

StreamHonest == \A i \in 1..Len(stream) : Claims(stream[i].id, stream[i].st)

\* A call is about minted ids, and once a relay has taken its envelope the
\* relay has it.
CallsInv ==
    \A c \in Calls :
        /\ ~Idle(c) => calls[c].id \in minted
        /\ calls[c].todo \subseteq minted
        /\ taken[c] => ~Idle(c)
        /\ taken[c] /\ calls[c].op # "ble" => calls[c].id \in atRelay

InboxInv ==
    /\ InboxShape /\ OpsInv /\ RowsInv /\ WorldInv
    /\ OutboxHonest /\ StreamHonest /\ CallsInv

-----------------------------------------------------------------------------
(* The router inside the composition *)

\* A step of the inbox alone leaves the router's invariant alone.
LEMMA IdleKeepsRouter ==
    ASSUME IndInv, RouterIdle
    PROVE  IndInv'
  BY QuietOut DEF RouterIdle, Quiet, Dedup, Inbound, IndInv, Core, Shapes,
     TimerInv, TaskShape, HandlesAreLive, LiveFor, TerminalHoldsNoTimer,
     SentHasBackstop, Sending, CallShape, InboundShape

\* A new process starts with an empty router.
LEMMA RelaunchKeepsRouter ==
    ASSUME IndInv, Relaunch
    PROVE  IndInv'
<1>1. /\ outbox' = [id \in MsgIds |-> NoEntry]
      /\ timeouts' = [id \in MsgIds |-> NoTask]
      /\ task' = [t \in TaskIds |-> FreeTask]
  BY DEF Relaunch
<1>2. /\ NoEntry \in OutboxEntries /\ FreeTask \in TimerTasks
      /\ IdleCall \in SuspendedCalls
      /\ NoEntry.st = "none" /\ FreeTask.st = "free" /\ IdleCall.op = "idle"
  BY DEF NoEntry, OutboxEntries, FreeTask, TimerTasks, IdleCall, SuspendedCalls
<1>3. Core'
  BY <1>1, <1>2 DEF Core, TimerInv, TaskShape, HandlesAreLive, LiveFor,
     TerminalHoldsNoTimer, IsTerminal, SentHasBackstop
<1>4. calls' \in [Calls -> SuspendedCalls] /\ CallShape'
  BY <1>2 DEF Relaunch, CallShape
<1>5. seen' \in Seq(Ids) /\ handoffs' \in [MsgIds -> Nat]
  BY DEF Relaunch
<1>6. out' \in [id : MsgIds \cup {NoId}, st : DeliveryStates \cup {"none"}]
  BY QuietOut DEF Relaunch, Quiet
<1>7. UNCHANGED <<inb, phase, opened, emitted>> /\ InboundShape'
  BY DEF Relaunch, Inbound, IndInv, Shapes, InboundShape
<1> QED
  BY <1>3, <1>4, <1>5, <1>6, <1>7 DEF IndInv, Shapes

\* Whatever inbox, coordinator, transports and timers do, the router takes one
\* of its own steps, or none, or is started anew.
LEMMA RouterStep ==
    ASSUME IndInv, InboxShape, OpsInv, InboxNext
    PROVE  Next \/ RouterIdle \/ Relaunch
<1>1. ASSUME NEW c \in Calls, NEW id \in MsgIds, SealAndRoute(c, id)
      PROVE  Next
  <2>1. Send(c, id, Peer, KnowsNpub)
    BY <1>1 DEF SealAndRoute
  <2> QED
    BY <2>1, InboxAssumption DEF Next, InboxAssumption
<1>2. ASSUME NEW c \in Calls, NEW id \in MsgIds, SealAndCast(c, id)
      PROVE  Next \/ RouterIdle
  BY <1>2 DEF SealAndCast, Next
<1>3. ASSUME NEW c \in Calls, CastPublish(c) PROVE Next
  <2>1. op[c].id \in MsgIds /\ PublishOverNostr(c, op[c].id)
    BY <1>3 DEF CastPublish, OpsInv, At
  <2> QED
    BY <2>1 DEF Next
<1>4. ASSUME NEW c \in Calls, CastPublished(c) \/ RouteResumes(c)
      PROVE  Next
  <2>1. CallResumes(c)
    BY <1>4 DEF CastPublished, RouteResumes, CallResumes
  <2> QED
    BY <2>1 DEF Next
<1>5. ASSUME NEW c \in Calls, RerouteResumes(c) PROVE Next
  <2>1. CallResumes(c)
    BY <1>5 DEF RerouteResumes, CallResumes
  <2> QED
    BY <2>1 DEF Next
<1>6. ASSUME NEW c \in Calls, CastSettles(c) PROVE Next \/ RouterIdle
  <2>1. At(c, "commit") \/ At(c, "fail")
    BY <1>6 DEF CastSettles
  <2>2. op[c].id \in MsgIds
    BY <2>1 DEF OpsInv, At
  <2>3. CommitToRelay(op[c].id) \/ ConfirmFailure(op[c].id) \/ RouterIdle
    BY <1>6 DEF CastSettles
  <2> QED
    BY <2>2, <2>3 DEF Next
<1>7. ASSUME NEW c \in Calls, RerouteDeparted(c) PROVE Next \/ RouterIdle
  <2>1. RerouteToNostr(c, {Peer}) \/ RouterIdle
    BY <1>7 DEF RerouteDeparted
  <2>2. {Peer} \in (SUBSET Peers) \ {{}}
    BY InboxAssumption DEF InboxAssumption
  <2> QED
    BY <2>1, <2>2 DEF Next
<1>8. ASSUME NEW c \in Calls,
             \/ SealThrows(c) \/ Stamp(c) \/ ReadBack(c) \/ WriteBack(c)
             \/ Caught(c) \/ TransportTakes(c)
             \/ \E r \in Rows : Compose(c, r) \/ ResendRow(c, r)
      PROVE  RouterIdle
  BY <1>8 DEF SealThrows, Stamp, ReadBack, WriteBack, Caught, TransportTakes,
     Compose, ResendRow
<1>9. ASSUME NEW id \in MsgIds,
             PeerStores(id) \/ LadderGivesUp(id) \/ \E hops \in Hops : AckArrives(id, hops)
      PROVE  Next \/ RouterIdle
  <2>1. CASE \E hops \in Hops : AckArrives(id, hops)
    <3>1. PICK hops \in Hops : AckArrives(id, hops)
      BY <2>1
    <3>2. ConfirmDelivery(id, hops) \/ RouterIdle
      BY <3>1 DEF AckArrives
    <3>3. hops \in Nat
      BY InboxAssumption DEF InboxAssumption
    <3>4. PICK h \in 0..1 : ConfirmDelivery(id, h) \/ RouterIdle
      <4>1. CASE hops <= 0
        BY <3>2, <4>1 DEF ConfirmDelivery
      <4>2. CASE ~(hops <= 0)
        BY <3>2, <4>2 DEF ConfirmDelivery
      <4> QED
        BY <4>1, <4>2
    <3> QED
      BY <3>4 DEF Next
  <2>2. CASE LadderGivesUp(id)
    BY <2>2 DEF LadderGivesUp, Next
  <2> QED
    BY <1>9, <2>1, <2>2 DEF PeerStores
<1>10. ASSUME NEW r \in Rows, Reconnected(r) PROVE Next
  <2>1. rows[r].wire \in MsgIds /\ ExtendTimeout(rows[r].wire)
    BY <1>10 DEF Reconnected, InboxShape, RowRecords
  <2> QED
    BY <2>1 DEF Next
<1>11. ASSUME NEW t \in TaskIds, InboxTimer(t) PROVE Next
  BY <1>11 DEF InboxTimer, Next
<1>12. ASSUME Apply \/ PeerAppears \/ PeerDeparts PROVE RouterIdle
  BY <1>12 DEF Apply, PeerAppears, PeerDeparts
<1>13. ASSUME NEW c \in Calls, OpSteps(c) PROVE Next \/ RouterIdle
  BY <1>1, <1>2, <1>3, <1>4, <1>5, <1>6, <1>7, <1>8, <1>13 DEF OpSteps
<1> QED
  BY <1>8, <1>9, <1>10, <1>11, <1>12, <1>13 DEF InboxNext

\* So whatever is proved of the router by induction holds in the composition.
LEMMA RouterKept ==
    ASSUME IndInv, InboxShape, OpsInv, [InboxNext]_allVars
    PROVE  IndInv'
<1>1. CASE InboxNext
  BY <1>1, RouterStep, IndInvStep, IdleKeepsRouter, RelaunchKeepsRouter
<1>2. CASE UNCHANGED allVars
  BY <1>2, IndInvStep DEF allVars, vars
<1> QED
  BY <1>1, <1>2

-----------------------------------------------------------------------------
(* What the router's steps say of a message *)

\* In this step the router gives `id` the state s and no other message another.
Says(id, s) ==
    /\ outbox'[id].st = s
    /\ \A j \in MsgIds \ {id} : outbox'[j].st = outbox[j].st

SaysNothing == \A j \in MsgIds : outbox'[j].st = outbox[j].st

\* update's first half.
LEMMA SetStateSays ==
    ASSUME outbox \in [MsgIds -> OutboxEntries], NEW id \in MsgIds, NEW s, SetState(id, s)
    PROVE  Says(id, s)
  BY DEF SetState, Says, OutboxEntries

\* A tracked send starts a fresh entry, says nothing yet and suspends.
LEMMA SendSays ==
    ASSUME IndInv, NEW c \in Calls, NEW id \in MsgIds, NEW peer, NEW npub,
           Send(c, id, peer, npub)
    PROVE  /\ Says(id, "sent") /\ Quiet
           /\ calls' = [calls EXCEPT ![c] =
                 [op |-> "ble", id |-> id, npub |-> npub, todo |-> {}]]
  BY DEF Send, Says, OutboxEntry, IndInv, Core

\* beginTracking starts an entry.
LEMMA BeginSays ==
    ASSUME IndInv, NEW id \in MsgIds, BeginTracking(id)
    PROVE  Says(id, "sent") /\ Quiet /\ calls' = calls
  BY DEF BeginTracking, Says, OutboxEntry, IndInv, Core

\* The tail of send says its result of the message and returns.
LEMMA FinishSays ==
    ASSUME IndInv, NEW c \in Calls, calls[c].id \in MsgIds, NEW s,
           FinishSend(c, s)
    PROVE  /\ Says(calls[c].id, s)
           /\ out' = [id |-> calls[c].id, st |-> s]
           /\ calls' = [calls EXCEPT ![c] = IdleCall]
<1>1. SetState(calls[c].id, s) /\ calls' = [calls EXCEPT ![c] = IdleCall]
  BY DEF FinishSend, Update
<1> QED
  BY <1>1, SetStateSays DEF IndInv, Core, SetState

\* A confirmation or a commit says one thing of one message.
LEMMA ConfirmSays ==
    ASSUME IndInv, NEW id \in MsgIds, NEW s, Confirm(id, s) \/ (s = "cast" /\ CommitToRelay(id))
    PROVE  Says(id, s) /\ out' = [id |-> id, st |-> s] /\ calls' = calls
<1>1. SetState(id, s) /\ calls' = calls
  BY DEF Confirm, Update, CommitToRelay
<1> QED
  BY <1>1, SetStateSays DEF IndInv, Core, SetState

\* The loop of rerouteToNostr: the slot of the call names only ids it had to
\* visit, and the mark says nothing.
LEMMA NextHandOffSays ==
    ASSUME NEW c \in Calls, calls \in [Calls -> SuspendedCalls],
           NEW entries \in [MsgIds -> OutboxEntries], NextHandOff(c, entries)
    PROVE  /\ \A j \in MsgIds : outbox'[j].st = entries[j].st
           /\ \A d \in Calls \ {c} : calls'[d] = calls[d]
           /\ calls'[c].op # "idle" => calls'[c].id \in calls[c].todo
           /\ calls'[c].todo \subseteq calls[c].todo
<1>1. CASE calls[c].todo = {}
  BY <1>1 DEF NextHandOff, IdleCall
<1>2. CASE calls[c].todo # {}
  <2>1. PICK next \in calls[c].todo :
            HandOff(c, entries, next, calls[c].todo \ {next})
    BY <1>2 DEF NextHandOff
  <2>2. next \in MsgIds
    BY DEF SuspendedCalls
  <2>3. /\ \A j \in MsgIds : outbox'[j].st = entries[j].st
        /\ \A d \in Calls \ {c} : calls'[d] = calls[d]
        /\ calls'[c] = [op |-> "reroute", id |-> next, npub |-> TRUE,
                        todo |-> calls[c].todo \ {next}]
    BY <2>1, <2>2 DEF HandOff, OutboxEntries
  <2>4. calls'[c].id = next /\ calls'[c].todo = calls[c].todo \ {next}
    BY <2>3
  <2> QED
    BY <2>3, <2>4
<1> QED
  BY <1>1, <1>2

\* One turn of rerouteToNostr says .cast of the id published, or nothing.
LEMMA RerouteSays ==
    ASSUME IndInv, NEW c \in Calls, RerouteTook(c) \/ RerouteMissed(c)
    PROVE  /\ calls[c].id \in MsgIds
           /\ RerouteTook(c) => /\ Says(calls[c].id, "cast")
                                /\ out' = [id |-> calls[c].id, st |-> "cast"]
           /\ RerouteMissed(c) => SaysNothing /\ Quiet
           /\ \A d \in Calls \ {c} : calls'[d] = calls[d]
           /\ calls'[c].op # "idle" => calls'[c].id \in calls[c].todo
           /\ calls'[c].todo \subseteq calls[c].todo
<1>1. /\ calls[c].op = "reroute" /\ calls[c].id \in MsgIds
      /\ calls \in [Calls -> SuspendedCalls] /\ outbox \in [MsgIds -> OutboxEntries]
  BY DEF RerouteTook, RerouteMissed, IndInv, Core, Shapes, CallShape
<1> DEFINE entries == [outbox EXCEPT ![calls[c].id].st = "cast"]
<1>2. /\ entries \in [MsgIds -> OutboxEntries]
      /\ entries[calls[c].id].st = "cast"
      /\ \A j \in MsgIds \ {calls[c].id} : entries[j].st = outbox[j].st
  BY <1>1 DEF OutboxEntries, DeliveryStates
<1>3. CASE RerouteTook(c)
  <2>1. NextHandOff(c, entries) /\ out' = [id |-> calls[c].id, st |-> "cast"]
    BY <1>3 DEF RerouteTook
  <2>2. ~RerouteMissed(c)
    BY <2>1 DEF RerouteMissed, Quiet, NoUpdate
  <2> HIDE DEF entries
  <2> QED
    BY <1>1, <1>2, <2>1, <2>2, NextHandOffSays DEF Says
<1>4. CASE RerouteMissed(c)
  <2>1. NextHandOff(c, outbox) /\ out' = NoUpdate
    BY <1>4 DEF RerouteMissed, Quiet
  <2>2. ~RerouteTook(c)
    BY <2>1 DEF RerouteTook, NoUpdate
  <2> QED
    BY <1>1, <2>1, <2>2, NextHandOffSays DEF SaysNothing, Quiet
<1> QED
  BY <1>3, <1>4

\* timeoutFired fails a tracked message or says nothing.
LEMMA TimeoutSays ==
    ASSUME IndInv, NEW t \in TaskIds, TimeoutFired(t)
    PROVE  /\ task[t].id \in MsgIds /\ calls' = calls
           /\ \/ /\ Says(task[t].id, "notDelivered") /\ Tracked(task[t].id)
                 /\ out' = [id |-> task[t].id, st |-> "notDelivered"]
              \/ SaysNothing /\ Quiet
<1>1. /\ task[t].id \in MsgIds /\ outbox \in [MsgIds -> OutboxEntries]
      /\ calls' = calls
  BY DEF TimeoutFired, IndInv, Core, TimerInv, TaskShape
<1>2. CASE Tracked(task[t].id) /\ ~IsTerminal(outbox[task[t].id].st)
  BY <1>1, <1>2, SetStateSays DEF TimeoutFired, SetState
<1>3. CASE ~(Tracked(task[t].id) /\ ~IsTerminal(outbox[task[t].id].st))
  BY <1>1, <1>3 DEF TimeoutFired, SaysNothing
<1> QED
  BY <1>1, <1>2, <1>3

-----------------------------------------------------------------------------
(* What a step leaves alone *)

\* Relay and peer forget nothing.
LEMMA ClaimsKept ==
    ASSUME atRelay \subseteq atRelay', accepted \subseteq accepted',
           NEW id, NEW s, Claims(id, s)
    PROVE  Claims(id, s)'
  BY DEF Claims

\* A part of the invariant holds after a step that changes nothing it is about.
LEMMA WorldKept ==
    ASSUME InboxInv, UNCHANGED <<world, minted, sealedFor>>
    PROVE  WorldInv'
  BY DEF InboxInv, WorldInv, world

LEMMA OutboxKept ==
    ASSUME InboxInv, SaysNothing, UNCHANGED <<world, minted>>
    PROVE  OutboxHonest'
  BY DEF InboxInv, OutboxHonest, SaysNothing, Claims, Tracked, world

LEMMA StreamKept ==
    ASSUME InboxInv, UNCHANGED <<world, stream>>
    PROVE  StreamHonest'
  BY DEF InboxInv, StreamHonest, Claims, world

LEMMA CallsKept ==
    ASSUME InboxInv, UNCHANGED <<world, minted, calls, taken>>
    PROVE  CallsInv'
  BY DEF InboxInv, CallsInv, Idle, world

LEMMA RowsKeptInv ==
    ASSUME InboxInv, UNCHANGED <<world, rows, disk, sealedFor>>
    PROVE  RowsInv'
  BY DEF InboxInv, RowsInv, Claims, world

LEMMA OpsKept ==
    ASSUME InboxInv, UNCHANGED <<world, rows, op, sealedFor>>,
           \A c \in Calls : Active(c) => calls'[c] = calls[c]
    PROVE  OpsInv'
  BY DEF InboxInv, OpsInv, OpFits, Active, At, Claims, world

\* A report joins the outbox and the stream.
LEMMA ReportKept ==
    ASSUME IndInv, InboxInv, NEW id \in MsgIds, NEW s \in DeliveryStates,
           Says(id, s), Claims(id, s), id \in minted,
           UNCHANGED <<atRelay, accepted, minted>>
    PROVE  OutboxHonest'
  BY DEF InboxInv, OutboxHonest, Says, Claims, Tracked

\* What the router yielded joins the stream.
LEMMA EmitKept ==
    ASSUME InboxInv, UNCHANGED <<atRelay, accepted>>, Emit,
           \/ Quiet
           \/ \E id \in MsgIds, s \in DeliveryStates :
                 out' = [id |-> id, st |-> s] /\ Claims(id, s)
    PROVE  /\ stream' \in Seq([id : MsgIds, st : DeliveryStates])
           /\ StreamHonest'
<1>1. stream \in Seq([id : MsgIds, st : DeliveryStates]) /\ StreamHonest
  BY DEF InboxInv, InboxShape
<1>2. CASE Quiet
  <2>1. stream' = stream
    BY <1>2 DEF Emit, Quiet, NoUpdate
  <2> QED
    BY <1>1, <2>1 DEF StreamHonest, Claims
<1>3. ASSUME NEW id \in MsgIds, NEW s \in DeliveryStates,
             out' = [id |-> id, st |-> s], Claims(id, s)
      PROVE  stream' \in Seq([id : MsgIds, st : DeliveryStates]) /\ StreamHonest'
  <2>1. out' \in [id : MsgIds, st : DeliveryStates] /\ out'.st # "none"
    BY <1>3 DEF DeliveryStates
  <2>2. stream' = Append(stream, out')
    BY <2>1 DEF Emit
  <2>3. /\ stream' \in Seq([id : MsgIds, st : DeliveryStates])
        /\ Len(stream') = Len(stream) + 1 /\ Len(stream) \in Nat
        /\ \A i \in 1..Len(stream) : stream'[i] = stream[i]
        /\ stream'[Len(stream) + 1] = out'
    BY <1>1, <2>1, <2>2, AppendProperties
  <2>4. ASSUME NEW i \in 1..Len(stream') PROVE Claims(stream[i].id, stream[i].st)'
    <3>1. CASE i = Len(stream) + 1
      BY <1>3, <2>3, <3>1 DEF Claims
    <3>2. CASE i \in 1..Len(stream)
      BY <1>1, <2>3, <3>2 DEF Claims, StreamHonest
    <3> QED
      BY <2>3, <3>1, <3>2
  <2> QED
    BY <2>3, <2>4 DEF StreamHonest
<1> QED
  BY <1>2, <1>3

-----------------------------------------------------------------------------
(* The main actor *)

\* A step of the main actor touches rows and its operation only.
MainActorStep ==
    /\ RouterIdle
    /\ UNCHANGED <<taken, stream, minted, world, sealedFor>>

\* Such a step keeps everything but the rows and the operations.
LEMMA MainActorKeeps ==
    ASSUME InboxInv, MainActorStep
    PROVE  /\ WorldInv' /\ OutboxHonest' /\ StreamHonest' /\ CallsInv'
           /\ taken' \in [Calls -> BOOLEAN]
           /\ stream' \in Seq([id : MsgIds, st : DeliveryStates])
           /\ sealedFor' \in [Rows -> SUBSET MsgIds]
           /\ UNCHANGED <<calls, outbox, sealedFor, world>>
<1>1. SaysNothing
  BY DEF MainActorStep, RouterIdle, SaysNothing
<1>2. WorldInv' /\ OutboxHonest' /\ StreamHonest' /\ CallsInv'
  BY <1>1, WorldKept, OutboxKept, StreamKept, CallsKept DEF MainActorStep, RouterIdle
<1> QED
  BY <1>2 DEF MainActorStep, RouterIdle, InboxInv, InboxShape

\* The records an operation starts with.
LEMMA NewRecord ==
    ASSUME NEW r \in Rows, NEW id \in MsgIds \cup {NoId}
    PROVE  /\ [st |-> "sent", wire |-> id] \in RowRecords
           /\ [stage |-> "seal", row |-> r, id |-> id, val |-> "none"] \in OpRecords
           /\ IdleOp \in OpRecords
  BY DEF RowRecords, OpRecords, RowStates, DeliveryStates, Stages, IdleOp

\* send: no operation works for a row that is not there yet.
LEMMA ComposeKeeps ==
    ASSUME InboxInv, NEW c \in Calls, NEW r \in Rows, Compose(c, r)
    PROVE  InboxInv'
<1>1. MainActorStep
  BY DEF Compose, MainActorStep
<1> DEFINE new == [stage |-> "seal", row |-> r, id |-> NoId, val |-> "none"]
<1>2. /\ rows[r].st = "none" /\ ~Active(c)
      /\ rows' = [rows EXCEPT ![r] = [st |-> "sent", wire |-> NoId]]
      /\ disk' = rows' /\ op' = [op EXCEPT ![c] = new]
  BY DEF Compose, Save, Free, Active, IdleOp
<1>3. \A d \in Calls : Active(d) => op[d].row # r
  BY <1>2 DEF InboxInv, OpsInv, OpFits
<1>4. InboxShape'
  BY <1>1, <1>2, MainActorKeeps, NewRecord DEF InboxInv, InboxShape
<1>5. RowsInv'
  BY <1>1, <1>2, MainActorKeeps DEF InboxInv, InboxShape, RowRecords, RowsInv, Claims, world
<1>6. OpsInv'
  BY <1>1, <1>2, <1>3, <1>4, MainActorKeeps DEF InboxInv, InboxShape, OpRecords, OpsInv, OpFits,
     Active, At, Claims, world
<1> QED
  BY <1>1, <1>4, <1>5, <1>6, MainActorKeeps DEF InboxInv

\* resend: an operation of a row without a wire id would have it read .sent, so
\* a row that can be resent has a wire id or no other operation.
LEMMA ResendKeeps ==
    ASSUME InboxInv, NEW c \in Calls, NEW r \in Rows, ResendRow(c, r)
    PROVE  InboxInv'
<1>1. MainActorStep
  BY DEF ResendRow, MainActorStep
<1> DEFINE new == [stage |-> "seal", row |-> r, id |-> rows[r].wire, val |-> "none"]
<1>2. /\ rows[r].st = "notDelivered" /\ ~Active(c) /\ rows[r] \in RowRecords
      /\ rows' = [rows EXCEPT ![r].st = "sent"]
      /\ disk' = rows' /\ op' = [op EXCEPT ![c] = new]
  BY DEF ResendRow, Save, Free, Active, IdleOp, InboxInv, InboxShape
<1>3. \A d \in Calls : Active(d) /\ op[d].row = r => rows[r].wire # NoId
  BY <1>2 DEF InboxInv, OpsInv, OpFits
<1>4. InboxShape'
  <2>1. rows[r].wire \in MsgIds \cup {NoId} /\ new \in OpRecords
    BY <1>2, NewRecord DEF RowRecords
  <2>2. rows' \in [Rows -> RowRecords]
    BY <1>2 DEF InboxInv, InboxShape, RowRecords, RowStates, DeliveryStates
  <2> QED
    BY <1>1, <1>2, <2>1, <2>2, MainActorKeeps DEF InboxInv, InboxShape
<1>5. RowsInv'
  BY <1>1, <1>2, MainActorKeeps DEF InboxInv, InboxShape, RowRecords, RowsInv, Claims, world
<1>6. OpsInv'
  BY <1>1, <1>2, <1>3, <1>4, MainActorKeeps DEF InboxInv, InboxShape, RowRecords, OpRecords, OpsInv, OpFits,
     RowsInv, Active, At, Claims, world
<1> QED
  BY <1>1, <1>4, <1>5, <1>6, MainActorKeeps DEF InboxInv

\* The stamp: the row had this very id, or none and no other operation.
LEMMA StampKeeps ==
    ASSUME InboxInv, NEW c \in Calls, Stamp(c)
    PROVE  InboxInv'
<1>1. MainActorStep
  BY DEF Stamp, MainActorStep
<1>2. /\ op[c].stage = "returned" /\ op[c] \in OpRecords
      /\ rows' = [rows EXCEPT ![op[c].row].wire = op[c].id]
      /\ disk' = disk /\ op' = [op EXCEPT ![c].stage = "readback"]
  BY DEF Stamp, At, Goto, InboxInv, InboxShape
<1>3. Active(c) /\ OpFits(c) /\ op[c].id \in MsgIds
  BY <1>2 DEF InboxInv, OpsInv, Active
<1>4. InboxShape'
  <2>1. rows' \in [Rows -> RowRecords]
    BY <1>2, <1>3 DEF InboxInv, InboxShape, RowRecords
  <2>2. op' \in [Calls -> OpRecords]
    BY <1>2 DEF InboxInv, InboxShape, OpRecords, Stages
  <2> QED
    BY <1>1, <1>2, <2>1, <2>2, MainActorKeeps DEF InboxInv, InboxShape
<1>5. RowsInv'
  BY <1>1, <1>2, <1>3, MainActorKeeps, IdsAssumption
  DEF IdsAssumption, InboxInv, InboxShape, RowRecords, OpFits, RowsInv, Claims, world
<1>6. OpsInv'
  BY <1>1, <1>2, <1>3, MainActorKeeps, IdsAssumption
  DEF IdsAssumption, InboxInv, InboxShape, RowRecords, OpRecords, OpsInv, OpFits,
     RowsInv, Active, At, Claims, world
<1> QED
  BY <1>1, <1>4, <1>5, <1>6, MainActorKeeps DEF InboxInv

\* The read-back carries what the outbox says of the row's own id.
LEMMA ReadBackKeeps ==
    ASSUME IndInv, InboxInv, NEW c \in Calls, ReadBack(c)
    PROVE  InboxInv'
<1>1. MainActorStep
  BY DEF ReadBack, MainActorStep
<1>2. /\ op[c].stage = "readback" /\ op[c] \in OpRecords
      /\ UNCHANGED <<rows, disk>>
      /\ op' = [op EXCEPT ![c].stage = "write", ![c].val = outbox[op[c].id].st]
  BY DEF ReadBack, At, InboxInv, InboxShape
<1>3. OpFits(c) /\ op[c].id \in MsgIds /\ rows[op[c].row].wire # NoId
  BY <1>2 DEF InboxInv, OpsInv, OpFits, Active
<1>4. outbox[op[c].id].st \in RowStates /\ Claims(op[c].id, outbox[op[c].id].st)
  BY <1>3 DEF IndInv, Core, OutboxEntries, RowStates, InboxInv, OutboxHonest
<1>5. InboxShape'
  <2>1. op' \in [Calls -> OpRecords]
    BY <1>2, <1>4 DEF InboxInv, InboxShape, OpRecords, Stages
  <2> QED
    BY <1>1, <1>2, <2>1, MainActorKeeps DEF InboxInv, InboxShape
<1>6. RowsInv'
  BY <1>1, <1>2, RowsKeptInv, MainActorKeeps
<1>7. OpsInv'
  BY <1>1, <1>2, <1>3, <1>4, MainActorKeeps, SMTT(60)
  DEF InboxInv, InboxShape, OpRecords, OpsInv, OpFits, Active, At, Claims, world
<1> QED
  BY <1>1, <1>5, <1>6, <1>7, MainActorKeeps DEF InboxInv

\* The last write of an operation: its row gets a state that is so, or keeps
\* the one it has.
LEMMA LastWriteKeeps ==
    ASSUME InboxInv, NEW c \in Calls, WriteBack(c) \/ Caught(c)
    PROVE  InboxInv'
<1> DEFINE s == IF At(c, "threw") THEN "notDelivered"
                ELSE IF op[c].val = "none" THEN rows[op[c].row].st ELSE op[c].val
           r == op[c].row
<1>1. MainActorStep
  BY DEF WriteBack, Caught, MainActorStep
<1>2. At(c, "write") \/ At(c, "threw")
  BY DEF WriteBack, Caught
<1>3. /\ op[c] \in OpRecords /\ OpFits(c) /\ rows \in [Rows -> RowRecords]
      /\ r \in Rows
  BY <1>2 DEF InboxInv, InboxShape, OpsInv, OpFits, Active, At
<1>4. rows' = [rows EXCEPT ![r].st = s]
  <2>1. CASE At(c, "threw")
    BY <2>1 DEF WriteBack, Caught, At
  <2>2. CASE At(c, "write") /\ op[c].val # "none"
    BY <2>2 DEF WriteBack, Caught, At
  <2>3. CASE At(c, "write") /\ op[c].val = "none"
    <3>1. rows' = rows
      BY <2>3 DEF WriteBack, Caught, At
    <3>2. s = rows[r].st
      BY <2>3 DEF At
    <3> QED
      BY <1>3, <3>1, <3>2 DEF RowRecords
  <2> QED
    BY <1>2, <2>1, <2>2, <2>3
<1>5. disk' = rows' /\ op' = [op EXCEPT ![c] = IdleOp]
  BY DEF WriteBack, Caught, Save
<1>6. s \in RowStates \ {"none"} /\ Claims(rows[r].wire, s)
  <2>1. CASE At(c, "threw")
    BY <2>1 DEF RowStates, DeliveryStates, Claims
  <2>2. CASE At(c, "write") /\ op[c].val # "none"
    BY <1>3, <2>2 DEF InboxInv, OpsInv, OpFits, OpRecords, At
  <2>3. CASE At(c, "write") /\ op[c].val = "none"
    BY <1>3, <2>3 DEF InboxInv, RowsInv, OpFits, RowRecords, At
  <2> QED
    BY <1>2, <2>1, <2>2, <2>3
<1>7. \A d \in Calls \ {c} : Active(d) /\ op[d].row = r => rows[r].wire # NoId
  BY <1>2, <1>3 DEF InboxInv, OpsInv, OpFits, Active, At
<1> HIDE DEF s
<1>8. InboxShape'
  <2>1. rows' \in [Rows -> RowRecords]
    BY <1>3, <1>4, <1>6 DEF RowRecords
  <2>2. op' \in [Calls -> OpRecords]
    BY <1>3, <1>5, NewRecord DEF InboxInv, InboxShape
  <2> QED
    BY <1>1, <1>5, <2>1, <2>2, MainActorKeeps DEF InboxInv, InboxShape
<1>9. RowsInv'
  BY <1>1, <1>3, <1>4, <1>5, <1>6, MainActorKeeps
  DEF InboxInv, RowRecords, RowsInv, Claims, world
<1>10. OpsInv'
  <2>1. UNCHANGED <<calls, sealedFor, world>>
    BY <1>1, MainActorKeeps
  <2>2. /\ \A q \in Rows : rows'[q].wire = rows[q].wire
        /\ \A q \in Rows \ {r} : rows'[q].st = rows[q].st
        /\ rows'[r].st # "none"
    BY <1>3, <1>4, <1>6 DEF RowRecords
  <2>3. op'[c].stage = "idle" /\ \A d \in Calls \ {c} : op'[d] = op[d]
    BY <1>5 DEF IdleOp, InboxInv, InboxShape
  <2> QED
    BY <1>7, <2>1, <2>2, <2>3
    DEF InboxInv, OpsInv, OpFits, Active, At, Claims, world
<1> QED
  BY <1>1, <1>8, <1>9, <1>10, MainActorKeeps DEF InboxInv

\* A seal that fails touches nothing.
LEMMA ThrowKeeps ==
    ASSUME InboxInv, NEW c \in Calls, SealThrows(c)
    PROVE  InboxInv'
<1>1. MainActorStep
  BY DEF SealThrows, MainActorStep
<1>2. /\ op[c].stage = "seal" /\ UNCHANGED <<rows, disk>>
      /\ op' = [op EXCEPT ![c].stage = "threw"]
  BY DEF SealThrows, At, Goto
<1>3. InboxShape'
  <2>1. op \in [Calls -> OpRecords] /\ op[c] \in OpRecords
    BY DEF InboxInv, InboxShape
  <2>2. [op[c] EXCEPT !.stage = "threw"] \in OpRecords
    BY <2>1 DEF OpRecords, Stages
  <2>3. op' \in [Calls -> OpRecords]
    BY <1>2, <2>1, <2>2
  <2> QED
    BY <1>1, <1>2, <2>3, MainActorKeeps DEF InboxInv, InboxShape
<1>4. RowsInv'
  BY <1>1, <1>2, RowsKeptInv, MainActorKeeps
<1>5. OpsInv'
  BY <1>1, <1>2, MainActorKeeps
  DEF InboxInv, InboxShape, OpRecords, OpsInv, OpFits, Active, At, Claims, world
<1> QED
  BY <1>1, <1>3, <1>4, <1>5, MainActorKeeps DEF InboxInv

\* apply: the update at the head of the stream says what is so of its id, and
\* goes to the row of that id.
LEMMA ApplyKeeps ==
    ASSUME InboxInv, Apply
    PROVE  InboxInv'
<1> DEFINE update == Head(stream)
<1>1. /\ stream \in Seq([id : MsgIds, st : DeliveryStates]) /\ stream # <<>>
      /\ stream' = Tail(stream) /\ StreamHonest
  BY DEF Apply, InboxInv, InboxShape
<1>2. /\ stream' \in Seq([id : MsgIds, st : DeliveryStates])
      /\ Len(stream') = Len(stream) - 1 /\ Len(stream) \in Nat \ {0}
      /\ update = stream[1] /\ update \in [id : MsgIds, st : DeliveryStates]
      /\ \A i \in 1..Len(stream') : stream'[i] = stream[i + 1]
  <2>1. stream' \in Seq([id : MsgIds, st : DeliveryStates]) /\ Len(stream) \in Nat \ {0}
    BY <1>1, HeadTailProperties
  <2>2. update = stream[1] /\ Len(stream') = Len(stream) - 1
    BY <1>1, <2>1
  <2>3. update \in [id : MsgIds, st : DeliveryStates]
    <3>1. 1 \in 1..Len(stream)
      BY <2>1
    <3>2. stream[1] \in [id : MsgIds, st : DeliveryStates]
      BY <1>1, <3>1, ElementOfSeq
    <3> QED
      BY <2>2, <3>2
  <2>4. \A i \in 1..Len(stream') : stream'[i] = stream[i + 1]
    BY <1>1, <2>1, <2>2
  <2> QED
    BY <2>1, <2>2, <2>3, <2>4
<1>3. /\ RouterIdle
      /\ UNCHANGED <<op, taken, minted, world, sealedFor>>
  BY DEF Apply
<1>4. StreamHonest'
  BY <1>1, <1>2, <1>3 DEF StreamHonest, Claims, world
<1>5. SaysNothing /\ calls' = calls
  BY <1>3 DEF RouterIdle, SaysNothing
<1>6. WorldInv' /\ OutboxHonest' /\ CallsInv'
  BY <1>3, <1>5, WorldKept, OutboxKept, CallsKept
<1>7. ASSUME RowsKept PROVE InboxShape' /\ RowsInv' /\ OpsInv'
  <2>1. RowsInv' /\ OpsInv'
    BY <1>3, <1>5, <1>7, RowsKeptInv, OpsKept DEF RowsKept
  <2> QED
    BY <1>2, <1>3, <1>7, <2>1 DEF RowsKept, InboxInv, InboxShape
<1>8. ASSUME NEW r \in Rows, Matches(r, update),
             rows' = [rows EXCEPT ![r].st = update.st], Save
      PROVE  InboxShape' /\ RowsInv' /\ OpsInv'
  <2>1. /\ update.st \in DeliveryStates /\ Claims(update.id, update.st)
        /\ rows[r].wire = update.id /\ rows[r].wire # NoId
    BY <1>1, <1>2, <1>8, IdsAssumption DEF StreamHonest, Matches, IdsAssumption
  <2>2. /\ rows' \in [Rows -> RowRecords]
        /\ \A q \in Rows : rows'[q].wire = rows[q].wire
        /\ \A q \in Rows \ {r} : rows'[q].st = rows[q].st
        /\ rows'[r].st = update.st /\ update.st # "none" /\ disk' = rows'
    BY <1>8, <2>1 DEF InboxInv, InboxShape, RowRecords, RowStates, DeliveryStates, Save
  <2>3. RowsInv'
    BY <1>3, <2>1, <2>2 DEF InboxInv, RowsInv, Claims, world
  <2>4. OpsInv'
    BY <1>3, <1>5, <2>1, <2>2 DEF InboxInv, OpsInv, OpFits, Active, At, Claims, world
  <2> QED
    BY <1>2, <1>3, <2>2, <2>3, <2>4 DEF InboxInv, InboxShape
<1>9. RowsKept \/ \E r \in Rows : /\ Matches(r, update)
                                  /\ rows' = [rows EXCEPT ![r].st = update.st] /\ Save
  BY DEF Apply
<1> QED
  BY <1>4, <1>6, <1>7, <1>8, <1>9 DEF InboxInv

-----------------------------------------------------------------------------
(* The coordinator *)

\* The operation goes on with the same row and id.
LEMMA StageMoves ==
    ASSUME InboxInv, NEW c \in Calls, Active(c),
           NEW s \in {"publish", "commit", "fail", "returned", "threw"},
           op' = [op EXCEPT ![c].stage = s],
           s # "threw" => op[c].id \in MsgIds,
           s = "publish" => calls'[c].id = op[c].id,
           s = "commit" => op[c].id \in atRelay,
           \A d \in Calls \ {c} : calls'[d] = calls[d],
           UNCHANGED <<rows, disk, world, sealedFor>>
    PROVE  op' \in [Calls -> OpRecords] /\ OpsInv' /\ RowsInv'
<1>1. op' \in [Calls -> OpRecords]
  <2>1. s \in Stages
    BY DEF Stages
  <2>2. op \in [Calls -> OpRecords] /\ op[c] \in OpRecords
    BY DEF InboxInv, InboxShape
  <2>3. [op[c] EXCEPT !.stage = s] \in OpRecords
    BY <2>1, <2>2 DEF OpRecords
  <2> QED
    BY <2>2, <2>3
<1>2. OpsInv'
  BY DEF InboxInv, InboxShape, OpRecords, OpsInv, OpFits, Active, At, Claims, world
<1> QED
  BY <1>1, <1>2, RowsKeptInv

\* An id is sealed for a row: the row's own id again, or a fresh one.
LEMMA SealKeeps ==
    ASSUME IndInv, InboxInv, NEW c \in Calls, NEW id \in MsgIds, At(c, "seal"), SealAs(c, id),
           NEW s \in {"route", "begun"},
           op' = [op EXCEPT ![c].stage = s, ![c].id = id],
           \A d \in Calls \ {c} : calls'[d] = calls[d],
           s = "route" => calls'[c].id = id,
           SaysNothing \/ Says(id, "sent"),
           UNCHANGED <<rows, disk, stream, world>>
    PROVE  /\ op' \in [Calls -> OpRecords] /\ sealedFor' \in [Rows -> SUBSET MsgIds]
           /\ OpsInv' /\ RowsInv' /\ WorldInv' /\ OutboxHonest' /\ StreamHonest'
           /\ id \in minted' /\ minted \subseteq minted'
<1>1. /\ Active(c) /\ OpFits(c) /\ op[c] \in OpRecords /\ op[c].row \in Rows
      /\ op[c].stage = "seal"
  BY DEF InboxInv, InboxShape, OpsInv, OpFits, Active, At
<1>2. /\ minted' = minted \cup {id}
      /\ sealedFor' = [sealedFor EXCEPT ![op[c].row] = @ \cup {id}]
      /\ IF op[c].id # NoId THEN id = op[c].id ELSE id \notin minted
  BY DEF SealAs
<1>3. op' \in [Calls -> OpRecords]
  BY <1>1 DEF InboxInv, InboxShape, OpRecords, Stages
<1>4. /\ sealedFor' \in [Rows -> SUBSET MsgIds]
      /\ sealedFor'[op[c].row] = sealedFor[op[c].row] \cup {id}
      /\ \A r \in Rows \ {op[c].row} : sealedFor'[r] = sealedFor[r]
  BY <1>1, <1>2 DEF InboxInv, InboxShape
<1>5. RowsInv'
  BY <1>1, <1>4 DEF InboxInv, RowsInv, OpFits, Claims, world
<1>6. WorldInv'
  <2>1. \A r \in Rows \ {op[c].row} : id \notin sealedFor[r]
    BY <1>1, <1>2 DEF InboxInv, WorldInv, OpFits
  <2>2. minted' \subseteq MsgIds /\ minted \subseteq minted' /\ id \in minted'
    BY <1>2 DEF InboxInv, WorldInv
  <2>3. \A r \in Rows : sealedFor'[r] \subseteq minted'
    BY <1>4, <2>2 DEF InboxInv, WorldInv
  <2>4. \A r, q \in Rows : r # q => sealedFor'[r] \cap sealedFor'[q] = {}
    BY <1>1, <1>4, <2>1 DEF InboxInv, WorldInv
  <2> QED
    BY <2>2, <2>3, <2>4 DEF InboxInv, WorldInv, world
<1>7. OpsInv'
  <2>1. rows[op[c].row].wire # NoId => id = rows[op[c].row].wire
    BY <1>1, <1>2 DEF OpFits
  <2>2. /\ op'[c].stage = s /\ op'[c].id = id /\ op'[c].row = op[c].row
        /\ \A d \in Calls \ {c} : op'[d] = op[d]
    BY <1>1 DEF InboxInv, InboxShape, OpRecords
  <2>3. \A e \in Calls : (Active(e)' <=> Active(e)) /\ op'[e].row = op[e].row
    BY <1>1, <2>2 DEF Active
  <2>4. ASSUME NEW d \in Calls PROVE Active(d)' => OpFits(d)'
    <3>1. CASE d = c
      <4>1. /\ rows' = rows /\ rows[op[c].row].st # "none"
            /\ rows[op[c].row].wire = NoId =>
                 /\ rows[op[c].row].st = "sent"
                 /\ \A e \in Calls : Active(e) /\ op[e].row = op[c].row => e = c
        BY <1>1 DEF OpFits
      <4>2. /\ op'[c].row = op[c].row /\ op[c].row \in Rows /\ op'[c].id = id
            /\ id \in sealedFor'[op[c].row]
            /\ op'[c].stage \notin {"readback", "write"}
        BY <1>1, <1>4, <2>2
      <4>3. rows[op[c].row].wire = NoId =>
              \A e \in Calls : Active(e)' /\ op'[e].row = op'[c].row => e = c
        BY <2>3, <4>1
      <4> QED
        BY <2>1, <3>1, <4>1, <4>2, <4>3 DEF OpFits
    <3>2. CASE d # c
      <4>1. op'[d] = op[d] /\ (Active(d) => OpFits(d))
        BY <2>2, <3>2 DEF InboxInv, OpsInv
      <4> QED
        BY <1>4, <2>3, <4>1 DEF OpFits
    <3> QED
      BY <3>1, <3>2
  <2>5. ASSUME NEW d \in Calls
        PROVE  /\ op'[d].stage \notin {"idle", "seal", "threw"} => op'[d].id \in MsgIds
               /\ At(d, "route")' \/ At(d, "publish")' => calls'[d].id = op'[d].id
               /\ At(d, "commit")' => op'[d].id \in atRelay'
               /\ At(d, "write")' => Claims(op[d].id, op[d].val)'
    <3>1. CASE d = c
      BY <2>2, <3>1 DEF At
    <3>2. CASE d # c
      <4>1. op'[d] = op[d] /\ calls'[d] = calls[d] /\ atRelay' = atRelay /\ accepted' = accepted
        BY <2>2, <3>2 DEF world
      <4> QED
        BY <4>1 DEF InboxInv, OpsInv, At, Claims
    <3> QED
      BY <3>1, <3>2
  <2> QED
    BY <2>4, <2>5 DEF OpsInv
<1>8. OutboxHonest'
  BY <1>2 DEF InboxInv, OutboxHonest, SaysNothing, Says, Claims, Tracked, world
<1> QED
  BY <1>2, <1>3, <1>4, <1>5, <1>6, <1>7, <1>8, StreamKept

\* routeOut.
LEMMA SealAndRouteKeeps ==
    ASSUME IndInv, InboxInv, NEW c \in Calls, NEW id \in MsgIds, SealAndRoute(c, id)
    PROVE  InboxInv'
<1>1. /\ At(c, "seal") /\ SealAs(c, id) /\ Send(c, id, Peer, KnowsNpub)
      /\ op' = [op EXCEPT ![c].stage = "route", ![c].id = id]
      /\ UNCHANGED <<rows, disk, taken, stream, world>>
  BY DEF SealAndRoute
<1>2. /\ Says(id, "sent") /\ Idle(c)
      /\ calls' = [calls EXCEPT ![c] =
                     [op |-> "ble", id |-> id, npub |-> KnowsNpub, todo |-> {}]]
  BY <1>1, SendSays DEF Send
<1>3. /\ calls'[c] = [op |-> "ble", id |-> id, npub |-> KnowsNpub, todo |-> {}]
      /\ \A d \in Calls \ {c} : calls'[d] = calls[d]
  BY <1>2 DEF IndInv, Shapes
<1>4. calls'[c].op = "ble" /\ calls'[c].id = id /\ calls'[c].todo = {}
  BY <1>3
<1>5. /\ op' \in [Calls -> OpRecords] /\ sealedFor' \in [Rows -> SUBSET MsgIds]
      /\ OpsInv' /\ RowsInv' /\ WorldInv' /\ OutboxHonest' /\ StreamHonest'
      /\ id \in minted' /\ minted \subseteq minted'
  BY <1>1, <1>2, <1>3, <1>4, SealKeeps
<1>6. CallsInv'
  BY <1>1, <1>2, <1>3, <1>4, <1>5 DEF InboxInv, CallsInv, Idle, world
<1> QED
  BY <1>1, <1>5, <1>6 DEF InboxInv, InboxShape

\* castOverNostr up to beginTracking.
LEMMA SealAndCastKeeps ==
    ASSUME IndInv, InboxInv, NEW c \in Calls, NEW id \in MsgIds, SealAndCast(c, id)
    PROVE  InboxInv'
<1>1. /\ At(c, "seal") /\ SealAs(c, id) /\ (RouterIdle \/ BeginTracking(id))
      /\ op' = [op EXCEPT ![c].stage = "begun", ![c].id = id]
      /\ UNCHANGED <<rows, disk, taken, stream, world>>
  BY DEF SealAndCast
<1>2. calls' = calls /\ (SaysNothing \/ Says(id, "sent"))
  BY <1>1, BeginSays DEF RouterIdle, SaysNothing
<1>3. /\ op' \in [Calls -> OpRecords] /\ sealedFor' \in [Rows -> SUBSET MsgIds]
      /\ OpsInv' /\ RowsInv' /\ WorldInv' /\ OutboxHonest' /\ StreamHonest'
      /\ id \in minted' /\ minted \subseteq minted'
  BY <1>1, <1>2, SealKeeps
<1>4. CallsInv'
  BY <1>1, <1>2, <1>3 DEF InboxInv, CallsInv, Idle, world
<1> QED
  BY <1>1, <1>3, <1>4 DEF InboxInv, InboxShape

\* castOverNostr: the publish is about the id just sealed.
LEMMA CastPublishKeeps ==
    ASSUME IndInv, InboxInv, NEW c \in Calls, CastPublish(c)
    PROVE  InboxInv'
<1>1. /\ At(c, "begun") /\ PublishOverNostr(c, op[c].id)
      /\ op' = [op EXCEPT ![c].stage = "publish"]
      /\ UNCHANGED <<rows, disk, taken, stream, minted, world, sealedFor>>
  BY DEF CastPublish, Goto
<1>2. Active(c) /\ op[c].id \in MsgIds /\ op[c].id \in minted
  BY <1>1, IdsAssumption
  DEF IdsAssumption, InboxInv, OpsInv, OpFits, WorldInv, At, Active
<1>3. /\ Idle(c) /\ SaysNothing
      /\ calls'[c] = [op |-> "publish", id |-> op[c].id, npub |-> TRUE, todo |-> {}]
      /\ \A d \in Calls \ {c} : calls'[d] = calls[d]
  BY <1>1 DEF PublishOverNostr, SaysNothing, IndInv, Shapes
<1>4. calls'[c].op = "publish" /\ calls'[c].id = op[c].id /\ calls'[c].todo = {}
  BY <1>3
<1>5. op' \in [Calls -> OpRecords] /\ OpsInv' /\ RowsInv'
  BY <1>1, <1>2, <1>3, <1>4, StageMoves
<1>6. WorldInv' /\ OutboxHonest' /\ StreamHonest'
  BY <1>1, <1>3, WorldKept, OutboxKept, StreamKept
<1>7. CallsInv'
  BY <1>1, <1>2, <1>3, <1>4 DEF InboxInv, CallsInv, Idle, world
<1> QED
  BY <1>1, <1>5, <1>6, <1>7 DEF InboxInv, InboxShape

\* A call returns and its slot is free again.
LEMMA ReturnKeepsCalls ==
    ASSUME InboxInv, NEW c \in Calls,
           calls \in [Calls -> SuspendedCalls],
           calls' = [calls EXCEPT ![c] = IdleCall],
           taken' = [taken EXCEPT ![c] = FALSE],
           UNCHANGED <<minted, world>>
    PROVE  /\ CallsInv' /\ taken' \in [Calls -> BOOLEAN]
           /\ \A d \in Calls \ {c} : calls'[d] = calls[d]
  BY DEF InboxInv, InboxShape, CallsInv, Idle, IdleCall, world

\* A publish that succeeded was taken by a relay.
LEMMA CastPublishedKeeps ==
    ASSUME IndInv, InboxInv, NEW c \in Calls, CastPublished(c)
    PROVE  InboxInv'
<1> DEFINE s == IF taken[c] THEN "commit" ELSE "fail"
<1>1. /\ At(c, "publish") /\ PublishReturned(c)
      /\ op' = [op EXCEPT ![c].stage = s]
      /\ taken' = [taken EXCEPT ![c] = FALSE]
      /\ UNCHANGED <<rows, disk, stream, minted, world, sealedFor>>
  BY DEF CastPublished, Goto
<1>2. Active(c) /\ op[c].id \in MsgIds /\ calls[c].id = op[c].id
  BY <1>1 DEF InboxInv, OpsInv, At, Active
<1>3. /\ SaysNothing /\ calls[c].op = "publish"
      /\ calls' = [calls EXCEPT ![c] = IdleCall]
      /\ calls \in [Calls -> SuspendedCalls]
  BY <1>1 DEF PublishReturned, SaysNothing, IndInv, Shapes
<1>4. CallsInv' /\ taken' \in [Calls -> BOOLEAN] /\ \A d \in Calls \ {c} : calls'[d] = calls[d]
  BY <1>1, <1>3, ReturnKeepsCalls
<1>5. s = "commit" => op[c].id \in atRelay
  BY <1>2, <1>3 DEF InboxInv, CallsInv
<1>6. s \in {"commit", "fail"}
  OBVIOUS
<1> HIDE DEF s
<1>7. op' \in [Calls -> OpRecords] /\ OpsInv' /\ RowsInv'
  BY <1>1, <1>2, <1>4, <1>5, <1>6, StageMoves
<1>8. WorldInv' /\ OutboxHonest' /\ StreamHonest'
  BY <1>1, <1>3, WorldKept, OutboxKept, StreamKept
<1> QED
  BY <1>1, <1>4, <1>7, <1>8 DEF InboxInv, InboxShape

\* castOverNostr ends with .cast of an id a relay has, or with a failure.
LEMMA CastSettlesKeeps ==
    ASSUME IndInv, InboxInv, NEW c \in Calls, CastSettles(c)
    PROVE  InboxInv'
<1> DEFINE id == op[c].id
           s == IF At(c, "commit") THEN "cast" ELSE "notDelivered"
           t == IF At(c, "commit") THEN "returned" ELSE "threw"
<1>1. /\ At(c, "commit") \/ At(c, "fail")
      /\ op' = [op EXCEPT ![c].stage = t]
      /\ Emit /\ UNCHANGED <<rows, disk, taken, minted, world, sealedFor>>
  BY DEF CastSettles, Goto, At
<1>2. Active(c) /\ id \in MsgIds /\ id \in minted /\ (At(c, "commit") => id \in atRelay)
  BY <1>1, IdsAssumption
  DEF IdsAssumption, InboxInv, OpsInv, OpFits, WorldInv, At, Active
<1>3. RouterIdle \/ Confirm(id, s) \/ (s = "cast" /\ CommitToRelay(id))
  BY DEF CastSettles, ConfirmFailure, At
<1>4. s \in DeliveryStates /\ Claims(id, s) /\ t \in {"returned", "threw"}
  BY <1>1, <1>2 DEF DeliveryStates, Claims, At
<1> HIDE DEF s, t
<1>5. /\ calls' = calls
      /\ \/ SaysNothing /\ Quiet
         \/ Says(id, s) /\ out' = [id |-> id, st |-> s]
  BY <1>2, <1>3, ConfirmSays DEF RouterIdle, SaysNothing
<1>6. op' \in [Calls -> OpRecords] /\ OpsInv' /\ RowsInv'
  BY <1>1, <1>2, <1>4, <1>5, StageMoves
<1>7. WorldInv' /\ CallsInv'
  BY <1>1, <1>5, WorldKept, CallsKept
<1>8. atRelay' = atRelay /\ accepted' = accepted /\ minted' = minted
  BY <1>1 DEF world
<1>9. OutboxHonest'
  BY <1>1, <1>2, <1>4, <1>5, <1>8, OutboxKept, ReportKept
<1>10. stream' \in Seq([id : MsgIds, st : DeliveryStates]) /\ StreamHonest'
  BY <1>1, <1>2, <1>4, <1>5, <1>8, EmitKept
<1> QED
  BY <1>1, <1>6, <1>7, <1>9, <1>10 DEF InboxInv, InboxShape

\* A step in which the router reports s of an id, or nothing, and in which
\* neither rows nor the world change.
LEMMA ReportStepKeeps ==
    ASSUME IndInv, InboxInv, Emit,
           UNCHANGED <<atRelay, accepted, minted>>,
           \/ SaysNothing /\ Quiet
           \/ \E id \in minted, s \in DeliveryStates :
                 Says(id, s) /\ out' = [id |-> id, st |-> s] /\ Claims(id, s)
    PROVE  /\ OutboxHonest' /\ StreamHonest'
           /\ stream' \in Seq([id : MsgIds, st : DeliveryStates])
<1>1. minted \subseteq MsgIds
  BY DEF InboxInv, WorldInv
<1>2. CASE SaysNothing /\ Quiet
  <2>1. OutboxHonest'
    BY <1>2 DEF InboxInv, OutboxHonest, SaysNothing, Claims, Tracked
  <2> QED
    BY <1>2, <2>1, EmitKept
<1>3. ASSUME NEW id \in minted, NEW s \in DeliveryStates,
             Says(id, s), out' = [id |-> id, st |-> s], Claims(id, s)
      PROVE  /\ OutboxHonest' /\ StreamHonest'
             /\ stream' \in Seq([id : MsgIds, st : DeliveryStates])
  BY <1>1, <1>3, ReportKept, EmitKept
<1> QED
  BY <1>2, <1>3

\* routeOut's await: what the transport took decides what the router says.
LEMMA RouteResumesKeeps ==
    ASSUME IndInv, InboxInv, NEW c \in Calls, RouteResumes(c)
    PROVE  InboxInv'
<1>1. /\ At(c, "route") /\ taken' = [taken EXCEPT ![c] = FALSE] /\ Emit
      /\ UNCHANGED <<rows, disk, minted, world, sealedFor>>
      /\ UNCHANGED <<atRelay, accepted>>
  BY DEF RouteResumes, world
<1>2. Active(c) /\ op[c].id \in MsgIds /\ calls[c].id = op[c].id /\ calls[c].id \in minted
  BY <1>1, IdsAssumption
  DEF IdsAssumption, InboxInv, OpsInv, OpFits, WorldInv, At, Active
<1>3. calls \in [Calls -> SuspendedCalls] /\ WorldInv'
  BY <1>1, WorldKept DEF IndInv, Shapes
<1>4. CASE BleNoPeersTryRelay(c) /\ UNCHANGED op /\ ~taken[c]
  <2>1. /\ SaysNothing /\ Quiet
        /\ calls' = [calls EXCEPT ![c].op = "relay"]
    BY <1>4 DEF BleNoPeersTryRelay, SaysNothing
  <2>2. /\ calls'[c].op = "relay" /\ calls'[c].id = calls[c].id
        /\ calls'[c].todo = calls[c].todo
        /\ \A d \in Calls \ {c} : calls'[d] = calls[d]
    BY <1>3, <2>1 DEF SuspendedCalls
  <2>3. OpsInv'
    BY <1>1, <1>2, <1>4, <2>2 DEF InboxInv, OpsInv, OpFits, Active, At, Claims
  <2>4. CallsInv'
    BY <1>1, <1>2, <2>2 DEF InboxInv, InboxShape, CallsInv, Idle
  <2>5. OutboxHonest' /\ StreamHonest' /\ stream' \in Seq([id : MsgIds, st : DeliveryStates])
    BY <1>1, <2>1, ReportStepKeeps
  <2>6. InboxShape'
    BY <1>1, <1>4, <2>5 DEF InboxInv, InboxShape
  <2> QED
    BY <1>1, <1>3, <2>3, <2>4, <2>5, <2>6, RowsKeptInv DEF InboxInv
<1>5. ASSUME NEW s \in DeliveryStates, FinishSend(c, s), Claims(calls[c].id, s),
             NEW t \in {"returned", "threw"}, op' = [op EXCEPT ![c].stage = t]
      PROVE  InboxInv'
  <2>1. /\ Says(calls[c].id, s) /\ out' = [id |-> calls[c].id, st |-> s]
        /\ calls' = [calls EXCEPT ![c] = IdleCall]
    BY <1>2, <1>5, FinishSays
  <2>2. CallsInv' /\ taken' \in [Calls -> BOOLEAN] /\ \A d \in Calls \ {c} : calls'[d] = calls[d]
    BY <1>1, <1>3, <2>1, ReturnKeepsCalls
  <2>3. op' \in [Calls -> OpRecords] /\ OpsInv' /\ RowsInv'
    BY <1>1, <1>2, <1>5, <2>2, StageMoves
  <2>4. OutboxHonest' /\ StreamHonest' /\ stream' \in Seq([id : MsgIds, st : DeliveryStates])
    BY <1>1, <1>2, <1>5, <2>1, ReportStepKeeps
  <2> QED
    BY <1>1, <1>3, <2>2, <2>3, <2>4 DEF InboxInv, InboxShape
<1>6. CASE taken[c] /\ (BleSent(c) \/ RelayTook(c)) /\ Goto(c, "returned")
  <2>1. calls[c].op = "relay" => calls[c].id \in atRelay
    BY <1>6 DEF InboxInv, CallsInv
  <2>2. PICK s \in {"sent", "cast"} : FinishSend(c, s) /\ (s = "cast" => calls[c].id \in atRelay)
    BY <1>6, <2>1 DEF BleSent, RelayTook
  <2>3. Claims(calls[c].id, s) /\ s \in DeliveryStates
    BY <2>2 DEF Claims, DeliveryStates
  <2> QED
    BY <1>5, <1>6, <2>2, <2>3 DEF Goto
<1>7. CASE (BleNoPeersNoRelay(c) \/ BleFailed(c) \/ RelayMissed(c)) /\ Goto(c, "threw")
  <2>1. PICK s \in {"waitingForRange", "notDelivered"} : FinishSend(c, s)
    BY <1>7 DEF BleNoPeersNoRelay, BleFailed, RelayMissed
  <2>2. Claims(calls[c].id, s) /\ s \in DeliveryStates
    BY <2>1 DEF Claims, DeliveryStates
  <2> QED
    BY <1>5, <1>7, <2>1, <2>2 DEF Goto
<1> QED
  BY <1>4, <1>6, <1>7 DEF RouteResumes

-----------------------------------------------------------------------------
(* The transports, the relay and the peer *)

\* Relay and radio get minted ids only.
LEMMA TransportTakesKeeps ==
    ASSUME InboxInv, NEW c \in Calls, TransportTakes(c)
    PROVE  InboxInv'
<1>1. /\ calls[c].op \in {"ble", "relay", "publish", "reroute"}
      /\ taken' = [taken EXCEPT ![c] = TRUE]
      /\ air' = air \cup {calls[c].id}
      /\ IF calls[c].op = "ble" THEN atRelay' = atRelay
         ELSE atRelay' = atRelay \cup {calls[c].id}
      /\ UNCHANGED <<rows, disk, op, stream, minted, accepted, acks, sealedFor>>
      /\ calls' = calls /\ outbox' = outbox
  BY DEF TransportTakes, RouterIdle
<1>2. calls[c].id \in minted /\ atRelay \subseteq atRelay'
  BY <1>1 DEF InboxInv, CallsInv, Idle
<1>3. InboxShape' /\ WorldInv'
  BY <1>1, <1>2 DEF InboxInv, InboxShape, WorldInv
<1>4. CallsInv'
  BY <1>1, <1>2 DEF InboxInv, InboxShape, CallsInv, Idle
<1>5. OutboxHonest' /\ StreamHonest' /\ RowsInv'
  BY <1>1, <1>2 DEF InboxInv, OutboxHonest, StreamHonest, RowsInv, Claims, Tracked
<1>6. OpsInv'
  BY <1>1, <1>2 DEF InboxInv, OpsInv, OpFits, Active, At, Claims
<1> QED
  BY <1>3, <1>4, <1>5, <1>6 DEF InboxInv

\* The peer stores what is in the air.
LEMMA PeerStoresKeeps ==
    ASSUME InboxInv, NEW id \in MsgIds, PeerStores(id)
    PROVE  InboxInv'
<1>1. /\ id \in air /\ accepted' = accepted \cup {id} /\ acks' = acks \cup {id}
      /\ UNCHANGED <<rows, disk, op, taken, stream, minted, air, atRelay, sealedFor>>
      /\ calls' = calls /\ outbox' = outbox
  BY DEF PeerStores, RouterIdle
<1>2. InboxShape' /\ WorldInv' /\ CallsInv'
  BY <1>1 DEF InboxInv, InboxShape, WorldInv, CallsInv, Idle
<1>3. OutboxHonest' /\ StreamHonest' /\ RowsInv'
  BY <1>1 DEF InboxInv, OutboxHonest, StreamHonest, RowsInv, Claims, Tracked
<1>4. OpsInv'
  BY <1>1 DEF InboxInv, OpsInv, OpFits, Active, At, Claims
<1> QED
  BY <1>2, <1>3, <1>4 DEF InboxInv

\* A step that only reports: an acknowledgement, a ladder, a timer.
LEMMA OnlyReportsKeeps ==
    ASSUME IndInv, InboxInv, Emit, calls' = calls,
           UNCHANGED <<rows, disk, op, taken, minted, air, atRelay, accepted, sealedFor>>,
           acks' \subseteq acks,
           \/ SaysNothing /\ Quiet
           \/ \E id \in minted, s \in DeliveryStates :
                 Says(id, s) /\ out' = [id |-> id, st |-> s] /\ Claims(id, s)
    PROVE  InboxInv'
<1>1. OutboxHonest' /\ StreamHonest' /\ stream' \in Seq([id : MsgIds, st : DeliveryStates])
  BY ReportStepKeeps
<1>2. InboxShape' /\ WorldInv' /\ CallsInv'
  BY <1>1 DEF InboxInv, InboxShape, WorldInv, CallsInv, Idle
<1>3. RowsInv'
  BY DEF InboxInv, RowsInv, Claims
<1>4. OpsInv'
  BY DEF InboxInv, OpsInv, OpFits, Active, At, Claims
<1> QED
  BY <1>1, <1>2, <1>3, <1>4 DEF InboxInv

\* An acknowledgement is about an id the peer stored.
LEMMA AckKeeps ==
    ASSUME IndInv, InboxInv, NEW id \in MsgIds, NEW hops \in Hops, AckArrives(id, hops)
    PROVE  InboxInv'
<1> DEFINE s == IF hops <= 0 THEN "delivered" ELSE "relayed"
<1>1. /\ id \in acks /\ acks' = acks \ {id} /\ Emit
      /\ RouterIdle \/ Confirm(id, s)
      /\ UNCHANGED <<rows, disk, op, taken, minted, air, atRelay, accepted, sealedFor>>
  BY DEF AckArrives, ConfirmDelivery
<1>2. id \in minted /\ s \in DeliveryStates /\ Claims(id, s)
  BY <1>1 DEF InboxInv, WorldInv, DeliveryStates, Claims
<1> HIDE DEF s
<1>3. /\ calls' = calls
      /\ \/ SaysNothing /\ Quiet
         \/ Says(id, s) /\ out' = [id |-> id, st |-> s]
  BY <1>1, ConfirmSays DEF RouterIdle, SaysNothing
<1> QED
  BY <1>1, <1>2, <1>3, OnlyReportsKeeps

\* A ladder that gives up claims nothing.
LEMMA LadderKeeps ==
    ASSUME IndInv, InboxInv, NEW id \in MsgIds, LadderGivesUp(id)
    PROVE  InboxInv'
<1>1. /\ Emit
      /\ RouterIdle \/ (Tracked(id) /\ Confirm(id, "notDelivered"))
      /\ UNCHANGED <<rows, disk, op, taken, minted, air, atRelay, accepted, acks, sealedFor>>
  BY DEF LadderGivesUp, ConfirmFailure
<1>2. /\ "notDelivered" \in DeliveryStates /\ Claims(id, "notDelivered")
      /\ Tracked(id) => id \in minted
  BY DEF InboxInv, OutboxHonest, DeliveryStates, Claims
<1>3. /\ calls' = calls
      /\ \/ SaysNothing /\ Quiet
         \/ Tracked(id) /\ Says(id, "notDelivered") /\ out' = [id |-> id, st |-> "notDelivered"]
  BY <1>1, ConfirmSays DEF RouterIdle, SaysNothing
<1> QED
  BY <1>1, <1>2, <1>3, OnlyReportsKeeps

\* A timer claims nothing.
LEMMA InboxTimerKeeps ==
    ASSUME IndInv, InboxInv, NEW t \in TaskIds, InboxTimer(t)
    PROVE  InboxInv'
<1>1. /\ TimerElapses(t) \/ TimeoutFired(t)
      /\ Emit
      /\ UNCHANGED <<rows, disk, op, taken, minted, air, atRelay, accepted, acks, sealedFor>>
  BY DEF InboxTimer, world
<1>2. CASE TimerElapses(t)
  <2>1. calls' = calls /\ SaysNothing /\ Quiet
    BY <1>2 DEF TimerElapses, SaysNothing
  <2> QED
    BY <1>1, <2>1, OnlyReportsKeeps
<1>3. CASE TimeoutFired(t)
  <2> DEFINE id == task[t].id
  <2>1. /\ id \in MsgIds /\ calls' = calls
        /\ \/ Says(id, "notDelivered") /\ Tracked(id) /\ out' = [id |-> id, st |-> "notDelivered"]
           \/ SaysNothing /\ Quiet
    BY <1>3, TimeoutSays
  <2>2. /\ "notDelivered" \in DeliveryStates /\ Claims(id, "notDelivered")
        /\ Tracked(id) => id \in minted
    BY <2>1 DEF InboxInv, OutboxHonest, DeliveryStates, Claims
  <2> HIDE DEF id
  <2> QED
    BY <1>1, <2>1, <2>2, OnlyReportsKeeps
<1> QED
  BY <1>1, <1>2, <1>3

-----------------------------------------------------------------------------
(* Presence and relaunch *)

\* The loop visits tracked, hence minted, ids.
LEMMA RerouteDepartedKeeps ==
    ASSUME IndInv, InboxInv, NEW c \in Calls, RerouteDeparted(c)
    PROVE  InboxInv'
<1>1. UNCHANGED <<rows, disk, op, taken, stream, minted, world, sealedFor>>
  BY DEF RerouteDeparted
<1>2. InboxShape' /\ RowsInv' /\ WorldInv' /\ StreamHonest'
  BY <1>1, RowsKeptInv, WorldKept, StreamKept DEF InboxInv, InboxShape
<1>3. CASE RouterIdle
  <2>1. SaysNothing /\ calls' = calls
    BY <1>3 DEF RouterIdle, SaysNothing
  <2> QED
    BY <1>1, <1>2, <2>1, OutboxKept, CallsKept, OpsKept DEF InboxInv
<1>4. CASE Free(c) /\ RerouteToNostr(c, {Peer})
  <2>1. PICK next \in Eligible({Peer}) :
            HandOff(c, outbox, next, Eligible({Peer}) \ {next})
    BY <1>4 DEF RerouteToNostr
  <2>2. Eligible({Peer}) \subseteq minted /\ next \in MsgIds
    BY DEF Eligible, InboxInv, OutboxHonest
  <2>3. /\ \A j \in MsgIds : outbox'[j].st = outbox[j].st
        /\ \A d \in Calls \ {c} : calls'[d] = calls[d]
        /\ calls'[c] = [op |-> "reroute", id |-> next, npub |-> TRUE,
                        todo |-> Eligible({Peer}) \ {next}]
    BY <2>1, <2>2 DEF HandOff, OutboxEntries, IndInv, Core, Shapes
  <2>4. /\ calls'[c].op = "reroute" /\ calls'[c].id = next
        /\ calls'[c].todo = Eligible({Peer}) \ {next}
    BY <2>3
  <2>5. ~Active(c) /\ Idle(c)
    BY <1>4 DEF Free, Active, IdleOp
  <2>6. OutboxHonest'
    BY <1>1, <2>3, OutboxKept DEF SaysNothing
  <2>7. OpsInv'
    BY <1>1, <2>3, <2>5, OpsKept
  <2>8. CallsInv'
    BY <1>1, <2>2, <2>3, <2>4, <2>5 DEF InboxInv, InboxShape, CallsInv, Idle, world
  <2> QED
    BY <1>2, <2>6, <2>7, <2>8 DEF InboxInv
<1> QED
  BY <1>3, <1>4 DEF RerouteDeparted

\* A reroute says .cast only of an id the relay took.
LEMMA RerouteResumesKeeps ==
    ASSUME IndInv, InboxInv, NEW c \in Calls, RerouteResumes(c)
    PROVE  InboxInv'
<1> DEFINE id == calls[c].id
<1>1. /\ ~Active(c) /\ taken' = [taken EXCEPT ![c] = FALSE] /\ Emit
      /\ UNCHANGED <<rows, disk, op, minted, world, sealedFor>>
      /\ UNCHANGED <<atRelay, accepted>>
      /\ IF taken[c] THEN RerouteTook(c) ELSE RerouteMissed(c)
  BY DEF RerouteResumes, Active, At, world
<1>2. /\ id \in MsgIds
      /\ RerouteTook(c) => Says(id, "cast") /\ out' = [id |-> id, st |-> "cast"]
      /\ RerouteMissed(c) => SaysNothing /\ Quiet
      /\ \A d \in Calls \ {c} : calls'[d] = calls[d]
      /\ calls'[c].op # "idle" => calls'[c].id \in calls[c].todo
      /\ calls'[c].todo \subseteq calls[c].todo
  BY <1>1, RerouteSays
<1>3. calls[c].op = "reroute"
  BY <1>1 DEF RerouteTook, RerouteMissed
<1>4. id \in minted /\ calls[c].todo \subseteq minted /\ (taken[c] => id \in atRelay)
  BY <1>3 DEF InboxInv, CallsInv, Idle
<1>5. OutboxHonest' /\ StreamHonest' /\ stream' \in Seq([id : MsgIds, st : DeliveryStates])
  <2>1. "cast" \in DeliveryStates /\ (taken[c] => Claims(id, "cast"))
    BY <1>4 DEF DeliveryStates, Claims
  <2> QED
    BY <1>1, <1>2, <1>4, <2>1, ReportStepKeeps
<1>6. CallsInv'
  BY <1>1, <1>2, <1>4 DEF InboxInv, InboxShape, CallsInv, Idle
<1>7. InboxShape'
  BY <1>1, <1>5 DEF InboxInv, InboxShape
<1>8. OpsInv' /\ RowsInv' /\ WorldInv'
  BY <1>1, <1>2, OpsKept, RowsKeptInv, WorldKept
<1> QED
  BY <1>5, <1>6, <1>7, <1>8 DEF InboxInv

\* Nothing of the inbox changes, and the router says nothing.
LEMMA SilentKeeps ==
    ASSUME InboxInv, SaysNothing, calls' = calls,
           UNCHANGED <<rows, disk, op, taken, stream, minted, world, sealedFor>>
    PROVE  InboxInv'
<1>1. InboxShape'
  BY DEF InboxInv, InboxShape
<1> QED
  BY <1>1, OpsKept, RowsKeptInv, WorldKept, OutboxKept, StreamKept, CallsKept DEF InboxInv

\* Departures, returns and the reconnect grace.
LEMMA PresenceKeeps ==
    ASSUME InboxInv, PeerAppears \/ PeerDeparts \/ \E r \in Rows : Reconnected(r)
    PROVE  InboxInv'
<1>1. /\ SaysNothing /\ calls' = calls
      /\ UNCHANGED <<rows, disk, op, taken, stream, minted, world, sealedFor>>
  BY DEF PeerAppears, PeerDeparts, Reconnected, ExtendTimeout, Rearm, RouterIdle,
     SaysNothing, inboxVars
<1> QED
  BY <1>1, SilentKeeps

\* reconcileBootOrphans on what was saved: what is not given up was saved as
\* memory had it.
LEMMA RelaunchKeeps ==
    ASSUME InboxInv, Relaunch
    PROVE  InboxInv'
<1>1. /\ rows' = [r \in Rows |-> Reconciled(r)] /\ disk' = rows'
      /\ op' = [c \in Calls |-> IdleOp] /\ taken' = [c \in Calls |-> FALSE]
      /\ stream' = <<>>
      /\ outbox' = [id \in MsgIds |-> NoEntry]
      /\ calls' = [c \in Calls |-> IdleCall]
      /\ UNCHANGED <<minted, air, atRelay, accepted, acks, sealedFor>>
  BY DEF Relaunch, Save
<1>2. ASSUME NEW r \in Rows
      PROVE  /\ rows'[r] \in RowRecords /\ rows'[r].wire = disk[r].wire
             /\ \/ rows'[r].st = "notDelivered" /\ disk[r].st # "none"
                \/ rows'[r].st = disk[r].st /\ disk[r] = rows[r]
  <2>1. disk[r] \in RowRecords /\ rows'[r] = Reconciled(r)
    BY <1>1 DEF InboxInv, InboxShape
  <2>2. disk[r] # rows[r] => disk[r].st = "sent"
    BY DEF InboxInv, RowsInv
  <2> QED
    BY <2>1, <2>2 DEF Reconciled, RowRecords, RowStates, DeliveryStates
<1>3. InboxShape'
  <2>1. rows' \in [Rows -> RowRecords]
    BY <1>1, <1>2
  <2>2. op' \in [Calls -> OpRecords] /\ taken' \in [Calls -> BOOLEAN]
    BY <1>1 DEF OpRecords, Stages, RowStates, IdleOp
  <2> QED
    BY <1>1, <2>1, <2>2 DEF InboxInv, InboxShape
<1>4. OpsInv'
  BY <1>1 DEF OpsInv, Active, At, IdleOp
<1>5. RowsInv'
  BY <1>1, <1>2 DEF InboxInv, RowsInv, Claims
<1>6. WorldInv'
  BY <1>1 DEF InboxInv, WorldInv
<1>7. OutboxHonest' /\ CallsInv'
  BY <1>1 DEF OutboxHonest, CallsInv, Claims, Tracked, NoEntry, Idle, IdleCall
<1>8. StreamHonest'
  BY <1>1 DEF StreamHonest
<1> QED
  BY <1>3, <1>4, <1>5, <1>6, <1>7, <1>8 DEF InboxInv

\* Nothing is stored, sealed or under way at first.
LEMMA InboxInitEstablishes ==
    ASSUME InboxInit
    PROVE  InboxInv
<1>1. NoRow \in RowRecords /\ IdleOp \in OpRecords /\ NoRow.st = "none" /\ NoRow.wire = NoId
  BY DEF NoRow, RowRecords, RowStates, DeliveryStates, IdleOp, OpRecords, Stages
<1>2. InboxShape
  BY <1>1 DEF InboxInit, InboxShape
<1>3. OpsInv
  BY DEF InboxInit, OpsInv, Active, At, IdleOp
<1>4. RowsInv /\ WorldInv
  BY <1>1 DEF InboxInit, RowsInv, WorldInv, Claims
<1>5. OutboxHonest /\ CallsInv
  BY DEF InboxInit, Init, OutboxHonest, CallsInv, Claims, Tracked, NoEntry, Idle, IdleCall
<1>6. StreamHonest
  BY DEF InboxInit, StreamHonest
<1> QED
  BY <1>2, <1>3, <1>4, <1>5, <1>6 DEF InboxInv

\* One case per action.
LEMMA InboxInvStep ==
    ASSUME IndInv, InboxInv, [InboxNext]_allVars
    PROVE  InboxInv'
<1>1. CASE UNCHANGED allVars
  BY <1>1, SilentKeeps DEF allVars, vars, inboxVars, SaysNothing
<1>2. ASSUME NEW c \in Calls, OpSteps(c) PROVE InboxInv'
  BY <1>2, SealAndRouteKeeps, SealAndCastKeeps, ThrowKeeps, CastPublishKeeps,
     CastPublishedKeeps, CastSettlesKeeps, RouteResumesKeeps, StampKeeps,
     ReadBackKeeps, LastWriteKeeps, RerouteDepartedKeeps, RerouteResumesKeeps
  DEF OpSteps
<1>3. CASE InboxNext
  BY <1>2, <1>3, ComposeKeeps, ResendKeeps, TransportTakesKeeps, PeerStoresKeeps,
     LadderKeeps, AckKeeps, PresenceKeeps, InboxTimerKeeps, ApplyKeeps, RelaunchKeeps
  DEF InboxNext
<1> QED
  BY <1>1, <1>3

DeliveryInv == IndInv /\ InboxInv

\* Inbox, coordinator, router, stream, relay and peer agree in every reachable
\* state: the strengthening the results below rest on.
THEOREM DeliveryInductive == InboxSpec => []DeliveryInv
<1>1. InboxInit => DeliveryInv
  BY InboxInitEstablishes, InitEstablishes DEF InboxInit, DeliveryInv
<1>2. DeliveryInv /\ [InboxNext]_allVars => DeliveryInv'
  BY InboxInvStep, RouterKept DEF DeliveryInv, InboxInv
<1> QED
  BY <1>1, <1>2, PTL DEF InboxSpec

\* What is proved of the router's timers holds in the app too, where process
\* death and relaunch come on top: handles, tasks and outbox agree, and a text
\* that reads .sent is timed.
THEOREM RouterHoldsInApp == InboxSpec => [](TimersConsistent /\ SentHasBackstop)
<1>1. DeliveryInv => TimersConsistent /\ SentHasBackstop
  BY DEF DeliveryInv, IndInv, Core, TimerInv, TimersConsistent
<1> QED
  BY <1>1, DeliveryInductive, PTL

\* So does the single hand-off: in one life of the process an entry goes to the
\* relay by rerouteToNostr at most once per send, whatever the inbox does.
THEOREM RerouteOnceInApp ==
    ASSUME MaxReroutes = 1
    PROVE  InboxSpec => []ReroutedOnce
<1>1. InboxInit => RerouteInv
  BY DEF InboxInit, Init, RerouteInv, IdleCall, NoEntry
<1>2. DeliveryInv /\ RerouteInv /\ [InboxNext]_allVars => RerouteInv'
  <2> SUFFICES ASSUME DeliveryInv, RerouteInv, [InboxNext]_allVars PROVE RerouteInv'
    OBVIOUS
  <2>1. CASE Next
    BY <2>1, RerouteInvStep DEF DeliveryInv
  <2>2. CASE RouterIdle \/ UNCHANGED allVars
    BY <2>2 DEF RouterIdle, allVars, vars, RerouteInv
  <2>3. CASE Relaunch
    BY <2>3 DEF Relaunch, RerouteInv, IdleCall, NoEntry
  <2> QED
    BY <2>1, <2>2, <2>3, RouterStep DEF DeliveryInv, InboxInv
<1>3. DeliveryInv /\ RerouteInv => ReroutedOnce
  BY DEF DeliveryInv, IndInv, Core, Shapes, OutboxEntries, RerouteInv, ReroutedOnce
<1> QED
  BY <1>1, <1>2, <1>3, DeliveryInductive, PTL DEF InboxSpec

\* MessageInbox: whichever of the read-back, the stream, a reroute or a relaunch
\* wrote it, a row that reads .cast names an id a relay took, and one that reads
\* delivered or relayed an id the peer stored; any number of rows, operations,
\* ids, timers and relaunches.
THEOREM RowsAreHonest == InboxSpec => []RowsHonest
<1>1. DeliveryInv => RowsHonest
  <2> SUFFICES ASSUME InboxInv PROVE RowsHonest
    BY DEF DeliveryInv
  <2>1. InboxTypeOK
    BY DEF InboxInv, InboxShape, RowRecords, OpRecords, OpsInv, InboxTypeOK
  <2>2. CastIsHonest
    BY DEF InboxInv, RowsInv, Claims, CastIsHonest
  <2>3. DeliveredIsHonest
    BY DEF InboxInv, RowsInv, Claims, DeliveredIsHonest
  <2> QED
    BY <2>1, <2>2, <2>3 DEF RowsHonest
<1> QED
  BY <1>1, DeliveryInductive, PTL

\* Only the main actor's saves and the boot write the disk, and none of them
\* replaces a wire id.
LEMMA WireStep ==
    ASSUME InboxInv, [InboxNext]_allVars, NEW r \in Rows, disk[r].wire # NoId
    PROVE  disk'[r].wire = disk[r].wire
<1>1. rows[r] = disk[r] /\ rows \in [Rows -> RowRecords] /\ disk \in [Rows -> RowRecords]
  BY DEF InboxInv, InboxShape, RowsInv
<1>2. ASSUME NEW c \in Calls, NEW q \in Rows, Compose(c, q) \/ ResendRow(c, q)
      PROVE  disk'[r].wire = disk[r].wire
  <2>1. disk' = rows'
    BY <1>2 DEF Compose, ResendRow, Save
  <2>2. CASE Compose(c, q)
    <3>1. q # r
      BY <1>1, <2>2, IdsAssumption DEF Compose, InboxInv, RowsInv
    <3> QED
      BY <1>1, <2>1, <2>2, <3>1 DEF Compose
  <2>3. CASE ResendRow(c, q)
    BY <1>1, <2>1, <2>3 DEF ResendRow, RowRecords
  <2> QED
    BY <1>2, <2>2, <2>3
<1>3. ASSUME NEW c \in Calls, WriteBack(c) \/ Caught(c)
      PROVE  disk'[r].wire = disk[r].wire
  <2>1. disk' = rows'
    BY <1>3 DEF WriteBack, Caught, Save
  <2>2. CASE rows' = rows
    BY <1>1, <2>1, <2>2
  <2>3. ASSUME NEW s, rows' = [rows EXCEPT ![op[c].row].st = s]
        PROVE  disk'[r].wire = disk[r].wire
    BY <1>1, <2>1, <2>3 DEF RowRecords
  <2> QED
    BY <1>3, <2>2, <2>3 DEF WriteBack, Caught
<1>4. ASSUME Apply PROVE disk'[r].wire = disk[r].wire
  <2>1. CASE RowsKept
    BY <2>1 DEF RowsKept
  <2>2. CASE Save /\ \E q \in Rows : \E s : rows' = [rows EXCEPT ![q].st = s]
    BY <1>1, <2>2 DEF Save, RowRecords
  <2> QED
    BY <1>4, <2>1, <2>2 DEF Apply
<1>5. ASSUME Relaunch PROVE disk'[r].wire = disk[r].wire
  <2>1. disk'[r] = Reconciled(r)
    BY <1>5 DEF Relaunch, Save
  <2> QED
    BY <1>1, <2>1 DEF Reconciled, RowRecords
<1>6. ASSUME NEW c \in Calls, OpSteps(c), ~WriteBack(c), ~Caught(c)
      PROVE  disk' = disk
  BY <1>6 DEF OpSteps, SealAndRoute, SealAndCast, SealThrows, CastPublish,
     CastPublished, CastSettles, RouteResumes, Stamp, ReadBack, RerouteDeparted,
     RerouteResumes
<1>7. ASSUME NEW c \in Calls, TransportTakes(c) PROVE disk' = disk
  BY <1>7 DEF TransportTakes
<1>8. ASSUME NEW id \in MsgIds,
             PeerStores(id) \/ LadderGivesUp(id) \/ \E hops \in Hops : AckArrives(id, hops)
      PROVE  disk' = disk
  BY <1>8 DEF PeerStores, LadderGivesUp, AckArrives
<1>9. ASSUME (\E q \in Rows : Reconnected(q)) \/ (\E t \in TaskIds : InboxTimer(t))
                \/ PeerAppears \/ PeerDeparts \/ UNCHANGED allVars
      PROVE  disk' = disk
  BY <1>9 DEF Reconnected, InboxTimer, PeerAppears, PeerDeparts, allVars, inboxVars
<1> QED
  BY <1>2, <1>3, <1>4, <1>5, <1>6, <1>7, <1>8, <1>9 DEF InboxNext

\* B2 (MessageInbox.resend, castOverNostr): a wire id once saved stays with its
\* row through retries, reroutes and relaunches.
THEOREM WireIdKept == InboxSpec => WireIdIsKept
<1>1. DeliveryInv /\ [InboxNext]_allVars
        => [\A r \in Rows : disk[r].wire # NoId => disk'[r].wire = disk[r].wire]_allVars
  BY WireStep DEF DeliveryInv
<1> QED
  BY <1>1, DeliveryInductive, PTL DEF InboxSpec, WireIdIsKept

-----------------------------------------------------------------------------
(* The refinement of DeliveryStatus *)

ShownRows   == [r \in Rows |-> Shown(r)]
RelayedRows == {r \in Rows : sealedFor[r] \cap atRelay # {}}
HeldRows    == {r \in Rows : sealedFor[r] \cap accepted # {}}

\* The reader sees the row's state and nothing else.
LEMMA ShownFollowsState ==
    ASSUME NEW r \in Rows, rows'[r].st = rows[r].st
    PROVE  Shown(r)' = Shown(r)
  BY DEF Shown

\* What each delivery state shows ...
LEMMA ShownCases ==
    ASSUME NEW r \in Rows, rows[r].st \in RowStates
    PROVE  /\ Shown(r) \in Status!Statuses
           /\ Shown(r) = "none" <=> rows[r].st = "none"
           /\ Shown(r) = "cast" <=> rows[r].st = "cast"
           /\ Shown(r) = "delivered" <=> rows[r].st \in {"delivered", "relayed"}
           /\ Shown(r) = "failed" <=> rows[r].st = "notDelivered"
           /\ Shown(r) = "pending" <=>
                rows[r].st \in {"sent", "waitingForRange", "findingPath"}
  BY DEF Shown, Status!Statuses, RowStates, DeliveryStates

\* ... after a step too.
LEMMA ShownCasesNext ==
    ASSUME NEW r \in Rows, rows'[r].st \in RowStates
    PROVE  /\ Shown(r)' \in Status!Statuses
           /\ Shown(r)' = "none" <=> rows'[r].st = "none"
           /\ Shown(r)' = "cast" <=> rows'[r].st = "cast"
           /\ Shown(r)' = "delivered" <=> rows'[r].st \in {"delivered", "relayed"}
           /\ Shown(r)' = "failed" <=> rows'[r].st = "notDelivered"
           /\ Shown(r)' = "pending" <=>
                rows'[r].st \in {"sent", "waitingForRange", "findingPath"}
  BY DEF Shown, Status!Statuses, RowStates, DeliveryStates

\* A step the reader does not see.
LEMMA StutterRefines ==
    ASSUME \A r \in Rows : rows'[r].st = rows[r].st,
           RelayedRows' = RelayedRows, HeldRows' = HeldRows
    PROVE  UNCHANGED Status!statusVars
<1>1. ShownRows' = ShownRows
  BY ShownFollowsState DEF ShownRows
<1> QED
  BY <1>1 DEF Status!statusVars, ShownRows, RelayedRows, HeldRows

\* A write to one stored row is a Report: it claims what RowsInv says is so.
LEMMA ReportRefines ==
    ASSUME InboxInv, InboxInv', NEW r \in Rows,
           rows[r].st # "none", rows'[r].st # "none",
           \A q \in Rows \ {r} : rows'[q].st = rows[q].st,
           UNCHANGED <<atRelay, accepted, sealedFor>>
    PROVE  Status!StatusNext
<1> DEFINE status == Shown(r)'
<1>1. \A q \in Rows : rows[q].st \in RowStates /\ rows'[q].st \in RowStates
  BY DEF InboxInv, InboxShape, RowRecords
<1>2. /\ ShownRows[r] # "none" /\ status # "none" /\ status \in Status!Statuses
      /\ status = "cast" <=> rows'[r].st = "cast"
      /\ status = "delivered" <=> rows'[r].st \in {"delivered", "relayed"}
  BY <1>1, ShownCases, ShownCasesNext DEF ShownRows
<1> HIDE DEF status
<1>3. /\ status = "cast" => r \in RelayedRows
      /\ status = "delivered" => r \in HeldRows
  <2>1. /\ rows'[r].st = "cast" => rows'[r].wire \in atRelay
        /\ rows'[r].st \in {"delivered", "relayed"} => rows'[r].wire \in accepted
        /\ rows'[r].wire # NoId => rows'[r].wire \in sealedFor[r]
    BY DEF InboxInv, RowsInv, Claims
  <2>2. NoId \notin atRelay \cup accepted
    BY IdsAssumption DEF IdsAssumption, InboxInv, WorldInv
  <2> QED
    BY <1>2, <2>1, <2>2 DEF RelayedRows, HeldRows
<1>4. ShownRows' = [ShownRows EXCEPT ![r] = status]
  BY ShownFollowsState DEF ShownRows, status
<1>5. RelayedRows' = RelayedRows /\ HeldRows' = HeldRows
  BY DEF RelayedRows, HeldRows
<1>6. Status!Report(r, status)
  BY <1>2, <1>3, <1>4, <1>5 DEF Status!Report, ShownRows, RelayedRows, HeldRows
<1> QED
  BY <1>2, <1>6 DEF Status!StatusNext

\* The composer writes a message.
LEMMA ComposeRefines ==
    ASSUME InboxInv, InboxInv', NEW c \in Calls, NEW r \in Rows, Compose(c, r)
    PROVE  Status!StatusNext
<1>1. /\ rows \in [Rows -> RowRecords] /\ rows[r].st = "none"
      /\ rows' = [rows EXCEPT ![r] = [st |-> "sent", wire |-> NoId]]
      /\ UNCHANGED <<atRelay, accepted, sealedFor>>
  BY DEF Compose, InboxInv, InboxShape, world
<1>2. /\ rows'[r].st = "sent" /\ \A q \in Rows \ {r} : rows'[q].st = rows[q].st
      /\ rows[r].st \in RowStates /\ rows'[r].st \in RowStates
  BY <1>1 DEF RowRecords, RowStates, DeliveryStates
<1>3. ShownRows[r] = "none" /\ Shown(r)' = "pending"
  BY <1>1, <1>2, ShownCases, ShownCasesNext DEF ShownRows
<1>4. ShownRows' = [ShownRows EXCEPT ![r] = "pending"]
  BY <1>2, <1>3, ShownFollowsState DEF ShownRows
<1>5. RelayedRows' = RelayedRows /\ HeldRows' = HeldRows
  BY <1>1 DEF RelayedRows, HeldRows
<1>6. Status!Write(r)
  BY <1>3, <1>4, <1>5 DEF Status!Write, ShownRows, RelayedRows, HeldRows
<1> QED
  BY <1>6 DEF Status!StatusNext

\* Every other write to a row is a report.
LEMMA WriteRefines ==
    ASSUME InboxInv, InboxInv',
           \/ \E c \in Calls : WriteBack(c) \/ Caught(c)
           \/ \E c \in Calls, r \in Rows : ResendRow(c, r)
           \/ Apply
    PROVE  Status!StatusNext \/ UNCHANGED Status!statusVars
<1>1. UNCHANGED <<atRelay, accepted, sealedFor>> /\ rows \in [Rows -> RowRecords]
  BY DEF WriteBack, Caught, ResendRow, Apply, world, InboxInv, InboxShape
<1>2. ASSUME rows' = rows PROVE UNCHANGED Status!statusVars
  BY <1>1, <1>2, StutterRefines DEF RelayedRows, HeldRows
<1>3. ASSUME NEW r \in Rows, rows[r].st # "none",
             NEW s, s # "none", rows' = [rows EXCEPT ![r].st = s]
      PROVE  Status!StatusNext
  <2>1. rows'[r].st = s /\ \A q \in Rows \ {r} : rows'[q].st = rows[q].st
    BY <1>1, <1>3 DEF RowRecords
  <2> QED
    BY <1>1, <1>3, <2>1, ReportRefines
<1>4. ASSUME NEW c \in Calls, WriteBack(c) \/ Caught(c)
      PROVE  Status!StatusNext \/ UNCHANGED Status!statusVars
  <2>1. op[c].row \in Rows /\ rows[op[c].row].st # "none"
    BY <1>4 DEF WriteBack, Caught, InboxInv, OpsInv, OpFits, Active, At
  <2>2. rows' = rows \/ \E s : s # "none" /\ rows' = [rows EXCEPT ![op[c].row].st = s]
    BY <1>4 DEF WriteBack, Caught
  <2> QED
    BY <1>2, <1>3, <2>1, <2>2
<1>5. ASSUME NEW c \in Calls, NEW r \in Rows, ResendRow(c, r)
      PROVE  Status!StatusNext
  BY <1>3, <1>5 DEF ResendRow
<1>6. ASSUME Apply PROVE Status!StatusNext \/ UNCHANGED Status!statusVars
  <2> DEFINE update == Head(stream)
  <2>1. update \in [id : MsgIds, st : DeliveryStates]
    <3>1. stream \in Seq([id : MsgIds, st : DeliveryStates]) /\ stream # <<>>
      BY <1>6 DEF Apply, InboxInv, InboxShape
    <3> QED
      BY <3>1, HeadTailProperties
  <2>2. CASE RowsKept
    BY <1>2, <2>2 DEF RowsKept
  <2>3. ASSUME NEW r \in Rows, Matches(r, update), rows' = [rows EXCEPT ![r].st = update.st]
        PROVE  Status!StatusNext
    <3>1. rows[r].wire # NoId /\ update.st # "none"
      BY <2>1, <2>3, IdsAssumption DEF Matches, IdsAssumption, DeliveryStates
    <3>2. rows[r].st # "none"
      BY <3>1 DEF InboxInv, RowsInv
    <3> HIDE DEF update
    <3> QED
      BY <1>3, <2>3, <3>1, <3>2
  <2> QED
    BY <1>6, <2>2, <2>3 DEF Apply
<1> QED
  BY <1>4, <1>5, <1>6

\* The world moves on for one message: an id is sealed for one row only.
LEMMA SpreadRefines ==
    ASSUME InboxInv, NEW id,
           \/ atRelay' = atRelay \cup {id} /\ accepted' = accepted
           \/ accepted' = accepted \cup {id} /\ atRelay' = atRelay,
           UNCHANGED <<rows, sealedFor>>
    PROVE  Status!StatusNext \/ UNCHANGED Status!statusVars
<1>1. ShownRows' = ShownRows
  BY ShownFollowsState DEF ShownRows
<1>2. CASE \A r \in Rows : id \notin sealedFor[r]
  BY <1>1, <1>2, StutterRefines DEF RelayedRows, HeldRows
<1>3. ASSUME NEW r \in Rows, id \in sealedFor[r]
      PROVE  Status!StatusNext
  <2>1. \A q \in Rows \ {r} : id \notin sealedFor[q]
    BY <1>3 DEF InboxInv, WorldInv
  <2>2. RelayedRows' \in {RelayedRows, RelayedRows \cup {r}}
    <3>1. \A q \in Rows \ {r} : q \in RelayedRows' <=> q \in RelayedRows
      BY <2>1 DEF RelayedRows
    <3>2. r \in RelayedRows => r \in RelayedRows'
      BY DEF RelayedRows
    <3>3. RelayedRows \subseteq Rows /\ RelayedRows' \subseteq Rows
      BY DEF RelayedRows
    <3> HIDE DEF RelayedRows
    <3> QED
      BY <3>1, <3>2, <3>3
  <2>3. HeldRows' \in {HeldRows, HeldRows \cup {r}}
    <3>1. \A q \in Rows \ {r} : q \in HeldRows' <=> q \in HeldRows
      BY <2>1 DEF HeldRows
    <3>2. r \in HeldRows => r \in HeldRows'
      BY DEF HeldRows
    <3>3. HeldRows \subseteq Rows /\ HeldRows' \subseteq Rows
      BY DEF HeldRows
    <3> QED
      BY <3>1, <3>2, <3>3
  <2>4. ShownRows[r] # "none"
    <3>1. rows[r].st # "none" /\ rows[r].st \in RowStates
      BY <1>3 DEF InboxInv, RowsInv, InboxShape, RowRecords
    <3> QED
      BY <3>1, ShownCases DEF ShownRows
  <2>5. Status!Spread(r)
    BY <1>1, <2>2, <2>3, <2>4 DEF Status!Spread, ShownRows, RelayedRows, HeldRows
  <2> QED
    BY <2>5 DEF Status!StatusNext
<1> QED
  BY <1>2, <1>3

\* A fresh id is nowhere yet; a retry's id was the row's already.
LEMMA SealRefines ==
    ASSUME InboxInv, NEW c \in Calls, NEW id \in MsgIds, At(c, "seal"), SealAs(c, id),
           UNCHANGED <<rows, atRelay, accepted>>
    PROVE  UNCHANGED Status!statusVars
<1>1. op[c].row \in Rows /\ (op[c].id # NoId => op[c].id \in sealedFor[op[c].row])
  BY DEF InboxInv, OpsInv, OpFits, Active, At
<1>2. /\ sealedFor' = [sealedFor EXCEPT ![op[c].row] = @ \cup {id}]
      /\ sealedFor \in [Rows -> SUBSET MsgIds]
      /\ IF op[c].id # NoId THEN id = op[c].id ELSE id \notin minted
  BY DEF SealAs, InboxInv, InboxShape
<1>3. id \in sealedFor[op[c].row] \/ (id \notin atRelay /\ id \notin accepted)
  BY <1>1, <1>2 DEF InboxInv, WorldInv
<1>4. ASSUME NEW r \in Rows
      PROVE  /\ sealedFor'[r] \cap atRelay = sealedFor[r] \cap atRelay
             /\ sealedFor'[r] \cap accepted = sealedFor[r] \cap accepted
  BY <1>1, <1>2, <1>3
<1>5. RelayedRows' = RelayedRows /\ HeldRows' = HeldRows
  BY <1>4 DEF RelayedRows, HeldRows
<1> QED
  BY <1>5, StutterRefines

\* A relaunch gives up exactly what was pending, since the disk shows what
\* memory shows.
LEMMA RelaunchRefines ==
    ASSUME InboxInv, Relaunch
    PROVE  Status!StatusNext
<1>1. /\ rows' = [r \in Rows |-> Reconciled(r)]
      /\ UNCHANGED <<atRelay, accepted, sealedFor>>
      /\ rows \in [Rows -> RowRecords] /\ disk \in [Rows -> RowRecords]
  BY DEF Relaunch, InboxInv, InboxShape
<1>2. ASSUME NEW r \in Rows
      PROVE  Shown(r)' = IF Shown(r) = "pending" THEN "failed" ELSE Shown(r)
  <2>1. /\ rows[r].st \in RowStates /\ rows'[r].st \in RowStates
        /\ rows'[r].st = IF disk[r].st \in {"sent", "waitingForRange", "findingPath"}
                         THEN "notDelivered" ELSE disk[r].st
    BY <1>1 DEF Reconciled, RowRecords, RowStates, DeliveryStates
  <2>2. disk[r].st = rows[r].st
    BY DEF InboxInv, RowsInv
  <2>3. CASE rows[r].st \in {"sent", "waitingForRange", "findingPath"}
    BY <2>1, <2>2, <2>3, ShownCases, ShownCasesNext
  <2>4. CASE rows[r].st \notin {"sent", "waitingForRange", "findingPath"}
    <3>1. rows'[r].st = rows[r].st
      BY <2>1, <2>2, <2>4
    <3> QED
      BY <2>1, <2>4, <3>1, ShownCases, ShownFollowsState
  <2> QED
    BY <2>3, <2>4
<1>3. ShownRows' = [r \in Rows |-> IF ShownRows[r] = "pending" THEN "failed"
                                   ELSE ShownRows[r]]
  BY <1>2 DEF ShownRows
<1>4. RelayedRows' = RelayedRows /\ HeldRows' = HeldRows
  BY <1>1 DEF RelayedRows, HeldRows
<1>5. Status!Restart
  BY <1>3, <1>4 DEF Status!Restart, ShownRows, RelayedRows, HeldRows
<1> QED
  BY <1>5 DEF Status!StatusNext

\* Every step is a step of DeliveryStatus or invisible.
LEMMA StatusStep ==
    ASSUME InboxInv, InboxInv', [InboxNext]_allVars
    PROVE  Status!StatusNext \/ UNCHANGED Status!statusVars
<1>1. ASSUME UNCHANGED <<rows, sealedFor, atRelay, accepted>>
      PROVE  UNCHANGED Status!statusVars
  BY <1>1, StutterRefines DEF RelayedRows, HeldRows
<1>2. ASSUME NEW c \in Calls, NEW id \in MsgIds, SealAndRoute(c, id) \/ SealAndCast(c, id)
      PROVE  UNCHANGED Status!statusVars
  BY <1>2, SealRefines DEF SealAndRoute, SealAndCast, world
<1>3. ASSUME NEW c \in Calls, Stamp(c)
      PROVE  UNCHANGED Status!statusVars
  <2>1. \A r \in Rows : rows'[r].st = rows[r].st
    BY <1>3 DEF Stamp, InboxInv, InboxShape, RowRecords
  <2>2. RelayedRows' = RelayedRows /\ HeldRows' = HeldRows
    BY <1>3 DEF Stamp, world, RelayedRows, HeldRows
  <2> QED
    BY <2>1, <2>2, StutterRefines
<1>4. ASSUME NEW c \in Calls,
             \/ SealThrows(c) \/ CastPublish(c) \/ CastPublished(c) \/ CastSettles(c)
             \/ RouteResumes(c) \/ ReadBack(c) \/ RerouteDeparted(c) \/ RerouteResumes(c)
      PROVE  UNCHANGED <<rows, sealedFor, atRelay, accepted>>
  BY <1>4 DEF SealThrows, CastPublish, CastPublished, CastSettles, RouteResumes,
     ReadBack, RerouteDeparted, RerouteResumes, world
<1>5. ASSUME NEW c \in Calls, OpSteps(c)
      PROVE  Status!StatusNext \/ UNCHANGED Status!statusVars
  BY <1>1, <1>2, <1>3, <1>4, <1>5, WriteRefines DEF OpSteps
<1>6. ASSUME NEW c \in Calls, TransportTakes(c)
      PROVE  Status!StatusNext \/ UNCHANGED Status!statusVars
  <2>1. /\ UNCHANGED <<rows, sealedFor, accepted>>
        /\ atRelay' = atRelay \/ atRelay' = atRelay \cup {calls[c].id}
    BY <1>6 DEF TransportTakes
  <2> QED
    BY <1>1, <2>1, SpreadRefines
<1>7. ASSUME NEW id \in MsgIds, PeerStores(id)
      PROVE  Status!StatusNext \/ UNCHANGED Status!statusVars
  BY <1>7, SpreadRefines DEF PeerStores
<1>8. ASSUME \/ \E id \in MsgIds : LadderGivesUp(id) \/ \E hops \in Hops : AckArrives(id, hops)
             \/ \E r \in Rows : Reconnected(r)
             \/ \E t \in TaskIds : InboxTimer(t)
             \/ PeerAppears \/ PeerDeparts \/ UNCHANGED allVars
      PROVE  UNCHANGED <<rows, sealedFor, atRelay, accepted>>
  BY <1>8 DEF LadderGivesUp, AckArrives, Reconnected, InboxTimer, PeerAppears,
     PeerDeparts, allVars, inboxVars, world
<1> QED
  BY <1>1, <1>5, <1>6, <1>7, <1>8, ComposeRefines, WriteRefines, RelaunchRefines
  DEF InboxNext

\* An empty transcript.
LEMMA StatusInitially ==
    ASSUME InboxInit
    PROVE  Status!StatusInit
<1>1. /\ rows = [r \in Rows |-> NoRow] /\ atRelay = {} /\ accepted = {}
  BY DEF InboxInit
<1>2. \A r \in Rows : rows[r].st = "none"
  BY <1>1 DEF NoRow
<1>3. \A r \in Rows : Shown(r) = "none"
  BY <1>2 DEF Shown
<1> QED
  BY <1>1, <1>3 DEF Status!StatusInit

\* The inbox with everything below it implements DeliveryStatus.
THEOREM InboxImplementsStatus == InboxSpec => ImplementsStatus
<1>1. DeliveryInv /\ DeliveryInv' /\ [InboxNext]_allVars
        => [Status!StatusNext]_(Status!statusVars)
  BY StatusStep DEF DeliveryInv
<1>2. InboxInit => Status!StatusInit
  BY StatusInitially
<1> QED
  BY <1>1, <1>2, DeliveryInductive, PTL DEF InboxSpec, ImplementsStatus, Status!StatusSpec
=============================================================================
