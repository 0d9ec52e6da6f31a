------------------------ MODULE CallControllerProofs ------------------------
(***************************************************************************)
(* Machine-checked safety of CallController, for any number of calls,      *)
(* suspended operations and accepts.                                       *)
(***************************************************************************)
EXTENDS CallController, FiniteSetTheorems, TLAPS

-----------------------------------------------------------------------------
(* The inductive invariant, one side: what its suspended operations, its     *)
(* state and its media sessions say of each other when taps are patient.     *)

Ops == [kind : OpKinds, call : Calls \cup {NoCall},
        session : Sessions \cup {NoMedia}, sent : BOOLEAN]

Offer(s, c) == <<s, c, 1>>
Over(s) == In(s, "ended", NoCall)
Live(s, c) == In(s, "connecting", c) \/ In(s, "active", c) \/ Over(s)

OfferFits(s, p) ==
    /\ p.session = Offer(s, p.call) /\ media[s] = p.session
    /\ sess[p.session] = "new"
    /\ caller[p.call] = {s} /\ ~p.sent
    /\ state[s].phase \in {"idle", "incoming", "ended"}

RequestFits(s, p) ==
    /\ caller[p.call] = {s}
    /\ In(s, "outgoing", p.call) \/ Live(s, p.call)

AnsweringFits(s, p) ==
    /\ p.session # NoMedia /\ media[s] = p.session
    /\ p.session[1] = s /\ p.session[2] = p.call
    /\ sess[p.session] = "new"
    /\ caller[p.call] = {Other(s)}
    /\ In(s, "incoming", p.call) \/ Over(s)

AnswerFits(s, p) ==
    /\ p.session # NoMedia
    /\ caller[p.call] = {Other(s)} /\ Live(s, p.call)

CancelFits(s, p) ==
    /\ media[s] = NoMedia
    /\ caller[p.call] = {s} /\ sess[Offer(s, p.call)] = "closed"
    /\ In(s, "outgoing", p.call) \/ In(s, "connecting", p.call) \/ Over(s)

DeclineFits(s, p) ==
    /\ media[s] = NoMedia
    /\ caller[p.call] = {Other(s)}
    /\ In(s, "incoming", p.call) \/ Over(s)

StartFits(s, p) ==
    /\ caller[p.call] = {s}
    /\ \/ /\ p.session = NoMedia /\ media[s] = NoMedia
          /\ In(s, "connecting", p.call) \/ Over(s)
       \/ /\ p.session = Offer(s, p.call) /\ media[s] = p.session
          /\ sess[p.session] = "offered" /\ In(s, "connecting", p.call)
       \/ /\ p.session = Offer(s, p.call) /\ media[s] = NoMedia
          /\ sess[p.session] = "closed" /\ Over(s)

OpFits(s, p) ==
    /\ p.kind = "none" => p = NoOp
    /\ p.kind = "offer" => OfferFits(s, p)
    /\ p.kind = "request" => RequestFits(s, p)
    /\ p.kind = "answering" => AnsweringFits(s, p)
    /\ p.kind = "answer" => AnswerFits(s, p)
    /\ p.kind = "cancel" => CancelFits(s, p)
    /\ p.kind = "decline" => DeclineFits(s, p)
    /\ p.kind = "start" => StartFits(s, p)

\* One tap at a time is served; only the start of the answered call runs beside
\* the operation that rang.
MayRunBeside(p, q) ==
    \/ p.kind = "start" /\ q.kind \in {"request", "cancel"}
    \/ q.kind = "start" /\ p.kind \in {"request", "cancel"}
OpsFit(s) ==
    /\ \A o \in Slots : OpFits(s, op[s][o])
    /\ \A o, p \in Slots : o # p =>
         \/ op[s][o] = NoOp \/ op[s][p] = NoOp \/ MayRunBeside(op[s][o], op[s][p])

\* The current session is the only open one, and its status follows the state.
MediaFits(s) ==
    /\ \A x \in Open : x[1] = s => media[s] = x
    /\ media[s] # NoMedia => LET x == media[s] IN
         /\ x[1] = s
         /\ \/ /\ sess[x] = "new"
               /\ \E o \in Slots : /\ op[s][o].kind \in {"offer", "answering"}
                                   /\ op[s][o].session = x
            \/ sess[x] = "offered" /\ In(s, "outgoing", x[2])
            \/ /\ sess[x] = "offered" /\ In(s, "connecting", x[2])
               /\ \E o \in Slots : op[s][o].kind = "start" /\ op[s][o].session = x
            \/ sess[x] = "checking" /\ In(s, "connecting", x[2])
            \/ sess[x] = "connected" /\ In(s, "active", x[2])

RingFits(s) ==
    /\ state[s].phase = "incoming" => caller[state[s].call] = {Other(s)}
    /\ state[s].phase = "outgoing" =>
         /\ caller[state[s].call] = {s}
         /\ \/ media[s] = Offer(s, state[s].call) /\ sess[media[s]] = "offered"
            \/ \E o \in Slots : op[s][o].kind = "cancel" /\ media[s] = NoMedia

SideFits(s) == OpsFit(s) /\ MediaFits(s) /\ RingFits(s)
SideInv == \A s \in Sides : SideFits(s)

-----------------------------------------------------------------------------
(* ... and both sides: a call rings once, and what ends a ring is final. *)

\* Nothing happened to a call before its caller minted it.
Fresh ==
    \A c \in Calls : caller[c] = {} =>
        /\ taps[c] = 0
        /\ \A s \in Sides : timer[s] # c /\ missed[s][c] = 0 /\ c \notin talked[s]

\* An answer is on its way, or being made, or applied, only once accepted.
Accepted ==
    /\ \A s \in Sides, o \in Slots :
         op[s][o].kind \in {"answering", "answer"} => taps[op[s][o].call] > 0
    /\ \A m \in net : m.kind = "answer" => taps[m.call] > 0
    /\ ConnectedWasAccepted

\* A request and an answer go to the side they are meant for; a decline that
\* goes to the callee is a cancel, and the caller's session is closed by then.
MessageFits(m) ==
    /\ caller[m.call] # {}
    /\ m.kind = "request" => caller[m.call] = {Other(m.to)} /\ m.tap = 0
    /\ m.kind = "answer" => caller[m.call] = {m.to}
    /\ m.kind = "decline" /\ caller[m.call] = {Other(m.to)}
         => sess[Offer(Other(m.to), m.call)] = "closed"
NetFits == \A m \in net : MessageFits(m)

\* The request of the call has not left yet.
Unasked(s, c) ==
    \E o \in Slots : /\ op[s][o].call = c /\ ~op[s][o].sent
                     /\ op[s][o].kind \in {"offer", "request"}
Asked(c) == \E m \in net : m.kind = "request" /\ m.call = c
Untouched(s, c) == state[s].call # c /\ missed[s][c] = 0 /\ c \notin talked[s]

\* The call c of s: until its one request arrives, the callee knows nothing of it.
RingFitsOnce(s, c) ==
    /\ Unasked(s, c) => ~Asked(c)
    /\ Unasked(s, c) \/ Asked(c) => taps[c] = 0 /\ Untouched(Other(s), c)
    /\ \A o \in Slots : op[s][o].kind = "offer" /\ op[s][o].call = c => Untouched(s, c)
RingsOnce == \A s \in Sides, c \in Calls : caller[c] = {s} => RingFitsOnce(s, c)

\* A side that rings has not missed or talked on the call; a missed call is off
\* the caller's screen, and can no longer connect at the callee.
EndFits(s, c) ==
    /\ Ringing(s, c) => missed[s][c] = 0 /\ c \notin talked[s]
    /\ missed[s][c] > 0 /\ caller[c] = {s} => state[s].call # c
    /\ missed[s][c] > 0 /\ caller[c] # {s}
         => taps[c] = 0 \/ sess[Offer(Other(s), c)] = "closed"
    /\ timer[s] = c /\ In(s, "incoming", c) => taps[c] = 0
RingEnds == \A s \in Sides, c \in Calls : EndFits(s, c)

CallInv == SideInv /\ Fresh /\ NetFits /\ RingsOnce /\ RingEnds /\ MissedIsMissed

-----------------------------------------------------------------------------
(* The two sides, and what the helpers do *)

LEMMA TheOther ==
    ASSUME CallAssumption, NEW s \in Sides
    PROVE  /\ Other(s) \in Sides /\ Other(s) # s
           /\ \A t \in Sides : t = s \/ t = Other(s)
           /\ Other(Other(s)) = s
<1>1. IsFiniteSet(Sides \ {s}) /\ Cardinality(Sides \ {s}) = 1
  BY FS_RemoveElement DEF CallAssumption
<1>2. PICK t : Sides \ {s} = {t}
  BY <1>1, FS_Singleton
<1>3. t \in Sides /\ t # s /\ \A u \in Sides : u = s \/ u = t
  BY <1>2
<1>4. Other(s) = t
  BY <1>3 DEF Other
<1>5. Other(t) = s
  BY <1>3 DEF Other
<1> QED
  BY <1>3, <1>4, <1>5

LEMMA SessionsAreTriples ==
    /\ NoMedia \notin Sessions
    /\ \A x \in Sessions : /\ x[1] \in Sides /\ x[2] \in Calls /\ x[3] \in 1 .. MaxTaps
                           /\ x = <<x[1], x[2], x[3]>>
  BY DEF NoMedia, Sessions

\* The operation in one slot changes, and no other.
OpBecomes(s, o, p) ==
    /\ op' \in [Sides -> [Slots -> Ops]]
    /\ op'[s][o] = p
    /\ \A q \in Slots : q # o => op'[s][q] = op[s][q]
    /\ \A t \in Sides : t # s => op'[t] = op[t]
    /\ \A t \in Sides, q \in Slots : op'[t][q].kind # "none" => op'[t][q].call \in Calls

LEMMA OpSet ==
    ASSUME TypeOK, NEW s \in Sides, NEW o \in Slots, NEW p \in Ops,
           p.kind # "none" => p.call \in Calls,
           op' = [op EXCEPT ![s][o] = p]
    PROVE  OpBecomes(s, o, p)
<1>1. op \in [Sides -> [Slots -> Ops]]
  BY DEF TypeOK, Ops
<1>2. op' \in [Sides -> [Slots -> Ops]]
  BY <1>1
<1>3. op'[s][o] = p
  BY <1>1
<1>4. \A q \in Slots : q # o => op'[s][q] = op[s][q]
  BY <1>1
<1>5. \A t \in Sides : t # s => op'[t] = op[t]
  BY <1>1
<1>6. ASSUME NEW t \in Sides, NEW q \in Slots, op'[t][q].kind # "none"
      PROVE  op'[t][q].call \in Calls
  <2>1. op'[t][q] = op[t][q] \/ op'[t][q] = p
    BY <1>3, <1>4, <1>5
  <2> QED
    BY <1>6, <2>1 DEF TypeOK
<1> QED
  BY <1>2, <1>3, <1>4, <1>5, <1>6 DEF OpBecomes

Op(kind, c, x) == [kind |-> kind, call |-> c, session |-> x, sent |-> FALSE]

LEMMA BeginEffect ==
    ASSUME TypeOK, NEW s \in Sides, NEW kind \in OpKinds, NEW c \in Calls,
           NEW x \in Sessions \cup {NoMedia}, Begin(s, kind, c, x)
    PROVE  \E o \in Slots : op[s][o] = NoOp /\ OpBecomes(s, o, Op(kind, c, x))
<1>1. PICK o \in Slots : op[s][o] = NoOp /\ op' = [op EXCEPT ![s][o] = Op(kind, c, x)]
  BY DEF Begin, Op
<1>2. Op(kind, c, x) \in Ops /\ Op(kind, c, x).call \in Calls
  BY DEF Op, Ops
<1> QED
  BY <1>1, <1>2, OpSet

LEMMA ReturnEffect ==
    ASSUME TypeOK, NEW s \in Sides, NEW o \in Slots, Return(s, o)
    PROVE  OpBecomes(s, o, NoOp)
<1>1. NoOp \in Ops /\ NoOp.kind = "none"
  BY DEF NoOp, Ops, OpKinds
<1> QED
  BY <1>1, OpSet DEF Return

LEMMA AwaitEffect ==
    ASSUME TypeOK, NEW s \in Sides, NEW o \in Slots, NEW kind \in OpKinds,
           op[s][o].kind # "none", Await(s, o, kind)
    PROVE  OpBecomes(s, o, Op(kind, op[s][o].call, op[s][o].session))
<1>1. op[s][o] \in Ops /\ op[s][o].call \in Calls
  BY DEF TypeOK, Ops
<1>2. Op(kind, op[s][o].call, op[s][o].session) \in Ops
      /\ Op(kind, op[s][o].call, op[s][o].session).call \in Calls
  BY <1>1 DEF Op, Ops
<1>3. [[op[s][o] EXCEPT !.kind = kind] EXCEPT !.sent = FALSE]
        = Op(kind, op[s][o].call, op[s][o].session)
  <2>1. PICK r \in Ops : r = op[s][o]
    BY <1>1
  <2>2. [r EXCEPT !.kind = kind] = [kind |-> kind, call |-> r.call,
                                    session |-> r.session, sent |-> r.sent]
    BY DEF Ops
  <2>3. [[r EXCEPT !.kind = kind] EXCEPT !.sent = FALSE] = Op(kind, r.call, r.session)
    <3>1. PICK q \in Ops : q = [r EXCEPT !.kind = kind] /\ q.kind = kind
                            /\ q.call = r.call /\ q.session = r.session
      BY <2>2 DEF Ops
    <3>2. [q EXCEPT !.sent = FALSE] = [kind |-> q.kind, call |-> q.call,
                                       session |-> q.session, sent |-> FALSE]
      <4>1. \A b : [q EXCEPT !.sent = b] = [kind |-> q.kind, call |-> q.call,
                                            session |-> q.session, sent |-> b]
        BY DEF Ops
      <4> QED
        BY <4>1, Zenon
    <3> QED
      BY <3>1, <3>2 DEF Op
  <2> QED
    BY <2>1, <2>3
<1>4. op' = [op EXCEPT ![s][o] = Op(kind, op[s][o].call, op[s][o].session)]
  <2>1. op \in [Sides -> [Slots -> Ops]]
    BY DEF TypeOK, Ops
  <2> QED
    BY <1>3, <2>1 DEF Await
<1> QED
  BY <1>2, <1>4, OpSet

LEMMA SentEffect ==
    ASSUME TypeOK, NEW s \in Sides, NEW o \in Slots, op[s][o].kind # "none",
           op' = [op EXCEPT ![s][o].sent = TRUE]
    PROVE  /\ OpBecomes(s, o, [op[s][o] EXCEPT !.sent = TRUE])
           /\ op'[s][o].kind = op[s][o].kind /\ op'[s][o].call = op[s][o].call
           /\ op'[s][o].session = op[s][o].session /\ op'[s][o].sent
<1>1. op[s][o] \in Ops /\ op[s][o].call \in Calls
  BY DEF TypeOK, Ops
<1>2. [op[s][o] EXCEPT !.sent = TRUE] \in Ops
      /\ [op[s][o] EXCEPT !.sent = TRUE].call \in Calls
  BY <1>1 DEF Ops
<1>3. OpBecomes(s, o, [op[s][o] EXCEPT !.sent = TRUE])
  BY <1>2, OpSet
<1> QED
  BY <1>1, <1>3 DEF OpBecomes, Ops

States == [phase : Phases, call : Calls \cup {NoCall}]

LEMMA BecomeEffect ==
    ASSUME TypeOK, NEW s \in Sides, NEW phase \in Phases, NEW c \in Calls \cup {NoCall},
           c = NoCall <=> phase \in {"idle", "ended"}, Become(s, phase, c)
    PROVE  /\ state' \in [Sides -> States]
           /\ state'[s] = [phase |-> phase, call |-> c]
           /\ \A t \in Sides : t # s => state'[t] = state[t]
           /\ \A t \in Sides :
                state'[t].call = NoCall <=> state'[t].phase \in {"idle", "ended"}
<1>1. state \in [Sides -> States]
  BY DEF TypeOK, States
<1>2. /\ state' \in [Sides -> States]
      /\ state'[s] = [phase |-> phase, call |-> c]
      /\ \A t \in Sides : t # s => state'[t] = state[t]
  BY <1>1 DEF Become, States
<1>3. ASSUME NEW t \in Sides
      PROVE  state'[t].call = NoCall <=> state'[t].phase \in {"idle", "ended"}
  <2>1. CASE t = s
    BY <1>2, <2>1
  <2>2. CASE t # s
    BY <1>2, <2>2 DEF TypeOK
  <2> QED
    BY <2>1, <2>2
<1> QED
  BY <1>2, <1>3

LEMMA EndEffect ==
    ASSUME TypeOK, NEW s \in Sides, End(s)
    PROVE  /\ state' \in [Sides -> States]
           /\ state'[s] = [phase |-> "ended", call |-> NoCall]
           /\ \A t \in Sides : t # s => state'[t] = state[t]
           /\ \A t \in Sides :
                state'[t].call = NoCall <=> state'[t].phase \in {"idle", "ended"}
<1>1. "ended" \in Phases /\ NoCall \in Calls \cup {NoCall}
  BY DEF Phases
<1> QED
  BY <1>1, BecomeEffect DEF End

\* The side's current session is closed and forgotten.
Dropped(s) ==
    /\ media' \in [Sides -> Sessions \cup {NoMedia}]
    /\ sess' \in [Sessions -> SessionStates]
    /\ media'[s] = NoMedia
    /\ \A t \in Sides : t # s => media'[t] = media[t]
    /\ \A x \in Sessions : sess'[x] = IF x = media[s] THEN "closed" ELSE sess[x]

LEMMA TeardownEffect ==
    ASSUME TypeOK, NEW s \in Sides, TeardownMedia(s)
    PROVE  Dropped(s)
<1>1. media' \in [Sides -> Sessions \cup {NoMedia}] /\ media'[s] = NoMedia
      /\ \A t \in Sides : t # s => media'[t] = media[t]
  BY DEF TypeOK, TeardownMedia
<1>2. CASE media[s] = NoMedia
  <2>1. sess' = sess
    BY <1>2 DEF TeardownMedia
  <2> QED
    BY <1>1, <1>2, <2>1, SessionsAreTriples DEF TypeOK, Dropped
<1>3. CASE media[s] # NoMedia
  <2>1. media[s] \in Sessions /\ "closed" \in SessionStates
    BY <1>3 DEF TypeOK, SessionStates
  <2>2. sess' = [sess EXCEPT ![media[s]] = "closed"] /\ sess \in [Sessions -> SessionStates]
    BY <1>3 DEF TeardownMedia, TypeOK
  <2> QED
    BY <1>1, <2>1, <2>2 DEF Dropped
<1> QED
  BY <1>2, <1>3

LEMMA TimerEffect ==
    ASSUME TypeOK, NEW s \in Sides, NEW c \in Calls \cup {NoCall},
           timer' = [timer EXCEPT ![s] = c]
    PROVE  /\ timer' \in [Sides -> Calls \cup {NoCall}]
           /\ timer'[s] = c
           /\ \A t \in Sides : t # s => timer'[t] = timer[t]
  BY DEF TypeOK

-----------------------------------------------------------------------------
(* What holds however the user taps: the shapes, and that a connection was   *)
(* accepted.                                                                 *)

Setting == {"offer", "answering", "answer"}
Named ==
    \A s \in Sides, o \in Slots :
        op[s][o].kind \in Setting => op[s][o].session \in Sessions
Base == TypeOK /\ Named /\ Accepted

LEMMA OpsStayAccepted ==
    ASSUME Base, NEW s \in Sides, NEW o \in Slots, NEW p \in Ops, OpBecomes(s, o, p),
           p.kind \in Setting => p.session \in Sessions,
           p.kind \in {"answering", "answer"} => taps'[p.call] > 0,
           \A c \in Calls : taps[c] > 0 => taps'[c] > 0
    PROVE  /\ Named'
           /\ \A t \in Sides, q \in Slots :
                op'[t][q].kind \in {"answering", "answer"} => taps'[op'[t][q].call] > 0
<1> SUFFICES ASSUME NEW t \in Sides, NEW q \in Slots
             PROVE  /\ op'[t][q].kind \in Setting => op'[t][q].session \in Sessions
                    /\ op'[t][q].kind \in {"answering", "answer"}
                         => taps'[op'[t][q].call] > 0
  BY DEF Named
<1>1. CASE t = s /\ q = o
  BY <1>1 DEF OpBecomes
<1>2. CASE t # s \/ q # o
  <2>1. op'[t][q] = op[t][q]
    BY <1>2 DEF OpBecomes
  <2>2. op[t][q].kind # "none" => op[t][q].call \in Calls
    BY DEF Base, TypeOK
  <2> QED
    BY <2>1, <2>2 DEF Base, Named, Accepted, Setting
<1> QED
  BY <1>1, <1>2

\* A side that connects to no new call stays accepted.
LEMMA StatesStayAccepted ==
    ASSUME Base, NEW s \in Sides, \A t \in Sides : t # s => state'[t] = state[t],
           state'[s] = state[s] \/ state'[s].phase \notin {"connecting", "active"}
             \/ (state'[s].call \in Calls /\ taps'[state'[s].call] > 0),
           \A c \in Calls : taps[c] > 0 => taps'[c] > 0
    PROVE  ConnectedWasAccepted'
<1> SUFFICES ASSUME NEW t \in Sides, NEW c \in Calls,
                    \/ state'[t] = [phase |-> "connecting", call |-> c]
                    \/ state'[t] = [phase |-> "active", call |-> c]
             PROVE  taps'[c] > 0
  BY DEF ConnectedWasAccepted, In
<1>1. CASE state'[t] = state[t]
  BY <1>1 DEF Base, Accepted, ConnectedWasAccepted, In
<1>2. CASE state'[t] # state[t]
  <2>1. t = s
    BY <1>2
  <2> QED
    BY <1>2, <2>1
<1> QED
  BY <1>1, <1>2

LEMMA NoOpIsOp == NoOp \in Ops /\ NoOp.kind = "none"
  BY DEF NoOp, Ops, OpKinds

LEMMA OpFacts ==
    ASSUME TypeOK, NEW s \in Sides, NEW o \in Slots
    PROVE  /\ op[s][o] \in Ops
           /\ op[s][o].kind # "none" => op[s][o].call \in Calls
  BY DEF TypeOK, Ops

\* A step that only returns from, or suspends, an operation.
LEMMA BaseOps ==
    ASSUME Base, NEW s \in Sides, NEW o \in Slots, NEW p \in Ops, OpBecomes(s, o, p),
           p.kind \in Setting => p.session \in Sessions,
           p.kind \in {"answering", "answer"} => taps[p.call] > 0,
           UNCHANGED taps
    PROVE  /\ Named'
           /\ \A t \in Sides, q \in Slots :
                op'[t][q].kind \in {"answering", "answer"} => taps'[op'[t][q].call] > 0
  BY OpsStayAccepted

LEMMA BaseTaps ==
    ASSUME CallAssumption, Base, NEW s \in Sides, Tap(s)
    PROVE  Base'
<1>1. CASE Reset(s)
  <2>1. /\ Become(s, "idle", NoCall)
        /\ UNCHANGED <<media, timer, op, net, sess, answered, caller, taps, missed, talked>>
    BY <1>1 DEF Reset, Ghosts
  <2>2. "idle" \in Phases /\ NoCall \in Calls \cup {NoCall}
    BY DEF Phases
  <2>3. /\ state' \in [Sides -> States]
        /\ state'[s] = [phase |-> "idle", call |-> NoCall]
        /\ \A t \in Sides : t # s => state'[t] = state[t]
        /\ \A t \in Sides :
             state'[t].call = NoCall <=> state'[t].phase \in {"idle", "ended"}
    BY <2>1, <2>2, BecomeEffect DEF Base
  <2>4. TypeOK'
    BY <2>1, <2>3 DEF Base, TypeOK, States
  <2>5. ConnectedWasAccepted'
    BY <2>1, <2>3, StatesStayAccepted
  <2> QED
    BY <2>1, <2>4, <2>5 DEF Base, Named, Accepted
<1>2. ASSUME NEW c \in Calls, StartCall(s, c) PROVE Base'
  <2> DEFINE x == Offer(s, c)
  <2>1. /\ caller' = [caller EXCEPT ![c] = {s}]
        /\ sess' = [sess EXCEPT ![x] = "new"]
        /\ media' = [media EXCEPT ![s] = x]
        /\ Begin(s, "offer", c, x)
        /\ UNCHANGED <<state, timer, net, answered, taps, missed, talked>>
    BY <1>2 DEF StartCall, Offer
  <2>2. x \in Sessions /\ "offer" \in OpKinds /\ "new" \in SessionStates
    BY DEF Offer, Sessions, CallAssumption, OpKinds, SessionStates
  <2>3. PICK o \in Slots : op[s][o] = NoOp /\ OpBecomes(s, o, Op("offer", c, x))
    BY <2>1, <2>2, BeginEffect DEF Base
  <2>4. Op("offer", c, x) \in Ops /\ Op("offer", c, x).kind = "offer"
        /\ Op("offer", c, x).session = x
    BY <2>2 DEF Op, Ops
  <2>5. /\ Named'
        /\ \A t \in Sides, q \in Slots :
             op'[t][q].kind \in {"answering", "answer"} => taps'[op'[t][q].call] > 0
    BY <2>1, <2>2, <2>3, <2>4, BaseOps
  <2> HIDE DEF x
  <2>6. /\ caller' \in [Calls -> SUBSET Sides] /\ sess' \in [Sessions -> SessionStates]
        /\ media' \in [Sides -> Sessions \cup {NoMedia}]
    BY <2>1, <2>2 DEF Base, TypeOK
  <2>7. TypeOK'
    BY <2>1, <2>3, <2>6 DEF Base, TypeOK, OpBecomes, Ops
  <2>8. ConnectedWasAccepted'
    BY <2>1, StatesStayAccepted
  <2> QED
    BY <2>1, <2>5, <2>7, <2>8 DEF Base, Accepted
<1>3. ASSUME NEW c \in Calls, CancelOutgoing(s, c) PROVE Base'
  <2>1. /\ timer' = [timer EXCEPT ![s] = NoCall] /\ TeardownMedia(s)
        /\ Begin(s, "cancel", c, NoMedia)
        /\ UNCHANGED <<state, net, answered, caller, taps, missed, talked>>
    BY <1>3 DEF CancelOutgoing, StopRingTimer, Ghosts
  <2>2. "cancel" \in OpKinds /\ NoCall \in Calls \cup {NoCall}
        /\ NoMedia \in Sessions \cup {NoMedia}
    BY DEF OpKinds
  <2>3. PICK o \in Slots : op[s][o] = NoOp /\ OpBecomes(s, o, Op("cancel", c, NoMedia))
    BY <2>1, <2>2, BeginEffect DEF Base
  <2>4. Op("cancel", c, NoMedia) \in Ops /\ Op("cancel", c, NoMedia).kind = "cancel"
    BY <2>2 DEF Op, Ops
  <2>5. /\ Named'
        /\ \A t \in Sides, q \in Slots :
             op'[t][q].kind \in {"answering", "answer"} => taps'[op'[t][q].call] > 0
    BY <2>1, <2>3, <2>4, BaseOps DEF Setting
  <2>6. Dropped(s) /\ timer' \in [Sides -> Calls \cup {NoCall}]
    BY <2>1, <2>2, TeardownEffect, TimerEffect DEF Base
  <2>7. TypeOK'
    BY <2>1, <2>3, <2>6 DEF Base, TypeOK, OpBecomes, Ops, Dropped
  <2>8. ConnectedWasAccepted'
    BY <2>1, StatesStayAccepted
  <2> QED
    BY <2>1, <2>5, <2>7, <2>8 DEF Base, Accepted
<1>4. ASSUME NEW c \in Calls, Accept(s, c) PROVE Base'
  <2> DEFINE x == <<s, c, taps[c] + 1>>
  <2>1. /\ taps[c] < MaxTaps /\ taps' = [taps EXCEPT ![c] = @ + 1]
        /\ timer' = [timer EXCEPT ![s] = NoCall]
        /\ sess' = [sess EXCEPT ![x] = "new"]
        /\ media' = [media EXCEPT ![s] = x]
        /\ Begin(s, "answering", c, x)
        /\ UNCHANGED <<state, net, answered, caller, missed, talked>>
    BY <1>4 DEF Accept, StopRingTimer
  <2>2. /\ "answering" \in OpKinds /\ "new" \in SessionStates
        /\ NoCall \in Calls \cup {NoCall}
    BY DEF OpKinds, SessionStates
  <2>3. /\ taps[c] + 1 \in 1 .. MaxTaps
        /\ taps' \in [Calls -> 0 .. MaxTaps] /\ taps'[c] > 0
        /\ \A d \in Calls : taps[d] > 0 => taps'[d] > 0
    BY <2>1 DEF Base, TypeOK, CallAssumption
  <2>4. x \in Sessions
    BY <2>3 DEF Sessions
  <2>5. PICK o \in Slots : op[s][o] = NoOp /\ OpBecomes(s, o, Op("answering", c, x))
    BY <2>1, <2>2, <2>4, BeginEffect DEF Base
  <2>6. Op("answering", c, x) \in Ops /\ Op("answering", c, x).kind = "answering"
        /\ Op("answering", c, x).session = x /\ Op("answering", c, x).call = c
    BY <2>2, <2>4 DEF Op, Ops
  <2>7. /\ Named'
        /\ \A t \in Sides, q \in Slots :
             op'[t][q].kind \in {"answering", "answer"} => taps'[op'[t][q].call] > 0
    BY <2>3, <2>4, <2>5, <2>6, OpsStayAccepted
  <2> HIDE DEF x
  <2>8. /\ timer' \in [Sides -> Calls \cup {NoCall}]
        /\ sess' \in [Sessions -> SessionStates]
        /\ media' \in [Sides -> Sessions \cup {NoMedia}]
    BY <2>1, <2>2, <2>4, TimerEffect DEF Base, TypeOK
  <2>9. TypeOK'
    BY <2>1, <2>3, <2>5, <2>8 DEF Base, TypeOK, OpBecomes, Ops
  <2>10. ConnectedWasAccepted'
    BY <2>1, <2>3, StatesStayAccepted
  <2>11. \A m \in net' : m.kind = "answer" => taps'[m.call] > 0
    BY <2>1, <2>3 DEF Base, Accepted, TypeOK, Signals
  <2> QED
    BY <2>1, <2>7, <2>9, <2>10, <2>11 DEF Base, Accepted
<1>5. ASSUME NEW c \in Calls, Decline(s, c) PROVE Base'
  <2>1. /\ timer' = [timer EXCEPT ![s] = NoCall] /\ Begin(s, "decline", c, NoMedia)
        /\ UNCHANGED <<state, media, net, sess, answered, caller, taps, missed, talked>>
    BY <1>5 DEF Decline, StopRingTimer, Ghosts
  <2>2. "decline" \in OpKinds /\ NoCall \in Calls \cup {NoCall}
        /\ NoMedia \in Sessions \cup {NoMedia}
    BY DEF OpKinds
  <2>3. PICK o \in Slots : op[s][o] = NoOp /\ OpBecomes(s, o, Op("decline", c, NoMedia))
    BY <2>1, <2>2, BeginEffect DEF Base
  <2>4. Op("decline", c, NoMedia) \in Ops /\ Op("decline", c, NoMedia).kind = "decline"
    BY <2>2 DEF Op, Ops
  <2>5. /\ Named'
        /\ \A t \in Sides, q \in Slots :
             op'[t][q].kind \in {"answering", "answer"} => taps'[op'[t][q].call] > 0
    BY <2>1, <2>3, <2>4, BaseOps DEF Setting
  <2>6. timer' \in [Sides -> Calls \cup {NoCall}]
    BY <2>1, <2>2, TimerEffect DEF Base
  <2>7. TypeOK'
    BY <2>1, <2>3, <2>6 DEF Base, TypeOK, OpBecomes, Ops
  <2>8. ConnectedWasAccepted'
    BY <2>1, StatesStayAccepted
  <2> QED
    BY <2>1, <2>5, <2>7, <2>8 DEF Base, Accepted
<1>6. ASSUME NEW c \in Calls, HangUp(s, c) PROVE Base'
  <2>1. /\ TeardownMedia(s) /\ End(s)
        /\ UNCHANGED <<timer, op, net, answered, caller, taps, missed, talked>>
    BY <1>6 DEF HangUp, Ghosts
  <2>2. /\ state' \in [Sides -> States]
        /\ state'[s] = [phase |-> "ended", call |-> NoCall]
        /\ \A t \in Sides : t # s => state'[t] = state[t]
        /\ \A t \in Sides :
             state'[t].call = NoCall <=> state'[t].phase \in {"idle", "ended"}
    BY <2>1, EndEffect DEF Base
  <2>3. Dropped(s)
    BY <2>1, TeardownEffect DEF Base
  <2>4. TypeOK'
    BY <2>1, <2>2, <2>3 DEF Base, TypeOK, States, Dropped
  <2>5. ConnectedWasAccepted'
    BY <2>1, <2>2, StatesStayAccepted
  <2> QED
    BY <2>1, <2>4, <2>5 DEF Base, Named, Accepted
<1> QED
  BY <1>1, <1>2, <1>3, <1>4, <1>5, <1>6 DEF Tap

LEMMA BaseResumes ==
    ASSUME CallAssumption, Base, NEW s \in Sides, NEW o \in Slots, Resume(s, o)
    PROVE  Base'
<1>1. CASE OfferReady(s, o)
  <2> DEFINE c == op[s][o].call
             x == op[s][o].session
  <2>1. /\ op[s][o].kind = "offer"
        /\ sess' = IF sess[x] = "new" THEN [sess EXCEPT ![x] = "offered"] ELSE sess
        /\ Become(s, "outgoing", c) /\ Await(s, o, "request")
        /\ UNCHANGED <<media, timer, net, answered, caller, taps, missed, talked>>
    BY <1>1 DEF OfferReady, Ghosts
  <2>2. /\ c \in Calls /\ c # NoCall /\ x \in Sessions
        /\ "outgoing" \in Phases /\ "request" \in OpKinds /\ "offered" \in SessionStates
    BY <2>1, OpFacts DEF Base, Named, Setting, Calls, NoCall, Phases, OpKinds, SessionStates
  <2>3. /\ state' \in [Sides -> States]
        /\ state'[s] = [phase |-> "outgoing", call |-> c]
        /\ \A t \in Sides : t # s => state'[t] = state[t]
        /\ \A t \in Sides :
             state'[t].call = NoCall <=> state'[t].phase \in {"idle", "ended"}
    BY <2>1, <2>2, BecomeEffect DEF Base
  <2>4. OpBecomes(s, o, Op("request", c, x))
    BY <2>1, <2>2, AwaitEffect DEF Base
  <2>5. Op("request", c, x) \in Ops /\ Op("request", c, x).kind = "request"
        /\ Op("request", c, x).session = x /\ Op("request", c, x).call = c
    BY <2>2 DEF Op, Ops
  <2>6. /\ Named'
        /\ \A t \in Sides, q \in Slots :
             op'[t][q].kind \in {"answering", "answer"} => taps'[op'[t][q].call] > 0
    BY <2>1, <2>2, <2>4, <2>5, BaseOps DEF Setting
  <2> HIDE DEF c, x
  <2>7. sess' \in [Sessions -> SessionStates]
    BY <2>1, <2>2 DEF Base, TypeOK
  <2>8. TypeOK'
    BY <2>1, <2>3, <2>4, <2>7 DEF Base, TypeOK, OpBecomes, Ops, States
  <2>9. ConnectedWasAccepted'
    BY <2>1, <2>2, <2>3, StatesStayAccepted
  <2> QED
    BY <2>1, <2>6, <2>8, <2>9 DEF Base, Accepted
<1>2. CASE RequestSent(s, o)
  <2>1. /\ Return(s, o)
        /\ UNCHANGED <<state, media, net, sess, answered, caller, taps, missed, talked>>
    BY <1>2 DEF RequestSent, Ghosts
  <2>2. OpBecomes(s, o, NoOp)
    BY <2>1, ReturnEffect DEF Base
  <2>3. /\ Named'
        /\ \A t \in Sides, q \in Slots :
             op'[t][q].kind \in {"answering", "answer"} => taps'[op'[t][q].call] > 0
    BY <2>1, <2>2, NoOpIsOp, BaseOps DEF Setting
  <2>4. /\ op[s][o].kind = "request" /\ timer' = [timer EXCEPT ![s] = op[s][o].call]
    BY <1>2 DEF RequestSent, ArmRingTimer
  <2>5. timer' \in [Sides -> Calls \cup {NoCall}]
    BY <2>4, OpFacts, TimerEffect DEF Base
  <2>6. TypeOK'
    BY <2>1, <2>2, <2>5 DEF Base, TypeOK, OpBecomes, Ops
  <2>7. ConnectedWasAccepted'
    BY <2>1, StatesStayAccepted
  <2> QED
    BY <2>1, <2>3, <2>6, <2>7 DEF Base, Accepted
<1>3. CASE SetupThrows(s, o)
  <2>1. /\ Return(s, o)
        /\ UNCHANGED <<timer, net, answered, caller, taps, missed, talked>>
    BY <1>3 DEF SetupThrows, Ghosts
  <2>2. OpBecomes(s, o, NoOp)
    BY <2>1, ReturnEffect DEF Base
  <2>3. /\ Named'
        /\ \A t \in Sides, q \in Slots :
             op'[t][q].kind \in {"answering", "answer"} => taps'[op'[t][q].call] > 0
    BY <2>1, <2>2, NoOpIsOp, BaseOps DEF Setting
  <2>4. TeardownMedia(s) /\ End(s)
    BY <1>3 DEF SetupThrows
  <2>5. /\ state' \in [Sides -> States]
        /\ state'[s] = [phase |-> "ended", call |-> NoCall]
        /\ \A t \in Sides : t # s => state'[t] = state[t]
        /\ \A t \in Sides :
             state'[t].call = NoCall <=> state'[t].phase \in {"idle", "ended"}
    BY <2>4, EndEffect DEF Base
  <2>6. Dropped(s)
    BY <2>4, TeardownEffect DEF Base
  <2>7. TypeOK'
    BY <2>1, <2>2, <2>5, <2>6 DEF Base, TypeOK, OpBecomes, Ops, States, Dropped
  <2>8. ConnectedWasAccepted'
    BY <2>1, <2>5, StatesStayAccepted
  <2> QED
    BY <2>1, <2>3, <2>7, <2>8 DEF Base, Accepted
<1>4. CASE AnswerReady(s, o)
  <2> DEFINE c == op[s][o].call
             x == op[s][o].session
  <2>1. /\ op[s][o].kind = "answering"
        /\ sess' = IF sess[x] = "new" THEN [sess EXCEPT ![x] = "checking"] ELSE sess
        /\ Become(s, "connecting", c) /\ Await(s, o, "answer")
        /\ UNCHANGED <<media, timer, net, answered, caller, taps, missed, talked>>
    BY <1>4 DEF AnswerReady, Ghosts
  <2>2. /\ c \in Calls /\ c # NoCall /\ x \in Sessions
        /\ "connecting" \in Phases /\ "answer" \in OpKinds /\ "checking" \in SessionStates
    BY <2>1, OpFacts DEF Base, Named, Setting, Calls, NoCall, Phases, OpKinds, SessionStates
  <2>3. /\ state' \in [Sides -> States]
        /\ state'[s] = [phase |-> "connecting", call |-> c]
        /\ \A t \in Sides : t # s => state'[t] = state[t]
        /\ \A t \in Sides :
             state'[t].call = NoCall <=> state'[t].phase \in {"idle", "ended"}
    BY <2>1, <2>2, BecomeEffect DEF Base
  <2>4. OpBecomes(s, o, Op("answer", c, x))
    BY <2>1, <2>2, AwaitEffect DEF Base
  <2>5. Op("answer", c, x) \in Ops /\ Op("answer", c, x).kind = "answer"
        /\ Op("answer", c, x).session = x /\ Op("answer", c, x).call = c
    BY <2>2 DEF Op, Ops
  <2>acc. taps[c] > 0
    BY <2>1 DEF Base, Accepted
  <2>6. /\ Named'
        /\ \A t \in Sides, q \in Slots :
             op'[t][q].kind \in {"answering", "answer"} => taps'[op'[t][q].call] > 0
    BY <2>1, <2>2, <2>4, <2>5, <2>acc, BaseOps DEF Setting
  <2> HIDE DEF c, x
  <2>7. sess' \in [Sessions -> SessionStates]
    BY <2>1, <2>2 DEF Base, TypeOK
  <2>8. TypeOK'
    BY <2>1, <2>3, <2>4, <2>7 DEF Base, TypeOK, OpBecomes, Ops, States
  <2>9. ConnectedWasAccepted'
    BY <2>1, <2>2, <2>3, <2>acc, StatesStayAccepted
  <2> QED
    BY <2>1, <2>6, <2>8, <2>9 DEF Base, Accepted
<1>5. CASE AnswerSent(s, o)
  <2>1. /\ Return(s, o)
        /\ UNCHANGED <<state, media, timer, net, sess, answered, caller, taps, missed, talked>>
    BY <1>5 DEF AnswerSent, Ghosts
  <2>2. OpBecomes(s, o, NoOp)
    BY <2>1, ReturnEffect DEF Base
  <2>3. /\ Named'
        /\ \A t \in Sides, q \in Slots :
             op'[t][q].kind \in {"answering", "answer"} => taps'[op'[t][q].call] > 0
    BY <2>1, <2>2, NoOpIsOp, BaseOps DEF Setting
  <2>4. TypeOK'
    BY <2>1, <2>2 DEF Base, TypeOK, OpBecomes, Ops
  <2>5. ConnectedWasAccepted'
    BY <2>1, StatesStayAccepted
  <2> QED
    BY <2>1, <2>3, <2>4, <2>5 DEF Base, Accepted
<1>6. CASE GiveUpReturns(s, o)
  <2>1. /\ Return(s, o)
        /\ UNCHANGED <<media, timer, net, sess, answered, caller, taps, missed, talked>>
    BY <1>6 DEF GiveUpReturns, Ghosts
  <2>2. OpBecomes(s, o, NoOp)
    BY <2>1, ReturnEffect DEF Base
  <2>3. /\ Named'
        /\ \A t \in Sides, q \in Slots :
             op'[t][q].kind \in {"answering", "answer"} => taps'[op'[t][q].call] > 0
    BY <2>1, <2>2, NoOpIsOp, BaseOps DEF Setting
  <2>4. End(s)
    BY <1>6 DEF GiveUpReturns
  <2>5. /\ state' \in [Sides -> States]
        /\ state'[s] = [phase |-> "ended", call |-> NoCall]
        /\ \A t \in Sides : t # s => state'[t] = state[t]
        /\ \A t \in Sides :
             state'[t].call = NoCall <=> state'[t].phase \in {"idle", "ended"}
    BY <2>4, EndEffect DEF Base
  <2>6. TypeOK'
    BY <2>1, <2>2, <2>5 DEF Base, TypeOK, OpBecomes, Ops, States
  <2>7. ConnectedWasAccepted'
    BY <2>1, <2>5, StatesStayAccepted
  <2> QED
    BY <2>1, <2>3, <2>6, <2>7 DEF Base, Accepted
<1>7. CASE StartReturns(s, o)
  <2>1. /\ Return(s, o)
        /\ UNCHANGED <<state, media, timer, net, answered, caller, taps, missed, talked>>
    BY <1>7 DEF StartReturns, Ghosts
  <2>2. OpBecomes(s, o, NoOp)
    BY <2>1, ReturnEffect DEF Base
  <2>3. /\ Named'
        /\ \A t \in Sides, q \in Slots :
             op'[t][q].kind \in {"answering", "answer"} => taps'[op'[t][q].call] > 0
    BY <2>1, <2>2, NoOpIsOp, BaseOps DEF Setting
  <2>4. sess' = sess \/ \E x : sess' = [sess EXCEPT ![x] = "checking"]
    BY <1>7 DEF StartReturns
  <2>5. sess' \in [Sessions -> SessionStates]
    BY <2>4 DEF Base, TypeOK, SessionStates
  <2>6. TypeOK'
    BY <2>1, <2>2, <2>5 DEF Base, TypeOK, OpBecomes, Ops
  <2>7. ConnectedWasAccepted'
    BY <2>1, StatesStayAccepted
  <2> QED
    BY <2>1, <2>3, <2>6, <2>7 DEF Base, Accepted
<1>8. CASE StartThrows(s, o)
  <2>1. /\ Return(s, o)
        /\ UNCHANGED <<timer, net, answered, caller, taps, missed, talked>>
    BY <1>8 DEF StartThrows, Ghosts
  <2>2. OpBecomes(s, o, NoOp)
    BY <2>1, ReturnEffect DEF Base
  <2>3. /\ Named'
        /\ \A t \in Sides, q \in Slots :
             op'[t][q].kind \in {"answering", "answer"} => taps'[op'[t][q].call] > 0
    BY <2>1, <2>2, NoOpIsOp, BaseOps DEF Setting
  <2>4. TeardownMedia(s) /\ End(s)
    BY <1>8 DEF StartThrows
  <2>5. /\ state' \in [Sides -> States]
        /\ state'[s] = [phase |-> "ended", call |-> NoCall]
        /\ \A t \in Sides : t # s => state'[t] = state[t]
        /\ \A t \in Sides :
             state'[t].call = NoCall <=> state'[t].phase \in {"idle", "ended"}
    BY <2>4, EndEffect DEF Base
  <2>6. Dropped(s)
    BY <2>4, TeardownEffect DEF Base
  <2>7. TypeOK'
    BY <2>1, <2>2, <2>5, <2>6 DEF Base, TypeOK, OpBecomes, Ops, States, Dropped
  <2>8. ConnectedWasAccepted'
    BY <2>1, <2>5, StatesStayAccepted
  <2> QED
    BY <2>1, <2>3, <2>7, <2>8 DEF Base, Accepted
<1> QED
  BY <1>1, <1>2, <1>3, <1>4, <1>5, <1>6, <1>7, <1>8 DEF Resume

\* The signal an operation sends.
Signal(s, p) ==
    LET kind == IF p.kind \in {"request", "answer"} THEN p.kind ELSE "decline" IN
    [kind |-> kind, call |-> p.call, to |-> Other(s),
     tap |-> IF kind = "answer" THEN p.session[3] ELSE 0]

LEMMA SignalFacts ==
    ASSUME CallAssumption, Base, NEW s \in Sides, NEW o \in Slots,
           op[s][o].kind \in Sending
    PROVE  /\ Signal(s, op[s][o]) \in Signals
           /\ Signal(s, op[s][o]).kind = IF op[s][o].kind \in {"request", "answer"}
                                         THEN op[s][o].kind ELSE "decline"
           /\ Signal(s, op[s][o]).call = op[s][o].call
           /\ Signal(s, op[s][o]).to = Other(s)
           /\ op[s][o].kind # "answer" => Signal(s, op[s][o]).tap = 0
<1>1. op[s][o].call \in Calls /\ Other(s) \in Sides
  BY OpFacts, TheOther DEF Base, Sending
<1>2. op[s][o].kind = "answer" => op[s][o].session[3] \in 0 .. MaxTaps
  BY SessionsAreTriples DEF Base, Named, Setting, CallAssumption
<1>3. 0 \in 0 .. MaxTaps
  BY DEF CallAssumption
<1> QED
  BY <1>1, <1>2, <1>3 DEF Signal, Signals

LEMMA BaseSends ==
    ASSUME CallAssumption, Base, NEW s \in Sides, NEW o \in Slots, SignalLeaves(s, o)
    PROVE  Base'
<1>1. /\ op[s][o].kind \in Sending
      /\ op' = [op EXCEPT ![s][o].sent = TRUE]
      /\ net' = net \cup {Signal(s, op[s][o])}
      /\ UNCHANGED <<state, media, timer, sess, answered, caller, taps, missed, talked>>
  BY DEF SignalLeaves, Signal, Ghosts
<1>2. op[s][o].kind # "none" /\ op[s][o] \in Ops /\ op[s][o].call \in Calls
  BY <1>1, OpFacts DEF Sending, Base
<1>3. PICK p \in Ops : /\ OpBecomes(s, o, p) /\ p.kind = op[s][o].kind
                       /\ p.call = op[s][o].call /\ p.session = op[s][o].session
  <2>1. OpBecomes(s, o, [op[s][o] EXCEPT !.sent = TRUE])
        /\ op'[s][o].kind = op[s][o].kind /\ op'[s][o].call = op[s][o].call
        /\ op'[s][o].session = op[s][o].session
    BY <1>1, <1>2, SentEffect DEF Base
  <2>2. op'[s][o] \in Ops /\ op'[s][o] = [op[s][o] EXCEPT !.sent = TRUE]
    BY <2>1 DEF OpBecomes
  <2> QED
    BY <2>1, <2>2
<1>4. /\ p.kind \in Setting => p.session \in Sessions
      /\ p.kind \in {"answering", "answer"} => taps[p.call] > 0
  BY <1>3 DEF Base, Named, Accepted
<1>5. /\ Named'
      /\ \A t \in Sides, q \in Slots :
           op'[t][q].kind \in {"answering", "answer"} => taps'[op'[t][q].call] > 0
  BY <1>1, <1>3, <1>4, BaseOps
<1>6. /\ Signal(s, op[s][o]) \in Signals
      /\ Signal(s, op[s][o]).kind = "answer" => taps[Signal(s, op[s][o]).call] > 0
  BY <1>1, SignalFacts DEF Base, Accepted
<1>7. TypeOK'
  BY <1>1, <1>3, <1>6 DEF Base, TypeOK, OpBecomes, Ops
<1>8. ConnectedWasAccepted'
  BY <1>1, StatesStayAccepted
<1>9. \A m \in net' : m.kind = "answer" => taps'[m.call] > 0
  BY <1>1, <1>6 DEF Base, Accepted
<1> QED
  BY <1>5, <1>7, <1>8, <1>9 DEF Base, Accepted

LEMMA BaseInbound ==
    ASSUME CallAssumption, Base, NEW m \in net, Inbound(m)
    PROVE  Base'
<1> DEFINE s == m.to
           c == m.call
<1>0. /\ m \in Signals /\ s \in Sides /\ c \in Calls /\ c # NoCall
      /\ Other(s) \in Sides /\ NoCall \in Calls \cup {NoCall}
  BY TheOther DEF Base, TypeOK, Signals, Calls, NoCall
<1> HIDE DEF s, c
<1>1. CASE InboundRing(m)
  <2>1. /\ net' = net \ {m} /\ Become(s, "incoming", c)
        /\ timer' = [timer EXCEPT ![s] = c]
        /\ UNCHANGED <<media, op, sess, answered, caller, taps, missed, talked>>
    BY <1>1 DEF InboundRing, Arrives, ArmRingTimer, Ghosts, s, c
  <2>2. "incoming" \in Phases
    BY DEF Phases
  <2>3. /\ state' \in [Sides -> States]
        /\ state'[s] = [phase |-> "incoming", call |-> c]
        /\ \A t \in Sides : t # s => state'[t] = state[t]
        /\ \A t \in Sides :
             state'[t].call = NoCall <=> state'[t].phase \in {"idle", "ended"}
    BY <1>0, <2>1, <2>2, BecomeEffect DEF Base
  <2>4. timer' \in [Sides -> Calls \cup {NoCall}]
    BY <1>0, <2>1, TimerEffect DEF Base
  <2>5. TypeOK'
    BY <2>1, <2>3, <2>4 DEF Base, TypeOK, States
  <2>6. ConnectedWasAccepted'
    BY <1>0, <2>1, <2>3, StatesStayAccepted
  <2> QED
    BY <2>1, <2>5, <2>6 DEF Base, Named, Accepted
<1>2. CASE InboundDeclined(m)
  <2>1. /\ net' = net \ {m} /\ timer' = [timer EXCEPT ![s] = NoCall]
        /\ TeardownMedia(s) /\ End(s)
        /\ UNCHANGED <<op, answered, caller, taps, missed, talked>>
    BY <1>2 DEF InboundDeclined, Arrives, StopRingTimer, Ghosts, s
  <2>2. /\ state' \in [Sides -> States]
        /\ state'[s] = [phase |-> "ended", call |-> NoCall]
        /\ \A t \in Sides : t # s => state'[t] = state[t]
        /\ \A t \in Sides :
             state'[t].call = NoCall <=> state'[t].phase \in {"idle", "ended"}
    BY <1>0, <2>1, EndEffect DEF Base
  <2>3. Dropped(s) /\ timer' \in [Sides -> Calls \cup {NoCall}]
    BY <1>0, <2>1, TeardownEffect, TimerEffect DEF Base
  <2>4. TypeOK'
    BY <2>1, <2>2, <2>3 DEF Base, TypeOK, States, Dropped
  <2>5. ConnectedWasAccepted'
    BY <1>0, <2>1, <2>2, StatesStayAccepted
  <2> QED
    BY <2>1, <2>4, <2>5 DEF Base, Named, Accepted
<1>3. CASE InboundCancelled(m)
  <2>1. /\ net' = net \ {m} /\ timer' = [timer EXCEPT ![s] = NoCall] /\ End(s)
        /\ missed' = [missed EXCEPT ![s][c] = @ + 1]
        /\ UNCHANGED <<media, op, sess, answered, caller, taps, talked>>
    BY <1>3 DEF InboundCancelled, Arrives, StopRingTimer, s, c
  <2>2. /\ state' \in [Sides -> States]
        /\ state'[s] = [phase |-> "ended", call |-> NoCall]
        /\ \A t \in Sides : t # s => state'[t] = state[t]
        /\ \A t \in Sides :
             state'[t].call = NoCall <=> state'[t].phase \in {"idle", "ended"}
    BY <1>0, <2>1, EndEffect DEF Base
  <2>3. timer' \in [Sides -> Calls \cup {NoCall}]
    BY <1>0, <2>1, TimerEffect DEF Base
  <2>4. missed' \in [Sides -> [Calls -> Nat]]
    BY <1>0, <2>1 DEF Base, TypeOK
  <2>5. TypeOK'
    BY <2>1, <2>2, <2>3, <2>4 DEF Base, TypeOK, States
  <2>6. ConnectedWasAccepted'
    BY <1>0, <2>1, <2>2, StatesStayAccepted
  <2> QED
    BY <2>1, <2>5, <2>6 DEF Base, Named, Accepted
<1>4. CASE InboundStale(m)
  <2>1. /\ net' = net \ {m}
        /\ UNCHANGED <<state, media, timer, op, sess, answered, caller, taps, missed, talked>>
    BY <1>4 DEF InboundStale, Ghosts
  <2>2. TypeOK'
    BY <2>1 DEF Base, TypeOK
  <2> QED
    BY <2>1, <2>2 DEF Base, Named, Accepted, ConnectedWasAccepted, In
<1>5. CASE InboundBusy(m)
  <2> DEFINE d == [kind |-> "decline", call |-> c, to |-> Other(s), tap |-> 0]
  <2>1. /\ net' = (net \ {m}) \cup {d}
        /\ UNCHANGED <<state, media, timer, op, sess, answered, caller, taps, missed, talked>>
    BY <1>5 DEF InboundBusy, Ghosts, s, c
  <2>2. d \in Signals /\ d.kind = "decline"
    BY <1>0 DEF Signals, CallAssumption
  <2> HIDE DEF d
  <2>3. TypeOK'
    BY <2>1, <2>2 DEF Base, TypeOK
  <2> QED
    BY <2>1, <2>2, <2>3 DEF Base, Named, Accepted, ConnectedWasAccepted, In
<1>6. CASE InboundAnswer(m)
  <2>1. /\ net' = net \ {m} /\ m.kind = "answer"
        /\ timer' = [timer EXCEPT ![s] = NoCall]
        /\ Become(s, "connecting", c) /\ Begin(s, "start", c, media[s])
        /\ answered' = [answered EXCEPT ![c] = m.tap]
        /\ UNCHANGED <<media, sess, caller, taps, missed, talked>>
    BY <1>6 DEF InboundAnswer, Arrives, StopRingTimer, Ghosts, s, c
  <2>2. /\ "connecting" \in Phases /\ "start" \in OpKinds
        /\ media[s] \in Sessions \cup {NoMedia} /\ m.tap \in 0 .. MaxTaps
    BY <1>0 DEF Phases, OpKinds, Base, TypeOK, Signals
  <2>3. /\ state' \in [Sides -> States]
        /\ state'[s] = [phase |-> "connecting", call |-> c]
        /\ \A t \in Sides : t # s => state'[t] = state[t]
        /\ \A t \in Sides :
             state'[t].call = NoCall <=> state'[t].phase \in {"idle", "ended"}
    BY <1>0, <2>1, <2>2, BecomeEffect DEF Base
  <2>4. PICK o \in Slots : op[s][o] = NoOp /\ OpBecomes(s, o, Op("start", c, media[s]))
    BY <1>0, <2>1, <2>2, BeginEffect DEF Base
  <2>5. Op("start", c, media[s]) \in Ops /\ Op("start", c, media[s]).kind = "start"
    BY <1>0, <2>2 DEF Op, Ops
  <2>6. /\ Named'
        /\ \A t \in Sides, q \in Slots :
             op'[t][q].kind \in {"answering", "answer"} => taps'[op'[t][q].call] > 0
    BY <1>0, <2>1, <2>4, <2>5, BaseOps DEF Setting
  <2>7. timer' \in [Sides -> Calls \cup {NoCall}]
    BY <1>0, <2>1, TimerEffect DEF Base
  <2>8. TypeOK'
    BY <2>1, <2>2, <2>3, <2>4, <2>7 DEF Base, TypeOK, OpBecomes, Ops, States
  <2>9. taps[c] > 0
    BY <2>1 DEF Base, Accepted, c
  <2>10. ConnectedWasAccepted'
    BY <1>0, <2>1, <2>3, <2>9, StatesStayAccepted
  <2> QED
    BY <2>1, <2>6, <2>8, <2>10 DEF Base, Accepted
<1> QED
  BY <1>1, <1>2, <1>3, <1>4, <1>5, <1>6 DEF Inbound

LEMMA BaseTimer ==
    ASSUME CallAssumption, Base, NEW s \in Sides, RingTimerFires(s)
    PROVE  Base'
<1>1. /\ timer[s] # NoCall /\ timer' = [timer EXCEPT ![s] = NoCall]
      /\ UNCHANGED <<op, net, answered, caller, taps, talked>>
  BY DEF RingTimerFires, StopRingTimer
<1>2. timer[s] \in Calls /\ timer' \in [Sides -> Calls \cup {NoCall}]
  BY <1>1, TimerEffect DEF Base, TypeOK
<1>3. CASE ~Ringing(s, timer[s])
  <2>1. UNCHANGED <<state, media, sess, missed>>
    BY <1>3 DEF RingTimerFires
  <2>2. TypeOK'
    BY <1>1, <1>2, <2>1 DEF Base, TypeOK
  <2> QED
    BY <1>1, <2>1, <2>2 DEF Base, Named, Accepted, ConnectedWasAccepted, In
<1>4. CASE Ringing(s, timer[s])
  <2>1. TeardownMedia(s) /\ End(s) /\ missed' = [missed EXCEPT ![s][timer[s]] = @ + 1]
    BY <1>4 DEF RingTimerFires
  <2>2. /\ state' \in [Sides -> States]
        /\ state'[s] = [phase |-> "ended", call |-> NoCall]
        /\ \A t \in Sides : t # s => state'[t] = state[t]
        /\ \A t \in Sides :
             state'[t].call = NoCall <=> state'[t].phase \in {"idle", "ended"}
    BY <2>1, EndEffect DEF Base
  <2>3. Dropped(s)
    BY <2>1, TeardownEffect DEF Base
  <2>4. missed' \in [Sides -> [Calls -> Nat]]
    BY <1>2, <2>1 DEF Base, TypeOK
  <2>5. TypeOK'
    BY <1>1, <1>2, <2>2, <2>3, <2>4 DEF Base, TypeOK, States, Dropped
  <2>6. ConnectedWasAccepted'
    BY <1>1, <2>2, StatesStayAccepted
  <2> QED
    BY <1>1, <2>5, <2>6 DEF Base, Named, Accepted
<1> QED
  BY <1>3, <1>4

LEMMA MediaEndsEffect ==
    ASSUME TypeOK, NEW x \in Sessions, NEW phases, MediaEnds(x, phases)
    PROVE  LET s == x[1] IN
           \/ /\ End(s) /\ media' = [media EXCEPT ![s] = NoMedia]
              /\ sess' \in [Sessions -> SessionStates]
              /\ \A y \in Sessions : sess'[y] = IF y = media[s] THEN "closed"
                                                ELSE IF y = x THEN "dead" ELSE sess[y]
              /\ \E ph \in phases : In(s, ph, x[2])
           \/ /\ sess' = [sess EXCEPT ![x] = "dead"] /\ UNCHANGED <<state, media>>
              /\ ~\E ph \in phases : In(s, ph, x[2])
<1>1. "closed" \in SessionStates /\ "dead" \in SessionStates
  BY DEF SessionStates
<1>2. sess \in [Sessions -> SessionStates]
  BY DEF TypeOK
<1> QED
  BY <1>1, <1>2 DEF MediaEnds

LEMMA BaseMediaEnds ==
    ASSUME CallAssumption, Base, NEW x \in Sessions, NEW phases, MediaEnds(x, phases),
           UNCHANGED <<timer, op, net, answered, caller, taps, missed, talked>>
    PROVE  Base'
<1> DEFINE s == x[1]
<1>0. s \in Sides
  BY SessionsAreTriples
<1> HIDE DEF s
<1>1. \/ /\ End(s) /\ media' = [media EXCEPT ![s] = NoMedia]
         /\ sess' \in [Sessions -> SessionStates]
      \/ sess' = [sess EXCEPT ![x] = "dead"] /\ UNCHANGED <<state, media>>
  BY MediaEndsEffect DEF Base, s
<1>2. CASE /\ End(s) /\ media' = [media EXCEPT ![s] = NoMedia]
           /\ sess' \in [Sessions -> SessionStates]
  <2>1. /\ state' \in [Sides -> States]
        /\ state'[s] = [phase |-> "ended", call |-> NoCall]
        /\ \A t \in Sides : t # s => state'[t] = state[t]
        /\ \A t \in Sides :
             state'[t].call = NoCall <=> state'[t].phase \in {"idle", "ended"}
    BY <1>0, <1>2, EndEffect DEF Base
  <2>2. media' \in [Sides -> Sessions \cup {NoMedia}]
    BY <1>0, <1>2 DEF Base, TypeOK
  <2>3. TypeOK'
    BY <1>2, <2>1, <2>2 DEF Base, TypeOK, States
  <2>4. ConnectedWasAccepted'
    BY <1>0, <2>1, StatesStayAccepted
  <2> QED
    BY <2>3, <2>4 DEF Base, Named, Accepted
<1>3. CASE sess' = [sess EXCEPT ![x] = "dead"] /\ UNCHANGED <<state, media>>
  <2>1. sess' \in [Sessions -> SessionStates]
    BY <1>3 DEF Base, TypeOK, SessionStates
  <2>2. TypeOK'
    BY <1>3, <2>1 DEF Base, TypeOK
  <2> QED
    BY <1>3, <2>2 DEF Base, Named, Accepted, ConnectedWasAccepted, In
<1> QED
  BY <1>1, <1>2, <1>3

LEMMA BaseConnects ==
    ASSUME CallAssumption, Base, NEW x \in Sessions, MediaConnects(x)
    PROVE  Base'
<1> DEFINE s == x[1]
           c == x[2]
<1>0. s \in Sides /\ c \in Calls /\ c # NoCall
  BY SessionsAreTriples DEF Calls, NoCall
<1>1. /\ sess' = [sess EXCEPT ![x] = "connected"]
      /\ UNCHANGED <<media, timer, op, net, answered, caller, taps, missed>>
      /\ \/ /\ In(s, "connecting", c) /\ Become(s, "active", c)
            /\ talked' = [talked EXCEPT ![s] = @ \cup {c}]
         \/ UNCHANGED <<state, talked>>
  BY DEF MediaConnects
<1> HIDE DEF s, c
<1>2. sess' \in [Sessions -> SessionStates]
  BY <1>1 DEF Base, TypeOK, SessionStates
<1>3. CASE UNCHANGED <<state, talked>>
  <2>1. TypeOK'
    BY <1>1, <1>2, <1>3 DEF Base, TypeOK
  <2> QED
    BY <1>1, <1>3, <2>1 DEF Base, Named, Accepted, ConnectedWasAccepted, In
<1>4. CASE /\ In(s, "connecting", c) /\ Become(s, "active", c)
           /\ talked' = [talked EXCEPT ![s] = @ \cup {c}]
  <2>1. "active" \in Phases
    BY DEF Phases
  <2>2. /\ state' \in [Sides -> States]
        /\ state'[s] = [phase |-> "active", call |-> c]
        /\ \A t \in Sides : t # s => state'[t] = state[t]
        /\ \A t \in Sides :
             state'[t].call = NoCall <=> state'[t].phase \in {"idle", "ended"}
    BY <1>0, <1>4, <2>1, BecomeEffect DEF Base
  <2>3. talked' \in [Sides -> SUBSET Calls]
    BY <1>0, <1>4 DEF Base, TypeOK
  <2>4. TypeOK'
    BY <1>1, <1>2, <2>2, <2>3 DEF Base, TypeOK, States
  <2>5. taps[c] > 0
    BY <1>0, <1>4 DEF Base, Accepted, ConnectedWasAccepted
  <2>6. ConnectedWasAccepted'
    BY <1>0, <1>1, <2>2, <2>5, StatesStayAccepted
  <2> QED
    BY <1>1, <2>4, <2>6 DEF Base, Named, Accepted
<1> QED
  BY <1>1, <1>3, <1>4

LEMMA InitBase ==
    ASSUME CallAssumption, Init PROVE Base
<1>1. NoOp \in Ops /\ NoOp.kind = "none"
  BY NoOpIsOp
<1>2. TypeOK
  <2>1. op \in [Sides -> [Slots -> Ops]] /\ \A s \in Sides, o \in Slots : op[s][o] = NoOp
    BY <1>1 DEF Init
  <2>2. state \in [Sides -> States] /\ \A s \in Sides : /\ state[s].phase = "idle"
                                                       /\ state[s].call = NoCall
    BY DEF Init, States, Phases
  <2>3. answered \in [Calls -> 0 .. MaxTaps] /\ taps \in [Calls -> 0 .. MaxTaps]
    BY DEF Init, CallAssumption
  <2>4. /\ media \in [Sides -> Sessions \cup {NoMedia}] /\ timer \in [Sides -> Calls \cup {NoCall}]
        /\ net \subseteq Signals /\ sess \in [Sessions -> SessionStates]
        /\ caller \in [Calls -> SUBSET Sides]
        /\ missed \in [Sides -> [Calls -> Nat]] /\ talked \in [Sides -> SUBSET Calls]
    BY DEF Init, SessionStates
  <2> QED
    BY <1>1, <2>1, <2>2, <2>3, <2>4 DEF TypeOK, Ops, States
<1>3. Named
  BY <1>1 DEF Init, Named, Setting
<1>4. Accepted
  BY <1>1 DEF Init, Accepted, ConnectedWasAccepted, In
<1> QED
  BY <1>2, <1>3, <1>4 DEF Base

LEMMA BaseStep ==
    ASSUME CallAssumption, Base, [Next]_vars PROVE Base'
<1>1. CASE \E s \in Sides, o \in Slots : Resume(s, o) \/ SignalLeaves(s, o)
  BY <1>1, BaseResumes, BaseSends
<1>2. CASE \E s \in Sides : Tap(s) \/ RingTimerFires(s)
  BY <1>2, BaseTaps, BaseTimer
<1>3. CASE \E m \in net : Inbound(m)
  BY <1>3, BaseInbound
<1>4. ASSUME NEW x \in Sessions, IceVerdict(x) \/ MediaRemoteEnded(x) PROVE Base'
  <2>1. CASE MediaConnects(x)
    BY <2>1, BaseConnects
  <2>2. CASE MediaFails(x)
    BY <2>2, BaseMediaEnds DEF MediaFails, Ghosts
  <2>3. CASE MediaRemoteEnded(x)
    BY <2>3, BaseMediaEnds DEF MediaRemoteEnded, Ghosts
  <2> QED
    BY <1>4, <2>1, <2>2, <2>3 DEF IceVerdict
<1>5. CASE UNCHANGED vars
  <2>1. UNCHANGED <<state, media, timer, op, net, sess, answered, caller, taps, missed, talked>>
    BY <1>5 DEF vars
  <2>2. TypeOK'
    BY <2>1 DEF Base, TypeOK
  <2> QED
    BY <2>1, <2>2 DEF Base, Named, Accepted, ConnectedWasAccepted, In
<1> QED
  BY <1>1, <1>2, <1>3, <1>4, <1>5 DEF Next

\* However hastily the user taps and however the signals overtake one another,
\* the controllers' tables keep their shapes.
THEOREM CallShapes == Spec => []TypeOK
<1>1. Init => Base
  BY CallAssumption, InitBase
<1>2. Base /\ [Next]_vars => Base'
  BY CallAssumption, BaseStep
<1>3. Base => TypeOK
  BY DEF Base
<1> QED
  BY <1>1, <1>2, <1>3, PTL DEF Spec

\* Neither side is connected to a call its callee did not accept: handleInbound
\* applies an answer to the ring it answers, however late it arrives.
THEOREM OnlyAcceptedConnect == Spec => []ConnectedWasAccepted
<1>1. Init => Base
  BY CallAssumption, InitBase
<1>2. Base /\ [Next]_vars => Base'
  BY CallAssumption, BaseStep
<1>3. Base => ConnectedWasAccepted
  BY DEF Base, Accepted
<1> QED
  BY <1>1, <1>2, <1>3, PTL DEF Spec

-----------------------------------------------------------------------------
(* One side, with patient taps *)

LEMMA StateFacts ==
    ASSUME TypeOK, NEW t \in Sides
    PROVE  /\ state[t] \in States
           /\ state[t] = [phase |-> state[t].phase, call |-> state[t].call]
           /\ state[t].phase \notin {"idle", "ended"} => state[t].call \in Calls
           /\ state[t].phase \in {"idle", "ended"} => state[t].call = NoCall
<1>1. state[t] \in States
  BY DEF TypeOK, States
<1>2. state[t].call = NoCall <=> state[t].phase \in {"idle", "ended"}
  BY DEF TypeOK
<1> QED
  BY <1>1, <1>2 DEF States

\* The calls already minted keep their caller.
CallersKept == \A c \in Calls : caller[c] # {} => caller'[c] = caller[c]

LEMMA OpFitsFrame ==
    ASSUME CallAssumption, TypeOK, CallersKept, NEW t \in Sides, NEW p \in Ops,
           p.kind # "none" => p.call \in Calls, OpFits(t, p),
           state'[t] = state[t], media'[t] = media[t],
           \A x \in Sessions : x[1] = t => sess'[x] = sess[x]
    PROVE  OpFits(t, p)'
<1>1. p.kind # "none" => Offer(t, p.call) \in Sessions /\ Offer(t, p.call)[1] = t
                         /\ sess'[Offer(t, p.call)] = sess[Offer(t, p.call)]
  BY DEF Offer, Sessions, CallAssumption
<1>2. p.kind = "none" => p = NoOp
  BY DEF OpFits
<1>3. p.kind = "offer" => OfferFits(t, p)'
  BY <1>1 DEF OpFits, OfferFits, CallersKept, Offer
<1>4. p.kind = "request" => RequestFits(t, p)'
  BY DEF OpFits, RequestFits, CallersKept, Live, Over, In
<1>5. p.kind = "answering" => AnsweringFits(t, p)'
  BY DEF OpFits, AnsweringFits, CallersKept, Over, In, Ops, Other
<1>6. p.kind = "answer" => AnswerFits(t, p)'
  BY DEF OpFits, AnswerFits, CallersKept, Live, Over, In, Other
<1>7. p.kind = "cancel" => CancelFits(t, p)'
  BY <1>1 DEF OpFits, CancelFits, CallersKept, Over, In, Offer
<1>8. p.kind = "decline" => DeclineFits(t, p)'
  BY DEF OpFits, DeclineFits, CallersKept, Over, In, Other
<1>9. p.kind = "start" => StartFits(t, p)'
  BY <1>1 DEF OpFits, StartFits, CallersKept, Over, In, Offer
<1> QED
  BY <1>2, <1>3, <1>4, <1>5, <1>6, <1>7, <1>8, <1>9 DEF OpFits, NoOp, NoCall, NoMedia

LEMMA OpFitsThen ==
    ASSUME NEW s, NEW q, NEW p, op'[s][q] = p, OpFits(s, p)'
    PROVE  OpFits(s, op[s][q])'
  BY DEF OpFits, OfferFits, RequestFits, AnsweringFits, AnswerFits, CancelFits,
     DeclineFits, StartFits, Live, Over, In, Offer, Other, NoOp

\* The other side of a step.
LEMMA SideFrame ==
    ASSUME CallAssumption, TypeOK, TypeOK', CallersKept, NEW t \in Sides, SideFits(t),
           state'[t] = state[t], media'[t] = media[t], op'[t] = op[t],
           \A x \in Sessions : x[1] = t => sess'[x] = sess[x]
    PROVE  SideFits(t)'
<1>1. ASSUME NEW o \in Slots PROVE OpFits(t, op[t][o])'
  <2>1. PICK p \in Ops : p = op[t][o]
    BY OpFacts
  <2>2. OpFits(t, p) /\ (p.kind # "none" => p.call \in Calls)
    BY <2>1, OpFacts DEF SideFits, OpsFit
  <2>3. OpFits(t, p)'
    BY <2>2, OpFitsFrame
  <2>4. op'[t][o] = p
    BY <2>1
  <2> QED
    BY <2>3, <2>4, OpFitsThen
<1>2. OpsFit(t)'
  BY <1>1 DEF SideFits, OpsFit, MayRunBeside, NoOp, NoCall, NoMedia
<1>3. MediaFits(t)'
  <2>1. \A x \in Open' : x[1] = t => x \in Open
    BY DEF Open
  <2>2. media[t] # NoMedia => media[t] \in Sessions
    BY DEF TypeOK
  <2> QED
    BY <2>1, <2>2 DEF SideFits, MediaFits, In, NoMedia
<1>4. RingFits(t)'
  <2>1. state[t].phase \in {"outgoing", "incoming"} => state[t].call \in Calls
    BY StateFacts
  <2>2. state[t].phase = "outgoing" /\ media[t] = Offer(t, state[t].call)
          => sess'[media[t]] = sess[media[t]]
    BY <2>1 DEF Offer, Sessions, CallAssumption
  <2> QED
    BY <2>1, <2>2 DEF SideFits, RingFits, CallersKept, Offer, Other, NoMedia
<1> QED
  BY <1>2, <1>3, <1>4 DEF SideFits

\* With nothing suspended, a side that is not in a call has no session open.
LEMMA QuietMedia ==
    ASSUME TypeOK, NEW s \in Sides, SideFits(s), \A o \in Slots : op[s][o] = NoOp,
           state[s].phase \in {"idle", "incoming", "ended"}
    PROVE  media[s] = NoMedia /\ \A x \in Open : x[1] # s
<1>1. media[s] = NoMedia
  BY NoOpIsOp DEF SideFits, MediaFits, In
<1> QED
  BY <1>1, SessionsAreTriples DEF SideFits, MediaFits, Open

\* The current session is closed and the side's state is ended.
LEMMA DropEnd ==
    ASSUME CallAssumption, TypeOK, TypeOK', NEW s \in Sides, SideFits(s), Dropped(s),
           state'[s] = [phase |-> "ended", call |-> NoCall],
           \A q \in Slots : op'[s][q] = NoOp
                \/ (op'[s][q] = op[s][q] /\ op[s][q].kind \notin {"offer", "answering"}),
           UNCHANGED caller
    PROVE  SideFits(s)'
<1>1. Over(s)'
  BY DEF Over, In
<1>2. \A x \in Sessions : sess[x] = "closed" => sess'[x] = "closed"
  BY DEF Dropped
<1>3. media'[s] = NoMedia
  BY DEF Dropped
<1>4. ASSUME NEW p \in Ops, p.kind # "none" => p.call \in Calls, OpFits(s, p),
             p.kind \notin {"offer", "answering"}
      PROVE  OpFits(s, p)'
  <2>1. p.kind # "none" => Offer(s, p.call) \in Sessions
    BY <1>4 DEF Offer, Sessions, CallAssumption
  <2>2. p.kind = "request" => RequestFits(s, p)'
    BY <1>1, <1>4 DEF OpFits, RequestFits, Live
  <2>3. p.kind = "answer" => AnswerFits(s, p)'
    BY <1>1, <1>4 DEF OpFits, AnswerFits, Live, Other
  <2>4. p.kind = "cancel" => CancelFits(s, p)'
    BY <1>1, <1>2, <1>3, <1>4, <2>1 DEF OpFits, CancelFits, Offer
  <2>5. p.kind = "decline" => DeclineFits(s, p)'
    BY <1>1, <1>3, <1>4 DEF OpFits, DeclineFits, Other
  <2>6. p.kind = "start" => StartFits(s, p)'
    <3> SUFFICES ASSUME p.kind = "start" PROVE StartFits(s, p)'
      OBVIOUS
    <3>1. caller'[p.call] = {s} /\ StartFits(s, p)
      BY <1>4 DEF OpFits, StartFits
    <3>2. CASE p.session = NoMedia
      BY <1>1, <1>3, <3>1, <3>2 DEF StartFits
    <3>3. CASE p.session = Offer(s, p.call) /\ p.session # NoMedia
      <4>1. sess'[p.session] = "closed"
        BY <1>2, <2>1, <3>1, <3>3 DEF StartFits, Dropped
      <4> QED
        BY <1>1, <1>3, <3>1, <3>3, <4>1 DEF StartFits, Offer
    <3> QED
      BY <3>1, <3>2, <3>3 DEF StartFits
  <2> QED
    BY <1>4, <2>2, <2>3, <2>4, <2>5, <2>6 DEF OpFits, NoOp, NoCall, NoMedia
<1>5. ASSUME NEW q \in Slots PROVE OpFits(s, op[s][q])'
  <2>1. PICK p \in Ops : p = op'[s][q]
    BY DEF TypeOK, Ops
  <2>2. OpFits(s, p)'
    <3>1. CASE p = NoOp
      BY <3>1, NoOpIsOp DEF OpFits
    <3>2. CASE p = op[s][q] /\ p.kind \notin {"offer", "answering"}
      BY <1>4, <3>2, OpFacts DEF SideFits, OpsFit
    <3> QED
      BY <2>1, <3>1, <3>2
  <2> QED
    BY <2>1, <2>2, OpFitsThen
<1>6. OpsFit(s)'
  BY <1>5 DEF SideFits, OpsFit, MayRunBeside, NoOp, NoCall, NoMedia
<1>7. MediaFits(s)'
  <2>1. \A x \in Open' : x[1] # s
    BY DEF Open, Dropped, SideFits, MediaFits
  <2> QED
    BY <1>3, <2>1 DEF MediaFits, NoMedia
<1>8. RingFits(s)'
  BY DEF RingFits
<1> QED
  BY <1>6, <1>7, <1>8 DEF SideFits

\* An operation that holds no session is over; nothing else happens.
LEMMA ReturnOnly ==
    ASSUME CallAssumption, TypeOK, TypeOK', NEW s \in Sides, SideFits(s),
           NEW o \in Slots, OpBecomes(s, o, NoOp),
           op[s][o].kind \notin {"offer", "answering", "cancel"},
           op[s][o].kind = "start" => op[s][o].session = NoMedia,
           UNCHANGED <<state, media, sess, caller>>
    PROVE  SideFits(s)'
<1>1. ASSUME NEW q \in Slots PROVE OpFits(s, op[s][q])'
  <2>1. PICK p \in Ops : p = op'[s][q]
    BY DEF TypeOK, Ops
  <2>2. OpFits(s, p)'
    <3>1. CASE q = o
      BY <2>1, <3>1, NoOpIsOp DEF OpFits, OpBecomes
    <3>2. CASE q # o
      <4>1. p = op[s][q]
        BY <2>1, <3>2 DEF OpBecomes
      <4>2. OpFits(s, p) /\ (p.kind # "none" => p.call \in Calls)
        BY <4>1, OpFacts DEF SideFits, OpsFit
      <4> QED
        BY <4>2, OpFitsFrame DEF CallersKept
    <3> QED
      BY <3>1, <3>2
  <2> QED
    BY <2>1, <2>2, OpFitsThen
<1>2. OpsFit(s)'
  <2>1. \A q \in Slots : op'[s][q] = NoOp \/ op'[s][q] = op[s][q]
    BY DEF OpBecomes
  <2> QED
    BY <1>1, <2>1 DEF SideFits, OpsFit, MayRunBeside, NoOp, NoCall, NoMedia
<1>3. MediaFits(s)'
  <2>1. Open' = Open
    BY DEF Open
  <2>2. \A q \in Slots : q = o \/ op'[s][q] = op[s][q]
    BY DEF OpBecomes
  <2>3. \A q \in Slots : op[s][q].kind \in {"offer", "answering"} => op'[s][q] = op[s][q]
    BY <2>2
  <2>4. \A q \in Slots : op[s][q].kind = "start" /\ op[s][q].session # NoMedia
                           => op'[s][q] = op[s][q]
    BY <2>2
  <2> QED
    BY <2>1, <2>3, <2>4 DEF SideFits, MediaFits, In, NoMedia
<1>4. RingFits(s)'
  <2>1. \A q \in Slots : op[s][q].kind = "cancel" => op'[s][q] = op[s][q]
    BY DEF OpBecomes
  <2> QED
    BY <2>1 DEF SideFits, RingFits, Offer, Other, NoMedia
<1> QED
  BY <1>2, <1>3, <1>4 DEF SideFits

\* The only operation of a side.
LEMMA FirstOp ==
    ASSUME TypeOK', NEW s \in Sides, NEW o \in Slots,
           \A q \in Slots : q # o => op[s][q] = NoOp, NEW p \in Ops, OpBecomes(s, o, p), OpFits(s, p)'
    PROVE  OpsFit(s)'
<1>1. op'[s][o] = p /\ \A q \in Slots : q # o => op'[s][q] = NoOp
  BY DEF OpBecomes
<1>2. ASSUME NEW q \in Slots PROVE OpFits(s, op[s][q])'
  <2>1. CASE q = o
    BY <1>1, <2>1, OpFitsThen
  <2>2. CASE q # o
    <3>1. OpFits(s, NoOp)'
      BY NoOpIsOp DEF OpFits, NoOp, NoCall, NoMedia
    <3> QED
      BY <1>1, <2>2, <3>1, NoOpIsOp DEF OpFits
  <2> QED
    BY <2>1, <2>2
<1> QED
  BY <1>1, <1>2 DEF OpsFit, MayRunBeside, NoOp, NoCall, NoMedia

\* A session is opened for the new operation.
LEMMA FirstSession ==
    ASSUME NEW s \in Sides, \A y \in Open : y[1] # s,
           NEW x \in Sessions, x[1] = s, sess'[x] = "new", media'[s] = x,
           \A y \in Sessions : y # x => sess'[y] = sess[y],
           NEW o \in Slots, op'[s][o].kind \in {"offer", "answering"},
           op'[s][o].session = x
    PROVE  MediaFits(s)'
<1>1. \A y \in Open' : y[1] = s => y = x
  BY DEF Open
<1> QED
  BY <1>1 DEF MediaFits

LEMMA SideTaps ==
    ASSUME CallAssumption, Patient, Base, Base', NEW s \in Sides, SideFits(s), Tap(s)
    PROVE  /\ SideFits(s)'
           /\ \A t \in Sides : t # s /\ SideFits(t) => SideFits(t)'
<1>0. TypeOK /\ TypeOK'
  BY DEF Base
<1>1. CASE Reset(s)
  <2>1. /\ \A q \in Slots : op[s][q] = NoOp
        /\ In(s, "ended", NoCall) /\ Become(s, "idle", NoCall)
        /\ UNCHANGED <<media, op, sess, caller>>
    BY <1>1 DEF Reset, MayIntrude, Ghosts
  <2>2. "idle" \in Phases /\ NoCall \in Calls \cup {NoCall}
    BY DEF Phases
  <2>3. /\ state'[s] = [phase |-> "idle", call |-> NoCall]
        /\ \A t \in Sides : t # s => state'[t] = state[t]
    BY <1>0, <2>1, <2>2, BecomeEffect
  <2>4. media[s] = NoMedia /\ \A x \in Open : x[1] # s
    BY <1>0, <2>1, QuietMedia DEF In
  <2>5. OpsFit(s)'
    <3>1. \A q \in Slots : op'[s][q] = NoOp
      BY <2>1
    <3>2. \A q \in Slots : OpFits(s, op[s][q])'
      BY <3>1, NoOpIsOp DEF OpFits
    <3> QED
      BY <3>1, <3>2 DEF OpsFit, NoOp, NoCall, NoMedia
  <2>6. MediaFits(s)'
    BY <2>1, <2>4 DEF MediaFits, Open, NoMedia
  <2>7. RingFits(s)'
    BY <2>3 DEF RingFits
  <2> QED
    BY <1>0, <2>1, <2>3, <2>5, <2>6, <2>7, SideFrame DEF SideFits, CallersKept
<1>2. ASSUME NEW c \in Calls, StartCall(s, c)
      PROVE  SideFits(s)' /\ \A t \in Sides : t # s /\ SideFits(t) => SideFits(t)'
  <2> DEFINE x == Offer(s, c)
             p == Op("offer", c, x)
  <2>1. /\ \A q \in Slots : op[s][q] = NoOp
        /\ IsIdle(s) /\ caller[c] = {}
        /\ caller' = [caller EXCEPT ![c] = {s}]
        /\ sess' = [sess EXCEPT ![x] = "new"]
        /\ media' = [media EXCEPT ![s] = x]
        /\ Begin(s, "offer", c, x)
        /\ UNCHANGED state
    BY <1>2 DEF StartCall, Offer, MayIntrude
  <2>2. x \in Sessions /\ x[1] = s /\ x = Offer(s, c) /\ "offer" \in OpKinds
    BY DEF Offer, Sessions, CallAssumption, OpKinds
  <2>3. PICK o \in Slots : op[s][o] = NoOp /\ OpBecomes(s, o, p)
    BY <1>0, <2>1, <2>2, BeginEffect
  <2>4. p \in Ops /\ p.kind = "offer" /\ p.session = x /\ p.call = c /\ p.sent = FALSE
    BY <2>2 DEF Op, Ops
  <2> HIDE DEF x, p
  <2>5. media[s] = NoMedia /\ \A y \in Open : y[1] # s
    BY <1>0, <2>1, QuietMedia DEF In, IsIdle
  <2>6. /\ op'[s][o] = p /\ op'[s][o].kind \in {"offer", "answering"}
        /\ op'[s][o].session = x
    BY <2>3, <2>4 DEF OpBecomes
  <2>7. /\ media'[s] = x /\ sess'[x] = "new"
        /\ \A y \in Sessions : y # x => sess'[y] = sess[y]
        /\ \A y \in Sessions : y[1] # s => sess'[y] = sess[y]
    BY <1>0, <2>1, <2>2 DEF TypeOK
  <2>fit. MediaFits(s)'
    BY <2>2, <2>5, <2>6, <2>7, FirstSession
  <2>8. caller'[c] = {s} /\ CallersKept
    BY <1>0, <2>1 DEF TypeOK, CallersKept
  <2>9. OpFits(s, p)'
    <3>1. OfferFits(s, p)'
      BY <2>1, <2>2, <2>4, <2>7, <2>8 DEF OfferFits, Offer, IsIdle, In
    <3> QED
      BY <2>4, <3>1 DEF OpFits
  <2>10. OpsFit(s)'
    BY <1>0, <2>1, <2>3, <2>4, <2>9, FirstOp
  <2>11. RingFits(s)'
    BY <2>1 DEF RingFits, IsIdle, In
  <2>12. ASSUME NEW t \in Sides, t # s, SideFits(t) PROVE SideFits(t)'
    <3>1. media'[t] = media[t] /\ op'[t] = op[t] /\ state'[t] = state[t]
      BY <1>0, <2>1, <2>3, <2>12 DEF TypeOK, OpBecomes
    <3>2. \A y \in Sessions : y[1] = t => sess'[y] = sess[y]
      BY <2>7, <2>12
    <3> QED
      BY <1>0, <2>8, <2>12, <3>1, <3>2, SideFrame
  <2> QED
    BY <2>fit, <2>10, <2>11, <2>12 DEF SideFits
<1>3. ASSUME NEW c \in Calls, CancelOutgoing(s, c)
      PROVE  SideFits(s)' /\ \A t \in Sides : t # s /\ SideFits(t) => SideFits(t)'
  <2> DEFINE p == Op("cancel", c, NoMedia)
  <2>1. /\ \A q \in Slots : op[s][q] = NoOp
        /\ In(s, "outgoing", c) /\ TeardownMedia(s) /\ Begin(s, "cancel", c, NoMedia)
        /\ UNCHANGED <<state, caller>>
    BY <1>3 DEF CancelOutgoing, MayIntrude, Ghosts
  <2>2. "cancel" \in OpKinds /\ NoMedia \in Sessions \cup {NoMedia}
        /\ Offer(s, c) \in Sessions
    BY DEF OpKinds, Offer, Sessions, CallAssumption
  <2>3. PICK o \in Slots : op[s][o] = NoOp /\ OpBecomes(s, o, p)
    BY <1>0, <2>1, <2>2, BeginEffect
  <2>4. p \in Ops /\ p.kind = "cancel" /\ p.call = c
    BY <2>2 DEF Op, Ops
  <2> HIDE DEF p
  <2>5. Dropped(s)
    BY <1>0, <2>1, TeardownEffect
  <2>6. media[s] = Offer(s, c) /\ caller[c] = {s}
    BY <2>1, NoOpIsOp DEF SideFits, RingFits, In
  <2>7. media'[s] = NoMedia /\ sess'[Offer(s, c)] = "closed"
    BY <2>2, <2>5, <2>6 DEF Dropped
  <2>8. OpFits(s, p)'
    <3>1. CancelFits(s, p)'
      BY <2>1, <2>4, <2>6, <2>7 DEF CancelFits, Offer, In
    <3> QED
      BY <2>4, <3>1 DEF OpFits
  <2>9. OpsFit(s)'
    BY <1>0, <2>1, <2>3, <2>4, <2>8, FirstOp
  <2>10. MediaFits(s)'
    <3>1. \A y \in Open' : y[1] # s
      BY <2>5 DEF Open, Dropped, SideFits, MediaFits
    <3> QED
      BY <2>7, <3>1 DEF MediaFits, NoMedia
  <2>11. RingFits(s)'
    <3>1. op'[s][o].kind = "cancel"
      BY <2>3, <2>4 DEF OpBecomes
    <3> QED
      BY <2>1, <2>6, <2>7, <3>1 DEF RingFits, In, NoMedia
  <2>12. ASSUME NEW t \in Sides, t # s, SideFits(t) PROVE SideFits(t)'
    <3>1. media'[t] = media[t] /\ op'[t] = op[t] /\ state'[t] = state[t] /\ CallersKept
      BY <2>1, <2>3, <2>5, <2>12 DEF Dropped, OpBecomes, CallersKept
    <3>2. \A y \in Sessions : y[1] = t => sess'[y] = sess[y]
      BY <2>5, <2>6, <2>12 DEF Dropped, Offer
    <3> QED
      BY <1>0, <2>12, <3>1, <3>2, SideFrame
  <2> QED
    BY <2>9, <2>10, <2>11, <2>12 DEF SideFits
<1>4. ASSUME NEW c \in Calls, Accept(s, c)
      PROVE  SideFits(s)' /\ \A t \in Sides : t # s /\ SideFits(t) => SideFits(t)'
  <2>1. /\ \A q \in Slots : op[s][q] = NoOp
        /\ In(s, "incoming", c) /\ taps[c] < MaxTaps
        /\ sess' = [sess EXCEPT ![<<s, c, taps[c] + 1>>] = "new"]
        /\ media' = [media EXCEPT ![s] = <<s, c, taps[c] + 1>>]
        /\ Begin(s, "answering", c, <<s, c, taps[c] + 1>>)
        /\ UNCHANGED <<state, caller>>
    BY <1>4 DEF Accept, MayIntrude
  <2>2. PICK x \in Sessions : x = <<s, c, taps[c] + 1>> /\ x[1] = s /\ x[2] = c
    <3>1. taps[c] + 1 \in 1 .. MaxTaps
      BY <1>0, <2>1 DEF TypeOK, CallAssumption
    <3>2. <<s, c, taps[c] + 1>> \in Sessions
      BY <3>1 DEF Sessions
    <3> QED
      BY <3>2
  <2>3. /\ sess' = [sess EXCEPT ![x] = "new"] /\ media' = [media EXCEPT ![s] = x]
        /\ Begin(s, "answering", c, x) /\ "answering" \in OpKinds
    BY <2>1, <2>2 DEF OpKinds
  <2> DEFINE p == Op("answering", c, x)
  <2>4. p \in Ops /\ p.kind = "answering" /\ p.session = x /\ p.call = c
    BY <2>2, <2>3 DEF Op, Ops
  <2>op. PICK o \in Slots : op[s][o] = NoOp /\ OpBecomes(s, o, p)
    BY <1>0, <2>2, <2>3, BeginEffect
  <2> HIDE DEF p
  <2>5. media[s] = NoMedia /\ \A y \in Open : y[1] # s
    BY <1>0, <2>1, QuietMedia DEF In
  <2>6. /\ op'[s][o] = p /\ op'[s][o].kind \in {"offer", "answering"}
        /\ op'[s][o].session = x
    BY <2>op, <2>4 DEF OpBecomes
  <2>7. /\ media'[s] = x /\ sess'[x] = "new"
        /\ \A y \in Sessions : y # x => sess'[y] = sess[y]
        /\ \A y \in Sessions : y[1] # s => sess'[y] = sess[y]
    BY <1>0, <2>2, <2>3 DEF TypeOK
  <2>fit. MediaFits(s)'
    BY <2>2, <2>5, <2>6, <2>7, FirstSession
  <2>8. caller[c] = {Other(s)} /\ x # NoMedia
    BY <2>1, <2>2, SessionsAreTriples DEF SideFits, RingFits, In
  <2>9. OpFits(s, p)'
    <3>1. AnsweringFits(s, p)'
      BY <2>1, <2>2, <2>4, <2>7, <2>8 DEF AnsweringFits, Other, In, NoMedia
    <3> QED
      BY <2>4, <3>1 DEF OpFits
  <2>10. OpsFit(s)'
    BY <1>0, <2>1, <2>op, <2>4, <2>9, FirstOp
  <2>11. RingFits(s)'
    BY <2>1, <2>8 DEF RingFits, Other, In
  <2>12. ASSUME NEW t \in Sides, t # s, SideFits(t) PROVE SideFits(t)'
    <3>1. media'[t] = media[t] /\ op'[t] = op[t] /\ state'[t] = state[t] /\ CallersKept
      BY <1>0, <2>1, <2>3, <2>op, <2>12 DEF TypeOK, OpBecomes, CallersKept
    <3>2. \A y \in Sessions : y[1] = t => sess'[y] = sess[y]
      BY <2>7, <2>12
    <3> QED
      BY <1>0, <2>12, <3>1, <3>2, SideFrame
  <2> QED
    BY <2>fit, <2>10, <2>11, <2>12 DEF SideFits
<1>5. ASSUME NEW c \in Calls, Decline(s, c)
      PROVE  SideFits(s)' /\ \A t \in Sides : t # s /\ SideFits(t) => SideFits(t)'
  <2> DEFINE p == Op("decline", c, NoMedia)
  <2>1. /\ \A q \in Slots : op[s][q] = NoOp
        /\ In(s, "incoming", c) /\ Begin(s, "decline", c, NoMedia)
        /\ UNCHANGED <<state, media, sess, caller>>
    BY <1>5 DEF Decline, MayIntrude, Ghosts
  <2>2. "decline" \in OpKinds /\ NoMedia \in Sessions \cup {NoMedia}
    BY DEF OpKinds
  <2>3. PICK o \in Slots : op[s][o] = NoOp /\ OpBecomes(s, o, p)
    BY <1>0, <2>1, <2>2, BeginEffect
  <2>4. p \in Ops /\ p.kind = "decline" /\ p.call = c
    BY <2>2 DEF Op, Ops
  <2> HIDE DEF p
  <2>5. media[s] = NoMedia /\ \A y \in Open : y[1] # s
    BY <1>0, <2>1, QuietMedia DEF In
  <2>6. caller[c] = {Other(s)}
    BY <2>1 DEF SideFits, RingFits, In
  <2>7. OpFits(s, p)'
    <3>1. DeclineFits(s, p)'
      BY <2>1, <2>4, <2>5, <2>6 DEF DeclineFits, Other, In
    <3> QED
      BY <2>4, <3>1 DEF OpFits
  <2>8. OpsFit(s)'
    BY <1>0, <2>1, <2>3, <2>4, <2>7, FirstOp
  <2>9. MediaFits(s)'
    BY <2>1, <2>5 DEF MediaFits, Open, NoMedia
  <2>10. RingFits(s)'
    BY <2>1, <2>6 DEF RingFits, Other, In
  <2>11. ASSUME NEW t \in Sides, t # s, SideFits(t) PROVE SideFits(t)'
    <3>1. media'[t] = media[t] /\ op'[t] = op[t] /\ state'[t] = state[t] /\ CallersKept
      BY <2>1, <2>3, <2>11 DEF OpBecomes, CallersKept
    <3> QED
      BY <1>0, <2>1, <2>11, <3>1, SideFrame
  <2> QED
    BY <2>8, <2>9, <2>10, <2>11 DEF SideFits
<1>6. ASSUME NEW c \in Calls, HangUp(s, c)
      PROVE  SideFits(s)' /\ \A t \in Sides : t # s /\ SideFits(t) => SideFits(t)'
  <2>1. /\ In(s, "connecting", c) \/ In(s, "active", c)
        /\ TeardownMedia(s) /\ End(s) /\ UNCHANGED <<op, caller>>
    BY <1>6 DEF HangUp, Ghosts
  <2>2. Dropped(s)
    BY <1>0, <2>1, TeardownEffect
  <2>3. /\ state'[s] = [phase |-> "ended", call |-> NoCall]
        /\ \A t \in Sides : t # s => state'[t] = state[t]
    BY <1>0, <2>1, EndEffect
  <2>4. \A q \in Slots : op'[s][q] = op[s][q] /\ op[s][q].kind \notin {"offer", "answering"}
    <3> SUFFICES ASSUME NEW q \in Slots
                 PROVE  op'[s][q] = op[s][q] /\ op[s][q].kind \notin {"offer", "answering"}
      OBVIOUS
    <3>1. OpFits(s, op[s][q])
      BY DEF SideFits, OpsFit
    <3> QED
      BY <2>1, <3>1 DEF OpFits, OfferFits, AnsweringFits, Over, In
  <2>5. SideFits(s)'
    BY <1>0, <2>1, <2>2, <2>3, <2>4, DropEnd
  <2>6. media[s] # NoMedia => media[s][1] = s
    BY DEF SideFits, MediaFits
  <2>7. ASSUME NEW t \in Sides, t # s, SideFits(t) PROVE SideFits(t)'
    <3>1. media'[t] = media[t] /\ op'[t] = op[t] /\ state'[t] = state[t] /\ CallersKept
      BY <2>1, <2>2, <2>3, <2>7 DEF Dropped, CallersKept
    <3>2. \A y \in Sessions : y[1] = t => sess'[y] = sess[y]
      BY <2>2, <2>6, <2>7, SessionsAreTriples DEF Dropped
    <3> QED
      BY <1>0, <2>7, <3>1, <3>2, SideFrame
  <2> QED
    BY <2>5, <2>7
<1> QED
  BY <1>1, <1>2, <1>3, <1>4, <1>5, <1>6 DEF Tap

LEMMA SideResumes ==
    ASSUME CallAssumption, Base, Base', NEW s \in Sides, SideFits(s), NEW o \in Slots,
           Resume(s, o)
    PROVE  /\ SideFits(s)'
           /\ \A t \in Sides : t # s /\ SideFits(t) => SideFits(t)'
<1>0. TypeOK /\ TypeOK'
  BY DEF Base
<1>1. CASE OfferReady(s, o)
  <2>1. PICK p \in Ops : p = op[s][o] /\ p.kind = "offer" /\ OpFits(s, p)
    BY <1>0, <1>1, OpFacts DEF OfferReady, SideFits, OpsFit
  <2>2. PICK c \in Calls : c = p.call
    BY <1>0, <2>1, OpFacts
  <2>3. PICK x \in Sessions : x = p.session
    BY <2>1 DEF Base, Named, Setting
  <2>4. /\ x[1] = s /\ x[2] = c /\ media[s] = x /\ sess[x] = "new" /\ x = Offer(s, c)
        /\ caller[c] = {s}
    BY <2>1, <2>2, <2>3 DEF OpFits, OfferFits, Offer
  <2>5. /\ sess' = [sess EXCEPT ![x] = "offered"]
        /\ Become(s, "outgoing", c) /\ Await(s, o, "request") /\ UNCHANGED <<media, caller>>
    BY <1>1, <2>1, <2>2, <2>3, <2>4 DEF OfferReady, Ghosts
  <2>6. /\ "outgoing" \in Phases /\ "request" \in OpKinds /\ c # NoCall
        /\ p.kind # "none" /\ Op("request", c, x) \in Ops
        /\ Op("request", c, x).kind = "request" /\ Op("request", c, x).call = c
        /\ Op("request", c, x).session = x
    BY <2>1 DEF Phases, OpKinds, Calls, NoCall, Op, Ops
  <2>7. /\ state'[s] = [phase |-> "outgoing", call |-> c]
        /\ \A t \in Sides : t # s => state'[t] = state[t]
    BY <1>0, <2>5, <2>6, BecomeEffect
  <2>8. OpBecomes(s, o, Op("request", c, x))
    BY <1>0, <2>1, <2>2, <2>3, <2>5, <2>6, AwaitEffect
  <2>9. /\ sess'[x] = "offered" /\ \A y \in Sessions : y # x => sess'[y] = sess[y]
    BY <1>0, <2>5 DEF TypeOK
  <2>10. OpFits(s, Op("request", c, x))'
    <3>1. PICK q \in Ops : q = Op("request", c, x)
      BY <2>6
    <3>2. RequestFits(s, q)'
      BY <2>4, <2>5, <2>6, <2>7, <2>9, <3>1, SessionsAreTriples
         DEF RequestFits, In, Other, NoMedia
    <3>3. OpFits(s, q)'
      BY <2>6, <3>1, <3>2 DEF OpFits
    <3> QED
      BY <3>1, <3>3 DEF Op
  <2>11. OpsFit(s)'
    <3>1. \A q \in Slots : q # o => op[s][q] = NoOp
      BY <2>1, NoOpIsOp DEF SideFits, OpsFit, MayRunBeside
    <3> QED
      BY <1>0, <2>6, <2>8, <2>10, <3>1, FirstOp
  <2>12. MediaFits(s)'
    <3>1. \A y \in Open' : y[1] = s => y = x
      BY <2>4, <2>9 DEF Open, SideFits, MediaFits
    <3> QED
      BY <2>4, <2>5, <2>7, <2>9, <3>1 DEF MediaFits, In, NoMedia
  <2>13. RingFits(s)'
    BY <2>4, <2>5, <2>7, <2>9 DEF RingFits, Offer
  <2>14. ASSUME NEW t \in Sides, t # s, SideFits(t) PROVE SideFits(t)'
    <3>1. media'[t] = media[t] /\ op'[t] = op[t] /\ state'[t] = state[t] /\ CallersKept
      BY <2>5, <2>7, <2>8, <2>14 DEF OpBecomes, CallersKept
    <3>2. \A y \in Sessions : y[1] = t => sess'[y] = sess[y]
      BY <2>4, <2>9, <2>14, SessionsAreTriples
    <3> QED
      BY <1>0, <2>14, <3>1, <3>2, SideFrame
  <2> QED
    BY <2>11, <2>12, <2>13, <2>14 DEF SideFits
<1>2. CASE RequestSent(s, o)
  <2>1. /\ Return(s, o) /\ UNCHANGED <<state, media, sess, caller>>
        /\ op[s][o].kind \in {"request", "answer"}
    BY <1>2 DEF RequestSent, Ghosts
  <2>2. OpBecomes(s, o, NoOp)
    BY <1>0, <2>1, ReturnEffect
  <2>3. SideFits(s)'
    BY <1>0, <2>1, <2>2, ReturnOnly
  <2>4. ASSUME NEW t \in Sides, t # s, SideFits(t) PROVE SideFits(t)'
    <3>1. media'[t] = media[t] /\ op'[t] = op[t] /\ state'[t] = state[t] /\ CallersKept
      BY <2>1, <2>2, <2>4 DEF OpBecomes, CallersKept
    <3>2. \A y \in Sessions : y[1] = t => sess'[y] = sess[y]
      BY <2>1, <2>4, SessionsAreTriples
    <3> QED
      BY <1>0, <2>4, <3>1, <3>2, SideFrame
  <2> QED
    BY <2>3, <2>4
<1>3. CASE SetupThrows(s, o)
  <2>1. TeardownMedia(s) /\ End(s) /\ Return(s, o) /\ UNCHANGED caller
        /\ op[s][o].kind \in {"offer", "request", "answering", "answer"}
    BY <1>3 DEF SetupThrows, Ghosts
  <2>2. Dropped(s) /\ OpBecomes(s, o, NoOp)
    BY <1>0, <2>1, TeardownEffect, ReturnEffect
  <2>3. /\ state'[s] = [phase |-> "ended", call |-> NoCall]
        /\ \A t \in Sides : t # s => state'[t] = state[t]
    BY <1>0, <2>1, EndEffect
  <2>4. \A q \in Slots : op'[s][q] = NoOp
          \/ (op'[s][q] = op[s][q] /\ op[s][q].kind \notin {"offer", "answering"})
    BY <2>1, <2>2, NoOpIsOp DEF OpBecomes, SideFits, OpsFit, MayRunBeside
  <2>5. SideFits(s)'
    BY <1>0, <2>1, <2>2, <2>3, <2>4, DropEnd
  <2>6. media[s] # NoMedia => media[s][1] = s
    BY DEF SideFits, MediaFits
  <2>7. ASSUME NEW t \in Sides, t # s, SideFits(t) PROVE SideFits(t)'
    <3>1. media'[t] = media[t] /\ op'[t] = op[t] /\ state'[t] = state[t] /\ CallersKept
      BY <2>1, <2>2, <2>3, <2>7 DEF Dropped, OpBecomes, CallersKept
    <3>2. \A y \in Sessions : y[1] = t => sess'[y] = sess[y]
      BY <2>2, <2>6, <2>7, SessionsAreTriples DEF Dropped
    <3> QED
      BY <1>0, <2>7, <3>1, <3>2, SideFrame
  <2> QED
    BY <2>5, <2>7
<1>4. CASE AnswerReady(s, o)
  <2>1. PICK p \in Ops : p = op[s][o] /\ p.kind = "answering" /\ OpFits(s, p)
    BY <1>0, <1>4, OpFacts DEF AnswerReady, SideFits, OpsFit
  <2>2. PICK c \in Calls : c = p.call
    BY <1>0, <2>1, OpFacts
  <2>3. PICK x \in Sessions : x = p.session
    BY <2>1 DEF Base, Named, Setting
  <2>4. /\ x[1] = s /\ x[2] = c /\ media[s] = x /\ sess[x] = "new"
        /\ caller[c] = {Other(s)}
    BY <2>1, <2>2, <2>3 DEF OpFits, AnsweringFits, Offer
  <2>5. /\ sess' = [sess EXCEPT ![x] = "checking"]
        /\ Become(s, "connecting", c) /\ Await(s, o, "answer") /\ UNCHANGED <<media, caller>>
    BY <1>4, <2>1, <2>2, <2>3, <2>4 DEF AnswerReady, Ghosts
  <2>6. /\ "connecting" \in Phases /\ "answer" \in OpKinds /\ c # NoCall
        /\ p.kind # "none" /\ Op("answer", c, x) \in Ops
        /\ Op("answer", c, x).kind = "answer" /\ Op("answer", c, x).call = c
        /\ Op("answer", c, x).session = x
    BY <2>1 DEF Phases, OpKinds, Calls, NoCall, Op, Ops
  <2>7. /\ state'[s] = [phase |-> "connecting", call |-> c]
        /\ \A t \in Sides : t # s => state'[t] = state[t]
    BY <1>0, <2>5, <2>6, BecomeEffect
  <2>8. OpBecomes(s, o, Op("answer", c, x))
    BY <1>0, <2>1, <2>2, <2>3, <2>5, <2>6, AwaitEffect
  <2>9. /\ sess'[x] = "checking" /\ \A y \in Sessions : y # x => sess'[y] = sess[y]
    BY <1>0, <2>5 DEF TypeOK
  <2>10. OpFits(s, Op("answer", c, x))'
    <3>1. PICK q \in Ops : q = Op("answer", c, x)
      BY <2>6
    <3>2. AnswerFits(s, q)'
      BY <2>4, <2>5, <2>6, <2>7, <2>9, <3>1, SessionsAreTriples
         DEF AnswerFits, Live, In, Other, NoMedia
    <3>3. OpFits(s, q)'
      BY <2>6, <3>1, <3>2 DEF OpFits
    <3> QED
      BY <3>1, <3>3 DEF Op
  <2>11. OpsFit(s)'
    <3>1. \A q \in Slots : q # o => op[s][q] = NoOp
      BY <2>1, NoOpIsOp DEF SideFits, OpsFit, MayRunBeside
    <3> QED
      BY <1>0, <2>6, <2>8, <2>10, <3>1, FirstOp
  <2>12. MediaFits(s)'
    <3>1. \A y \in Open' : y[1] = s => y = x
      BY <2>4, <2>9 DEF Open, SideFits, MediaFits
    <3> QED
      BY <2>4, <2>5, <2>7, <2>9, <3>1 DEF MediaFits, In, NoMedia
  <2>13. RingFits(s)'
    BY <2>4, <2>5, <2>7, <2>9 DEF RingFits, Offer
  <2>14. ASSUME NEW t \in Sides, t # s, SideFits(t) PROVE SideFits(t)'
    <3>1. media'[t] = media[t] /\ op'[t] = op[t] /\ state'[t] = state[t] /\ CallersKept
      BY <2>5, <2>7, <2>8, <2>14 DEF OpBecomes, CallersKept
    <3>2. \A y \in Sessions : y[1] = t => sess'[y] = sess[y]
      BY <2>4, <2>9, <2>14, SessionsAreTriples
    <3> QED
      BY <1>0, <2>14, <3>1, <3>2, SideFrame
  <2> QED
    BY <2>11, <2>12, <2>13, <2>14 DEF SideFits
<1>5. CASE AnswerSent(s, o)
  <2>1. /\ Return(s, o) /\ UNCHANGED <<state, media, sess, caller>>
        /\ op[s][o].kind \in {"request", "answer"}
    BY <1>5 DEF AnswerSent, Ghosts
  <2>2. OpBecomes(s, o, NoOp)
    BY <1>0, <2>1, ReturnEffect
  <2>3. SideFits(s)'
    BY <1>0, <2>1, <2>2, ReturnOnly
  <2>4. ASSUME NEW t \in Sides, t # s, SideFits(t) PROVE SideFits(t)'
    <3>1. media'[t] = media[t] /\ op'[t] = op[t] /\ state'[t] = state[t] /\ CallersKept
      BY <2>1, <2>2, <2>4 DEF OpBecomes, CallersKept
    <3>2. \A y \in Sessions : y[1] = t => sess'[y] = sess[y]
      BY <2>1, <2>4, SessionsAreTriples
    <3> QED
      BY <1>0, <2>4, <3>1, <3>2, SideFrame
  <2> QED
    BY <2>3, <2>4
<1>6. CASE GiveUpReturns(s, o)
  <2>1. /\ op[s][o].kind \in {"cancel", "decline"} /\ End(s) /\ Return(s, o)
        /\ UNCHANGED <<media, sess, caller>>
    BY <1>6 DEF GiveUpReturns, Ghosts
  <2>2. OpBecomes(s, o, NoOp)
    BY <1>0, <2>1, ReturnEffect
  <2>3. media[s] = NoMedia
    BY <2>1 DEF SideFits, OpsFit, OpFits, CancelFits, DeclineFits
  <2>4. Dropped(s)
    BY <1>0, <2>1, <2>3, SessionsAreTriples DEF Dropped, TypeOK
  <2>5. /\ state'[s] = [phase |-> "ended", call |-> NoCall]
        /\ \A t \in Sides : t # s => state'[t] = state[t]
    BY <1>0, <2>1, EndEffect
  <2>6. \A q \in Slots : op'[s][q] = NoOp
          \/ (op'[s][q] = op[s][q] /\ op[s][q].kind \notin {"offer", "answering"})
    BY <2>1, <2>2, NoOpIsOp DEF OpBecomes, SideFits, OpsFit, MayRunBeside
  <2>7. SideFits(s)'
    BY <1>0, <2>1, <2>4, <2>5, <2>6, DropEnd
  <2>8. ASSUME NEW t \in Sides, t # s, SideFits(t) PROVE SideFits(t)'
    <3>1. media'[t] = media[t] /\ op'[t] = op[t] /\ state'[t] = state[t] /\ CallersKept
      BY <2>1, <2>2, <2>5, <2>8 DEF OpBecomes, CallersKept
    <3>2. \A y \in Sessions : y[1] = t => sess'[y] = sess[y]
      BY <2>1, <2>8, SessionsAreTriples
    <3> QED
      BY <1>0, <2>8, <3>1, <3>2, SideFrame
  <2> QED
    BY <2>7, <2>8
<1>7. CASE StartReturns(s, o)
  <2>1. /\ op[s][o].kind = "start" /\ Return(s, o) /\ UNCHANGED <<state, media, caller>>
    BY <1>7 DEF StartReturns, Ghosts
  <2>2. OpBecomes(s, o, NoOp)
    BY <1>0, <2>1, ReturnEffect
  <2>3. CASE op[s][o].session = NoMedia /\ UNCHANGED sess
    <3>1. SideFits(s)'
      BY <1>0, <2>1, <2>2, <2>3, ReturnOnly
    <3>2. ASSUME NEW t \in Sides, t # s, SideFits(t) PROVE SideFits(t)'
      <4>1. media'[t] = media[t] /\ op'[t] = op[t] /\ state'[t] = state[t] /\ CallersKept
        BY <2>1, <2>2, <3>2 DEF OpBecomes, CallersKept
      <4> QED
        BY <1>0, <2>3, <3>2, <4>1, SideFrame
    <3> QED
      BY <3>1, <3>2
  <2>4. CASE op[s][o].session # NoMedia
    <3>1. PICK x \in Sessions : x = op[s][o].session
      BY <1>0, <2>4, OpFacts DEF Ops
    <3>2. sess[x] = "offered" /\ sess' = [sess EXCEPT ![x] = "checking"]
      BY <1>7, <2>4, <3>1 DEF StartReturns
    <3>3. PICK c \in Calls : c = op[s][o].call
      BY <1>0, <2>1, OpFacts
    <3>4. /\ x = Offer(s, c) /\ x[1] = s /\ x[2] = c
          /\ media[s] = x /\ In(s, "connecting", c)
      <4>1. StartFits(s, op[s][o])
        BY <2>1 DEF SideFits, OpsFit, OpFits
      <4> QED
        BY <2>4, <3>1, <3>2, <3>3, <4>1 DEF StartFits, Offer
    <3>5. sess'[x] = "checking" /\ \A y \in Sessions : y # x => sess'[y] = sess[y]
      BY <1>0, <3>2 DEF TypeOK
    <3>6. ASSUME NEW q \in Slots PROVE OpFits(s, op[s][q])'
      <4>1. CASE q = o
        <5>1. op'[s][q] = NoOp
          BY <2>2, <4>1 DEF OpBecomes
        <5> QED
          BY <5>1, NoOpIsOp DEF OpFits
      <4>2. CASE q # o
        <5>1. PICK p \in Ops : p = op[s][q] /\ op'[s][q] = p
          BY <1>0, <2>2, <4>2, OpFacts DEF OpBecomes
        <5>2. OpFits(s, p) /\ p.kind \in {"none", "request", "cancel"}
          BY <2>1, <4>2, <5>1, NoOpIsOp DEF SideFits, OpsFit, MayRunBeside
        <5>3. p.kind # "cancel"
          BY <3>4, <5>2, SessionsAreTriples DEF OpFits, CancelFits
        <5>4. p.kind = "request" => RequestFits(s, p)'
          BY <2>1, <5>2 DEF OpFits, RequestFits, Live, Over, In
        <5>5. OpFits(s, p)'
          BY <5>2, <5>3, <5>4 DEF OpFits, NoOp, NoCall, NoMedia
        <5> QED
          BY <5>1, <5>5, OpFitsThen
      <4> QED
        BY <4>1, <4>2
    <3>7. OpsFit(s)'
      <4>1. \A q \in Slots : op'[s][q] = NoOp \/ op'[s][q] = op[s][q]
        BY <2>2 DEF OpBecomes
      <4> QED
        BY <3>6, <4>1 DEF SideFits, OpsFit, MayRunBeside, NoOp, NoCall, NoMedia
    <3>8. MediaFits(s)'
      <4>1. \A y \in Open' : y[1] = s => y = x
        BY <3>4, <3>5 DEF Open, SideFits, MediaFits
      <4> QED
        BY <2>1, <3>4, <3>5, <4>1 DEF MediaFits, In, NoMedia
    <3>9. RingFits(s)'
      BY <2>1, <3>4 DEF RingFits, In
    <3>10. ASSUME NEW t \in Sides, t # s, SideFits(t) PROVE SideFits(t)'
      <4>1. media'[t] = media[t] /\ op'[t] = op[t] /\ state'[t] = state[t] /\ CallersKept
        BY <2>1, <2>2, <3>10 DEF OpBecomes, CallersKept
      <4>2. \A y \in Sessions : y[1] = t => sess'[y] = sess[y]
        BY <3>4, <3>5, <3>10
      <4> QED
        BY <1>0, <3>10, <4>1, <4>2, SideFrame
    <3> QED
      BY <3>7, <3>8, <3>9, <3>10 DEF SideFits
  <2> QED
    BY <1>7, <2>3, <2>4 DEF StartReturns
<1>8. CASE StartThrows(s, o)
  <2>1. TeardownMedia(s) /\ End(s) /\ Return(s, o) /\ UNCHANGED caller
        /\ op[s][o].kind \in {"start"}
    BY <1>8 DEF StartThrows, Ghosts
  <2>2. Dropped(s) /\ OpBecomes(s, o, NoOp)
    BY <1>0, <2>1, TeardownEffect, ReturnEffect
  <2>3. /\ state'[s] = [phase |-> "ended", call |-> NoCall]
        /\ \A t \in Sides : t # s => state'[t] = state[t]
    BY <1>0, <2>1, EndEffect
  <2>4. \A q \in Slots : op'[s][q] = NoOp
          \/ (op'[s][q] = op[s][q] /\ op[s][q].kind \notin {"offer", "answering"})
    BY <2>1, <2>2, NoOpIsOp DEF OpBecomes, SideFits, OpsFit, MayRunBeside
  <2>5. SideFits(s)'
    BY <1>0, <2>1, <2>2, <2>3, <2>4, DropEnd
  <2>6. media[s] # NoMedia => media[s][1] = s
    BY DEF SideFits, MediaFits
  <2>7. ASSUME NEW t \in Sides, t # s, SideFits(t) PROVE SideFits(t)'
    <3>1. media'[t] = media[t] /\ op'[t] = op[t] /\ state'[t] = state[t] /\ CallersKept
      BY <2>1, <2>2, <2>3, <2>7 DEF Dropped, OpBecomes, CallersKept
    <3>2. \A y \in Sessions : y[1] = t => sess'[y] = sess[y]
      BY <2>2, <2>6, <2>7, SessionsAreTriples DEF Dropped
    <3> QED
      BY <1>0, <2>7, <3>1, <3>2, SideFrame
  <2> QED
    BY <2>5, <2>7
<1> QED
  BY <1>1, <1>2, <1>3, <1>4, <1>5, <1>6, <1>7, <1>8 DEF Resume

LEMMA SideSends ==
    ASSUME CallAssumption, Base, Base', NEW s \in Sides, SideFits(s), NEW o \in Slots,
           SignalLeaves(s, o)
    PROVE  /\ SideFits(s)'
           /\ \A t \in Sides : t # s /\ SideFits(t) => SideFits(t)'
<1>0. TypeOK /\ TypeOK'
  BY DEF Base
<1>1. /\ op[s][o].kind \in Sending /\ op' = [op EXCEPT ![s][o].sent = TRUE]
      /\ UNCHANGED <<state, media, sess, caller>>
  BY DEF SignalLeaves, Ghosts
<1>2. op[s][o].kind # "none"
  BY <1>1 DEF Sending
<1>3. PICK p \in Ops : /\ OpBecomes(s, o, p) /\ p.kind = op[s][o].kind
                       /\ p.call = op[s][o].call /\ p.session = op[s][o].session
  <2>1. OpBecomes(s, o, [op[s][o] EXCEPT !.sent = TRUE])
        /\ op'[s][o].kind = op[s][o].kind /\ op'[s][o].call = op[s][o].call
        /\ op'[s][o].session = op[s][o].session
    BY <1>0, <1>1, <1>2, SentEffect
  <2>2. op'[s][o] \in Ops /\ op'[s][o] = [op[s][o] EXCEPT !.sent = TRUE]
    BY <2>1 DEF OpBecomes
  <2> QED
    BY <2>1, <2>2
<1>4. CallersKept
  BY <1>1 DEF CallersKept
<1>5. ASSUME NEW q \in Slots PROVE OpFits(s, op[s][q])'
  <2>1. CASE q = o
    <3>1. OpFits(s, op[s][o]) /\ (p.kind # "none" => p.call \in Calls)
      BY <1>0, <1>3, OpFacts DEF SideFits, OpsFit
    <3>2. OpFits(s, p)
      BY <1>1, <1>3, <3>1 DEF Sending, OpFits, RequestFits, AnswerFits, CancelFits,
         DeclineFits
    <3>3. OpFits(s, p)'
      BY <1>0, <1>1, <1>4, <3>1, <3>2, OpFitsFrame
    <3> QED
      BY <1>3, <2>1, <3>3, OpFitsThen DEF OpBecomes
  <2>2. CASE q # o
    <3>1. PICK r \in Ops : r = op[s][q] /\ op'[s][q] = r
      BY <1>0, <1>3, <2>2, OpFacts DEF OpBecomes
    <3>2. OpFits(s, r) /\ (r.kind # "none" => r.call \in Calls)
      BY <1>0, <3>1, OpFacts DEF SideFits, OpsFit
    <3>3. OpFits(s, r)'
      BY <1>0, <1>1, <1>4, <3>2, OpFitsFrame
    <3> QED
      BY <3>1, <3>3, OpFitsThen
  <2> QED
    BY <2>1, <2>2
<1>6. \A q \in Slots : /\ op'[s][q].kind = op[s][q].kind
                       /\ op'[s][q].session = op[s][q].session
                       /\ q # o => op'[s][q] = op[s][q]
  BY <1>3 DEF OpBecomes
<1>7. OpsFit(s)'
  <2> SUFFICES ASSUME NEW q \in Slots, NEW r \in Slots, q # r,
                      op'[s][q] # NoOp, op'[s][r] # NoOp
               PROVE  MayRunBeside(op[s][q], op[s][r])'
    BY <1>5 DEF OpsFit, NoOp, NoCall, NoMedia
  <2>1. op[s][q] # NoOp /\ op[s][r] # NoOp
    BY <1>2, <1>6, NoOpIsOp
  <2>2. MayRunBeside(op[s][q], op[s][r])
    BY <2>1 DEF SideFits, OpsFit
  <2> QED
    BY <1>6, <2>2 DEF MayRunBeside
<1>8. MediaFits(s)'
  <2>1. Open' = Open
    BY <1>1 DEF Open
  <2> QED
    BY <1>1, <1>6, <2>1 DEF SideFits, MediaFits, In, NoMedia
<1>9. RingFits(s)'
  BY <1>1, <1>6 DEF SideFits, RingFits, Offer, Other, NoMedia
<1>10. ASSUME NEW t \in Sides, t # s, SideFits(t) PROVE SideFits(t)'
  <2>1. op'[t] = op[t]
    BY <1>3, <1>10 DEF OpBecomes
  <2> QED
    BY <1>0, <1>1, <1>4, <1>10, <2>1, SideFrame
<1> QED
  BY <1>7, <1>8, <1>9, <1>10 DEF SideFits

\* A ring comes up on an idle side, or goes away before it was accepted.
LEMMA RingStep ==
    ASSUME CallAssumption, TypeOK, TypeOK', NEW s \in Sides, SideFits(s),
           \/ /\ state[s].phase = "idle" /\ state'[s].phase = "incoming"
              /\ caller[state'[s].call] = {Other(s)}
           \/ /\ state[s].phase = "incoming"
              /\ state'[s] = [phase |-> "ended", call |-> NoCall],
           op'[s] = op[s], UNCHANGED <<media, sess, caller>>
    PROVE  SideFits(s)'
<1>1. ASSUME NEW q \in Slots PROVE OpFits(s, op[s][q])'
  <2>1. PICK p \in Ops : p = op[s][q] /\ op'[s][q] = p
    BY OpFacts
  <2>2. OpFits(s, p)
    BY <2>1 DEF SideFits, OpsFit
  <2>3. p.kind \in {"none", "offer", "answering", "decline"}
    BY <2>2 DEF Ops, OpKinds, OpFits, RequestFits, AnswerFits, CancelFits, StartFits,
       Live, Over, In
  <2>4. p.kind = "offer" => OfferFits(s, p)'
    BY <2>2 DEF OpFits, OfferFits, Offer
  <2>5. p.kind = "answering" => AnsweringFits(s, p)'
    BY <2>2 DEF OpFits, AnsweringFits, Over, In, Other, NoMedia
  <2>6. p.kind = "decline" => DeclineFits(s, p)'
    BY <2>2 DEF OpFits, DeclineFits, Over, In, Other, NoMedia
  <2>7. OpFits(s, p)'
    BY <2>2, <2>3, <2>4, <2>5, <2>6 DEF OpFits, NoOp, NoCall, NoMedia
  <2> QED
    BY <2>1, <2>7, OpFitsThen
<1>2. OpsFit(s)'
  BY <1>1 DEF SideFits, OpsFit, MayRunBeside, NoOp, NoCall, NoMedia
<1>3. MediaFits(s)'
  <2>1. Open' = Open
    BY DEF Open
  <2>2. media[s] # NoMedia =>
          /\ media[s][1] = s /\ sess[media[s]] = "new"
          /\ \E o \in Slots : /\ op[s][o].kind \in {"offer", "answering"}
                              /\ op[s][o].session = media[s]
    BY DEF SideFits, MediaFits, In
  <2> QED
    BY <2>1, <2>2 DEF SideFits, MediaFits, NoMedia
<1>4. RingFits(s)'
  BY DEF RingFits, Other
<1> QED
  BY <1>2, <1>3, <1>4 DEF SideFits

LEMMA SideInbound ==
    ASSUME CallAssumption, Base, Base', NetFits, NEW m \in net, Inbound(m),
           NEW s \in Sides, s = m.to, NEW c \in Calls, c = m.call, SideFits(s)
    PROVE  /\ SideFits(s)'
           /\ \A t \in Sides : t # s /\ SideFits(t) => SideFits(t)'
<1>0. TypeOK /\ TypeOK'
  BY DEF Base
<1>1. CASE InboundRing(m)
  <2>1. /\ IsIdle(s) /\ Become(s, "incoming", c) /\ m.kind = "request"
        /\ UNCHANGED <<media, op, sess, caller>>
    BY <1>1 DEF InboundRing, Arrives, Ghosts
  <2>2. "incoming" \in Phases /\ c # NoCall
    BY DEF Phases, Calls, NoCall
  <2>3. /\ state'[s] = [phase |-> "incoming", call |-> c]
        /\ \A t \in Sides : t # s => state'[t] = state[t]
    BY <1>0, <2>1, <2>2, BecomeEffect
  <2>4. state[s].phase = "idle" /\ caller[state'[s].call] = {Other(s)}
    BY <2>1, <2>3 DEF IsIdle, In, NetFits, MessageFits
  <2>5. SideFits(s)'
    BY <1>0, <2>1, <2>3, <2>4, RingStep
  <2>6. ASSUME NEW t \in Sides, t # s, SideFits(t) PROVE SideFits(t)'
    <3>1. media'[t] = media[t] /\ op'[t] = op[t] /\ state'[t] = state[t] /\ CallersKept
      BY <2>1, <2>3, <2>6 DEF CallersKept
    <3>2. \A y \in Sessions : y[1] = t => sess'[y] = sess[y]
      BY <2>1, <2>6, SessionsAreTriples
    <3> QED
      BY <1>0, <2>6, <3>1, <3>2, SideFrame
  <2> QED
    BY <2>5, <2>6
<1>2. CASE InboundDeclined(m)
  <2>1. /\ In(s, "outgoing", c) /\ TeardownMedia(s) /\ End(s) /\ UNCHANGED <<op, caller>>
    BY <1>2 DEF InboundDeclined, Ghosts
  <2>2. Dropped(s)
    BY <1>0, <2>1, TeardownEffect
  <2>3. /\ state'[s] = [phase |-> "ended", call |-> NoCall]
        /\ \A t \in Sides : t # s => state'[t] = state[t]
    BY <1>0, <2>1, EndEffect
  <2>4. \A q \in Slots : op'[s][q] = op[s][q] /\ op[s][q].kind \notin {"offer", "answering"}
    <3> SUFFICES ASSUME NEW q \in Slots
                 PROVE  op'[s][q] = op[s][q] /\ op[s][q].kind \notin {"offer", "answering"}
      OBVIOUS
    <3>1. OpFits(s, op[s][q])
      BY DEF SideFits, OpsFit
    <3> QED
      BY <2>1, <3>1 DEF OpFits, OfferFits, AnsweringFits, Over, In
  <2>5. SideFits(s)'
    BY <1>0, <2>1, <2>2, <2>3, <2>4, DropEnd
  <2>6. media[s] # NoMedia => media[s][1] = s
    BY DEF SideFits, MediaFits
  <2>7. ASSUME NEW t \in Sides, t # s, SideFits(t) PROVE SideFits(t)'
    <3>1. media'[t] = media[t] /\ op'[t] = op[t] /\ state'[t] = state[t] /\ CallersKept
      BY <2>1, <2>2, <2>3, <2>7 DEF Dropped, CallersKept
    <3>2. \A y \in Sessions : y[1] = t => sess'[y] = sess[y]
      BY <2>2, <2>6, <2>7, SessionsAreTriples DEF Dropped
    <3> QED
      BY <1>0, <2>7, <3>1, <3>2, SideFrame
  <2> QED
    BY <2>5, <2>7
<1>3. CASE InboundCancelled(m)
  <2>1. /\ In(s, "incoming", c) /\ End(s) /\ UNCHANGED <<media, op, sess, caller>>
    BY <1>3 DEF InboundCancelled
  <2>2. /\ state'[s] = [phase |-> "ended", call |-> NoCall]
        /\ \A t \in Sides : t # s => state'[t] = state[t]
    BY <1>0, <2>1, EndEffect
  <2>3. state[s].phase = "incoming"
    BY <2>1 DEF In
  <2>4. SideFits(s)'
    BY <1>0, <2>1, <2>2, <2>3, RingStep
  <2>5. ASSUME NEW t \in Sides, t # s, SideFits(t) PROVE SideFits(t)'
    <3>1. media'[t] = media[t] /\ op'[t] = op[t] /\ state'[t] = state[t] /\ CallersKept
      BY <2>1, <2>2, <2>5 DEF CallersKept
    <3>2. \A y \in Sessions : y[1] = t => sess'[y] = sess[y]
      BY <2>1, <2>5, SessionsAreTriples
    <3> QED
      BY <1>0, <2>5, <3>1, <3>2, SideFrame
  <2> QED
    BY <2>4, <2>5
<1>4. CASE InboundStale(m) \/ InboundBusy(m)
  <2>1. UNCHANGED <<state, media, op, sess, caller>>
    BY <1>4 DEF InboundStale, InboundBusy, Ghosts
  <2>2. CallersKept
    BY <2>1 DEF CallersKept
  <2> QED
    BY <1>0, <2>1, <2>2, SideFrame
<1>5. CASE InboundAnswer(m)
  <2>1. /\ In(s, "outgoing", c) /\ Become(s, "connecting", c)
        /\ Begin(s, "start", c, media[s]) /\ UNCHANGED <<media, sess, caller>>
    BY <1>5 DEF InboundAnswer, Ghosts
  <2>2. PICK x \in Sessions \cup {NoMedia} : x = media[s]
    BY <1>0 DEF TypeOK
  <2>3. "connecting" \in Phases /\ "start" \in OpKinds /\ c # NoCall
    BY DEF Phases, OpKinds, Calls, NoCall
  <2>4. /\ state'[s] = [phase |-> "connecting", call |-> c]
        /\ \A t \in Sides : t # s => state'[t] = state[t]
    BY <1>0, <2>1, <2>3, BecomeEffect
  <2>a. /\ Op("start", c, x) \in Ops /\ Op("start", c, x).kind = "start"
        /\ Op("start", c, x).call = c /\ Op("start", c, x).session = x
    BY <2>2, <2>3 DEF Op, Ops
  <2>5. PICK p \in Ops : p = Op("start", c, x) /\ p.kind = "start" /\ p.call = c
                         /\ p.session = x
    BY <2>a
  <2>6. PICK o \in Slots : op[s][o] = NoOp /\ OpBecomes(s, o, p)
    BY <1>0, <2>1, <2>2, <2>3, <2>5, BeginEffect
  <2>7. /\ caller[c] = {s} /\ media'[s] = x
        /\ \/ x = Offer(s, c) /\ sess[x] = "offered"
           \/ x = NoMedia
    BY <2>1, <2>2 DEF SideFits, RingFits, In
  <2>8. OpFits(s, p)'
    <3>1. StartFits(s, p)'
      BY <2>1, <2>4, <2>5, <2>7 DEF StartFits, In, Offer, NoMedia
    <3> QED
      BY <2>5, <3>1 DEF OpFits
  <2>9. ASSUME NEW q \in Slots, q # o
        PROVE  /\ OpFits(s, op[s][q])' /\ op'[s][q] = op[s][q]
               /\ op[s][q].kind \in {"none", "request", "cancel"}
    <3>1. PICK r \in Ops : r = op[s][q] /\ op'[s][q] = r
      BY <1>0, <2>6, <2>9, OpFacts DEF OpBecomes
    <3>2. OpFits(s, r)
      BY <3>1 DEF SideFits, OpsFit
    <3>3. r.kind \in {"none", "request", "cancel"}
      BY <2>1, <3>2 DEF Ops, OpKinds, OpFits, OfferFits, AnsweringFits, AnswerFits,
         DeclineFits, StartFits, Live, Over, In
    <3>4. r.kind = "request" => RequestFits(s, r)'
      BY <2>1, <2>4, <3>2 DEF OpFits, RequestFits, Live, Over, In
    <3>5. r.kind = "cancel" => CancelFits(s, r)'
      BY <2>1, <2>4, <3>2 DEF OpFits, CancelFits, Over, In, Offer, NoMedia
    <3>6. OpFits(s, r)'
      BY <3>2, <3>3, <3>4, <3>5 DEF OpFits, NoOp, NoCall, NoMedia
    <3> QED
      BY <3>1, <3>3, <3>6, OpFitsThen
  <2>10. op'[s][o] = p
    BY <2>6 DEF OpBecomes
  <2>11. OpsFit(s)'
    <3>1. ASSUME NEW q \in Slots PROVE OpFits(s, op[s][q])'
      BY <2>8, <2>9, <2>10, OpFitsThen
    <3>2. ASSUME NEW q \in Slots, NEW r \in Slots, q # r, op'[s][q] # NoOp,
                 op'[s][r] # NoOp
          PROVE  MayRunBeside(op[s][q], op[s][r])'
      <4>1. CASE q = o
        <5>1. OpFits(s, op[s][r]) /\ op'[s][r] = op[s][r]
              /\ op[s][r].kind \in {"none", "request", "cancel"}
          BY <2>9, <3>2, <4>1 DEF SideFits, OpsFit
        <5> QED
          BY <2>5, <2>10, <3>2, <4>1, <5>1 DEF MayRunBeside, OpFits
      <4>2. CASE r = o
        <5>1. OpFits(s, op[s][q]) /\ op'[s][q] = op[s][q]
              /\ op[s][q].kind \in {"none", "request", "cancel"}
          BY <2>9, <3>2, <4>2 DEF SideFits, OpsFit
        <5> QED
          BY <2>5, <2>10, <3>2, <4>2, <5>1 DEF MayRunBeside, OpFits
      <4>3. CASE q # o /\ r # o
        <5>1. op'[s][q] = op[s][q] /\ op'[s][r] = op[s][r]
          BY <2>9, <4>3
        <5>2. MayRunBeside(op[s][q], op[s][r])
          BY <3>2, <5>1 DEF SideFits, OpsFit
        <5> QED
          BY <5>1, <5>2 DEF MayRunBeside
      <4> QED
        BY <4>1, <4>2, <4>3
    <3> QED
      BY <3>1, <3>2 DEF OpsFit, NoOp, NoCall, NoMedia
  <2>12. MediaFits(s)'
    <3>1. Open' = Open
      BY <2>1 DEF Open
    <3>2. op'[s][o].kind = "start" /\ op'[s][o].session = x
      BY <2>5, <2>10
    <3>3. media'[s] # NoMedia => /\ media'[s][1] = s /\ media'[s][2] = c
                                 /\ sess'[media'[s]] = "offered"
      BY <2>1, <2>7 DEF Offer
    <3>4. \A y \in Open : y[1] = s => media'[s] = y
      BY <2>1 DEF SideFits, MediaFits
    <3> QED
      BY <2>4, <2>7, <3>1, <3>2, <3>3, <3>4 DEF MediaFits, In, NoMedia
  <2>13. RingFits(s)'
    BY <2>4 DEF RingFits
  <2>14. ASSUME NEW t \in Sides, t # s, SideFits(t) PROVE SideFits(t)'
    <3>1. media'[t] = media[t] /\ op'[t] = op[t] /\ state'[t] = state[t] /\ CallersKept
      BY <2>1, <2>4, <2>6, <2>14 DEF OpBecomes, CallersKept
    <3>2. \A y \in Sessions : y[1] = t => sess'[y] = sess[y]
      BY <2>1, <2>14, SessionsAreTriples
    <3> QED
      BY <1>0, <2>14, <3>1, <3>2, SideFrame
  <2> QED
    BY <2>11, <2>12, <2>13, <2>14 DEF SideFits
<1> QED
  BY <1>1, <1>2, <1>3, <1>4, <1>5 DEF Inbound

LEMMA SideTimer ==
    ASSUME CallAssumption, Base, Base', NEW s \in Sides, SideFits(s), RingTimerFires(s)
    PROVE  /\ SideFits(s)'
           /\ \A t \in Sides : t # s /\ SideFits(t) => SideFits(t)'
<1>0. TypeOK /\ TypeOK'
  BY DEF Base
<1>1. CASE ~Ringing(s, timer[s])
  <2>1. UNCHANGED <<state, media, op, sess, caller>>
    BY <1>1 DEF RingTimerFires
  <2>2. CallersKept
    BY <2>1 DEF CallersKept
  <2> QED
    BY <1>0, <2>1, <2>2, SideFrame
<1>2. CASE Ringing(s, timer[s])
  <2>1. /\ ~Gathering(s) /\ TeardownMedia(s) /\ End(s) /\ UNCHANGED <<op, caller>>
    BY <1>2 DEF RingTimerFires
  <2>2. Dropped(s)
    BY <1>0, <2>1, TeardownEffect
  <2>3. /\ state'[s] = [phase |-> "ended", call |-> NoCall]
        /\ \A t \in Sides : t # s => state'[t] = state[t]
    BY <1>0, <2>1, EndEffect
  <2>4. \A q \in Slots : op'[s][q] = op[s][q] /\ op[s][q].kind \notin {"offer", "answering"}
    BY <2>1 DEF Gathering
  <2>5. SideFits(s)'
    BY <1>0, <2>1, <2>2, <2>3, <2>4, DropEnd
  <2>6. media[s] # NoMedia => media[s][1] = s
    BY DEF SideFits, MediaFits
  <2>7. ASSUME NEW t \in Sides, t # s, SideFits(t) PROVE SideFits(t)'
    <3>1. media'[t] = media[t] /\ op'[t] = op[t] /\ state'[t] = state[t] /\ CallersKept
      BY <2>1, <2>2, <2>3, <2>7 DEF Dropped, CallersKept
    <3>2. \A y \in Sessions : y[1] = t => sess'[y] = sess[y]
      BY <2>2, <2>6, <2>7, SessionsAreTriples DEF Dropped
    <3> QED
      BY <1>0, <2>7, <3>1, <3>2, SideFrame
  <2> QED
    BY <2>5, <2>7
<1> QED
  BY <1>1, <1>2

\* A session that ICE reports on is the side's current one, and the state its
\* callback expects is the state the side is in.
LEMMA ReportedIsCurrent ==
    ASSUME TypeOK, NEW x \in Sessions, NEW s \in Sides, x[1] = s, SideFits(s),
           sess[x] \in {"checking", "connected"}
    PROVE  /\ media[s] = x /\ x # NoMedia
           /\ sess[x] = "checking" => In(s, "connecting", x[2])
           /\ sess[x] = "connected" => In(s, "active", x[2])
<1>1. x \in Open
  BY DEF Open
<1>2. media[s] = x /\ x # NoMedia
  BY <1>1, SessionsAreTriples DEF SideFits, MediaFits
<1> QED
  BY <1>2 DEF SideFits, MediaFits

LEMMA SideConnects ==
    ASSUME CallAssumption, Base, Base', NEW x \in Sessions, NEW s \in Sides, x[1] = s,
           SideFits(s), MediaConnects(x)
    PROVE  /\ SideFits(s)'
           /\ \A t \in Sides : t # s /\ SideFits(t) => SideFits(t)'
<1>0. TypeOK /\ TypeOK'
  BY DEF Base
<1>1. sess[x] = "checking"
  BY DEF MediaConnects
<1>2. media[s] = x /\ x # NoMedia /\ In(s, "connecting", x[2])
  BY <1>0, <1>1, ReportedIsCurrent
<1>3. PICK c \in Calls : c = x[2]
  BY SessionsAreTriples
<1>4. /\ sess' = [sess EXCEPT ![x] = "connected"] /\ Become(s, "active", c)
      /\ UNCHANGED <<media, op, caller>>
  BY <1>2, <1>3 DEF MediaConnects
<1>5. "active" \in Phases /\ c # NoCall
  BY DEF Phases, Calls, NoCall
<1>6. /\ state'[s] = [phase |-> "active", call |-> c]
      /\ \A t \in Sides : t # s => state'[t] = state[t]
  BY <1>0, <1>4, <1>5, BecomeEffect
<1>7. sess'[x] = "connected" /\ \A y \in Sessions : y # x => sess'[y] = sess[y]
  BY <1>0, <1>4 DEF TypeOK
<1>8. ASSUME NEW q \in Slots PROVE OpFits(s, op[s][q])'
  <2>1. PICK p \in Ops : p = op[s][q] /\ op'[s][q] = p
    BY <1>0, <1>4, OpFacts
  <2>2. OpFits(s, p)
    BY <2>1 DEF SideFits, OpsFit
  <2>3. p.kind \in {"none", "request", "answer"}
    <3>1. p.kind # "start"
      BY <1>1, <1>2, <2>2 DEF OpFits, StartFits, Over, In
    <3> QED
      BY <1>2, <2>2, <3>1 DEF Ops, OpKinds, OpFits, OfferFits, AnsweringFits,
         CancelFits, DeclineFits, Over, In
  <2>4. p.kind = "request" => RequestFits(s, p)'
    BY <1>2, <1>3, <1>4, <1>6, <2>2 DEF OpFits, RequestFits, Live, Over, In
  <2>5. p.kind = "answer" => AnswerFits(s, p)'
    BY <1>2, <1>3, <1>4, <1>6, <2>2 DEF OpFits, AnswerFits, Live, Over, In, Other
  <2>6. OpFits(s, p)'
    BY <2>2, <2>3, <2>4, <2>5 DEF OpFits, NoOp, NoCall, NoMedia
  <2> QED
    BY <2>1, <2>6, OpFitsThen
<1>9. OpsFit(s)'
  BY <1>4, <1>8 DEF SideFits, OpsFit, MayRunBeside, NoOp, NoCall, NoMedia
<1>10. MediaFits(s)'
  <2>1. \A y \in Open' : y[1] = s => y = x
    BY <1>2, <1>7 DEF Open, SideFits, MediaFits
  <2> QED
    BY <1>2, <1>3, <1>4, <1>6, <1>7, <2>1 DEF MediaFits, In, NoMedia
<1>11. RingFits(s)'
  BY <1>6 DEF RingFits
<1>12. ASSUME NEW t \in Sides, t # s, SideFits(t) PROVE SideFits(t)'
  <2>1. media'[t] = media[t] /\ op'[t] = op[t] /\ state'[t] = state[t] /\ CallersKept
    BY <1>4, <1>6, <1>12 DEF CallersKept
  <2>2. \A y \in Sessions : y[1] = t => sess'[y] = sess[y]
    BY <1>7, <1>12
  <2> QED
    BY <1>0, <1>12, <2>1, <2>2, SideFrame
<1> QED
  BY <1>9, <1>10, <1>11, <1>12 DEF SideFits

\* A terminal callback of the session closes it: it is the current one.
LEMMA EndsDrop ==
    ASSUME CallAssumption, Base, NEW x \in Sessions, NEW s \in Sides, x[1] = s,
           SideFits(s), MediaFails(x) \/ MediaRemoteEnded(x)
    PROVE  /\ Dropped(s) /\ End(s) /\ media[s] = x
           /\ In(s, "connecting", x[2]) \/ In(s, "active", x[2])
           /\ UNCHANGED <<timer, op, net, answered, caller, taps, missed, talked>>
<1>0. TypeOK
  BY DEF Base
<1>1. PICK phases \in SUBSET {"connecting", "active"} :
        /\ MediaEnds(x, phases)
        /\ \/ sess[x] = "checking" /\ "connecting" \in phases
           \/ sess[x] = "connected" /\ "active" \in phases
        /\ UNCHANGED <<timer, op, net, answered, caller, taps, missed, talked>>
  <2>1. CASE MediaFails(x)
    BY <2>1 DEF MediaFails, Ghosts
  <2>2. CASE MediaRemoteEnded(x)
    BY <2>2 DEF MediaRemoteEnded, Ghosts
  <2> QED
    BY <2>1, <2>2
<1>2. /\ media[s] = x /\ x # NoMedia
      /\ \E ph \in phases : In(s, ph, x[2])
  BY <1>0, <1>1, ReportedIsCurrent
<1>3. /\ End(s) /\ media' = [media EXCEPT ![s] = NoMedia]
      /\ sess' \in [Sessions -> SessionStates]
      /\ \A y \in Sessions : sess'[y] = IF y = media[s] THEN "closed"
                                        ELSE IF y = x THEN "dead" ELSE sess[y]
  BY <1>0, <1>1, <1>2, MediaEndsEffect
<1>4. Dropped(s)
  BY <1>0, <1>2, <1>3 DEF Dropped, TypeOK
<1> QED
  BY <1>1, <1>2, <1>3, <1>4

LEMMA SideMediaEnds ==
    ASSUME CallAssumption, Base, Base', NEW x \in Sessions, NEW s \in Sides, x[1] = s,
           SideFits(s), MediaFails(x) \/ MediaRemoteEnded(x)
    PROVE  /\ SideFits(s)'
           /\ \A t \in Sides : t # s /\ SideFits(t) => SideFits(t)'
<1>0. TypeOK /\ TypeOK'
  BY DEF Base
<1>1. /\ Dropped(s) /\ End(s) /\ media[s] = x
      /\ In(s, "connecting", x[2]) \/ In(s, "active", x[2])
      /\ UNCHANGED <<op, caller>>
  BY EndsDrop
<1>2. /\ state'[s] = [phase |-> "ended", call |-> NoCall]
      /\ \A t \in Sides : t # s => state'[t] = state[t]
  BY <1>0, <1>1, EndEffect
<1>3. ASSUME NEW q \in Slots
      PROVE  op'[s][q] = op[s][q] /\ op[s][q].kind \notin {"offer", "answering"}
  <2>1. OpFits(s, op[s][q])
    BY DEF SideFits, OpsFit
  <2> QED
    BY <1>1, <2>1 DEF OpFits, OfferFits, AnsweringFits, Over, In
<1>4. SideFits(s)'
  BY <1>0, <1>1, <1>2, <1>3, DropEnd
<1>5. ASSUME NEW t \in Sides, t # s, SideFits(t) PROVE SideFits(t)'
  <2>1. media'[t] = media[t] /\ op'[t] = op[t] /\ state'[t] = state[t] /\ CallersKept
    BY <1>1, <1>2, <1>5 DEF Dropped, CallersKept
  <2>2. \A y \in Sessions : y[1] = t => sess'[y] = sess[y]
    BY <1>1, <1>5 DEF Dropped
  <2> QED
    BY <1>0, <1>5, <2>1, <2>2, SideFrame
<1> QED
  BY <1>4, <1>5

LEMMA SideStep ==
    ASSUME CallAssumption, Patient, Base, Base', SideInv, NetFits, [Next]_vars
    PROVE  SideInv'
<1>1. \A s \in Sides : SideFits(s)
  BY DEF SideInv
<1>2. CASE \E s \in Sides, o \in Slots : Resume(s, o) \/ SignalLeaves(s, o)
  BY <1>1, <1>2, SideResumes, SideSends DEF SideInv
<1>3. CASE \E s \in Sides : Tap(s) \/ RingTimerFires(s)
  BY <1>1, <1>3, SideTaps, SideTimer DEF SideInv
<1>4. ASSUME NEW m \in net, Inbound(m) PROVE SideInv'
  <2>1. m.to \in Sides /\ m.call \in Calls
    BY DEF Base, TypeOK, Signals
  <2> QED
    BY <1>1, <1>4, <2>1, SideInbound DEF SideInv
<1>5. ASSUME NEW x \in Sessions, IceVerdict(x) \/ MediaRemoteEnded(x) PROVE SideInv'
  <2>1. x[1] \in Sides
    BY SessionsAreTriples
  <2> QED
    BY <1>1, <1>5, <2>1, SideConnects, SideMediaEnds DEF SideInv, IceVerdict
<1>6. CASE UNCHANGED vars
  <2>1. UNCHANGED <<state, media, op, sess, caller>> /\ CallersKept
    BY <1>6 DEF vars, CallersKept
  <2> QED
    BY <1>1, <2>1, SideFrame DEF SideInv, Base
<1> QED
  BY <1>2, <1>3, <1>4, <1>5, <1>6 DEF Next

LEMMA InitCallInv ==
    ASSUME CallAssumption, Init PROVE CallInv
<1>0. TypeOK
  BY InitBase DEF Base
<1>1. \A s \in Sides : /\ state[s].phase = "idle" /\ state[s].call = NoCall
                       /\ media[s] = NoMedia /\ timer[s] = NoCall
                       /\ \A o \in Slots : op[s][o] = NoOp
  BY DEF Init
<1>2. NoOp.kind = "none" /\ NoCall \notin Calls
  BY DEF NoOp, NoCall, Calls
<1>3. Open = {} /\ net = {} /\ \A c \in Calls : caller[c] = {} /\ taps[c] = 0
  BY DEF Init, Open
<1>4. \A s \in Sides, c \in Calls : missed[s][c] = 0 /\ c \notin talked[s]
  BY DEF Init
<1>5. ASSUME NEW s \in Sides PROVE SideFits(s)
  <2>1. ASSUME NEW o \in Slots PROVE OpFits(s, op[s][o])
    BY <1>1, <1>2 DEF OpFits
  <2>2. OpsFit(s)
    BY <1>1, <2>1 DEF OpsFit
  <2>3. MediaFits(s) /\ RingFits(s)
    BY <1>1, <1>3 DEF MediaFits, RingFits
  <2> QED
    BY <2>2, <2>3 DEF SideFits
<1>6. Fresh /\ NetFits /\ MissedIsMissed
  BY <1>1, <1>2, <1>3, <1>4 DEF Fresh, NetFits, MissedIsMissed
<1>7. RingsOnce
  BY <1>3 DEF RingsOnce
<1>8. RingEnds
  BY <1>1, <1>2, <1>4 DEF RingEnds, EndFits, Ringing, In
<1> QED
  BY <1>5, <1>6, <1>7, <1>8 DEF CallInv, SideInv

\* An offer's session, once closed, stays closed: nobody starts a minted call
\* again, and an accept makes a session of the callee.
ClosedStays ==
    \A t \in Sides, c \in Calls :
        caller[c] # {} /\ caller[c] # {Other(t)} /\ sess[Offer(t, c)] = "closed"
          => sess'[Offer(t, c)] = "closed"

\* A step leaves the call c alone, or only takes it off a screen or a timer.
Calm(c) ==
    /\ caller'[c] = caller[c] /\ taps'[c] = taps[c]
    /\ Asked(c)' => Asked(c)
    /\ \A u \in Sides :
         /\ missed'[u][c] = missed[u][c] /\ (c \in talked'[u] => c \in talked[u])
         /\ state'[u].call = c => state[u].call = c
         /\ state'[u].call = c /\ state'[u].phase \in {"outgoing", "incoming"}
              => state'[u] = state[u]
         /\ timer'[u] = c => timer[u] = c
         /\ Unasked(u, c)' => Unasked(u, c)
         /\ \A o \in Slots : op'[u][o].kind = "offer" /\ op'[u][o].call = c
                               => op[u][o].kind = "offer" /\ op[u][o].call = c

LEMMA CalmCall ==
    ASSUME CallAssumption, TypeOK, TypeOK', CallInv, ClosedStays, NEW c \in Calls,
           Calm(c), NEW s \in Sides
    PROVE  /\ caller'[c] = {s} => RingFitsOnce(s, c)'
           /\ EndFits(s, c)'
           /\ missed'[s][c] <= 1 /\ (missed'[s][c] > 0 => c \notin talked'[s])
<1>0. Other(s) \in Sides /\ Other(s) # s /\ Other(Other(s)) = s
  BY TheOther
<1>1. ASSUME caller'[c] = {s} PROVE RingFitsOnce(s, c)'
  <2>1. RingFitsOnce(s, c)
    BY <1>1 DEF CallInv, RingsOnce, Calm
  <2>2. PICK t \in Sides : t = Other(s) /\ Other(s)' = t
    BY <1>0 DEF Other
  <2>3. \A u \in Sides : Untouched(u, c) => Untouched(u, c)'
    BY DEF Untouched, Calm
  <2>4. /\ Unasked(s, c)' => Unasked(s, c)
        /\ Asked(c)' => Asked(c)
        /\ taps'[c] = taps[c]
    BY DEF Calm
  <2>5. Untouched(Other(s), c) => Untouched(Other(s), c)'
    BY <2>2, <2>3 DEF Untouched
  <2>6. \A o \in Slots : op'[s][o].kind = "offer" /\ op'[s][o].call = c
                               => op[s][o].kind = "offer" /\ op[s][o].call = c
    BY DEF Calm
  <2> QED
    BY <2>1, <2>3, <2>4, <2>5, <2>6 DEF RingFitsOnce
<1>2. EndFits(s, c)'
  <2>1. EndFits(s, c)
    BY DEF CallInv, RingEnds
  <2>2. /\ Ringing(s, c)' => Ringing(s, c)
        /\ In(s, "incoming", c)' => In(s, "incoming", c)
    BY DEF Ringing, In, Calm
  <2>3. caller[c] = {} => missed[s][c] = 0
    BY DEF CallInv, Fresh
  <2>4. caller[c] # {} /\ caller[c] # {s} /\ sess[Offer(Other(s), c)] = "closed"
          => sess'[Offer(Other(s), c)] = "closed"
    BY <1>0 DEF ClosedStays
  <2>5. (sess[Offer(Other(s), c)] = "closed")' <=> sess'[Offer(Other(s), c)] = "closed"
    BY DEF Offer, Other
  <2> QED
    BY <2>1, <2>2, <2>3, <2>4, <2>5 DEF EndFits, Calm
<1>3. missed'[s][c] <= 1 /\ (missed'[s][c] > 0 => c \notin talked'[s])
  BY DEF CallInv, MissedIsMissed, Calm
<1> QED
  BY <1>1, <1>2, <1>3

\* A step that disturbs at most one call (none, when that is NoCall).
LEMMA Disturbed ==
    ASSUME CallAssumption, TypeOK, TypeOK', CallInv, ClosedStays, CallersKept, SideInv',
           NEW d,
           \A m \in net' : m \in net \/ MessageFits(m)',
           \A c \in Calls : c # d => Calm(c),
           d \in Calls =>
             /\ caller'[d] # {}
             /\ \A s \in Sides :
                  /\ caller'[d] = {s} => RingFitsOnce(s, d)'
                  /\ EndFits(s, d)'
                  /\ missed'[s][d] <= 1 /\ (missed'[s][d] > 0 => d \notin talked'[s])
    PROVE  CallInv'
<1>1. ASSUME NEW c \in Calls, NEW s \in Sides
      PROVE  /\ caller'[c] = {s} => RingFitsOnce(s, c)'
             /\ EndFits(s, c)'
             /\ missed'[s][c] <= 1 /\ (missed'[s][c] > 0 => c \notin talked'[s])
  <2>1. CASE c = d
    BY <2>1
  <2>2. CASE c # d
    <3>1. Calm(c)
      BY <2>2
    <3> QED
      BY <3>1, CalmCall
  <2> QED
    BY <2>1, <2>2
<1>2. RingsOnce' /\ RingEnds' /\ MissedIsMissed'
  BY <1>1 DEF RingsOnce, RingEnds, MissedIsMissed
<1>3. Fresh'
  <2>1. ASSUME NEW c \in Calls, caller'[c] = {}
        PROVE  /\ taps'[c] = 0
               /\ \A s \in Sides : timer'[s] # c /\ missed'[s][c] = 0 /\ c \notin talked'[s]
    <3>1. c # d /\ caller[c] = {}
      BY <2>1 DEF CallersKept
    <3> QED
      BY <3>1 DEF CallInv, Fresh, Calm
  <2> QED
    BY <2>1 DEF Fresh
<1>4. ASSUME NEW m \in net' PROVE MessageFits(m)'
  <2>1. CASE m \in net
    <3>1. MessageFits(m) /\ m.to \in Sides /\ m.call \in Calls
      BY <2>1 DEF CallInv, NetFits, TypeOK, Signals
    <3>2. Other(m.to) \in Sides /\ Other(m.to) # m.to /\ Other(Other(m.to)) = m.to
      BY <3>1, TheOther
    <3>3. caller'[m.call] = caller[m.call]
      BY <3>1 DEF MessageFits, CallersKept
    <3>4. caller[m.call] = {Other(m.to)} /\ sess[Offer(Other(m.to), m.call)] = "closed"
            => sess'[Offer(Other(m.to), m.call)] = "closed"
      BY <3>1, <3>2 DEF ClosedStays
    <3> QED
      BY <3>1, <3>3, <3>4 DEF MessageFits, Offer, Other
  <2> QED
    BY <2>1
<1>5. NetFits'
  BY <1>4 DEF NetFits
<1> QED
  BY <1>2, <1>3, <1>5 DEF CallInv

\* No request is made, or made ready to leave again.
AsksLess ==
    \A u \in Sides, c \in Calls :
        /\ Unasked(u, c)' => Unasked(u, c)
        /\ \A o \in Slots : op'[u][o].kind = "offer" /\ op'[u][o].call = c
                              => op[u][o].kind = "offer" /\ op[u][o].call = c

LEMMA OpsAskLess ==
    ASSUME NEW s \in Sides, NEW o \in Slots, NEW p, OpBecomes(s, o, p),
           p.kind \notin {"offer", "request"}
    PROVE  AsksLess
<1>1. ASSUME NEW u \in Sides, NEW q \in Slots, op'[u][q].kind \in {"offer", "request"}
      PROVE  op'[u][q] = op[u][q]
  BY <1>1 DEF OpBecomes
<1> QED
  BY <1>1 DEF AsksLess, Unasked

LEMMA SameOpsAskLess ==
    ASSUME op' = op PROVE AsksLess
  BY DEF AsksLess, Unasked

StateEases(u) ==
    \/ state'[u] = state[u]
    \/ /\ state'[u].call \in {state[u].call, NoCall}
       /\ state'[u].phase \notin {"outgoing", "incoming"}

LEMMA CalmStep ==
    ASSUME UNCHANGED <<caller, taps, missed, talked>>, net' \subseteq net, AsksLess,
           \A u \in Sides : timer'[u] \in {timer[u], NoCall} /\ StateEases(u),
           NEW c \in Calls
    PROVE  Calm(c)
<1>1. c # NoCall
  BY DEF Calls, NoCall
<1>2. Asked(c)' => Asked(c)
  BY DEF Asked
<1>3. ASSUME NEW u \in Sides
      PROVE  /\ state'[u].call = c => state[u].call = c
             /\ state'[u].call = c /\ state'[u].phase \in {"outgoing", "incoming"}
                  => state'[u] = state[u]
             /\ timer'[u] = c => timer[u] = c
  BY <1>1 DEF StateEases
<1> QED
  BY <1>2, <1>3 DEF Calm, AsksLess

LEMMA CalmStepKeeps ==
    ASSUME CallAssumption, TypeOK, TypeOK', CallInv, ClosedStays, SideInv',
           UNCHANGED <<caller, taps, missed, talked>>, net' \subseteq net, AsksLess,
           \A u \in Sides : timer'[u] \in {timer[u], NoCall} /\ StateEases(u)
    PROVE  CallInv'
<1>1. \A c \in Calls : Calm(c)
  BY CalmStep
<1>2. CallersKept
  BY DEF CallersKept
<1>3. NoCall \notin Calls
  BY DEF NoCall, Calls
<1> HIDE DEF NoCall
<1> QED
  BY <1>1, <1>2, <1>3, Disturbed

\* A step after which every closed session is closed.
LEMMA StillClosed ==
    ASSUME CallAssumption, \A x \in Sessions : sess[x] = "closed" => sess'[x] = "closed"
    PROVE  ClosedStays
<1>1. \A t \in Sides, c \in Calls : Offer(t, c) \in Sessions
  BY DEF Offer, Sessions, CallAssumption
<1> QED
  BY <1>1 DEF ClosedStays

\* Nothing names a call that nobody minted.
LEMMA Unminted ==
    ASSUME Base, CallInv, NEW c \in Calls, caller[c] = {}
    PROVE  /\ taps[c] = 0 /\ ~Asked(c)
           /\ \A s \in Sides : /\ state[s].call # c /\ timer[s] # c
                               /\ missed[s][c] = 0 /\ c \notin talked[s]
                               /\ \A o \in Slots : op[s][o].call # c
<1>0. TypeOK /\ c # NoCall
  BY DEF Base, Calls, NoCall
<1>1. taps[c] = 0 /\ \A s \in Sides : timer[s] # c /\ missed[s][c] = 0 /\ c \notin talked[s]
  BY DEF CallInv, Fresh
<1>2. ~Asked(c)
  BY DEF CallInv, NetFits, MessageFits, Asked
<1>3. ASSUME NEW s \in Sides PROVE state[s].call # c
  <2>1. SUFFICES ASSUME state[s].call = c PROVE FALSE
    OBVIOUS
  <2>2. PICK ph \in Phases : ph = state[s].phase /\ state[s] = [phase |-> ph, call |-> c]
    BY <1>0, <2>1, StateFacts DEF States
  <2>3. ph \notin {"idle", "ended"}
    BY <1>0, <2>1, <2>2, StateFacts
  <2>4. ph \notin {"outgoing", "incoming"}
    BY <2>1, <2>2 DEF CallInv, SideInv, SideFits, RingFits
  <2>5. ph \notin {"connecting", "active"}
    <3>1. ~(In(s, "connecting", c) \/ In(s, "active", c))
      BY <1>1 DEF Base, Accepted, ConnectedWasAccepted
    <3> QED
      BY <2>2, <3>1 DEF In
  <2> QED
    BY <2>3, <2>4, <2>5 DEF Phases
<1>4. ASSUME NEW s \in Sides, NEW o \in Slots PROVE op[s][o].call # c
  <2>1. OpFits(s, op[s][o]) /\ op[s][o].kind \in OpKinds
    BY <1>0, OpFacts DEF CallInv, SideInv, SideFits, OpsFit, Ops
  <2>2. CASE op[s][o].kind = "none"
    BY <1>0, <2>1, <2>2 DEF OpFits, NoOp
  <2>3. CASE op[s][o].kind # "none"
    BY <2>1, <2>3 DEF OpFits, OpKinds, OfferFits, RequestFits, AnsweringFits, AnswerFits,
       CancelFits, DeclineFits, StartFits
  <2> QED
    BY <2>2, <2>3
<1> QED
  BY <1>1, <1>2, <1>3, <1>4

LEMMA CallTaps ==
    ASSUME CallAssumption, Patient, Base, Base', CallInv, SideInv', NEW s \in Sides, Tap(s)
    PROVE  CallInv'
<1>0. /\ TypeOK /\ TypeOK' /\ SideFits(s) /\ NoCall \in Calls \cup {NoCall}
      /\ Other(s) \in Sides /\ Other(s) # s /\ Other(Other(s)) = s
      /\ \A t \in Sides : t = s \/ t = Other(s)
  BY TheOther DEF Base, CallInv, SideInv
<1>1. CASE Reset(s)
  <2>1. /\ In(s, "ended", NoCall) /\ Become(s, "idle", NoCall)
        /\ UNCHANGED <<media, timer, op, net, sess, caller, taps, missed, talked>>
    BY <1>1 DEF Reset, Ghosts
  <2>2. "idle" \in Phases
    BY DEF Phases
  <2>a. /\ state'[s] = [phase |-> "idle", call |-> NoCall]
        /\ \A t \in Sides : t # s => state'[t] = state[t]
    BY <1>0, <2>1, <2>2, BecomeEffect
  <2>3. \A t \in Sides : StateEases(t)
    BY <2>a DEF StateEases
  <2>4. AsksLess /\ ClosedStays
    BY <2>1, SameOpsAskLess, StillClosed
  <2> QED
    BY <1>0, <2>1, <2>3, <2>4, CalmStepKeeps
<1>2. ASSUME NEW c \in Calls, HangUp(s, c) PROVE CallInv'
  <2>1. /\ TeardownMedia(s) /\ End(s)
        /\ UNCHANGED <<timer, op, net, caller, taps, missed, talked>>
    BY <1>2 DEF HangUp, Ghosts
  <2>2. Dropped(s)
    BY <1>0, <2>1, TeardownEffect
  <2>3. \A t \in Sides : StateEases(t)
    BY <1>0, <2>1, EndEffect DEF StateEases
  <2>4. AsksLess /\ ClosedStays
    BY <2>1, <2>2, SameOpsAskLess, StillClosed DEF Dropped
  <2> QED
    BY <1>0, <2>1, <2>3, <2>4, CalmStepKeeps
<1>3. ASSUME NEW c \in Calls, CancelOutgoing(s, c) PROVE CallInv'
  <2>1. /\ timer' = [timer EXCEPT ![s] = NoCall] /\ TeardownMedia(s)
        /\ Begin(s, "cancel", c, NoMedia)
        /\ UNCHANGED <<state, net, caller, taps, missed, talked>>
    BY <1>3 DEF CancelOutgoing, StopRingTimer, Ghosts
  <2>2. Dropped(s)
    BY <1>0, <2>1, TeardownEffect
  <2>3. "cancel" \in OpKinds /\ Op("cancel", c, NoMedia).kind = "cancel"
    BY DEF OpKinds, Op
  <2>4. \E o \in Slots : OpBecomes(s, o, Op("cancel", c, NoMedia))
    BY <1>0, <2>1, <2>3, BeginEffect
  <2>5. AsksLess /\ ClosedStays
    BY <2>2, <2>3, <2>4, OpsAskLess, StillClosed DEF Dropped
  <2>6. \A t \in Sides : timer'[t] \in {timer[t], NoCall} /\ StateEases(t)
    BY <1>0, <2>1, TimerEffect DEF StateEases
  <2> QED
    BY <1>0, <2>1, <2>5, <2>6, CalmStepKeeps
<1>4. ASSUME NEW c \in Calls, Decline(s, c) PROVE CallInv'
  <2>1. /\ timer' = [timer EXCEPT ![s] = NoCall] /\ Begin(s, "decline", c, NoMedia)
        /\ UNCHANGED <<state, media, net, sess, caller, taps, missed, talked>>
    BY <1>4 DEF Decline, StopRingTimer, Ghosts
  <2>3. "decline" \in OpKinds /\ Op("decline", c, NoMedia).kind = "decline"
    BY DEF OpKinds, Op
  <2>4. \E o \in Slots : OpBecomes(s, o, Op("decline", c, NoMedia))
    BY <1>0, <2>1, <2>3, BeginEffect
  <2>5. AsksLess /\ ClosedStays
    BY <2>1, <2>3, <2>4, OpsAskLess, StillClosed
  <2>6. \A t \in Sides : timer'[t] \in {timer[t], NoCall} /\ StateEases(t)
    BY <1>0, <2>1, TimerEffect DEF StateEases
  <2> QED
    BY <1>0, <2>1, <2>5, <2>6, CalmStepKeeps
<1>5. ASSUME NEW d \in Calls, StartCall(s, d) PROVE CallInv'
  <2> DEFINE x == Offer(s, d)
             p == Op("offer", d, x)
  <2>1. /\ caller[d] = {} /\ caller' = [caller EXCEPT ![d] = {s}]
        /\ sess' = [sess EXCEPT ![x] = "new"] /\ Begin(s, "offer", d, x)
        /\ UNCHANGED <<state, timer, net, answered, taps, missed, talked>>
    BY <1>5 DEF StartCall, Offer
  <2>2. x \in Sessions /\ x = Offer(s, d) /\ "offer" \in OpKinds
    BY DEF Offer, Sessions, CallAssumption, OpKinds
  <2>3. PICK o \in Slots : OpBecomes(s, o, p)
    BY <1>0, <2>1, <2>2, BeginEffect
  <2>4. p.kind = "offer" /\ p.call = d
    BY DEF Op
  <2> HIDE DEF x, p
  <2>5. caller'[d] = {s} /\ \A c \in Calls : c # d => caller'[c] = caller[c]
    BY <1>0, <2>1 DEF TypeOK
  <2>6. CallersKept
    BY <2>1, <2>5 DEF CallersKept
  <2>7. ClosedStays
    <3>1. ASSUME NEW t \in Sides, NEW c \in Calls, caller[c] # {},
                 sess[Offer(t, c)] = "closed"
          PROVE  sess'[Offer(t, c)] = "closed"
      <4>1. Offer(t, c) # x /\ Offer(t, c) \in Sessions
        BY <2>1, <2>2, <3>1 DEF Offer, Sessions, CallAssumption
      <4> QED
        BY <1>0, <2>1, <3>1, <4>1 DEF TypeOK
    <3> QED
      BY <3>1 DEF ClosedStays
  <2>8. ASSUME NEW u \in Sides, NEW q \in Slots, op'[u][q].call # d
        PROVE  op'[u][q] = op[u][q]
    BY <2>3, <2>4, <2>8 DEF OpBecomes
  <2>9. ASSUME NEW c \in Calls, c # d PROVE Calm(c)
    BY <2>1, <2>5, <2>8, <2>9 DEF Calm, Unasked, Asked
  <2>10. /\ taps[d] = 0 /\ ~Asked(d)
         /\ \A t \in Sides : /\ state[t].call # d /\ timer[t] # d
                             /\ missed[t][d] = 0 /\ d \notin talked[t]
    BY <2>1, Unminted
  <2>11. \A t \in Sides : Untouched(t, d)'
    BY <2>1, <2>10 DEF Untouched
  <2>12. RingFitsOnce(s, d)'
    <3>1. ~Asked(d)' /\ taps'[d] = 0
      BY <2>1, <2>10 DEF Asked
    <3>2. Untouched(Other(s), d)'
      BY <1>0, <2>11 DEF Untouched, Other
    <3> QED
      BY <2>11, <3>1, <3>2 DEF RingFitsOnce
  <2>13. ASSUME NEW t \in Sides
         PROVE  EndFits(t, d)' /\ missed'[t][d] <= 1 /\ ~(missed'[t][d] > 0)
    BY <2>1, <2>10 DEF EndFits, Ringing, In
  <2>14. ASSUME NEW t \in Sides, caller'[d] = {t} PROVE RingFitsOnce(t, d)'
    BY <2>5, <2>12, <2>14
  <2> QED
    BY <1>0, <2>1, <2>5, <2>6, <2>7, <2>9, <2>13, <2>14, Disturbed
<1>6. ASSUME NEW d \in Calls, Accept(s, d) PROVE CallInv'
  <2> DEFINE x == <<s, d, taps[d] + 1>>
             p == Op("answering", d, x)
  <2>1. /\ In(s, "incoming", d) /\ taps[d] < MaxTaps
        /\ taps' = [taps EXCEPT ![d] = @ + 1]
        /\ timer' = [timer EXCEPT ![s] = NoCall]
        /\ sess' = [sess EXCEPT ![x] = "new"] /\ Begin(s, "answering", d, x)
        /\ UNCHANGED <<state, net, answered, caller, missed, talked>>
    BY <1>6 DEF Accept, StopRingTimer
  <2>2. /\ x \in Sessions /\ x[1] = s /\ x[2] = d /\ "answering" \in OpKinds
        /\ taps[d] \in 0 .. MaxTaps
    BY <1>0, <2>1 DEF Sessions, CallAssumption, OpKinds, TypeOK
  <2>3. \E o \in Slots : OpBecomes(s, o, p)
    BY <1>0, <2>1, <2>2, BeginEffect
  <2>4. p.kind = "answering" /\ p.call = d
    BY DEF Op
  <2> HIDE DEF x, p
  <2>5. AsksLess
    BY <2>3, <2>4, OpsAskLess
  <2>6. caller[d] = {Other(s)} /\ state[s].call = d
    BY <1>0, <2>1 DEF SideFits, RingFits, In
  <2>7. ClosedStays
    <3>1. ASSUME NEW t \in Sides, NEW c \in Calls, caller[c] # {Other(t)},
                 sess[Offer(t, c)] = "closed"
          PROVE  sess'[Offer(t, c)] = "closed"
      <4>1. Offer(t, c) \in Sessions /\ Offer(t, c)[1] = t /\ Offer(t, c)[2] = c
        BY DEF Offer, Sessions, CallAssumption
      <4>2. Offer(t, c) # x
        BY <2>2, <2>6, <3>1, <4>1
      <4> QED
        BY <1>0, <2>1, <3>1, <4>1, <4>2 DEF TypeOK
    <3> QED
      BY <3>1 DEF ClosedStays
  <2>8. \A t \in Sides : timer'[t] \in {timer[t], NoCall} /\ timer'[s] = NoCall
    BY <1>0, <2>1, TimerEffect
  <2>9. /\ taps'[d] = taps[d] + 1 /\ taps[d] \in Nat
        /\ \A c \in Calls : c # d => taps'[c] = taps[c]
    BY <1>0, <2>1, <2>2 DEF TypeOK
  <2>10. ASSUME NEW c \in Calls, c # d PROVE Calm(c)
    <3>1. c # NoCall
      BY DEF Calls, NoCall
    <3> QED
      BY <2>1, <2>5, <2>8, <2>9, <2>10, <3>1 DEF Calm, AsksLess, Asked
  <2>11. missed[s][d] = 0 /\ d \notin talked[s]
    BY <2>1 DEF CallInv, RingEnds, EndFits, Ringing
  <2>12. ~Asked(d) /\ ~Unasked(Other(s), d) /\ RingFitsOnce(Other(s), d)
    BY <1>0, <2>6 DEF CallInv, RingsOnce, RingFitsOnce, Untouched
  <2>13. ASSUME NEW t \in Sides, caller'[d] = {t} PROVE RingFitsOnce(t, d)'
    <3>1. t = Other(s)
      BY <2>1, <2>6, <2>13
    <3>2. ~Asked(d)' /\ ~Unasked(t, d)'
      BY <2>1, <2>5, <2>12, <3>1 DEF Asked, AsksLess
    <3>3. \A o \in Slots : op'[t][o].kind = "offer" /\ op'[t][o].call = d
                             => Untouched(t, d)'
      BY <2>1, <2>5, <2>12, <3>1 DEF AsksLess, RingFitsOnce, Untouched
    <3> QED
      BY <3>2, <3>3 DEF RingFitsOnce
  <2>14. ASSUME NEW t \in Sides
         PROVE  /\ EndFits(t, d)'
                /\ missed'[t][d] <= 1 /\ (missed'[t][d] > 0 => d \notin talked'[t])
    <3>0. EndFits(t, d)
      BY DEF CallInv, RingEnds
    <3>1. missed'[t][d] <= 1 /\ (missed'[t][d] > 0 => d \notin talked'[t])
      BY <2>1 DEF CallInv, MissedIsMissed
    <3>2. timer'[t] = d => ~In(t, "incoming", d)'
      <4>1. t = s => timer'[t] # d
        BY <2>8 DEF Calls, NoCall
      <4>2. t = Other(s) => ~In(t, "incoming", d)'
        BY <1>0, <2>1, <2>6 DEF In, CallInv, SideInv, SideFits, RingFits
      <4> QED
        BY <1>0, <4>1, <4>2
    <3>3. missed'[t][d] > 0 => caller'[d] = {t}
      BY <1>0, <2>1, <2>6, <2>11
    <3>4. missed'[t] = missed[t] /\ talked'[t] = talked[t] /\ state'[t] = state[t]
          /\ caller' = caller
      BY <2>1
    <3>5. EndFits(t, d)'
      BY <3>0, <3>2, <3>3, <3>4 DEF EndFits, Ringing, In
    <3> QED
      BY <3>1, <3>5
  <2>15. CallersKept /\ caller'[d] # {}
    BY <2>1, <2>6 DEF CallersKept
  <2> QED
    BY <1>0, <2>1, <2>7, <2>10, <2>13, <2>14, <2>15, Disturbed
<1> QED
  BY <1>1, <1>2, <1>3, <1>4, <1>5, <1>6 DEF Tap

LEMMA CallResumes ==
    ASSUME CallAssumption, Base, Base', CallInv, SideInv', NEW s \in Sides,
           NEW o \in Slots, Resume(s, o)
    PROVE  CallInv'
<1>0. /\ TypeOK /\ TypeOK' /\ SideFits(s) /\ NoCall \in Calls \cup {NoCall}
      /\ Other(s) \in Sides /\ Other(s) # s /\ Other(Other(s)) = s
      /\ \A t \in Sides : t = s \/ t = Other(s)
      /\ op[s][o] \in Ops /\ OpFits(s, op[s][o])
      /\ op[s][o].kind # "none" => op[s][o].call \in Calls
  BY TheOther, OpFacts DEF Base, CallInv, SideInv, SideFits, OpsFit
<1>1. CASE OfferReady(s, o)
  <2>1. PICK p \in Ops : p = op[s][o] /\ p.kind = "offer" /\ OpFits(s, p)
    BY <1>0, <1>1 DEF OfferReady
  <2>2. PICK d \in Calls : d = p.call
    BY <1>0, <2>1
  <2>3. PICK x \in Sessions : x = p.session
    BY <2>1 DEF Base, Named, Setting
  <2>4. sess[x] = "new" /\ caller[d] = {s} /\ ~p.sent
    BY <2>1, <2>2, <2>3 DEF OpFits, OfferFits
  <2>5. /\ sess' = [sess EXCEPT ![x] = "offered"]
        /\ Become(s, "outgoing", d) /\ Await(s, o, "request")
        /\ UNCHANGED <<timer, net, caller, taps, missed, talked>>
    BY <1>1, <2>1, <2>2, <2>3, <2>4 DEF OfferReady, Ghosts
  <2>6. /\ "outgoing" \in Phases /\ "request" \in OpKinds /\ d # NoCall /\ p.kind # "none"
        /\ Op("request", d, x).kind = "request" /\ Op("request", d, x).call = d
    BY <2>1 DEF Phases, OpKinds, Calls, NoCall, Op
  <2>7. /\ state'[s] = [phase |-> "outgoing", call |-> d]
        /\ \A t \in Sides : t # s => state'[t] = state[t]
    BY <1>0, <2>5, <2>6, BecomeEffect
  <2>8. OpBecomes(s, o, Op("request", d, x))
    BY <1>0, <2>1, <2>2, <2>3, <2>5, <2>6, AwaitEffect
  <2>9. op'[s][o].kind = "request" /\ op'[s][o].call = d
    BY <2>6, <2>8 DEF OpBecomes
  <2>10. ClosedStays
    BY <1>0, <2>4, <2>5, StillClosed DEF TypeOK
  <2>11. AsksLess
    <3>1. ASSUME NEW u \in Sides, NEW q \in Slots, ~(u = s /\ q = o)
          PROVE  op'[u][q] = op[u][q]
      BY <2>8, <3>1 DEF OpBecomes
    <3>2. ASSUME NEW u \in Sides, NEW c \in Calls, Unasked(u, c)' PROVE Unasked(u, c)
      <4>1. PICK q \in Slots : /\ op'[u][q].call = c /\ ~op'[u][q].sent
                               /\ op'[u][q].kind \in {"offer", "request"}
        BY <3>2 DEF Unasked
      <4>2. CASE u = s /\ q = o
        BY <2>1, <2>2, <2>4, <2>9, <4>1, <4>2 DEF Unasked
      <4>3. CASE ~(u = s /\ q = o)
        BY <3>1, <4>1, <4>3 DEF Unasked
      <4> QED
        BY <4>2, <4>3
    <3> QED
      BY <2>9, <3>1, <3>2 DEF AsksLess
  <2>12. ASSUME NEW c \in Calls, c # d PROVE Calm(c)
    <3>1. Asked(c)' => Asked(c)
      BY <2>5 DEF Asked
    <3>2. \A u \in Sides : /\ state'[u].call = c => state[u].call = c
                           /\ state'[u].call = c /\ state'[u].phase \in {"outgoing", "incoming"}
                                => state'[u] = state[u]
      BY <2>7, <2>12
    <3> QED
      BY <2>5, <2>11, <3>1, <3>2 DEF Calm, AsksLess
  <2>13. RingFitsOnce(s, d) /\ Untouched(s, d)
    BY <2>1, <2>2, <2>4 DEF CallInv, RingsOnce, RingFitsOnce
  <2>14. ASSUME NEW t \in Sides, caller'[d] = {t} PROVE RingFitsOnce(t, d)'
    <3>1. t = s
      BY <2>4, <2>5, <2>14
    <3>2. PICK u \in Sides : u = Other(s) /\ u # s
      BY <1>0
    <3>3. Untouched(u, d) => Untouched(u, d)'
      BY <2>5, <2>7, <3>2 DEF Untouched
    <3>4. Untouched(Other(s), d) => Untouched(Other(s), d)'
      BY <3>2, <3>3 DEF Untouched, Other
    <3>5. Unasked(s, d)' => Unasked(s, d)
      BY <2>11 DEF AsksLess
    <3>6. (Asked(d)' <=> Asked(d)) /\ taps'[d] = taps[d]
      BY <2>5 DEF Asked
    <3>7. ASSUME NEW q \in Slots, op'[s][q].kind = "offer" PROVE FALSE
      <4>1. q # o /\ op'[s][q] = op[s][q]
        BY <2>8, <2>9, <3>7 DEF OpBecomes
      <4> QED
        BY <1>0, <2>1, <3>7, <4>1, NoOpIsOp DEF SideFits, OpsFit, MayRunBeside
    <3> QED
      BY <2>13, <3>1, <3>4, <3>5, <3>6, <3>7 DEF RingFitsOnce
  <2>15. ASSUME NEW t \in Sides
         PROVE  /\ EndFits(t, d)'
                /\ missed'[t][d] <= 1 /\ (missed'[t][d] > 0 => d \notin talked'[t])
    <3>0. EndFits(t, d)
      BY DEF CallInv, RingEnds
    <3>1. missed'[t][d] <= 1 /\ (missed'[t][d] > 0 => d \notin talked'[t])
      BY <2>5 DEF CallInv, MissedIsMissed
    <3>2. CASE t = s
      <4>1. missed'[t][d] = 0 /\ d \notin talked'[t] /\ ~In(t, "incoming", d)'
        BY <2>5, <2>7, <2>13, <3>2 DEF Untouched, In
      <4>2. ~(missed'[t][d] > 0)
        BY <4>1
      <4> QED
        BY <3>1, <4>1, <4>2 DEF EndFits
    <3>3. CASE t # s
      <4>1. state'[t] = state[t] /\ missed'[t] = missed[t] /\ talked'[t] = talked[t]
            /\ caller' = caller /\ taps' = taps /\ timer' = timer
        BY <2>5, <2>7, <3>3
      <4>2. Other(t) = s /\ (sess[Offer(s, d)] = "closed" => sess'[Offer(s, d)] = "closed")
        BY <1>0, <2>4, <2>10, <3>3 DEF ClosedStays
      <4>3. (sess[Offer(Other(t), d)] = "closed") => (sess[Offer(Other(t), d)] = "closed")'
        BY <4>2 DEF Offer, Other
      <4> QED
        BY <3>0, <3>1, <4>1, <4>3 DEF EndFits, Ringing, In
    <3> QED
      BY <3>2, <3>3
  <2>16. CallersKept /\ caller'[d] # {}
    BY <2>4, <2>5 DEF CallersKept
  <2> QED
    BY <1>0, <2>5, <2>10, <2>12, <2>14, <2>15, <2>16, Disturbed
<1>2. CASE RequestSent(s, o)
  <2>1. PICK d \in Calls : d = op[s][o].call /\ op[s][o].kind = "request"
    BY <1>0, <1>2 DEF RequestSent
  <2>2. /\ timer' = [timer EXCEPT ![s] = d] /\ Return(s, o)
        /\ UNCHANGED <<state, media, net, sess, caller, taps, missed, talked>>
    BY <1>2, <2>1 DEF RequestSent, ArmRingTimer, Ghosts
  <2>3. caller[d] = {s}
    BY <1>0, <2>1 DEF OpFits, RequestFits
  <2>4. AsksLess /\ ClosedStays
    BY <1>0, <2>2, ReturnEffect, NoOpIsOp, OpsAskLess, StillClosed
  <2>5. timer'[s] = d /\ \A t \in Sides : t # s => timer'[t] = timer[t]
    BY <1>0, <2>2, TimerEffect
  <2>6. ASSUME NEW c \in Calls, c # d PROVE Calm(c)
    <3>1. Asked(c)' => Asked(c)
      BY <2>2 DEF Asked
    <3> QED
      BY <2>2, <2>4, <2>5, <2>6, <3>1 DEF Calm, AsksLess
  <2>7. ASSUME NEW t \in Sides, caller'[d] = {t} PROVE RingFitsOnce(t, d)'
    <3>1. RingFitsOnce(t, d)
      BY <2>2, <2>7 DEF CallInv, RingsOnce
    <3>2. (Asked(d)' <=> Asked(d)) /\ taps'[d] = taps[d]
      BY <2>2 DEF Asked
    <3>3. /\ Untouched(t, d)' <=> Untouched(t, d)
          /\ Untouched(Other(t), d)' <=> Untouched(Other(t), d)
      BY <2>2 DEF Untouched, Other
    <3> QED
      BY <2>4, <3>1, <3>2, <3>3 DEF RingFitsOnce, AsksLess
  <2>8. ASSUME NEW t \in Sides
         PROVE  /\ EndFits(t, d)'
                /\ missed'[t][d] <= 1 /\ (missed'[t][d] > 0 => d \notin talked'[t])
    <3>0. EndFits(t, d)
      BY DEF CallInv, RingEnds
    <3>1. missed'[t][d] <= 1 /\ (missed'[t][d] > 0 => d \notin talked'[t])
      BY <2>2 DEF CallInv, MissedIsMissed
    <3>2. timer'[t] = d /\ In(t, "incoming", d)' => timer[t] = d /\ In(t, "incoming", d)
      <4>1. ~In(s, "incoming", d)
        BY <1>0, <2>3 DEF In, SideFits, RingFits
      <4> QED
        BY <2>2, <2>5, <4>1 DEF In
    <3> QED
      BY <2>2, <3>0, <3>1, <3>2 DEF EndFits, Ringing, In, Offer, Other
  <2>9. CallersKept /\ caller'[d] # {}
    BY <2>2, <2>3 DEF CallersKept
  <2> QED
    BY <1>0, <2>2, <2>4, <2>6, <2>7, <2>8, <2>9, Disturbed
<1>3. CASE SetupThrows(s, o) \/ StartThrows(s, o)
  <2>1. /\ TeardownMedia(s) /\ End(s) /\ Return(s, o)
        /\ UNCHANGED <<timer, net, caller, taps, missed, talked>>
    BY <1>3 DEF SetupThrows, StartThrows, Ghosts
  <2>2. Dropped(s)
    BY <1>0, <2>1, TeardownEffect
  <2>3. \A t \in Sides : StateEases(t)
    BY <1>0, <2>1, EndEffect DEF StateEases
  <2>4. AsksLess /\ ClosedStays
    BY <1>0, <2>1, <2>2, ReturnEffect, NoOpIsOp, OpsAskLess, StillClosed DEF Dropped
  <2> QED
    BY <1>0, <2>1, <2>3, <2>4, CalmStepKeeps
<1>4. CASE AnswerReady(s, o)
  <2>1. PICK p \in Ops : p = op[s][o] /\ p.kind = "answering" /\ OpFits(s, p)
    BY <1>0, <1>4 DEF AnswerReady
  <2>2. PICK d \in Calls : d = p.call
    BY <1>0, <2>1
  <2>3. PICK x \in Sessions : x = p.session
    BY <2>1 DEF Base, Named, Setting
  <2>4. sess[x] = "new" /\ (In(s, "incoming", d) \/ Over(s))
    BY <2>1, <2>2, <2>3 DEF OpFits, AnsweringFits
  <2>5. /\ sess' = [sess EXCEPT ![x] = "checking"]
        /\ Become(s, "connecting", d) /\ Await(s, o, "answer")
        /\ UNCHANGED <<timer, net, caller, taps, missed, talked>>
    BY <1>4, <2>1, <2>2, <2>3, <2>4 DEF AnswerReady, Ghosts
  <2>6. /\ "connecting" \in Phases /\ "answer" \in OpKinds /\ d # NoCall /\ p.kind # "none"
        /\ Op("answer", d, x).kind = "answer"
    BY <2>1 DEF Phases, OpKinds, Calls, NoCall, Op
  <2>7. /\ state'[s] = [phase |-> "connecting", call |-> d]
        /\ \A t \in Sides : t # s => state'[t] = state[t]
    BY <1>0, <2>5, <2>6, BecomeEffect
  <2>8. OpBecomes(s, o, Op("answer", d, x))
    BY <1>0, <2>1, <2>2, <2>3, <2>5, <2>6, AwaitEffect
  <2>9. ClosedStays
    BY <1>0, <2>4, <2>5, StillClosed DEF TypeOK
  <2>10. AsksLess
    BY <2>6, <2>8, OpsAskLess
  <2>11. caller[d] = {Other(s)} /\ taps[d] > 0
    <3>1. taps[d] > 0
      BY <2>1, <2>2 DEF Base, Accepted
    <3> QED
      BY <2>1, <2>2, <3>1 DEF OpFits, AnsweringFits
  <2>12. ASSUME NEW c \in Calls, c # d PROVE Calm(c)
    <3>1. Asked(c)' => Asked(c)
      BY <2>5 DEF Asked
    <3>2. \A u \in Sides : /\ state'[u].call = c => state[u].call = c
                           /\ state'[u].call = c /\ state'[u].phase \in {"outgoing", "incoming"}
                                => state'[u] = state[u]
      BY <2>7, <2>12
    <3> QED
      BY <2>5, <2>10, <3>1, <3>2 DEF Calm, AsksLess
  <2>13. ASSUME NEW t \in Sides, caller'[d] = {t} PROVE RingFitsOnce(t, d)'
    <3>1. t = Other(s) /\ t # s
      BY <1>0, <2>5, <2>11, <2>13
    <3>2. RingFitsOnce(t, d) /\ taps[d] # 0
      BY <2>11, <3>1 DEF CallInv, RingsOnce
    <3>3. ~Asked(d) /\ ~Unasked(t, d)
      BY <3>2 DEF RingFitsOnce
    <3>4. ~Asked(d)' /\ ~Unasked(t, d)'
      BY <2>5, <2>10, <3>3 DEF Asked, AsksLess
    <3>5. Untouched(t, d) => Untouched(t, d)'
      BY <2>5, <2>7, <3>1 DEF Untouched
    <3> QED
      BY <2>10, <3>2, <3>4, <3>5 DEF RingFitsOnce, AsksLess
  <2>14. ASSUME NEW t \in Sides
         PROVE  /\ EndFits(t, d)'
                /\ missed'[t][d] <= 1 /\ (missed'[t][d] > 0 => d \notin talked'[t])
    <3>0. EndFits(t, d)
      BY DEF CallInv, RingEnds
    <3>1. missed'[t][d] <= 1 /\ (missed'[t][d] > 0 => d \notin talked'[t])
      BY <2>5 DEF CallInv, MissedIsMissed
    <3>2. missed'[t] = missed[t] /\ talked'[t] = talked[t]
          /\ caller' = caller /\ taps' = taps /\ timer' = timer
      BY <2>5
    <3>3. caller[d] # {t} /\ sess[Offer(Other(t), d)] = "closed"
            => sess'[Offer(Other(t), d)] = "closed"
      BY <2>11, <2>9, TheOther DEF ClosedStays
    <3>4. caller[d] # {t} /\ sess[Offer(Other(t), d)] = "closed"
            => (sess[Offer(Other(t), d)] = "closed")'
      BY <3>3 DEF Offer, Other
    <3>5. CASE t = s
      <4>1. ~Ringing(t, d)' /\ ~In(t, "incoming", d)' /\ caller[d] # {t}
        BY <1>0, <2>7, <2>11, <3>5 DEF Ringing, In
      <4> QED
        BY <3>0, <3>1, <3>2, <3>4, <4>1 DEF EndFits
    <3>6. CASE t # s
      <4>1. state'[t] = state[t]
        BY <2>7, <3>6
      <4> QED
        BY <3>0, <3>1, <3>2, <3>4, <4>1 DEF EndFits, Ringing, In
    <3> QED
      BY <3>5, <3>6
  <2>15. CallersKept /\ caller'[d] # {}
    BY <2>5, <2>11 DEF CallersKept
  <2> QED
    BY <1>0, <2>5, <2>9, <2>12, <2>13, <2>14, <2>15, Disturbed
<1>5. CASE AnswerSent(s, o) \/ StartReturns(s, o) \/ GiveUpReturns(s, o)
  <2>1. /\ Return(s, o) /\ UNCHANGED <<timer, net, caller, taps, missed, talked>>
        /\ UNCHANGED state \/ End(s)
    BY <1>5 DEF AnswerSent, StartReturns, GiveUpReturns, Ghosts
  <2>2. \A x \in Sessions : sess[x] = "closed" => sess'[x] = "closed"
    <3>1. CASE AnswerSent(s, o) \/ GiveUpReturns(s, o)
      BY <3>1 DEF AnswerSent, GiveUpReturns
    <3>2. CASE StartReturns(s, o)
      <4>1. PICK y \in Sessions \cup {NoMedia} : y = op[s][o].session
        BY <1>0 DEF Ops
      <4>2. \/ UNCHANGED sess
            \/ y # NoMedia /\ sess[y] = "offered" /\ sess' = [sess EXCEPT ![y] = "checking"]
        BY <3>2, <4>1 DEF StartReturns
      <4> QED
        BY <1>0, <4>2 DEF TypeOK
    <3> QED
      BY <1>5, <3>1, <3>2
  <2>3. \A t \in Sides : StateEases(t)
    BY <1>0, <2>1, EndEffect DEF StateEases
  <2>4. AsksLess /\ ClosedStays
    BY <1>0, <2>1, <2>2, ReturnEffect, NoOpIsOp, OpsAskLess, StillClosed
  <2> QED
    BY <1>0, <2>1, <2>3, <2>4, CalmStepKeeps
<1> QED
  BY <1>1, <1>2, <1>3, <1>4, <1>5 DEF Resume

\* A side that the step leaves alone, or takes off the call.
LEMMA EndFitsKept ==
    ASSUME CallAssumption, CallInv, ClosedStays, NEW d \in Calls, NEW t \in Sides,
           StateEases(t), missed'[t][d] = missed[t][d],
           d \in talked'[t] => d \in talked[t],
           caller'[d] = caller[d], caller[d] # {}, taps'[d] = taps[d],
           timer'[t] = d => timer[t] = d
    PROVE  /\ EndFits(t, d)'
           /\ missed'[t][d] <= 1 /\ (missed'[t][d] > 0 => d \notin talked'[t])
<1>0. EndFits(t, d) /\ d # NoCall /\ Other(t) \in Sides /\ Other(Other(t)) = t
  BY TheOther DEF CallInv, RingEnds, Calls, NoCall
<1>1. missed'[t][d] <= 1 /\ (missed'[t][d] > 0 => d \notin talked'[t])
  BY DEF CallInv, MissedIsMissed
<1>2. /\ Ringing(t, d)' => Ringing(t, d)
      /\ In(t, "incoming", d)' => In(t, "incoming", d)
      /\ state'[t].call = d => state[t].call = d
  BY <1>0 DEF StateEases, Ringing, In
<1>3. caller[d] # {t} /\ sess[Offer(Other(t), d)] = "closed"
        => sess'[Offer(Other(t), d)] = "closed"
  BY <1>0 DEF ClosedStays
<1>4. caller[d] # {t} /\ sess[Offer(Other(t), d)] = "closed"
        => (sess[Offer(Other(t), d)] = "closed")'
  BY <1>3 DEF Offer, Other
<1>5. EndFits(t, d)'
  BY <1>0, <1>2, <1>4 DEF EndFits
<1> QED
  BY <1>1, <1>5

\* The operations of a side that asks for one call ask for no other.
LEMMA AsksForOne ==
    ASSUME NEW s \in Sides, SideFits(s), NEW o \in Slots, NEW q \in Slots, q # o,
           op[s][o].kind \in {"offer", "request"}
    PROVE  op[s][q].kind \notin {"offer", "request"}
  BY NoOpIsOp DEF SideFits, OpsFit, MayRunBeside

LEMMA CallSends ==
    ASSUME CallAssumption, Base, Base', CallInv, SideInv', NEW s \in Sides,
           NEW o \in Slots, SignalLeaves(s, o)
    PROVE  CallInv'
<1>0. /\ TypeOK /\ TypeOK' /\ SideFits(s)
      /\ Other(s) \in Sides /\ Other(s) # s /\ Other(Other(s)) = s
      /\ \A t \in Sides : t = s \/ t = Other(s)
  BY TheOther DEF Base, CallInv, SideInv
<1>1. /\ op[s][o].kind \in Sending /\ ~op[s][o].sent
      /\ op' = [op EXCEPT ![s][o].sent = TRUE]
      /\ net' = net \cup {Signal(s, op[s][o])}
      /\ UNCHANGED <<state, media, timer, sess, caller, taps, missed, talked>>
  BY DEF SignalLeaves, Signal, Ghosts
<1>2. PICK p \in Ops : p = op[s][o] /\ p.kind \in Sending /\ p.kind # "none"
                       /\ OpFits(s, p)
  BY <1>0, <1>1, OpFacts DEF Sending, SideFits, OpsFit
<1>3. PICK d \in Calls : d = p.call
  BY <1>0, <1>2, OpFacts
<1>4. PICK m \in Signals : /\ m = Signal(s, op[s][o])
                           /\ m.kind = (IF p.kind \in {"request", "answer"}
                                        THEN p.kind ELSE "decline")
                           /\ m.call = d /\ m.to = Other(s)
                           /\ p.kind # "answer" => m.tap = 0
  BY <1>2, <1>3, SignalFacts
<1>5. /\ OpBecomes(s, o, [op[s][o] EXCEPT !.sent = TRUE])
      /\ op'[s][o].kind = p.kind /\ op'[s][o].call = d /\ op'[s][o].sent
  <2>1. op[s][o].kind # "none" /\ op[s][o].kind = p.kind /\ op[s][o].call = d
    BY <1>2, <1>3
  <2>2. /\ OpBecomes(s, o, [op[s][o] EXCEPT !.sent = TRUE])
        /\ op'[s][o].kind = op[s][o].kind /\ op'[s][o].call = op[s][o].call
        /\ op'[s][o].session = op[s][o].session /\ op'[s][o].sent
    BY <1>0, <1>1, <2>1, SentEffect
  <2> QED
    BY <2>1, <2>2
<1>6. ASSUME NEW u \in Sides, NEW q \in Slots, ~(u = s /\ q = o)
      PROVE  op'[u][q] = op[u][q]
  BY <1>5, <1>6 DEF OpBecomes
<1>7. AsksLess
  <2>1. ASSUME NEW u \in Sides, NEW c \in Calls, Unasked(u, c)' PROVE Unasked(u, c)
    <3>1. PICK q \in Slots : /\ op'[u][q].call = c /\ ~op'[u][q].sent
                             /\ op'[u][q].kind \in {"offer", "request"}
      BY <2>1 DEF Unasked
    <3>2. ~(u = s /\ q = o)
      BY <1>5, <3>1
    <3> QED
      BY <1>6, <3>1, <3>2 DEF Unasked
  <2> QED
    BY <1>2, <1>5, <1>6, <2>1 DEF AsksLess, Sending
<1>8. ClosedStays
  BY <1>1, StillClosed
<1>9. /\ p.kind \in {"request", "cancel"} => caller[d] = {s}
      /\ p.kind \in {"answer", "decline"} => caller[d] = {Other(s)}
      /\ p.kind = "cancel" => sess[Offer(s, d)] = "closed"
  BY <1>2, <1>3 DEF OpFits, RequestFits, AnswerFits, CancelFits, DeclineFits
<1>10. MessageFits(m)
  <2>1. p.kind \in {"request", "answer", "cancel", "decline"}
    BY <1>2 DEF Sending
  <2> QED
    BY <1>0, <1>4, <1>9, <2>1 DEF MessageFits
<1>11. MessageFits(m)'
  BY <1>1, <1>10 DEF MessageFits, Offer, Other
<1>12. caller[d] # {} /\ CallersKept
  BY <1>1, <1>10, <1>4 DEF MessageFits, CallersKept
<1>13. ASSUME NEW c \in Calls, c # d PROVE Calm(c)
  <2>1. Asked(c)' => Asked(c)
    BY <1>1, <1>4, <1>13 DEF Asked
  <2> QED
    BY <1>1, <1>7, <2>1 DEF Calm, AsksLess
<1>14. ASSUME NEW t \in Sides, caller'[d] = {t} PROVE RingFitsOnce(t, d)'
  <2>1. RingFitsOnce(t, d)
    BY <1>1, <1>14 DEF CallInv, RingsOnce
  <2>2. /\ Untouched(t, d)' <=> Untouched(t, d)
        /\ Untouched(Other(t), d)' <=> Untouched(Other(t), d)
        /\ taps'[d] = taps[d]
    BY <1>1 DEF Untouched, Other
  <2>3. CASE p.kind = "request"
    <3>1. t = s
      BY <1>1, <1>9, <1>14, <2>3
    <3>2. Unasked(s, d)
      BY <1>1, <1>2, <1>3, <2>3 DEF Unasked
    <3>3. ~Unasked(s, d)'
      <4>1. ASSUME NEW q \in Slots, ~op'[s][q].sent,
                   op'[s][q].kind \in {"offer", "request"}
            PROVE  FALSE
        <5>1. q # o
          BY <1>5, <4>1
        <5>2. op'[s][q] = op[s][q]
          BY <1>6, <5>1
        <5> QED
          BY <1>0, <1>2, <2>3, <4>1, <5>1, <5>2, AsksForOne
      <4> QED
        BY <4>1 DEF Unasked
    <3> QED
      BY <1>7, <2>1, <2>2, <3>1, <3>2, <3>3 DEF RingFitsOnce, AsksLess
  <2>4. CASE p.kind # "request"
    <3>1. Asked(d)' => Asked(d)
      BY <1>1, <1>4, <2>4 DEF Asked
    <3> QED
      BY <1>7, <2>1, <2>2, <3>1 DEF RingFitsOnce, AsksLess
  <2> QED
    BY <2>3, <2>4
<1>15. ASSUME NEW t \in Sides
       PROVE  /\ EndFits(t, d)'
              /\ missed'[t][d] <= 1 /\ (missed'[t][d] > 0 => d \notin talked'[t])
  BY <1>1, <1>8, <1>12, EndFitsKept DEF StateEases
<1> QED
  BY <1>0, <1>1, <1>4, <1>8, <1>11, <1>12, <1>13, <1>14, <1>15, Disturbed

LEMMA CallInbound ==
    ASSUME CallAssumption, Base, Base', CallInv, SideInv', NEW m \in net, Inbound(m)
    PROVE  CallInv'
<1>1. PICK s \in Sides, d \in Calls : s = m.to /\ d = m.call
  BY DEF Base, TypeOK, Signals
<1>0. /\ TypeOK /\ TypeOK' /\ SideFits(s) /\ NoCall \in Calls \cup {NoCall}
      /\ d # NoCall /\ m \in Signals /\ MessageFits(m)
      /\ Other(s) \in Sides /\ Other(s) # s /\ Other(Other(s)) = s
      /\ \A t \in Sides : t = s \/ t = Other(s)
  <2>1. TypeOK /\ TypeOK' /\ SideFits(s) /\ MessageFits(m)
    BY DEF Base, CallInv, SideInv, NetFits
  <2>2. m \in Signals
    BY <2>1 DEF TypeOK
  <2> QED
    BY <2>1, <2>2, TheOther DEF Calls, NoCall
<1>2. CASE InboundRing(m)
  <2>1. /\ net' = net \ {m} /\ m.kind = "request" /\ IsIdle(s)
        /\ Become(s, "incoming", d) /\ timer' = [timer EXCEPT ![s] = d]
        /\ UNCHANGED <<media, op, sess, caller, taps, missed, talked>>
    BY <1>1, <1>2 DEF InboundRing, Arrives, ArmRingTimer, Ghosts
  <2>2. caller[d] = {Other(s)} /\ m.tap = 0
    BY <1>0, <1>1, <2>1 DEF MessageFits
  <2>3. "incoming" \in Phases
    BY DEF Phases
  <2>4. /\ state'[s] = [phase |-> "incoming", call |-> d]
        /\ \A t \in Sides : t # s => state'[t] = state[t]
    BY <1>0, <2>1, <2>3, BecomeEffect
  <2>5. timer'[s] = d /\ \A t \in Sides : t # s => timer'[t] = timer[t]
    BY <1>0, <2>1, TimerEffect
  <2>6. AsksLess /\ ClosedStays /\ CallersKept
    BY <2>1, SameOpsAskLess, StillClosed DEF CallersKept
  <2>7. /\ RingFitsOnce(Other(s), d) /\ Asked(d)
        /\ ~Unasked(Other(s), d) /\ taps[d] = 0 /\ Untouched(s, d)
    <3>1. RingFitsOnce(Other(s), d) /\ Asked(d)
      BY <1>0, <1>1, <2>1, <2>2 DEF CallInv, RingsOnce, Asked
    <3> QED
      BY <1>0, <3>1 DEF RingFitsOnce
  <2>8. ASSUME NEW n \in net, n.kind = "request", n.call = d PROVE n = m
    <3>1. n \in Signals /\ MessageFits(n) /\ n.to \in Sides
      BY <1>0 DEF TypeOK, Signals, CallInv, NetFits
    <3>2. n.tap = 0 /\ Other(n.to) = Other(s)
      BY <2>2, <2>8, <3>1 DEF MessageFits
    <3>3. n.to = s
      BY <1>0, <3>1, <3>2
    <3> QED
      BY <1>0, <1>1, <2>1, <2>2, <2>8, <3>1, <3>2, <3>3 DEF Signals
  <2>9. ~Asked(d)'
    BY <2>1, <2>8 DEF Asked
  <2>10. ASSUME NEW c \in Calls, c # d PROVE Calm(c)
    <3>1. Asked(c)' => Asked(c)
      BY <2>1 DEF Asked
    <3>2. \A u \in Sides : /\ state'[u].call = c => state[u].call = c
                           /\ state'[u].call = c /\ state'[u].phase \in {"outgoing", "incoming"}
                                => state'[u] = state[u]
                           /\ timer'[u] = c => timer[u] = c
      BY <2>4, <2>5, <2>10
    <3> QED
      BY <2>1, <2>6, <3>1, <3>2 DEF Calm, AsksLess
  <2>11. ASSUME NEW t \in Sides, caller'[d] = {t} PROVE RingFitsOnce(t, d)'
    <3>1. t = Other(s) /\ t # s
      BY <1>0, <2>1, <2>2, <2>11
    <3>2. ~Unasked(t, d)'
      BY <2>6, <2>7, <3>1 DEF AsksLess
    <3>3. Untouched(t, d) => Untouched(t, d)'
      BY <2>1, <2>4, <3>1 DEF Untouched
    <3>4. RingFitsOnce(t, d)
      BY <2>7, <3>1
    <3> QED
      BY <2>6, <2>9, <3>2, <3>3, <3>4 DEF RingFitsOnce, AsksLess
  <2>12. ASSUME NEW t \in Sides
         PROVE  /\ EndFits(t, d)'
                /\ missed'[t][d] <= 1 /\ (missed'[t][d] > 0 => d \notin talked'[t])
    <3>1. CASE t = s
      <4>1. missed'[t][d] = 0 /\ d \notin talked'[t] /\ taps'[d] = 0
        BY <2>1, <2>7, <3>1 DEF Untouched
      <4>2. ~(missed'[t][d] > 0) /\ missed'[t][d] <= 1
        BY <4>1
      <4> QED
        BY <4>1, <4>2 DEF EndFits
    <3>2. CASE t # s
      <4>1. StateEases(t) /\ timer'[t] = timer[t]
        BY <2>4, <2>5, <3>2 DEF StateEases
      <4> QED
        BY <2>1, <2>2, <2>6, <4>1, EndFitsKept
    <3> QED
      BY <3>1, <3>2
  <2> QED
    BY <1>0, <2>1, <2>2, <2>6, <2>10, <2>11, <2>12, Disturbed
<1>3. CASE InboundDeclined(m)
  <2>1. /\ net' = net \ {m} /\ timer' = [timer EXCEPT ![s] = NoCall]
        /\ TeardownMedia(s) /\ End(s) /\ UNCHANGED <<op, caller, taps, missed, talked>>
    BY <1>1, <1>3 DEF InboundDeclined, Arrives, StopRingTimer, Ghosts
  <2>2. Dropped(s)
    BY <1>0, <2>1, TeardownEffect
  <2>3. \A t \in Sides : timer'[t] \in {timer[t], NoCall} /\ StateEases(t)
    BY <1>0, <2>1, EndEffect, TimerEffect DEF StateEases
  <2>4. AsksLess /\ ClosedStays
    BY <2>1, <2>2, SameOpsAskLess, StillClosed DEF Dropped
  <2> QED
    BY <1>0, <2>1, <2>3, <2>4, CalmStepKeeps
<1>4. CASE InboundCancelled(m)
  <2>1. /\ net' = net \ {m} /\ m.kind = "decline" /\ In(s, "incoming", d)
        /\ timer' = [timer EXCEPT ![s] = NoCall] /\ End(s)
        /\ missed' = [missed EXCEPT ![s][d] = @ + 1]
        /\ UNCHANGED <<media, op, sess, caller, taps, talked>>
    BY <1>1, <1>4 DEF InboundCancelled, Arrives, StopRingTimer
  <2>2. /\ state'[s] = [phase |-> "ended", call |-> NoCall]
        /\ \A t \in Sides : t # s => state'[t] = state[t]
    BY <1>0, <2>1, EndEffect
  <2>3. \A t \in Sides : timer'[t] \in {timer[t], NoCall} /\ StateEases(t)
    BY <1>0, <2>1, <2>2, TimerEffect DEF StateEases
  <2>4. AsksLess /\ ClosedStays /\ CallersKept
    BY <2>1, SameOpsAskLess, StillClosed DEF CallersKept
  <2>5. caller[d] = {Other(s)} /\ state[s].call = d /\ Ringing(s, d)
    BY <1>0, <2>1 DEF SideFits, RingFits, In, Ringing
  <2>6. missed[s][d] = 0 /\ d \notin talked[s]
    BY <2>5 DEF CallInv, RingEnds, EndFits
  <2>7. /\ missed'[s][d] = 1
        /\ \A t \in Sides, c \in Calls : ~(t = s /\ c = d) => missed'[t][c] = missed[t][c]
    BY <1>0, <2>1, <2>6 DEF TypeOK
  <2>8. sess[Offer(Other(s), d)] = "closed"
    BY <1>0, <1>1, <2>1, <2>5 DEF MessageFits
  <2>9. ASSUME NEW c \in Calls, c # d PROVE Calm(c)
    <3>1. Asked(c)' => Asked(c)
      BY <2>1 DEF Asked
    <3>2. c # NoCall
      BY DEF Calls, NoCall
    <3>3. \A u \in Sides : missed'[u][c] = missed[u][c]
      BY <2>7, <2>9
    <3> QED
      BY <2>1, <2>3, <2>4, <3>1, <3>2, <3>3 DEF Calm, AsksLess, StateEases
  <2>10. ASSUME NEW t \in Sides, caller'[d] = {t} PROVE RingFitsOnce(t, d)'
    <3>1. t = Other(s) /\ t # s
      BY <1>0, <2>1, <2>5, <2>10
    <3>2. RingFitsOnce(t, d) /\ ~Untouched(Other(t), d)
      BY <1>0, <2>5, <3>1 DEF CallInv, RingsOnce, Untouched
    <3>3. ~Asked(d)' /\ ~Unasked(t, d)'
      BY <2>1, <2>4, <3>2 DEF RingFitsOnce, Asked, AsksLess
    <3>4. Untouched(t, d) => Untouched(t, d)'
      BY <2>1, <2>2, <2>7, <3>1 DEF Untouched
    <3> QED
      BY <2>4, <3>2, <3>3, <3>4 DEF RingFitsOnce, AsksLess
  <2>11. ASSUME NEW t \in Sides
         PROVE  /\ EndFits(t, d)'
                /\ missed'[t][d] <= 1 /\ (missed'[t][d] > 0 => d \notin talked'[t])
    <3>1. CASE t = s
      <4>1. ~Ringing(t, d)' /\ ~In(t, "incoming", d)' /\ state'[t].call # d
        BY <1>0, <2>2, <3>1 DEF Ringing, In
      <4>2. (sess[Offer(Other(t), d)] = "closed")'
        BY <2>1, <2>8, <3>1 DEF Offer, Other
      <4>3. EndFits(t, d)'
        BY <4>1, <4>2 DEF EndFits
      <4> QED
        BY <2>1, <2>6, <2>7, <3>1, <4>3
    <3>2. CASE t # s
      <4>1. missed'[t][d] = missed[t][d] /\ (timer'[t] = d => timer[t] = d)
        BY <1>0, <2>3, <2>7, <3>2
      <4> QED
        BY <2>1, <2>3, <2>4, <2>5, <4>1, EndFitsKept
    <3> QED
      BY <3>1, <3>2
  <2> QED
    BY <1>0, <2>1, <2>4, <2>5, <2>9, <2>10, <2>11, Disturbed
<1>5. CASE InboundStale(m)
  <2>1. /\ net' = net \ {m}
        /\ UNCHANGED <<state, timer, op, sess, caller, taps, missed, talked>>
    BY <1>5 DEF InboundStale, Ghosts
  <2>2. AsksLess /\ ClosedStays /\ \A t \in Sides : StateEases(t)
    BY <2>1, SameOpsAskLess, StillClosed DEF StateEases
  <2> QED
    BY <1>0, <2>1, <2>2, CalmStepKeeps
<1>6. CASE InboundBusy(m)
  <2>1. PICK n \in Signals : /\ net' = (net \ {m}) \cup {n} /\ n.kind = "decline"
                             /\ n.call = d /\ n.to = Other(s)
    <3> DEFINE n == [kind |-> "decline", call |-> d, to |-> Other(s), tap |-> 0]
    <3>1. n \in Signals /\ n.kind = "decline" /\ n.call = d /\ n.to = Other(s)
      BY <1>0 DEF Signals, CallAssumption
    <3>2. net' = (net \ {m}) \cup {n}
      BY <1>1, <1>6 DEF InboundBusy
    <3> QED
      BY <3>1, <3>2
  <2>2. /\ m.kind = "request"
        /\ UNCHANGED <<state, timer, op, sess, caller, taps, missed, talked>>
    BY <1>6 DEF InboundBusy, Ghosts
  <2>3. caller[d] = {Other(s)}
    BY <1>0, <1>1, <2>2 DEF MessageFits
  <2>4. MessageFits(n)
    BY <1>0, <2>1, <2>3 DEF MessageFits
  <2>5. MessageFits(n)'
    BY <2>2, <2>4 DEF MessageFits, Offer, Other
  <2>6. AsksLess /\ ClosedStays /\ CallersKept
    BY <2>2, SameOpsAskLess, StillClosed DEF CallersKept
  <2>7. ASSUME NEW c \in Calls PROVE Calm(c)
    <3>1. Asked(c)' => Asked(c)
      BY <2>1 DEF Asked
    <3> QED
      BY <2>2, <2>6, <3>1 DEF Calm, AsksLess
  <2>8. NoCall \notin Calls
    BY DEF NoCall, Calls
  <2>9. \A k \in net' : k \in net \/ MessageFits(k)'
    BY <2>1, <2>5
  <2> HIDE DEF NoCall
  <2> QED
    BY <1>0, <2>6, <2>7, <2>8, <2>9, Disturbed
<1>7. CASE InboundAnswer(m)
  <2>1. /\ net' = net \ {m} /\ In(s, "outgoing", d)
        /\ timer' = [timer EXCEPT ![s] = NoCall]
        /\ Become(s, "connecting", d) /\ Begin(s, "start", d, media[s])
        /\ UNCHANGED <<media, sess, caller, taps, missed, talked>>
    BY <1>1, <1>7 DEF InboundAnswer, Arrives, StopRingTimer, Ghosts
  <2>2. PICK x \in Sessions \cup {NoMedia} : x = media[s]
    BY <1>0 DEF TypeOK
  <2>3. /\ "connecting" \in Phases /\ "start" \in OpKinds
        /\ Op("start", d, x).kind = "start"
    BY DEF Phases, OpKinds, Op
  <2>4. /\ state'[s] = [phase |-> "connecting", call |-> d]
        /\ \A t \in Sides : t # s => state'[t] = state[t]
    BY <1>0, <2>1, <2>3, BecomeEffect
  <2>5. \E o \in Slots : OpBecomes(s, o, Op("start", d, x))
    BY <1>0, <2>1, <2>2, <2>3, BeginEffect
  <2>6. AsksLess /\ ClosedStays
    BY <2>1, <2>3, <2>5, OpsAskLess, StillClosed
  <2>7. \A t \in Sides : timer'[t] \in {timer[t], NoCall} /\ StateEases(t)
    BY <1>0, <2>1, <2>4, TimerEffect DEF StateEases, In
  <2> QED
    BY <1>0, <2>1, <2>6, <2>7, CalmStepKeeps
<1> QED
  BY <1>2, <1>3, <1>4, <1>5, <1>6, <1>7 DEF Inbound

LEMMA CallTimer ==
    ASSUME CallAssumption, Base, Base', CallInv, SideInv', NEW s \in Sides,
           RingTimerFires(s)
    PROVE  CallInv'
<1>0. /\ TypeOK /\ TypeOK' /\ SideFits(s) /\ NoCall \in Calls \cup {NoCall}
      /\ Other(s) \in Sides /\ Other(s) # s /\ Other(Other(s)) = s
      /\ \A t \in Sides : t = s \/ t = Other(s)
  BY TheOther DEF Base, CallInv, SideInv
<1>1. PICK d \in Calls : d = timer[s] /\ d # NoCall
  BY <1>0 DEF RingTimerFires, TypeOK
<1>2. timer' = [timer EXCEPT ![s] = NoCall] /\ ~Gathering(s)
      /\ UNCHANGED <<op, net, caller, taps, talked>>
  BY DEF RingTimerFires, StopRingTimer
<1>3. \A t \in Sides : timer'[t] \in {timer[t], NoCall} /\ timer'[s] = NoCall
  BY <1>0, <1>2, TimerEffect
<1>4. AsksLess /\ CallersKept
  BY <1>2, SameOpsAskLess DEF CallersKept
<1>5. CASE ~Ringing(s, d)
  <2>1. UNCHANGED <<state, media, sess, missed>>
    BY <1>1, <1>5 DEF RingTimerFires
  <2>2. ClosedStays /\ \A t \in Sides : StateEases(t)
    BY <2>1, StillClosed DEF StateEases
  <2> QED
    BY <1>0, <1>2, <1>3, <1>4, <2>1, <2>2, CalmStepKeeps
<1>6. CASE Ringing(s, d)
  <2>1. /\ TeardownMedia(s) /\ End(s) /\ missed' = [missed EXCEPT ![s][d] = @ + 1]
    BY <1>1, <1>6 DEF RingTimerFires
  <2>2. Dropped(s)
    BY <1>0, <2>1, TeardownEffect
  <2>3. /\ state'[s] = [phase |-> "ended", call |-> NoCall]
        /\ \A t \in Sides : t # s => state'[t] = state[t]
    BY <1>0, <2>1, EndEffect
  <2>4. ClosedStays /\ \A t \in Sides : StateEases(t)
    BY <2>2, <2>3, StillClosed DEF StateEases, Dropped
  <2>5. missed[s][d] = 0 /\ d \notin talked[s]
    BY <1>6 DEF CallInv, RingEnds, EndFits
  <2>6. /\ missed'[s][d] = 1
        /\ \A t \in Sides, c \in Calls : ~(t = s /\ c = d) => missed'[t][c] = missed[t][c]
    BY <1>0, <2>1, <2>5 DEF TypeOK
  <2>7. \/ In(s, "outgoing", d) /\ caller[d] = {s}
        \/ In(s, "incoming", d) /\ caller[d] = {Other(s)} /\ taps[d] = 0
    <3>1. In(s, "outgoing", d) => caller[d] = {s}
      BY <1>0 DEF In, SideFits, RingFits
    <3>2. In(s, "incoming", d) => caller[d] = {Other(s)}
      BY <1>0 DEF In, SideFits, RingFits
    <3>3. In(s, "incoming", d) => taps[d] = 0
      BY <1>1 DEF CallInv, RingEnds, EndFits
    <3> QED
      BY <1>6, <3>1, <3>2, <3>3 DEF Ringing
  <2>8. ASSUME NEW c \in Calls, c # d PROVE Calm(c)
    <3>1. Asked(c)' => Asked(c)
      BY <1>2 DEF Asked
    <3>2. c # NoCall
      BY DEF Calls, NoCall
    <3>3. \A u \in Sides : missed'[u][c] = missed[u][c]
      BY <2>6, <2>8
    <3> QED
      BY <1>2, <1>3, <1>4, <2>4, <3>1, <3>2, <3>3 DEF Calm, AsksLess, StateEases
  <2>9. state[s].call = d
    BY <2>7 DEF In
  <2>10. ASSUME NEW t \in Sides, caller'[d] = {t} PROVE RingFitsOnce(t, d)'
    <3>1. RingFitsOnce(t, d) /\ caller[d] = {t}
      BY <1>2, <2>10 DEF CallInv, RingsOnce
    <3>2. CASE t = s
      <4>1. PICK u \in Sides : u = Other(s) /\ u # s
        BY <1>0
      <4>2. Untouched(u, d) => Untouched(u, d)'
        BY <1>2, <2>3, <2>6, <4>1 DEF Untouched
      <4>3. Untouched(Other(s), d) => Untouched(Other(s), d)'
        BY <4>1, <4>2 DEF Untouched, Other
      <4>4. \A q \in Slots : op'[s][q].kind # "offer"
        BY <1>2 DEF Gathering
      <4>5. (Asked(d)' <=> Asked(d)) /\ taps'[d] = taps[d]
        BY <1>2 DEF Asked
      <4> QED
        BY <1>4, <3>1, <3>2, <4>3, <4>4, <4>5 DEF RingFitsOnce, AsksLess
    <3>3. CASE t # s
      <4>1. Other(t) = s /\ ~Untouched(Other(t), d)
        BY <1>0, <2>9, <3>3 DEF Untouched
      <4>2. ~Asked(d)' /\ ~Unasked(t, d)'
        BY <1>2, <1>4, <3>1, <4>1 DEF RingFitsOnce, Asked, AsksLess
      <4>3. Untouched(t, d) => Untouched(t, d)'
        BY <1>2, <2>3, <2>6, <3>3 DEF Untouched
      <4> QED
        BY <1>4, <3>1, <4>2, <4>3 DEF RingFitsOnce, AsksLess
    <3> QED
      BY <3>2, <3>3
  <2>11. ASSUME NEW t \in Sides
         PROVE  /\ EndFits(t, d)'
                /\ missed'[t][d] <= 1 /\ (missed'[t][d] > 0 => d \notin talked'[t])
    <3>1. CASE t = s
      <4>1. ~Ringing(t, d)' /\ ~In(t, "incoming", d)' /\ state'[t].call # d
        BY <1>1, <2>3, <3>1 DEF Ringing, In
      <4>2. caller'[d] # {t} => taps'[d] = 0
        BY <1>2, <2>7, <3>1
      <4>3. EndFits(t, d)'
        BY <4>1, <4>2 DEF EndFits
      <4> QED
        BY <1>2, <2>5, <2>6, <3>1, <4>3
    <3>2. CASE t # s
      <4>1. missed'[t][d] = missed[t][d] /\ (timer'[t] = d => timer[t] = d)
        BY <1>1, <1>3, <2>6, <3>2
      <4> QED
        BY <1>2, <2>4, <2>7, <4>1, EndFitsKept
    <3> QED
      BY <3>1, <3>2
  <2> QED
    BY <1>0, <1>2, <1>4, <2>4, <2>7, <2>8, <2>10, <2>11, Disturbed
<1> QED
  BY <1>5, <1>6

\* ICE connects a session whose counterpart is still up, so a side that missed
\* the call is not the one that connects.
LEMMA CallConnects ==
    ASSUME CallAssumption, Base, Base', CallInv, SideInv', NEW x \in Sessions,
           MediaConnects(x)
    PROVE  CallInv'
<1>1. PICK s \in Sides, d \in Calls : s = x[1] /\ d = x[2]
  BY SessionsAreTriples
<1>0. /\ TypeOK /\ TypeOK' /\ SideFits(s) /\ d # NoCall
      /\ Other(s) \in Sides /\ Other(s) # s /\ Other(Other(s)) = s
      /\ \A t \in Sides : t = s \/ t = Other(s)
  BY TheOther DEF Base, CallInv, SideInv, Calls, NoCall
<1>2. sess[x] = "checking" /\ sess[Partner(x)] \in {"checking", "connected"}
  BY DEF MediaConnects
<1>3. In(s, "connecting", d) /\ state[s].call = d
  <2>1. In(s, "connecting", x[2])
    BY <1>0, <1>1, <1>2, ReportedIsCurrent
  <2> QED
    BY <1>1, <2>1 DEF In
<1>4. /\ sess' = [sess EXCEPT ![x] = "connected"] /\ Become(s, "active", d)
      /\ talked' = [talked EXCEPT ![s] = @ \cup {d}]
      /\ UNCHANGED <<timer, op, net, caller, taps, missed>>
  BY <1>1, <1>3 DEF MediaConnects
<1>5. "active" \in Phases
  BY DEF Phases
<1>6. /\ state'[s] = [phase |-> "active", call |-> d]
      /\ \A t \in Sides : t # s => state'[t] = state[t]
  BY <1>0, <1>4, <1>5, BecomeEffect
<1>7. /\ \A t \in Sides : t # s => talked'[t] = talked[t]
      /\ \A c \in Calls : c # d => (c \in talked'[s] => c \in talked[s])
  BY <1>0, <1>4 DEF TypeOK
<1>8. AsksLess /\ ClosedStays /\ CallersKept /\ \A t \in Sides : StateEases(t)
  <2>1. ClosedStays
    BY <1>0, <1>2, <1>4, StillClosed DEF TypeOK
  <2>2. \A t \in Sides : StateEases(t)
    BY <1>3, <1>6 DEF StateEases
  <2> QED
    BY <1>4, <2>1, <2>2, SameOpsAskLess DEF CallersKept
<1>9. taps[d] > 0 /\ caller[d] # {}
  <2>1. taps[d] > 0
    BY <1>3 DEF Base, Accepted, ConnectedWasAccepted
  <2> QED
    BY <1>0, <2>1, Unminted
<1>10. missed[s][d] = 0
  <2>1. missed[s][d] \in Nat /\ EndFits(s, d)
    BY <1>0 DEF TypeOK, CallInv, RingEnds
  <2>2. CASE caller[d] = {s}
    BY <1>3, <2>1, <2>2 DEF EndFits
  <2>3. CASE caller[d] # {s}
    <3>1. Partner(x) = Offer(Other(s), d)
      BY <1>1, <2>3 DEF Partner, Offer
    <3> QED
      BY <1>2, <1>9, <2>1, <2>3, <3>1 DEF EndFits
  <2> QED
    BY <2>2, <2>3
<1>11. ASSUME NEW c \in Calls, c # d PROVE Calm(c)
  <2>1. Asked(c)' => Asked(c)
    BY <1>4 DEF Asked
  <2>2. c # NoCall /\ \A u \in Sides : c \in talked'[u] => c \in talked[u]
    BY <1>7, <1>11 DEF Calls, NoCall
  <2> QED
    BY <1>4, <1>8, <2>1, <2>2 DEF Calm, AsksLess, StateEases
<1>12. ASSUME NEW t \in Sides, caller'[d] = {t} PROVE RingFitsOnce(t, d)'
  <2>1. RingFitsOnce(t, d)
    BY <1>4, <1>12 DEF CallInv, RingsOnce
  <2>2. ~Asked(d) /\ ~Unasked(t, d)
    <3>1. taps[d] # 0
      BY <1>9
    <3> QED
      BY <2>1, <3>1 DEF RingFitsOnce
  <2>3. ~Asked(d)' /\ ~Unasked(t, d)'
    BY <1>4, <1>8, <2>2 DEF Asked, AsksLess
  <2>4. Untouched(t, d) => Untouched(t, d)'
    <3>1. ~Untouched(s, d)
      BY <1>3 DEF Untouched
    <3>2. t # s /\ Untouched(t, d) => Untouched(t, d)'
      BY <1>4, <1>6, <1>7 DEF Untouched
    <3> QED
      BY <3>1, <3>2
  <2> QED
    BY <1>8, <2>1, <2>3, <2>4 DEF RingFitsOnce, AsksLess
<1>13. ASSUME NEW t \in Sides
       PROVE  /\ EndFits(t, d)'
              /\ missed'[t][d] <= 1 /\ (missed'[t][d] > 0 => d \notin talked'[t])
  <2>1. CASE t = s
    <3>1. ~Ringing(t, d)' /\ ~In(t, "incoming", d)'
      BY <1>6, <2>1 DEF Ringing, In
    <3>2. missed'[t][d] = 0
      BY <1>4, <1>10, <2>1
    <3>3. ~(missed'[t][d] > 0) /\ missed'[t][d] <= 1
      BY <3>2
    <3> QED
      BY <3>1, <3>3 DEF EndFits
  <2>2. CASE t # s
    BY <1>4, <1>7, <1>8, <1>9, <2>2, EndFitsKept
  <2> QED
    BY <2>1, <2>2
<1> QED
  BY <1>0, <1>4, <1>8, <1>9, <1>11, <1>12, <1>13, Disturbed

LEMMA CallMediaEnds ==
    ASSUME CallAssumption, Base, Base', CallInv, SideInv', NEW x \in Sessions,
           MediaFails(x) \/ MediaRemoteEnded(x)
    PROVE  CallInv'
<1>1. PICK s \in Sides : s = x[1]
  BY SessionsAreTriples
<1>0. TypeOK /\ TypeOK' /\ SideFits(s)
  BY DEF Base, CallInv, SideInv
<1>2. /\ Dropped(s) /\ End(s)
      /\ UNCHANGED <<timer, op, net, answered, caller, taps, missed, talked>>
  BY <1>0, <1>1, EndsDrop
<1>3. \A t \in Sides : StateEases(t)
  BY <1>0, <1>2, EndEffect DEF StateEases
<1>4. AsksLess /\ ClosedStays
  BY <1>2, SameOpsAskLess, StillClosed DEF Dropped
<1> QED
  BY <1>0, <1>2, <1>3, <1>4, CalmStepKeeps

LEMMA CallStep ==
    ASSUME CallAssumption, Patient, Base, Base', CallInv, [Next]_vars
    PROVE  CallInv'
<1>0. SideInv'
  BY SideStep DEF CallInv
<1>1. CASE \E s \in Sides, o \in Slots : Resume(s, o) \/ SignalLeaves(s, o)
  BY <1>0, <1>1, CallResumes, CallSends
<1>2. CASE \E s \in Sides : Tap(s) \/ RingTimerFires(s)
  BY <1>0, <1>2, CallTaps, CallTimer
<1>3. CASE \E m \in net : Inbound(m)
  BY <1>0, <1>3, CallInbound
<1>4. CASE \E x \in Sessions : IceVerdict(x) \/ MediaRemoteEnded(x)
  BY <1>0, <1>4, CallConnects, CallMediaEnds DEF IceVerdict
<1>5. CASE UNCHANGED vars
  <2>1. UNCHANGED <<state, timer, op, net, sess, caller, taps, missed, talked>>
    BY <1>5 DEF vars
  <2>2. AsksLess /\ ClosedStays /\ \A t \in Sides : StateEases(t)
    BY <2>1, SameOpsAskLess, StillClosed DEF StateEases
  <2> QED
    BY <1>0, <2>1, <2>2, CalmStepKeeps DEF Base
<1> QED
  BY <1>1, <1>2, <1>3, <1>4, <1>5 DEF Next

\* With patient taps, one operation of a side at a time serves the user, and the
\* states, sessions, signals and records of both sides agree at every step.
THEOREM CallInductive ==
    ASSUME Patient PROVE Spec => [](Base /\ CallInv)
<1>1. Init => Base /\ CallInv
  BY CallAssumption, InitBase, InitCallInv
<1>2. Base /\ CallInv /\ [Next]_vars => (Base /\ CallInv)'
  BY CallAssumption, BaseStep, CallStep
<1> QED
  BY <1>1, <1>2, PTL DEF Spec

\* onMissedCall fires at most once for a call, and never for one the side talked
\* on: a cancel, a ring timer and a late answer cannot each have their way.
THEOREM MissedAtMostOnce ==
    ASSUME Patient PROVE Spec => []CallsConsistent
<1>1. Base /\ CallInv => CallsConsistent
  BY DEF Base, CallInv, CallsConsistent
<1> QED
  BY <1>1, CallInductive, PTL

\* teardownMedia reaches every session: once a side's operations have returned it
\* holds a session only for the call on its screen.
THEOREM MicrophoneFollowsScreen ==
    ASSUME Patient PROVE Spec => []MediaFollowsState
<1>1. Base /\ CallInv => MediaFollowsState
  <2>1. SUFFICES ASSUME Base, CallInv, NEW s \in Sides, \A o \in Slots : op[s][o] = NoOp,
                        NEW x \in Open, x[1] = s
                 PROVE  \E p \in {"outgoing", "connecting", "active"} : In(s, p, x[2])
    BY DEF MediaFollowsState
  <2>2. media[s] = x /\ x # NoMedia
    <3>1. x \in Sessions /\ MediaFits(s)
      BY <2>1 DEF Open, CallInv, SideInv, SideFits
    <3> QED
      BY <2>1, <3>1, SessionsAreTriples DEF MediaFits
  <2> QED
    BY <2>1, <2>2, NoOpIsOp DEF CallInv, SideInv, SideFits, MediaFits
<1> QED
  BY <1>1, CallInductive, PTL

\* startCall's "one call at a time" holds of the microphone when taps are
\* patient: only a tap beside a suspended operation can open a second session.
THEOREM PatientOneCallAtATime ==
    ASSUME Patient PROVE Spec => []OneCallAtATime
<1>1. Base /\ CallInv => OneCallAtATime
  <2>1. SUFFICES ASSUME CallInv, NEW x \in Open, NEW y \in Open, x[1] = y[1]
                 PROVE  x = y
    BY DEF OneCallAtATime
  <2>2. PICK s \in Sides : s = x[1]
    BY <2>1, SessionsAreTriples DEF Open
  <2>3. MediaFits(s)
    BY <2>1, <2>2 DEF CallInv, SideInv, SideFits
  <2> QED
    BY <2>1, <2>2, <2>3 DEF MediaFits
<1> QED
  BY <1>1, CallInductive, PTL
=============================================================================
