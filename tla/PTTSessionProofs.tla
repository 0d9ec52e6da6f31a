-------------------------- MODULE PTTSessionProofs --------------------------
(***************************************************************************)
(* Theorems about PTTSession, for any number of presses, frames and any    *)
(* window: the microphone follows the hold, a session is closed once, the  *)
(* live flag is honest, no frame is played twice, the replay window is     *)
(* exact, and the listener settles when the talker has closed.             *)
(***************************************************************************)
EXTENDS PTTSession, SequenceTheorems, TLAPS

talkerVars == <<holdVars, taskVars, captureVars, slot, closing, calls>>

Early == {"none", "entry", "opening", "routed"}

\* The talker's variables have their types.
Flags ==
    /\ pressed \in BOOLEAN /\ holding \in BOOLEAN
    /\ abort \in BOOLEAN /\ denied \in BOOLEAN

Scalars ==
    /\ token \in 0 .. MaxHolds /\ sessionID \in 0 .. MaxHolds
    /\ mic \in {"idle", "starting", "recording"}
    /\ owner \in 0 .. MaxHolds /\ sealer \in 0 .. MaxHolds
    /\ slot \in 0 .. MaxHolds

Tables ==
    /\ stage \in [Holds -> {"none", "entry", "opening", "routed", "gateB",
                            "permission", "gateC", "done"}]
    /\ live \in [Holds -> 0 .. MaxHolds]
    /\ closing \subseteq Holds /\ calls \in [Holds -> Nat]

TalkerTypes == Flags /\ Scalars /\ Tables

\* A press has a Task only once it is made, and a Task a session only once its
\* open returned; until Gate B nobody has closed it.
TasksInv ==
    /\ holding => pressed
    /\ \A h \in Holds :
         /\ h > token => stage[h] = "none"
         /\ live[h] \in {0, h}
         /\ stage[h] \in Early => live[h] = 0
         /\ stage[h] \in Early \cup {"gateB"} => calls[h] = 0
         /\ calls[h] <= (IF live[h] = h THEN 1 ELSE 0)

\* pttSessionID names the unclosed session of the press being held, and past
\* Gate B the Task of that press knows it.
ArmedInv ==
    /\ sessionID # 0 =>
         /\ Current(sessionID)
         /\ live[sessionID] = sessionID
         /\ calls[sessionID] = 0
         /\ stage[sessionID] \in {"permission", "gateC", "done"}
    /\ \A h \in Holds :
         stage[h] \in {"permission", "gateC"} /\ Current(h) => sessionID = live[h]

\* The engine starts for the one Task that waits for the permission.
EngineInv ==
    /\ \A h \in Holds : stage[h] = "permission" => mic = "starting" /\ owner = h
    /\ mic = "starting" => owner \in Holds /\ stage[owner] = "permission"
    /\ abort => mic = "starting"
    /\ mic = "recording" =>
         /\ ~denied
         /\ owner \in Holds
         /\ stage[owner] \in {"gateC", "done"}

SlotInv == slot # 0 => (calls[slot] = 0 \/ slot \in closing)

TalkerInv ==
    TalkerTypes /\ TasksInv /\ ArmedInv /\ EngineInv /\ MicOnlyWhileHeld /\ SlotInv

LEMMA TalkerInit == Init => TalkerInv
<1> SUFFICES ASSUME Init PROVE TalkerInv
  OBVIOUS
<1> USE PTTAssumption DEF Init, Holds
<1>1. TalkerTypes
  <2>1. Flags
    BY DEF Flags
  <2>2. Scalars
    BY DEF Flags, Scalars, Tables
  <2>3. Tables
    BY DEF Flags, Scalars, Tables
  <2> QED
    BY <2>1, <2>2, <2>3 DEF TalkerTypes
<1>2. TasksInv
  BY DEF TasksInv, Early
<1>3. ArmedInv
  BY DEF ArmedInv, Current
<1>4. EngineInv
  BY DEF EngineInv
<1>5. MicOnlyWhileHeld
  BY DEF MicOnlyWhileHeld
<1>6. SlotInv
  BY DEF SlotInv
<1> QED
  BY <1>1, <1>2, <1>3, <1>4, <1>5, <1>6 DEF TalkerInv

LEMMA TalkerUnchanged ==
    ASSUME TalkerInv, UNCHANGED talkerVars PROVE TalkerInv'
BY DEF TalkerInv, TalkerTypes, Flags, Scalars, Tables, TasksInv, ArmedInv, EngineInv, MicOnlyWhileHeld, SlotInv, Early, Current, talkerVars, holdVars, taskVars, captureVars

LEMMA TalkerBegin == TalkerInv /\ BeginPTT => TalkerInv'
<1> SUFFICES ASSUME TalkerInv, BeginPTT PROVE TalkerInv'
  OBVIOUS
<1> USE PTTAssumption DEF BeginPTT, Holds, Early, Current, captureVars
<1>0. token + 1 \in Holds
  BY DEF TalkerInv, TalkerTypes, Scalars
<1>1. TalkerTypes'
  <2>1. Flags'
    BY <1>0 DEF TalkerInv, TalkerTypes, Flags
  <2>2. Scalars'
    BY <1>0 DEF TalkerInv, TalkerTypes, Flags, Scalars, Tables
  <2>3. Tables'
    BY <1>0 DEF TalkerInv, TalkerTypes, Flags, Scalars, Tables
  <2> QED
    BY <2>1, <2>2, <2>3 DEF TalkerTypes
<1>2. ~holding /\ sessionID = 0
  BY DEF TalkerInv, TasksInv, ArmedInv, TalkerTypes, Flags, Scalars, Tables
<1>3. TasksInv'
  BY <1>0, <1>2 DEF TalkerInv, TalkerTypes, Flags, Scalars, Tables, TasksInv
<1>4. ArmedInv'
  BY <1>0, <1>2 DEF TalkerInv, TalkerTypes, Flags, Scalars, Tables, TasksInv, ArmedInv
<1>5. EngineInv'
  BY <1>0, <1>2 DEF TalkerInv, TalkerTypes, Flags, Scalars, Tables, TasksInv, EngineInv
<1>6. MicOnlyWhileHeld'
  BY <1>0, <1>2 DEF TalkerInv, TalkerTypes, Flags, Scalars, Tables, TasksInv, EngineInv, MicOnlyWhileHeld
<1>7. SlotInv'
  BY DEF TalkerInv, SlotInv
<1> QED
  BY <1>1, <1>3, <1>4, <1>5, <1>6, <1>7 DEF TalkerInv
LEMMA CloseEffect ==
    ASSUME NEW s \in 0 .. MaxHolds, Tables, CallClose(s)
    PROVE  /\ calls' \in [Holds -> Nat]
           /\ closing' \subseteq Holds /\ closing \subseteq closing'
           /\ \A t \in Holds : calls'[t] = IF t = s THEN calls[t] + 1 ELSE calls[t]
           /\ s # 0 => s \in closing'
<1> USE PTTAssumption DEF Tables, Holds
<1>1. CASE s = 0
  <2>1. closing' = closing /\ calls' = calls
    BY <1>1 DEF CallClose
  <2>2. \A t \in Holds : t # s
    BY <1>1
  <2> QED
    BY <1>1, <2>1, <2>2
<1>2. CASE s # 0
  <2>1. s \in Holds
    BY <1>2
  <2>2. closing' = closing \cup {s} /\ calls' = [calls EXCEPT ![s] = @ + 1]
    BY <1>2 DEF CallClose
  <2>3. \A t \in Holds : calls'[t] = IF t = s THEN calls[t] + 1 ELSE calls[t]
    BY <2>1, <2>2
  <2>4. calls' \in [Holds -> Nat]
    BY <2>1, <2>2
  <2> QED
    BY <2>1, <2>2, <2>3, <2>4
<1> QED
  BY <1>1, <1>2

\* What a release and a dismissal have in common.
LEMMA TalkerLetGo ==
    ASSUME TalkerInv, pressed, LetGo,
           UNCHANGED captureVars \/ StopCapture,
           holding /\ owner = token => StopCapture
    PROVE  TalkerInv'
<1> DEFINE s == IF holding THEN sessionID ELSE 0
<1> USE PTTAssumption DEF Holds, Early, Current
<1>1. s \in 0 .. MaxHolds
  BY DEF TalkerInv, TalkerTypes, Scalars
<1>2. CallClose(s)
  BY DEF LetGo, CallClose
<1>3. s = sessionID /\ sessionID' = 0
  BY DEF LetGo, TalkerInv, ArmedInv
<1>4. /\ pressed' = FALSE /\ holding' = FALSE
      /\ UNCHANGED <<token, stage, live, slot>>
  BY DEF LetGo, taskVars
<1>5. /\ calls' \in [Holds -> Nat]
      /\ closing' \subseteq Holds /\ closing \subseteq closing'
      /\ \A t \in Holds : calls'[t] = IF t = s THEN calls[t] + 1 ELSE calls[t]
      /\ s # 0 => s \in closing'
  BY <1>1, <1>2, CloseEffect DEF TalkerInv, TalkerTypes
<1>6. /\ UNCHANGED <<owner, denied>>
      /\ mic' \in {mic, "idle"} /\ sealer' \in {sealer, 0}
      /\ mic' # "recording"
      /\ abort' \in BOOLEAN
      /\ abort' => mic = "starting" /\ mic' = "starting"
      /\ mic = "starting" => mic' = "starting" /\ abort'
  <2>1. CASE UNCHANGED captureVars /\ ~(holding /\ owner = token)
    BY <2>1 DEF captureVars, TalkerInv, MicOnlyWhileHeld, EngineInv, TalkerTypes, Flags
  <2>2. CASE StopCapture
    BY <2>2 DEF StopCapture, TalkerInv, EngineInv, TalkerTypes, Flags, Scalars
  <2> QED
    BY <2>1, <2>2
<1> HIDE DEF s
<1>11. TalkerTypes'
  <2>1. Flags'
    BY <1>1, <1>3, <1>4, <1>5, <1>6 DEF TalkerInv, TalkerTypes, Flags
  <2>2. Scalars'
    BY <1>1, <1>3, <1>4, <1>5, <1>6 DEF TalkerInv, TalkerTypes, Flags, Scalars, Tables
  <2>3. Tables'
    BY <1>1, <1>3, <1>4, <1>5, <1>6 DEF TalkerInv, TalkerTypes, Flags, Scalars, Tables
  <2> QED
    BY <2>1, <2>2, <2>3 DEF TalkerTypes
<1>12. TasksInv'
  BY <1>1, <1>3, <1>4, <1>5, <1>6 DEF TalkerInv, TalkerTypes, Flags, Scalars, Tables, TasksInv, ArmedInv
<1>13. ArmedInv'
  BY <1>1, <1>3, <1>4, <1>5, <1>6 DEF TalkerInv, TalkerTypes, Flags, Scalars, Tables, TasksInv, ArmedInv
<1>14. EngineInv'
  BY <1>1, <1>3, <1>4, <1>5, <1>6 DEF TalkerInv, TalkerTypes, Flags, Scalars, Tables, TasksInv, EngineInv, ArmedInv
<1>15. MicOnlyWhileHeld'
  BY <1>1, <1>3, <1>4, <1>5, <1>6 DEF TalkerInv, TalkerTypes, Flags, Scalars, Tables, TasksInv, EngineInv, ArmedInv, MicOnlyWhileHeld
<1>16. SlotInv'
  BY <1>1, <1>3, <1>4, <1>5, <1>6 DEF TalkerInv, TalkerTypes, Flags, Scalars, Tables, TasksInv, SlotInv
<1> QED
  BY <1>11, <1>12, <1>13, <1>14, <1>15, <1>16 DEF TalkerInv

LEMMA TalkerEnds == TalkerInv /\ (EndPTT \/ Dismiss) => TalkerInv'
BY TalkerLetGo DEF EndPTT, Dismiss, Stop

\* Up to Gate B only the stage of a Task without a session moves.
LEMMA TalkerMoves ==
    ASSUME NEW h \in Holds, NEW x \in {"opening", "done", "gateB", "routed"}, TalkerInv,
           stage[h] \in {"entry", "opening"},
           stage' = [stage EXCEPT ![h] = x],
           UNCHANGED <<holdVars, live, captureVars, slot, closing, calls>>
    PROVE  TalkerInv'
<1> USE PTTAssumption DEF Holds, Early, Current
<1>1. UNCHANGED <<pressed, holding, token, sessionID, live, mic, owner, abort, denied, sealer,
                  slot, closing, calls>>
  BY DEF holdVars, captureVars
<1>2. \A t \in Holds : stage'[t] = IF t = h THEN x ELSE stage[t]
  BY DEF TalkerInv, TalkerTypes, Tables
<1>11. TalkerTypes'
  <2>1. Flags'
    BY <1>1, <1>2 DEF TalkerInv, TalkerTypes, Flags
  <2>2. Scalars'
    BY <1>1, <1>2 DEF TalkerInv, TalkerTypes, Flags, Scalars, Tables
  <2>3. Tables'
    BY <1>1, <1>2 DEF TalkerInv, TalkerTypes, Flags, Scalars, Tables
  <2> QED
    BY <2>1, <2>2, <2>3 DEF TalkerTypes
<1>12. TasksInv'
  BY <1>1, <1>2 DEF TalkerInv, TalkerTypes, Flags, Scalars, Tables, TasksInv, ArmedInv
<1>13. ArmedInv'
  BY <1>1, <1>2 DEF TalkerInv, TalkerTypes, Flags, Scalars, Tables, TasksInv, ArmedInv
<1>14. EngineInv'
  BY <1>1, <1>2 DEF TalkerInv, TalkerTypes, Flags, Scalars, Tables, TasksInv, EngineInv, ArmedInv
<1>15. MicOnlyWhileHeld'
  BY <1>1, <1>2 DEF TalkerInv, TalkerTypes, Flags, Scalars, Tables, TasksInv, EngineInv, ArmedInv, MicOnlyWhileHeld
<1>16. SlotInv'
  BY <1>1, <1>2 DEF TalkerInv, TalkerTypes, Flags, Scalars, Tables, TasksInv, SlotInv
<1> QED
  BY <1>11, <1>12, <1>13, <1>14, <1>15, <1>16 DEF TalkerInv

LEMMA TalkerOpens ==
    ASSUME NEW h \in Holds, TalkerInv, OpenReturns(h) PROVE TalkerInv'
<1> USE PTTAssumption DEF Holds, Early, Current
<1>1. UNCHANGED <<pressed, holding, token, sessionID, mic, owner, abort, denied, sealer,
                  closing, calls>>
  BY DEF OpenReturns, holdVars, captureVars
<1>2. /\ stage[h] = "routed" /\ slot' = h
      /\ stage' = [stage EXCEPT ![h] = "gateB"] /\ live' = [live EXCEPT ![h] = h]
  BY DEF OpenReturns
<1>11. TalkerTypes'
  <2>1. Flags'
    BY <1>1, <1>2 DEF TalkerInv, TalkerTypes, Flags
  <2>2. Scalars'
    BY <1>1, <1>2 DEF TalkerInv, TalkerTypes, Flags, Scalars, Tables
  <2>3. Tables'
    BY <1>1, <1>2 DEF TalkerInv, TalkerTypes, Flags, Scalars, Tables
  <2> QED
    BY <2>1, <2>2, <2>3 DEF TalkerTypes
<1>12. TasksInv'
  BY <1>1, <1>2 DEF TalkerInv, TalkerTypes, Flags, Scalars, Tables, TasksInv, ArmedInv
<1>13. ArmedInv'
  BY <1>1, <1>2 DEF TalkerInv, TalkerTypes, Flags, Scalars, Tables, TasksInv, ArmedInv
<1>14. EngineInv'
  BY <1>1, <1>2 DEF TalkerInv, TalkerTypes, Flags, Scalars, Tables, TasksInv, EngineInv, ArmedInv
<1>15. MicOnlyWhileHeld'
  BY <1>1, <1>2 DEF TalkerInv, TalkerTypes, Flags, Scalars, Tables, TasksInv, EngineInv, ArmedInv, MicOnlyWhileHeld
<1>16. SlotInv'
  BY <1>1, <1>2 DEF TalkerInv, TalkerTypes, Flags, Scalars, Tables, TasksInv, SlotInv
<1> QED
  BY <1>11, <1>12, <1>13, <1>14, <1>15, <1>16 DEF TalkerInv

LEMMA TalkerPermission ==
    ASSUME NEW h \in Holds, TalkerInv, PermissionAnswered(h) PROVE TalkerInv'
<1> USE PTTAssumption DEF PermissionAnswered, holdVars, Holds, Early, Current, captureVars
<1>1. TalkerTypes'
  <2>1. Flags'
    BY DEF TalkerInv, TalkerTypes, Flags
  <2>2. Scalars'
    BY DEF TalkerInv, TalkerTypes, Flags, Scalars, Tables
  <2>3. Tables'
    BY DEF TalkerInv, TalkerTypes, Flags, Scalars, Tables
  <2> QED
    BY <2>1, <2>2, <2>3 DEF TalkerTypes
<1>2. TasksInv'
  BY DEF TalkerInv, TalkerTypes, Flags, Scalars, Tables, TasksInv, ArmedInv
<1>3. ArmedInv'
  BY DEF TalkerInv, TalkerTypes, Flags, Scalars, Tables, TasksInv, ArmedInv
<1>4. EngineInv'
  BY DEF TalkerInv, TalkerTypes, Flags, Scalars, Tables, TasksInv, EngineInv, ArmedInv
<1>5. MicOnlyWhileHeld'
  BY DEF TalkerInv, TalkerTypes, Flags, Scalars, Tables, TasksInv, EngineInv, ArmedInv, MicOnlyWhileHeld
<1>6. SlotInv'
  BY DEF TalkerInv, TalkerTypes, Flags, Scalars, Tables, TasksInv, SlotInv
<1> QED
  BY <1>1, <1>2, <1>3, <1>4, <1>5, <1>6 DEF TalkerInv

\* Gate B, passed with the engine idle: start() begins.
LEMMA TalkerGateBStarts ==
    ASSUME NEW h \in Holds, TalkerInv, GateB(h), Current(h), mic = "idle" PROVE TalkerInv'
<1> USE PTTAssumption DEF Holds, Early, Current
<1>1. UNCHANGED <<pressed, holding, token, live, abort, denied, sealer, slot, closing, calls>>
  BY DEF GateB, StartBegins
<1>2. /\ stage[h] = "gateB" /\ sessionID' = live[h] /\ mic' = "starting" /\ owner' = h
      /\ stage' = [stage EXCEPT ![h] = "permission"]
  BY DEF GateB, StartBegins
<1>11. TalkerTypes'
  <2>1. Flags'
    BY <1>1, <1>2 DEF TalkerInv, TalkerTypes, Flags
  <2>2. Scalars'
    BY <1>1, <1>2 DEF TalkerInv, TalkerTypes, Flags, Scalars, Tables
  <2>3. Tables'
    BY <1>1, <1>2 DEF TalkerInv, TalkerTypes, Flags, Scalars, Tables
  <2> QED
    BY <2>1, <2>2, <2>3 DEF TalkerTypes
<1>12. TasksInv'
  BY <1>1, <1>2 DEF TalkerInv, TalkerTypes, Flags, Scalars, Tables, TasksInv, ArmedInv
<1>13. ArmedInv'
  BY <1>1, <1>2 DEF TalkerInv, TalkerTypes, Flags, Scalars, Tables, TasksInv, ArmedInv
<1>14. EngineInv'
  BY <1>1, <1>2 DEF TalkerInv, TalkerTypes, Flags, Scalars, Tables, TasksInv, EngineInv, ArmedInv
<1>15. MicOnlyWhileHeld'
  BY <1>1, <1>2 DEF TalkerInv, TalkerTypes, Flags, Scalars, Tables, TasksInv, EngineInv, ArmedInv, MicOnlyWhileHeld
<1>16. SlotInv'
  BY <1>1, <1>2 DEF TalkerInv, TalkerTypes, Flags, Scalars, Tables, TasksInv, SlotInv
<1> QED
  BY <1>11, <1>12, <1>13, <1>14, <1>15, <1>16 DEF TalkerInv

\* Gate B, passed while an older start is in flight: start() returns at once.
LEMMA TalkerGateBBusy ==
    ASSUME NEW h \in Holds, TalkerInv, GateB(h), Current(h), mic # "idle" PROVE TalkerInv'
<1> USE PTTAssumption DEF Holds, Early, Current
<1>1. UNCHANGED <<pressed, holding, token, live, mic, owner, abort, denied, sealer, slot,
                  closing, calls>>
  BY DEF GateB, StartBegins, captureVars
<1>2. /\ stage[h] = "gateB" /\ sessionID' = live[h]
      /\ stage' = [stage EXCEPT ![h] = "gateC"]
  BY DEF GateB, StartBegins
<1>11. TalkerTypes'
  <2>1. Flags'
    BY <1>1, <1>2 DEF TalkerInv, TalkerTypes, Flags
  <2>2. Scalars'
    BY <1>1, <1>2 DEF TalkerInv, TalkerTypes, Flags, Scalars, Tables
  <2>3. Tables'
    BY <1>1, <1>2 DEF TalkerInv, TalkerTypes, Flags, Scalars, Tables
  <2> QED
    BY <2>1, <2>2, <2>3 DEF TalkerTypes
<1>12. TasksInv'
  BY <1>1, <1>2 DEF TalkerInv, TalkerTypes, Flags, Scalars, Tables, TasksInv, ArmedInv
<1>13. ArmedInv'
  BY <1>1, <1>2 DEF TalkerInv, TalkerTypes, Flags, Scalars, Tables, TasksInv, ArmedInv
<1>14. EngineInv'
  BY <1>1, <1>2 DEF TalkerInv, TalkerTypes, Flags, Scalars, Tables, TasksInv, EngineInv, ArmedInv
<1>15. MicOnlyWhileHeld'
  BY <1>1, <1>2 DEF TalkerInv, TalkerTypes, Flags, Scalars, Tables, TasksInv, EngineInv, ArmedInv, MicOnlyWhileHeld
<1>16. SlotInv'
  BY <1>1, <1>2 DEF TalkerInv, TalkerTypes, Flags, Scalars, Tables, TasksInv, SlotInv
<1> QED
  BY <1>11, <1>12, <1>13, <1>14, <1>15, <1>16 DEF TalkerInv

\* Gate B, stale: the session is closed and the Task returns.
LEMMA TalkerGateBStale ==
    ASSUME NEW h \in Holds, TalkerInv, GateB(h), ~Current(h) PROVE TalkerInv'
<1> USE PTTAssumption DEF Holds, Early, Current
<1>1. UNCHANGED <<pressed, holding, token, sessionID, live, mic, owner, abort, denied, sealer,
                  slot>>
  BY DEF GateB, captureVars
<1>2. /\ stage[h] = "gateB" /\ stage' = [stage EXCEPT ![h] = "done"]
      /\ CallClose(live[h])
  BY DEF GateB
<1>3. /\ calls' \in [Holds -> Nat]
      /\ closing' \subseteq Holds /\ closing \subseteq closing'
      /\ \A t \in Holds : calls'[t] = IF t = h /\ live[h] = h THEN calls[t] + 1 ELSE calls[t]
      /\ live[h] # 0 => h \in closing'
  <2>1. live[h] \in 0 .. MaxHolds /\ live[h] \in {0, h}
    BY DEF TalkerInv, TalkerTypes, Tables, TasksInv
  <2> QED
    BY <1>2, <2>1, CloseEffect DEF TalkerInv, TalkerTypes
<1>11. TalkerTypes'
  <2>1. Flags'
    BY <1>1, <1>2, <1>3 DEF TalkerInv, TalkerTypes, Flags
  <2>2. Scalars'
    BY <1>1, <1>2, <1>3 DEF TalkerInv, TalkerTypes, Flags, Scalars, Tables
  <2>3. Tables'
    BY <1>1, <1>2, <1>3 DEF TalkerInv, TalkerTypes, Flags, Scalars, Tables
  <2> QED
    BY <2>1, <2>2, <2>3 DEF TalkerTypes
<1>12. TasksInv'
  BY <1>1, <1>2, <1>3, SMTT(60)
  DEF TalkerInv, TalkerTypes, Flags, Scalars, Tables, TasksInv, ArmedInv
<1>13. ArmedInv'
  BY <1>1, <1>2, <1>3, SMTT(60)
  DEF TalkerInv, TalkerTypes, Flags, Scalars, Tables, TasksInv, ArmedInv
<1>14. EngineInv'
  BY <1>1, <1>2, <1>3 DEF TalkerInv, TalkerTypes, Flags, Scalars, Tables, TasksInv, EngineInv, ArmedInv
<1>15. MicOnlyWhileHeld'
  BY <1>1, <1>2, <1>3 DEF TalkerInv, TalkerTypes, Flags, Scalars, Tables, TasksInv, EngineInv, ArmedInv, MicOnlyWhileHeld
<1>16. SlotInv'
  BY <1>1, <1>2, <1>3 DEF TalkerInv, TalkerTypes, Flags, Scalars, Tables, TasksInv, SlotInv
<1> QED
  BY <1>11, <1>12, <1>13, <1>14, <1>15, <1>16 DEF TalkerInv

\* Gate C finds the session already closed and the engine stopped.
LEMMA TalkerGateC ==
    ASSUME NEW h \in Holds, TalkerInv, GateC(h) PROVE TalkerInv'
<1> USE PTTAssumption DEF Holds, Early, Current
<1>1. stage[h] = "gateC" /\ ~Current(h) /\ stage' = [stage EXCEPT ![h] = "done"]
  BY DEF GateC
<1>2. ~(live[h] # 0 /\ sessionID = live[h])
  BY <1>1 DEF TalkerInv, TasksInv, ArmedInv
<1>3. UNCHANGED <<pressed, holding, token, sessionID, live, slot, closing, calls>>
  BY <1>2 DEF GateC
<1>4. owner = h => mic = "idle"
  BY <1>1 DEF TalkerInv, TalkerTypes, Scalars, EngineInv, MicOnlyWhileHeld
<1>5. UNCHANGED <<mic, owner, abort, denied, sealer>>
  <2>1. CASE owner = h
    BY <1>4, <2>1 DEF GateC, Stop, StopCapture, TalkerInv, TalkerTypes, Flags
  <2>2. CASE owner # h
    BY <2>2 DEF GateC, Stop, captureVars
  <2> QED
    BY <2>1, <2>2
<1>11. TalkerTypes'
  <2>1. Flags'
    BY <1>1, <1>3, <1>5 DEF TalkerInv, TalkerTypes, Flags
  <2>2. Scalars'
    BY <1>1, <1>3, <1>5 DEF TalkerInv, TalkerTypes, Flags, Scalars, Tables
  <2>3. Tables'
    BY <1>1, <1>3, <1>5 DEF TalkerInv, TalkerTypes, Flags, Scalars, Tables
  <2> QED
    BY <2>1, <2>2, <2>3 DEF TalkerTypes
<1>12. TasksInv'
  BY <1>1, <1>3, <1>5 DEF TalkerInv, TalkerTypes, Flags, Scalars, Tables, TasksInv, ArmedInv
<1>13. ArmedInv'
  BY <1>1, <1>3, <1>5 DEF TalkerInv, TalkerTypes, Flags, Scalars, Tables, TasksInv, ArmedInv
<1>14. EngineInv'
  BY <1>1, <1>3, <1>5 DEF TalkerInv, TalkerTypes, Flags, Scalars, Tables, TasksInv, EngineInv, ArmedInv
<1>15. MicOnlyWhileHeld'
  BY <1>1, <1>3, <1>5 DEF TalkerInv, TalkerTypes, Flags, Scalars, Tables, TasksInv, EngineInv, ArmedInv, MicOnlyWhileHeld
<1>16. SlotInv'
  BY <1>1, <1>3, <1>5 DEF TalkerInv, TalkerTypes, Flags, Scalars, Tables, TasksInv, SlotInv
<1> QED
  BY <1>11, <1>12, <1>13, <1>14, <1>15, <1>16 DEF TalkerInv

\* Gate D, refused: the hold is over and its session closed.
LEMMA TalkerGateDDenied ==
    ASSUME NEW h \in Holds, TalkerInv, GateD(h), denied PROVE TalkerInv'
<1> USE PTTAssumption DEF Holds, Early, Current
<1>1. UNCHANGED <<pressed, token, live, mic, owner, abort, denied, sealer, slot>>
  BY DEF GateD, captureVars
<1>2. /\ stage[h] = "gateC" /\ Current(h) /\ stage' = [stage EXCEPT ![h] = "done"]
      /\ holding' = FALSE /\ sessionID' = 0 /\ CallClose(live[h])
  BY DEF GateD
<1>3. /\ calls' \in [Holds -> Nat]
      /\ closing' \subseteq Holds /\ closing \subseteq closing'
      /\ \A t \in Holds : calls'[t] = IF t = h /\ live[h] = h THEN calls[t] + 1 ELSE calls[t]
      /\ live[h] # 0 => h \in closing'
  <2>1. live[h] \in 0 .. MaxHolds /\ live[h] \in {0, h}
    BY DEF TalkerInv, TalkerTypes, Tables, TasksInv
  <2> QED
    BY <1>2, <2>1, CloseEffect DEF TalkerInv, TalkerTypes
<1>11. TalkerTypes'
  <2>1. Flags'
    BY <1>1, <1>2, <1>3 DEF TalkerInv, TalkerTypes, Flags
  <2>2. Scalars'
    BY <1>1, <1>2, <1>3 DEF TalkerInv, TalkerTypes, Flags, Scalars, Tables
  <2>3. Tables'
    BY <1>1, <1>2, <1>3 DEF TalkerInv, TalkerTypes, Flags, Scalars, Tables
  <2> QED
    BY <2>1, <2>2, <2>3 DEF TalkerTypes
<1>12. TasksInv'
  BY <1>1, <1>2, <1>3, SMTT(60)
  DEF TalkerInv, TalkerTypes, Flags, Scalars, Tables, TasksInv, ArmedInv
<1>13. ArmedInv'
  BY <1>1, <1>2, <1>3, SMTT(60)
  DEF TalkerInv, TalkerTypes, Flags, Scalars, Tables, TasksInv, ArmedInv
<1>14. EngineInv'
  BY <1>1, <1>2, <1>3 DEF TalkerInv, TalkerTypes, Flags, Scalars, Tables, TasksInv, EngineInv, ArmedInv
<1>15. MicOnlyWhileHeld'
  BY <1>1, <1>2, <1>3 DEF TalkerInv, TalkerTypes, Flags, Scalars, Tables, TasksInv, EngineInv, ArmedInv, MicOnlyWhileHeld
<1>16. SlotInv'
  BY <1>1, <1>2, <1>3 DEF TalkerInv, TalkerTypes, Flags, Scalars, Tables, TasksInv, SlotInv
<1> QED
  BY <1>11, <1>12, <1>13, <1>14, <1>15, <1>16 DEF TalkerInv

LEMMA TalkerGateDHeld ==
    ASSUME NEW h \in Holds, TalkerInv, GateD(h), ~denied PROVE TalkerInv'
<1> USE PTTAssumption DEF Holds, Early, Current
<1>1. UNCHANGED <<pressed, holding, token, sessionID, live, mic, owner, abort, denied, sealer,
                  slot, closing, calls>>
  BY DEF GateD, captureVars
<1>2. stage[h] = "gateC" /\ stage' = [stage EXCEPT ![h] = "done"]
  BY DEF GateD
<1>11. TalkerTypes'
  <2>1. Flags'
    BY <1>1, <1>2 DEF TalkerInv, TalkerTypes, Flags
  <2>2. Scalars'
    BY <1>1, <1>2 DEF TalkerInv, TalkerTypes, Flags, Scalars, Tables
  <2>3. Tables'
    BY <1>1, <1>2 DEF TalkerInv, TalkerTypes, Flags, Scalars, Tables
  <2> QED
    BY <2>1, <2>2, <2>3 DEF TalkerTypes
<1>12. TasksInv'
  BY <1>1, <1>2 DEF TalkerInv, TalkerTypes, Flags, Scalars, Tables, TasksInv, ArmedInv
<1>13. ArmedInv'
  BY <1>1, <1>2 DEF TalkerInv, TalkerTypes, Flags, Scalars, Tables, TasksInv, ArmedInv
<1>14. EngineInv'
  BY <1>1, <1>2 DEF TalkerInv, TalkerTypes, Flags, Scalars, Tables, TasksInv, EngineInv, ArmedInv
<1>15. MicOnlyWhileHeld'
  BY <1>1, <1>2 DEF TalkerInv, TalkerTypes, Flags, Scalars, Tables, TasksInv, EngineInv, ArmedInv, MicOnlyWhileHeld
<1>16. SlotInv'
  BY <1>1, <1>2 DEF TalkerInv, TalkerTypes, Flags, Scalars, Tables, TasksInv, SlotInv
<1> QED
  BY <1>11, <1>12, <1>13, <1>14, <1>15, <1>16 DEF TalkerInv

LEMMA TalkerClose ==
    ASSUME NEW h \in Holds, TalkerInv, CloseRuns(h) PROVE TalkerInv'
<1> USE PTTAssumption DEF CloseRuns, SlotAfterClose, holdVars, taskVars, Holds, Early, Current, captureVars
<1>1. TalkerTypes'
  <2>1. Flags'
    BY DEF TalkerInv, TalkerTypes, Flags
  <2>2. Scalars'
    BY DEF TalkerInv, TalkerTypes, Flags, Scalars, Tables
  <2>3. Tables'
    BY DEF TalkerInv, TalkerTypes, Flags, Scalars, Tables
  <2> QED
    BY <2>1, <2>2, <2>3 DEF TalkerTypes
<1>2. TasksInv'
  BY DEF TalkerInv, TalkerTypes, Flags, Scalars, Tables, TasksInv, ArmedInv
<1>3. ArmedInv'
  BY DEF TalkerInv, TalkerTypes, Flags, Scalars, Tables, TasksInv, ArmedInv
<1>4. EngineInv'
  BY DEF TalkerInv, TalkerTypes, Flags, Scalars, Tables, TasksInv, EngineInv, ArmedInv
<1>5. MicOnlyWhileHeld'
  BY DEF TalkerInv, TalkerTypes, Flags, Scalars, Tables, TasksInv, EngineInv, ArmedInv, MicOnlyWhileHeld
<1>6. SlotInv'
  BY DEF TalkerInv, TalkerTypes, Flags, Scalars, Tables, TasksInv, SlotInv
<1> QED
  BY <1>1, <1>2, <1>3, <1>4, <1>5, <1>6 DEF TalkerInv
\* What the listener does, and the sealing of frames, leave the talker alone.
LEMMA ListenerSteps ==
    ASSUME \/ SealFrame \/ HandleEvent \/ Interruption \/ ListenerRelaunch
           \/ \E i \in 1 .. Len(rail) : RailStep(i)
           \/ \E q \in Frames : ReceiveFrame(q)
    PROVE  UNCHANGED talkerVars
BY DEF SealFrame, HandleEvent, Interruption, ListenerRelaunch, RailStep, RailLoses, ReceiveOpen,
       ReceiveClose, ReceiveFrame, talkerVars, holdVars, taskVars, captureVars

LEMMA TalkerStep == TalkerInv /\ [Next]_vars => TalkerInv'
<1> SUFFICES ASSUME TalkerInv, [Next]_vars PROVE TalkerInv'
  OBVIOUS
<1>1. CASE UNCHANGED vars
  BY <1>1, TalkerUnchanged DEF vars, talkerVars
<1>2. CASE BeginPTT
  BY <1>2, TalkerBegin
<1>3. CASE EndPTT \/ Dismiss
  BY <1>3, TalkerEnds
<1>4. ASSUME NEW h \in Holds, TaskStep(h) PROVE TalkerInv'
  <2>1. CASE GateA(h) \/ OpenFails(h) \/ OpenRouted(h)
    BY <2>1, TalkerMoves DEF GateA, OpenFails, OpenRouted
  <2>2. CASE OpenReturns(h)
    BY <2>2, TalkerOpens
  <2>3. CASE GateB(h)
    BY <2>3, TalkerGateBStarts, TalkerGateBBusy, TalkerGateBStale
  <2>4. CASE PermissionAnswered(h)
    BY <2>4, TalkerPermission
  <2>5. CASE GateC(h)
    BY <2>5, TalkerGateC
  <2>6. CASE GateD(h)
    BY <2>6, TalkerGateDDenied, TalkerGateDHeld
  <2> QED
    BY <1>4, <2>1, <2>2, <2>3, <2>4, <2>5, <2>6 DEF TaskStep
<1>5. ASSUME NEW h \in Holds, CloseRuns(h) PROVE TalkerInv'
  BY <1>5, TalkerClose
<1>6. CASE \/ SealFrame \/ HandleEvent \/ Interruption \/ ListenerRelaunch
           \/ \E i \in 1 .. Len(rail) : RailStep(i)
           \/ \E q \in Frames : ReceiveFrame(q)
  BY <1>6, ListenerSteps, TalkerUnchanged
<1> QED
  BY <1>1, <1>2, <1>3, <1>4, <1>5, <1>6 DEF Next

LEMMA TalkerAlways == Spec => []TalkerInv
<1>1. Init => TalkerInv
  BY TalkerInit
<1>2. TalkerInv /\ [Next]_vars => TalkerInv'
  BY TalkerStep
<1> QED
  BY <1>1, <1>2, PTL DEF Spec

\* The microphone records only for the press being held, in that press's own
\* unclosed session, and a start that outlives its press is marked to abort:
\* however presses, releases, dismissals, slow opens and permission prompts
\* overlap (beginPTT's gates, PTTCaptureEngine's owner token and abort flag).
THEOREM MicFollowsHold == Spec => []MicOnlyWhileHeld
<1>1. TalkerInv => MicOnlyWhileHeld
  BY DEF TalkerInv
<1> QED
  BY <1>1, TalkerAlways, PTL

\* Every session is closed by one call at most, and the coordinator's record of
\* the open session never outlives it (gates B to D, endPTT, slotAfterClose).
THEOREM SessionClosedOnce == Spec => []ClosedOnce
<1>1. TalkerInv => ClosedOnce
  BY DEF TalkerInv, TasksInv, SlotInv, ClosedOnce
<1> QED
  BY <1>1, TalkerAlways, PTL

\* The IC8 flag of PTTSessionOwner is up exactly while a wire session holds an
\* activated audio session.
THEOREM LiveFlagHonest == Spec => []LiveIsActive
<1>1. Init => LiveIsActive
  BY DEF Init, LiveIsActive
<1>2. LiveIsActive /\ [Next]_vars => LiveIsActive'
  <2> SUFFICES ASSUME LiveIsActive, [Next]_vars PROVE LiveIsActive'
    OBVIOUS
  <2>1. CASE UNCHANGED ownerVars
    BY <2>1 DEF LiveIsActive, ownerVars
  <2>2. CASE HandleEvent
    <3>1. PICK s : Opened(s) \/ Closed(s)
      BY <2>2 DEF HandleEvent
    <3>2. CASE Opened(s)
      BY <3>2 DEF Opened, LiveIsActive, ownerVars
    <3>3. CASE Closed(s) /\ open = {s}
      BY <3>3 DEF Closed, LiveIsActive
    <3>4. CASE Closed(s) /\ open # {s}
      <4>1. (open' = {}) <=> (open = {})
        BY <3>4 DEF Closed
      <4>2. isLive' = isLive /\ active' = active
        BY <3>4 DEF Closed
      <4> QED
        BY <4>1, <4>2, Zenon DEF LiveIsActive
    <3> QED
      BY <3>1, <3>2, <3>3, <3>4
  <2>3. CASE Interruption \/ ListenerRelaunch
    BY <2>3 DEF Interruption, ListenerRelaunch, LiveIsActive
  <2>4. [Next]_vars => HandleEvent \/ Interruption \/ ListenerRelaunch \/ UNCHANGED ownerVars
    BY DEF Next, vars, listenVars, ownerVars, BeginPTT, EndPTT, Dismiss, LetGo, TaskStep, GateA,
           OpenFails, OpenRouted, OpenReturns, GateB, PermissionAnswered, GateC, GateD, CloseRuns,
           SealFrame, RailStep, RailLoses, ReceiveOpen, ReceiveClose, ReceiveFrame
  <2> QED
    BY <2>1, <2>2, <2>3, <2>4
<1> QED
  BY <1>1, <1>2, PTL DEF Spec
-----------------------------------------------------------------------------
(* The listener's replay window *)

Openers == [seenAny : BOOLEAN, highest : Nat, bits : SUBSET (0 .. WindowSize - 1)]

Unsent == {"none", "entry", "opening"}

ListenTypes ==
    /\ rail \in Seq(Message) /\ ctx \in 0 .. MaxHolds
    /\ opener \in Openers
    /\ heard \in [Holds -> SUBSET Frames]

\* The window against the frames already decoded in its session.
WindowInv ==
    /\ ~replayed
    /\ ctx = 0 => opener = FreshOpener
    /\ ctx # 0 =>
         /\ ~opener.seenAny => heard[ctx] = {} /\ opener = FreshOpener
         /\ \A f \in heard[ctx] : f <= opener.highest
         /\ \A b \in 0 .. WindowSize - 1 :
              b \in opener.bits <=> (b <= opener.highest /\ opener.highest - b \in heard[ctx])

IsOpen(i) == rail[i].kind = "open"

\* A session is opened at the listener once: before that nothing of it was heard.
RailInv ==
    /\ \A i \in 1 .. Len(rail) : IsOpen(i) =>
         /\ heard[rail[i].id] = {} /\ rail[i].id # ctx
         /\ stage[rail[i].id] \notin Unsent
    /\ \A i, j \in 1 .. Len(rail) :
         IsOpen(i) /\ IsOpen(j) /\ rail[i].id = rail[j].id => i = j
    /\ \A h \in Holds : stage[h] \in Unsent => heard[h] = {} /\ h # ctx

ListenInv == ListenTypes /\ WindowInv /\ RailInv

LEMMA ListenInit == Init => ListenInv
<1> SUFFICES ASSUME Init PROVE ListenInv
  OBVIOUS
<1> USE PTTAssumption DEF Init, Holds
<1>1. ListenTypes
  <2>1. rail \in Seq(Message)
    BY EmptySeq
  <2>2. opener \in Openers
    BY DEF Openers, FreshOpener
  <2> QED
    BY <2>1, <2>2 DEF ListenTypes
<1>2. WindowInv
  BY DEF WindowInv
<1>3. RailInv
  BY DEF RailInv, IsOpen
<1> QED
  BY <1>1, <1>2, <1>3 DEF ListenInv

\* What is left of the rail when message i was taken from it.
LEMMA TakenElements ==
    ASSUME rail \in Seq(Message), NEW i \in 1 .. Len(rail)
    PROVE  /\ Taken(i) \in Seq(Message)
           /\ Len(Taken(i)) = Len(rail) - 1
           /\ \A k \in 1 .. Len(rail) - 1 :
                Taken(i)[k] = IF k < i THEN rail[k] ELSE rail[k + 1]
<1> DEFINE a == SubSeq(rail, 1, i - 1)
           b == SubSeq(rail, i + 1, Len(rail))
<1>0. Len(rail) \in Nat /\ \A k \in 1 .. Len(rail) : rail[k] \in Message
  BY ElementOfSeq
<1>1. /\ a \in Seq(Message) /\ Len(a) = i - 1
      /\ \A k \in 1 .. i - 1 : a[k] = rail[k]
  <2>1. \A k \in 1 .. i - 1 : rail[k] \in Message
    BY <1>0
  <2>2. /\ a \in Seq(Message)
        /\ Len(a) = IF 1 <= i - 1 THEN (i - 1) - 1 + 1 ELSE 0
        /\ \A k \in 1 .. (i - 1) - 1 + 1 : a[k] = rail[1 + k - 1]
    BY <1>0, <2>1, SubSeqProperties
  <2> QED
    BY <1>0, <2>2
<1>2. /\ b \in Seq(Message) /\ Len(b) = Len(rail) - i
      /\ \A k \in 1 .. Len(rail) - i : b[k] = rail[i + k]
  <2>1. \A k \in i + 1 .. Len(rail) : rail[k] \in Message
    BY <1>0
  <2>2. /\ b \in Seq(Message)
        /\ Len(b) = IF i + 1 <= Len(rail) THEN Len(rail) - (i + 1) + 1 ELSE 0
        /\ \A k \in 1 .. Len(rail) - (i + 1) + 1 : b[k] = rail[(i + 1) + k - 1]
    BY <1>0, <2>1, SubSeqProperties
  <2> QED
    BY <1>0, <2>2
<1> HIDE DEF a, b
<1>3. /\ a \o b \in Seq(Message) /\ Len(a \o b) = Len(a) + Len(b)
      /\ \A k \in 1 .. Len(a) + Len(b) :
           (a \o b)[k] = IF k <= Len(a) THEN a[k] ELSE b[k - Len(a)]
  BY <1>1, <1>2, ConcatProperties
<1>4. Taken(i) = a \o b
  BY DEF Taken, a, b
<1>5. Len(a) = i - 1 /\ Len(b) = Len(rail) - i /\ Len(a) + Len(b) = Len(rail) - 1
  BY <1>0, <1>1, <1>2
<1>6. ASSUME NEW k \in 1 .. Len(rail) - 1
      PROVE  (a \o b)[k] = IF k < i THEN rail[k] ELSE rail[k + 1]
  <2>1. (a \o b)[k] = IF k <= Len(a) THEN a[k] ELSE b[k - Len(a)]
    BY <1>3, <1>5
  <2>2. CASE k < i
    BY <2>1, <2>2, <1>0, <1>1, <1>5
  <2>3. CASE ~(k < i)
    <3>1. (a \o b)[k] = b[k - (i - 1)]
      BY <2>1, <2>3, <1>0, <1>5
    <3>2. k - (i - 1) \in 1 .. Len(rail) - i /\ i + (k - (i - 1)) = k + 1
      BY <2>3, <1>0
    <3>3. b[k - (i - 1)] = rail[i + (k - (i - 1))]
      BY <3>2, <1>2
    <3> QED
      BY <2>3, <3>1, <3>2, <3>3
  <2> QED
    BY <2>2, <2>3
<1> QED
  BY <1>3, <1>4, <1>5, <1>6

LEMMA RailIds ==
    ASSUME rail \in Seq(Message)
    PROVE  \A i \in 1 .. Len(rail) : rail[i].id \in Holds
<1> SUFFICES ASSUME NEW i \in 1 .. Len(rail) PROVE rail[i].id \in Holds
  OBVIOUS
<1>1. rail[i] \in Message
  BY ElementOfSeq
<1> QED
  BY <1>1 DEF Message

\* A step of the talker that leaves the listener's state and the rail alone.
LEMMA ListenUnchanged ==
    ASSUME ListenInv, UNCHANGED <<rail, ctx, opener, heard, replayed>>,
           \A h \in Holds : stage'[h] \in Unsent => stage[h] \in Unsent
    PROVE  ListenInv'
<1>1. ListenTypes'
  BY DEF ListenInv, ListenTypes
<1>2. WindowInv'
  BY DEF ListenInv, WindowInv
<1>3. RailInv'
  <2>1. \A i \in 1 .. Len(rail) : IsOpen(i) => rail[i].id \in Holds
    BY RailIds DEF ListenInv, ListenTypes
  <2> QED
    BY <2>1 DEF ListenInv, RailInv, IsOpen
<1> QED
  BY <1>1, <1>2, <1>3 DEF ListenInv

\* A message joins the rail: a close, or the one open of a press not sent before.
LEMMA ListenAppends ==
    ASSUME ListenInv, NEW m \in Message, rail' = Append(rail, m),
           UNCHANGED <<ctx, opener, heard, replayed>>,
           m.kind = "open" => stage[m.id] \in Unsent /\ stage'[m.id] \notin Unsent,
           \A h \in Holds : stage'[h] \in Unsent => stage[h] \in Unsent
    PROVE  ListenInv'
<1>0. rail \in Seq(Message) /\ m.id \in Holds
  BY DEF ListenInv, ListenTypes, Message
<1>1. /\ rail' \in Seq(Message) /\ Len(rail') = Len(rail) + 1
      /\ \A k \in 1 .. Len(rail) : rail'[k] = rail[k]
      /\ rail'[Len(rail) + 1] = m /\ Len(rail) \in Nat
  BY <1>0, AppendProperties
<1>2. ListenTypes'
  BY <1>1 DEF ListenInv, ListenTypes
<1>3. WindowInv'
  BY DEF ListenInv, WindowInv
<1>4. \A i \in 1 .. Len(rail) : rail[i].id \in Holds
  BY <1>0, RailIds
<1>5. \A i \in 1 .. Len(rail) + 1 : i \in 1 .. Len(rail) \/ (i = Len(rail) + 1 /\ rail'[i] = m)
  BY <1>1
<1>6. ASSUME NEW i \in 1 .. Len(rail'), rail'[i].kind = "open"
      PROVE  /\ heard[rail'[i].id] = {} /\ rail'[i].id # ctx
             /\ stage'[rail'[i].id] \notin Unsent
  <2>1. CASE i \in 1 .. Len(rail)
    BY <2>1, <1>1, <1>4, <1>6 DEF ListenInv, RailInv, IsOpen
  <2>2. CASE rail'[i] = m
    BY <2>2, <1>0, <1>6 DEF ListenInv, RailInv
  <2> QED
    BY <2>1, <2>2, <1>1, <1>5
<1>7. ASSUME NEW i \in 1 .. Len(rail'), NEW j \in 1 .. Len(rail'),
             rail'[i].kind = "open", rail'[j].kind = "open", rail'[i].id = rail'[j].id
      PROVE  i = j
  <2>1. CASE i \in 1 .. Len(rail) /\ j \in 1 .. Len(rail)
    BY <2>1, <1>1, <1>7 DEF ListenInv, RailInv, IsOpen
  <2>2. CASE i \in 1 .. Len(rail) /\ rail'[j] = m
    BY <2>2, <1>1, <1>7 DEF ListenInv, RailInv, IsOpen
  <2>3. CASE j \in 1 .. Len(rail) /\ rail'[i] = m
    BY <2>3, <1>1, <1>7 DEF ListenInv, RailInv, IsOpen
  <2> QED
    BY <2>1, <2>2, <2>3, <1>1, <1>5
<1>8. \A h \in Holds : stage'[h] \in Unsent => heard'[h] = {} /\ h # ctx'
  BY DEF ListenInv, RailInv
<1>9. RailInv'
  BY <1>6, <1>7, <1>8 DEF RailInv, IsOpen
<1> QED
  BY <1>2, <1>3, <1>9 DEF ListenInv

\* A message leaves the rail; what it said of the others still holds.
LEMMA RailShrinks ==
    ASSUME ListenInv, NEW i \in 1 .. Len(rail), rail' = Taken(i), UNCHANGED <<heard, stage>>,
           \/ ctx' \in {ctx, 0}
           \/ rail[i].kind = "open" /\ ctx' = rail[i].id
    PROVE  /\ rail' \in Seq(Message) /\ RailInv'
<1>0. rail \in Seq(Message) /\ Len(rail) \in Nat
  BY DEF ListenInv, ListenTypes
<1>1. /\ rail' \in Seq(Message) /\ Len(rail') = Len(rail) - 1
      /\ \A k \in 1 .. Len(rail) - 1 : rail'[k] = IF k < i THEN rail[k] ELSE rail[k + 1]
  BY <1>0, TakenElements
<1>2. \A k \in 1 .. Len(rail) : rail[k].id \in Holds /\ rail[k].id # 0
  BY <1>0, RailIds DEF Holds
<1> DEFINE old(k) == IF k < i THEN k ELSE k + 1
<1>3. \A k \in 1 .. Len(rail') : old(k) \in 1 .. Len(rail) /\ old(k) # i /\ rail'[k] = rail[old(k)]
  BY <1>0, <1>1
<1>4. \A k, l \in 1 .. Len(rail') : old(k) = old(l) => k = l
  BY <1>0, <1>1
<1> HIDE DEF old
<1>5. ASSUME NEW k \in 1 .. Len(rail'), rail'[k].kind = "open"
      PROVE  /\ heard'[rail'[k].id] = {} /\ rail'[k].id # ctx'
             /\ stage'[rail'[k].id] \notin Unsent
  <2>1. /\ heard[rail[old(k)].id] = {} /\ rail[old(k)].id # ctx
        /\ stage[rail[old(k)].id] \notin Unsent
    BY <1>3, <1>5 DEF ListenInv, RailInv, IsOpen
  <2>2. rail[i].kind = "open" => rail[old(k)].id # rail[i].id
    BY <1>3, <1>5 DEF ListenInv, RailInv, IsOpen
  <2> QED
    BY <2>1, <2>2, <1>2, <1>3
<1>6. ASSUME NEW k \in 1 .. Len(rail'), NEW l \in 1 .. Len(rail'),
             rail'[k].kind = "open", rail'[l].kind = "open", rail'[k].id = rail'[l].id
      PROVE  k = l
  <2>1. /\ old(k) \in 1 .. Len(rail) /\ rail'[k] = rail[old(k)]
        /\ old(l) \in 1 .. Len(rail) /\ rail'[l] = rail[old(l)]
    BY <1>3
  <2>2. rail[old(k)].kind = "open" /\ rail[old(l)].kind = "open"
        /\ rail[old(k)].id = rail[old(l)].id
    BY <1>6, <2>1
  <2>3. old(k) = old(l)
    BY <2>1, <2>2 DEF ListenInv, RailInv, IsOpen
  <2> QED
    BY <1>4, <2>3
<1>7. ASSUME NEW h \in Holds, stage'[h] \in Unsent PROVE heard'[h] = {} /\ h # ctx'
  <2>1. heard[h] = {} /\ h # ctx /\ h # 0
    BY <1>7 DEF ListenInv, RailInv, Holds
  <2>2. rail[i].kind = "open" => h # rail[i].id
    BY <1>7 DEF ListenInv, RailInv, IsOpen
  <2> QED
    BY <2>1, <2>2
<1>8. RailInv'
  BY <1>5, <1>6, <1>7 DEF RailInv, IsOpen
<1> QED
  BY <1>1, <1>8

LEMMA ListenRail ==
    ASSUME ListenInv, NEW i \in 1 .. Len(rail), RailStep(i)
    PROVE  ListenInv'
<1>0. rail[i] \in Message
  BY ElementOfSeq DEF ListenInv, ListenTypes
<1>1. /\ rail' = Taken(i) /\ UNCHANGED <<heard, stage, replayed>>
  BY DEF RailStep, RailLoses, ReceiveOpen, ReceiveClose, taskVars, listenVars, receiveVars
<1>2. \/ UNCHANGED <<ctx, opener>>
      \/ ctx' = 0 /\ opener' = FreshOpener
      \/ rail[i].kind = "open" /\ ctx' = rail[i].id /\ opener' = FreshOpener
  BY DEF RailStep, RailLoses, ReceiveOpen, ReceiveClose, listenVars, receiveVars
<1>3. rail' \in Seq(Message) /\ RailInv'
  BY <1>1, <1>2, RailShrinks
<1>4. ListenTypes'
  <2>1. FreshOpener \in Openers
    BY PTTAssumption DEF FreshOpener, Openers
  <2>2. 0 \in 0 .. MaxHolds /\ rail[i].id \in 0 .. MaxHolds
    BY <1>0, PTTAssumption DEF Message, Holds
  <2> QED
    BY <1>1, <1>2, <1>3, <2>1, <2>2 DEF ListenInv, ListenTypes
<1>5. WindowInv'
  <2>1. CASE UNCHANGED <<ctx, opener>>
    BY <2>1, <1>1 DEF ListenInv, WindowInv
  <2>2. CASE ctx' = 0 /\ opener' = FreshOpener
    BY <2>2, <1>1 DEF ListenInv, WindowInv
  <2>3. CASE rail[i].kind = "open" /\ ctx' = rail[i].id /\ opener' = FreshOpener
    <3>1. heard'[ctx'] = {} /\ ctx' # 0
      BY <2>3, <1>0, <1>1 DEF ListenInv, RailInv, IsOpen, Message, Holds
    <3>2. opener'.bits = {} /\ ~opener'.seenAny
      BY <2>3 DEF FreshOpener
    <3> QED
      BY <2>3, <1>1, <3>1, <3>2 DEF ListenInv, WindowInv
  <2> QED
    BY <1>2, <2>1, <2>2, <2>3
<1> QED
  BY <1>3, <1>4, <1>5 DEF ListenInv

\* The first frame of a context.
LEMMA FrameFirst ==
    ASSUME ListenInv, NEW q \in Frames, ReceiveFrame(q), ~opener.seenAny
    PROVE  WindowInv' /\ opener' \in Openers
<1>1. /\ opener' = [seenAny |-> TRUE, highest |-> q, bits |-> {0}]
      /\ ctx' = ctx /\ ctx # 0 /\ q \in Nat
      /\ replayed' = (replayed \/ q \in heard[ctx])
      /\ heard' = [heard EXCEPT ![ctx] = @ \cup {q}]
  BY PTTAssumption DEF ReceiveFrame, Commit, Frames
<1>2. heard[ctx] = {} /\ ctx \in Holds /\ heard \in [Holds -> SUBSET Frames] /\ ~replayed
  BY <1>1, PTTAssumption DEF ListenInv, ListenTypes, WindowInv, Holds
<1>3. heard'[ctx] = {q}
  BY <1>1, <1>2
<1>4. opener' \in Openers
  BY <1>1, PTTAssumption DEF Openers
<1>5. \A b \in 0 .. WindowSize - 1 : b \in {0} <=> (b <= q /\ q - b \in {q})
  BY <1>1, PTTAssumption
<1>6. \A f \in heard'[ctx] : f <= q
  BY <1>1, <1>3
<1>7. ~replayed'
  BY <1>1, <1>2, Zenon
<1>8. opener'.seenAny /\ opener'.highest = q /\ opener'.bits = {0}
  BY <1>1
<1> QED
  BY <1>1, <1>3, <1>4, <1>5, <1>6, <1>7, <1>8 DEF WindowInv

\* A frame past the highest seen moves the window.
LEMMA FrameAhead ==
    ASSUME ListenInv, NEW q \in Frames, ReceiveFrame(q), opener.seenAny, q > opener.highest
    PROVE  WindowInv' /\ opener' \in Openers
<1> DEFINE shift == q - opener.highest
           bs == {0} \cup {b \in shift .. WindowSize - 1 : b - shift \in opener.bits}
<1>1. /\ opener' = [seenAny |-> TRUE, highest |-> q, bits |-> bs]
      /\ ctx' = ctx /\ ctx # 0 /\ q \in Nat
      /\ replayed' = (replayed \/ q \in heard[ctx])
      /\ heard' = [heard EXCEPT ![ctx] = @ \cup {q}]
  BY PTTAssumption DEF ReceiveFrame, Commit, Frames
<1>2. /\ ctx \in Holds /\ heard \in [Holds -> SUBSET Frames] /\ ~replayed
      /\ \A f \in heard[ctx] : f <= opener.highest
      /\ \A b \in 0 .. WindowSize - 1 :
           b \in opener.bits <=> (b <= opener.highest /\ opener.highest - b \in heard[ctx])
  BY <1>1, PTTAssumption DEF ListenInv, ListenTypes, WindowInv, Holds
<1>3. heard'[ctx] = heard[ctx] \cup {q} /\ \A f \in heard[ctx] : f \in Nat
  BY <1>1, <1>2, PTTAssumption DEF Frames
<1>4. opener.highest \in Nat /\ opener.bits \subseteq 0 .. WindowSize - 1 /\ shift \in Nat \ {0}
  BY <1>1 DEF ListenInv, ListenTypes, Openers
<1>5. q \notin heard[ctx] /\ \A f \in heard'[ctx] : f <= q
  BY <1>1, <1>2, <1>3, <1>4
<1>6. bs \subseteq 0 .. WindowSize - 1
  BY <1>4, PTTAssumption
<1>7. opener' \in Openers
  BY <1>1, <1>6 DEF Openers
<1>8. ASSUME NEW b \in 0 .. WindowSize - 1
      PROVE  b \in bs <=> (b <= q /\ q - b \in heard'[ctx])
  <2>1. CASE b = 0
    BY <2>1, <1>1, <1>3
  <2>2. CASE b # 0 /\ b < shift
    <3>1. q - b > opener.highest /\ q - b # q
      BY <2>2, <1>1, <1>4
    <3>2. q - b \notin heard'[ctx]
      BY <3>1, <1>1, <1>2, <1>3, <1>4
    <3>3. b \notin bs
      BY <2>2, <1>4
    <3> QED
      BY <3>2, <3>3
  <2>3. CASE b # 0 /\ ~(b < shift)
    <3>1. /\ b - shift \in 0 .. WindowSize - 1 /\ b \in shift .. WindowSize - 1
          /\ opener.highest - (b - shift) = q - b /\ q - b # q
          /\ (b <= q) <=> (b - shift <= opener.highest)
      BY <2>3, <1>1, <1>4, PTTAssumption
    <3>2. b - shift \in opener.bits <=> (b - shift <= opener.highest /\ q - b \in heard[ctx])
      BY <3>1, <1>2
    <3>3. b \in bs <=> b - shift \in opener.bits
      BY <2>3, <3>1
    <3> HIDE DEF bs, shift
    <3> QED
      BY <3>1, <3>2, <3>3, <1>3
  <2> QED
    BY <2>1, <2>2, <2>3
<1> HIDE DEF bs
<1> QED
  BY <1>1, <1>2, <1>3, <1>5, <1>7, <1>8 DEF WindowInv

\* A frame within the window fills its gap.
LEMMA FrameBehind ==
    ASSUME ListenInv, NEW q \in Frames, ReceiveFrame(q), opener.seenAny, ~(q > opener.highest)
    PROVE  WindowInv' /\ opener' \in Openers
<1> DEFINE gap == opener.highest - q
<1>0. opener \in Openers
  BY DEF ListenInv, ListenTypes
<1>1. /\ opener' = [opener EXCEPT !.bits = @ \cup {gap}]
      /\ gap < WindowSize /\ gap \notin opener.bits
      /\ ctx' = ctx /\ ctx # 0 /\ q \in Nat
      /\ replayed' = (replayed \/ q \in heard[ctx])
      /\ heard' = [heard EXCEPT ![ctx] = @ \cup {q}]
  BY PTTAssumption DEF ReceiveFrame, Commit, Fresh, Frames
<1>2. /\ ctx \in Holds /\ heard \in [Holds -> SUBSET Frames] /\ ~replayed
      /\ \A f \in heard[ctx] : f <= opener.highest
      /\ \A b \in 0 .. WindowSize - 1 :
           b \in opener.bits <=> (b <= opener.highest /\ opener.highest - b \in heard[ctx])
  BY <1>1, PTTAssumption DEF ListenInv, ListenTypes, WindowInv, Holds
<1>3. heard'[ctx] = heard[ctx] \cup {q}
  BY <1>1, <1>2
<1>4. /\ opener'.seenAny = opener.seenAny /\ opener'.highest = opener.highest
      /\ opener'.bits = opener.bits \cup {gap}
      /\ opener.highest \in Nat /\ opener.bits \subseteq 0 .. WindowSize - 1
  BY <1>0, <1>1 DEF Openers
<1>5. gap \in 0 .. WindowSize - 1 /\ gap <= opener.highest /\ opener.highest - gap = q
  BY <1>1, <1>4, PTTAssumption
<1>6. q \notin heard[ctx]
  BY <1>1, <1>2, <1>5
<1>7. opener' \in Openers
  <2>1. opener.bits \cup {gap} \in SUBSET (0 .. WindowSize - 1)
    BY <1>4, <1>5
  <2> QED
    BY <1>0, <1>1, <2>1 DEF Openers
<1>8. ASSUME NEW b \in 0 .. WindowSize - 1
      PROVE  b \in opener'.bits <=> (b <= opener.highest /\ opener.highest - b \in heard'[ctx])
  <2>1. CASE b = gap
    BY <2>1, <1>3, <1>4, <1>5
  <2>2. CASE b # gap
    <3>1. opener.highest - b # q
      BY <2>2, <1>1, <1>4, PTTAssumption
    <3> QED
      BY <2>2, <3>1, <1>2, <1>3, <1>4
  <2> QED
    BY <2>1, <2>2
<1>9. \A f \in heard'[ctx] : f <= opener.highest
  BY <1>2, <1>3, <1>1, <1>4
<1> QED
  BY <1>1, <1>2, <1>4, <1>6, <1>7, <1>8, <1>9 DEF WindowInv

LEMMA ListenFrame ==
    ASSUME ListenInv, NEW q \in Frames, ReceiveFrame(q)
    PROVE  ListenInv'
<1>1. WindowInv' /\ opener' \in Openers
  BY FrameFirst, FrameAhead, FrameBehind
<1>2. /\ UNCHANGED <<rail, ctx, stage>> /\ ctx # 0
      /\ heard' = [heard EXCEPT ![ctx] = @ \cup {q}]
  BY DEF ReceiveFrame, wireVars, taskVars
<1>3. ctx \in Holds /\ heard \in [Holds -> SUBSET Frames] /\ rail \in Seq(Message)
  BY <1>2, PTTAssumption DEF ListenInv, ListenTypes, Holds
<1>4. heard' \in [Holds -> SUBSET Frames] /\ \A h \in Holds : h # ctx => heard'[h] = heard[h]
  BY <1>2, <1>3
<1>5. ListenTypes'
  BY <1>1, <1>2, <1>3, <1>4 DEF ListenInv, ListenTypes
<1>6. RailInv'
  BY <1>2, <1>3, <1>4, RailIds DEF ListenInv, RailInv, IsOpen
<1> QED
  BY <1>1, <1>5, <1>6 DEF ListenInv
LEMMA ListenRelaunch ==
    ASSUME ListenInv, ListenerRelaunch PROVE ListenInv'
<1>1. ctx' = 0 /\ opener' = FreshOpener /\ UNCHANGED <<rail, heard, stage, replayed>>
  BY DEF ListenerRelaunch, wireVars, taskVars
<1>2. ListenTypes'
  BY <1>1, PTTAssumption DEF ListenInv, ListenTypes, Openers, FreshOpener
<1>3. WindowInv'
  BY <1>1 DEF ListenInv, WindowInv
<1>4. \A h \in Holds : h # 0
  BY DEF Holds
<1>5. RailInv'
  BY <1>1, <1>4, RailIds DEF ListenInv, ListenTypes, RailInv, IsOpen
<1> QED
  BY <1>2, <1>3, <1>5 DEF ListenInv

LEMMA ListenStep == TalkerInv /\ ListenInv /\ [Next]_vars => ListenInv'
<1> SUFFICES ASSUME TalkerInv, ListenInv, [Next]_vars PROVE ListenInv'
  OBVIOUS
<1> USE DEF listenVars, receiveVars, wireVars, taskVars
<1>1. CASE \/ UNCHANGED vars \/ SealFrame \/ HandleEvent \/ Interruption
           \/ EndPTT \/ Dismiss
  <2>1. UNCHANGED <<rail, ctx, opener, heard, replayed, stage>>
    BY <1>1 DEF vars, SealFrame, HandleEvent, Interruption, EndPTT, Dismiss, LetGo
  <2> QED
    BY <2>1, ListenUnchanged
<1>2. CASE BeginPTT
  <2>1. /\ UNCHANGED <<rail, ctx, opener, heard, replayed>>
        /\ stage' = [stage EXCEPT ![token + 1] = "entry"]
    BY <1>2 DEF BeginPTT
  <2>2. token + 1 \in Holds /\ stage[token + 1] = "none"
    BY <1>2, PTTAssumption DEF BeginPTT, TalkerInv, TalkerTypes, Scalars, TasksInv, Holds
  <2>3. \A k \in Holds : stage'[k] \in Unsent => stage[k] \in Unsent
    BY <2>1, <2>2 DEF TalkerInv, TalkerTypes, Tables, Unsent
  <2> QED
    BY <2>1, <2>3, ListenUnchanged
<1>3. ASSUME NEW h \in Holds, OpenRouted(h) PROVE ListenInv'
  <2> DEFINE m == [kind |-> "open", id |-> h]
  <2>1. m \in Message /\ m.kind = "open" /\ m.id = h
    BY DEF Message
  <2>2. /\ rail' = Append(rail, m) /\ UNCHANGED <<ctx, opener, heard, replayed>>
        /\ stage[h] = "opening" /\ stage' = [stage EXCEPT ![h] = "routed"]
    BY <1>3 DEF OpenRouted
  <2>3. stage'[h] = "routed" /\ \A k \in Holds : k # h => stage'[k] = stage[k]
    BY <2>2 DEF TalkerInv, TalkerTypes, Tables
  <2>4. \A k \in Holds : stage'[k] \in Unsent => stage[k] \in Unsent
    BY <2>2, <2>3 DEF Unsent
  <2>5. stage[h] \in Unsent /\ stage'[h] \notin Unsent
    BY <2>2, <2>3 DEF Unsent
  <2> HIDE DEF m
  <2> QED
    BY <2>1, <2>2, <2>4, <2>5, ListenAppends
<1>4. ASSUME NEW h \in Holds, TaskStep(h), ~OpenRouted(h) PROVE ListenInv'
  <2>1. UNCHANGED <<rail, ctx, opener, heard, replayed>>
    BY <1>4 DEF TaskStep, GateA, OpenFails, OpenReturns, GateB, PermissionAnswered, GateC, GateD
  <2>2. PICK v : /\ stage' = [stage EXCEPT ![h] = v]
                 /\ \/ v \notin Unsent
                    \/ stage[h] = "entry" /\ v \in Unsent
    BY <1>4 DEF TaskStep, GateA, OpenFails, OpenReturns, GateB, StartBegins, PermissionAnswered,
                GateC, GateD, Unsent
  <2>4. stage'[h] = v /\ \A k \in Holds : k # h => stage'[k] = stage[k]
    BY <2>2 DEF TalkerInv, TalkerTypes, Tables
  <2>5. \A k \in Holds : stage'[k] \in Unsent => stage[k] \in Unsent
    BY <2>2, <2>4 DEF Unsent
  <2> QED
    BY <2>1, <2>5, ListenUnchanged
<1>5. ASSUME NEW h \in Holds, CloseRuns(h) PROVE ListenInv'
  <2> DEFINE m == [kind |-> "close", id |-> h]
  <2>1. m \in Message /\ m.kind # "open"
    BY DEF Message
  <2>2. UNCHANGED <<ctx, opener, heard, replayed, stage>> /\ (rail' = Append(rail, m) \/ rail' = rail)
    BY <1>5 DEF CloseRuns
  <2>3. CASE rail' = rail
    BY <2>2, <2>3, ListenUnchanged
  <2>4. CASE rail' = Append(rail, m)
    <3> HIDE DEF m
    <3> QED
      BY <2>1, <2>2, <2>4, ListenAppends
  <2> QED
    BY <2>2, <2>3, <2>4
<1>6. CASE \E i \in 1 .. Len(rail) : RailStep(i)
  BY <1>6, ListenRail
<1>7. CASE \E q \in Frames : ReceiveFrame(q)
  BY <1>7, ListenFrame
<1>8. CASE ListenerRelaunch
  BY <1>8, ListenRelaunch
<1> QED
  BY <1>1, <1>2, <1>3, <1>4, <1>5, <1>6, <1>7, <1>8 DEF Next

LEMMA ListenAlways == Spec => []ListenInv
<1>1. Init => ListenInv
  BY ListenInit
<1>2. TalkerInv /\ ListenInv /\ [Next]_vars => ListenInv'
  BY ListenStep
<1> QED
  BY <1>1, <1>2, TalkerAlways, PTL DEF Spec

\* No audio frame is decoded twice, whatever the air repeats or reorders and
\* whatever contexts come and go, and the bitmap of PTTFrameOpener is exactly the
\* decoded frames that the window still spans: it never rejects a frame that was
\* not played (checkReplay, commit, the fresh opener of each pttOpen).
THEOREM ReplayWindowHolds == Spec => []ReplayWindow
<1>1. ListenInv => HeardOnce
  BY DEF ListenInv, WindowInv, HeardOnce
<1>2. ListenInv => WindowExact
  <2> SUFFICES ASSUME ListenInv PROVE WindowExact
    OBVIOUS
  <2>1. opener.bits \subseteq 0 .. WindowSize - 1
    BY DEF ListenInv, ListenTypes, Openers
  <2>2. CASE ctx = 0
    BY <2>2 DEF ListenInv, WindowInv, FreshOpener, WindowExact
  <2>3. CASE ctx # 0
    BY <2>1, <2>3 DEF ListenInv, WindowInv, WindowExact
  <2> QED
    BY <2>2, <2>3
<1> QED
  BY <1>1, <1>2, ListenAlways, PTL DEF ReplayWindow

-----------------------------------------------------------------------------
(* Types *)

RestTypes ==
    /\ sealed \in [Holds -> 0 .. MaxFrames]
    /\ clean \in BOOLEAN /\ replayed \in BOOLEAN
    /\ events \in Seq(Message)
    /\ open \subseteq Holds /\ isLive \in BOOLEAN /\ active \in BOOLEAN

LEMMA RestInit == Init => RestTypes
<1> SUFFICES ASSUME Init PROVE RestTypes
  OBVIOUS
<1>1. <<>> \in Seq(Message)
  BY EmptySeq
<1>2. clean \in BOOLEAN /\ replayed \in BOOLEAN /\ isLive \in BOOLEAN /\ active \in BOOLEAN
  BY DEF Init
<1>3. sealed \in [Holds -> 0 .. MaxFrames] /\ open \subseteq Holds /\ events = <<>>
  BY PTTAssumption DEF Init
<1> QED
  BY <1>1, <1>2, <1>3 DEF RestTypes

LEMMA RestStep ==
    ASSUME TalkerInv, ListenInv, RestTypes, [Next]_vars PROVE RestTypes'
<1> USE DEF listenVars, receiveVars, wireVars, ownerVars, taskVars
<1>1. CASE UNCHANGED <<sealed, clean, replayed, events, ownerVars>>
  BY <1>1 DEF RestTypes
<1>2. CASE SealFrame
  <2>1. /\ sealer \in Holds /\ sealed[sealer] < MaxFrames
        /\ sealed' = [sealed EXCEPT ![sealer] = @ + 1]
        /\ UNCHANGED <<clean, replayed, events, open, isLive, active>>
    BY <1>2, PTTAssumption DEF SealFrame, TalkerInv, TalkerTypes, Scalars, Holds
  <2>2. sealed' \in [Holds -> 0 .. MaxFrames]
    BY <2>1, PTTAssumption DEF RestTypes
  <2> QED
    BY <2>1, <2>2 DEF RestTypes
<1>3. ASSUME NEW h \in Holds, CloseRuns(h) PROVE RestTypes'
  BY <1>3 DEF CloseRuns, RestTypes
<1>4. ASSUME NEW i \in 1 .. Len(rail), RailStep(i) PROVE RestTypes'
  <2>1. /\ UNCHANGED <<sealed, replayed, open, isLive, active>> /\ clean' \in BOOLEAN
        /\ events' = events \/ events' = Append(events, rail[i])
    BY <1>4 DEF RailStep, RailLoses, ReceiveOpen, ReceiveClose, RestTypes
  <2>2. rail[i] \in Message
    BY ElementOfSeq DEF ListenInv, ListenTypes
  <2>3. events \in Seq(Message)
    BY DEF RestTypes
  <2>4. events' \in Seq(Message)
    BY <2>1, <2>2, <2>3, AppendProperties
  <2> QED
    BY <2>1, <2>4 DEF RestTypes
<1>5. ASSUME NEW q \in Frames, ReceiveFrame(q) PROVE RestTypes'
  BY <1>5 DEF ReceiveFrame, RestTypes
<1>6. CASE HandleEvent
  <2>1. events \in Seq(Message) /\ events # <<>> /\ events' = Tail(events)
    BY <1>6 DEF HandleEvent, RestTypes
  <2>2. Head(events) \in Message /\ events' \in Seq(Message)
    BY <2>1, HeadTailProperties
  <2>3. PICK s \in Holds : Opened(s) \/ Closed(s)
    BY <1>6, <2>2 DEF HandleEvent, Message
  <2>4. open' \subseteq Holds /\ isLive' \in BOOLEAN /\ active' \in BOOLEAN
    BY <2>3 DEF Opened, Closed, RestTypes
  <2>5. UNCHANGED <<sealed, clean, replayed>>
    BY <1>6 DEF HandleEvent
  <2> QED
    BY <2>2, <2>4, <2>5 DEF RestTypes
<1>7. CASE Interruption \/ ListenerRelaunch
  BY <1>7, EmptySeq DEF Interruption, ListenerRelaunch, RestTypes
<1>8. \/ UNCHANGED <<sealed, clean, replayed, events, ownerVars>>
      \/ SealFrame \/ HandleEvent \/ Interruption \/ ListenerRelaunch
      \/ \E h \in Holds : CloseRuns(h)
      \/ \E i \in 1 .. Len(rail) : RailStep(i)
      \/ \E q \in Frames : ReceiveFrame(q)
  <2>1. CASE UNCHANGED vars
    BY <2>1 DEF vars
  <2>2. CASE BeginPTT \/ EndPTT \/ Dismiss
    BY <2>2 DEF BeginPTT, EndPTT, Dismiss, LetGo
  <2>3. ASSUME NEW h \in Holds, TaskStep(h)
        PROVE  UNCHANGED <<sealed, clean, replayed, events, ownerVars>> \/ CloseRuns(h)
    BY <2>3 DEF TaskStep, GateA, OpenFails, OpenRouted,
                OpenReturns, GateB, PermissionAnswered, GateC, GateD
  <2> QED
    BY <2>1, <2>2, <2>3 DEF Next
<1> QED
  BY <1>1, <1>2, <1>3, <1>4, <1>5, <1>6, <1>7, <1>8

\* Tokens, sessions, the replay bitmap and the messages under way keep their
\* types, for any number of presses and frames and any window.
THEOREM TalkTypes == Spec => []TypeOK
<1>1. Init => RestTypes
  BY RestInit
<1>2. TalkerInv /\ ListenInv /\ RestTypes /\ [Next]_vars => RestTypes'
  BY RestStep
<1>3. TalkerInv /\ ListenInv /\ RestTypes => TypeOK
  BY DEF TalkerInv, TalkerTypes, Flags, Scalars, Tables, ListenInv, ListenTypes, Openers,
         RestTypes, TypeOK
<1> QED
  BY <1>1, <1>2, <1>3, TalkerAlways, ListenAlways, PTL DEF Spec

-----------------------------------------------------------------------------
(* What an unharmed rail still owes the listener *)

\* The pttClose of session h is still to be sent.
Owed(h) == stage[h] = "routed" \/ (live[h] = h /\ (calls[h] = 0 \/ h \in closing))

Closes(q, h) == \E j \in 1 .. Len(q) : q[j].kind = "close" /\ q[j].id = h

ClosedLater(q, i) == \E j \in i + 1 .. Len(q) : q[j].kind = "close" /\ q[j].id = q[i].id

\* Whatever the listener was told is open, or is about to be told, has its
\* close behind it: in the same queue, in an earlier one, or still to be sent.
RailOwes ==
    \A i \in 1 .. Len(rail) :
        rail[i].kind = "open" => Owed(rail[i].id) \/ ClosedLater(rail, i)

EventsOwe ==
    \A i \in 1 .. Len(events) :
        events[i].kind = "open" =>
            Owed(events[i].id) \/ Closes(rail, events[i].id) \/ ClosedLater(events, i)

OwnerOwes == \A h \in open : Owed(h) \/ Closes(rail, h) \/ Closes(events, h)

ContextOwes == ctx # 0 => Owed(ctx) \/ Closes(rail, ctx)

Settling == clean => RailOwes /\ EventsOwe /\ OwnerOwes /\ ContextOwes

\* A close that was called waits in closing until it runs.
LEMMA CallOwes ==
    ASSUME NEW s \in 0 .. MaxHolds, NEW h \in Holds, TalkerInv, CallClose(s), Owed(h),
           live'[h] = live[h], stage[h] = "routed" => stage'[h] = "routed"
    PROVE  Owed(h)'
<1>1. /\ closing \subseteq closing'
      /\ calls'[h] = IF h = s THEN calls[h] + 1 ELSE calls[h]
      /\ s # 0 => s \in closing'
  BY CloseEffect DEF TalkerInv, TalkerTypes
<1>2. h # 0
  BY DEF Holds
<1> QED
  BY <1>1, <1>2 DEF Owed

\* Only the run of its close settles what a session owes.
LEMMA OwedKept ==
    ASSUME TalkerInv, [Next]_vars, NEW h \in Holds, Owed(h), ~CloseRuns(h)
    PROVE  Owed(h)'
<1> USE DEF holdVars, taskVars
<1>0. 0 \in 0 .. MaxHolds /\ sessionID \in 0 .. MaxHolds
      /\ \A k \in Holds : live[k] \in 0 .. MaxHolds
  BY PTTAssumption DEF TalkerInv, TalkerTypes, Scalars, Tables
<1>1. CASE UNCHANGED <<stage, live, closing, calls>>
  BY <1>1 DEF Owed
<1>2. CASE BeginPTT
  <2>1. UNCHANGED <<live, closing, calls>> /\ stage' = [stage EXCEPT ![token + 1] = "entry"]
    BY <1>2 DEF BeginPTT
  <2>2. token + 1 \in Holds /\ stage[token + 1] = "none"
    BY <1>2, PTTAssumption DEF BeginPTT, TalkerInv, TalkerTypes, Scalars, TasksInv, Holds
  <2>3. stage[h] = "routed" => stage'[h] = "routed"
    BY <2>1, <2>2 DEF TalkerInv, TalkerTypes, Tables
  <2> QED
    BY <2>1, <2>3 DEF Owed
<1>3. CASE EndPTT \/ Dismiss
  <2>1. CallClose(IF holding THEN sessionID ELSE 0) /\ UNCHANGED <<stage, live>>
    BY <1>3 DEF EndPTT, Dismiss, LetGo, CallClose
  <2> QED
    BY <2>1, <1>0, CallOwes
<1>4. ASSUME NEW k \in Holds, TaskStep(k) PROVE Owed(h)'
  <2>1. CASE GateA(k) \/ OpenFails(k) \/ OpenRouted(k) \/ PermissionAnswered(k)
    <3>1. /\ UNCHANGED <<live, closing, calls>> /\ stage[k] # "routed"
          /\ \E v : stage' = [stage EXCEPT ![k] = v]
      BY <2>1 DEF GateA, OpenFails, OpenRouted, PermissionAnswered
    <3>2. stage[h] = "routed" => stage'[h] = "routed"
      BY <3>1 DEF TalkerInv, TalkerTypes, Tables
    <3> QED
      BY <3>1, <3>2 DEF Owed
  <2>2. CASE OpenReturns(k)
    <3>1. /\ UNCHANGED <<closing, calls>> /\ stage[k] = "routed"
          /\ stage' = [stage EXCEPT ![k] = "gateB"] /\ live' = [live EXCEPT ![k] = k]
      BY <2>2 DEF OpenReturns
    <3>2. /\ calls[k] = 0 /\ live'[k] = k
          /\ h # k => stage'[h] = stage[h] /\ live'[h] = live[h]
      BY <3>1 DEF TalkerInv, TalkerTypes, Tables, TasksInv, Early
    <3> QED
      BY <3>1, <3>2 DEF Owed
  <2>3. CASE GateB(k) \/ GateC(k) \/ GateD(k)
    <3>1. /\ live' = live /\ stage[k] # "routed"
          /\ \E v : stage' = [stage EXCEPT ![k] = v]
          /\ CallClose(0) \/ CallClose(live[k])
      BY <2>3 DEF GateB, GateC, GateD, StartBegins, CallClose
    <3>2. stage[h] = "routed" => stage'[h] = "routed"
      BY <3>1 DEF TalkerInv, TalkerTypes, Tables
    <3> QED
      BY <3>1, <3>2, <1>0, CallOwes
  <2> QED
    BY <1>4, <2>1, <2>2, <2>3 DEF TaskStep
<1>5. ASSUME NEW k \in Holds, CloseRuns(k) PROVE Owed(h)'
  <2>1. /\ UNCHANGED <<stage, live, calls>> /\ closing' = closing \ {k} /\ k # h
    BY <1>5 DEF CloseRuns
  <2> QED
    BY <2>1 DEF Owed
<1>6. CASE \/ SealFrame \/ HandleEvent \/ Interruption \/ ListenerRelaunch
           \/ \E i \in 1 .. Len(rail) : RailStep(i)
           \/ \E q \in Frames : ReceiveFrame(q)
  BY <1>6, <1>1, ListenerSteps DEF talkerVars
<1>7. CASE UNCHANGED vars
  BY <1>7, <1>1 DEF vars
<1> QED
  BY <1>2, <1>3, <1>4, <1>5, <1>6, <1>7 DEF Next

\* Ids the listener knows are presses.
LEMMA KnownIds ==
    ASSUME ListenInv, RestTypes
    PROVE  /\ \A i \in 1 .. Len(rail) : rail[i] \in Message /\ rail[i].id \in Holds
           /\ \A i \in 1 .. Len(events) : events[i] \in Message /\ events[i].id \in Holds
           /\ open \subseteq Holds
           /\ ctx # 0 => ctx \in Holds
           /\ Len(rail) \in Nat /\ Len(events) \in Nat
<1>1. rail \in Seq(Message) /\ events \in Seq(Message)
  BY DEF ListenInv, ListenTypes, RestTypes
<1>2. \A i \in 1 .. Len(rail) : rail[i] \in Message
  BY <1>1, ElementOfSeq
<1>3. \A i \in 1 .. Len(events) : events[i] \in Message
  BY <1>1, ElementOfSeq
<1>4. \A m \in Message : m.id \in Holds
  BY DEF Message
<1>5. open \subseteq Holds
  BY DEF RestTypes
<1>6. ctx # 0 => ctx \in Holds
  <2>1. ctx \in 0 .. MaxHolds
    BY DEF ListenInv, ListenTypes
  <2> QED
    BY <2>1, PTTAssumption DEF Holds
<1>7. Len(rail) \in Nat /\ Len(events) \in Nat
  BY <1>1, LenProperties
<1> QED
  BY <1>2, <1>3, <1>4, <1>5, <1>6, <1>7

\* A step that neither sends nor receives anything.
LEMMA SettlesIdle ==
    ASSUME ListenInv, RestTypes, Settling,
           UNCHANGED <<rail, clean>>,
           \/ UNCHANGED events
           \/ events' = <<>> /\ open' = {},
           open' \subseteq open, ctx' \in {ctx, 0},
           \A h \in Holds : Owed(h) => Owed(h)'
    PROVE  Settling'
<1> SUFFICES ASSUME clean PROVE RailOwes' /\ EventsOwe' /\ OwnerOwes' /\ ContextOwes'
  BY DEF Settling
<1>1. RailOwes'
  BY KnownIds DEF Settling, RailOwes, ClosedLater
<1>2. EventsOwe'
  <2>1. CASE UNCHANGED events
    BY <2>1, KnownIds DEF Settling, EventsOwe, ClosedLater, Closes
  <2>2. CASE events' = <<>>
    BY <2>2 DEF EventsOwe
  <2> QED
    BY <2>1, <2>2
<1>3. OwnerOwes'
  BY KnownIds DEF Settling, OwnerOwes, Closes
<1>4. ContextOwes'
  BY KnownIds DEF Settling, ContextOwes, Closes
<1> QED
  BY <1>1, <1>2, <1>3, <1>4

\* A message joins the rail: an open that is owed, or a close.
LEMMA SettlesSent ==
    ASSUME ListenInv, RestTypes, Settling, NEW m \in Message,
           rail' = Append(rail, m), UNCHANGED <<clean, events, open, ctx>>,
           \A h \in Holds : m.kind = "open" /\ m.id = h => Owed(h)',
           \A h \in Holds : Owed(h) => Owed(h)' \/ (m.kind = "close" /\ m.id = h)
    PROVE  Settling'
<1> SUFFICES ASSUME clean PROVE RailOwes' /\ EventsOwe' /\ OwnerOwes' /\ ContextOwes'
  BY DEF Settling
<1>0. rail \in Seq(Message) /\ Len(rail) \in Nat
  BY DEF ListenInv, ListenTypes
<1>1. /\ rail' \in Seq(Message) /\ Len(rail') = Len(rail) + 1
      /\ \A k \in 1 .. Len(rail) : rail'[k] = rail[k]
      /\ rail'[Len(rail) + 1] = m
  BY <1>0, AppendProperties
<1>2. ASSUME NEW h \in Holds, Owed(h) \/ Closes(rail, h) PROVE Owed(h)' \/ Closes(rail, h)'
  BY <1>0, <1>1, <1>2 DEF Closes
<1>3. RailOwes'
  <2> SUFFICES ASSUME NEW i \in 1 .. Len(rail'), rail'[i].kind = "open"
               PROVE  Owed(rail[i].id)' \/ ClosedLater(rail, i)'
    BY DEF RailOwes
  <2>1. CASE i \in 1 .. Len(rail)
    <3>1. PICK h \in Holds : h = rail[i].id /\ h = rail'[i].id
      BY <2>1, <1>1, KnownIds
    <3>2. CASE Owed(h)
      <4>1. CASE m.kind = "close" /\ m.id = h
        <5>1. Len(rail) + 1 \in i + 1 .. Len(rail')
          BY <2>1, <1>0, <1>1
        <5> QED
          BY <4>1, <5>1, <3>1, <1>1 DEF ClosedLater
      <4>2. CASE Owed(h)'
        BY <4>2, <3>1 DEF Owed
      <4> QED
        BY <4>1, <4>2, <3>2
    <3>3. CASE ClosedLater(rail, i)
      <4>1. PICK j \in i + 1 .. Len(rail) : rail[j].kind = "close" /\ rail[j].id = rail[i].id
        BY <3>3 DEF ClosedLater
      <4>2. j \in i + 1 .. Len(rail') /\ rail'[j] = rail[j]
        BY <2>1, <1>0, <1>1
      <4> QED
        BY <4>1, <4>2, <3>1 DEF ClosedLater
    <3>4. rail[i].kind = "open" /\ (Owed(rail[i].id) => Owed(h))
      BY <2>1, <1>1, <3>1 DEF Owed
    <3> QED
      BY <3>2, <3>3, <3>4, <2>1 DEF Settling, RailOwes
  <2>2. CASE i = Len(rail) + 1
    <3>1. rail'[i] = m /\ m.id \in Holds
      BY <2>2, <1>1 DEF Message
    <3>2. \A h \in Holds : h = rail'[i].id => Owed(h)'
      BY <3>1
    <3> QED
      BY <3>1, <3>2 DEF Owed
  <2> QED
    BY <2>1, <2>2, <1>0, <1>1
<1>4. EventsOwe'
  BY <1>2, KnownIds DEF Settling, EventsOwe, ClosedLater
<1>5. OwnerOwes'
  BY <1>2, KnownIds DEF Settling, OwnerOwes, Closes
<1>6. ContextOwes'
  BY <1>2, KnownIds DEF Settling, ContextOwes
<1> QED
  BY <1>3, <1>4, <1>5, <1>6

\* The front of the rail reaches the listener.
LEMMA SettlesReceived ==
    ASSUME ListenInv, RestTypes, Settling, 1 \in 1 .. Len(rail),
           rail' = Taken(1), events' = Append(events, rail[1]), UNCHANGED <<clean, open>>,
           ctx' = (IF rail[1].kind = "open" THEN rail[1].id ELSE 0),
           \A h \in Holds : Owed(h) => Owed(h)'
    PROVE  Settling'
<1> SUFFICES ASSUME clean PROVE RailOwes' /\ EventsOwe' /\ OwnerOwes' /\ ContextOwes'
  BY DEF Settling
<1>0. rail \in Seq(Message) /\ Len(rail) \in Nat /\ rail[1] \in Message
      /\ events \in Seq(Message) /\ Len(events) \in Nat
  BY KnownIds DEF ListenInv, ListenTypes, RestTypes
<1>1. /\ rail' \in Seq(Message) /\ Len(rail') = Len(rail) - 1
      /\ \A k \in 1 .. Len(rail) - 1 : rail'[k] = rail[k + 1]
  <2>1. /\ Taken(1) \in Seq(Message) /\ Len(Taken(1)) = Len(rail) - 1
        /\ \A k \in 1 .. Len(rail) - 1 : Taken(1)[k] = IF k < 1 THEN rail[k] ELSE rail[k + 1]
    BY <1>0, TakenElements
  <2> QED
    BY <2>1, <1>0
<1>2. /\ events' \in Seq(Message) /\ Len(events') = Len(events) + 1
      /\ \A k \in 1 .. Len(events) : events'[k] = events[k]
      /\ events'[Len(events) + 1] = rail[1]
  BY <1>0, AppendProperties
<1>3. ASSUME NEW j \in 2 .. Len(rail)
      PROVE  j - 1 \in 1 .. Len(rail') /\ rail'[j - 1] = rail[j]
  BY <1>0, <1>1
<1>4. ASSUME NEW i \in 1 .. Len(rail), NEW h \in Holds, rail[i].kind = "open", rail[i].id = h
      PROVE  Owed(h)' \/ \E j \in i .. Len(rail') : rail'[j].kind = "close" /\ rail'[j].id = h
  <2>1. CASE Owed(rail[i].id)
    BY <2>1, <1>4 DEF Owed
  <2>2. CASE ClosedLater(rail, i)
    <3>1. PICK j \in i + 1 .. Len(rail) : rail[j].kind = "close" /\ rail[j].id = rail[i].id
      BY <2>2 DEF ClosedLater
    <3>2. j \in 2 .. Len(rail) /\ j - 1 \in i .. Len(rail')
      BY <1>0, <1>1
    <3> QED
      BY <3>1, <3>2, <1>3, <1>4
  <2> QED
    BY <1>4, <2>1, <2>2 DEF Settling, RailOwes
<1>5. RailOwes'
  <2> SUFFICES ASSUME NEW i \in 1 .. Len(rail'), rail'[i].kind = "open"
               PROVE  Owed(rail[i].id)' \/ ClosedLater(rail, i)'
    BY DEF RailOwes
  <2>1. i + 1 \in 1 .. Len(rail) /\ i \in 1 .. Len(rail) - 1
    BY <1>0, <1>1
  <2>2. PICK h \in Holds : h = rail[i + 1].id /\ h = rail'[i].id
    BY <2>1, <1>1, KnownIds
  <2>3. Owed(h)' \/ \E j \in i + 1 .. Len(rail') : rail'[j].kind = "close" /\ rail'[j].id = h
    BY <2>1, <2>2, <1>1, <1>4
  <2> QED
    BY <2>2, <2>3 DEF ClosedLater, Owed
<1>6. ASSUME NEW h \in Holds, Owed(h) \/ Closes(rail, h)
      PROVE  Owed(h)' \/ Closes(rail, h)' \/ (rail[1].kind = "close" /\ rail[1].id = h)
  <2>1. CASE Owed(h)
    BY <2>1
  <2>2. CASE Closes(rail, h)
    <3>1. PICK j \in 1 .. Len(rail) : rail[j].kind = "close" /\ rail[j].id = h
      BY <2>2 DEF Closes
    <3>2. CASE j = 1
      BY <3>1, <3>2
    <3>3. CASE j # 1
      <4>1. j \in 2 .. Len(rail)
        BY <3>3, <1>0
      <4> QED
        BY <4>1, <3>1, <1>3 DEF Closes
    <3> QED
      BY <3>2, <3>3
  <2> QED
    BY <1>6, <2>1, <2>2
<1>7. EventsOwe'
  <2> SUFFICES ASSUME NEW i \in 1 .. Len(events'), events'[i].kind = "open"
               PROVE  Owed(events[i].id)' \/ Closes(rail, events[i].id)' \/ ClosedLater(events, i)'
    BY DEF EventsOwe
  <2>1. CASE i \in 1 .. Len(events)
    <3>1. PICK h \in Holds : h = events[i].id /\ h = events'[i].id
      BY <2>1, <1>2, KnownIds
    <3>2. CASE ClosedLater(events, i)
      <4>1. PICK j \in i + 1 .. Len(events) : events[j].kind = "close" /\ events[j].id = events[i].id
        BY <3>2 DEF ClosedLater
      <4>2. j \in i + 1 .. Len(events') /\ events'[j] = events[j]
        BY <2>1, <1>0, <1>2
      <4> QED
        BY <4>1, <4>2, <3>1 DEF ClosedLater
    <3>3. CASE Owed(h) \/ Closes(rail, h)
      <4>1. CASE rail[1].kind = "close" /\ rail[1].id = h
        <5>1. Len(events) + 1 \in i + 1 .. Len(events')
          BY <2>1, <1>0, <1>2
        <5> QED
          BY <4>1, <5>1, <3>1, <1>2 DEF ClosedLater
      <4>2. CASE Owed(h)' \/ Closes(rail, h)'
        BY <4>2, <3>1 DEF Owed, Closes
      <4> QED
        BY <4>1, <4>2, <3>3, <1>6
    <3>4. /\ events[i].kind = "open"
          /\ Owed(events[i].id) \/ Closes(rail, events[i].id) => Owed(h) \/ Closes(rail, h)
      BY <2>1, <1>2, <3>1 DEF Owed, Closes
    <3> QED
      BY <3>2, <3>3, <3>4, <2>1 DEF Settling, EventsOwe
  <2>2. CASE i = Len(events) + 1
    <3>1. PICK h \in Holds : h = rail[1].id /\ h = events'[i].id
      BY <2>2, <1>2, KnownIds
    <3>2. rail[1].kind = "open"
      BY <2>2, <1>2
    <3>3. Owed(h)' \/ \E j \in 1 .. Len(rail') : rail'[j].kind = "close" /\ rail'[j].id = h
      BY <3>1, <3>2, <1>4
    <3> QED
      BY <3>1, <3>3 DEF Closes, Owed
  <2> QED
    BY <2>1, <2>2, <1>0, <1>2
<1>8. OwnerOwes'
  <2> SUFFICES ASSUME NEW h \in open PROVE Owed(h)' \/ Closes(rail, h)' \/ Closes(events, h)'
    BY DEF OwnerOwes
  <2>0. h \in Holds
    BY KnownIds
  <2>1. CASE Owed(h) \/ Closes(rail, h)
    <3>1. CASE rail[1].kind = "close" /\ rail[1].id = h
      <4>1. Len(events) + 1 \in 1 .. Len(events')
        BY <1>0, <1>2
      <4> QED
        BY <3>1, <4>1, <1>2 DEF Closes
    <3> QED
      BY <3>1, <2>0, <2>1, <1>6
  <2>2. CASE Closes(events, h)
    <3>1. PICK j \in 1 .. Len(events) : events[j].kind = "close" /\ events[j].id = h
      BY <2>2 DEF Closes
    <3>2. j \in 1 .. Len(events') /\ events'[j] = events[j]
      BY <1>0, <1>2
    <3> QED
      BY <3>1, <3>2 DEF Closes
  <2> QED
    BY <2>1, <2>2 DEF Settling, OwnerOwes
<1>9. ContextOwes'
  <2> SUFFICES ASSUME ctx' # 0 PROVE Owed(ctx)' \/ Closes(rail, ctx)'
    BY DEF ContextOwes
  <2>1. rail[1].kind = "open"
    OBVIOUS
  <2>2. PICK h \in Holds : h = rail[1].id /\ h = ctx'
    BY <2>1, KnownIds
  <2>3. Owed(h)' \/ \E j \in 1 .. Len(rail') : rail'[j].kind = "close" /\ rail'[j].id = h
    BY <2>1, <2>2, <1>4
  <2> QED
    BY <2>2, <2>3 DEF Closes, Owed
<1> QED
  BY <1>5, <1>7, <1>8, <1>9

\* The inbox hands an event to the audio session's owner.
LEMMA SettlesHandled ==
    ASSUME ListenInv, RestTypes, Settling, HandleEvent,
           \A h \in Holds : Owed(h) => Owed(h)'
    PROVE  Settling'
<1> SUFFICES ASSUME clean PROVE RailOwes' /\ EventsOwe' /\ OwnerOwes' /\ ContextOwes'
  BY DEF Settling, HandleEvent, wireVars
<1>0. UNCHANGED <<rail, ctx>> /\ events # <<>> /\ events' = Tail(events)
  BY DEF HandleEvent, wireVars, receiveVars
<1>1. events \in Seq(Message) /\ Len(events) \in Nat \ {0} /\ Head(events) = events[1]
  BY <1>0, EmptySeq DEF RestTypes
<1>2. /\ Len(events') = Len(events) - 1
      /\ \A k \in 1 .. Len(events) - 1 : events'[k] = events[k + 1]
  BY <1>0, <1>1, HeadTailProperties
<1>3. ASSUME NEW j \in 2 .. Len(events)
      PROVE  j - 1 \in 1 .. Len(events') /\ events'[j - 1] = events[j]
  BY <1>1, <1>2
<1>4. RailOwes'
  BY <1>0, KnownIds DEF Settling, RailOwes, ClosedLater
<1>5. ContextOwes'
  BY <1>0, KnownIds DEF Settling, ContextOwes, Closes
<1>6. ASSUME NEW i \in 1 .. Len(events), NEW h \in Holds, events[i].kind = "open", events[i].id = h
      PROVE  \/ Owed(h)' \/ Closes(rail, h)'
             \/ \E j \in i .. Len(events') : events'[j].kind = "close" /\ events'[j].id = h
  <2>1. CASE Owed(events[i].id) \/ Closes(rail, events[i].id)
    <3>1. Owed(h) \/ Closes(rail, h)
      BY <2>1, <1>6 DEF Owed, Closes
    <3> QED
      BY <3>1, <1>0 DEF Closes
  <2>2. CASE ClosedLater(events, i)
    <3>1. PICK j \in i + 1 .. Len(events) : events[j].kind = "close" /\ events[j].id = events[i].id
      BY <2>2 DEF ClosedLater
    <3>2. j \in 2 .. Len(events) /\ j - 1 \in i .. Len(events')
      BY <1>1, <1>2
    <3> QED
      BY <3>1, <3>2, <1>3, <1>6
  <2> QED
    BY <1>6, <2>1, <2>2 DEF Settling, EventsOwe
<1>7. EventsOwe'
  <2> SUFFICES ASSUME NEW i \in 1 .. Len(events'), events'[i].kind = "open"
               PROVE  Owed(events[i].id)' \/ Closes(rail, events[i].id)' \/ ClosedLater(events, i)'
    BY DEF EventsOwe
  <2>1. i + 1 \in 1 .. Len(events) /\ i \in 1 .. Len(events) - 1
    BY <1>1, <1>2
  <2>2. PICK h \in Holds : h = events[i + 1].id /\ h = events'[i].id
    BY <2>1, <1>2, KnownIds
  <2>3. \/ Owed(h)' \/ Closes(rail, h)'
        \/ \E j \in i + 1 .. Len(events') : events'[j].kind = "close" /\ events'[j].id = h
    BY <2>1, <2>2, <1>2, <1>6
  <2> QED
    BY <2>2, <2>3 DEF ClosedLater, Closes, Owed
<1>8. OwnerOwes'
  <2> SUFFICES ASSUME NEW h \in open' PROVE Owed(h)' \/ Closes(rail, h)' \/ Closes(events, h)'
    BY DEF OwnerOwes
  <2>1. CASE h \in open /\ ~(events[1].kind = "close" /\ events[1].id = h)
    <3>1. CASE Owed(h) \/ Closes(rail, h)
      BY <2>1, <3>1, <1>0, KnownIds DEF Closes
    <3>2. CASE Closes(events, h)
      <4>1. PICK j \in 1 .. Len(events) : events[j].kind = "close" /\ events[j].id = h
        BY <3>2 DEF Closes
      <4>2. j \in 2 .. Len(events)
        BY <4>1, <2>1, <1>1
      <4> QED
        BY <4>1, <4>2, <1>3 DEF Closes
    <3> QED
      BY <2>1, <3>1, <3>2 DEF Settling, OwnerOwes
  <2>2. CASE h = events[1].id /\ events[1].kind = "open"
    <3>1. 1 \in 1 .. Len(events) /\ h \in Holds
      BY <1>1, <2>2, KnownIds
    <3> QED
      BY <3>1, <2>2, <1>6 DEF Closes
  <2>3. \/ h \in open /\ ~(events[1].kind = "close" /\ events[1].id = h)
        \/ h = events[1].id /\ events[1].kind = "open"
    <3>1. CASE events[1].kind = "open"
      BY <3>1, <1>1 DEF HandleEvent, Opened, ownerVars
    <3>2. CASE events[1].kind # "open"
      BY <3>2, <1>1 DEF HandleEvent, Closed
    <3> QED
      BY <3>1, <3>2
  <2> QED
    BY <2>1, <2>2, <2>3
<1> QED
  BY <1>4, <1>5, <1>7, <1>8

LEMMA SettlingInit == Init => Settling
BY DEF Init, Settling, RailOwes, EventsOwe, OwnerOwes, ContextOwes

LEMMA SettlingStep ==
    ASSUME TalkerInv, ListenInv, RestTypes, Settling, [Next]_vars PROVE Settling'
<1> USE DEF listenVars, receiveVars, wireVars, ownerVars, taskVars
<1>1. ASSUME \A h \in Holds : ~CloseRuns(h) PROVE \A h \in Holds : Owed(h) => Owed(h)'
  BY <1>1, OwedKept
<1>2. ASSUME NEW h \in Holds, CloseRuns(h) PROVE Settling'
  <2> DEFINE m == [kind |-> "close", id |-> h]
  <2>1. m \in Message /\ m.kind = "close" /\ m.id = h
    BY DEF Message
  <2>2. \A k \in Holds : Owed(k) => Owed(k)' \/ k = h
    <3> SUFFICES ASSUME NEW k \in Holds, Owed(k), k # h PROVE Owed(k)'
      OBVIOUS
    <3>1. /\ UNCHANGED <<stage, live, calls>> /\ closing' = closing \ {h}
      BY <1>2 DEF CloseRuns
    <3> QED
      BY <3>1 DEF Owed
  <2>3. CASE clean' = FALSE
    BY <2>3 DEF Settling
  <2>4. CASE rail' = Append(rail, m) /\ UNCHANGED clean
    <3>1. UNCHANGED <<events, open, ctx>>
      BY <1>2 DEF CloseRuns
    <3> HIDE DEF m
    <3> QED
      BY <2>1, <2>2, <2>4, <3>1, SettlesSent
  <2> QED
    BY <1>2, <2>3, <2>4 DEF CloseRuns
<1>3. ASSUME NEW h \in Holds, OpenRouted(h), \A k \in Holds : Owed(k) => Owed(k)' PROVE Settling'
  <2> DEFINE m == [kind |-> "open", id |-> h]
  <2>1. m \in Message /\ m.kind = "open" /\ m.id = h
    BY DEF Message
  <2>2. rail' = Append(rail, m) /\ UNCHANGED <<clean, events, open, ctx>>
        /\ stage' = [stage EXCEPT ![h] = "routed"]
    BY <1>3 DEF OpenRouted
  <2>3. Owed(h)'
    BY <2>1, <2>2 DEF Owed, TalkerInv, TalkerTypes, Tables
  <2> HIDE DEF m
  <2> QED
    BY <2>1, <2>2, <2>3, <1>3, SettlesSent
<1>4. ASSUME NEW i \in 1 .. Len(rail), RailStep(i), \A k \in Holds : Owed(k) => Owed(k)'
      PROVE  Settling'
  <2>1. CASE ~clean'
    BY <2>1 DEF Settling
  <2>2. CASE clean'
    <3>0. Len(rail) \in Nat /\ clean \in BOOLEAN /\ rail[i] \in Message
      BY KnownIds DEF RestTypes
    <3>1. ReceiveOpen(i) \/ ReceiveClose(i)
      BY <1>4, <2>2 DEF RailStep, RailLoses
    <3>2. clean /\ i = 1
      BY <2>2, <3>0, <3>1 DEF ReceiveOpen, ReceiveClose
    <3>3. /\ 1 \in 1 .. Len(rail) /\ rail' = Taken(1) /\ events' = Append(events, rail[1])
          /\ UNCHANGED <<clean, open>>
          /\ ctx' = (IF rail[1].kind = "open" THEN rail[1].id ELSE 0)
      BY <2>2, <3>0, <3>1, <3>2 DEF ReceiveOpen, ReceiveClose
    <3> QED
      BY <3>3, <1>4, SettlesReceived
  <2> QED
    BY <2>1, <2>2
<1>5. ASSUME HandleEvent, \A k \in Holds : Owed(k) => Owed(k)' PROVE Settling'
  BY <1>5, SettlesHandled
<1>6. ASSUME Interruption \/ ListenerRelaunch, \A k \in Holds : Owed(k) => Owed(k)' PROVE Settling'
  <2>1. /\ UNCHANGED <<rail, clean>> /\ open' = {} /\ ctx' \in {ctx, 0}
        /\ UNCHANGED events \/ events' = <<>>
    BY <1>6 DEF Interruption, ListenerRelaunch
  <2> QED
    BY <2>1, <1>6, SettlesIdle
<1>7. ASSUME UNCHANGED <<rail, clean, events, open, ctx>>, \A k \in Holds : Owed(k) => Owed(k)'
      PROVE  Settling'
  BY <1>7, SettlesIdle
<1>8. \/ \E h \in Holds : CloseRuns(h) \/ OpenRouted(h)
      \/ \E i \in 1 .. Len(rail) : RailStep(i)
      \/ HandleEvent \/ Interruption \/ ListenerRelaunch
      \/ UNCHANGED <<rail, clean, events, open, ctx>>
  BY DEF Next, vars, BeginPTT, EndPTT, Dismiss, LetGo, TaskStep, GateA, OpenFails,
         OpenReturns, GateB, PermissionAnswered, GateC, GateD, SealFrame, ReceiveFrame
<1> QED
  BY <1>1, <1>2, <1>3, <1>4, <1>5, <1>6, <1>7, <1>8

\* On a rail that lost and reordered nothing, a listener that has handled all it
\* was sent keeps no decoding context and no live session once the talker has
\* closed what it opened, however presses overlap, whatever fails to activate and
\* whenever the listener is interrupted or killed (closePTTInitiator,
\* PTTReceiver's contexts, PTTSessionOwner.opened and closed).
THEOREM ListenerIsSettled == Spec => []ListenerSettles
<1>1. TalkerInv /\ ListenInv /\ RestTypes /\ Settling => ListenerSettles
  <2> SUFFICES ASSUME TalkerInv, ListenInv, RestTypes, Settling, clean, rail = <<>>, events = <<>>,
                      \A h \in Holds : /\ stage[h] # "routed"
                                       /\ live[h] = h => calls[h] > 0 /\ h \notin closing
               PROVE  ctx = 0 /\ open = {}
    BY DEF ListenerSettles
  <2>1. \A h \in Holds : ~Owed(h) /\ ~Closes(rail, h) /\ ~Closes(events, h)
    BY DEF Owed, Closes
  <2> QED
    BY <2>1, KnownIds DEF Settling, OwnerOwes, ContextOwes
<1>2. TalkerInv /\ ListenInv /\ RestTypes /\ Settling /\ [Next]_vars => Settling'
  BY SettlingStep
<1>3. TalkerInv /\ ListenInv /\ RestTypes /\ [Next]_vars => RestTypes'
  BY RestStep
<1> QED
  BY <1>1, <1>2, <1>3, SettlingInit, RestInit, TalkerAlways, ListenAlways, PTL DEF Spec
=============================================================================
