----------------------- MODULE ClientLifecycleProofs -----------------------
(* Theorems about ClientLifecycle, for every number of callers, reconnect  *)
(* sessions and connections.                                               *)
EXTENDS ClientLifecycle, Naturals, FiniteSets, FiniteSetTheorems, TLAPS

USE NoneAssumption, DialersAssumption, ModesAssumption

-----------------------------------------------------------------------------
(* Every variable keeps its type, with both entry points in use.           *)

LEMMA TypeInit == Init => TypeOK
<1> SUFFICES ASSUME Init PROVE TypeOK
  OBVIOUS
<1>1. rxDone \in [Conns -> BOOLEAN] /\ wake \in [Sessions -> BOOLEAN]
      /\ rctxDone \in [Sessions -> BOOLEAN]
  BY DEF Init
<1>2. dialed \in [Dialers -> Conns \cup {None}]
  BY DEF Init
<1> QED
  BY <1>1, <1>2 DEF Init, TypeOK

LEMMA TypeInstall ==
  ASSUME TypeOK, NEW c \in Conns \cup {None}, Install(c)
  PROVE  /\ ws' \in Conns \cup {None} /\ rxCtx' \in Conns \cup {None}
         /\ rxDone' \in [Conns -> BOOLEAN]
         /\ loop' \in [Conns -> {"read", "blocked", "answer", "disconnect", "fail", "wake", "done", "panic"}]
         /\ \A d \in Conns : loop'[d] = "wake" => wakeOf'[d] # None
         /\ UNCHANGED <<closed, session, sock, readCtx, wakeOf>>
<1> USE DEF TypeOK
<1>1. ws' \in Conns \cup {None} /\ rxCtx' \in Conns \cup {None}
  BY DEF Install
<1>2. rxDone' \in [Conns -> BOOLEAN]
  BY DEF Install
<1>3. loop' \in [Conns -> {"read", "blocked", "answer", "disconnect", "fail", "wake", "done", "panic"}]
  BY DEF Install
<1>4. \A d \in Conns : loop'[d] \in {loop[d], "read"}
  BY DEF Install
<1> QED
  BY <1>1, <1>2, <1>3, <1>4 DEF Install

LEMMA TypeConnect ==
  ASSUME TypeOK, NEW t \in Connectors, CallConnect(t) \/ ConnectStep(t)
  PROVE  TypeOK'
<1> USE DEF TypeOK, Dialers, clientVars, connVars, sessVars, userVars, closeVars
<1>1. CASE CallConnect(t)
  BY <1>1 DEF CallConnect
<1>2. CASE CheckState(t)
  BY <1>2 DEF CheckState, ConnectFails
<1>3. CASE DialFails(t)
  BY <1>3 DEF DialFails, ConnectFails
<1>4. ASSUME NEW c \in Conns, Dial(t, c) PROVE TypeOK'
  BY <1>4 DEF Dial
<1>5. CASE InstallConn(t)
  <2>1. dialed[t] \in Conns \cup {None}
    OBVIOUS
  <2>2. CASE InstallRefused
    BY <1>5, <2>1, <2>2 DEF InstallConn, ConnectFails, Discard
  <2>3. CASE ~InstallRefused
    <3>1. Install(dialed[t])
      BY <1>5, <2>3 DEF InstallConn
    <3> QED
      BY <1>5, <2>1, <2>3, <3>1, TypeInstall DEF InstallConn
  <2> QED
    BY <2>2, <2>3
<1>6. CASE DisableReconnect(t)
  BY <1>6 DEF DisableReconnect
<1>7. CASE CancelReconnect(t)
  BY <1>7 DEF CancelReconnect
<1>8. CASE ReconnectDisabled(t)
  BY <1>8 DEF ReconnectDisabled
<1> QED
  BY <1>1, <1>2, <1>3, <1>4, <1>5, <1>6, <1>7, <1>8 DEF ConnectStep

LEMMA TypeRead ==
  ASSUME TypeOK, NEW c \in Conns,
         ReadStep(c) \/ FailPending(c) \/ Receive(c) \/ AnswerEnds(c) \/ Lose(c) \/ Sever(c)
  PROVE  TypeOK'
<1> USE DEF TypeOK, clientVars, connVars, sessVars, userVars, closeVars
<1>1. CASE ReadNext(c)
  BY <1>1 DEF ReadNext
<1>2. CASE ReadNilContext(c)
  BY <1>2 DEF ReadNilContext
<1>3. CASE ReadFails(c)
  BY <1>3 DEF ReadFails
<1>4. CASE OnDisconnect(c)
  <2>1. WakeTarget \in Sessions \cup {None}
    BY DEF WakeTarget
  <2>2. CASE ws = c
    <3> DEFINE target == WakeTarget
    <3>1. /\ ws' = None /\ rxCtx' = None /\ rxDone' = [rxDone EXCEPT ![c] = TRUE]
          /\ wakeOf' = [wakeOf EXCEPT ![c] = target] /\ loop' = [loop EXCEPT ![c] = "fail"]
      BY <1>4, <2>2 DEF OnDisconnect
    <3>2. target \in Sessions \cup {None}
      BY <2>1
    <3> HIDE DEF target
    <3> QED
      BY <1>4, <3>1, <3>2 DEF OnDisconnect
  <2>3. CASE ws # c
    BY <1>4, <2>3 DEF OnDisconnect
  <2> QED
    BY <2>2, <2>3
<1>5. CASE SendWake(c)
  BY <1>5 DEF SendWake
<1>6. CASE FailPending(c)
  BY <1>6 DEF FailPending
<1>7. CASE Receive(c) \/ AnswerEnds(c)
  BY <1>7 DEF Receive, AnswerEnds
<1>8. CASE Lose(c)
  BY <1>8 DEF Lose
<1>9. CASE Sever(c)
  BY <1>9 DEF Sever
<1> QED
  BY <1>1, <1>2, <1>3, <1>4, <1>5, <1>6, <1>7, <1>8, <1>9 DEF ReadStep

LEMMA TypeLoop ==
  ASSUME TypeOK, NEW r \in Sessions, LoopStep(r) \/ ParentCancels(r)
  PROVE  TypeOK'
<1> USE DEF TypeOK, Dialers, RLoopAt, clientVars, connVars, sessVars, userVars, closeVars
<1>1. CASE LoopStops(r)
  BY <1>1 DEF LoopStops
<1>2. CASE LoopWakes(r)
  BY <1>2 DEF LoopWakes
<1>3. CASE LoopChecks(r)
  BY <1>3 DEF LoopChecks
<1>4. ASSUME NEW c \in Conns, Redial(r, c) PROVE TypeOK'
  BY <1>4 DEF Redial
<1>5. CASE RedialFails(r)
  BY <1>5 DEF RedialFails
<1>6. CASE InstallRedialed(r)
  <2>1. dialed[r] \in Conns \cup {None}
    OBVIOUS
  <2>2. CASE Discard(dialed[r])
    BY <1>6, <2>1, <2>2 DEF InstallRedialed, Discard
  <2>3. CASE Install(dialed[r])
    BY <1>6, <2>1, <2>3, TypeInstall DEF InstallRedialed
  <2> QED
    BY <1>6, <2>2, <2>3 DEF InstallRedialed
<1>7. CASE LoopConfirms(r)
  BY <1>7 DEF LoopConfirms
<1>8. CASE DelayExpires(r)
  BY <1>8 DEF DelayExpires
<1>9. CASE ParentCancels(r)
  BY <1>9 DEF ParentCancels
<1> QED
  BY <1>1, <1>2, <1>3, <1>4, <1>5, <1>6, <1>7, <1>8, <1>9 DEF LoopStep, Redials

LEMMA TypeClose ==
  ASSUME TypeOK, CallClose \/ CloseStep \/ CloseFailsPending
  PROVE  TypeOK'
<1> USE DEF TypeOK, clientVars, connVars, sessVars, userVars, closeVars
<1>1. CASE CallClose
  BY <1>1 DEF CallClose
<1>2. CASE CloseCancels
  BY <1>2 DEF CloseCancels
<1>3. CASE CloseAwaitsRead \/ CloseAwaitsLoop \/ CloseFailsPending
  BY <1>3 DEF CloseAwaitsRead, CloseAwaitsLoop, CloseFailsPending
<1> QED
  BY <1>1, <1>2, <1>3 DEF CloseStep

LEMMA TypeNext == TypeOK /\ [Next]_vars => TypeOK'
<1> SUFFICES ASSUME TypeOK, [Next]_vars PROVE TypeOK'
  OBVIOUS
<1>1. CASE UNCHANGED vars
  BY <1>1 DEF vars, clientVars, connVars, sessVars, userVars, closeVars, TypeOK
<1>2. ASSUME NEW t \in Connectors, NEW r \in Sessions, CallConnectWithReconnect(t, r)
      PROVE  TypeOK'
  BY <1>2 DEF CallConnectWithReconnect, TypeOK, connVars, closeVars
<1> QED
  BY <1>1, <1>2, TypeConnect, TypeRead, TypeLoop, TypeClose
     DEF Next, ProgramStep, FailStep, Over

(* Types are right in every run, whichever entry points the callers use.    *)
THEOREM TypeCorrect == Spec => []TypeOK
  BY TypeInit, TypeNext, PTL DEF Spec

LEMMA FinalNext == ClosedIsFinal /\ [Next]_vars => ClosedIsFinal'
<1> SUFFICES ASSUME ClosedIsFinal, [Next]_vars PROVE ClosedIsFinal'
  OBVIOUS
<1> USE DEF ClosedIsFinal, clientVars
<1>1. CASE UNCHANGED vars
  BY <1>1 DEF vars
<1>2. ASSUME NEW t \in Connectors,
             CallConnect(t) \/ \E r \in Sessions : CallConnectWithReconnect(t, r)
      PROVE  ClosedIsFinal'
  BY <1>2 DEF CallConnect, CallConnectWithReconnect, ReconnectRefused
<1>3. ASSUME NEW t \in Connectors, ConnectStep(t) PROVE ClosedIsFinal'
  BY <1>3 DEF ConnectStep, CheckState, DialFails, Dial, InstallConn, InstallRefused, Install,
              Discard, DisableReconnect, CancelReconnect, ReconnectDisabled
<1>4. ASSUME NEW c \in Conns,
             ReadStep(c) \/ FailPending(c) \/ Receive(c) \/ AnswerEnds(c) \/ Lose(c) \/ Sever(c)
      PROVE  ClosedIsFinal'
  BY <1>4 DEF ReadStep, ReadNext, ReadNilContext, ReadFails, OnDisconnect, SendWake,
              FailPending, Receive, AnswerEnds, Lose, Sever
<1>5. ASSUME NEW r \in Sessions, LoopStep(r) \/ ParentCancels(r) PROVE ClosedIsFinal'
  BY <1>5 DEF LoopStep, LoopStops, LoopWakes, LoopChecks, Redials, Redial, RedialFails, InstallRedialed,
              RedialRefused, Install, Discard, LoopConfirms, DelayExpires, ParentCancels
<1>6. CASE CallClose \/ CloseStep \/ CloseFailsPending
  BY <1>6 DEF CallClose, CloseStep, CloseCancels, CloseAwaitsRead, CloseAwaitsLoop,
              CloseFailsPending
<1> QED
  BY <1>1, <1>2, <1>3, <1>4, <1>5, <1>6 DEF Next, ProgramStep, FailStep, Over

(* A closed client stays disconnected, whichever entry points are used: a     *)
(* dial that was under way across Close is discarded when it looks again.     *)
THEOREM CloseIsFinal == Spec => []ClosedIsFinal
<1>1. Init => ClosedIsFinal
  BY DEF Init, ClosedIsFinal
<1> QED
  BY <1>1, FinalNext, PTL DEF Spec

-----------------------------------------------------------------------------
(* The wake channel, whichever entry points are used and however they        *)
(* overlap.  A session is registered with its loop asleep, and from then on   *)
(* the client loses its connection only through onDisconnect, which takes the *)
(* session along, or through Close, which ends it; the loop goes to sleep only *)
(* when it sees a connection.                                                *)

InvRegistered ==
  \A t \in Connectors : /\ user[t] = "idle" => usess[t] = None
                        /\ user[t] \in {"stop", "await"} => session # usess[t]
WakeInv == InvDial /\ InvRegistered /\ NoLostWakeup

LEMMA WakeConnect ==
  ASSUME TypeOK, WakeInv, NEW t \in Connectors,
         CallConnect(t) \/ ConnectStep(t) \/ \E r \in Sessions : CallConnectWithReconnect(t, r)
  PROVE  WakeInv'
<1> USE DEF TypeOK, Dialers, clientVars, connVars, sessVars, userVars, closeVars,
            WakeInv, InvDial, InvRegistered, NoLostWakeup
<1>1. CASE CallConnect(t)
  BY <1>1 DEF CallConnect
<1>2. CASE CheckState(t)
  BY <1>2 DEF CheckState, ConnectFails
<1>3. CASE DialFails(t)
  BY <1>3 DEF DialFails, ConnectFails
<1>4. ASSUME NEW c \in Conns, Dial(t, c) PROVE WakeInv'
  BY <1>4 DEF Dial, FreshConn
<1>5. CASE InstallConn(t)
  <2>1. InvDial'
    BY <1>5 DEF InstallConn, ConnectFails, InstallRefused, Install, Discard
  <2>2. InvRegistered'
    BY <1>5 DEF InstallConn, ConnectFails, InstallRefused, Install, Discard
  <2>3. NoLostWakeup'
    BY <1>5 DEF InstallConn, ConnectFails, InstallRefused, Install, Discard
  <2> QED
    BY <2>1, <2>2, <2>3
<1>6. CASE DisableReconnect(t)
  BY <1>6 DEF DisableReconnect
<1>7. CASE CancelReconnect(t)
  BY <1>7 DEF CancelReconnect
<1>8. CASE ReconnectDisabled(t)
  BY <1>8 DEF ReconnectDisabled
<1>9. ASSUME NEW r \in Sessions, CallConnectWithReconnect(t, r) PROVE WakeInv'
  BY <1>9 DEF CallConnectWithReconnect, ReconnectRefused, FreshSession
<1> QED
  BY <1>1, <1>2, <1>3, <1>4, <1>5, <1>6, <1>7, <1>8, <1>9 DEF ConnectStep

LEMMA WakeRead ==
  ASSUME TypeOK, ClosedIsFinal, WakeInv, NEW c \in Conns,
         ReadStep(c) \/ FailPending(c) \/ Receive(c) \/ AnswerEnds(c) \/ Lose(c) \/ Sever(c)
  PROVE  WakeInv'
<1> USE DEF TypeOK, clientVars, connVars, sessVars, userVars, closeVars,
            WakeInv, InvDial, InvRegistered, NoLostWakeup
<1>1. CASE OnDisconnect(c)
  <2>1. InvDial'
    BY <1>1 DEF OnDisconnect
  <2>2. InvRegistered'
    BY <1>1 DEF OnDisconnect
  <2>3. NoLostWakeup'
    BY <1>1 DEF OnDisconnect, WakeTarget, ClosedIsFinal
  <2> QED
    BY <2>1, <2>2, <2>3
<1>2. CASE SendWake(c)
  BY <1>2 DEF SendWake
<1>3. CASE FailPending(c)
  BY <1>3 DEF FailPending
<1>4. CASE ReadNext(c) \/ ReadNilContext(c) \/ ReadFails(c) \/ Receive(c) \/ AnswerEnds(c) \/ Lose(c) \/ Sever(c)
  BY <1>4 DEF ReadNext, ReadNilContext, ReadFails, Receive, AnswerEnds, Lose, Sever
<1> QED
  BY <1>1, <1>2, <1>3, <1>4 DEF ReadStep

LEMMA WakeLoop ==
  ASSUME TypeOK, WakeInv, NEW r \in Sessions, LoopStep(r) \/ ParentCancels(r)
  PROVE  WakeInv'
<1> USE DEF TypeOK, Dialers, RLoopAt, clientVars, connVars, sessVars, userVars, closeVars,
            WakeInv, InvDial, InvRegistered, NoLostWakeup
<1>1. CASE LoopStops(r) \/ LoopWakes(r) \/ LoopChecks(r) \/ RedialFails(r)
           \/ LoopConfirms(r) \/ DelayExpires(r)
  BY <1>1 DEF LoopStops, LoopWakes, LoopChecks, RedialFails, LoopConfirms, DelayExpires
<1>2. ASSUME NEW c \in Conns, Redial(r, c) PROVE WakeInv'
  BY <1>2 DEF Redial, FreshConn
<1>3. CASE InstallRedialed(r)
  <2>1. InvDial'
    BY <1>3 DEF InstallRedialed, Install, Discard
  <2>2. InvRegistered'
    BY <1>3 DEF InstallRedialed, Install, Discard
  <2>3. NoLostWakeup'
    BY <1>3 DEF InstallRedialed, Install, Discard
  <2> QED
    BY <2>1, <2>2, <2>3
<1>4. CASE ParentCancels(r)
  BY <1>4 DEF ParentCancels
<1> QED
  BY <1>1, <1>2, <1>3, <1>4 DEF LoopStep, Redials

LEMMA WakeClose ==
  ASSUME TypeOK, WakeInv, CallClose \/ CloseStep \/ CloseFailsPending
  PROVE  WakeInv'
BY DEF TypeOK, WakeInv, InvDial, InvRegistered, NoLostWakeup, CallClose, CloseStep, CloseCancels,
       CloseAwaitsRead, CloseAwaitsLoop, CloseFailsPending, clientVars, connVars, sessVars, userVars

LEMMA WakeNext == TypeOK /\ ClosedIsFinal /\ WakeInv /\ [Next]_vars => WakeInv'
<1> SUFFICES ASSUME TypeOK, ClosedIsFinal, WakeInv, [Next]_vars PROVE WakeInv'
  OBVIOUS
<1>1. CASE UNCHANGED vars
  BY <1>1 DEF vars, clientVars, connVars, sessVars, userVars, closeVars,
              WakeInv, InvDial, InvRegistered, NoLostWakeup
<1> QED
  BY <1>1, WakeConnect, WakeRead, WakeLoop, WakeClose DEF Next, ProgramStep, FailStep, Over

(* A disconnection is never lost to the reconnect loop: not to one of a       *)
(* session that overlaps with calls of Connect either.                        *)
THEOREM WakeCorrect == Spec => []NoLostWakeup
<1>1. Init => WakeInv
  BY DEF Init, WakeInv, InvDial, InvRegistered, NoLostWakeup, Dialers
<1>2. WakeInv => NoLostWakeup
  BY DEF WakeInv
<1> QED
  BY <1>1, <1>2, WakeNext, CloseIsFinal, TypeCorrect, PTL DEF Spec

-----------------------------------------------------------------------------
(* The inductive invariant, when every caller uses ConnectWithReconnect or   *)
(* there is one caller and it uses Connect.                                 *)

(* Both entry points and every step of a connector keep the invariant.      *)
LEMMA IndConnect ==
  ASSUME OneWayIn, TypeOK, TypeOK', IndInv, NEW t \in Connectors,
         CallConnect(t) \/ ConnectStep(t) \/ \E r \in Sessions : CallConnectWithReconnect(t, r)
  PROVE  IndInv'
<1> USE DEF TypeOK, Dialers, clientVars, connVars, sessVars, userVars, closeVars,
            IndInv, InvClose, ClosedIsFinal, InvRead, Receiving, Reading, Current, InvDial,
            InvMode, InvUser, Quiet, Waking, InvLoop, CurrentSession
<1>1. CASE CheckState(t)
  BY <1>1 DEF CheckState, ConnectFails, ConnectRefused
<1>2. CASE DialFails(t)
  BY <1>2 DEF DialFails, ConnectFails
<1>3. ASSUME NEW c \in Conns, Dial(t, c) PROVE IndInv'
  BY <1>3 DEF Dial, FreshConn
<1>4. CASE InstallConn(t)
  <2>1. InvClose'
    BY <1>4 DEF InstallConn, ConnectFails, InstallRefused, Install, Discard
  <2>2. InvRead'
    BY <1>4 DEF InstallConn, ConnectFails, InstallRefused, Install, Discard
  <2>3. InvDial'
    BY <1>4 DEF InstallConn, ConnectFails, InstallRefused, Install, Discard
  <2>4. InvUser'
    BY <1>4 DEF InstallConn, ConnectFails, InstallRefused, Install, Discard
  <2>5. InvLoop' /\ InvMode'
    BY <1>4 DEF InstallConn, ConnectFails, InstallRefused, Install, Discard
  <2> QED
    BY <2>1, <2>2, <2>3, <2>4, <2>5
<1>5. CASE DisableReconnect(t)
  <2>1. InvClose'
    BY <1>5 DEF DisableReconnect
  <2>2. InvRead'
    BY <1>5 DEF DisableReconnect
  <2>3. InvDial'
    BY <1>5 DEF DisableReconnect
  <2>4. InvUser'
    BY <1>5 DEF DisableReconnect
  <2>5. InvLoop' /\ InvMode'
    BY <1>5 DEF DisableReconnect
  <2> QED
    BY <2>1, <2>2, <2>3, <2>4, <2>5
<1>6. CASE CancelReconnect(t)
  BY <1>6 DEF CancelReconnect
<1>7. CASE ReconnectDisabled(t)
  BY <1>7 DEF ReconnectDisabled
<1>8. ASSUME NEW r \in Sessions, CallConnectWithReconnect(t, r) PROVE IndInv'
  <2>1. InvClose'
    BY <1>8 DEF CallConnectWithReconnect, ReconnectRefused, FreshSession
  <2>2. InvRead'
    BY <1>8 DEF CallConnectWithReconnect, ReconnectRefused, FreshSession
  <2>3. InvDial'
    BY <1>8 DEF CallConnectWithReconnect, ReconnectRefused, FreshSession
  <2>4. InvUser'
    BY <1>8 DEF CallConnectWithReconnect, ReconnectRefused, FreshSession
  <2>5. InvLoop' /\ InvMode'
    BY <1>8 DEF CallConnectWithReconnect, ReconnectRefused, FreshSession
  <2> QED
    BY <2>1, <2>2, <2>3, <2>4, <2>5
<1>9. CASE CallConnect(t)
  <2>1. session = None /\ \A u \in Connectors : u = t
    BY <1>9 DEF CallConnect, OneWayIn
  <2> QED
    BY <1>9, <2>1 DEF CallConnect
<1> QED
  BY <1>1, <1>2, <1>3, <1>4, <1>5, <1>6, <1>7, <1>8, <1>9 DEF ConnectStep

(* The read loops and the network keep it.                                  *)
LEMMA IndRead ==
  ASSUME TypeOK, TypeOK', IndInv, NEW c \in Conns,
         ReadStep(c) \/ FailPending(c) \/ Receive(c) \/ AnswerEnds(c) \/ Lose(c) \/ Sever(c)
  PROVE  IndInv'
<1> USE DEF TypeOK, Dialers, clientVars, connVars, sessVars, userVars, closeVars,
            IndInv, InvClose, ClosedIsFinal, InvRead, Receiving, Reading, Current, InvDial,
            InvMode, InvUser, Quiet, Waking, InvLoop, CurrentSession
<1>1. CASE ReadNext(c)
  BY <1>1 DEF ReadNext
<1>2. CASE ReadNilContext(c)
  BY <1>2 DEF ReadNilContext
<1>3. CASE ReadFails(c)
  <2>1. InvClose'
    BY <1>3 DEF ReadFails
  <2>2. InvRead'
    BY <1>3 DEF ReadFails
  <2>3. InvDial'
    BY <1>3 DEF ReadFails
  <2>4. InvUser'
    BY <1>3 DEF ReadFails
  <2>5. InvLoop' /\ InvMode'
    BY <1>3 DEF ReadFails
  <2> QED
    BY <2>1, <2>2, <2>3, <2>4, <2>5
<1>4. CASE OnDisconnect(c)
  <2>1. InvClose'
    BY <1>4 DEF OnDisconnect, WakeTarget
  <2>2. InvRead'
    BY <1>4 DEF OnDisconnect, WakeTarget
  <2>3. InvDial'
    BY <1>4 DEF OnDisconnect, WakeTarget
  <2>4. InvUser'
    BY <1>4 DEF OnDisconnect, WakeTarget
  <2>5. InvLoop' /\ InvMode'
    BY <1>4 DEF OnDisconnect, WakeTarget
  <2> QED
    BY <2>1, <2>2, <2>3, <2>4, <2>5
<1>5. CASE SendWake(c)
  BY <1>5 DEF SendWake
<1>6. CASE FailPending(c)
  BY <1>6 DEF FailPending
<1>7. CASE Receive(c) \/ AnswerEnds(c)
  BY <1>7 DEF Receive, AnswerEnds
<1>8. CASE Lose(c)
  BY <1>8 DEF Lose
<1>9. CASE Sever(c)
  BY <1>9 DEF Sever
<1> QED
  BY <1>1, <1>2, <1>3, <1>4, <1>5, <1>6, <1>7, <1>8, <1>9 DEF ReadStep

(* The reconnect loops keep it.                                             *)
LEMMA IndLoop ==
  ASSUME TypeOK, TypeOK', IndInv, NEW r \in Sessions,
         LoopStep(r) \/ ParentCancels(r)
  PROVE  IndInv'
<1> USE DEF TypeOK, Dialers, clientVars, connVars, sessVars, userVars, closeVars,
            IndInv, InvClose, ClosedIsFinal, InvRead, Receiving, Reading, Current, InvDial,
            InvMode, InvUser, Quiet, Waking, InvLoop, CurrentSession
<1>1. CASE LoopStops(r)
  BY <1>1 DEF LoopStops, RLoopAt
<1>2. CASE LoopWakes(r)
  BY <1>2 DEF LoopWakes, RLoopAt
<1>3. CASE LoopChecks(r)
  BY <1>3 DEF LoopChecks, RLoopAt
<1>4. ASSUME NEW c \in Conns, Redial(r, c) PROVE IndInv'
  BY <1>4 DEF Redial, RLoopAt, FreshConn
<1>5. CASE RedialFails(r)
  BY <1>5 DEF RedialFails, RLoopAt
<1>6. CASE InstallRedialed(r)
  <2>1. InvClose'
    BY <1>6 DEF InstallRedialed, RLoopAt, RedialRefused, Install, Discard
  <2>2. InvRead'
    BY <1>6 DEF InstallRedialed, RLoopAt, RedialRefused, Install, Discard
  <2>3. InvDial'
    BY <1>6 DEF InstallRedialed, RLoopAt, RedialRefused, Install, Discard
  <2>4. InvUser'
    BY <1>6 DEF InstallRedialed, RLoopAt, RedialRefused, Install, Discard
  <2>5. InvLoop' /\ InvMode'
    BY <1>6 DEF InstallRedialed, RLoopAt, RedialRefused, Install, Discard
  <2> QED
    BY <2>1, <2>2, <2>3, <2>4, <2>5
<1>7. CASE LoopConfirms(r)
  BY <1>7 DEF LoopConfirms, RLoopAt
<1>8. CASE DelayExpires(r)
  BY <1>8 DEF DelayExpires, RLoopAt
<1>9. CASE ParentCancels(r)
  BY <1>9 DEF ParentCancels
<1> QED
  BY <1>1, <1>2, <1>3, <1>4, <1>5, <1>6, <1>7, <1>8, <1>9 DEF LoopStep, Redials

(* Close keeps it.                                                          *)
LEMMA IndClose ==
  ASSUME TypeOK, TypeOK', IndInv,
         CallClose \/ CloseStep \/ CloseFailsPending
  PROVE  IndInv'
<1> USE DEF TypeOK, Dialers, clientVars, connVars, sessVars, userVars, closeVars,
            IndInv, InvClose, ClosedIsFinal, InvRead, Receiving, Reading, Current, InvDial,
            InvMode, InvUser, Quiet, Waking, InvLoop, CurrentSession
<1>1. CASE CallClose
  <2>1. InvClose'
    BY <1>1 DEF CallClose
  <2>2. InvRead'
    BY <1>1 DEF CallClose
  <2>3. InvDial'
    BY <1>1 DEF CallClose
  <2>4. InvUser'
    BY <1>1 DEF CallClose
  <2>5. InvLoop' /\ InvMode'
    BY <1>1 DEF CallClose
  <2> QED
    BY <2>1, <2>2, <2>3, <2>4, <2>5
<1>2. CASE CloseCancels
  BY <1>2 DEF CloseCancels
<1>3. CASE CloseAwaitsRead
  BY <1>3 DEF CloseAwaitsRead
<1>4. CASE CloseAwaitsLoop
  BY <1>4 DEF CloseAwaitsLoop
<1>5. CASE CloseFailsPending
  BY <1>5 DEF CloseFailsPending
<1> QED
  BY <1>1, <1>2, <1>3, <1>4, <1>5 DEF CloseStep

LEMMA IndInit == Init => IndInv
<1> SUFFICES ASSUME Init PROVE IndInv
  OBVIOUS
<1> USE DEF Init
<1>1. InvClose /\ InvRead
  BY DEF InvClose, ClosedIsFinal, InvRead, Receiving, Reading
<1>2. InvDial /\ InvUser
  BY DEF InvDial, InvUser, Dialers
<1>3. InvLoop /\ InvMode
  BY DEF InvLoop, Quiet, Waking, InvMode
<1> QED
  BY <1>1, <1>2, <1>3 DEF IndInv

LEMMA IndNext ==
  ASSUME OneWayIn, TypeOK, IndInv, [Next]_vars
  PROVE  IndInv'
<1>1. TypeOK'
  BY TypeNext
<1>2. CASE UNCHANGED vars
  BY <1>2 DEF vars, clientVars, connVars, sessVars, userVars, closeVars, Dialers,
              IndInv, InvClose, ClosedIsFinal, InvRead, Receiving, Reading, Current, InvDial,
              InvMode, InvUser, Quiet, Waking, InvLoop, CurrentSession
<1> QED
  BY <1>1, <1>2, IndConnect, IndRead, IndLoop, IndClose
     DEF Next, ProgramStep, FailStep, Over

(* The licence discipline holds for any number of callers, sessions and      *)
(* connections, as long as Connect is not mixed with anything else.          *)
THEOREM LicenceCorrect ==
  ASSUME OneWayIn PROVE Spec => []IndInv
<1>1. IndInv /\ TypeOK /\ [Next]_vars => IndInv'
  BY IndNext
<1> QED
  BY IndInit, TypeCorrect, <1>1, PTL DEF Spec

-----------------------------------------------------------------------------
(* What follows from it.                                                    *)

(* Only the connection in use is read, each loop with its own context, so    *)
(* that the unlocked reads of c.rxCtx in readLoop are harmless.              *)
THEOREM ReaderCorrect ==
  ASSUME OneWayIn PROVE Spec => []ReaderOwnsConnection
<1>1. IndInv => ReaderOwnsConnection
  BY DEF IndInv, InvRead, Receiving, Reading, Current, ReaderOwnsConnection
<1> QED
  BY <1>1, LicenceCorrect, PTL

(* When Close has returned nothing reads, loops or keeps a socket, except a   *)
(* ConnectWithReconnect that is on its way to be refused.                     *)
THEOREM CloseCorrect ==
  ASSUME OneWayIn PROVE Spec => []CloseStopsGoroutines
<1>1. TypeOK /\ IndInv => CloseStopsGoroutines
  <2> SUFFICES ASSUME TypeOK, IndInv, closer = "returned" PROVE
        /\ \A c \in Conns : loop[c] \notin Reading
        /\ \A c \in Conns : sock[c] = "open" => \E t \in Connectors : dialed[t] = c
        /\ \A r \in Sessions : rloop[r] # "done" =>
             \E t \in Connectors : usess[t] = r /\ user[t] \in {"stop", "await"}
    BY DEF CloseStopsGoroutines
  <2>1. closed /\ (closeWs # None => loop[closeWs] = "done")
        /\ (closeSession # None => rloop[closeSession] = "done")
    BY DEF IndInv, InvClose
  <2>2. \A c \in Conns : loop[c] \notin Reading
    BY <2>1 DEF IndInv, InvRead, Receiving, Reading, Current
  <2>3. \A r \in Sessions : rloop[r] # "done" =>
          \E t \in Connectors : usess[t] = r /\ user[t] \in {"stop", "await"}
    BY <2>1 DEF IndInv, InvLoop, CurrentSession
  <2>4. \A r \in Sessions : rloop[r] # "install"
    BY <2>3 DEF IndInv, InvUser, Quiet
  <2>5. ASSUME NEW c \in Conns, sock[c] = "open"
        PROVE  \E t \in Connectors : dialed[t] = c
    <3>1. PICK p \in Dialers : dialed[p] = c
      BY <2>2, <2>5 DEF IndInv, InvRead
    <3>2. p \notin Sessions
      BY <2>4, <3>1 DEF IndInv, InvDial
    <3> QED
      BY <3>1, <3>2 DEF Dialers
  <2> QED
    BY <2>2, <2>3, <2>5
<1> QED
  BY <1>1, LicenceCorrect, TypeCorrect, PTL

(* A dialer that installs its connection finds the client disconnected and    *)
(* nobody receiving: an Attach.                                              *)
LEMMA InstallAttaches ==
  ASSUME TypeOK, IndInv, NEW p \in Dialers, dialed[p] \in Conns,
         ~closed, ws = None, Install(dialed[p])
  PROVE  L!Attach(dialed[p])
<1>1. Receiving = {}
  BY DEF IndInv, InvRead, Current, Receiving
<1>2. Receiving' = {dialed[p]}
  <2>1. \A c \in Conns : loop'[c] = IF c = dialed[p] THEN "read" ELSE loop[c]
    BY DEF Install, TypeOK
  <2> QED
    BY <1>1, <2>1 DEF Receiving, Reading
<1> QED
  BY <1>1, <1>2 DEF L!Attach, Install

(* A read loop that finds its connection gone detaches it, or is the last     *)
(* receiver of a closed client.                                              *)
LEMMA DisconnectDetaches ==
  ASSUME TypeOK, IndInv, NEW c \in Conns, OnDisconnect(c)
  PROVE  L!Detach \/ L!Drain
<1>1. Receiving = {c} /\ c = Current
  BY DEF IndInv, InvRead, OnDisconnect, Receiving
<1>2. Receiving' = {}
  <2>1. \A d \in Conns \ {c} : loop'[d] = loop[d]
    BY DEF OnDisconnect, TypeOK
  <2>2. loop'[c] \in {"fail", "done"}
    BY DEF OnDisconnect, TypeOK
  <2> QED
    BY <1>1, <2>1, <2>2 DEF Receiving, Reading
<1>3. CASE closed
  BY <1>1, <1>2, <1>3 DEF L!Drain, OnDisconnect, IndInv, InvClose, ClosedIsFinal
<1>4. CASE ~closed
  BY <1>1, <1>2, <1>4 DEF L!Detach, OnDisconnect, Current
<1> QED
  BY <1>3, <1>4

(* Everything else leaves the receivers as they are.                         *)
LEMMA OthersStutter ==
  ASSUME TypeOK, IndInv, NEW c \in Conns, UNCHANGED <<ws, closed>>,
         \/ ReadNext(c) \/ ReadNilContext(c) \/ Receive(c) \/ AnswerEnds(c) \/ ReadFails(c)
         \/ SendWake(c) \/ FailPending(c) \/ Lose(c) \/ Sever(c)
  PROVE  UNCHANGED <<ws, Receiving, closed>>
<1>1. loop[c] # "panic" /\ (loop[c] = "read" => rxCtx # None)
  BY DEF IndInv, InvRead, Receiving, Reading
<1>2. ~ReadNilContext(c)
  BY <1>1 DEF ReadNilContext
<1>3. \A d \in Conns : loop'[d] \in Reading \cup {"disconnect"}
                          <=> loop[d] \in Reading \cup {"disconnect"}
  BY <1>2 DEF ReadNext, Receive, AnswerEnds, ReadFails, SendWake, FailPending, Lose, Sever,
              TypeOK, Reading
<1> QED
  BY <1>3 DEF Receiving

(* The connection management implements Link: every step attaches, detaches,  *)
(* shuts, drains, or is invisible.  In particular a connection is never       *)
(* replaced by another while it is in use or still read from.                *)
THEOREM LinkRefinement ==
  ASSUME OneWayIn PROVE Spec => ImplementsLink
<1>1. Init => L!Init
  BY DEF Init, L!Init, Receiving, Reading
<1>2. TypeOK /\ IndInv /\ [Next]_vars => [L!Next]_<<ws, Receiving, closed>>
  <2> SUFFICES ASSUME TypeOK, IndInv, [Next]_vars
               PROVE  [L!Next]_<<ws, Receiving, closed>>
    OBVIOUS
  <2> USE DEF L!Next
  <2>0. \/ UNCHANGED <<ws, loop, closed>>
        \/ \E t \in Connectors : InstallConn(t)
        \/ \E r \in Sessions : InstallRedialed(r)
        \/ \E c \in Conns : OnDisconnect(c)
        \/ CallClose
        \/ \E c \in Conns : /\ UNCHANGED <<ws, closed>>
                            /\ \/ ReadNext(c) \/ ReadNilContext(c) \/ Receive(c) \/ AnswerEnds(c)
                               \/ ReadFails(c) \/ SendWake(c) \/ FailPending(c)
                               \/ Lose(c) \/ Sever(c)
    <3> USE DEF vars, clientVars, connVars
    <3>1. ASSUME NEW t \in Connectors, ConnectStep(t)
          PROVE  UNCHANGED <<ws, loop, closed>> \/ InstallConn(t)
      BY <3>1 DEF ConnectStep, CheckState, DialFails, Dial, DisableReconnect,
                  CancelReconnect, ReconnectDisabled
    <3>2. ASSUME NEW r \in Sessions, LoopStep(r) \/ ParentCancels(r)
          PROVE  UNCHANGED <<ws, loop, closed>> \/ InstallRedialed(r)
      BY <3>2 DEF LoopStep, LoopStops, LoopWakes, LoopChecks, Redials, Redial, RedialFails,
                  LoopConfirms, DelayExpires, ParentCancels
    <3>3. ASSUME NEW t \in Connectors,
                 CallConnect(t) \/ \E r \in Sessions : CallConnectWithReconnect(t, r)
          PROVE  UNCHANGED <<ws, loop, closed>>
      BY <3>3 DEF CallConnect, CallConnectWithReconnect
    <3>4. CASE CloseStep \/ CloseFailsPending
      BY <3>4 DEF CloseStep, CloseCancels, CloseAwaitsRead, CloseAwaitsLoop, CloseFailsPending
    <3>5. ASSUME NEW c \in Conns, ReadStep(c) \/ FailPending(c) \/ Receive(c) \/ AnswerEnds(c) \/ Lose(c) \/ Sever(c)
          PROVE  \/ OnDisconnect(c)
                 \/ /\ UNCHANGED <<ws, closed>>
                    /\ \/ ReadNext(c) \/ ReadNilContext(c) \/ Receive(c) \/ AnswerEnds(c)
                       \/ ReadFails(c) \/ SendWake(c) \/ FailPending(c)
                       \/ Lose(c) \/ Sever(c)
      BY <3>5 DEF ReadStep, ReadNext, ReadNilContext, Receive, AnswerEnds, ReadFails, SendWake,
                  FailPending, Lose, Sever
    <3> QED
      BY <3>1, <3>2, <3>3, <3>4, <3>5 DEF Next, ProgramStep, FailStep, Over
  <2>1. CASE UNCHANGED <<ws, loop, closed>>
    BY <2>1 DEF Receiving
  <2>2. ASSUME NEW t \in Connectors, InstallConn(t)
        PROVE  [L!Next]_<<ws, Receiving, closed>>
    <3>1. t \in Dialers /\ dialed[t] \in Conns
      BY <2>2 DEF InstallConn, IndInv, InvDial, TypeOK, Dialers
    <3>2. ~closed => ws = None
      BY <2>2 DEF InstallConn, IndInv, InvUser
    <3>3. CASE closed
      BY <2>2, <3>3 DEF InstallConn, InstallRefused, Discard, Receiving, clientVars
    <3>4. CASE ~closed
      <4>1. Install(dialed[t])
        BY <2>2, <3>4 DEF InstallConn, InstallRefused
      <4> QED
        BY <3>1, <3>2, <3>4, <4>1, InstallAttaches
    <3> QED
      BY <3>3, <3>4
  <2>3. ASSUME NEW r \in Sessions, InstallRedialed(r)
        PROVE  [L!Next]_<<ws, Receiving, closed>>
    <3>1. r \in Dialers /\ dialed[r] \in Conns
      BY <2>3 DEF InstallRedialed, RLoopAt, IndInv, InvDial, TypeOK, Dialers
    <3>2. CASE Discard(dialed[r])
      BY <3>2 DEF Discard, Receiving, clientVars
    <3>3. CASE ~closed /\ ws = None /\ Install(dialed[r])
      BY <3>1, <3>3, InstallAttaches
    <3> QED
      BY <2>3, <3>2, <3>3 DEF InstallRedialed, RedialRefused
  <2>4. ASSUME NEW c \in Conns, OnDisconnect(c)
        PROVE  [L!Next]_<<ws, Receiving, closed>>
    BY <2>4, DisconnectDetaches
  <2>5. CASE CallClose
    <3>1. ~closed
      BY <2>5 DEF CallClose, IndInv, InvClose
    <3> QED
      BY <2>5, <3>1 DEF CallClose, L!Shut, Receiving, connVars
  <2> QED
    BY <2>0, <2>1, <2>2, <2>3, <2>4, <2>5, OthersStutter
<1> QED
  BY <1>1, <1>2, LicenceCorrect, TypeCorrect, PTL DEF Spec, ImplementsLink, L!Spec, L!linkVars

-----------------------------------------------------------------------------
(* Liveness.  What is assumed of the scheduler is that a goroutine which goes *)
(* on being able to take a step takes one, and that a dial which is tried     *)
(* again and again succeeds.  Turns says this with the condition each step    *)
(* waits for written out, as the provers know nothing of ENABLED; it is the   *)
(* WF and SF of FairSpec for these conditions.  A Turn is of the form []<>, so *)
(* that Turns holds of every suffix of a behaviour of which it holds: the      *)
(* theorems suppose []Turns since the provers do not know that of quantified  *)
(* formulas.                                                                 *)
ReadReady(c) == \/ loop[c] \notin {"done", "panic", "blocked", "answer"}
                \/ loop[c] = "blocked" /\ (sock[c] # "open" \/ rxDone[readCtx[c]])
LoopReady(r) == \/ rloop[r] \notin {"done", "wait"}
                \/ rloop[r] = "wait" /\ (wake[r] \/ rctxDone[r])
RedialReady(r) == rloop[r] = "dial" /\ ~rctxDone[r] /\ \E c \in Conns : FreshConn(c)
ConnectReady(t) == \/ user[t] \notin {"idle", "await"}
                   \/ user[t] = "await" /\ rloop[usess[t]] = "done"
CloseReady == \/ closer \in {"stop", "fail"}
              \/ closer = "awaitRead" /\ (closeWs # None => loop[closeWs] = "done")
              \/ closer = "awaitLoop" /\ (closeSession # None => rloop[closeSession] = "done")

ReadTurn(c) ==
  \/ []<>~(~Panicked /\ ReadReady(c))
  \/ []<><<~Panicked /\ (ReadStep(c) \/ FailPending(c) \/ Receive(c))>>_vars
LoopTurn(r) == []<>~(~Panicked /\ LoopReady(r)) \/ []<><<~Panicked /\ LoopStep(r)>>_vars
RedialTurn(r) == []<>(~Panicked /\ RedialReady(r)) => []<><<~Panicked /\ Redials(r)>>_vars
ConnectTurn(t) == []<>~(~Panicked /\ ConnectReady(t)) \/ []<><<~Panicked /\ ConnectStep(t)>>_vars
CloseTurn ==
  \/ []<>~(~Panicked /\ CloseReady)
  \/ []<><<~Panicked /\ (CloseStep \/ CloseFailsPending)>>_vars
CloseTurns == /\ \A c \in Conns : ReadTurn(c)
              /\ \A r \in Sessions : LoopTurn(r)
              /\ CloseTurn
Turns == /\ CloseTurns
         /\ \A t \in Connectors : ConnectTurn(t)
         /\ \A r \in Sessions : RedialTurn(r)

(* What Close has captured is cancelled before it waits.                     *)
CloseInv ==
  /\ closed <=> closer # "idle"
  /\ closer \notin {"idle", "stop"} /\ closeWs # None =>
       loop[closeWs] = "done" \/ sock[closeWs] = "closed"
  /\ closer \notin {"idle", "stop"} /\ closeSession # None => rctxDone[closeSession]

LEMMA CloseInvNext == TypeOK /\ CloseInv /\ [Next]_vars => CloseInv'
<1> SUFFICES ASSUME TypeOK, CloseInv, [Next]_vars PROVE CloseInv'
  OBVIOUS
<1> USE DEF TypeOK, CloseInv, Dialers, clientVars, connVars, sessVars, userVars, closeVars
<1>1. CASE UNCHANGED vars
  BY <1>1 DEF vars
<1>2. ASSUME NEW t \in Connectors,
             CallConnect(t) \/ \E r \in Sessions : CallConnectWithReconnect(t, r)
      PROVE  CloseInv'
  BY <1>2 DEF CallConnect, CallConnectWithReconnect, ReconnectRefused
<1>3. ASSUME NEW t \in Connectors, ConnectStep(t) PROVE CloseInv'
  <2>1. CASE InstallConn(t)
    BY <2>1 DEF InstallConn, InstallRefused, Install, Discard
  <2>2. ASSUME NEW c \in Conns, Dial(t, c) PROVE CloseInv'
    BY <2>2 DEF Dial, FreshConn
  <2>3. CASE ~InstallConn(t) /\ ~\E c \in Conns : Dial(t, c)
    BY <1>3, <2>3 DEF ConnectStep, CheckState, DialFails, DisableReconnect, CancelReconnect,
                      ReconnectDisabled
  <2> QED
    BY <2>1, <2>2, <2>3
<1>4. ASSUME NEW c \in Conns, ReadStep(c) \/ FailPending(c) \/ Receive(c) \/ AnswerEnds(c) \/ Lose(c) \/ Sever(c)
      PROVE  CloseInv'
  BY <1>4 DEF ReadStep, ReadNext, ReadNilContext, ReadFails, OnDisconnect, SendWake, FailPending,
              Receive, AnswerEnds, Lose, Sever
<1>5. ASSUME NEW r \in Sessions, LoopStep(r) \/ ParentCancels(r) PROVE CloseInv'
  <2>1. CASE InstallRedialed(r)
    BY <2>1 DEF InstallRedialed, RedialRefused, Install, Discard
  <2>2. ASSUME NEW c \in Conns, Redial(r, c) PROVE CloseInv'
    BY <2>2 DEF Redial, FreshConn
  <2>3. CASE ~InstallRedialed(r) /\ ~\E c \in Conns : Redial(r, c)
    BY <1>5, <2>3 DEF LoopStep, Redials, LoopStops, LoopWakes, LoopChecks, RedialFails, LoopConfirms,
                      DelayExpires, ParentCancels
  <2> QED
    BY <2>1, <2>2, <2>3
<1>6. CASE CallClose \/ CloseStep \/ CloseFailsPending
  BY <1>6 DEF CallClose, CloseStep, CloseCancels, CloseAwaitsRead, CloseAwaitsLoop, CloseFailsPending
<1> QED
  BY <1>1, <1>2, <1>3, <1>4, <1>5, <1>6 DEF Next, ProgramStep, FailStep, Over

(* How far the read loop and the reconnect loop that Close waits for are from *)
(* their ends, once they are cancelled.                                      *)
ReadLeft(c) == CASE loop[c] = "done" -> 0 [] loop[c] = "wake" -> 1 [] loop[c] = "fail" -> 2
                 [] loop[c] = "disconnect" -> 3 [] loop[c] = "blocked" -> 4
                 [] loop[c] = "read" -> 5 [] OTHER -> 6
LoopLeft(r) == CASE rloop[r] = "done" -> 0 [] rloop[r] \in {"check", "install"} -> 1
                 [] rloop[r] \in {"wait", "delay"} -> 2 [] OTHER -> 3

Holds(c, r) == closer # "idle" /\ closeWs = c /\ closeSession = r
AwaitsRead(c, r, n) == closer = "awaitRead" /\ Holds(c, r) /\ (c # None => ReadLeft(c) \leq n)
AwaitsLoop(c, r, n) == closer = "awaitLoop" /\ Holds(c, r) /\ (r # None => LoopLeft(r) \leq n)

ReadGetsTo(c, r, n) == <>(AwaitsRead(c, r, n) \/ Panicked \/ AwaitsAnswer)
LoopGetsTo(c, r, n) == <>(AwaitsLoop(c, r, n) \/ Panicked)

Runs == [][Next]_vars /\ []TypeOK /\ []CloseInv /\ []CloseTurns

(* Once it is called, nobody but Close moves it, or changes what it holds.    *)
LEMMA CloserAlone ==
  ASSUME TypeOK, CloseInv, [Next]_vars, closer # "idle"
  PROVE  UNCHANGED closeVars \/ CloseStep \/ CloseFailsPending
<1> USE DEF closeVars, vars
<1>1. ASSUME NEW t \in Connectors, CallConnect(t) \/ ConnectStep(t)
                                     \/ \E r \in Sessions : CallConnectWithReconnect(t, r)
      PROVE  UNCHANGED closeVars
  BY <1>1 DEF CallConnect, CallConnectWithReconnect, ConnectStep, CheckState, DialFails, Dial,
              InstallConn, DisableReconnect, CancelReconnect, ReconnectDisabled
<1>2. ASSUME NEW c \in Conns, ReadStep(c) \/ FailPending(c) \/ Receive(c) \/ AnswerEnds(c) \/ Lose(c) \/ Sever(c)
      PROVE  UNCHANGED closeVars
  BY <1>2 DEF ReadStep, ReadNext, ReadNilContext, ReadFails, OnDisconnect, SendWake, FailPending,
              Receive, AnswerEnds, Lose, Sever
<1>3. ASSUME NEW r \in Sessions, LoopStep(r) \/ ParentCancels(r) PROVE UNCHANGED closeVars
  BY <1>3 DEF LoopStep, LoopStops, LoopWakes, LoopChecks, Redials, Redial, RedialFails, InstallRedialed,
              LoopConfirms, DelayExpires, ParentCancels
<1> QED
  BY <1>1, <1>2, <1>3 DEF Next, ProgramStep, FailStep, Over, CallClose

(* The read loop Close waits for only gets nearer to its end, with every step *)
(* it takes.                                                                 *)
LEMMA ReaderNears ==
  ASSUME TypeOK, CloseInv, NEW c \in Conns, closer = "awaitRead", closeWs = c, loop[c] # "done",
         loop[c] # "panic"
  PROVE  /\ [Next]_vars => loop'[c] = loop[c] \/ ReadLeft(c)' < ReadLeft(c) \/ Panicked'
         /\ ReadStep(c) \/ FailPending(c) \/ Receive(c) => ReadLeft(c)' < ReadLeft(c) \/ Panicked'
<1> USE DEF TypeOK, CloseInv
<1>1. closed /\ sock[c] = "closed"
  OBVIOUS
<1>0. ~Receive(c)
  BY <1>1 DEF Receive
<1>2. ASSUME ReadStep(c) \/ FailPending(c) \/ AnswerEnds(c) PROVE ReadLeft(c)' < ReadLeft(c) \/ Panicked'
  <2>1. \/ loop[c] = "answer" /\ loop'[c] = "read"
        \/ loop[c] = "read" /\ loop'[c] \in {"blocked", "panic", "disconnect"}
        \/ loop[c] = "blocked" /\ loop'[c] = "disconnect"
        \/ loop[c] = "disconnect" /\ loop'[c] \in {"fail", "done"}
        \/ loop[c] = "fail" /\ loop'[c] \in {"wake", "done"}
        \/ loop[c] = "wake" /\ loop'[c] = "done"
    BY <1>2 DEF ReadStep, FailPending, AnswerEnds, ReadNext, ReadNilContext, ReadFails, OnDisconnect, SendWake
  <2> QED
    BY <2>1 DEF ReadLeft, Panicked
<1>3. ASSUME [Next]_vars, ~(ReadStep(c) \/ FailPending(c) \/ AnswerEnds(c)) PROVE loop'[c] = loop[c]
  <2>1. ASSUME NEW t \in Connectors, CallConnect(t) \/ ConnectStep(t)
                                       \/ \E r \in Sessions : CallConnectWithReconnect(t, r)
        PROVE  UNCHANGED loop
    BY <1>1, <2>1 DEF CallConnect, CallConnectWithReconnect, ConnectStep, CheckState, DialFails, Dial,
                InstallConn, InstallRefused, Discard, DisableReconnect, CancelReconnect,
                ReconnectDisabled, connVars
  <2>2. ASSUME NEW d \in Conns \ {c}, ReadStep(d) \/ FailPending(d) \/ Receive(d) \/ AnswerEnds(d) \/ Lose(d) \/ Sever(d)
        PROVE  loop'[c] = loop[c]
    BY <2>2 DEF ReadStep, ReadNext, ReadNilContext, ReadFails, OnDisconnect, SendWake, FailPending,
                Receive, AnswerEnds, Lose, Sever
  <2>3. CASE Receive(c) \/ Lose(c) \/ Sever(c)
    BY <1>0, <2>3 DEF Lose, Sever
  <2>4. ASSUME NEW r \in Sessions, LoopStep(r) \/ ParentCancels(r) PROVE UNCHANGED loop
    BY <1>1, <2>4 DEF LoopStep, LoopStops, LoopWakes, LoopChecks, Redials, Redial, RedialFails,
                InstallRedialed, Discard, LoopConfirms, DelayExpires, ParentCancels, connVars
  <2>5. CASE CallClose \/ CloseStep \/ CloseFailsPending
    BY <2>5 DEF CallClose, CloseStep, CloseCancels, CloseAwaitsRead, CloseAwaitsLoop,
                CloseFailsPending, connVars
  <2> QED
    BY <1>3, <2>1, <2>2, <2>3, <2>4, <2>5 DEF Next, ProgramStep, FailStep, Over, vars, connVars
<1> QED
  BY <1>0, <1>2, <1>3

(* And so does the reconnect loop.                                           *)
LEMMA LoopNears ==
  ASSUME TypeOK, CloseInv, NEW r \in Sessions, closer = "awaitLoop", closeSession = r,
         rloop[r] # "done"
  PROVE  /\ [Next]_vars => rloop'[r] = rloop[r] \/ LoopLeft(r)' < LoopLeft(r)
         /\ LoopStep(r) => LoopLeft(r)' < LoopLeft(r)
<1> USE DEF TypeOK, CloseInv
<1>1. closed /\ rctxDone[r]
  OBVIOUS
<1>2. ASSUME LoopStep(r) PROVE LoopLeft(r)' < LoopLeft(r)
  BY <1>1, <1>2 DEF LoopStep, LoopStops, LoopWakes, LoopChecks, Redials, Redial, RedialFails, InstallRedialed,
                    LoopConfirms, DelayExpires, RLoopAt, LoopLeft
<1>3. ASSUME [Next]_vars, ~LoopStep(r) PROVE rloop'[r] = rloop[r]
  <2>1. ASSUME NEW t \in Connectors, CallConnect(t) \/ ConnectStep(t)
                                       \/ \E s \in Sessions : CallConnectWithReconnect(t, s)
        PROVE  UNCHANGED rloop
    BY <1>1, <2>1 DEF CallConnect, CallConnectWithReconnect, ReconnectRefused, ConnectStep, CheckState,
                DialFails, Dial, InstallConn, DisableReconnect, CancelReconnect, ReconnectDisabled, sessVars
  <2>2. ASSUME NEW d \in Conns, ReadStep(d) \/ FailPending(d) \/ Receive(d) \/ AnswerEnds(d) \/ Lose(d) \/ Sever(d)
        PROVE  UNCHANGED rloop
    BY <2>2 DEF ReadStep, ReadNext, ReadNilContext, ReadFails, OnDisconnect, SendWake, FailPending,
                Receive, AnswerEnds, Lose, Sever, sessVars
  <2>3. ASSUME NEW s \in Sessions \ {r}, LoopStep(s) PROVE rloop'[r] = rloop[r]
    BY <2>3 DEF LoopStep, LoopStops, LoopWakes, LoopChecks, Redials, Redial, RedialFails, InstallRedialed,
                LoopConfirms, DelayExpires, RLoopAt
  <2>4. ASSUME NEW s \in Sessions, ParentCancels(s) PROVE UNCHANGED rloop
    BY <2>4 DEF ParentCancels
  <2>5. CASE CallClose \/ CloseStep \/ CloseFailsPending
    BY <2>5 DEF CallClose, CloseStep, CloseCancels, CloseAwaitsRead, CloseAwaitsLoop,
                CloseFailsPending, sessVars
  <2> QED
    BY <1>3, <2>1, <2>2, <2>3, <2>4, <2>5 DEF Next, ProgramStep, FailStep, Over, vars, sessVars
<1> QED
  BY <1>2, <1>3

LEMMA ReadProgress ==
  ASSUME NEW c \in Conns \cup {None}, NEW r,
         NEW n \in Nat, NEW m \in Nat, m = n + 1
  PROVE  Runs /\ AwaitsRead(c, r, m) => ReadGetsTo(c, r, n)
<1>1. CASE c = None
  <2>1. AwaitsRead(c, r, m) => AwaitsRead(c, r, n)
    BY <1>1 DEF AwaitsRead
  <2> QED
    BY <2>1, PTL DEF ReadGetsTo
<1>2. CASE c \in Conns
  <2> DEFINE P == AwaitsRead(c, r, m) /\ ~AwaitsRead(c, r, n) /\ ~Panicked /\ ~AwaitsAnswer
             A == ~Panicked /\ (ReadStep(c) \/ FailPending(c) \/ Receive(c))
  <2>1. TypeOK /\ CloseInv /\ P /\ [Next]_vars =>
          P' \/ AwaitsRead(c, r, n)' \/ Panicked' \/ AwaitsAnswer'
    <3> SUFFICES ASSUME TypeOK, CloseInv, P, [Next]_vars, ~Panicked', ~AwaitsAnswer'
                 PROVE  P' \/ AwaitsRead(c, r, n)'
      OBVIOUS
    <3>1. loop[c] # "done" /\ loop[c] # "panic" /\ closer = "awaitRead" /\ closeWs = c
          /\ ReadLeft(c) = n + 1
      BY <1>2, NoneAssumption DEF AwaitsRead, Holds, ReadLeft, Panicked
    <3>2. loop'[c] = loop[c] \/ ReadLeft(c)' < ReadLeft(c)
      BY <1>2, <3>1, ReaderNears
    <3>3. ReadLeft(c)' \leq n + 1
      BY <3>1, <3>2 DEF ReadLeft
    <3>4. UNCHANGED closeVars
      BY <1>2, <3>1, CloserAlone, NoneAssumption
         DEF CloseStep, CloseCancels, CloseAwaitsRead, CloseAwaitsLoop, CloseFailsPending
    <3> QED
      BY <3>1, <3>3, <3>4 DEF AwaitsRead, Holds, closeVars
  <2>2. TypeOK /\ CloseInv /\ P /\ <<A>>_vars => AwaitsRead(c, r, n)' \/ Panicked'
    <3> SUFFICES ASSUME TypeOK, CloseInv, P, <<A>>_vars, ~Panicked'
                 PROVE  AwaitsRead(c, r, n)'
      OBVIOUS
    <3>1. loop[c] # "done" /\ loop[c] # "panic" /\ closer = "awaitRead" /\ closeWs = c
          /\ ReadLeft(c) = n + 1
      BY <1>2, NoneAssumption DEF AwaitsRead, Holds, ReadLeft, Panicked
    <3>2. ReadLeft(c)' \leq n
      BY <1>2, <3>1, ReaderNears DEF ReadLeft
    <3>3. UNCHANGED closeVars
      BY DEF Receive, ReadStep, FailPending, ReadNext, ReadNilContext, ReadFails, OnDisconnect, SendWake
    <3> QED
      BY <3>1, <3>2, <3>3 DEF AwaitsRead, Holds, closeVars
  <2>3. TypeOK /\ CloseInv /\ P => ReadReady(c)
    <3> SUFFICES ASSUME TypeOK, CloseInv, P PROVE ReadReady(c)
      OBVIOUS
    <3>1. loop[c] \notin {"done", "panic", "answer"} /\ sock[c] = "closed"
      BY <1>2, NoneAssumption DEF AwaitsRead, AwaitsAnswer, Holds, ReadLeft, Panicked, CloseInv
    <3> QED
      BY <1>2, <3>1 DEF ReadReady, TypeOK
  <2>4. CloseTurns => ReadTurn(c)
    BY <1>2 DEF CloseTurns
  <2> QED
    BY <2>1, <2>2, <2>3, <2>4, PTL DEF Runs, ReadTurn, ReadGetsTo
<1> QED
  BY <1>1, <1>2

LEMMA LoopProgress ==
  ASSUME NEW c, NEW r \in Sessions \cup {None},
         NEW n \in Nat, NEW m \in Nat, m = n + 1
  PROVE  Runs /\ AwaitsLoop(c, r, m) => LoopGetsTo(c, r, n)
<1>1. CASE r = None
  <2>1. AwaitsLoop(c, r, m) => AwaitsLoop(c, r, n)
    BY <1>1 DEF AwaitsLoop
  <2> QED
    BY <2>1, PTL DEF LoopGetsTo
<1>2. CASE r \in Sessions
  <2> DEFINE P == AwaitsLoop(c, r, m) /\ ~AwaitsLoop(c, r, n) /\ ~Panicked
             A == ~Panicked /\ LoopStep(r)
  <2>1. TypeOK /\ CloseInv /\ P /\ [Next]_vars =>
          P' \/ AwaitsLoop(c, r, n)' \/ Panicked'
    <3> SUFFICES ASSUME TypeOK, CloseInv, P, [Next]_vars, ~Panicked'
                 PROVE  P' \/ AwaitsLoop(c, r, n)'
      OBVIOUS
    <3>1. rloop[r] # "done" /\ closer = "awaitLoop" /\ closeSession = r /\ LoopLeft(r) = n + 1
      BY <1>2, NoneAssumption DEF AwaitsLoop, Holds, LoopLeft
    <3>2. rloop'[r] = rloop[r] \/ LoopLeft(r)' < LoopLeft(r)
      BY <1>2, <3>1, LoopNears
    <3>3. LoopLeft(r)' \leq n + 1
      BY <3>1, <3>2 DEF LoopLeft
    <3>4. UNCHANGED closeVars
      BY <1>2, <3>1, CloserAlone, NoneAssumption
         DEF CloseStep, CloseCancels, CloseAwaitsRead, CloseAwaitsLoop, CloseFailsPending
    <3> QED
      BY <3>1, <3>3, <3>4 DEF AwaitsLoop, Holds, closeVars
  <2>2. TypeOK /\ CloseInv /\ P /\ <<A>>_vars => AwaitsLoop(c, r, n)'
    <3> SUFFICES ASSUME TypeOK, CloseInv, P, <<A>>_vars
                 PROVE  AwaitsLoop(c, r, n)'
      OBVIOUS
    <3>1. rloop[r] # "done" /\ closer = "awaitLoop" /\ closeSession = r /\ LoopLeft(r) = n + 1
      BY <1>2, NoneAssumption DEF AwaitsLoop, Holds, LoopLeft
    <3>2. LoopLeft(r)' \leq n
      BY <1>2, <3>1, LoopNears DEF LoopLeft
    <3>3. UNCHANGED closeVars
      BY DEF LoopStep, LoopStops, LoopWakes, LoopChecks, Redials, Redial, RedialFails, InstallRedialed,
             LoopConfirms, DelayExpires
    <3> QED
      BY <3>1, <3>2, <3>3 DEF AwaitsLoop, Holds, closeVars
  <2>3. TypeOK /\ CloseInv /\ P => LoopReady(r)
    <3> SUFFICES ASSUME TypeOK, CloseInv, P PROVE LoopReady(r)
      OBVIOUS
    <3>1. rloop[r] # "done" /\ rctxDone[r]
      BY <1>2, NoneAssumption DEF AwaitsLoop, Holds, LoopLeft, CloseInv
    <3> QED
      BY <1>2, <3>1 DEF LoopReady, TypeOK
  <2>4. CloseTurns => LoopTurn(r)
    BY <1>2 DEF CloseTurns
  <2> QED
    BY <2>1, <2>2, <2>3, <2>4, PTL DEF Runs, LoopTurn, LoopGetsTo
<1> QED
  BY <1>1, <1>2

(* A loop that has ended on a closed client stays so: nothing is installed     *)
(* and no session registered any more.                                       *)
LEMMA DoneStays ==
  ASSUME TypeOK, CloseInv, closer # "idle", [Next]_vars
  PROVE  /\ \A c \in Conns : loop[c] = "done" => loop'[c] = "done"
         /\ \A r \in Sessions : rloop[r] = "done" => rloop'[r] = "done"
<1> USE DEF TypeOK, vars, connVars, sessVars
<1>1. closed
  BY DEF CloseInv
<1>2. ASSUME NEW t \in Connectors, CallConnect(t) \/ ConnectStep(t)
                                     \/ \E r \in Sessions : CallConnectWithReconnect(t, r)
      PROVE  UNCHANGED <<loop, rloop>>
  BY <1>1, <1>2 DEF CallConnect, CallConnectWithReconnect, ReconnectRefused, ConnectStep, CheckState,
     DialFails, Dial, InstallConn, InstallRefused, Discard, DisableReconnect, CancelReconnect, ReconnectDisabled
<1>3. ASSUME NEW d \in Conns, ReadStep(d) \/ FailPending(d) \/ Receive(d) \/ AnswerEnds(d) \/ Lose(d) \/ Sever(d)
      PROVE  rloop' = rloop /\ \A c \in Conns : loop[c] = "done" => loop'[c] = "done"
  BY <1>3 DEF ReadStep, ReadNext, ReadNilContext, ReadFails, OnDisconnect, SendWake, FailPending,
              Receive, AnswerEnds, Lose, Sever
<1>4. ASSUME NEW s \in Sessions, LoopStep(s) \/ ParentCancels(s)
      PROVE  loop' = loop /\ \A r \in Sessions : rloop[r] = "done" => rloop'[r] = "done"
  BY <1>1, <1>4 DEF LoopStep, LoopStops, LoopWakes, LoopChecks, Redials, Redial, RedialFails, InstallRedialed,
                    Discard, LoopConfirms, DelayExpires, ParentCancels, RLoopAt
<1>5. CASE CallClose \/ CloseStep \/ CloseFailsPending
  BY <1>5 DEF CallClose, CloseStep, CloseCancels, CloseAwaitsRead, CloseAwaitsLoop, CloseFailsPending
<1> QED
  BY <1>2, <1>3, <1>4, <1>5 DEF Next, ProgramStep, FailStep, Over

(* Close goes from one of its steps to the next.                             *)
LEMMA CloseProgress ==
  ASSUME NEW c \in Conns \cup {None}, NEW r \in Sessions \cup {None}
  PROVE  /\ Runs /\ closer = "stop" /\ Holds(c, r) => <>(AwaitsRead(c, r, 6) \/ Panicked)
         /\ Runs /\ AwaitsRead(c, r, 0) => <>(AwaitsLoop(c, r, 3) \/ Panicked)
         /\ Runs /\ AwaitsLoop(c, r, 0) => <>(closer = "fail" \/ Panicked)
         /\ Runs /\ closer = "fail" => <>(closer = "returned" \/ Panicked)
<1> DEFINE A == ~Panicked /\ (CloseStep \/ CloseFailsPending)
<1> USE DEF closeVars
<1>1. /\ Holds(c, r) /\ UNCHANGED closeVars => Holds(c, r)'
      /\ Holds(c, r) /\ closer' # "idle" /\ UNCHANGED <<closeWs, closeSession>> => Holds(c, r)'
  BY DEF Holds
<1>2. ReadLeft(c)' \leq 6 /\ LoopLeft(r)' \leq 3
  BY DEF ReadLeft, LoopLeft
<1>4. CloseTurns => CloseTurn
  BY DEF CloseTurns
<1>5. Runs /\ closer = "stop" /\ Holds(c, r) => <>(AwaitsRead(c, r, 6) \/ Panicked)
  <2> DEFINE P == closer = "stop" /\ Holds(c, r)
  <2>1. TypeOK /\ CloseInv /\ P /\ [Next]_vars => P' \/ AwaitsRead(c, r, 6)'
    BY <1>1, <1>2, CloserAlone
       DEF AwaitsRead, CloseStep, CloseCancels, CloseAwaitsRead, CloseAwaitsLoop, CloseFailsPending
  <2>2. P /\ <<A>>_vars => AwaitsRead(c, r, 6)'
    BY <1>1, <1>2 DEF AwaitsRead, CloseStep, CloseCancels, CloseAwaitsRead, CloseAwaitsLoop, CloseFailsPending
  <2>3. P => CloseReady
    BY DEF CloseReady
  <2> QED
    BY <1>4, <2>1, <2>2, <2>3, PTL DEF Runs, CloseTurn
<1>6. Runs /\ AwaitsRead(c, r, 0) => <>(AwaitsLoop(c, r, 3) \/ Panicked)
  <2>1. TypeOK /\ CloseInv /\ AwaitsRead(c, r, 0) => CloseReady
    BY DEF AwaitsRead, CloseReady, Holds, ReadLeft, TypeOK
  <2>2. TypeOK /\ CloseInv /\ AwaitsRead(c, r, 0) /\ [Next]_vars =>
          AwaitsRead(c, r, 0)' \/ AwaitsLoop(c, r, 3)'
    <3> SUFFICES ASSUME TypeOK, CloseInv, AwaitsRead(c, r, 0), [Next]_vars
                 PROVE  AwaitsRead(c, r, 0)' \/ AwaitsLoop(c, r, 3)'
      OBVIOUS
    <3>1. CASE UNCHANGED closeVars
      <4>1. c # None => loop'[c] = "done"
        BY <3>1, DoneStays DEF AwaitsRead, Holds, ReadLeft, TypeOK
      <4> QED
        BY <1>1, <3>1, <4>1 DEF AwaitsRead, ReadLeft
    <3>2. CASE CloseStep \/ CloseFailsPending
      BY <1>1, <1>2, <3>2
         DEF AwaitsRead, AwaitsLoop, Holds, CloseStep, CloseCancels, CloseAwaitsRead, CloseAwaitsLoop,
             CloseFailsPending
    <3> QED
      BY <3>1, <3>2, CloserAlone DEF AwaitsRead
  <2>3. AwaitsRead(c, r, 0) /\ <<A>>_vars => AwaitsLoop(c, r, 3)'
    BY <1>1, <1>2 DEF AwaitsRead, AwaitsLoop, CloseStep, CloseCancels, CloseAwaitsRead,
                      CloseAwaitsLoop, CloseFailsPending
  <2> QED
    BY <1>4, <2>1, <2>2, <2>3, PTL DEF Runs, CloseTurn
<1>7. Runs /\ AwaitsLoop(c, r, 0) => <>(closer = "fail" \/ Panicked)
  <2>1. TypeOK /\ CloseInv /\ AwaitsLoop(c, r, 0) => CloseReady
    BY DEF AwaitsLoop, CloseReady, Holds, LoopLeft, TypeOK
  <2>2. TypeOK /\ CloseInv /\ AwaitsLoop(c, r, 0) /\ [Next]_vars =>
          AwaitsLoop(c, r, 0)' \/ (closer = "fail")'
    <3> SUFFICES ASSUME TypeOK, CloseInv, AwaitsLoop(c, r, 0), [Next]_vars
                 PROVE  AwaitsLoop(c, r, 0)' \/ (closer = "fail")'
      OBVIOUS
    <3>1. CASE UNCHANGED closeVars
      <4>1. r # None => rloop'[r] = "done"
        BY <3>1, DoneStays DEF AwaitsLoop, Holds, LoopLeft, TypeOK
      <4> QED
        BY <1>1, <3>1, <4>1 DEF AwaitsLoop, LoopLeft
    <3>2. CASE CloseStep \/ CloseFailsPending
      BY <3>2 DEF AwaitsLoop, CloseStep, CloseCancels, CloseAwaitsRead, CloseAwaitsLoop,
                  CloseFailsPending
    <3> QED
      BY <3>1, <3>2, CloserAlone DEF AwaitsLoop
  <2>3. AwaitsLoop(c, r, 0) /\ <<A>>_vars => (closer = "fail")'
    BY DEF AwaitsLoop, CloseStep, CloseCancels, CloseAwaitsRead, CloseAwaitsLoop, CloseFailsPending
  <2> QED
    BY <1>4, <2>1, <2>2, <2>3, PTL DEF Runs, CloseTurn
<1>8. Runs /\ closer = "fail" => <>(closer = "returned" \/ Panicked)
  <2>1. TypeOK /\ CloseInv /\ closer = "fail" /\ [Next]_vars => (closer = "fail")' \/ (closer = "returned")'
    BY CloserAlone DEF CloseStep, CloseCancels, CloseAwaitsRead, CloseAwaitsLoop, CloseFailsPending
  <2>2. closer = "fail" /\ <<A>>_vars => (closer = "returned")'
    BY DEF CloseStep, CloseCancels, CloseAwaitsRead, CloseAwaitsLoop, CloseFailsPending
  <2>3. closer = "fail" => CloseReady
    BY DEF CloseReady
  <2> QED
    BY <1>4, <2>1, <2>2, <2>3, PTL DEF Runs, CloseTurn
<1> QED
  BY <1>5, <1>6, <1>7, <1>8

LEMMA CloseEndsHeld ==
  ASSUME NEW c \in Conns \cup {None}, NEW r \in Sessions \cup {None}
  PROVE  Runs /\ Holds(c, r) => <>(closer = "returned" \/ Panicked \/ AwaitsAnswer)
<1>1. Runs /\ AwaitsRead(c, r, 5) => ReadGetsTo(c, r, 4)
  BY ReadProgress
<1>2. Runs /\ AwaitsRead(c, r, 4) => ReadGetsTo(c, r, 3)
  BY ReadProgress
<1>3. Runs /\ AwaitsRead(c, r, 3) => ReadGetsTo(c, r, 2)
  BY ReadProgress
<1>4. Runs /\ AwaitsRead(c, r, 2) => ReadGetsTo(c, r, 1)
  BY ReadProgress
<1>5. Runs /\ AwaitsRead(c, r, 1) => ReadGetsTo(c, r, 0)
  BY ReadProgress
<1>6. Runs /\ AwaitsLoop(c, r, 3) => LoopGetsTo(c, r, 2)
  BY LoopProgress
<1>7. Runs /\ AwaitsLoop(c, r, 2) => LoopGetsTo(c, r, 1)
  BY LoopProgress
<1>8. Runs /\ AwaitsLoop(c, r, 1) => LoopGetsTo(c, r, 0)
  BY LoopProgress
<1>9. Runs /\ closer = "stop" /\ Holds(c, r) => <>(AwaitsRead(c, r, 6) \/ Panicked)
  BY CloseProgress
<1>10. Runs /\ AwaitsRead(c, r, 0) => <>(AwaitsLoop(c, r, 3) \/ Panicked)
  BY CloseProgress
<1>11. Runs /\ AwaitsLoop(c, r, 0) => <>(closer = "fail" \/ Panicked)
  BY CloseProgress
<1>12. Runs /\ closer = "fail" => <>(closer = "returned" \/ Panicked)
  BY CloseProgress
<1>13. Runs /\ AwaitsRead(c, r, 6) => ReadGetsTo(c, r, 5)
  BY ReadProgress
<1>14. TypeOK /\ Holds(c, r) =>
         \/ closer = "stop" \/ AwaitsRead(c, r, 6) \/ AwaitsLoop(c, r, 3)
         \/ closer = "fail" \/ closer = "returned"
  BY DEF TypeOK, Holds, AwaitsRead, AwaitsLoop, ReadLeft, LoopLeft
<1> QED
  BY <1>1, <1>2, <1>3, <1>4, <1>5, <1>6, <1>7, <1>8, <1>9, <1>10, <1>11, <1>12, <1>13, <1>14, PTL
     DEF Runs, ReadGetsTo, LoopGetsTo

(* Close returns, whatever it overlaps with and whichever entry points are    *)
(* used, unless the read loop it waits for is at an answer: the two loops it  *)
(* waits for have been cancelled and only get nearer to their ends, and       *)
(* nobody starts others.                                                     *)
CloseEndsUp == closer # "idle" => <>(closer = "returned" \/ Panicked \/ AwaitsAnswer)
LEMMA CloseRuns == Runs => []CloseEndsUp
<1>1. Runs => CloseEndsUp
  <2>1. ASSUME NEW c \in Conns \cup {None}, NEW r \in Sessions \cup {None}
        PROVE  Runs /\ Holds(c, r) => <>(closer = "returned" \/ Panicked \/ AwaitsAnswer)
    BY CloseEndsHeld
  <2>2. Runs => TypeOK
    BY PTL DEF Runs
  <2>3. TypeOK /\ closer # "idle" => \E c \in Conns \cup {None}, r \in Sessions \cup {None} : Holds(c, r)
    BY DEF TypeOK, Holds
  <2> QED
    BY <2>1, <2>2, <2>3 DEF CloseEndsUp
<1> QED
  BY <1>1, PTL DEF Runs

THEOREM CloseReturnsCorrect == Spec /\ []Turns => CloseReturns
<1>1. Init => CloseInv
  BY DEF Init, CloseInv
<1>2. Turns => CloseTurns
  BY DEF Turns
<1> QED
  BY <1>1, <1>2, CloseRuns, CloseInvNext, TypeCorrect, PTL DEF Spec, Runs, CloseReturns, CloseEndsUp

-----------------------------------------------------------------------------
(* A session whose client is disconnected does something about it.           *)

Idle(r)  == session = r /\ ws = None /\ ~rctxDone[r] /\ ~Panicked
Woken(r) == rloop[r] = "wait" /\ wake[r]
Busy(r)  == Woken(r) \/ rloop[r] \in {"check", "dial", "install", "confirm", "delay"}

(* A reconnect loop ends only when it is told to.                            *)
LoopInv == \A r \in Sessions : session = r /\ rloop[r] = "done" => rctxDone[r]

RepairInv == TypeOK /\ ClosedIsFinal /\ WakeInv /\ LoopInv
Repairs == [][Next]_vars /\ []RepairInv /\ []Turns
           /\ [](\E c \in Conns : FreshConn(c))

LEMMA LoopInvNext == TypeOK /\ ClosedIsFinal /\ WakeInv /\ LoopInv /\ [Next]_vars => LoopInv'
<1> SUFFICES ASSUME TypeOK, ClosedIsFinal, WakeInv, LoopInv, [Next]_vars PROVE LoopInv'
  OBVIOUS
<1> USE DEF TypeOK, LoopInv, clientVars, sessVars
<1>1. ASSUME NEW t \in Connectors, CallConnect(t) \/ ConnectStep(t)
      PROVE  LoopInv'
  BY <1>1 DEF CallConnect, ConnectStep, CheckState, DialFails, Dial, InstallConn, Install, Discard,
              DisableReconnect, CancelReconnect, ReconnectDisabled
<1>2. ASSUME NEW t \in Connectors, NEW r \in Sessions, CallConnectWithReconnect(t, r)
      PROVE  LoopInv'
  BY <1>2 DEF CallConnectWithReconnect
<1>3. ASSUME NEW c \in Conns, ReadStep(c) \/ FailPending(c) \/ Receive(c) \/ AnswerEnds(c) \/ Lose(c) \/ Sever(c)
      PROVE  LoopInv'
  BY <1>3 DEF ReadStep, ReadNext, ReadNilContext, ReadFails, OnDisconnect, SendWake, FailPending,
              Receive, AnswerEnds, Lose, Sever
<1>4. ASSUME NEW r \in Sessions, LoopStep(r) \/ ParentCancels(r) PROVE LoopInv'
  BY <1>4, NoneAssumption
     DEF ClosedIsFinal, LoopStep, LoopStops, LoopWakes, LoopChecks, Redials, Redial, RedialFails, InstallRedialed,
         Install, Discard, LoopConfirms, DelayExpires, ParentCancels, RLoopAt
<1>5. CASE CallClose \/ CloseStep \/ CloseFailsPending
  BY <1>5, NoneAssumption
     DEF CallClose, CloseStep, CloseCancels, CloseAwaitsRead, CloseAwaitsLoop, CloseFailsPending
<1>6. CASE UNCHANGED vars
  BY <1>6 DEF vars
<1> QED
  BY <1>1, <1>2, <1>3, <1>4, <1>5, <1>6 DEF Next, ProgramStep, FailStep, Over

(* While a session stands and its client is disconnected, nobody but its loop  *)
(* moves the loop or takes its token, and nobody but a connector the           *)
(* connector.                                                                *)
LEMMA OnlyItself ==
  ASSUME RepairInv, [Next]_vars, NEW r \in Sessions, Idle(r)
  PROVE  /\ LoopStep(r) \/ (rloop'[r] = rloop[r] /\ (wake[r] => wake'[r]))
         /\ \A t \in Connectors : usess[t] = r =>
              ConnectStep(t) \/ (user'[t] = user[t] /\ usess'[t] = r)
         /\ \A c \in Conns : Waking(c, r) =>
              ReadStep(c) \/ FailPending(c) \/ (Waking(c, r)' /\ loop'[c] = loop[c])
<1> USE DEF RepairInv, TypeOK, sessVars, userVars, connVars, Waking
<1>0. r # None /\ \A t \in Connectors : usess[t] = r => user[t] # "idle"
  BY NoneAssumption DEF WakeInv, InvRegistered
<1>1. ASSUME NEW t \in Connectors, CallConnect(t) \/ \E s \in Sessions : CallConnectWithReconnect(t, s)
      PROVE  /\ UNCHANGED <<connVars, rloop[r], wake[r]>>
             /\ \A u \in Connectors : usess[u] = r => user'[u] = user[u] /\ usess'[u] = r
  BY <1>0, <1>1 DEF CallConnect, CallConnectWithReconnect, ReconnectRefused, Idle
<1>2. ASSUME NEW t \in Connectors, ConnectStep(t)
      PROVE  /\ UNCHANGED <<rloop, wake>>
             /\ \A u \in Connectors \ {t} : user'[u] = user[u] /\ usess'[u] = usess[u]
             /\ \A c \in Conns : Waking(c, r) => Waking(c, r)' /\ loop'[c] = loop[c]
  <2>1. CASE InstallConn(t)
    BY <2>1 DEF InstallConn, ConnectFails, Install, Discard, WakeInv, InvDial, Dialers
  <2>2. CASE ~InstallConn(t)
    BY <1>2, <2>2 DEF ConnectStep, CheckState, ConnectFails, DialFails, Dial, DisableReconnect,
                      CancelReconnect, ReconnectDisabled
  <2> QED
    BY <2>1, <2>2
<1>3. ASSUME NEW d \in Conns, ReadStep(d) \/ FailPending(d) \/ Receive(d) \/ AnswerEnds(d) \/ Lose(d) \/ Sever(d)
      PROVE  /\ rloop' = rloop /\ (wake[r] => wake'[r]) /\ UNCHANGED userVars
             /\ \A c \in Conns : Waking(c, r) =>
                  ReadStep(c) \/ FailPending(c) \/ (Waking(c, r)' /\ loop'[c] = loop[c])
  <2>1. ASSUME NEW c \in Conns \ {d}
        PROVE  loop'[c] = loop[c] /\ wakeOf'[c] = wakeOf[c]
    BY <1>3 DEF ReadStep, ReadNext, ReadNilContext, ReadFails, OnDisconnect, SendWake, FailPending,
                Receive, AnswerEnds, Lose, Sever
  <2>2. CASE Receive(d) \/ AnswerEnds(d) \/ Lose(d) \/ Sever(d)
    BY <2>1, <2>2 DEF Receive, AnswerEnds, Lose, Sever
  <2>3. rloop' = rloop /\ (wake[r] => wake'[r]) /\ UNCHANGED userVars
    BY <1>3 DEF ReadStep, ReadNext, ReadNilContext, ReadFails, OnDisconnect, SendWake, FailPending,
                Receive, AnswerEnds, Lose, Sever
  <2> HIDE DEF RepairInv, TypeOK
  <2> QED
    BY <1>3, <2>1, <2>2, <2>3
<1>4. ASSUME NEW s \in Sessions, LoopStep(s) \/ ParentCancels(s)
      PROVE  /\ UNCHANGED userVars
             /\ LoopStep(r) \/ (rloop'[r] = rloop[r] /\ wake'[r] = wake[r])
             /\ \A c \in Conns : Waking(c, r) => Waking(c, r)' /\ loop'[c] = loop[c]
  <2>1. \A c \in Conns : Waking(c, r) => Waking(c, r)' /\ loop'[c] = loop[c]
    <3>1. CASE InstallRedialed(s)
      <4>1. dialed[s] # None => loop[dialed[s]] = "done"
        BY DEF WakeInv, InvDial, Dialers
      <4> QED
        BY <3>1, <4>1 DEF InstallRedialed, RLoopAt, Install, Discard, WakeInv, InvDial
    <3>2. CASE ~InstallRedialed(s)
      BY <1>4, <3>2 DEF LoopStep, LoopStops, LoopWakes, LoopChecks, Redials, Redial, RedialFails, LoopConfirms,
                        DelayExpires, ParentCancels
    <3> QED
      BY <3>1, <3>2
  <2>2. UNCHANGED userVars
    BY <1>4 DEF LoopStep, LoopStops, LoopWakes, LoopChecks, Redials, Redial, RedialFails, InstallRedialed,
                LoopConfirms, DelayExpires, ParentCancels
  <2>3. ASSUME LoopStep(s), s # r PROVE rloop'[r] = rloop[r] /\ wake'[r] = wake[r]
    BY <2>3 DEF LoopStep, LoopStops, LoopWakes, LoopChecks, Redials, Redial, RedialFails, InstallRedialed,
                LoopConfirms, DelayExpires, RLoopAt
  <2>4. ASSUME ParentCancels(s) PROVE UNCHANGED <<rloop, wake>>
    BY <2>4 DEF ParentCancels
  <2> HIDE DEF RepairInv, TypeOK
  <2> QED
    BY <1>4, <2>1, <2>2, <2>3, <2>4
<1>5. CASE CallClose \/ CloseStep \/ CloseFailsPending
  BY <1>5 DEF CallClose, CloseStep, CloseCancels, CloseAwaitsRead, CloseAwaitsLoop, CloseFailsPending
<1>6. CASE UNCHANGED vars
  BY <1>6 DEF vars
<1> HIDE DEF RepairInv, TypeOK
<1>7. CASE \E t \in Connectors : \/ CallConnect(t)
                                 \/ \E s \in Sessions : CallConnectWithReconnect(t, s)
  BY <1>1, <1>7
<1>8. CASE \E t \in Connectors : ConnectStep(t)
  BY <1>2, <1>8
<1>9. CASE CallClose \/ CloseStep \/ CloseFailsPending \/ UNCHANGED vars
  BY <1>5, <1>6, <1>9
<1>10. CASE \E d \in Conns : ReadStep(d) \/ FailPending(d) \/ Receive(d) \/ AnswerEnds(d) \/ Lose(d) \/ Sever(d)
  BY <1>3, <1>10
<1>11. CASE \E s \in Sessions : LoopStep(s) \/ ParentCancels(s)
  BY <1>4, <1>11
<1> QED
  BY <1>7, <1>8, <1>9, <1>10, <1>11 DEF Next, ProgramStep, FailStep, Over

(* A connector that registered the session finds the client open and          *)
(* disconnected, dials, and installs its connection or drops the session.     *)
ConnectLeft(t) == CASE user[t] = "check" -> 3 [] user[t] = "dial" -> 2 [] OTHER -> 1
Registers(t, r, n) == usess[t] = r /\ ConnectLeft(t) \leq n
GivesUp(t, r, n) == <>(Registers(t, r, n) \/ ~Idle(r))

LEMMA ConnectProgress ==
  ASSUME NEW r \in Sessions, NEW t \in Connectors, NEW n \in Nat, NEW m \in Nat, m = n + 1
  PROVE  Repairs /\ Idle(r) /\ Registers(t, r, m) => GivesUp(t, r, n)
<1> DEFINE P == Registers(t, r, m) /\ ~Registers(t, r, n) /\ Idle(r)
           A == ~Panicked /\ ConnectStep(t)
<1>1. RepairInv /\ P => user[t] \in {"check", "dial", "install", "disable"} /\ ~closed /\ ConnectLeft(t) = m
  BY NoneAssumption DEF RepairInv, TypeOK, WakeInv, InvRegistered, ClosedIsFinal, Registers, Idle, ConnectLeft
<1>2. RepairInv /\ RepairInv' /\ P /\ ConnectStep(t) /\ Idle(r)' => Registers(t, r, n)'
  <2> SUFFICES ASSUME RepairInv, RepairInv', P, ConnectStep(t), Idle(r)' PROVE Registers(t, r, n)'
    OBVIOUS
  <2>1. user[t] = "check" => user'[t] = "dial"
    BY <1>1 DEF ConnectStep, CheckState, ConnectRefused, DialFails, Dial, InstallConn, DisableReconnect,
                CancelReconnect, ReconnectDisabled, Idle, RepairInv, TypeOK
  <2>2. user[t] = "dial" => user'[t] \in {"install", "disable"}
    BY <1>1, NoneAssumption
       DEF ConnectStep, CheckState, DialFails, ConnectFails, Dial, InstallConn, DisableReconnect,
           CancelReconnect, ReconnectDisabled, Registers, RepairInv, TypeOK
  <2>3. user[t] # "disable"
    BY <1>1, NoneAssumption
       DEF ConnectStep, CheckState, DialFails, Dial, InstallConn, DisableReconnect,
           CancelReconnect, ReconnectDisabled, Registers, Idle
  <2>4. user[t] # "install"
    BY <1>1, NoneAssumption
       DEF ConnectStep, CheckState, DialFails, Dial, InstallConn, InstallRefused, Install, DisableReconnect,
           CancelReconnect, ReconnectDisabled, Idle, RepairInv, WakeInv, InvDial
  <2>5. usess'[t] = r
    BY <1>1, <2>3, <2>4
       DEF ConnectStep, CheckState, ConnectFails, DialFails, Dial, InstallConn, DisableReconnect,
           CancelReconnect, ReconnectDisabled, Registers
  <2> QED
    BY <1>1, <2>1, <2>2, <2>3, <2>4, <2>5 DEF Registers, ConnectLeft
<1>3. RepairInv /\ RepairInv' /\ P /\ [Next]_vars => P' \/ Registers(t, r, n)' \/ ~Idle(r)'
  <2> SUFFICES ASSUME RepairInv, RepairInv', P, [Next]_vars, Idle(r)', ~ConnectStep(t)
               PROVE  P' \/ Registers(t, r, n)'
    BY <1>2
  <2>1. user'[t] = user[t] /\ usess'[t] = r
    BY OnlyItself DEF Registers
  <2> QED
    BY <2>1 DEF Registers, ConnectLeft
<1>4. RepairInv /\ P => ConnectReady(t) /\ ~Panicked
  BY <1>1 DEF ConnectReady, Idle
<1>5. Turns => ConnectTurn(t)
  BY DEF Turns, CloseTurns
<1> QED
  BY <1>2, <1>3, <1>4, <1>5, PTL DEF Repairs, ConnectTurn, GivesUp

LEMMA RegistrationEnds ==
  ASSUME NEW r \in Sessions, NEW t \in Connectors
  PROVE  Repairs /\ Idle(r) /\ usess[t] = r => <>~Idle(r)
<1>1. Repairs /\ Idle(r) /\ Registers(t, r, 3) => GivesUp(t, r, 2)
  BY ConnectProgress
<1>2. Repairs /\ Idle(r) /\ Registers(t, r, 2) => GivesUp(t, r, 1)
  BY ConnectProgress
<1>3. Repairs /\ Idle(r) /\ Registers(t, r, 1) => GivesUp(t, r, 0)
  BY ConnectProgress
<1>4. ~Registers(t, r, 0)
  BY DEF Registers, ConnectLeft
<1>5. usess[t] = r => Registers(t, r, 3)
  BY DEF Registers, ConnectLeft
<1> QED
  BY <1>1, <1>2, <1>3, <1>4, <1>5, PTL DEF Repairs, GivesUp

(* A read loop that is to wake the session gets to send the token.            *)
WakingEnds(c, r, x) == <>(rloop[r] # "wait" \/ wake[r] \/ ~Idle(r) \/ (Waking(c, r) /\ loop[c] = x))

LEMMA WakeProgress ==
  ASSUME NEW r \in Sessions, NEW c \in Conns
  PROVE  /\ Repairs /\ Idle(r) /\ Waking(c, r) /\ loop[c] = "fail" => WakingEnds(c, r, "wake")
         /\ Repairs /\ Idle(r) /\ Waking(c, r) /\ loop[c] = "wake" => <>(rloop[r] # "wait" \/ wake[r] \/ ~Idle(r))
<1> DEFINE A == ~Panicked /\ (ReadStep(c) \/ FailPending(c) \/ Receive(c))
<1> USE DEF Waking
<1>1. RepairInv /\ Waking(c, r) /\ (ReadStep(c) \/ FailPending(c) \/ Receive(c)) =>
        \/ loop[c] = "fail" /\ Waking(c, r)' /\ loop'[c] = "wake"
        \/ loop[c] = "wake" /\ wake'[r]
  BY NoneAssumption
     DEF RepairInv, TypeOK, ReadStep, ReadNext, ReadNilContext, ReadFails, OnDisconnect, SendWake, FailPending,
         Receive
<1>2. RepairInv /\ Idle(r) /\ Waking(c, r) /\ [Next]_vars /\ ~(ReadStep(c) \/ FailPending(c)) =>
        Waking(c, r)' /\ loop'[c] = loop[c]
  BY OnlyItself
<1>3. Idle(r) /\ Waking(c, r) => ReadReady(c) /\ ~Panicked
  BY DEF ReadReady, Idle
<1>4. Turns => ReadTurn(c)
  BY DEF Turns, CloseTurns
<1>5. Repairs /\ Idle(r) /\ Waking(c, r) /\ loop[c] = "fail" => WakingEnds(c, r, "wake")
  <2> DEFINE P == Idle(r) /\ Waking(c, r) /\ loop[c] = "fail"
             Q == Waking(c, r) /\ loop[c] = "wake"
  <2>1. RepairInv /\ P /\ [Next]_vars => P' \/ Q' \/ ~Idle(r)'
    BY <1>1, <1>2
  <2>2. RepairInv /\ P /\ <<A>>_vars => Q'
    BY <1>1
  <2>3. P => ReadReady(c) /\ ~Panicked
    BY <1>3
  <2> QED
    BY <1>4, <2>1, <2>2, <2>3, PTL DEF Repairs, ReadTurn, WakingEnds
<1>6. Repairs /\ Idle(r) /\ Waking(c, r) /\ loop[c] = "wake" => <>(rloop[r] # "wait" \/ wake[r] \/ ~Idle(r))
  <2> DEFINE P == Idle(r) /\ Waking(c, r) /\ loop[c] = "wake"
  <2>1. RepairInv /\ P /\ [Next]_vars => P' \/ wake[r]' \/ ~Idle(r)'
    BY <1>1, <1>2
  <2>2. RepairInv /\ P /\ <<A>>_vars => wake[r]'
    BY <1>1
  <2>3. P => ReadReady(c) /\ ~Panicked
    BY <1>3
  <2> QED
    BY <1>4, <2>1, <2>2, <2>3, PTL DEF Repairs, ReadTurn
<1> QED
  BY <1>5, <1>6

LEMMA WakingGivesToken ==
  ASSUME NEW r \in Sessions, NEW c \in Conns
  PROVE  Repairs /\ Idle(r) /\ Waking(c, r) => <>(rloop[r] # "wait" \/ wake[r] \/ ~Idle(r))
<1>1. Repairs /\ Idle(r) /\ Waking(c, r) /\ loop[c] = "fail" => WakingEnds(c, r, "wake")
  BY WakeProgress
<1>2. Repairs /\ Idle(r) /\ Waking(c, r) /\ loop[c] = "wake" => <>(rloop[r] # "wait" \/ wake[r] \/ ~Idle(r))
  BY WakeProgress
<1>3. Waking(c, r) => loop[c] \in {"fail", "wake"}
  BY DEF Waking
<1>4. loop[c] \in {"fail", "wake"} => loop[c] = "fail" \/ loop[c] = "wake"
  OBVIOUS
<1> QED
  BY <1>1, <1>2, <1>3, <1>4, PTL DEF Repairs, WakingEnds

(* A loop that is awake goes round: it looks, dials, and sleeps for the        *)
(* backoff; a dial that is tried for ever succeeds, and is installed.          *)
LEMMA BusyRepairs ==
  ASSUME NEW r \in Sessions
  PROVE  Repairs /\ Busy(r) => <>~Idle(r)
<1> DEFINE chk == rloop[r] = "check"
           dial == rloop[r] = "dial"
           inst == rloop[r] = "install"
           conf == rloop[r] = "confirm"
           dly == rloop[r] = "delay"
           wk == Woken(r)
           S == RepairInv /\ Idle(r)
           A == ~Panicked /\ LoopStep(r)
           B == ~Panicked /\ Redials(r)
<1>1. S /\ S' /\ LoopStep(r) =>
        \/ wk /\ chk'
        \/ chk /\ dial'
        \/ dial /\ (dly' \/ inst')
        \/ conf /\ dly'
        \/ dly /\ chk'
  <2> SUFFICES ASSUME S, S', LoopStep(r)
               PROVE  \/ wk /\ chk'
                      \/ chk /\ dial'
                      \/ dial /\ (dly' \/ inst')
                      \/ conf /\ dly'
                      \/ dly /\ chk'
    OBVIOUS
  <2> USE NoneAssumption DEF RepairInv, TypeOK, Idle, Woken, RLoopAt
  <2>1. ~closed /\ session # None
    BY DEF ClosedIsFinal
  <2>2. CASE LoopWakes(r)
    BY <2>2 DEF LoopWakes
  <2>3. CASE LoopChecks(r)
    BY <2>1, <2>3 DEF LoopChecks
  <2>4. CASE RedialFails(r) \/ \E c \in Conns : Redial(r, c)
    BY <2>4 DEF RedialFails, Redial
  <2>5. ~InstallRedialed(r)
    BY <2>1 DEF InstallRedialed, RedialRefused, Install, WakeInv, InvDial
  <2>6. CASE LoopConfirms(r)
    BY <2>6 DEF LoopConfirms
  <2>7. CASE DelayExpires(r)
    BY <2>7 DEF DelayExpires
  <2>8. ~LoopStops(r)
    BY DEF LoopStops
  <2> QED
    BY <2>2, <2>3, <2>4, <2>5, <2>6, <2>7, <2>8 DEF LoopStep, Redials
<1>2. S /\ [Next]_vars /\ ~LoopStep(r) =>
        (chk => chk') /\ (dial => dial') /\ (inst => inst') /\ (conf => conf') /\ (dly => dly') /\ (wk => wk')
  BY OnlyItself DEF Woken
<1>3. S /\ S' /\ [Next]_vars =>
        /\ wk => wk' \/ chk'
        /\ chk => chk' \/ dial'
        /\ dial => dial' \/ dly' \/ inst'
        /\ inst => inst'
        /\ conf => conf' \/ dly'
        /\ dly => dly' \/ chk'
  BY <1>1, <1>2 DEF Woken
<1>4. S /\ S' /\ <<A>>_vars =>
        (wk => chk') /\ (chk => dial') /\ (dial => dly' \/ inst') /\ ~inst /\ (conf => dly') /\ (dly => chk')
  BY <1>1 DEF Woken
<1>5. S /\ <<B>>_vars => inst'
  BY DEF Redials, Redial, RLoopAt, RepairInv, TypeOK
<1>6. S /\ Busy(r) => LoopReady(r) /\ ~Panicked
  BY DEF Busy, Woken, LoopReady, Idle
<1>7. S /\ dial /\ (\E c \in Conns : FreshConn(c)) => RedialReady(r) /\ ~Panicked
  BY DEF RedialReady, Idle
<1>8. Busy(r) <=> wk \/ chk \/ dial \/ inst \/ conf \/ dly
  BY DEF Busy
<1>9. Turns => LoopTurn(r) /\ RedialTurn(r)
  BY DEF Turns, CloseTurns
<1> HIDE DEF chk, dial, inst, conf, dly, wk
<1> QED
  BY <1>3, <1>4, <1>5, <1>6, <1>7, <1>8, <1>9, PTL DEF Repairs, LoopTurn, RedialTurn

LEMMA IdleEnds == ASSUME NEW r \in Sessions PROVE Repairs /\ Idle(r) => <>~Idle(r)
<1>1. Repairs /\ (\E t \in Connectors : usess[t] = r) /\ Idle(r) => <>~Idle(r)
  BY RegistrationEnds
<1>2. Repairs /\ (\E c \in Conns : Waking(c, r)) /\ Idle(r)
        => <>(rloop[r] # "wait" \/ wake[r] \/ ~Idle(r))
  BY WakingGivesToken
<1>3. Repairs /\ Busy(r) => <>~Idle(r)
  BY BusyRepairs
<1>4. RepairInv /\ Idle(r) =>
        Busy(r) \/ (\E t \in Connectors : usess[t] = r) \/ (\E c \in Conns : Waking(c, r))
  BY DEF RepairInv, TypeOK, WakeInv, NoLostWakeup, LoopInv, Idle, Busy, Woken, Waking
<1>5. RepairInv /\ Idle(r) /\ (rloop[r] # "wait" \/ wake[r]) => Busy(r)
  BY DEF RepairInv, TypeOK, LoopInv, Idle, Busy, Woken
<1> QED
  BY <1>1, <1>2, <1>3, <1>4, <1>5, PTL DEF Repairs

(* At any time the program refers to finitely many connections, so that a      *)
(* dial can always make a new one.                                           *)
InUse == {c \in Conns : ~FreshConn(c)}

LEMMA InUseGrows ==
  ASSUME TypeOK, [Next]_vars
  PROVE  \E d \in Conns \cup {None} : InUse' \subseteq InUse \cup {d}
<1> DEFINE Kept(c) == FreshConn(c) => FreshConn(c)'
<1> SUFFICES \E d \in Conns \cup {None} : \A c \in Conns \ {d} : Kept(c)
  BY DEF InUse
<1> USE DEF TypeOK, FreshConn, Dialers, clientVars, connVars
<1>1. ASSUME NEW t \in Connectors, CallConnect(t) \/ \E r \in Sessions : CallConnectWithReconnect(t, r)
      PROVE  \A c \in Conns : Kept(c)
  BY <1>1 DEF CallConnect, CallConnectWithReconnect
<1>2. ASSUME NEW t \in Connectors, NEW d \in Conns, Dial(t, d)
      PROVE  \A c \in Conns \ {d} : Kept(c)
  BY <1>2 DEF Dial
<1>3. ASSUME NEW r \in Sessions, NEW d \in Conns, Redial(r, d)
      PROVE  \A c \in Conns \ {d} : Kept(c)
  BY <1>3 DEF Redial
<1>4. ASSUME NEW t \in Connectors, InstallConn(t) PROVE \A c \in Conns : Kept(c)
  BY <1>4 DEF InstallConn, Install, Discard
<1>5. ASSUME NEW r \in Sessions, InstallRedialed(r) PROVE \A c \in Conns : Kept(c)
  BY <1>5 DEF InstallRedialed, Install, Discard
<1>6. ASSUME NEW t \in Connectors, CheckState(t) \/ DialFails(t) \/ DisableReconnect(t)
                                     \/ CancelReconnect(t) \/ ReconnectDisabled(t)
      PROVE  \A c \in Conns : Kept(c)
  BY <1>6 DEF CheckState, DialFails, DisableReconnect, CancelReconnect, ReconnectDisabled
<1>7. ASSUME NEW d \in Conns, ReadNext(d) PROVE \A c \in Conns \ {rxCtx} : Kept(c)
  BY <1>7 DEF ReadNext
<1>8. ASSUME NEW d \in Conns, ReadNilContext(d) \/ ReadFails(d) \/ OnDisconnect(d) \/ SendWake(d)
                                 \/ FailPending(d) \/ Receive(d) \/ AnswerEnds(d) \/ Lose(d) \/ Sever(d)
      PROVE  \A c \in Conns : Kept(c)
  BY <1>8 DEF ReadNilContext, ReadFails, OnDisconnect, SendWake, FailPending, Receive, AnswerEnds, Lose, Sever
<1>9. ASSUME NEW r \in Sessions, LoopStops(r) \/ LoopWakes(r) \/ LoopChecks(r) \/ RedialFails(r)
                                    \/ LoopConfirms(r) \/ DelayExpires(r) \/ ParentCancels(r)
      PROVE  \A c \in Conns : Kept(c)
  BY <1>9 DEF LoopStops, LoopWakes, LoopChecks, RedialFails, LoopConfirms, DelayExpires, ParentCancels
<1>10. CASE CallClose \/ CloseStep \/ CloseFailsPending
  BY <1>10 DEF CallClose, CloseStep, CloseCancels, CloseAwaitsRead, CloseAwaitsLoop, CloseFailsPending
<1>11. CASE UNCHANGED vars
  BY <1>11 DEF vars
<1> HIDE DEF Kept
<1>12. ASSUME NEW t \in Connectors, ConnectStep(t)
       PROVE  \E d \in Conns \cup {None} : \A c \in Conns \ {d} : Kept(c)
  BY <1>2, <1>4, <1>6, <1>12 DEF ConnectStep
<1>13. ASSUME NEW r \in Sessions, LoopStep(r) \/ ParentCancels(r)
       PROVE  \E d \in Conns \cup {None} : \A c \in Conns \ {d} : Kept(c)
  BY <1>3, <1>5, <1>9, <1>13 DEF LoopStep, Redials
<1>14. ASSUME NEW e \in Conns, ReadStep(e) \/ FailPending(e) \/ Receive(e) \/ AnswerEnds(e) \/ Lose(e) \/ Sever(e)
       PROVE  \E d \in Conns \cup {None} : \A c \in Conns \ {d} : Kept(c)
  BY <1>7, <1>8, <1>14 DEF ReadStep
<1> QED
  BY <1>1, <1>10, <1>11, <1>12, <1>13, <1>14 DEF Next, ProgramStep, FailStep, Over

LEMMA NewConnections == ASSUME ~IsFiniteSet(Conns) PROVE Spec => [](\E c \in Conns : FreshConn(c))
<1>1. Init => IsFiniteSet(InUse)
  <2> SUFFICES ASSUME Init PROVE InUse = {}
    BY FS_EmptySet
  <2> QED
    BY NoneAssumption DEF Init, InUse, FreshConn, Dialers
<1>2. TypeOK /\ IsFiniteSet(InUse) /\ [Next]_vars => IsFiniteSet(InUse)'
  <2> SUFFICES ASSUME TypeOK, IsFiniteSet(InUse), [Next]_vars PROVE IsFiniteSet(InUse')
    OBVIOUS
  <2>1. PICK d \in Conns \cup {None} : InUse' \subseteq InUse \cup {d}
    BY InUseGrows
  <2> QED
    BY <2>1, FS_AddElement, FS_Subset
<1>3. IsFiniteSet(InUse) => \E c \in Conns : FreshConn(c)
  <2> SUFFICES ASSUME IsFiniteSet(InUse), ~\E c \in Conns : FreshConn(c) PROVE FALSE
    OBVIOUS
  <2>1. InUse = Conns
    BY DEF InUse
  <2> QED
    BY <2>1
<1> QED
  BY <1>1, <1>2, <1>3, TypeCorrect, PTL DEF Spec

(* A client whose connection dropped gets another one, as long as its session  *)
(* stands and is not cancelled, whichever calls of Connect it overlaps with.   *)
(* The identities of connections are not used up, since a dial makes a new one. *)
THEOREM ReconnectsCorrect ==
  ASSUME ~IsFiniteSet(Conns)
  PROVE  Spec /\ []Turns => Reconnects
<1>1. Init => WakeInv /\ LoopInv
  BY NoneAssumption DEF Init, WakeInv, InvDial, InvRegistered, NoLostWakeup, LoopInv, Dialers
<1>2. TypeOK /\ ClosedIsFinal /\ WakeInv /\ LoopInv /\ [Next]_vars => WakeInv' /\ LoopInv'
  BY WakeNext, LoopInvNext
<1>3. Spec => []RepairInv
  BY <1>1, <1>2, TypeCorrect, CloseIsFinal, PTL DEF Spec, RepairInv
<1>4. ASSUME NEW r \in Sessions
      PROVE  Repairs => (session = r /\ ws = None ~> ws # None \/ session # r \/ rctxDone[r] \/ Panicked)
  <2>1. Repairs /\ Idle(r) => <>~Idle(r)
    BY IdleEnds
  <2>2. ~Idle(r) <=> ws # None \/ session # r \/ rctxDone[r] \/ Panicked
    BY DEF Idle
  <2> QED
    BY <2>1, <2>2, PTL DEF Repairs
<1>5. Repairs => Reconnects
  BY <1>4 DEF Reconnects
<1> QED
  BY <1>3, <1>5, NewConnections, PTL DEF Spec, Repairs
=============================================================================
